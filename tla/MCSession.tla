----------------------------- MODULE MCSession ------------------------------
(***************************************************************************)
(* The parts of a session from the handshake to play, checked in one run.  *)
(* Each behaviour is that of one part, chosen at first; the other parts    *)
(* keep an initial state, so the states are those of the parts side by     *)
(* side and not their product.                                             *)
(***************************************************************************)
EXTENDS Session, TLC

CONSTANTS home, mid, far

VARIABLE part

\* A creature and a monster may each meet every set of the facts their goals ask for.
MCCircumstances ==
  SUBSET {"tempted_far", "owner_far", "owner_near", "mate_about", "leader_about", "wander_due"}
    \cup SUBSET {"wander_due", "target_alive", "target_in_range"}

\* Two columns of four cells: sand over stone beside water over dirt, and sand that an
\* earlier session left hanging.
Slab(rows) == [c \in (1..2) \X (0..3) |-> rows[c[2] + 1][c[1]]]
MCTerrain == {Slab(<< <<"bedrock", "bedrock">>, <<"stone", "dirt">>, <<"sand", "water">>,
                      <<"sand", "air">> >>),
              Slab(<< <<"bedrock", "bedrock">>, <<"stone", "dirt">>, <<"air", "water">>,
                      <<"sand", "air">> >>)}
MCReachable == {<<1, 1>>, <<1, 2>>, <<2, 1>>}
MCStock == [dirt |-> 1, sand |-> 0]

\* A hotbar of two slots and the off hand.  The crop stands for all that is mined, placed,
\* eaten and fed.
MCLimit == "shield" :> 1 @@ "bow" :> 1 @@ "arrow" :> 2 @@ "crop" :> 2
MCWears == [i \in DOMAIN MCLimit |-> IF i \in {"shield", "bow"} THEN 2 ELSE 0]
MCKit == 0 :> [item |-> "shield", count |-> 1, wear |-> 0]
           @@ 1 :> [item |-> "bow", count |-> 1, wear |-> 0]

\* Two players at a grid of two cells whose output takes no logs.  A token is what a recipe
\* of empty cells makes of an empty grid, and is worth nothing.
Some(i, n) == [item |-> i, count |-> n]
Wood == "log" :> 2 @@ "planks" :> 5 @@ "stick" :> 4 @@ "token" :> 1
MCWorth == "log" :> 8 @@ "planks" :> 2 @@ "stick" :> 1 @@ "token" :> 0
MCAccepted == "grid" :> <<DOMAIN Wood, DOMAIN Wood>>
                @@ "output" :> <<{"planks", "stick", "token"}>>
MCStart == [p \in Crafters |-> IF p = "p1" THEN Some("log", 1) ELSE Some("air", 0)]
Planks == [id |-> "planks", kind |-> "shapeless", width |-> 0, height |-> 0,
           cells |-> <<{"log"}>>, result |-> Some("planks", 4)]
Sticks == [id |-> "stick", kind |-> "shaped", width |-> 2, height |-> 1,
           cells |-> <<{"planks"}, {"planks"}>>, result |-> Some("stick", 4)]
Tool == [Sticks EXCEPT !.id = "tool", !.cells = <<{"planks"}, {"stick", "string"}>>,
                       !.result = Some("stick", 3)]
TooMany == [Sticks EXCEPT !.id = "many", !.result = Some("stick", 9)]
TooWide == [Sticks EXCEPT !.id = "wide", !.width = 4, !.cells = <<{}, {}, {}, {"log"}>>]
Blank == [Sticks EXCEPT !.id = "blank", !.cells = <<{}, {}>>, !.result = Some("token", 1)]
MCKnown == <<Sticks>>
\* One stream is loaded with two records skipped, one is abandoned, one has the blank recipe.
MCStreams == {<<Planks, Sticks, TooMany, Tool>>, <<TooWide, Planks>>, <<Blank>>}

\* A row of three places whose windows overlap: the ends are too far apart for one step.
MCNear == {<<p, p>> : p \in {home, mid, far}}
            \cup {<<home, mid>>, <<mid, home>>, <<mid, far>>, <<far, mid>>}
MCWindow == home :> {1, 2, 3} @@ mid :> {2, 3, 4} @@ far :> {4, 5, 6}

\* How strict a policy is: left out, offered or required.
Strict(offered, required) == IF required THEN 2 ELSE IF offered THEN 1 ELSE 0

\* Every pair of policies for encryption, query and resource pack, with one of the third;
\* transfers, status requests and rate-limited connections with the strictest.
MCConfigs ==
  {c \in [intention : {"status", "login", "transfer"}, rate_limited : BOOLEAN,
          online : BOOLEAN, encrypted_offline : BOOLEAN, query : BOOLEAN,
          require_query : BOOLEAN, pack : BOOLEAN, require_pack : BOOLEAN] :
     LET sum == Strict(c.encrypted_offline, c.online) + Strict(c.query, c.require_query)
                  + Strict(c.pack, c.require_pack)
     IN  IF c.intention = "login" /\ ~c.rate_limited THEN sum % 3 = 0 ELSE sum = 6}

MCInit ==
  /\ part \in {"mob", "blocks", "body", "items", "table", "play", "login"}
  /\ Init /\ B!Init /\ S!Init /\ H!Init /\ C!Init /\ P!Init /\ L!Init
  /\ part # "mob" => category = "monster"
  /\ part # "blocks" => blockMode = "creative"
  /\ blockMode = "creative" <=> B!Hanging # {}
  /\ part # "body" => difficulty = "hard"
  /\ part # "login" => config.intention = "status" /\ config.rate_limited /\ joiner.genuine
  /\ part # "table" => stream = <<TooWide, Planks>>

Mob(A) ==
  /\ part = "mob" /\ A
  /\ UNCHANGED <<part, blockVars, bodyVars, itemVars, tableVars, playVars, loginVars>>
Blocks(A) ==
  /\ part = "blocks" /\ A
  /\ UNCHANGED <<part, mobVars, bodyVars, itemVars, tableVars, playVars, loginVars>>
Body(A) ==
  /\ part = "body" /\ A
  /\ UNCHANGED <<part, mobVars, blockVars, itemVars, tableVars, playVars, loginVars>>
Bar(A) ==
  /\ part = "items" /\ A
  /\ UNCHANGED <<part, mobVars, blockVars, bodyVars, tableVars, playVars, loginVars>>
Table(A) ==
  /\ part = "table" /\ A
  /\ UNCHANGED <<part, mobVars, blockVars, bodyVars, itemVars, playVars, loginVars>>
Talk(A) ==
  /\ part = "play" /\ A
  /\ UNCHANGED <<part, mobVars, blockVars, bodyVars, itemVars, tableVars, loginVars>>
Join(A) ==
  /\ part = "login" /\ A
  /\ UNCHANGED <<part, mobVars, blockVars, bodyVars, itemVars, tableVars, playVars>>

MCNext ==
  \/ Mob(BeforeTick)
  \/ Mob(Select)
  \/ Mob(ContinueStep)
  \/ Mob(StartStep)
  \/ Mob(TickStep)
  \/ Mob(Hurt)
  \/ Mob(NotifyDamage)
  \/ Mob(SetTarget)
  \/ Mob(Tame)
  \/ Mob(ToggleSitting)
  \/ Blocks(B!BlockTick)
  \/ \E c \in B!Cells : Blocks(B!StartBreak(c))
  \/ \E c \in B!Cells : Blocks(B!StopBreak(c))
  \/ \E c \in B!Cells : Blocks(B!AbortBreak(c))
  \/ \E c \in B!Cells : Blocks(B!Place(c))
  \/ \E item \in B!Items \cup {"wooden_pickaxe"} : Blocks(B!Hold(item))
  \/ Body(S!GameTick)
  \/ Body(S!Move)
  \/ Body(S!Attack)
  \/ Body(S!UseFood)
  \/ Body(S!UseShield)
  \/ Body(S!ReleaseUse)
  \/ Body(S!EffectGive)
  \/ Body(S!EffectClear)
  \/ Body(S!SetMode)
  \/ Body(S!Abilities)
  \/ Body(S!SetDifficulty)
  \/ Body(S!Kill)
  \/ Body(S!Respawn)
  \/ \E n \in 1..2, lethal \in BOOLEAN : Bar(H!BlockedHit(n, lethal))
  \/ \E s \in DOMAIN ground : Bar(H!Pickup(s))
  \/ \E s \in DOMAIN ground : Bar(H!Expire(s))
  \/ \E keep \in BOOLEAN : Bar(H!KillPlayer(keep))
  \/ Bar(H!Respawn)
  \/ \E i \in H!Items, n \in 1..MaxGiven : Bar(H!Give(i, n))
  \/ \E is \in {{i} : i \in H!Items} \cup {H!Items} : Bar(H!Clear(is))
  \/ \E m \in BarModes : Bar(H!SetMode(m))
  \/ Bar(H!UseOnAnimal)
  \/ \E i \in H!Items : Bar(H!Pick(i))
  \/ \E k \in H!Slots, s \in {H!Empty} \cup {t \in H!Stacks : t.wear = 0} : Bar(H!CreativeSlot(k, s))
  \/ \E all \in BOOLEAN : Bar(H!Drop(all))
  \/ Bar(H!Swap)
  \/ Bar(H!Lower)
  \/ \E d \in {H!Empty} \cup {H!Stack(i, 1) : i \in Mined} : Bar(H!Mine(d))
  \/ \E k \in H!Hotbar : Bar(H!SetCarried(k))
  \/ Bar(H!Place)
  \/ \E h \in H!Hands : Bar(H!Raise(h))
  \/ \E h \in H!Hands : Bar(H!Eat(h))
  \/ \E h \in H!Hands, recovered \in BOOLEAN : Bar(H!Shoot(h, recovered))
  \/ \E p \in Crafters, c \in C!Boxes : Table(C!Look(p, c))
  \/ \E p \in Crafters, c \in C!Boxes : \E k \in C!Slots(c) : Table(C!Exchange(p, c, k))
  \/ \E p \in Crafters, c \in C!Boxes : Table(C!InsertCursor(p, c))
  \/ \E p \in Crafters, c \in C!Boxes : \E k \in C!Slots(c), n \in 1..2 : Table(C!TakeToCursor(p, c, k, n))
  \/ \E p \in Crafters : \E j, k \in C!Slots(seen[p].of) : Table(C!Transact(p, j, k))
  \/ Table(C!CraftOnce)
  \/ Table(C!Load)
  \/ Talk(P!DropFromDead)
  \/ Talk(P!HandleAccept)
  \/ Talk(P!HandleMove)
  \/ Talk(P!HandleTp)
  \/ Talk(P!HandleKill)
  \/ Talk(P!HandleRespawn)
  \/ Talk(P!HandleKeepAlive)
  \/ Talk(P!Hurt)
  \/ Talk(P!Tick)
  \/ Talk(P!ClientReceives)
  \/ Talk(P!ClientAsks)
  \/ \E p \in {home, mid, far} : Talk(P!ClientMoves(p))
  \/ Join(L!ServerStep)
  \/ Join(L!ClientStarts)
  \/ Join(L!ClientReads)
  \/ Join(L!ClientResponds)
  \/ Join(L!ClientMisbehaves)
  \/ Join(L!ClientLeaves)

MCSpec == MCInit /\ [][MCNext]_<<part, mobVars, blockVars, bodyVars, itemVars, tableVars, playVars, loginVars>>
=============================================================================

----------------------------- MODULE WorldState -----------------------------
(***************************************************************************)
(* The scalar state of a World (world.cpp): clocks, weather, border, game  *)
(* rules and difficulty, the commands and the game tick that change it,    *)
(* what the session's client is sent of it, and level.mcd, which holds it  *)
(* between sessions.  Every session has a World of its own and saves it by *)
(* writing level.mcd.tmp and renaming it (storage.cpp); sessions of one    *)
(* process share both names.  Opening truncates, and a descriptor follows  *)
(* its file through a rename.  Chunks are the subject of WorldStore.       *)
(***************************************************************************)
EXTENDS Integers

CONSTANTS
  Sessions,
  Hardcore,           \* config_.hardcore
  FullRain,           \* steps of the fade of rain and thunder: 100
  Durations,          \* durations of weather and border changes, in ticks
  Sizes,              \* border sizes
  Difficulties,       \* difficulties chosen, numbered as in the code
  RulesSet,           \* game rules that are set, of RuleNames
  MaxTicks,           \* bound on the game ticks
  MaxCommands,        \* bound on the commands
  MaxSaves            \* bound on the saves

VARIABLES
  phase,      \* what each session does
  leaving,    \* the save is the destructor's
  world,      \* each session's World
  client,     \* what each session's client was sent
  level,      \* level.mcd
  tmp,        \* level.mcd.tmp
  fd,         \* the file each session writes: one of the two, or one without a name
  kept,       \* the world that was saved last
  shared,     \* two sessions have been running at once
  ticks, commands, saves

vars == <<phase, leaving, world, client, level, tmp, fd, kept, shared, ticks, commands, saves>>

RuleNames == {"keepInventory", "doDaylightCycle", "doWeatherCycle", "doMobSpawning"}
Hard == 3

\* What the constants have in common with the code's.
StateConstants ==
  /\ Hardcore \in BOOLEAN /\ FullRain \in Nat
  /\ Durations \subseteq Nat /\ Durations # {} /\ Sizes \subseteq Int /\ Sizes # {}
  /\ Difficulties \subseteq Nat /\ RulesSet \subseteq RuleNames
  /\ {MaxTicks, MaxCommands, MaxSaves} \subseteq Nat
Middle == CHOOSE n \in Sizes : TRUE

\* WorldSettings and saved_rule: the state of a world that was never saved.
Fresh ==
  [day |-> 0, advance |-> TRUE, raining |-> FALSE, thundering |-> FALSE,
   duration |-> CHOOSE d \in Durations : TRUE, cycle |-> TRUE,
   rainLevel |-> 0, thunderLevel |-> 0, difficulty |-> 1,
   border |-> [center |-> 0, size |-> Middle, start |-> Middle, target |-> Middle,
               total |-> 0, remaining |-> 0, warning |-> 0],
   rules |-> [r \in RuleNames |-> r # "keepInventory"]]

File(kind, w) == [kind |-> kind, world |-> w]
Missing == File("absent", Fresh)
Torn == File("torn", Fresh)

---------------------------------------------------------------------------
(* World.                                                                  *)

\* tick_border
TickBorder(b) ==
  IF b.remaining = 0 THEN b
  ELSE LET left == b.remaining - 1
           size == b.start + ((b.target - b.start) * (b.total - left)) \div b.total
       IN  IF left > 0 THEN [b EXCEPT !.remaining = left, !.size = size]
           ELSE [b EXCEPT !.remaining = 0, !.size = b.target, !.start = b.target, !.total = 0]

Faded(x, up) == IF up THEN (IF x < FullRain THEN x + 1 ELSE x)
                ELSE (IF x > 0 THEN x - 1 ELSE x)

\* tick_time, tick_border and tick_weather: the weather turns when its duration is over.
Ticked(w, thunder, duration) ==
  LET turns == w.cycle /\ w.duration <= 1
      raining == IF turns THEN ~w.raining ELSE w.raining
      thundering == IF turns THEN raining /\ thunder ELSE w.thundering
  IN  [w EXCEPT !.day = IF w.advance THEN @ + 1 ELSE @,
                !.border = TickBorder(@),
                !.raining = raining, !.thundering = thundering,
                !.duration = IF turns THEN duration ELSE IF w.cycle THEN @ - 1 ELSE @,
                !.rainLevel = Faded(@, raining), !.thunderLevel = Faded(@, thundering)]

Weathered(w, raining, thunder, d) ==
  [w EXCEPT !.raining = raining, !.thundering = raining /\ thunder, !.duration = d]

Resized(b, n) == [b EXCEPT !.size = n, !.start = n, !.target = n, !.total = 0, !.remaining = 0]
Lerping(b, n, d) == [b EXCEPT !.start = b.size, !.target = n, !.total = d, !.remaining = d]

\* set_game_rule, and the flags of the world that two of the rules set
Ruled(w, r, on) ==
  [w EXCEPT !.rules[r] = on,
            !.advance = IF r = "doDaylightCycle" THEN on ELSE @,
            !.cycle = IF r = "doWeatherCycle" THEN on ELSE @]

\* What the packets of the join tell of a world.
Known(w) ==
  [rules |-> w.rules, difficulty |-> w.difficulty, raining |-> w.raining,
   rainLevel |-> w.rainLevel, thunderLevel |-> w.thunderLevel,
   center |-> w.border.center, target |-> w.border.target, warning |-> w.border.warning]

Init ==
  /\ phase = [s \in Sessions |-> "out"] /\ leaving = [s \in Sessions |-> FALSE]
  /\ world = [s \in Sessions |-> Fresh] /\ client = [s \in Sessions |-> Known(Fresh)]
  /\ level = Missing /\ tmp = Missing /\ fd = [s \in Sessions |-> "none"]
  /\ kept = Missing /\ shared = FALSE /\ ticks = 0 /\ commands = 0 /\ saves = 0

---------------------------------------------------------------------------
(* A session starts: the world is constructed and the client joins.        *)

Files == <<level, tmp, fd, kept, saves>>
Counts == <<ticks, commands>>

Read(s) == IF level.kind = "absent" THEN world[s] ELSE level.world

\* load_persisted_settings; a file that cannot be read ends the session at once.
LoadSettings(s) ==
  /\ phase[s] = "out" /\ level.kind # "torn"
  /\ phase' = [phase EXCEPT ![s] = "loading"]
  /\ world' = [world EXCEPT ![s] = IF level.kind = "absent" THEN Fresh
                 ELSE [level.world EXCEPT !.border = Fresh.border, !.rules = Fresh.rules]]
  /\ shared' = (shared \/ \E t \in Sessions \ {s} : phase[t] # "out")
  /\ UNCHANGED <<leaving, client, Files, Counts>>

\* World::World reads the file again, for the border and the rules; the session sets what
\* the rules say and sends the client the state of the world.
Join(s) ==
  LET rules == Read(s).rules
      joined == [world[s] EXCEPT !.border = Read(s).border, !.rules = rules,
                   !.advance = rules["doDaylightCycle"], !.cycle = rules["doWeatherCycle"],
                   !.difficulty = IF Hardcore THEN Hard ELSE @]
  IN  /\ phase[s] = "loading"
      /\ \/ /\ level.kind # "torn"
            /\ phase' = [phase EXCEPT ![s] = "in"]
            /\ world' = [world EXCEPT ![s] = joined]
            /\ client' = [client EXCEPT ![s] = Known(joined)]
         \/ /\ level.kind = "torn"
            /\ phase' = [phase EXCEPT ![s] = "out"]
            /\ world' = [world EXCEPT ![s] = Fresh] /\ UNCHANGED client
      /\ UNCHANGED <<leaving, shared, Files, Counts>>

---------------------------------------------------------------------------
(* The game tick and the commands of a session.                            *)

\* The level of the rain is sent only when the weather turns.
MutTick(s, thunder, duration) ==
  LET now == Ticked(world[s], thunder, duration)
      turned == now.raining # world[s].raining
  IN  /\ phase[s] = "in" /\ ticks < MaxTicks /\ ticks' = ticks + 1
      /\ world' = [world EXCEPT ![s] = now]
      /\ client' = [client EXCEPT ![s].raining = now.raining,
                                  ![s].rainLevel = IF turned THEN now.rainLevel ELSE @,
                                  ![s].thunderLevel = now.thunderLevel]
      /\ UNCHANGED <<phase, leaving, shared, Files, commands>>

\* The turn of the weather and the levels that moved are sent.
Tick(s, thunder, duration) ==
  LET now == Ticked(world[s], thunder, duration)
  IN  /\ phase[s] = "in" /\ ticks < MaxTicks /\ ticks' = ticks + 1
      /\ world' = [world EXCEPT ![s] = now]
      /\ client' = [client EXCEPT ![s].raining = now.raining, ![s].rainLevel = now.rainLevel,
                                  ![s].thunderLevel = now.thunderLevel]
      /\ UNCHANGED <<phase, leaving, shared, Files, commands>>

\* A command makes the world w and the client's knowledge c.
Commanded(s, w, c) ==
  /\ phase[s] = "in" /\ commands < MaxCommands /\ commands' = commands + 1
  /\ world' = [world EXCEPT ![s] = w] /\ client' = [client EXCEPT ![s] = c]
  /\ UNCHANGED <<phase, leaving, shared, Files, ticks>>

TimeSet(s, day) == Commanded(s, [world[s] EXCEPT !.day = day], client[s])

Weather(s, raining, thunder, d) ==
  Commanded(s, Weathered(world[s], raining, thunder, d), [client[s] EXCEPT !.raining = raining])

GameRule(s, r, on) == Commanded(s, Ruled(world[s], r, on), [client[s] EXCEPT !.rules[r] = on])

Difficulty(s, d) ==
  ~Hardcore /\ Commanded(s, [world[s] EXCEPT !.difficulty = d], [client[s] EXCEPT !.difficulty = d])

BorderCenter(s, n) ==
  Commanded(s, [world[s] EXCEPT !.border.center = n], [client[s] EXCEPT !.center = n])

BorderSet(s, n) ==
  Commanded(s, [world[s] EXCEPT !.border = Resized(@, n)], [client[s] EXCEPT !.target = n])

BorderLerp(s, n, d) ==
  Commanded(s, [world[s] EXCEPT !.border = Lerping(@, n, d)], [client[s] EXCEPT !.target = n])

BorderWarning(s, n) ==
  Commanded(s, [world[s] EXCEPT !.border.warning = n], [client[s] EXCEPT !.warning = n])

---------------------------------------------------------------------------
(* save_all and save_metadata.                                             *)

\* The metadata of the last save is written, with the rules it had.
MutPayload(s) == [world[s] EXCEPT !.rules = IF kept = Missing THEN @ ELSE kept.world.rules]

\* The metadata that save_all makes of a world.
Payload(s) == world[s]

\* level.mcd itself is opened.
MutOpen(s, last) ==
  /\ level' = Torn /\ fd' = [fd EXCEPT ![s] = "level"] /\ UNCHANGED tmp
  /\ phase' = [phase EXCEPT ![s] = "opened"] /\ leaving' = [leaving EXCEPT ![s] = last]

\* level.mcd.tmp is opened and truncated.
Open(s, last) ==
  /\ tmp' = Torn /\ fd' = [fd EXCEPT ![s] = "tmp"] /\ UNCHANGED level
  /\ phase' = [phase EXCEPT ![s] = "opened"] /\ leaving' = [leaving EXCEPT ![s] = last]

\* The autosave of a tick, or the destructor when the session ends.
Save(s, last) ==
  /\ phase[s] = "in" /\ saves < MaxSaves /\ saves' = saves + 1
  /\ Open(s, last)
  /\ UNCHANGED <<world, client, kept, shared, Counts>>

\* The payload is written over what another session may have written since.
Write(s) ==
  /\ phase[s] = "opened" /\ phase' = [phase EXCEPT ![s] = "written"]
  /\ \E f \in {File("whole", Payload(s)), Torn} :
       /\ f = Torn => (fd[s] = "tmp" /\ tmp.kind = "whole") \/ (fd[s] = "level" /\ level.kind = "whole")
       /\ tmp' = IF fd[s] = "tmp" THEN f ELSE tmp
       /\ level' = IF fd[s] = "level" THEN f ELSE level
  /\ UNCHANGED <<leaving, world, client, fd, kept, shared, saves, Counts>>

\* rename: who else had the temporary file open has level.mcd open now.
Rename(s) ==
  /\ phase[s] = "written" /\ tmp.kind # "absent"
  /\ level' = tmp /\ tmp' = Missing
  /\ fd' = [t \in Sessions |-> IF t = s THEN "none"
                               ELSE IF fd[t] = "tmp" THEN "level"
                               ELSE IF fd[t] = "level" THEN "unnamed" ELSE fd[t]]
  /\ kept' = File("whole", world[s])
  /\ phase' = [phase EXCEPT ![s] = IF leaving[s] THEN "out" ELSE "in"]
  /\ world' = [world EXCEPT ![s] = IF leaving[s] THEN Fresh ELSE @]
  /\ UNCHANGED <<leaving, client, shared, saves, Counts>>

\* The temporary file is gone: rename throws.  The session ends, and the destructor saves
\* again; what it throws is dropped.
RenameFails(s) ==
  /\ phase[s] = "written" /\ tmp.kind = "absent"
  /\ IF leaving[s]
     THEN /\ phase' = [phase EXCEPT ![s] = "out"] /\ fd' = [fd EXCEPT ![s] = "none"]
          /\ world' = [world EXCEPT ![s] = Fresh]
          /\ UNCHANGED <<leaving, level, tmp>>
     ELSE Open(s, TRUE) /\ UNCHANGED world
  /\ UNCHANGED <<client, kept, shared, saves, Counts>>

\* The process ends between any two steps: the files stay as they are.
Crash ==
  /\ \E s \in Sessions : phase[s] # "out"
  /\ phase' = [s \in Sessions |-> "out"] /\ fd' = [s \in Sessions |-> "none"]
  /\ world' = [s \in Sessions |-> Fresh]
  /\ UNCHANGED <<leaving, client, level, tmp, kept, shared, saves, Counts>>

Next ==
  \/ \E s \in Sessions : LoadSettings(s)
  \/ \E s \in Sessions : Join(s)
  \/ \E s \in Sessions, thunder \in BOOLEAN, d \in Durations : Tick(s, thunder, d)
  \/ \E s \in Sessions, day \in {0, 9} : TimeSet(s, day)
  \/ \E s \in Sessions, raining, thunder \in BOOLEAN, d \in Durations :
       Weather(s, raining, thunder, d)
  \/ \E s \in Sessions, r \in RulesSet, on \in BOOLEAN : GameRule(s, r, on)
  \/ \E s \in Sessions, d \in Difficulties : Difficulty(s, d)
  \/ \E s \in Sessions, n \in 0..1 : BorderCenter(s, n)
  \/ \E s \in Sessions, n \in Sizes : BorderSet(s, n)
  \/ \E s \in Sessions, n \in Sizes, d \in Durations : BorderLerp(s, n, d)
  \/ \E s \in Sessions, n \in 0..1 : BorderWarning(s, n)
  \/ \E s \in Sessions, last \in BOOLEAN : Save(s, last)
  \/ \E s \in Sessions : Write(s)
  \/ \E s \in Sessions : Rename(s)
  \/ \E s \in Sessions : RenameFails(s)
  \/ Crash

Spec == Init /\ [][Next]_vars

---------------------------------------------------------------------------

\* Every variable has its type; a border moves for no longer than it was told to.
Scalars(w) ==
  /\ w.day \in Nat /\ w.duration \in Int /\ {w.raining, w.thundering} \subseteq BOOLEAN
  /\ w.rainLevel \in 0..FullRain /\ w.thunderLevel \in 0..FullRain
  /\ w.border.remaining \in 0..w.border.total
  /\ w.rules \in [RuleNames -> BOOLEAN]
TypeOK ==
  /\ phase \in [Sessions -> {"out", "loading", "in", "opened", "written"}]
  /\ leaving \in [Sessions -> BOOLEAN] /\ shared \in BOOLEAN
  /\ fd \in [Sessions -> {"none", "tmp", "level", "unnamed"}]
  /\ {level.kind, tmp.kind, kept.kind} \subseteq {"absent", "torn", "whole"}
  /\ \A w \in {world[s] : s \in Sessions} \cup {level.world, tmp.world, kept.world} : Scalars(w)
  /\ ticks \in 0..MaxTicks /\ commands \in 0..MaxCommands /\ saves \in 0..MaxSaves

\* Each client knows the rules, the difficulty, the weather with its fades and the border
\* that its session's world has, whatever the world was loaded with, whichever commands
\* came and however often the weather turned between two of them (server.cpp's join, tick
\* and commands).
WorldShown == \A s \in Sessions :
  phase[s] \in {"in", "opened", "written"} => client[s] = Known(world[s])

\* level.mcd can be read at any time: it is written under another name and renamed
\* (save_metadata).
LevelReadable == level.kind # "torn"

\* As long as sessions follow one another, level.mcd can be read at any time, so also after
\* a crash between any two steps of a save.
CrashSafe == ~shared => LevelReadable

\* As long as sessions follow one another, each starts with exactly the world that was
\* saved last, whole and not older, whether the session before it ended or crashed
\* (save_all, World::World).
Resumes ==
  [][\A s \in Sessions : phase[s] = "loading" /\ phase'[s] = "in" /\ ~shared /\ kept # Missing
        => world'[s] = kept.world]_vars
=============================================================================

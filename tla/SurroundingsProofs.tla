-------------------------- MODULE SurroundingsProofs --------------------------
(***************************************************************************)
(* What surrounds the player of a session, for any world, kit and recipes: *)
(* the goals of a mob, the blocks and their ticks, the stacks of the       *)
(* hotbar and on the ground, and the containers that several players use.  *)
(***************************************************************************)
EXTENDS Session, FiniteSetTheorems, SequenceTheorems, WellFoundedInduction, TLAPS

(***************************************************************************)
(* The mob's selector keeps its two promises, for every length of a panic  *)
(* or a walk and whatever the world does: controls are exclusive at every  *)
(* step, and no goal is kept waiting by lesser ones.                       *)
(***************************************************************************)

LEMMA GoalsOfType ==
    /\ \A kind : Len(GoalsOf(kind)) \in {2, 5}
    /\ \A kind : \A i \in 1..Len(GoalsOf(kind)) : GoalsOf(kind)[i] \in Goals
  BY DEF GoalsOf, Goals

LEMMA PriorityType == \A g \in Goals : Priority(g) \in Nat
  BY DEF Goals, Priority

\* The selector looks at the goals in the order of their priorities.
LEMMA SortedGoals ==
    \A kind : \A i, j \in 1..Len(GoalsOf(kind)) :
        i <= j => Priority(GoalsOf(kind)[i]) <= Priority(GoalsOf(kind)[j])
  BY DEF GoalsOf, Priority

LEMMA MoveControl == \A g \in Goals : "move" \in Controls(g)
  BY DEF Goals, Controls

LEMMA OverlapSymmetric == \A g, h : Overlap(g, h) <=> Overlap(h, g)
  BY DEF Overlap

-----------------------------------------------------------------------------
(* Types *)

\* TypeOK: the selector's steps and the session's calls keep the mob's state in
\* its type.
THEOREM MobTypeCorrect == Spec => []TypeOK
<1>1. ASSUME Init PROVE TypeOK
  <2>1. /\ category \in {"creature", "monster"}
        /\ running \subseteq Goals /\ memory \subseteq Keys /\ facts \subseteq Facts
        /\ pass \in {"idle", "select", "continue", "start", "tick", "hurt"}
    BY <1>1 DEF Init
  <2>2. /\ attached \in BOOLEAN /\ suspended \in BOOLEAN
        /\ tamed \in BOOLEAN /\ sitting \in BOOLEAN
    BY <1>1 DEF Init
  <2>3. left \in [Timed -> Nat]
    BY <1>1 DEF Init
  <2>4. at \in 1..Len(GoalsOf(category))
    BY <1>1, GoalsOfType DEF Init
  <2> QED
    BY <2>1, <2>2, <2>3, <2>4 DEF TypeOK
<1>2. TypeOK /\ [Next]_vars => TypeOK'
  <2> SUFFICES ASSUME TypeOK, [Next]_vars PROVE TypeOK'
    OBVIOUS
  <2> USE GoalsOfType
  <2>a. Here \in Goals
    BY DEF Here, TypeOK
  <2>b. \A g \in Goals : Forgets(g) \subseteq Keys
    BY DEF Forgets, Keys, Goals
  <2>1. CASE BeforeTick
    <3>1. /\ memory' \subseteq Keys /\ running' \subseteq Goals
      BY <2>1 DEF BeforeTick, TypeOK, Keys
    <3>2. left' \in [Timed -> Nat]
      <4>1. \/ left' = left
            \/ left' = [g \in Timed |-> IF g \in running THEN 0 ELSE left[g]]
        BY <2>1 DEF BeforeTick
      <4> QED
        BY <4>1 DEF TypeOK
    <3>3. facts' \subseteq Facts
      BY <2>1, MobAssumption DEF BeforeTick
    <3>4. suspended' \in BOOLEAN /\ attached' \in BOOLEAN
      BY <2>1 DEF BeforeTick, TypeOK
    <3>5. at' \in 1..Len(GoalsOf(category))
      BY <2>1 DEF BeforeTick, TypeOK
    <3> QED
      BY <2>1, <3>1, <3>2, <3>3, <3>4, <3>5 DEF BeforeTick, TypeOK, animal
  <2>2. CASE Select
    <3>1. suspended' \in BOOLEAN /\ attached' \in BOOLEAN
      BY <2>2 DEF Select, TypeOK
    <3>2. /\ running' \subseteq Goals /\ memory' \subseteq Keys
          /\ left' \in [Timed -> Nat]
      BY <2>2 DEF Select, TypeOK
    <3>3. pass' \in {"idle", "hurt", "continue"}
      BY <2>2 DEF Select
    <3> QED
      BY <2>2, <3>1, <3>2, <3>3 DEF Select, TypeOK, animal
  <2>3. CASE ContinueStep
    <3>1. running' \subseteq Goals /\ memory' \subseteq Keys /\ left' \in [Timed -> Nat]
      BY <2>3 DEF ContinueStep, TypeOK, Stopped, Timed
    <3>2. at' \in 1..Len(GoalsOf(category))
              /\ pass' \in {"continue", "start"}
      BY <2>3 DEF ContinueStep, TypeOK, Advance
    <3> QED
      BY <2>3, <3>1, <3>2 DEF ContinueStep, TypeOK, animal
  <2>4. CASE StartStep
    <3>1. running' \subseteq Goals /\ memory' \subseteq Keys
      BY <2>4, <2>a DEF StartStep, TypeOK, Asked, Keys
    <3>2. left' \in [Timed -> Nat]
      BY <2>4, MobAssumption DEF StartStep, TypeOK, Duration, Timed
    <3>3. at' \in 1..Len(GoalsOf(category)) /\ pass' \in {"start", "tick"}
      BY <2>4 DEF StartStep, TypeOK, Advance
    <3> QED
      BY <2>4, <3>1, <3>2, <3>3 DEF StartStep, TypeOK, animal
  <2>5. CASE TickStep
    BY <2>5 DEF TickStep, animal, TypeOK, Timed
  <2>6. CASE Hurt
    BY <2>6 DEF Hurt, animal, TypeOK, Keys, Facts
  <2>7. CASE NotifyDamage
    BY <2>7 DEF NotifyDamage, animal, TypeOK, Keys
  <2>8. CASE SetTarget
    BY <2>8 DEF SetTarget, animal, TypeOK, Keys
  <2>9. CASE Tame
    BY <2>9 DEF Tame, TypeOK, Keys
  <2>10. CASE ToggleSitting
    BY <2>10 DEF ToggleSitting, Suspend, Stopped, TypeOK, Timed
  <2>11. CASE UNCHANGED vars
    BY <2>11 DEF vars, TypeOK
  <2> QED
    BY <2>1, <2>2, <2>3, <2>4, <2>5, <2>6, <2>7, <2>8, <2>9, <2>10, <2>11 DEF Next
<1>3. Init => TypeOK
  BY <1>1
<1> QED
  BY <1>2, <1>3, PTL DEF Spec

-----------------------------------------------------------------------------
(* Controls *)

\* Exclusive: GoalSelector::tick never has two goals hold a control of the mob,
\* between two goals of a pass as little as between two ticks.
THEOREM ExclusiveCorrect == Spec => []Exclusive
<1>1. Init => Exclusive
  BY DEF Init, Exclusive
<1>2. Exclusive /\ [Next]_vars => Exclusive'
  <2> SUFFICES ASSUME Exclusive, [Next]_vars PROVE Exclusive'
    OBVIOUS
  <2>1. CASE StartStep
    <3>1. CASE running' = running
      BY <3>1 DEF Exclusive
    <3>2. CASE running' = (running \ Ousted(Here)) \cup {Here}
      BY <3>2, OverlapSymmetric DEF Exclusive, Ousted
    <3> QED
      BY <2>1, <3>1, <3>2 DEF StartStep
  <2>2. CASE running' \subseteq running
    BY <2>2 DEF Exclusive
  <2>3. ASSUME ~StartStep PROVE running' \subseteq running
    BY <2>3 DEF Next, vars, BeforeTick, Select, ContinueStep, TickStep, Hurt,
                NotifyDamage, SetTarget, Tame, ToggleSitting, Suspend
  <2> QED
    BY <2>1, <2>2, <2>3
<1> QED
  BY <1>1, <1>2, PTL DEF Spec

-----------------------------------------------------------------------------
(* Priorities *)

\* The goals considered so far in the second pass are served.
Considered ==
    pass \in {"start", "tick"} =>
        \A i \in 1..Len(GoalsOf(category)) :
            pass = "tick" \/ i < at => Served(GoalsOf(category)[i])

\* A goal that starts, and what it makes others forget, lets no goal start that
\* could not: a memory only ever helps a goal to start.
LEMMA StartNeedsMemory ==
    ASSUME NEW m, NEW n, n \subseteq m \cup {"flock_leader"}, NEW now,
           NEW g \in Goals, CanStart(g, n, now)
    PROVE  CanStart(g, m, now)
  BY DEF CanStart, Goals

LEMMA ConsideredStep ==
    ASSUME TypeOK, Considered, [Next]_vars
    PROVE  Considered'
<1> USE GoalsOfType
<1>1. CASE StartStep
  <2>0. /\ category' = category /\ pass = "start"
        /\ \A i \in 1..Len(GoalsOf(category)) :
              pass' = "tick" \/ i < at' => i <= at
    BY <1>1 DEF StartStep, TypeOK, animal, Advance
  <2> SUFFICES ASSUME NEW i \in 1..Len(GoalsOf(category)), i <= at,
                      NEW g \in Goals, g = GoalsOf(category)[i]
               PROVE  \/ g \in running' \/ ~CanStart(g, memory', facts')
                      \/ \E a \in running' :
                            Overlap(a, g) /\ Priority(a) <= Priority(g)
    BY <2>0 DEF Considered, Served
  <2>1. Here \in Goals /\ Priority(g) <= Priority(Here)
    BY SortedGoals DEF Here, TypeOK
  <2>2. /\ facts' = facts
        /\ memory' \subseteq memory \cup {"flock_leader"}
    BY <1>1 DEF StartStep, Asked
  <2>3. CanStart(g, memory', facts') => CanStart(g, memory, facts)
    BY <2>2, StartNeedsMemory
  <2>4. ASSUME NEW a \in running, Overlap(a, g), Priority(a) <= Priority(g),
               ~Blocked(Here)
        PROVE  ~Overlap(a, Here)
    <3>1. a \in Goals
      BY DEF TypeOK
    <3> QED
      BY <2>1, <2>4, <3>1, PriorityType DEF Blocked
  <2>5. CASE i < at
    <3>1. \/ g \in running \/ ~CanStart(g, memory, facts)
          \/ \E a \in running : Overlap(a, g) /\ Priority(a) <= Priority(g)
      BY <2>0, <2>5 DEF Considered, Served
    <3>2. CASE running' = running
      BY <2>3, <3>1, <3>2
    <3>3. CASE /\ running' = (running \ Ousted(Here)) \cup {Here}
               /\ ~Blocked(Here)
      <4>1. Overlap(g, g) /\ Priority(g) <= Priority(g)
        BY PriorityType, MoveControl DEF Overlap
      <4>2. g \in running => g \in running'
        BY <2>4, <3>3, <4>1 DEF Ousted
      <4>3. \A a \in running :
               Overlap(a, g) /\ Priority(a) <= Priority(g) => a \in running'
        BY <2>4, <3>3 DEF Ousted
      <4> QED
        BY <2>3, <3>1, <4>2, <4>3
    <3> QED
      BY <1>1, <3>2, <3>3 DEF StartStep
  <2>6. CASE i = at
    <3>1. g = Here
      BY <2>6 DEF Here
    <3>2. CASE Here \in running \/ ~CanStart(Here, memory, facts)
      <4>1. running' = running
        BY <1>1, <3>2 DEF StartStep
      <4> QED
        BY <2>3, <3>1, <3>2, <4>1
    <3>3. CASE ~(Here \in running \/ ~CanStart(Here, memory, facts)) /\ Blocked(Here)
      BY <1>1, <3>1, <3>3 DEF StartStep, Blocked
    <3>4. CASE ~(Here \in running \/ ~CanStart(Here, memory, facts)) /\ ~Blocked(Here)
      BY <1>1, <3>1, <3>4 DEF StartStep
    <3> QED
      BY <3>2, <3>3, <3>4
  <2> QED
    BY <2>5, <2>6 DEF TypeOK
<1>2. CASE ContinueStep
  BY <1>2 DEF ContinueStep, Considered, Advance, TypeOK
<1>3. CASE UNCHANGED vars
  BY <1>3 DEF vars, Considered, Served, CanStart
<1>4. CASE BeforeTick \/ Select \/ TickStep \/ Hurt
  BY <1>4 DEF BeforeTick, Select, TickStep, Hurt, Considered
<1>5. CASE NotifyDamage \/ SetTarget \/ Tame \/ ToggleSitting
  BY <1>5 DEF NotifyDamage, SetTarget, Tame, ToggleSitting, Packet, Considered
<1> QED
  BY <1>1, <1>2, <1>3, <1>4, <1>5 DEF Next

\* NoInversion: when the goals of a tick have been chosen, a goal that could
\* start is kept out by one of its own or of a higher priority only.
THEOREM NoInversionCorrect == Spec => []NoInversion
<1>1. Init => Considered
  BY DEF Init, Considered
<1>2. TypeOK /\ Considered /\ [Next]_vars => Considered'
  BY ConsideredStep
<1>3. Considered => NoInversion
  BY DEF Considered, NoInversion
<1> QED
  BY <1>1, <1>2, <1>3, MobTypeCorrect, PTL DEF Spec

-----------------------------------------------------------------------------
(* Stops *)

\* A suspended mob's goals are not considered at all.
SuspendedRests == suspended => pass \notin {"continue", "start", "tick"}

LEMMA ForgetsOfOthers ==
    \A g \in Goals : g # "panic" =>
        Forgets(g) \cap {"panic", "last_seen_position"} = {}
  BY DEF Goals, Forgets

\* Nothing takes the body from a panic: it overlaps with every goal and has the
\* highest priority.
LEMMA PanicBlocks ==
    ASSUME "panic" \in running, NEW g \in Goals
    PROVE  Blocked(g)
<1>1. "panic" \in Goals
  BY DEF Goals
<1>2. Overlap("panic", g)
  BY <1>1, MoveControl DEF Overlap
<1>3. Priority("panic") <= Priority(g)
  <2>1. Priority("panic") = 0
    BY DEF Priority
  <2> QED
    BY <2>1, PriorityType
<1> QED
  BY <1>2, <1>3 DEF Blocked

LEMMA CleanStopsStep ==
    ASSUME TypeOK, CleanStops, SuspendedRests, [Next]_vars
    PROVE  CleanStops' /\ SuspendedRests'
<1> DEFINE Panicking == {"panic", "last_seen_position"}
<1>0. /\ left \in [Timed -> Nat] /\ running \subseteq Goals
      /\ \A g \in Timed \ running : left[g] = 0
      /\ "panic" \in running => Panicking \subseteq memory
      /\ suspended => running = {}
  BY DEF TypeOK, CleanStops
<1>a. Here \in Goals
  BY GoalsOfType DEF Here, TypeOK
<1>1. CASE BeforeTick
  <2>1. /\ \/ /\ suspended' = TRUE /\ running' = {}
              /\ left' = [g \in Timed |-> IF g \in running THEN 0 ELSE left[g]]
           \/ /\ suspended' => suspended
              /\ running' = running /\ left' = left /\ memory \subseteq memory'
        /\ pass' = "select"
    BY <1>1 DEF BeforeTick
  <2>2. CASE suspended' = TRUE /\ running' = {}
              /\ left' = [g \in Timed |-> IF g \in running THEN 0 ELSE left[g]]
    BY <1>0, <2>1, <2>2 DEF CleanStops, SuspendedRests
  <2>3. CASE (suspended' => suspended) /\ running' = running /\ left' = left
              /\ memory \subseteq memory'
    BY <1>0, <2>1, <2>3 DEF CleanStops, SuspendedRests
  <2> QED
    BY <2>1, <2>2, <2>3
<1>2. CASE Select
  <2>1. CASE attached'
    BY <1>0, <1>2, <2>1 DEF Select, CleanStops, SuspendedRests
  <2>2. CASE ~attached'
    <3>1. /\ running' = {} /\ suspended' = FALSE /\ left' = [g \in Timed |-> 0]
      BY <1>2, <2>2 DEF Select
    <3> QED
      BY <3>1 DEF CleanStops, SuspendedRests
  <2> QED
    BY <2>1, <2>2
<1>3. CASE ContinueStep
  <2>1. ~suspended /\ suspended' = suspended
    BY <1>3 DEF ContinueStep, SuspendedRests
  <2>2. CASE UNCHANGED <<running, memory, left>>
    BY <1>0, <2>1, <2>2 DEF CleanStops, SuspendedRests
  <2>3. CASE running' = running \ {Here} /\ Stopped({Here})
    <3>1. /\ memory' = memory \ Forgets(Here)
          /\ left' = [g \in Timed |-> IF g = Here THEN 0 ELSE left[g]]
      BY <2>3 DEF Stopped
    <3>2. "panic" \in running' => Panicking \subseteq memory'
      BY <1>0, <1>a, <2>3, <3>1, ForgetsOfOthers
    <3>3. \A g \in Timed \ running' : left'[g] = 0
      BY <1>0, <2>3, <3>1
    <3> QED
      BY <2>1, <3>2, <3>3 DEF CleanStops, SuspendedRests
  <2> QED
    BY <1>3, <2>2, <2>3 DEF ContinueStep
<1>4. CASE StartStep
  <2>1. ~suspended /\ suspended' = suspended
    BY <1>4 DEF StartStep, SuspendedRests
  <2>2. CASE running' = running /\ left' = left /\ memory \subseteq memory'
    BY <1>0, <2>1, <2>2 DEF CleanStops, SuspendedRests
  <2>3. CASE /\ Here \notin running /\ CanStart(Here, memory, facts)
             /\ ~Blocked(Here)
    <3>1. /\ running' = (running \ Ousted(Here)) \cup {Here}
          /\ memory' = (memory \cup Asked(Here))
                           \ UNION {Forgets(g) : g \in Ousted(Here)}
          /\ left' = [g \in Timed |-> IF g = Here THEN Duration(g)
                                       ELSE IF g \in Ousted(Here) THEN 0
                                       ELSE left[g]]
      BY <1>4, <2>3 DEF StartStep
    <3>2. "panic" \notin running
      BY <1>a, <2>3, PanicBlocks
    <3>3. "panic" \in running' => Panicking \subseteq memory'
      <4> SUFFICES ASSUME "panic" \in running' PROVE Panicking \subseteq memory'
        OBVIOUS
      <4>1. Here = "panic"
        BY <3>1, <3>2
      <4>2. Panicking \subseteq memory
        BY <2>3, <4>1 DEF CanStart
      <4>3. \A g \in Ousted(Here) : Forgets(g) \cap Panicking = {}
        BY <1>0, <3>2, ForgetsOfOthers DEF Ousted
      <4> QED
        BY <3>1, <4>2, <4>3
    <3>4. \A g \in Timed \ running' : left'[g] = 0
      BY <1>0, <3>1
    <3> QED
      BY <2>1, <3>3, <3>4 DEF CleanStops, SuspendedRests
  <2>4. \/ running' = running /\ left' = left /\ memory \subseteq memory'
        \/ /\ Here \notin running /\ CanStart(Here, memory, facts)
           /\ ~Blocked(Here)
    BY <1>4 DEF StartStep
  <2> QED
    BY <2>2, <2>3, <2>4
<1>5. CASE TickStep
  <2>1. UNCHANGED <<running, memory, suspended>> /\ pass' = "hurt"
    BY <1>5 DEF TickStep
  <2>2. \A g \in Timed \ running : left'[g] = left[g]
    BY <1>5 DEF TickStep
  <2> QED
    BY <1>0, <2>1, <2>2 DEF CleanStops, SuspendedRests
<1>6. CASE Hurt \/ NotifyDamage \/ SetTarget \/ Tame
  <2>1. /\ UNCHANGED <<running, left, suspended>> /\ memory \subseteq memory'
        /\ pass' = "idle"
    BY <1>6 DEF Hurt, NotifyDamage, SetTarget, Tame, Packet
  <2> QED
    BY <1>0, <2>1 DEF CleanStops, SuspendedRests
<1>7. CASE ToggleSitting
  <2>1. pass' = "idle" /\ Suspend(sitting')
    BY <1>7 DEF ToggleSitting, Packet
  <2>2. CASE ~sitting'
    <3>1. UNCHANGED <<running, memory, left>> /\ suspended' = FALSE
      BY <1>7, <2>1, <2>2 DEF Suspend, ToggleSitting, TypeOK
    <3> QED
      BY <1>0, <2>1, <3>1 DEF CleanStops, SuspendedRests
  <2>3. CASE sitting'
    <3>1. running' = {} /\ Stopped(running)
      BY <2>1, <2>3 DEF Suspend
    <3>2. left' = [g \in Timed |-> IF g \in running THEN 0 ELSE left[g]]
      BY <3>1 DEF Stopped
    <3> QED
      BY <1>0, <2>1, <3>1, <3>2 DEF CleanStops, SuspendedRests
  <2> QED
    BY <2>2, <2>3
<1>8. CASE UNCHANGED vars
  BY <1>8 DEF vars, CleanStops, SuspendedRests
<1> QED
  BY <1>1, <1>2, <1>3, <1>4, <1>5, <1>6, <1>7, <1>8 DEF Next

\* CleanStops: every way out of a goal (the first pass, a goal that takes its
\* controls, a suspension, the end of the mob) leaves no time and no memory of
\* it for the next start, and a mob that panics knows from where.
THEOREM CleanStopsCorrect == Spec => []CleanStops
<1>1. Init => CleanStops /\ SuspendedRests
  BY DEF Init, CleanStops, SuspendedRests
<1>2. TypeOK /\ CleanStops /\ SuspendedRests /\ [Next]_vars
      => CleanStops' /\ SuspendedRests'
  BY CleanStopsStep
<1> QED
  BY <1>1, <1>2, MobTypeCorrect, PTL DEF Spec

(***************************************************************************)
(* Recursion. The numbers are well founded, so that what each step of a    *)
(* recursive definition does holds of all of them; a fold is unfolded into *)
(* its recursion, which has a solution because the steps lead from values  *)
(* to values.                                                              *)
(***************************************************************************)

\* A set of naturals has a least element.
LEMMA LeastOf ==
  ASSUME NEW T \in SUBSET Nat, T # {}
  PROVE  \E n \in T : \A m \in T : n <= m
<1>1. PICK n \in T : \A m \in T : ~(<<m, n>> \in OpToRel(<, Nat))
  BY NatLessThanWellFounded, WFMin, Zenon
<1>2. \A m \in T : ~(m < n)
  BY <1>1, Zenon DEF OpToRel
<1> QED BY <1>2

\* What holds at first, and at each number if it holds at the one before, holds up to n.
LEMMA Upwards ==
  ASSUME NEW m \in Int, NEW n \in Int, NEW T, m \in T,
         \A k \in m + 1..n : k - 1 \in T => k \in T
  PROVE  m..n \subseteq T
<1> DEFINE Bad == {d \in Nat : m + d <= n /\ m + d \notin T}
<1>1. SUFFICES ASSUME Bad # {} PROVE FALSE
  <2>1. ASSUME NEW k \in m..n PROVE k \in T
    <3>1. k - m \in Nat /\ m + (k - m) = k
      OBVIOUS
    <3>2. k - m \notin Bad
      BY <1>1
    <3> QED BY <3>1, <3>2
  <2> QED BY <2>1
<1>2. PICK d \in Bad : \A e \in Bad : d <= e
  <2>1. Bad \in SUBSET Nat
    OBVIOUS
  <2> HIDE DEF Bad
  <2> QED BY <1>1, <2>1, LeastOf
<1>3. d \in Nat /\ m + d <= n /\ m + d \notin T
  OBVIOUS
<1>4. d # 0
  BY <1>3
<1>5. d - 1 \in Nat /\ d - 1 \notin Bad /\ ~(d <= d - 1)
  BY <1>2, <1>3, <1>4
<1>6. m + d - 1 \in T /\ m + d \in m + 1..n
  BY <1>3, <1>4, <1>5
<1> QED BY <1>3, <1>6

\* The greatest of some numbers.
LEMMA GreatestOf ==
  ASSUME NEW n \in Nat, NEW s \in SUBSET (1..n), s # {}
  PROVE  B!Max(s) \in s /\ \A x \in s : x <= B!Max(s)
<1> DEFINE T == {n - x : x \in s}
<1>1. T \in SUBSET Nat /\ T # {}
  OBVIOUS
<1> HIDE DEF T
<1>2. PICK d \in T : \A e \in T : d <= e
  BY <1>1, LeastOf
<1>3. PICK y \in s : d = n - y
  BY DEF T
<1>4. \A x \in s : y >= x
  <2>1. \A x \in s : n - x \in T
    BY DEF T
  <2>2. \A x \in s : x \in Int
    OBVIOUS
  <2> QED BY <1>2, <1>3, <2>1, <2>2
<1>5. B!Max(s) \in s /\ \A x \in s : B!Max(s) >= x
  BY <1>4 DEF B!Max
<1>6. \A x \in s : x \in Int
  OBVIOUS
<1> QED BY <1>5, <1>6

\* The recursion of a fold over 1..n, where F is what a step makes of a state.
Folding(F, base, n, g) ==
  \A s \in SUBSET (1..n) :
    g[s] = IF s = {} THEN base ELSE F[<<g[s \ {B!Max(s)}], B!Max(s)>>]

\* Such a recursion has a solution, if the steps lead from states to states.
LEMMA FoldExists ==
  ASSUME NEW n \in Nat, NEW W, NEW base \in W, NEW F,
         \A w \in W, i \in 1..n : F[<<w, i>>] \in W
  PROVE  \E g \in [SUBSET (1..n) -> W] : Folding(F, base, n, g)
<1> DEFINE Has(k) == \E g \in [SUBSET (1..k) -> W] : Folding(F, base, k, g)
           T == {k \in 0..n : Has(k)}
<1>1. 0 \in T
  <2> DEFINE g == [s \in SUBSET (1..0) |-> base]
  <2>1. 1..0 = {}
    OBVIOUS
  <2>2. g \in [SUBSET (1..0) -> W] /\ Folding(F, base, 0, g)
    BY <2>1 DEF Folding
  <2> QED BY <2>2
<1>2. ASSUME NEW k \in 0 + 1..n, k - 1 \in T PROVE k \in T
  <2>1. PICK h \in [SUBSET (1..k - 1) -> W] : Folding(F, base, k - 1, h)
    BY <1>2
  <2> DEFINE g == [s \in SUBSET (1..k) |->
                     IF k \in s THEN F[<<h[s \ {k}], k>>] ELSE h[s]]
  <2>2. ASSUME NEW s \in SUBSET (1..k) PROVE s \ {k} \in SUBSET (1..k - 1)
    <3>1. \A x \in s \ {k} : x \in 1..k /\ x # k /\ k \in Int
      OBVIOUS
    <3>2. \A x \in s \ {k} : x \in 1..k - 1
      BY <3>1
    <3> QED BY <3>2
  <2>3. g \in [SUBSET (1..k) -> W]
    <3>1. ASSUME NEW s \in SUBSET (1..k)
          PROVE  (IF k \in s THEN F[<<h[s \ {k}], k>>] ELSE h[s]) \in W
      <4>1. h[s \ {k}] \in W
        BY <2>2
      <4>2. k \notin s => s = s \ {k}
        OBVIOUS
      <4>3. F[<<h[s \ {k}], k>>] \in W
        BY <4>1
      <4> QED BY <4>1, <4>2, <4>3
    <3> QED BY <3>1
  <2>4. ASSUME NEW s \in SUBSET (1..k)
        PROVE  g[s] = IF s = {} THEN base ELSE F[<<g[s \ {B!Max(s)}], B!Max(s)>>]
    <3>1. CASE k \in s
      <4>1. B!Max(s) \in s /\ \A x \in s : x <= B!Max(s)
        BY <3>1, GreatestOf
      <4>2. B!Max(s) = k
        BY <3>1, <4>1
      <4>3. g[s \ {k}] = h[s \ {k}]
        BY <2>2
      <4> QED BY <3>1, <4>2, <4>3
    <3>2. CASE k \notin s /\ s = {}
      <4>1. s \in SUBSET (1..k - 1)
        BY <3>2
      <4> QED BY <2>1, <3>2, <4>1 DEF Folding
    <3>3. CASE k \notin s /\ s # {}
      <4>1. s \in SUBSET (1..k - 1)
        BY <2>2, <3>3
      <4>2. s \ {B!Max(s)} \in SUBSET (1..k) /\ k \notin s \ {B!Max(s)}
        BY <3>3
      <4>3. g[s] = h[s] /\ g[s \ {B!Max(s)}] = h[s \ {B!Max(s)}]
        BY <3>3, <4>2
      <4>4. h[s] = F[<<h[s \ {B!Max(s)}], B!Max(s)>>]
        BY <2>1, <3>3, <4>1 DEF Folding
      <4> QED BY <3>3, <4>3, <4>4
    <3> QED BY <3>1, <3>2, <3>3
  <2> HIDE DEF g
  <2>5. Folding(F, base, k, g)
    BY <2>4 DEF Folding
  <2>6. Has(k)
    BY <2>3, <2>5
  <2>7. k \in 0..n
    OBVIOUS
  <2> HIDE DEF Has
  <2> QED BY <2>6, <2>7
<1> HIDE DEF T
<1>3. 0..n \subseteq T
  BY <1>1, <1>2, Upwards
<1>4. n \in T
  BY <1>3
<1> QED BY <1>4 DEF T

\* The recursion along m..n, where F is what a step makes of the value before.
Recurs(F, base, m, n, f) == \A k \in m..n : f[k] = IF k = m THEN base ELSE F[<<f[k - 1], k>>]

\* Such a recursion has a solution, if the steps lead from values to values.
LEMMA Recursion ==
  ASSUME NEW m \in Int, NEW n \in Int, m <= n, NEW W, NEW base \in W, NEW F,
         \A w \in W, k \in m + 1..n : F[<<w, k>>] \in W
  PROVE  \E f \in [m..n -> W] : Recurs(F, base, m, n, f)
<1> DEFINE By(f, l) == \A k \in m..l : f[k] = IF k = m THEN base ELSE F[<<f[k - 1], k>>]
           T == {l \in m..n : \E f \in [m..l -> W] : By(f, l)}
<1>1. m \in T
  <2> DEFINE f == [k \in m..m |-> base]
  <2>1. f \in [m..m -> W] /\ By(f, m)
    OBVIOUS
  <2> HIDE DEF f
  <2>2. \E h \in [m..m -> W] : By(h, m)
    BY <2>1, Zenon
  <2>3. m \in m..n
    OBVIOUS
  <2> QED BY <2>2, <2>3
<1>2. ASSUME NEW l \in m + 1..n, l - 1 \in T PROVE l \in T
  <2>1. PICK f \in [m..l - 1 -> W] : By(f, l - 1)
    BY <1>2
  <2> DEFINE g == [k \in m..l |-> IF k = l THEN F[<<f[l - 1], l>>] ELSE f[k]]
  <2>2. l - 1 \in m..l - 1 /\ l # m /\ \A k \in m..l : k # l => k \in m..l - 1
    OBVIOUS
  <2>3. g \in [m..l -> W]
    BY <2>2
  <2>4. ASSUME NEW k \in m..l PROVE g[k] = IF k = m THEN base ELSE F[<<g[k - 1], k>>]
    <3>1. CASE k = l
      <4>1. g[l] = F[<<f[l - 1], l>>] /\ g[l - 1] = f[l - 1] /\ l \in m..l
        BY <2>2
      <4> QED BY <2>2, <3>1, <4>1
    <3>2. CASE k # l
      <4>1. k \in m..l - 1 /\ g[k] = f[k] /\ (k # m => k - 1 \in m..l /\ g[k - 1] = f[k - 1])
        BY <2>2, <3>2
      <4>2. f[k] = IF k = m THEN base ELSE F[<<f[k - 1], k>>]
        BY <2>1, <4>1
      <4> QED BY <4>1, <4>2
    <3> QED BY <3>1, <3>2
  <2> HIDE DEF g
  <2>5. By(g, l)
    BY <2>4
  <2> QED BY <2>3, <2>5
<1> HIDE DEF T
<1>3. m..n \subseteq T
  BY <1>1, <1>2, Upwards
<1>4. PICK f \in [m..n -> W] : By(f, n)
  BY <1>3 DEF T
<1> QED BY <1>4 DEF Recurs

(***************************************************************************)
(* Blocks. Whatever a game tick does to the slab, sand falls without being *)
(* made or lost, and what hangs in the air is still to be ticked; what the *)
(* player changes is told to its neighbours.                               *)
(***************************************************************************)

Slabs == [B!Cells -> B!Kinds]

\* settle_falling_column for one row.
Fallen(a, x, y) ==
  IF a[<<x, y>>] # "sand" \/ a[<<x, y - 1>>] # "air" THEN a
  ELSE LET to == CHOOSE z \in 0..(y - 1) :
                    /\ \A w \in z..(y - 1) : a[<<x, w>>] = "air"
                    /\ z > 0 => a[<<x, z - 1>>] # "air"
       IN [a EXCEPT ![<<x, y>>] = "air", ![<<x, to>>] = "sand"]

Lowest(c) == IF c[2] > 1 THEN c[2] ELSE 1
Rows(c) == [i \in 1..(Top - Lowest(c) + 1) |-> Lowest(c) + i - 1]

LEMMA SettledIs ==
  ASSUME NEW b, NEW c
  PROVE  B!Settled(b, c) =
           IF \E y \in Lowest(c)..Top : b[<<c[1], y>>] = "sand" /\ b[<<c[1], y - 1>>] = "air"
           THEN (CHOOSE g : g = [s \in SUBSET DOMAIN Rows(c) |->
                   IF s = {} THEN b
                   ELSE Fallen(g[s \ {B!Max(s)}], c[1], Rows(c)[B!Max(s)])])[DOMAIN Rows(c)]
           ELSE b
  BY Zenon DEF B!Settled, B!FoldLeft, B!MapThenFoldSet, Fallen, Lowest, Rows

\* The rows of a fold that a recursion gives, each from the one before.
LEMMA UpToIs ==
  ASSUME NEW n \in Nat, NEW k \in 1..n
  PROVE  /\ 1..k \in SUBSET (1..n) /\ 1..k # {} /\ B!Max(1..k) = k
         /\ (1..k) \ {B!Max(1..k)} = 1..k - 1
<1>1. 1..k \in SUBSET (1..n) /\ k \in 1..k
  OBVIOUS
<1>2. B!Max(1..k) \in 1..k /\ \A x \in 1..k : x <= B!Max(1..k)
  BY <1>1, GreatestOf
<1>3. B!Max(1..k) = k
  BY <1>1, <1>2
<1>4. (1..k) \ {k} = 1..k - 1
  OBVIOUS
<1> QED BY <1>1, <1>3, <1>4

Floating(b, x, y) == b[<<x, y>>] = "sand" /\ b[<<x, y - 1>>] = "air"

Soil == {"dirt", "grass_block"}
Keeps(d, b) == /\ B!Amount(d, {"sand"}) = B!Amount(b, {"sand"})
               /\ B!Amount(d, Soil) = B!Amount(b, Soil)

LEMMA CellsFinite == ASSUME B!BlockConstants PROVE IsFiniteSet(B!Cells)
<1>1. Width \in Nat /\ Top \in Nat
  BY DEF B!BlockConstants
<1>2. IsFiniteSet(1..Width) /\ IsFiniteSet(0..Top)
  BY <1>1, FS_Interval
<1> QED BY <1>2, FS_Product DEF B!Cells

LEMMA CountIs == ASSUME NEW A PROVE B!Cardinality(A) = Cardinality(A)
  BY Zenon DEF B!Cardinality, Cardinality

LEMMA Exchanged ==
  ASSUME NEW A, IsFiniteSet(A), NEW s \in A, NEW d, d \notin A
  PROVE  Cardinality((A \ {s}) \cup {d}) = Cardinality(A)
<1>1. IsFiniteSet(A \ {s}) /\ Cardinality(A \ {s}) = Cardinality(A) - 1
  BY FS_RemoveElement
<1>2. d \notin A \ {s}
  OBVIOUS
<1>3. Cardinality((A \ {s}) \cup {d}) = Cardinality(A \ {s}) + 1
  BY <1>1, <1>2, FS_AddElement
<1>4. Cardinality(A) \in Nat
  BY FS_CardinalityType
<1> QED BY <1>1, <1>3, <1>4

LEMMA FallenStep ==
  ASSUME B!BlockConstants, NEW a \in Slabs, NEW x \in 1..Width, NEW y \in 1..Top
  PROVE  /\ Fallen(a, x, y) \in Slabs /\ Keeps(Fallen(a, x, y), a)
         /\ \A u \in 1..Width, v \in 1..Top :
              Floating(Fallen(a, x, y), u, v) =>
                \/ Floating(a, u, v) /\ ~(u = x /\ v = y)
                \/ u = x /\ v = y + 1
<1>0. Width \in Nat /\ Top \in Nat
  BY DEF B!BlockConstants
<1>1. CASE ~Floating(a, x, y)
  BY <1>1 DEF Fallen, Floating, Keeps
<1>2. CASE Floating(a, x, y)
  <2> DEFINE Free(z) == \A w \in z..(y - 1) : a[<<x, w>>] = "air"
             Stops(z) == Free(z) /\ (z > 0 => a[<<x, z - 1>>] # "air")
             to == CHOOSE z \in 0..(y - 1) : Stops(z)
             n == [a EXCEPT ![<<x, y>>] = "air", ![<<x, to>>] = "sand"]
  <2>1. \E z \in 0..(y - 1) : Stops(z)
    <3> DEFINE T == {z \in 0..(y - 1) : Free(z)}
    <3>1. y - 1 \in T /\ T \in SUBSET Nat
      BY <1>2 DEF Floating
    <3> HIDE DEF T
    <3>2. PICK z \in T : \A w \in T : z <= w
      BY <3>1, LeastOf
    <3>3. z \in 0..(y - 1) /\ Free(z)
      BY DEF T
    <3>4. ASSUME z > 0, a[<<x, z - 1>>] = "air" PROVE FALSE
      <4>1. z - 1 \in 0..(y - 1) /\ ~(z <= z - 1)
        BY <3>3, <3>4
      <4>2. \A w \in (z - 1)..(y - 1) : w = z - 1 \/ w \in z..(y - 1)
        BY <3>3
      <4>3. Free(z - 1)
        BY <3>3, <3>4, <4>2
      <4> QED BY <3>2, <4>1, <4>3 DEF T
    <3> QED BY <3>3, <3>4
  <2>2. to \in 0..(y - 1) /\ Stops(to)
    BY <2>1
  <2> HIDE DEF to
  <2>3. Fallen(a, x, y) = n
    BY <1>2 DEF Fallen, Floating, to
  <2>4. /\ <<x, y>> \in B!Cells /\ <<x, to>> \in B!Cells /\ <<x, y>> # <<x, to>>
        /\ a[<<x, y>>] = "sand" /\ a[<<x, to>>] = "air"
    BY <1>0, <1>2, <2>2 DEF B!Cells, Floating
  <2>5. /\ n \in Slabs /\ n[<<x, y>>] = "air" /\ n[<<x, to>>] = "sand"
        /\ \A c \in B!Cells : c # <<x, y>> /\ c # <<x, to>> => n[c] = a[c]
    BY <2>4 DEF Slabs, B!Kinds
  <2> HIDE DEF n
  <2>6. Keeps(n, a)
    <3> DEFINE A == {c \in B!Cells : a[c] \in {"sand"}}
    <3>1. {c \in B!Cells : n[c] \in {"sand"}} = (A \ {<<x, y>>}) \cup {<<x, to>>}
      BY <2>4, <2>5
    <3>2. {c \in B!Cells : n[c] \in Soil} = {c \in B!Cells : a[c] \in Soil}
      BY <2>4, <2>5 DEF Soil
    <3>3. IsFiniteSet(A) /\ <<x, y>> \in A /\ <<x, to>> \notin A
      BY <2>4, CellsFinite, FS_Subset
    <3> HIDE DEF A
    <3>4. Cardinality((A \ {<<x, y>>}) \cup {<<x, to>>}) = Cardinality(A)
      BY <3>3, Exchanged
    <3>5. B!Amount(n, {"sand"}) = B!Amount(a, {"sand"})
      <4>1. B!Amount(n, {"sand"}) = Cardinality((A \ {<<x, y>>}) \cup {<<x, to>>})
        BY <3>1, CountIs, Zenon DEF B!Amount
      <4>2. B!Amount(a, {"sand"}) = Cardinality(A)
        BY CountIs, Zenon DEF B!Amount, A
      <4> QED BY <3>4, <4>1, <4>2
    <3>6. B!Amount(n, Soil) = B!Amount(a, Soil)
      BY <3>2 DEF B!Amount
    <3> QED BY <3>5, <3>6 DEF Keeps
  <2>7. ASSUME NEW u \in 1..Width, NEW v \in 1..Top, Floating(n, u, v)
        PROVE  (Floating(a, u, v) /\ ~(u = x /\ v = y)) \/ (u = x /\ v = y + 1)
    <3>1. <<u, v>> \in B!Cells /\ <<u, v - 1>> \in B!Cells
      BY <1>0 DEF B!Cells
    <3>2. <<u, v>> # <<x, y>> /\ <<u, v - 1>> # <<x, to>>
      BY <2>5, <2>7 DEF Floating
    <3>3. CASE u = x /\ v = to
      <4>1. to > 0 /\ a[<<x, to - 1>>] # "air" /\ <<x, to - 1>> # <<x, y>>
        BY <2>2, <3>3
      <4>2. n[<<x, to - 1>>] # "air"
        BY <2>2, <2>5, <3>1, <3>3, <4>1
      <4>3. n[<<x, to - 1>>] = "air"
        BY <2>7, <3>3 DEF Floating
      <4> QED BY <4>2, <4>3
    <3>4. CASE u = x /\ v - 1 = y
      BY <3>4
    <3>5. CASE ~(u = x /\ v = to) /\ ~(u = x /\ v - 1 = y)
      <4>1. n[<<u, v>>] = a[<<u, v>>] /\ n[<<u, v - 1>>] = a[<<u, v - 1>>]
        BY <2>5, <3>1, <3>2, <3>5
      <4>2. Floating(a, u, v)
        BY <2>7, <4>1 DEF Floating
      <4>3. ~(u = x /\ v = y)
        BY <3>2
      <4> QED BY <4>2, <4>3
    <3> QED BY <3>3, <3>4, <3>5
  <2> QED BY <2>3, <2>5, <2>6, <2>7
<1> QED BY <1>1, <1>2

\* What a settled column, flooded cells or growing grass leave: the amounts, and floating
\* only what floated before, outside the given cells of the column x.
Quiet(d, b) ==
  /\ d \in Slabs /\ Keeps(d, b)
  /\ \A u \in 1..Width, v \in 1..Top : Floating(d, u, v) => Floating(b, u, v)

LEMMA SettledQuiet ==
  ASSUME B!BlockConstants, NEW b \in Slabs, NEW c \in B!Cells, c[2] > 0
  PROVE  /\ Quiet(B!Settled(b, c), b)
         /\ \A v \in 1..Top : v >= c[2] => ~Floating(B!Settled(b, c), c[1], v)
<1> DEFINE x == c[1]
           low == c[2]
           n == Top - low + 1
           q == Rows(c)
           falls == \E y \in low..Top : b[<<x, y>>] = "sand" /\ b[<<x, y - 1>>] = "air"
<1>1. /\ x \in 1..Width /\ low \in 1..Top /\ Width \in Nat /\ Top \in Nat /\ n \in Nat
      /\ Lowest(c) = low /\ q = [i \in 1..n |-> low + i - 1]
  BY DEF B!BlockConstants, B!Cells, Lowest, Rows
<1>2. CASE ~falls
  <2>1. B!Settled(b, c) = b
    BY <1>1, <1>2, SettledIs
  <2>2. ASSUME NEW v \in 1..Top, v >= low PROVE ~Floating(b, x, v)
    <3>1. v \in low..Top
      BY <1>1, <2>2
    <3> QED BY <1>2, <3>1 DEF Floating
  <2> QED BY <2>1, <2>2 DEF Quiet, Keeps
<1>3. CASE falls
  <2> DEFINE Solves(g) == g = [s \in SUBSET (1..n) |->
                IF s = {} THEN b ELSE Fallen(g[s \ {B!Max(s)}], x, q[B!Max(s)])]
             g == CHOOSE g : Solves(g)
             f == [p \in Slabs \X (1..n) |-> Fallen(p[1], x, q[p[2]])]
  <2>1. B!Settled(b, c) = g[1..n]
    <3>1. DOMAIN q = 1..n /\ falls
      BY <1>1, <1>3
    <3> HIDE DEF n, q
    <3> QED BY <1>1, <3>1, SettledIs DEF q
  <2>2. ASSUME NEW i \in 1..n PROVE q[i] \in low..Top /\ q[i] \in 1..Top /\ q[i] = low + i - 1
    BY <1>1
  <2> HIDE DEF q, n, x, low, falls
  <2>3. \E h : Solves(h)
    <3>1. ASSUME NEW w \in Slabs, NEW i \in 1..n PROVE f[<<w, i>>] = Fallen(w, x, q[i])
      OBVIOUS
    <3>2. ASSUME NEW w \in Slabs, NEW i \in 1..n PROVE f[<<w, i>>] \in Slabs
      BY <1>1, <2>2, <3>1, FallenStep
    <3> HIDE DEF f
    <3>3. PICK h \in [SUBSET (1..n) -> Slabs] : Folding(f, b, n, h)
      BY <1>1, <3>2, FoldExists
    <3>4. ASSUME NEW s \in SUBSET (1..n)
          PROVE  h[s] = IF s = {} THEN b ELSE Fallen(h[s \ {B!Max(s)}], x, q[B!Max(s)])
      <4>1. CASE s = {}
        BY <3>3, <4>1 DEF Folding
      <4>2. CASE s # {}
        <5>1. h[s] = f[<<h[s \ {B!Max(s)}], B!Max(s)>>]
          BY <3>3, <4>2 DEF Folding
        <5>2. B!Max(s) \in 1..n /\ h[s \ {B!Max(s)}] \in Slabs
          BY <1>1, <3>3, <4>2, GreatestOf
        <5> QED BY <3>1, <4>2, <5>1, <5>2
      <4> QED BY <4>1, <4>2
    <3>5. Solves(h)
      BY <3>4
    <3> QED BY <3>5
  <2>4. Solves(g)
    <3> HIDE DEF Solves
    <3> QED BY <2>3, Zenon
  <2> HIDE DEF g
  <2> DEFINE r(k) == g[1..k]
  <2>5. r(0) = b
    <3>1. 1..0 = {} /\ {} \in SUBSET (1..n)
      OBVIOUS
    <3> QED BY <2>4, <3>1
  <2>6. ASSUME NEW k \in 1..n PROVE r(k) = Fallen(r(k - 1), x, q[k])
    <3>1. /\ 1..k \in SUBSET (1..n) /\ 1..k # {} /\ B!Max(1..k) = k
          /\ (1..k) \ {B!Max(1..k)} = 1..k - 1
      BY <1>1, UpToIs
    <3> QED BY <2>4, <3>1
  <2> HIDE DEF Solves, r
  <2> DEFINE Good(k) == /\ r(k) \in Slabs /\ Keeps(r(k), b)
                        /\ \A u \in 1..Width, v \in 1..Top : Floating(r(k), u, v) =>
                             \/ u = x /\ v >= low + k
                             \/ Floating(b, u, v) /\ ~(u = x /\ v >= low)
             T == {k \in 0..n : Good(k)}
  <2>7. 0 \in T
    <3>1. Good(0)
      BY <1>1, <2>5 DEF Keeps
    <3> QED BY <1>1, <3>1
  <2>8. ASSUME NEW k \in 0 + 1..n, k - 1 \in T PROVE k \in T
    <3>1. k \in 1..n /\ k - 1 \in 0..n /\ k \in 0..n
      BY <1>1
    <3> DEFINE a == r(k - 1)
               y == q[k]
    <3>2. Good(k - 1)
      BY <2>8
    <3>3. /\ a \in Slabs /\ Keeps(a, b) /\ r(k) = Fallen(a, x, y)
          /\ y \in 1..Top /\ y = low + k - 1 /\ x \in 1..Width
      BY <1>1, <2>2, <2>6, <3>1, <3>2
    <3>4. \A u \in 1..Width, v \in 1..Top : Floating(a, u, v) =>
             \/ u = x /\ v >= low + (k - 1)
             \/ Floating(b, u, v) /\ ~(u = x /\ v >= low)
      BY <3>2
    <3> HIDE DEF a, y, Good
    <3>5. /\ r(k) \in Slabs /\ Keeps(r(k), a)
          /\ \A u \in 1..Width, v \in 1..Top : Floating(r(k), u, v) =>
               \/ Floating(a, u, v) /\ ~(u = x /\ v = y)
               \/ u = x /\ v = y + 1
      BY <3>3, FallenStep
    <3>6. Keeps(r(k), b)
      BY <3>3, <3>5 DEF Keeps
    <3>7. ASSUME NEW u \in 1..Width, NEW v \in 1..Top, Floating(r(k), u, v)
          PROVE  \/ u = x /\ v >= low + k
                 \/ Floating(b, u, v) /\ ~(u = x /\ v >= low)
      <4>1. \/ Floating(a, u, v) /\ ~(u = x /\ v = y)
            \/ u = x /\ v = y + 1
        BY <3>5, <3>7
      <4>2. k \in Int /\ low \in Int /\ v \in Int /\ y = low + k - 1
        BY <1>1, <3>1, <3>3
      <4> QED BY <3>4, <4>1, <4>2
    <3>8. Good(k)
      BY <3>5, <3>6, <3>7 DEF Good
    <3> QED BY <3>1, <3>8
  <2> HIDE DEF T
  <2>9. 0..n \subseteq T
    <3>1. 0 \in Int /\ n \in Int
      BY <1>1
    <3>2. \A k \in 0 + 1..n : k - 1 \in T => k \in T
      BY <2>8
    <3> QED BY <2>7, <3>1, <3>2, Upwards
  <2>10. n \in T
    BY <1>1, <2>9
  <2>11. Good(n) /\ B!Settled(b, c) = r(n)
    BY <2>1, <2>10 DEF T, r
  <2>12. \A v \in 1..Top : ~(v >= low + n)
    BY <1>1 DEF n
  <2>13. Quiet(r(n), b)
    BY <2>11, <2>12 DEF Quiet
  <2>14. \A v \in 1..Top : v >= low => ~Floating(r(n), x, v)
    BY <1>1, <2>11, <2>12
  <2> QED BY <2>11, <2>13, <2>14 DEF x, low
<1> QED BY <1>2, <1>3

Entries == [due : Int, cell : Int \X Int]
Works == [blocks : Slabs, later : Seq(Entries)]

LEMMA QuietSame == ASSUME NEW b \in Slabs PROVE Quiet(b, b)
  BY DEF Quiet, Keeps

LEMMA QuietTwice ==
  ASSUME NEW b, NEW d, NEW e, Quiet(d, b), Quiet(e, d) PROVE Quiet(e, b)
  BY DEF Quiet, Keeps

LEMMA AtCell ==
  ASSUME NEW b, NEW c, B!At(b, c) # "stone" PROVE c \in B!Cells /\ B!At(b, c) = b[c]
  BY DEF B!At

\* A cell of air that becomes something that neither falls nor is soil, or one of soil that
\* becomes the other.
LEMMA PutQuiet ==
  ASSUME B!BlockConstants, NEW b \in Slabs, NEW c \in B!Cells, NEW kind \in B!Kinds,
         \/ b[c] = "air" /\ kind \in {"water", "short_grass"}
         \/ b[c] \in Soil /\ kind \in Soil
  PROVE  Quiet([b EXCEPT ![c] = kind], b)
<1> DEFINE d == [b EXCEPT ![c] = kind]
<1>1. /\ d \in Slabs /\ d[c] = kind
      /\ \A e \in B!Cells : e # c => d[e] = b[e]
  BY DEF Slabs
<1> HIDE DEF d
<1>2. {e \in B!Cells : d[e] \in {"sand"}} = {e \in B!Cells : b[e] \in {"sand"}}
  BY <1>1 DEF Soil
<1>3. {e \in B!Cells : d[e] \in Soil} = {e \in B!Cells : b[e] \in Soil}
  BY <1>1 DEF Soil
<1>4. Keeps(d, b)
  BY <1>2, <1>3 DEF Keeps, B!Amount
<1>5. ASSUME NEW u \in 1..Width, NEW v \in 1..Top, Floating(d, u, v) PROVE Floating(b, u, v)
  <2>1. <<u, v>> \in B!Cells /\ <<u, v - 1>> \in B!Cells
    BY DEF B!Cells, B!BlockConstants
  <2>2. kind # "sand" /\ kind # "air"
    BY DEF Soil
  <2>3. d[<<u, v>>] = "sand" /\ d[<<u, v - 1>>] = "air"
    BY <1>5 DEF Floating
  <2>4. <<u, v>> # c /\ <<u, v - 1>> # c
    BY <1>1, <2>2, <2>3
  <2>5. b[<<u, v>>] = "sand" /\ b[<<u, v - 1>>] = "air"
    BY <1>1, <2>1, <2>3, <2>4
  <2> QED BY <2>5 DEF Floating
<1> QED BY <1>1, <1>4, <1>5 DEF Quiet, d

\* Water flows into air.
LEMMA FlowIs ==
  ASSUME NEW b, NEW c, NEW first
  PROVE  \/ B!Flow(b, c, first) = {}
         \/ \E e \in B!Cells : b[e] = "air" /\ B!Flow(b, c, first) = {e}
  BY AtCell DEF B!Flow

LEMMA FloodedQuiet ==
  ASSUME B!BlockConstants, NEW b \in Slabs, NEW c, NEW first
  PROVE  Quiet(B!Flooded(b, B!Flow(b, c, first)), b)
<1>1. CASE B!Flow(b, c, first) = {}
  BY <1>1, QuietSame DEF B!Flooded
<1>2. CASE B!Flow(b, c, first) # {}
  <2>1. PICK e \in B!Cells : b[e] = "air" /\ B!Flow(b, c, first) = {e}
    BY <1>2, FlowIs
  <2>2. B!Flooded(b, {e}) = [b EXCEPT ![e] = "water"]
    BY DEF B!Flooded, Slabs
  <2>3. "water" \in B!Kinds
    BY DEF B!Kinds
  <2> QED BY <2>1, <2>2, <2>3, PutQuiet
<1> QED BY <1>1, <1>2

LEMMA SpreadQuiet ==
  ASSUME B!BlockConstants, NEW w \in Works, NEW c \in Int \X Int, NEW first
  PROVE  B!Spread(w, c, first) \in Works /\ Quiet(B!Spread(w, c, first).blocks, w.blocks)
<1> DEFINE b == B!Flooded(w.blocks, B!Flow(w.blocks, c, first))
           q == IF B!Below(c) \in B!Flow(w.blocks, c, first)
                THEN Append(w.later, [due |-> FluidDelay, cell |-> B!Below(c)]) ELSE w.later
<1>1. w.blocks \in Slabs /\ w.later \in Seq(Entries)
  BY DEF Works
<1>2. Quiet(b, w.blocks)
  BY <1>1, FloodedQuiet
<1>3. B!Below(c) \in Int \X Int /\ FluidDelay \in Nat
  BY DEF B!Below, B!BlockConstants
<1>4. q \in Seq(Entries)
  <2>1. [due |-> FluidDelay, cell |-> B!Below(c)] \in Entries
    BY <1>3 DEF Entries
  <2> QED BY <1>1, <2>1
<1>5. B!Spread(w, c, first) = [blocks |-> b, later |-> q]
  BY Zenon DEF B!Spread
<1> HIDE DEF b, q
<1> QED BY <1>2, <1>4, <1>5 DEF Works, Quiet

LEMMA ScheduledQuiet ==
  ASSUME B!BlockConstants, NEW w \in Works, NEW c \in Int \X Int, NEW first
  PROVE  /\ B!ScheduledTick(w, c, first) \in Works
         /\ Quiet(B!ScheduledTick(w, c, first).blocks, w.blocks)
         /\ \A v \in 1..Top : c[1] \in 1..Width /\ c[2] \in 1..v
              => ~Floating(B!ScheduledTick(w, c, first).blocks, c[1], v)
<1>1. w.blocks \in Slabs /\ Top \in Nat
  BY DEF Works, B!BlockConstants
<1>2. CASE c[2] <= 0 \/ c[2] > Top \/ c \notin B!Cells
  <2>1. B!ScheduledTick(w, c, first) = w
    BY <1>2 DEF B!ScheduledTick
  <2>2. ASSUME NEW v \in 1..Top, c[1] \in 1..Width, c[2] \in 1..v PROVE FALSE
    <3>1. c[2] \in 0..Top /\ c[2] > 0 /\ ~(c[2] > Top) /\ ~(c[2] <= 0) /\ c = <<c[1], c[2]>>
      BY <1>1, <2>2
    <3>2. c \in B!Cells
      BY <2>2, <3>1 DEF B!Cells
    <3> QED BY <1>2, <3>1, <3>2
  <2> QED BY <1>1, <2>1, <2>2, QuietSame
<1>3. CASE ~(c[2] <= 0 \/ c[2] > Top \/ c \notin B!Cells)
  <2> DEFINE d == B!Settled(w.blocks, c)
             n == [w EXCEPT !.blocks = d]
             e == B!Spread(n, c, first)
  <2>1. c \in B!Cells /\ c[2] > 0
    BY <1>3
  <2>2. Quiet(d, w.blocks) /\ \A v \in 1..Top : v >= c[2] => ~Floating(d, c[1], v)
    BY <1>1, <2>1, SettledQuiet
  <2>3. B!ScheduledTick(w, c, first) = e
    BY <1>3 DEF B!ScheduledTick, Works
  <2> HIDE DEF d
  <2>4. n \in Works /\ n.blocks = d
    BY <2>2 DEF Works, Quiet
  <2> HIDE DEF n
  <2>5. e \in Works /\ Quiet(e.blocks, d)
    BY <2>4, SpreadQuiet
  <2> HIDE DEF e
  <2>6. Quiet(e.blocks, w.blocks)
    BY <2>2, <2>5, QuietTwice
  <2>7. ASSUME NEW v \in 1..Top, c[1] \in 1..Width, c[2] \in 1..v
        PROVE  ~Floating(e.blocks, c[1], v)
    <3>1. v >= c[2]
      BY <2>7
    <3> QED BY <2>2, <2>5, <2>7, <3>1 DEF Quiet
  <2> QED BY <2>3, <2>5, <2>6, <2>7
<1> QED BY <1>2, <1>3

LEMMA EntryQuiet ==
  ASSUME B!BlockConstants, NEW w \in Works, NEW s \in Entries, NEW first
  PROVE  /\ B!Entry(w, s, first) \in Works
         /\ Quiet(B!Entry(w, s, first).blocks, w.blocks)
         /\ s.due = 1 => \A v \in 1..Top : s.cell[1] \in 1..Width /\ s.cell[2] \in 1..v
              => ~Floating(B!Entry(w, s, first).blocks, s.cell[1], v)
<1>1. s.cell \in Int \X Int
  BY DEF Entries
<1>2. CASE s.due = 1
  BY <1>1, <1>2, ScheduledQuiet DEF B!Entry
<1>3. CASE s.due # 1
  <2> DEFINE q == Append(w.later, [s EXCEPT !.due = @ - 1])
  <2>0. w.later \in Seq(Entries) /\ w.blocks \in Slabs
    BY DEF Works
  <2>1. [s EXCEPT !.due = @ - 1] \in Entries
    BY <1>3 DEF Entries
  <2>2. q \in Seq(Entries)
    BY <2>0, <2>1
  <2>3. B!Entry(w, s, first) = [w EXCEPT !.later = q]
    BY <1>3 DEF B!Entry, Works
  <2> QED BY <1>3, <2>0, <2>2, <2>3, QuietSame DEF Works
<1> QED BY <1>2, <1>3

LEMMA SurfaceIs ==
  ASSUME B!BlockConstants, NEW b, NEW x
  PROVE  B!Surface(b, x) \in 0..Top
<1> DEFINE filled == {y \in 0..Top : b[<<x, y>>] # "air"}
           T == {y + 1 : y \in filled}
<1>0. Top \in Nat /\ Top + 1 \in Nat
  BY DEF B!BlockConstants
<1>1. CASE filled = {}
  BY <1>0, <1>1 DEF B!Surface
<1>2. CASE filled # {}
  <2>1. T \in SUBSET (1..Top + 1) /\ T # {}
    <3>1. ASSUME NEW y \in filled PROVE y + 1 \in 1..Top + 1
      BY <1>0
    <3>2. \E y \in filled : y + 1 \in T
      BY <1>2
    <3> QED BY <3>1, <3>2
  <2>2. B!Max(T) \in T /\ \A m \in T : m <= B!Max(T)
    BY <1>0, <2>1, GreatestOf
  <2>3. PICK y \in filled : B!Max(T) = y + 1
    BY <2>2
  <2>4. ASSUME NEW z \in filled PROVE z <= y
    <3>1. z + 1 \in T /\ z \in Int /\ y \in Int
      BY <1>0
    <3>2. z + 1 <= y + 1
      BY <2>2, <2>3, <3>1
    <3> QED BY <3>1, <3>2
  <2>5. B!Surface(b, x) = CHOOSE m \in filled : \A z \in filled : z <= m
    BY <1>2 DEF B!Surface
  <2> HIDE DEF filled
  <2>6. (CHOOSE m \in filled : \A z \in filled : z <= m) \in filled
    BY <2>4
  <2> QED BY <2>5, <2>6 DEF filled
<1> QED BY <1>1, <1>2

LEMMA RandomQuiet ==
  ASSUME B!BlockConstants, NEW w \in Works, NEW x \in 0..Width, NEW first, NEW grow \in BOOLEAN
  PROVE  /\ B!RandomTick(w, x, first, grow) \in Works
         /\ Quiet(B!RandomTick(w, x, first, grow).blocks, w.blocks)
<1> DEFINE c == <<x, B!Surface(w.blocks, x)>>
           b == w.blocks
           n == B!RandomTick(w, x, first, grow)
           Puts(e, kind) == [w EXCEPT !.blocks[e] = kind]
<1>0. Width \in Nat /\ Top \in Nat /\ b \in Slabs /\ w.later \in Seq(Entries)
  BY DEF B!BlockConstants, Works
<1>1. ASSUME x = 0 \/ c[2] = Top PROVE n = w
  BY <1>1 DEF B!RandomTick
<1>2. ASSUME ~(x = 0 \/ c[2] = Top)
      PROVE  c \in B!Cells /\ B!Above(c) \in B!Cells /\ c \in Int \X Int
  <2>1. B!Surface(b, x) \in 0..Top
    BY SurfaceIs
  <2> QED BY <1>0, <1>2, <2>1 DEF B!Cells, B!Above
<1>3. ASSUME NEW e \in B!Cells, NEW kind \in B!Kinds,
             \/ b[e] = "air" /\ kind \in {"water", "short_grass"}
             \/ b[e] \in Soil /\ kind \in Soil
      PROVE  Puts(e, kind) \in Works /\ Quiet(Puts(e, kind).blocks, b)
  <2>1. Puts(e, kind) = [blocks |-> [b EXCEPT ![e] = kind], later |-> w.later]
    BY DEF Works
  <2>2. Quiet([b EXCEPT ![e] = kind], b)
    BY <1>0, <1>3, PutQuiet
  <2> HIDE DEF Puts
  <2> QED BY <1>0, <2>1, <2>2 DEF Works, Quiet
<1>4. w \in Works /\ Quiet(w.blocks, b)
  BY <1>0, QuietSame
<1>5. c \in Int \X Int =>
        B!Spread(w, c, first) \in Works /\ Quiet(B!Spread(w, c, first).blocks, b)
  BY SpreadQuiet
<1>6. CASE ~(x = 0 \/ c[2] = Top)
  <2>1. \/ n = B!Spread(w, c, first)
        \/ b[c] = "dirt" /\ n = Puts(c, "grass_block")
        \/ b[c] = "grass_block" /\ n = Puts(c, "dirt")
        \/ b[B!Above(c)] = "air" /\ n = Puts(B!Above(c), "short_grass")
        \/ n = w
    BY <1>6 DEF B!RandomTick
  <2>2. n \in Works /\ Quiet(n.blocks, b)
    <3>1. {"dirt", "grass_block", "short_grass"} \subseteq B!Kinds
      BY DEF B!Kinds
    <3> HIDE DEF n, c, Puts, b
    <3> QED BY <1>2, <1>3, <1>4, <1>5, <1>6, <2>1, <3>1 DEF Soil
  <2> QED BY <2>2
<1> QED BY <1>1, <1>4, <1>6

\* The folds of a tick, over the scheduled entries and over the columns ticked at random.
RanBy(g, b, q, first) ==
  g = [s \in SUBSET DOMAIN q |->
         IF s = {} THEN [blocks |-> b, later |-> <<>>]
         ELSE B!Entry(g[s \ {B!Max(s)}], q[B!Max(s)], first)]
Ran(b, q, first) == (CHOOSE g : RanBy(g, b, q, first))[DOMAIN q]

GrewBy(g, w, columns, first, grow) ==
  g = [s \in SUBSET DOMAIN columns |->
         IF s = {} THEN w
         ELSE B!RandomTick(g[s \ {B!Max(s)}], columns[B!Max(s)], first, grow)]
Grew(w, columns, first, grow) == (CHOOSE g : GrewBy(g, w, columns, first, grow))[DOMAIN columns]

LEMMA BlockTickIs ==
  ASSUME B!BlockTick
  PROVE  \E first \in {1, -1}, columns \in [1..RandomTicks -> 0..Width], grow \in BOOLEAN :
           LET ended == Grew(Ran(blocks, scheduled, first), columns, first, grow)
           IN  blocks' = ended.blocks /\ scheduled' = ended.later /\ view' = B!Sent(blocks, ended.blocks)
  BY Zenon DEF B!BlockTick, B!FoldLeft, B!MapThenFoldSet, Ran, RanBy, Grew, GrewBy

LEMMA RanQuiet ==
  ASSUME B!BlockConstants, NEW b \in Slabs, NEW q \in Seq(Entries), NEW first
  PROVE  /\ Ran(b, q, first) \in Works /\ Quiet(Ran(b, q, first).blocks, b)
         /\ \A j \in 1..Len(q), v \in 1..Top :
              q[j].due = 1 /\ q[j].cell[1] \in 1..Width /\ q[j].cell[2] \in 1..v
              => ~Floating(Ran(b, q, first).blocks, q[j].cell[1], v)
<1> DEFINE n == Len(q)
           start == [blocks |-> b, later |-> <<>>]
           g == CHOOSE h : RanBy(h, b, q, first)
           f == [p \in Works \X (1..n) |-> B!Entry(p[1], q[p[2]], first)]
<1>1. /\ n \in Nat /\ DOMAIN q = 1..n /\ \A i \in 1..n : q[i] \in Entries
      /\ start \in Works /\ start.blocks = b
  BY DEF Works
<1>2. Ran(b, q, first) = g[1..n]
  BY <1>1, Zenon DEF Ran
<1> HIDE DEF n, start
<1>3. ASSUME NEW h, \A s \in SUBSET (1..n) :
               h[s] = IF s = {} THEN start ELSE B!Entry(h[s \ {B!Max(s)}], q[B!Max(s)], first),
             h = [s \in SUBSET (1..n) |-> h[s]]
      PROVE  RanBy(h, b, q, first)
  BY <1>1, <1>3, Zenon DEF RanBy, start
<1>4. \E h : RanBy(h, b, q, first)
  <2>1. ASSUME NEW w \in Works, NEW i \in 1..n PROVE f[<<w, i>>] = B!Entry(w, q[i], first)
    OBVIOUS
  <2>2. ASSUME NEW w \in Works, NEW i \in 1..n PROVE f[<<w, i>>] \in Works
    BY <1>1, <2>1, EntryQuiet
  <2> HIDE DEF f
  <2>3. PICK h \in [SUBSET (1..n) -> Works] : Folding(f, start, n, h)
    BY <1>1, <2>2, FoldExists
  <2>4. ASSUME NEW s \in SUBSET (1..n)
        PROVE  h[s] = IF s = {} THEN start ELSE B!Entry(h[s \ {B!Max(s)}], q[B!Max(s)], first)
    <3>1. CASE s = {}
      BY <2>3, <3>1 DEF Folding
    <3>2. CASE s # {}
      <4>1. h[s] = f[<<h[s \ {B!Max(s)}], B!Max(s)>>]
        BY <2>3, <3>2 DEF Folding
      <4>2. B!Max(s) \in 1..n /\ h[s \ {B!Max(s)}] \in Works
        BY <1>1, <2>3, <3>2, GreatestOf
      <4> QED BY <2>1, <3>2, <4>1, <4>2
    <3> QED BY <3>1, <3>2
  <2>5. h = [s \in SUBSET (1..n) |-> h[s]]
    BY <2>3
  <2> QED BY <1>3, <2>4, <2>5
<1>5. RanBy(g, b, q, first)
  BY <1>4, Zenon
<1> HIDE DEF g
<1> DEFINE r(k) == g[1..k]
<1>6. r(0) = start
  <2>1. 1..0 = {} /\ {} \in SUBSET DOMAIN q
    OBVIOUS
  <2> QED BY <1>5, <2>1 DEF RanBy, start
<1>7. ASSUME NEW k \in 1..n PROVE r(k) = B!Entry(r(k - 1), q[k], first)
  <2>1. /\ 1..k \in SUBSET DOMAIN q /\ 1..k # {} /\ B!Max(1..k) = k
        /\ (1..k) \ {B!Max(1..k)} = 1..k - 1
    BY <1>1, UpToIs
  <2> QED BY <1>5, <2>1 DEF RanBy
<1> HIDE DEF r
<1> DEFINE Still(w, j) == \A v \in 1..Top :
              q[j].due = 1 /\ q[j].cell[1] \in 1..Width /\ q[j].cell[2] \in 1..v
              => ~Floating(w.blocks, q[j].cell[1], v)
           Good(k) == r(k) \in Works /\ Quiet(r(k).blocks, b) /\ \A j \in 1..k : Still(r(k), j)
           T == {k \in 0..n : Good(k)}
<1>8. 0 \in T
  <2>1. r(0) \in Works /\ Quiet(r(0).blocks, b)
    BY <1>1, <1>6, QuietSame
  <2>2. ~ \E j \in 1..0 : TRUE
    OBVIOUS
  <2> QED BY <1>1, <2>1, <2>2
<1>9. ASSUME NEW k \in 0 + 1..n, k - 1 \in T PROVE k \in T
  <2>1. k \in 1..n /\ k - 1 \in 0..n /\ k \in 0..n
    BY <1>1
  <2> DEFINE w == r(k - 1)
             d == r(k)
  <2>2. w \in Works /\ Quiet(w.blocks, b) /\ \A j \in 1..k - 1 : Still(w, j)
    BY <1>9
  <2>3. q[k] \in Entries /\ d = B!Entry(w, q[k], first)
    BY <1>1, <1>7, <2>1
  <2> HIDE DEF w, d
  <2>4. d \in Works /\ Quiet(d.blocks, w.blocks) /\ Still(d, k)
    BY <2>2, <2>3, EntryQuiet
  <2>5. Quiet(d.blocks, b)
    BY <2>2, <2>4, QuietTwice
  <2>6. ASSUME NEW j \in 1..k - 1 PROVE Still(d, j)
    <3>1. Still(w, j)
      BY <2>2
    <3> QED BY <2>4, <3>1 DEF Quiet
  <2>7. \A j \in 1..k : j = k \/ j \in 1..k - 1
    BY <2>1
  <2> HIDE DEF Still
  <2>8. \A j \in 1..k : Still(d, j)
    BY <2>4, <2>6, <2>7
  <2> QED BY <2>1, <2>4, <2>5, <2>8 DEF d
<1> HIDE DEF T
<1>10. 0..n \subseteq T
  <2>1. 0 \in Int /\ n \in Int
    BY <1>1
  <2>2. \A k \in 0 + 1..n : k - 1 \in T => k \in T
    BY <1>9
  <2> QED BY <1>8, <2>1, <2>2, Upwards
<1>11. n \in T
  BY <1>1, <1>10
<1> QED BY <1>2, <1>11 DEF T, r, n

LEMMA GrewQuiet ==
  ASSUME B!BlockConstants, NEW start \in Works, NEW first, NEW grow \in BOOLEAN,
         NEW q \in [1..RandomTicks -> 0..Width]
  PROVE  /\ Grew(start, q, first, grow) \in Works
         /\ Quiet(Grew(start, q, first, grow).blocks, start.blocks)
<1> DEFINE n == RandomTicks
           b == start.blocks
           g == CHOOSE h : GrewBy(h, start, q, first, grow)
           f == [p \in Works \X (1..n) |-> B!RandomTick(p[1], q[p[2]], first, grow)]
<1>1. /\ n \in Nat /\ DOMAIN q = 1..n /\ \A i \in 1..n : q[i] \in 0..Width
      /\ start \in Works /\ b \in Slabs
  BY DEF Works, B!BlockConstants
<1>2. Grew(start, q, first, grow) = g[1..n]
  BY <1>1, Zenon DEF Grew
<1> HIDE DEF n
<1>3. ASSUME NEW h, \A s \in SUBSET (1..n) :
               h[s] = IF s = {} THEN start
                      ELSE B!RandomTick(h[s \ {B!Max(s)}], q[B!Max(s)], first, grow),
             h = [s \in SUBSET (1..n) |-> h[s]]
      PROVE  GrewBy(h, start, q, first, grow)
  BY <1>1, <1>3, Zenon DEF GrewBy
<1>4. \E h : GrewBy(h, start, q, first, grow)
  <2>1. ASSUME NEW w \in Works, NEW i \in 1..n
        PROVE  f[<<w, i>>] = B!RandomTick(w, q[i], first, grow)
    OBVIOUS
  <2>2. ASSUME NEW w \in Works, NEW i \in 1..n PROVE f[<<w, i>>] \in Works
    BY <1>1, <2>1, RandomQuiet
  <2> HIDE DEF f
  <2>3. PICK h \in [SUBSET (1..n) -> Works] : Folding(f, start, n, h)
    BY <1>1, <2>2, FoldExists
  <2>4. ASSUME NEW s \in SUBSET (1..n)
        PROVE  h[s] = IF s = {} THEN start
                      ELSE B!RandomTick(h[s \ {B!Max(s)}], q[B!Max(s)], first, grow)
    <3>1. CASE s = {}
      BY <2>3, <3>1 DEF Folding
    <3>2. CASE s # {}
      <4>1. h[s] = f[<<h[s \ {B!Max(s)}], B!Max(s)>>]
        BY <2>3, <3>2 DEF Folding
      <4>2. B!Max(s) \in 1..n /\ h[s \ {B!Max(s)}] \in Works
        BY <1>1, <2>3, <3>2, GreatestOf
      <4> QED BY <2>1, <3>2, <4>1, <4>2
    <3> QED BY <3>1, <3>2
  <2>5. h = [s \in SUBSET (1..n) |-> h[s]]
    BY <2>3
  <2> QED BY <1>3, <2>4, <2>5
<1>5. GrewBy(g, start, q, first, grow)
  BY <1>4, Zenon
<1> HIDE DEF g
<1> DEFINE r(k) == g[1..k]
<1>6. r(0) = start
  <2>1. 1..0 = {} /\ {} \in SUBSET DOMAIN q
    OBVIOUS
  <2> QED BY <1>5, <2>1 DEF GrewBy
<1>7. ASSUME NEW k \in 1..n PROVE r(k) = B!RandomTick(r(k - 1), q[k], first, grow)
  <2>1. /\ 1..k \in SUBSET DOMAIN q /\ 1..k # {} /\ B!Max(1..k) = k
        /\ (1..k) \ {B!Max(1..k)} = 1..k - 1
    BY <1>1, UpToIs
  <2> QED BY <1>5, <2>1 DEF GrewBy
<1> HIDE DEF r, b
<1> DEFINE T == {k \in 0..n : r(k) \in Works /\ Quiet(r(k).blocks, b)}
<1>8. 0 \in T
  BY <1>1, <1>6, QuietSame DEF b
<1>9. ASSUME NEW k \in 0 + 1..n, k - 1 \in T PROVE k \in T
  <2>1. k \in 1..n /\ k - 1 \in 0..n /\ k \in 0..n
    BY <1>1
  <2>2. r(k - 1) \in Works /\ Quiet(r(k - 1).blocks, b)
    BY <1>9
  <2>3. q[k] \in 0..Width /\ r(k) = B!RandomTick(r(k - 1), q[k], first, grow)
    BY <1>1, <1>7, <2>1
  <2>4. r(k) \in Works /\ Quiet(r(k).blocks, r(k - 1).blocks)
    BY <2>2, <2>3, RandomQuiet
  <2> QED BY <2>1, <2>2, <2>4, QuietTwice
<1> HIDE DEF T
<1>10. 0..n \subseteq T
  <2>1. 0 \in Int /\ n \in Int
    BY <1>1
  <2>2. \A k \in 0 + 1..n : k - 1 \in T => k \in T
    BY <1>9
  <2> QED BY <1>8, <2>1, <2>2, Upwards
<1>11. n \in T
  BY <1>1, <1>10
<1> QED BY <1>2, <1>11 DEF T, r, n, b

\* An entry for the next tick is at or below the row y of the column x.
Expected(q, x, y) ==
  \E i \in 1..Len(q) : q[i].due = 1 /\ q[i].cell[1] = x /\ q[i].cell[2] \in 1..y

BlockInv ==
  /\ blocks \in Slabs /\ view = blocks
  /\ scheduled \in Seq(Entries)
  /\ carried \in [B!Items -> Nat]

\* What hangs after a step hung before it.
NoneLeft ==
  \A x \in 1..Width, y \in 1..Top :
     Floating(blocks', x, y) /\ ~Expected(scheduled', x, y)
       => Floating(blocks, x, y) /\ ~Expected(scheduled, x, y)

LEMMA HangingIs ==
  ASSUME B!BlockConstants, NEW x \in 1..Width, NEW y \in 1..Top, NEW c, c = <<x, y>>,
         scheduled \in Seq(Entries)
  PROVE  c \in B!Hanging <=> Floating(blocks, x, y) /\ ~Expected(scheduled, x, y)
<1>1. c \in B!Cells /\ c[1] = x /\ c[2] = y /\ y > 0 /\ B!Below(c) = <<x, y - 1>>
  BY DEF B!Cells, B!Below, B!BlockConstants
<1>2. DOMAIN scheduled = 1..Len(scheduled)
  OBVIOUS
<1>3. B!Expected(c) <=> Expected(scheduled, x, y)
  BY <1>1, <1>2 DEF B!Expected, Expected
<1>4. c \in B!Floats(blocks) <=> Floating(blocks, x, y)
  BY <1>1 DEF B!Floats, Floating
<1> QED BY <1>3, <1>4 DEF B!Hanging

LEMMA HangingAfter ==
  ASSUME B!BlockConstants, BlockInv, BlockInv', NoneLeft
  PROVE  B!Hanging' \subseteq B!Hanging
<1> SUFFICES ASSUME NEW c \in B!Hanging' PROVE c \in B!Hanging
  OBVIOUS
<1>1. c[1] \in 1..Width /\ c[2] \in 1..Top /\ c = <<c[1], c[2]>>
      /\ Floating(blocks', c[1], c[2]) /\ ~Expected(scheduled', c[1], c[2])
  <2>1. c[1] \in 1..Width /\ c[2] \in 1..Top /\ c = <<c[1], c[2]>>
    BY DEF B!Hanging, B!Floats, B!Cells, B!BlockConstants
  <2>2. Floating(blocks', c[1], c[2])
    <3>1. c[2] > 0 /\ blocks'[c] = "sand" /\ blocks'[B!Below(c)] = "air"
      BY DEF B!Hanging, B!Floats
    <3> QED BY <2>1, <3>1 DEF B!Below, Floating
  <2>3. ~Expected(scheduled', c[1], c[2])
    <3>1. ~\E i \in DOMAIN scheduled' : /\ scheduled'[i].due = 1
                                       /\ scheduled'[i].cell[1] = c[1]
                                       /\ scheduled'[i].cell[2] \in 1..c[2]
      BY DEF B!Hanging, B!Expected
    <3>2. DOMAIN scheduled' = 1..Len(scheduled')
      BY DEF BlockInv
    <3> QED BY <3>1, <3>2 DEF Expected
  <2> QED BY <2>1, <2>2, <2>3
<1>2. Floating(blocks, c[1], c[2]) /\ ~Expected(scheduled, c[1], c[2])
  BY <1>1 DEF NoneLeft
<1>3. scheduled \in Seq(Entries)
  BY DEF BlockInv
<1> QED BY <1>1, <1>2, <1>3, HangingIs

LEMMA BlockInit ==
  ASSUME B!BlockConstants, B!Init
  PROVE  BlockInv
  BY DEF B!Init, B!BlockConstants, Slabs, BlockInv

\* The updates for the changed cells make the client's blocks the server's.
LEMMA SentIs ==
  ASSUME NEW b \in Slabs, NEW d \in Slabs, view = b
  PROVE  B!Sent(b, d) = d
  BY DEF B!Sent, Slabs

LEMMA TickKeeps ==
  ASSUME B!BlockConstants, BlockInv, B!BlockTick
  PROVE  BlockInv' /\ NoneLeft /\ Keeps(blocks', blocks) /\ carried' = carried
<1>1. PICK first \in {1, -1}, columns \in [1..RandomTicks -> 0..Width], grow \in BOOLEAN :
         LET ended == Grew(Ran(blocks, scheduled, first), columns, first, grow)
         IN  blocks' = ended.blocks /\ scheduled' = ended.later /\ view' = B!Sent(blocks, ended.blocks)
  BY BlockTickIs
<1> DEFINE ran == Ran(blocks, scheduled, first)
           ended == Grew(ran, columns, first, grow)
<1>2. /\ ran \in Works /\ Quiet(ran.blocks, blocks)
      /\ \A j \in 1..Len(scheduled), v \in 1..Top :
           scheduled[j].due = 1 /\ scheduled[j].cell[1] \in 1..Width /\ scheduled[j].cell[2] \in 1..v
           => ~Floating(ran.blocks, scheduled[j].cell[1], v)
  BY RanQuiet DEF BlockInv
<1>3. blocks' = ended.blocks /\ scheduled' = ended.later /\ view' = B!Sent(blocks, ended.blocks)
  BY <1>1
<1>4. ASSUME NEW x \in 1..Width, NEW y \in 1..Top, Floating(ran.blocks, x, y)
      PROVE  Floating(blocks, x, y) /\ ~Expected(scheduled, x, y)
  <2>1. Floating(blocks, x, y)
    BY <1>2, <1>4 DEF Quiet
  <2>2. ~Expected(scheduled, x, y)
    BY <1>2, <1>4 DEF Expected
  <2> QED BY <2>1, <2>2
<1> HIDE DEF ran
<1>5. ended \in Works /\ Quiet(ended.blocks, ran.blocks)
  BY <1>2, GrewQuiet
<1> HIDE DEF ended
<1>6. NoneLeft
  BY <1>3, <1>4, <1>5 DEF Quiet, NoneLeft
<1>7. blocks' \in Slabs /\ scheduled' \in Seq(Entries)
  BY <1>3, <1>5 DEF Works
<1>8. Quiet(ended.blocks, blocks)
  BY <1>2, <1>5, QuietTwice
<1>9. Keeps(blocks', blocks)
  BY <1>3, <1>8 DEF Quiet
<1>10. view' = blocks'
  BY <1>3, <1>7, SentIs DEF BlockInv
<1>11. carried' = carried
  BY DEF B!BlockTick
<1> QED BY <1>6, <1>7, <1>9, <1>10, <1>11 DEF BlockInv

\* A block that is put, and the entries for its neighbours.
LEMMA ChangedKeeps ==
  ASSUME B!BlockConstants, BlockInv, NEW c \in B!Cells, NEW kind \in B!Kinds, NEW told,
         B!Changed(c, kind, told),
         \/ kind = "air" /\ told = B!Above(c)
         \/ kind # "air" /\ told = c,
         carried' \in [B!Items -> Nat]
  PROVE  BlockInv' /\ NoneLeft
<1> DEFINE more == B!Notified(told)
           d == [blocks EXCEPT ![c] = kind]
<1>0. /\ c[1] \in 1..Width /\ c[2] \in 0..Top /\ c = <<c[1], c[2]>> /\ c[1] \in Int /\ c[2] \in Int
      /\ Width \in Nat /\ Top \in Nat
  BY DEF B!Cells, B!BlockConstants
<1>1. /\ blocks' = d /\ view' = d /\ scheduled' = scheduled \o more
      /\ scheduled \in Seq(Entries) /\ blocks \in Slabs /\ view = blocks
  BY DEF B!Changed, BlockInv
<1>2. d \in Slabs /\ d[c] = kind /\ \A e \in B!Cells : e # c => d[e] = blocks[e]
  BY <1>1 DEF Slabs
<1>3. told \in Int \X Int
  BY <1>0 DEF B!Above
<1>4. more \in Seq(Entries) /\ Len(more) = 5 /\ more[1] = [due |-> 1, cell |-> told]
  <2> DEFINE around == <<told, B!Above(told), B!Below(told), <<told[1] + 1, told[2]>>,
                         <<told[1] - 1, told[2]>> >>
  <2>1. \A i \in 1..5 : around[i] \in Int \X Int
    BY <1>3 DEF B!Above, B!Below
  <2>2. more = [i \in 1..5 |-> [due |-> 1, cell |-> around[i]]]
    BY DEF B!Notified
  <2>3. around[1] = told
    OBVIOUS
  <2> HIDE DEF around, more
  <2>4. \A i \in 1..5 : more[i] \in Entries
    BY <2>1, <2>2 DEF Entries
  <2>5. more \in Seq(Entries)
    BY <2>2, <2>4
  <2>6. Len(more) = 5
    BY <2>2
  <2> QED BY <2>2, <2>3, <2>5, <2>6
<1> HIDE DEF more, d
<1>5. /\ scheduled' \in Seq(Entries) /\ Len(scheduled') = Len(scheduled) + 5
      /\ \A i \in 1..Len(scheduled) : scheduled'[i] = scheduled[i]
      /\ scheduled'[Len(scheduled) + 1] = [due |-> 1, cell |-> told]
  <2>1. scheduled \in Seq(Entries) /\ more \in Seq(Entries)
    BY <1>1, <1>4
  <2>2. /\ scheduled \o more \in Seq(Entries) /\ Len(scheduled \o more) = Len(scheduled) + Len(more)
        /\ \A i \in 1..Len(scheduled) + Len(more) : (scheduled \o more)[i] =
             IF i <= Len(scheduled) THEN scheduled[i] ELSE more[i - Len(scheduled)]
    BY <2>1, ConcatProperties
  <2> DEFINE l == Len(scheduled)
             q == scheduled \o more
  <2>3. l \in Nat /\ Len(more) = 5
    BY <1>4, <2>1
  <2> HIDE DEF l, q
  <2>4. \A i \in 1..l : q[i] = scheduled[i]
    BY <2>2, <2>3 DEF l, q
  <2>5. q[l + 1] = more[1]
    BY <2>2, <2>3 DEF l, q
  <2>6. q \in Seq(Entries) /\ Len(q) = l + 5
    BY <2>2, <2>3 DEF l, q
  <2> QED BY <1>1, <1>4, <2>4, <2>5, <2>6 DEF l, q
<1>6. Len(scheduled) \in Nat
  BY <1>1
<1>7. ASSUME NEW x \in 1..Width, NEW y \in 1..Top, Floating(d, x, y),
             ~(Floating(blocks, x, y) /\ ~Expected(scheduled, x, y))
      PROVE  Expected(scheduled', x, y)
  <2>1. <<x, y>> \in B!Cells /\ <<x, y - 1>> \in B!Cells
    BY <1>0 DEF B!Cells
  <2>2. d[<<x, y>>] = "sand" /\ d[<<x, y - 1>>] = "air"
    BY <1>7 DEF Floating
  <2>3. CASE Floating(blocks, x, y)
    <3>1. PICK i \in 1..Len(scheduled) : /\ scheduled[i].due = 1 /\ scheduled[i].cell[1] = x
                                         /\ scheduled[i].cell[2] \in 1..y
      BY <1>7, <2>3 DEF Expected
    <3>2. i \in 1..Len(scheduled') /\ scheduled'[i] = scheduled[i]
      BY <1>5, <1>6
    <3> QED BY <3>1, <3>2 DEF Expected
  <2>4. CASE ~Floating(blocks, x, y)
    <3>1. <<x, y>> = c \/ <<x, y - 1>> = c
      BY <1>2, <2>1, <2>2, <2>4 DEF Floating
    <3>2. told = <<x, y>>
      <4>1. CASE <<x, y>> = c
        BY <1>2, <2>2, <4>1
      <4>2. CASE <<x, y - 1>> = c
        <5>1. kind = "air" /\ c[1] = x /\ c[2] = y - 1
          BY <1>2, <2>2, <4>2
        <5>2. told = <<x, (y - 1) + 1>>
          BY <5>1 DEF B!Above
        <5> QED BY <5>2
      <4> QED BY <3>1, <4>1, <4>2
    <3>3. Len(scheduled) + 1 \in 1..Len(scheduled') /\ y \in 1..y
      BY <1>5, <1>6
    <3> DEFINE j == Len(scheduled) + 1
    <3>4. scheduled'[j].due = 1 /\ scheduled'[j].cell[1] = x /\ scheduled'[j].cell[2] = y
      BY <1>5, <3>2
    <3> HIDE DEF j
    <3> QED BY <3>3, <3>4 DEF Expected, j
  <2> QED BY <2>3, <2>4
<1>8. NoneLeft
  BY <1>1, <1>7 DEF NoneLeft
<1> QED BY <1>1, <1>2, <1>5, <1>8 DEF BlockInv

One(kind, kinds) == IF kind \in kinds THEN 1 ELSE 0

\* The amounts when one block becomes another.
LEMMA AmountPut ==
  ASSUME B!BlockConstants, NEW b \in Slabs, NEW c \in B!Cells, NEW kind \in B!Kinds, NEW kinds
  PROVE  /\ B!Amount(b, kinds) \in Nat /\ B!Amount([b EXCEPT ![c] = kind], kinds) \in Nat
         /\ B!Amount([b EXCEPT ![c] = kind], kinds) + One(b[c], kinds)
              = B!Amount(b, kinds) + One(kind, kinds)
<1> DEFINE d == [b EXCEPT ![c] = kind]
           others == {e \in B!Cells : e # c /\ b[e] \in kinds}
           All(a) == {e \in B!Cells : a[e] \in kinds}
<1>1. d[c] = kind /\ \A e \in B!Cells : e # c => d[e] = b[e]
  BY DEF Slabs
<1> HIDE DEF d
<1>2. IsFiniteSet(others) /\ Cardinality(others) \in Nat /\ c \notin others
  BY CellsFinite, FS_Subset, FS_CardinalityType
<1>3. Cardinality(others \cup {c}) = Cardinality(others) + 1
  BY <1>2, FS_AddElement
<1>4. /\ b[c] \in kinds => All(b) = others \cup {c}
      /\ b[c] \notin kinds => All(b) = others
      /\ kind \in kinds => All(d) = others \cup {c}
      /\ kind \notin kinds => All(d) = others
  BY <1>1
<1>5. B!Amount(b, kinds) = Cardinality(All(b)) /\ B!Amount(d, kinds) = Cardinality(All(d))
  BY CountIs, Zenon DEF B!Amount
<1> HIDE DEF others, All
<1>6. Cardinality(All(b)) = Cardinality(others) + One(b[c], kinds)
  <2>1. CASE b[c] \in kinds
    BY <1>3, <1>4, <2>1 DEF One
  <2>2. CASE b[c] \notin kinds
    BY <1>2, <1>4, <2>2 DEF One
  <2> QED BY <2>1, <2>2
<1>7. Cardinality(All(d)) = Cardinality(others) + One(kind, kinds)
  <2>1. CASE kind \in kinds
    BY <1>3, <1>4, <2>1 DEF One
  <2>2. CASE kind \notin kinds
    BY <1>2, <1>4, <2>2 DEF One
  <2> QED BY <2>1, <2>2
<1>8. One(b[c], kinds) \in Nat /\ One(kind, kinds) \in Nat
  BY DEF One
<1> QED BY <1>2, <1>5, <1>6, <1>7, <1>8 DEF d

LEMMA OwnedIs ==
  ASSUME NEW b, NEW d, NEW i \in [B!Items -> Nat], NEW j \in [B!Items -> Nat],
         B!Amount(d, {"sand"}) + j["sand"] = B!Amount(b, {"sand"}) + i["sand"],
         B!Amount(d, Soil) + j["dirt"] = B!Amount(b, Soil) + i["dirt"]
  PROVE  B!Owned(d, j) = B!Owned(b, i)
  BY DEF B!Owned, Soil

BlockStep == blockMode = "survival" => B!Owned(blocks', carried') = B!Owned(blocks, carried)

LEMMA StartBreakKeeps ==
  ASSUME B!BlockConstants, BlockInv, NEW c \in B!Cells, B!StartBreak(c)
  PROVE  BlockInv' /\ NoneLeft /\ BlockStep
<1>1. carried' = carried /\ carried' \in [B!Items -> Nat] /\ "air" \in B!Kinds
  BY DEF B!StartBreak, BlockInv, B!Kinds
<1>2. CASE blockMode = "creative" /\ blocks[c] # "bedrock"
  <2>1. B!Changed(c, "air", B!Above(c))
    BY <1>2 DEF B!StartBreak
  <2> QED BY <1>1, <1>2, <2>1, ChangedKeeps DEF BlockStep
<1>3. CASE ~(blockMode = "creative" /\ blocks[c] # "bedrock")
  <2>1. UNCHANGED <<blocks, view, scheduled>>
    BY <1>3 DEF B!StartBreak
  <2> QED BY <1>1, <2>1 DEF BlockInv, BlockStep, NoneLeft
<1> QED BY <1>2, <1>3

LEMMA StopBreakKeeps ==
  ASSUME B!BlockConstants, BlockInv, NEW c \in B!Cells, B!StopBreak(c)
  PROVE  BlockInv' /\ NoneLeft /\ BlockStep
<1> DEFINE gets == B!Drops(blocks[c], held)
           broke == mining.cell = c /\ mining.left = 0 /\ B!BreakTicks(blocks[c], held) > 0
           n == [k \in B!Items |-> carried[k] + IF k \in gets THEN 1 ELSE 0]
<1>0. carried \in [B!Items -> Nat] /\ blocks \in Slabs /\ "air" \in B!Kinds /\ blocks[c] \in B!Kinds
  BY DEF BlockInv, B!Kinds, Slabs
<1>1. CASE broke
  <2>1. B!Changed(c, "air", B!Above(c)) /\ carried' = n
    BY <1>1 DEF B!StopBreak
  <2>2. n \in [B!Items -> Nat]
    BY <1>0
  <2>3. BlockInv' /\ NoneLeft
    BY <1>0, <2>1, <2>2, ChangedKeeps
  <2>4. blocks' = [blocks EXCEPT ![c] = "air"]
    BY <2>1 DEF B!Changed
  <2>5. /\ n["sand"] = carried["sand"] + One(blocks[c], {"sand"})
        /\ n["dirt"] = carried["dirt"] + One(blocks[c], Soil)
    BY <1>0 DEF B!Drops, One, Soil, B!Items, B!Kinds
  <2>6. One("air", {"sand"}) = 0 /\ One("air", Soil) = 0
        /\ One(blocks[c], {"sand"}) \in Nat /\ One(blocks[c], Soil) \in Nat
    BY DEF One, Soil
  <2> HIDE DEF n
  <2>7. /\ B!Amount(blocks, {"sand"}) \in Nat /\ B!Amount(blocks', {"sand"}) \in Nat
        /\ B!Amount(blocks', {"sand"}) + One(blocks[c], {"sand"}) = B!Amount(blocks, {"sand"}) + 0
    <3>1. /\ B!Amount(blocks, {"sand"}) \in Nat
          /\ B!Amount([blocks EXCEPT ![c] = "air"], {"sand"}) \in Nat
          /\ B!Amount([blocks EXCEPT ![c] = "air"], {"sand"}) + One(blocks[c], {"sand"})
               = B!Amount(blocks, {"sand"}) + One("air", {"sand"})
      BY <1>0, AmountPut
    <3> QED BY <2>4, <2>6, <3>1
  <2>8. /\ B!Amount(blocks, Soil) \in Nat /\ B!Amount(blocks', Soil) \in Nat
        /\ B!Amount(blocks', Soil) + One(blocks[c], Soil) = B!Amount(blocks, Soil) + 0
    <3>1. /\ B!Amount(blocks, Soil) \in Nat
          /\ B!Amount([blocks EXCEPT ![c] = "air"], Soil) \in Nat
          /\ B!Amount([blocks EXCEPT ![c] = "air"], Soil) + One(blocks[c], Soil)
               = B!Amount(blocks, Soil) + One("air", Soil)
      BY <1>0, AmountPut
    <3> QED BY <2>4, <2>6, <3>1
  <2>9. carried["sand"] \in Nat /\ carried["dirt"] \in Nat
    BY <1>0 DEF B!Items
  <2>10. /\ B!Amount(blocks', {"sand"}) + n["sand"] = B!Amount(blocks, {"sand"}) + carried["sand"]
         /\ B!Amount(blocks', Soil) + n["dirt"] = B!Amount(blocks, Soil) + carried["dirt"]
    BY <2>5, <2>6, <2>7, <2>8, <2>9
  <2>11. B!Owned(blocks', n) = B!Owned(blocks, carried)
    BY <1>0, <2>2, <2>10, OwnedIs
  <2> QED BY <2>1, <2>3, <2>11 DEF BlockStep
<1>2. CASE ~broke
  <2>1. UNCHANGED <<blocks, view, scheduled, carried>>
    BY <1>2 DEF B!StopBreak
  <2> QED BY <2>1 DEF BlockInv, BlockStep, NoneLeft
<1> QED BY <1>1, <1>2

LEMMA PlaceKeeps ==
  ASSUME B!BlockConstants, BlockInv, NEW c \in B!Cells, B!Place(c)
  PROVE  BlockInv' /\ NoneLeft /\ BlockStep
<1>0. /\ carried \in [B!Items -> Nat] /\ blocks \in Slabs /\ held \in B!Items /\ carried[held] > 0
      /\ held \in B!Kinds /\ held # "air" /\ blocks[c] \in B!Replaceable
  BY DEF BlockInv, B!Kinds, B!Items, B!Place
<1>1. B!Changed(c, held, c) /\ carried' = B!Consumed
  BY DEF B!Place
<1>2. B!Consumed \in [B!Items -> Nat]
  BY <1>0 DEF B!Consumed
<1>3. BlockInv' /\ NoneLeft
  BY <1>0, <1>1, <1>2, ChangedKeeps
<1>4. ASSUME blockMode = "survival" PROVE B!Owned(blocks', carried') = B!Owned(blocks, carried)
  <2> DEFINE n == [carried EXCEPT ![held] = @ - 1]
  <2>1. carried' = n /\ n \in [B!Items -> Nat]
    BY <1>1, <1>2, <1>4 DEF B!Consumed
  <2>2. blocks' = [blocks EXCEPT ![c] = held]
    BY <1>1 DEF B!Changed
  <2>3. /\ n["sand"] + One(held, {"sand"}) = carried["sand"]
        /\ n["dirt"] + One(held, Soil) = carried["dirt"]
        /\ n["sand"] \in Nat /\ n["dirt"] \in Nat
    BY <1>0, <2>1 DEF One, Soil, B!Items
  <2>4. One(blocks[c], {"sand"}) = 0 /\ One(blocks[c], Soil) = 0
        /\ One(held, {"sand"}) \in Nat /\ One(held, Soil) \in Nat
    BY <1>0 DEF One, Soil, B!Replaceable
  <2> HIDE DEF n
  <2>5. /\ B!Amount(blocks, {"sand"}) \in Nat /\ B!Amount(blocks', {"sand"}) \in Nat
        /\ B!Amount(blocks', {"sand"}) + 0 = B!Amount(blocks, {"sand"}) + One(held, {"sand"})
    <3>1. /\ B!Amount(blocks, {"sand"}) \in Nat
          /\ B!Amount([blocks EXCEPT ![c] = held], {"sand"}) \in Nat
          /\ B!Amount([blocks EXCEPT ![c] = held], {"sand"}) + One(blocks[c], {"sand"})
               = B!Amount(blocks, {"sand"}) + One(held, {"sand"})
      BY <1>0, AmountPut
    <3> QED BY <2>2, <2>4, <3>1
  <2>6. /\ B!Amount(blocks, Soil) \in Nat /\ B!Amount(blocks', Soil) \in Nat
        /\ B!Amount(blocks', Soil) + 0 = B!Amount(blocks, Soil) + One(held, Soil)
    <3>1. /\ B!Amount(blocks, Soil) \in Nat
          /\ B!Amount([blocks EXCEPT ![c] = held], Soil) \in Nat
          /\ B!Amount([blocks EXCEPT ![c] = held], Soil) + One(blocks[c], Soil)
               = B!Amount(blocks, Soil) + One(held, Soil)
      BY <1>0, AmountPut
    <3> QED BY <2>2, <2>4, <3>1
  <2>7. /\ B!Amount(blocks', {"sand"}) + n["sand"] = B!Amount(blocks, {"sand"}) + carried["sand"]
        /\ B!Amount(blocks', Soil) + n["dirt"] = B!Amount(blocks, Soil) + carried["dirt"]
    BY <2>3, <2>4, <2>5, <2>6
  <2>8. B!Owned(blocks', n) = B!Owned(blocks, carried)
    BY <1>0, <2>1, <2>7, OwnedIs
  <2> QED BY <2>1, <2>8
<1> QED BY <1>3, <1>4 DEF BlockStep

\* A step that leaves blocks and stacks alone.
LEMMA OtherKeeps ==
  ASSUME BlockInv, UNCHANGED <<blocks, view, scheduled, carried>>
  PROVE  BlockInv' /\ NoneLeft /\ BlockStep
  BY DEF BlockInv, BlockStep, NoneLeft

LEMMA BlockNext ==
  ASSUME B!BlockConstants, BlockInv, [B!Next]_(B!vars)
  PROVE  BlockInv' /\ NoneLeft /\ BlockStep
<1>1. CASE B!BlockTick
  <2>1. BlockInv' /\ NoneLeft /\ Keeps(blocks', blocks) /\ carried' = carried
    BY <1>1, TickKeeps
  <2> QED BY <2>1 DEF BlockStep, Keeps, B!Owned, Soil
<1>2. CASE \E c \in B!Cells : B!StartBreak(c)
  BY <1>2, StartBreakKeeps
<1>3. CASE \E c \in B!Cells : B!StopBreak(c)
  BY <1>3, StopBreakKeeps
<1>4. CASE \E c \in B!Cells : B!AbortBreak(c)
  BY <1>4, OtherKeeps DEF B!AbortBreak
<1>5. CASE \E c \in B!Cells : B!Place(c)
  BY <1>5, PlaceKeeps
<1>6. CASE \E item \in B!Items \cup {"wooden_pickaxe"} : B!Hold(item)
  BY <1>6, OtherKeeps DEF B!Hold
<1>7. CASE UNCHANGED B!vars
  BY <1>7, OtherKeeps DEF B!vars
<1> QED BY <1>1, <1>2, <1>3, <1>4, <1>5, <1>6, <1>7 DEF B!Next

LEMMA BlockAlways == B!Spec => []BlockInv
<1>1. B!Init => BlockInv
  BY BlockAssumption, BlockInit
<1>2. BlockInv /\ [B!Next]_(B!vars) => BlockInv'
  BY BlockAssumption, BlockNext
<1> QED BY <1>1, <1>2, PTL DEF B!Spec

\* Whatever is broken, placed, settled, flooded or grown, in a world of any size that begins
\* with any blocks, no step leaves sand hanging with air under it and no tick scheduled that
\* lets it fall: what hangs afterwards hung before, left so by an earlier session.
THEOREM NothingLeftHangingCorrect == B!Spec => NothingLeftHanging
<1>1. BlockInv /\ [B!Next]_(B!vars) =>
        [blocks' # blocks \/ scheduled' # scheduled => B!Hanging' \subseteq B!Hanging]_(B!vars)
  BY BlockAssumption, BlockNext, HangingAfter
<1> QED BY <1>1, BlockAlways, PTL DEF B!Spec, NothingLeftHanging, B!NothingLeftHanging

\* Sand and soil are neither made nor lost in survival mode, in a world of any size.
THEOREM MaterialKeptCorrect == B!Spec => MaterialKept
<1>1. BlockInv /\ [B!Next]_(B!vars) =>
        [blockMode = "survival" => B!Owned(blocks, carried)' = B!Owned(blocks, carried)]_(B!vars)
  BY BlockAssumption, BlockNext DEF BlockStep
<1> QED BY <1>1, BlockAlways, PTL DEF B!Spec, MaterialKept, B!MaterialKept

(***************************************************************************)
(* Sums over finite sets, as the models of items and containers use them.  *)
(***************************************************************************)

\* Induction over the subsets of a finite set: Good holds of R when it holds of
\* each subset all of whose proper subsets it holds of.
LEMMA SubsetInduction ==
    ASSUME NEW R, IsFiniteSet(R), NEW Good,
           \A T \in SUBSET R : (\A U \in SUBSET T : U # T => U \in Good) => T \in Good
    PROVE  \A T \in SUBSET R : T \in Good
<1> DEFINE Rel == StrictSubsetOrdering(R)
           Bad == {T \in SUBSET R : T \notin Good}
<1>1. IsWellFoundedOn(Rel, FiniteSubsetsOf(R))
  BY FS_StrictSubsetOrderingWellFounded
<1>2. Bad \subseteq FiniteSubsetsOf(R)
  BY FS_Subset DEF FiniteSubsetsOf
<1>3. ASSUME Bad # {} PROVE FALSE
  <2>1. PICK T \in Bad : \A U \in Bad : ~(<<U, T>> \in Rel)
    <3> HIDE DEF Rel, Bad
    <3> QED
      BY <1>1, <1>2, <1>3, WFMin
  <2>2. \A U \in SUBSET T : U # T => U \in Good
    BY <2>1 DEF StrictSubsetOrdering
  <2> QED
    BY <2>1, <2>2
<1> QED
  BY <1>3

\* The recursion that a sum is computed by.
First(s) == CHOOSE x \in s : TRUE
Unrolled(f, R, g) ==
    [s \in SUBSET R |-> IF s = {} THEN 0 ELSE f[First(s)] + g[s \ {First(s)}]]

\* A sum over a finite set, as the models' SumFunction computes it.
Sum(f, R) == (CHOOSE g : g = Unrolled(f, R, g))[R]

LEMMA FirstIn ==
    ASSUME NEW s, s # {}
    PROVE  First(s) \in s /\ s \ {First(s)} # s
BY DEF First

\* Two solutions of the recursion agree.
LEMMA OneSolution ==
    ASSUME NEW f, NEW R, IsFiniteSet(R),
           NEW g, g = Unrolled(f, R, g), NEW h, h = Unrolled(f, R, h)
    PROVE  \A T \in SUBSET R : g[T] = h[T]
<1> DEFINE Good == {T \in SUBSET R : g[T] = h[T]}
<1>1. ASSUME NEW T \in SUBSET R, \A U \in SUBSET T : U # T => U \in Good
      PROVE  T \in Good
  <2>1. CASE T = {}
    <3>1. g[T] = 0 /\ h[T] = 0
      BY <2>1 DEF Unrolled
    <3> QED
      BY <3>1
  <2>2. CASE T # {}
    <3>1. T \ {First(T)} \in Good
      BY <1>1, <2>2, FirstIn
    <3>2. g[T] = f[First(T)] + g[T \ {First(T)}] /\ h[T] = f[First(T)] + h[T \ {First(T)}]
      BY <2>2 DEF Unrolled
    <3> QED
      BY <3>1, <3>2
  <2> QED
    BY <2>1, <2>2
<1> HIDE DEF Good
<1>2. \A T \in SUBSET R : T \in Good
  BY <1>1, SubsetInduction
<1> QED
  BY <1>2 DEF Good

\* A sum is that of what is left when the first element is taken, and it.
Unrolls(f, T) ==
    Sum(f, T)
        = IF T = {} THEN 0 ELSE f[First(T)] + Sum(f, T \ {First(T)})

LEMMA SumUnrolls ==
    ASSUME NEW f, NEW R, IsFiniteSet(R)
    PROVE  Unrolls(f, R)
<1> DEFINE Good == {T \in SUBSET R : Unrolls(f, T)}
           Rhs(T) == IF T = {} THEN 0 ELSE f[First(T)] + Sum(f, T \ {First(T)})
<1>1. ASSUME NEW T \in SUBSET R, \A U \in SUBSET T : U # T => U \in Good
      PROVE  T \in Good
  <2> DEFINE h == [U \in SUBSET T |-> IF U = T THEN Rhs(T) ELSE Sum(f, U)]
             g == CHOOSE k : k = Unrolled(f, T, k)
  <2>1. ASSUME NEW U \in SUBSET T
        PROVE  h[U] = IF U = {} THEN 0 ELSE f[First(U)] + h[U \ {First(U)}]
    <3>1. CASE U = {}
      <4>1. U # T => Sum(f, U) = 0
        BY <1>1, <3>1 DEF Unrolls
      <4> QED
        BY <3>1, <4>1
    <3>2. CASE U # {}
      <4>1. U \ {First(U)} \in SUBSET T /\ U \ {First(U)} # T
        BY <3>2, FirstIn
      <4>2. h[U \ {First(U)}] = Sum(f, U \ {First(U)})
        BY <4>1
      <4>3. U # T => Sum(f, U) = f[First(U)] + Sum(f, U \ {First(U)})
        BY <1>1, <3>2 DEF Unrolls
      <4>4. h[U] = f[First(U)] + Sum(f, U \ {First(U)})
        BY <3>2, <4>3
      <4> QED
        BY <3>2, <4>2, <4>4
    <3> QED
      BY <3>1, <3>2
  <2>2. h = Unrolled(f, T, h)
    <3>1. h = [U \in SUBSET T |-> h[U]]
      OBVIOUS
    <3> HIDE DEF h
    <3> QED
      BY <2>1, <3>1 DEF Unrolled
  <2>3. g = Unrolled(f, T, g)
    <3> HIDE DEF h
    <3> QED
      BY <2>2
  <2>4. IsFiniteSet(T)
    BY FS_Subset
  <2>5. g[T] = h[T]
    <3> HIDE DEF g, h
    <3>1. \A U \in SUBSET T : g[U] = h[U]
      BY <2>2, <2>3, <2>4, OneSolution
    <3> QED
      BY <3>1
  <2>6. Sum(f, T) = g[T]
    BY DEF Sum
  <2>7. Sum(f, T) = Rhs(T)
    BY <2>5, <2>6
  <2> QED
    BY <2>7 DEF Unrolls
<1> HIDE DEF Good
<1>2. \A T \in SUBSET R : T \in Good
  BY <1>1, SubsetInduction
<1> QED
  BY <1>2 DEF Good

LEMMA SumEmpty ==
    ASSUME NEW f
    PROVE  Sum(f, {}) = 0
BY SumUnrolls, FS_EmptySet DEF Unrolls

LEMMA SumFirst ==
    ASSUME NEW f, NEW R, IsFiniteSet(R), R # {}
    PROVE  Sum(f, R) = f[First(R)] + Sum(f, R \ {First(R)})
BY SumUnrolls DEF Unrolls

LEMMA SumType ==
    ASSUME NEW f, NEW R, IsFiniteSet(R), \A x \in R : f[x] \in Int
    PROVE  /\ Sum(f, R) \in Int
           /\ (\A x \in R : f[x] >= 0) => Sum(f, R) >= 0
<1> DEFINE Good == {T \in SUBSET R :
                    /\ Sum(f, T) \in Int
                    /\ (\A x \in R : f[x] >= 0) => Sum(f, T) >= 0}
<1>1. ASSUME NEW T \in SUBSET R, \A U \in SUBSET T : U # T => U \in Good
      PROVE  T \in Good
  <2>1. CASE T = {}
    BY <2>1, SumEmpty
  <2>2. CASE T # {}
    <3>1. T \ {First(T)} \in Good /\ First(T) \in R
      BY <1>1, <2>2, FirstIn
    <3>2. Sum(f, T) = f[First(T)] + Sum(f, T \ {First(T)})
      BY <2>2, SumFirst, FS_Subset
    <3>3. f[First(T)] \in Int /\ Sum(f, T \ {First(T)}) \in Int
      BY <3>1
    <3>4. Sum(f, T) \in Int
      BY <3>2, <3>3
    <3>5. (\A x \in R : f[x] >= 0) => Sum(f, T) >= 0
      BY <3>1, <3>2, <3>3
    <3> QED
      BY <3>4, <3>5
  <2> QED
    BY <2>1, <2>2
<1> HIDE DEF Good
<1>2. \A T \in SUBSET R : T \in Good
  BY <1>1, SubsetInduction
<1> QED
  BY <1>2 DEF Good

\* The sum of functions that agree is the same...
LEMMA SumAgrees ==
    ASSUME NEW f, NEW g, NEW R, IsFiniteSet(R), \A x \in R : f[x] = g[x]
    PROVE  Sum(f, R) = Sum(g, R)
<1> DEFINE Good == {T \in SUBSET R : Sum(f, T) = Sum(g, T)}
<1>1. ASSUME NEW T \in SUBSET R, \A U \in SUBSET T : U # T => U \in Good
      PROVE  T \in Good
  <2>1. CASE T = {}
    BY <2>1, SumEmpty
  <2>2. CASE T # {}
    <3>1. T \ {First(T)} \in Good /\ f[First(T)] = g[First(T)]
      BY <1>1, <2>2, FirstIn
    <3>2. /\ Sum(f, T) = f[First(T)] + Sum(f, T \ {First(T)})
          /\ Sum(g, T) = g[First(T)] + Sum(g, T \ {First(T)})
      BY <2>2, SumFirst, FS_Subset
    <3> QED
      BY <3>1, <3>2
  <2> QED
    BY <2>1, <2>2
<1> HIDE DEF Good
<1>2. \A T \in SUBSET R : T \in Good
  BY <1>1, SubsetInduction
<1> QED
  BY <1>2 DEF Good

\* ... and the elements may be taken in any order.
LEMMA SumTakes ==
    ASSUME NEW f, NEW R, IsFiniteSet(R), \A x \in R : f[x] \in Int, NEW y \in R
    PROVE  Sum(f, R) = f[y] + Sum(f, R \ {y})
<1> DEFINE Good == {T \in SUBSET R : \A x \in T : Sum(f, T) = f[x] + Sum(f, T \ {x})}
<1>1. ASSUME NEW T \in SUBSET R, \A U \in SUBSET T : U # T => U \in Good
      PROVE  T \in Good
  <2> SUFFICES ASSUME NEW x \in T PROVE Sum(f, T) = f[x] + Sum(f, T \ {x})
    OBVIOUS
  <2> DEFINE z == First(T)
  <2>1. IsFiniteSet(T) /\ IsFiniteSet(T \ {x}) /\ IsFiniteSet(T \ {z}) /\ z \in T
    BY FS_Subset, FirstIn
  <2>2. Sum(f, T) = f[z] + Sum(f, T \ {z})
    BY <2>1, SumFirst
  <2> HIDE DEF z
  <2>3. CASE x = z
    BY <2>2, <2>3
  <2>4. CASE x # z
    <3>1. (T \ {z}) \ {x} = (T \ {x}) \ {z}
      OBVIOUS
    <3>2. Sum(f, T \ {z}) = f[x] + Sum(f, (T \ {z}) \ {x})
      BY <1>1, <2>1, <2>4
    <3>3. Sum(f, T \ {x}) = f[z] + Sum(f, (T \ {x}) \ {z})
      BY <1>1, <2>1, <2>4
    <3>4. Sum(f, (T \ {x}) \ {z}) \in Int
      BY SumType, FS_Subset, (T \ {x}) \ {z} \in SUBSET R
    <3>5. f[x] \in Int /\ f[z] \in Int
      BY <2>1
    <3> DEFINE rest == Sum(f, (T \ {x}) \ {z})
    <3>6. Sum(f, T) = f[z] + (f[x] + rest)
      BY <2>2, <3>1, <3>2
    <3>7. Sum(f, T \ {x}) = f[z] + rest /\ rest \in Int
      BY <3>3, <3>4
    <3> HIDE DEF Sum, rest
    <3> QED
      BY <3>5, <3>6, <3>7
  <2> QED
    BY <2>3, <2>4
<1> HIDE DEF Good
<1>2. \A T \in SUBSET R : T \in Good
  BY <1>1, SubsetInduction
<1> QED
  BY <1>2 DEF Good

\* A function changed at one place.
LEMMA SumExcept ==
    ASSUME NEW R, IsFiniteSet(R), NEW f, NEW g, 
           \A x \in R : f[x] \in Int, NEW y \in R, NEW n \in Int,
           g[y] = n, \A x \in R \ {y} : g[x] = f[x]
    PROVE  Sum(g, R) = Sum(f, R) - f[y] + n
<1> DEFINE rest == Sum(f, R \ {y})
<1>1. IsFiniteSet(R \ {y})
  BY FS_RemoveElement
<1>2. Sum(f, R) = f[y] + rest
  BY SumTakes
<1>3. Sum(g, R) = g[y] + Sum(g, R \ {y})
  BY SumTakes
<1>4. Sum(g, R \ {y}) = rest
  BY <1>1, SumAgrees
<1>5. rest \in Int /\ f[y] \in Int
  BY <1>1, SumType
<1> HIDE DEF rest
<1> QED
  BY <1>2, <1>3, <1>4, <1>5

LEMMA SumZero ==
    ASSUME NEW f, NEW R, IsFiniteSet(R), \A x \in R : f[x] = 0
    PROVE  Sum(f, R) = 0
<1> DEFINE Good == {T \in SUBSET R : Sum(f, T) = 0}
<1>1. ASSUME NEW T \in SUBSET R, \A U \in SUBSET T : U # T => U \in Good
      PROVE  T \in Good
  <2>1. CASE T = {}
    BY <2>1, SumEmpty
  <2>2. CASE T # {}
    <3>1. T \ {First(T)} \in Good /\ f[First(T)] = 0
      BY <1>1, <2>2, FirstIn
    <3>2. Sum(f, T) = f[First(T)] + Sum(f, T \ {First(T)})
      BY <2>2, SumFirst, FS_Subset
    <3> QED
      BY <3>1, <3>2
  <2> QED
    BY <2>1, <2>2
<1> HIDE DEF Good
<1>2. \A T \in SUBSET R : T \in Good
  BY <1>1, SubsetInduction
<1> QED
  BY <1>2 DEF Good

\* The models' sums.
LEMMA SumsAre ==
    ASSUME NEW f
    PROVE  /\ H!SumFunction(f) = Sum(f, DOMAIN f)
           /\ C!SumFunction(f) = Sum(f, DOMAIN f)
<1>1. H!SumFunction(f) = Sum(f, DOMAIN f)
  BY Zenon DEF H!SumFunction, H!SumFunctionOnSet, H!FoldFunctionOnSet, H!MapThenFoldSet, Sum, Unrolled, First
<1>2. C!SumFunction(f) = Sum(f, DOMAIN f)
  BY Zenon DEF C!SumFunction, C!SumFunctionOnSet, C!FoldFunctionOnSet, C!MapThenFoldSet, Sum, Unrolled, First
<1> QED BY <1>1, <1>2

(***************************************************************************)
(* Items. No operation makes or loses one, and each sends the slots in     *)
(* which the client would see another stack.                               *)
(***************************************************************************)

\* What a slot may hold, and what may lie about.
Goods == {s \in [item : H!Items, count : Nat \ {0}, wear : Int] : s.count <= Limit[s.item]}
Piles == {H!Empty} \cup Goods
Bars == [H!Slots -> Piles]
Grounds == UNION {[D -> Nat \ {0}] : D \in {E \in SUBSET Goods : IsFiniteSet(E)}}
Offers == [items : Bars, rest : Piles]

LEMMA SlotsAre ==
  ASSUME H!HotbarConstants
  PROVE  /\ Off \in Nat \ {0} /\ Off \in H!Slots /\ Off \notin H!Hotbar
         /\ H!Hotbar = 0..Off - 1 /\ H!Hotbar \subseteq H!Slots
         /\ H!Slots = 0..Off /\ IsFiniteSet(H!Slots)
<1>1. Off \in Nat \ {0}
  BY DEF H!HotbarConstants
<1>2. H!Slots = 0..Off /\ H!Hotbar = 0..Off - 1
  BY DEF H!Slots, H!Hotbar
<1>3. IsFiniteSet(0..Off)
  BY <1>1, FS_Interval
<1> QED BY <1>1, <1>2, <1>3

LEMMA GoodsAre ==
  ASSUME H!HotbarConstants, NEW s \in Goods
  PROVE  /\ s # H!Empty /\ s \in Piles /\ s.item \in H!Items /\ s.wear \in Int
         /\ s.count \in Nat \ {0} /\ Limit[s.item] \in Nat \ {0} /\ s.count <= Limit[s.item]
<1>1. s.item \in H!Items /\ "air" \notin H!Items
  BY DEF Goods, H!HotbarConstants
<1>2. Limit[s.item] \in Nat \ {0}
  BY <1>1 DEF H!HotbarConstants
<1> QED BY <1>1, <1>2 DEF Goods, Piles, H!Empty

LEMMA Filled ==
  ASSUME NEW s \in Piles, s # H!Empty
  PROVE  s \in Goods
  BY DEF Piles

LEMMA PilesAre ==
  ASSUME H!HotbarConstants, NEW s \in Piles
  PROVE  /\ s.count \in Nat /\ (s = H!Empty <=> s.count = 0) /\ s.wear \in Int
         /\ s = H!Empty => s.item \notin H!Items
         /\ \A i : H!Of(s, i) \in Int
         /\ s = H!Empty => \A i : H!Of(s, i) = 0
<1>1. CASE s = H!Empty
  <2>1. s.count = 0 /\ s.item = "air" /\ s.wear = 0
    BY <1>1 DEF H!Empty
  <2> QED BY <1>1, <2>1 DEF H!Of, H!HotbarConstants
<1>2. CASE s \in Goods
  BY <1>2, GoodsAre DEF H!Of
<1> QED BY <1>1, <1>2 DEF Piles

LEMMA StackPile ==
  ASSUME H!HotbarConstants, NEW i \in H!Items, NEW n \in 1..Limit[i]
  PROVE  /\ H!Stack(i, n) \in Goods
         /\ \A j : H!Of(H!Stack(i, n), j) = IF j = i THEN n ELSE 0
<1>1. Limit[i] \in Nat \ {0}
  BY DEF H!HotbarConstants
<1> QED BY <1>1 DEF H!Stack, Goods, H!Of

LEMMA StacksPile == H!Stacks \subseteq Goods
  BY DEF H!Stacks, Goods

LEMMA LessPile ==
  ASSUME H!HotbarConstants, NEW s \in Goods, NEW n \in 0..s.count
  PROVE  /\ H!Less(s, n) \in Piles
         /\ \A i \in H!Items : H!Of(H!Less(s, n), i) = H!Of(s, i) - IF i = s.item THEN n ELSE 0
<1> DEFINE t == [s EXCEPT !.count = @ - n]
<1>0. s.count \in Nat \ {0} /\ s.item \in H!Items /\ s.count <= Limit[s.item]
      /\ Limit[s.item] \in Nat
  BY GoodsAre
<1>1. /\ t \in [item : H!Items, count : Int, wear : Int] /\ t.item = s.item
      /\ t.count = s.count - n
  BY <1>0 DEF Goods
<1>2. H!Less(s, n) = IF t.count = 0 THEN H!Empty ELSE t
  BY DEF H!Less, H!Normal
<1> HIDE DEF t
<1>3. CASE t.count = 0
  <2>1. H!Less(s, n) = H!Empty /\ s.count = n
    BY <1>0, <1>1, <1>2, <1>3
  <2> QED BY <1>0, <2>1, PilesAre DEF Piles, H!Of
<1>4. CASE t.count # 0
  <2>1. H!Less(s, n) = t /\ t \in Goods
    BY <1>0, <1>1, <1>2, <1>4 DEF Goods
  <2> QED BY <1>0, <1>1, <2>1 DEF Piles, H!Of
<1> QED BY <1>3, <1>4

LEMMA WornPile ==
  ASSUME H!HotbarConstants, NEW s \in Piles, NEW n \in Int
  PROVE  /\ H!Worn(s, n) \in Piles
         /\ H!Worn(s, n) # H!Empty => /\ H!Simple(H!Worn(s, n)) = H!Simple(s)
                                      /\ \A i : H!Of(H!Worn(s, n), i) = H!Of(s, i)
         /\ s = H!Empty => H!Worn(s, n) = s
<1>1. CASE s = H!Empty
  BY <1>1 DEF H!Worn
<1>2. CASE s # H!Empty
  <2>1. s \in Goods
    BY <1>2, Filled
  <2> DEFINE t == [s EXCEPT !.wear = @ + n]
  <2>2. t \in Goods /\ H!Simple(t) = H!Simple(s) /\ t.item = s.item /\ t.count = s.count
    BY <2>1 DEF H!Simple, Goods
  <2>3. H!Worn(s, n) \in {s, H!Empty, t}
    BY DEF H!Worn
  <2> HIDE DEF t
  <2> QED BY <1>2, <2>2, <2>3 DEF Piles, H!Of
<1> QED BY <1>1, <1>2

---------------------------------------------------------------------------
(* How many there are of an item. *)

LEMMA ItemsCounted ==
  ASSUME H!HotbarConstants, NEW its \in Bars, NEW i
  PROVE  /\ H!Amount(its, i) = Sum([k \in H!Slots |-> H!Of(its[k], i)], H!Slots)
         /\ H!Amount(its, i) \in Int
<1> DEFINE f == [k \in H!Slots |-> H!Of(its[k], i)]
<1>1. H!Amount(its, i) = Sum(f, H!Slots)
  <2>1. DOMAIN f = H!Slots /\ H!Amount(its, i) = H!SumFunction(f)
    BY DEF H!Amount
  <2> HIDE DEF f
  <2> QED BY <2>1, SumsAre
<1>2. \A k \in H!Slots : f[k] \in Int
  BY PilesAre DEF Bars
<1> HIDE DEF f
<1>3. Sum(f, H!Slots) \in Int
  BY <1>2, SlotsAre, SumType
<1> QED BY <1>1, <1>3 DEF f

\* One slot holds another stack.
LEMMA ItemsPut ==
  ASSUME H!HotbarConstants, NEW its \in Bars, NEW new \in Bars, NEW k \in H!Slots,
         \A j \in H!Slots : j # k => new[j] = its[j], NEW i
  PROVE  H!Amount(new, i) = H!Amount(its, i) - H!Of(its[k], i) + H!Of(new[k], i)
<1> DEFINE f == [j \in H!Slots |-> H!Of(its[j], i)]
           g == [j \in H!Slots |-> H!Of(new[j], i)]
           n == H!Of(new[k], i)
<1>1. H!Amount(its, i) = Sum(f, H!Slots) /\ H!Amount(new, i) = Sum(g, H!Slots)
  BY ItemsCounted
<1>2. \A j \in H!Slots : f[j] \in Int
  BY PilesAre DEF Bars
<1>3. n \in Int /\ g[k] = n /\ f[k] = H!Of(its[k], i) /\ \A j \in H!Slots \ {k} : g[j] = f[j]
  BY PilesAre DEF Bars
<1> HIDE DEF f, g, n
<1>4. Sum(g, H!Slots) = Sum(f, H!Slots) - f[k] + n
  <2>1. IsFiniteSet(H!Slots)
    BY SlotsAre
  <2> QED BY <1>2, <1>3, <2>1, SumExcept
<1>5. n = H!Of(new[k], i)
  BY DEF n
<1> QED BY <1>1, <1>3, <1>4, <1>5

\* Two slots, neither before the other.
LEMMA ItemsPutTwo ==
  ASSUME H!HotbarConstants, NEW its \in Bars, NEW new \in Bars,
         NEW k \in H!Slots, NEW l \in H!Slots, k # l,
         \A j \in H!Slots : j \notin {k, l} => new[j] = its[j], NEW i
  PROVE  H!Amount(new, i) = H!Amount(its, i) - H!Of(its[k], i) + H!Of(new[k], i)
                              - H!Of(its[l], i) + H!Of(new[l], i)
<1> DEFINE mid1 == [its EXCEPT ![k] = new[k]]
<1>1. mid1 \in Bars /\ mid1[k] = new[k] /\ \A j \in H!Slots : j # k => mid1[j] = its[j]
  BY DEF Bars
<1> HIDE DEF mid1
<1>2. H!Amount(mid1, i) = H!Amount(its, i) - H!Of(its[k], i) + H!Of(new[k], i)
  <2>1. H!Amount(mid1, i) = H!Amount(its, i) - H!Of(its[k], i) + H!Of(mid1[k], i)
    BY <1>1, ItemsPut, Zenon
  <2> QED BY <1>1, <2>1
<1>3. \A j \in H!Slots : j # l => new[j] = mid1[j]
  BY <1>1
<1>4. H!Amount(new, i) = H!Amount(mid1, i) - H!Of(mid1[l], i) + H!Of(new[l], i)
  BY <1>1, <1>3, ItemsPut, Zenon
<1>5. mid1[l] = its[l]
  BY <1>1
<1>6. /\ H!Amount(its, i) \in Int /\ H!Amount(mid1, i) \in Int /\ H!Amount(new, i) \in Int
      /\ H!Of(its[k], i) \in Int /\ H!Of(its[l], i) \in Int
      /\ H!Of(new[k], i) \in Int /\ H!Of(new[l], i) \in Int
  BY <1>1, ItemsCounted, PilesAre DEF Bars
<1> QED BY <1>2, <1>4, <1>5, <1>6

LEMMA ItemsNone ==
  ASSUME H!HotbarConstants, NEW its \in Bars, NEW i, \A k \in H!Slots : H!Of(its[k], i) = 0
  PROVE  H!Amount(its, i) = 0
<1> DEFINE f == [k \in H!Slots |-> H!Of(its[k], i)]
<1>1. \A k \in H!Slots : f[k] = 0
  OBVIOUS
<1>2. H!Amount(its, i) = Sum(f, H!Slots)
  BY ItemsCounted
<1> HIDE DEF f
<1> QED BY <1>1, <1>2, SlotsAre, SumZero

LEMMA ItemsSame ==
  ASSUME H!HotbarConstants, NEW its \in Bars, NEW new \in Bars, NEW i,
         \A k \in H!Slots : H!Of(new[k], i) = H!Of(its[k], i)
  PROVE  H!Amount(new, i) = H!Amount(its, i)
<1> DEFINE f == [k \in H!Slots |-> H!Of(its[k], i)]
           g == [k \in H!Slots |-> H!Of(new[k], i)]
<1>1. f = g
  OBVIOUS
<1>2. H!Amount(its, i) = Sum(f, H!Slots) /\ H!Amount(new, i) = Sum(g, H!Slots)
  BY ItemsCounted
<1> QED BY <1>1, <1>2

CountOf(g, s) == IF s \in DOMAIN g THEN g[s] ELSE 0

LEMMA GroundsAre ==
  ASSUME NEW g \in Grounds
  PROVE  /\ IsFiniteSet(DOMAIN g) /\ DOMAIN g \subseteq Goods
         /\ \A s \in DOMAIN g : g[s] \in Nat \ {0}
         /\ \A s : CountOf(g, s) \in Nat
<1>1. PICK D \in {E \in SUBSET Goods : IsFiniteSet(E)} : g \in [D -> Nat \ {0}]
  BY DEF Grounds
<1> QED BY <1>1 DEF CountOf

\* What lies about is the stacks like s and the rest.
LEMMA LyingSplit ==
  ASSUME H!HotbarConstants, NEW g \in Grounds, NEW s \in Goods, NEW i
  PROVE  /\ H!Lying(g, i) \in Int
         /\ Sum([t \in DOMAIN g |-> g[t] * H!Of(t, i)], DOMAIN g \ {s}) \in Int
         /\ H!Lying(g, i) = CountOf(g, s) * H!Of(s, i)
                              + Sum([t \in DOMAIN g |-> g[t] * H!Of(t, i)], DOMAIN g \ {s})
<1> DEFINE D == DOMAIN g
           f == [t \in D |-> g[t] * H!Of(t, i)]
<1>1. IsFiniteSet(D) /\ D \subseteq Goods /\ (\A t \in D : g[t] \in Nat \ {0})
  BY GroundsAre
<1>2. \A t \in D : f[t] \in Int
  <2>1. \A t \in D : g[t] \in Int /\ H!Of(t, i) \in Int
    BY <1>1, GoodsAre, PilesAre
  <2>2. \A a, b \in Int : a * b \in Int
    OBVIOUS
  <2> QED BY <2>1, <2>2
<1>3. H!Lying(g, i) = Sum(f, D)
  <2>1. DOMAIN f = D /\ H!Lying(g, i) = H!SumFunction(f)
    BY DEF H!Lying
  <2> HIDE DEF f
  <2> QED BY <2>1, SumsAre
<1>4. s \in D => f[s] = CountOf(g, s) * H!Of(s, i)
  BY DEF CountOf
<1>5. s \notin D => CountOf(g, s) * H!Of(s, i) = 0
  BY GoodsAre, PilesAre DEF CountOf
<1> HIDE DEF f, D
<1>6. Sum(f, D) \in Int
  BY <1>1, <1>2, SumType
<1>7. Sum(f, D \ {s}) \in Int
  <2>1. IsFiniteSet(D \ {s}) /\ \A t \in D \ {s} : f[t] \in Int
    BY <1>1, <1>2, FS_Subset
  <2> QED BY <2>1, SumType
<1>8. Sum(f, D) = CountOf(g, s) * H!Of(s, i) + Sum(f, D \ {s})
  <2>1. CASE s \in D
    BY <1>1, <1>2, <1>4, <2>1, SumTakes
  <2>2. CASE s \notin D
    <3>1. D \ {s} = D
      BY <2>2
    <3> QED BY <1>5, <1>6, <2>2, <3>1
  <2> QED BY <2>1, <2>2
<1> QED BY <1>3, <1>6, <1>7, <1>8 DEF f, D

\* There are n stacks more like s.
LEMMA LyingChanged ==
  ASSUME H!HotbarConstants, NEW g \in Grounds, NEW h \in Grounds, NEW s \in Goods, NEW n \in Int,
         CountOf(h, s) = CountOf(g, s) + n,
         DOMAIN h \ {s} = DOMAIN g \ {s}, \A t \in DOMAIN g \ {s} : h[t] = g[t], NEW i
  PROVE  H!Lying(h, i) = H!Lying(g, i) + n * H!Of(s, i)
<1> DEFINE rest == DOMAIN g \ {s}
           f == [t \in DOMAIN g |-> g[t] * H!Of(t, i)]
           e == [t \in DOMAIN h |-> h[t] * H!Of(t, i)]
           o == H!Of(s, i)
<1>1. /\ H!Lying(g, i) = CountOf(g, s) * o + Sum(f, rest) /\ Sum(f, rest) \in Int
      /\ H!Lying(h, i) = CountOf(h, s) * o + Sum(e, rest) /\ Sum(e, rest) \in Int
  BY LyingSplit
<1>2. \A t \in rest : e[t] = f[t]
  OBVIOUS
<1>3. IsFiniteSet(rest)
  BY GroundsAre, FS_Subset
<1>4. o \in Int /\ CountOf(g, s) \in Int
  BY GroundsAre, GoodsAre, PilesAre
<1> HIDE DEF rest, f, e, o
<1>5. Sum(e, rest) = Sum(f, rest)
  BY <1>2, <1>3, SumAgrees
<1>6. \A a, b, c \in Int : (a + b) * c = a * c + b * c
  OBVIOUS
<1>7. \A a, b \in Int : a * b \in Int
  OBVIOUS
<1>8. CountOf(h, s) * o = CountOf(g, s) * o + n * o /\ CountOf(g, s) * o \in Int /\ n * o \in Int
  BY <1>4, <1>6, <1>7
<1> QED BY <1>1, <1>5, <1>8 DEF o

\* How many of an item the slots and what is left of a stack are.
Offering(w, i) == H!Amount(w.items, i) + H!Of(w.rest, i)

\* What goes into a slot comes from the stack beside.
LEMMA PutFrom ==
  ASSUME H!HotbarConstants, NEW its \in Bars, NEW new \in Bars, NEW k \in H!Slots,
         \A j \in H!Slots : j # k => new[j] = its[j],
         NEW t \in Piles, NEW u \in Piles, NEW i, NEW d \in Int,
         H!Of(new[k], i) = H!Of(its[k], i) + d, H!Of(u, i) = H!Of(t, i) - d
  PROVE  H!Amount(new, i) + H!Of(u, i) = H!Amount(its, i) + H!Of(t, i)
<1>1. H!Amount(new, i) = H!Amount(its, i) - H!Of(its[k], i) + H!Of(new[k], i)
  BY ItemsPut
<1>2. H!Amount(its, i) \in Int
  BY ItemsCounted
<1>3. H!Of(its[k], i) \in Int /\ H!Of(t, i) \in Int
  <2>1. its[k] \in Piles
    BY DEF Bars
  <2> QED BY <2>1, PilesAre
<1> QED BY <1>1, <1>2, <1>3

LEMMA OfferedIs ==
  ASSUME H!HotbarConstants, NEW w \in Offers, NEW k \in H!Hotbar
  PROVE  /\ H!Offered(w, k) \in Offers /\ H!Offered(w, k).items[Off] = w.items[Off]
         /\ \A i \in H!Items : Offering(H!Offered(w, k), i) = Offering(w, i)
<1> DEFINE n == IF w.rest = H!Empty THEN 0 ELSE H!Moved(w.items[k], w.rest)
           s == w.items[k]
           t == w.rest
           new == [w.items EXCEPT ![k] = H!Grown(s, t, n)]
<1>0. /\ s \in Piles /\ t \in Piles /\ w.items \in Bars /\ k \in H!Slots /\ k # Off
      /\ Off \in H!Slots
  BY SlotsAre DEF Offers, Bars
<1>1. H!Offered(w, k) = [items |-> new, rest |-> H!Less(t, n)]
  BY DEF H!Offered
<1>2. CASE t = H!Empty
  <2>1. n = 0 /\ H!Less(t, n) = t
    BY <1>2, PilesAre DEF H!Less, H!Normal, H!Empty
  <2> HIDE DEF n, s, t
  <2>2. new = w.items
    BY <1>0, <2>1 DEF H!Grown, Bars, s
  <2>3. H!Offered(w, k) = w
    BY <1>1, <2>1, <2>2 DEF Offers, t
  <2> QED BY <2>3
<1>3. CASE t # H!Empty
  <2>1. t \in Goods /\ t.item \in H!Items /\ t.count \in Nat \ {0} /\ t.count <= Limit[t.item]
        /\ Limit[t.item] \in Nat \ {0} /\ t.wear \in Int
    BY <1>0, <1>3, Filled, GoodsAre
  <2>2. s.count \in Nat /\ (s = H!Empty <=> s.count = 0)
    BY <1>0, PilesAre
  <2>3. s # H!Empty => s \in Goods /\ s.count <= Limit[s.item]
    BY <1>0, Filled, GoodsAre
  <2>4. n = H!Moved(s, t)
    BY <1>3
  <2>5. t \in [item : H!Items, count : Nat, wear : Int]
    BY <2>1 DEF Goods
  <2> HIDE DEF n, s, t
  <2>6. /\ n \in 0..t.count
        /\ n # 0 => s.count + n <= Limit[t.item] /\ (s = H!Empty \/ s.item = t.item)
    BY <2>1, <2>2, <2>3, <2>4 DEF H!Moved, H!CanMerge
  <2>7. /\ H!Less(t, n) \in Piles
        /\ \A i \in H!Items : H!Of(H!Less(t, n), i) = H!Of(t, i) - IF i = t.item THEN n ELSE 0
    BY <2>1, <2>6, LessPile
  <2>8. /\ H!Grown(s, t, n) \in Piles
        /\ \A i \in H!Items : H!Of(H!Grown(s, t, n), i) = H!Of(s, i) + IF i = t.item THEN n ELSE 0
    <3>1. CASE n = 0
      <4>1. H!Grown(s, t, n) = s /\ \A i : H!Of(s, i) \in Int
        BY <1>0, <3>1, PilesAre DEF H!Grown
      <4> QED BY <1>0, <3>1, <4>1
    <3>2. CASE n # 0
      <4> DEFINE g == [t EXCEPT !.count = s.count + n]
      <4>1. g \in Goods /\ g.item = t.item /\ g.count = s.count + n
        BY <2>1, <2>2, <2>5, <2>6, <3>2 DEF Goods
      <4>2. H!Grown(s, t, n) = g
        BY <3>2 DEF H!Grown
      <4> HIDE DEF g
      <4>3. ASSUME NEW i \in H!Items PROVE H!Of(g, i) = H!Of(s, i) + IF i = t.item THEN n ELSE 0
        <5>1. CASE s = H!Empty
          <6>1. H!Of(s, i) = 0 /\ s.count = 0
            BY <1>0, <5>1, PilesAre
          <6> QED BY <2>6, <4>1, <6>1 DEF H!Of
        <5>2. CASE s.item = t.item
          BY <2>2, <2>6, <4>1, <5>2 DEF H!Of
        <5> QED BY <2>6, <3>2, <5>1, <5>2
      <4> QED BY <4>1, <4>2, <4>3 DEF Piles
    <3> QED BY <3>1, <3>2
  <2>9. /\ new \in Bars /\ new[Off] = w.items[Off] /\ new[k] = H!Grown(s, t, n)
        /\ \A j \in H!Slots : j # k => new[j] = w.items[j]
    BY <1>0, <2>8 DEF Bars
  <2> HIDE DEF new
  <2>10. ASSUME NEW i \in H!Items
         PROVE  H!Amount(new, i) + H!Of(H!Less(t, n), i) = H!Amount(w.items, i) + H!Of(t, i)
    <3> DEFINE d == IF i = t.item THEN n ELSE 0
               u == H!Less(t, n)
               its == w.items
    <3>1. H!Of(new[k], i) = H!Of(its[k], i) + d
      BY <2>8, <2>9 DEF s
    <3>2. H!Of(u, i) = H!Of(t, i) - d
      BY <2>7
    <3>3. d \in Int
      BY <2>6
    <3>4. its \in Bars /\ u \in Piles /\ t \in Piles /\ k \in H!Slots /\ new \in Bars
          /\ \A j \in H!Slots : j # k => new[j] = its[j]
      BY <1>0, <2>7, <2>9
    <3> HIDE DEF d, u, its
    <3>5. H!Amount(new, i) + H!Of(u, i) = H!Amount(its, i) + H!Of(t, i)
      BY <3>1, <3>2, <3>3, <3>4, PutFrom
    <3> QED BY <3>5 DEF u, its
  <2>11. t = w.rest
    BY DEF t
  <2> QED BY <1>1, <2>7, <2>9, <2>10, <2>11 DEF Offers, Offering
<1> QED BY <1>2, <1>3

\* Filling the hotbar leaves the off hand alone.
LEMMA InsertedIs ==
  ASSUME H!HotbarConstants, NEW its \in Bars, NEW s \in Piles
  PROVE  /\ H!Inserted(its, s) \in Offers /\ H!Inserted(its, s).items[Off] = its[Off]
         /\ \A i \in H!Items : Offering(H!Inserted(its, s), i) = H!Amount(its, i) + H!Of(s, i)
<1> DEFINE Upto(f) == f = [k \in -1..Off - 1 |-> IF k = -1 THEN [items |-> its, rest |-> s]
                                                 ELSE H!Offered(f[k - 1], k)]
           F == [x \in Offers \X H!Hotbar |-> H!Offered(x[1], x[2])]
           base == [items |-> its, rest |-> s]
           upto == CHOOSE f : Upto(f)
<1>0. Off \in Nat \ {0} /\ H!Hotbar = 0..Off - 1 /\ base \in Offers
  BY SlotsAre DEF Offers
<1>1. \E f : Upto(f)
  <2>1. \A w \in Offers, k \in H!Hotbar : F[<<w, k>>] = H!Offered(w, k) /\ F[<<w, k>>] \in Offers
    BY OfferedIs
  <2> HIDE DEF F, base
  <2>2. \A w \in Offers, k \in -1 + 1..Off - 1 : F[<<w, k>>] \in Offers
    <3>1. -1 + 1 = 0
      OBVIOUS
    <3> QED BY <1>0, <2>1, <3>1, Zenon
  <2> DEFINE m == -1
             n == Off - 1
  <2>3. m \in Int /\ n \in Int /\ m <= n /\ base \in Offers
        /\ \A w \in Offers, k \in m + 1..n : F[<<w, k>>] \in Offers
    BY <1>0, <2>2
  <2> HIDE DEF m, n
  <2>4. \E f \in [m..n -> Offers] : Recurs(F, base, m, n, f)
    BY <2>3, Recursion
  <2>a. PICK f \in [-1..Off - 1 -> Offers] :
               \A k \in -1..Off - 1 : f[k] = IF k = -1 THEN base ELSE F[<<f[k - 1], k>>]
    BY <2>4 DEF m, n, Recurs
  <2>b. \A k \in -1..Off - 1 : k # -1 => k \in H!Hotbar /\ k - 1 \in -1..Off - 1
    BY <1>0
  <2>5. \A k \in -1..Off - 1 : f[k] = IF k = -1 THEN base ELSE H!Offered(f[k - 1], k)
    BY <2>1, <2>a, <2>b
  <2>6. f = [k \in -1..Off - 1 |-> IF k = -1 THEN base ELSE H!Offered(f[k - 1], k)]
    BY <2>5
  <2> QED BY <2>6 DEF base
<1>2. H!Inserted(its, s) = upto[Off - 1]
  BY DEF H!Inserted
<1>3. Upto(upto)
  BY <1>1
<1> HIDE DEF upto
<1> DEFINE Keeps1(k) == \A i \in H!Items : Offering(upto[k], i) = Offering(base, i)
           T == {k \in -1..Off - 1 : upto[k] \in Offers /\ upto[k].items[Off] = its[Off] /\ Keeps1(k)}
<1>4. \A k \in -1..Off - 1 : upto[k] = IF k = -1 THEN base ELSE H!Offered(upto[k - 1], k)
  BY <1>3
<1> HIDE DEF Upto
<1>5. -1 \in T
  <2>1. upto[-1] = base
    BY <1>0, <1>4
  <2> QED BY <1>0, <2>1
<1>6. ASSUME NEW k \in -1 + 1..Off - 1, k - 1 \in T PROVE k \in T
  <2>1. k \in H!Hotbar /\ k \in -1..Off - 1 /\ k # -1
    BY <1>0, <1>6
  <2>2. upto[k] = H!Offered(upto[k - 1], k)
    BY <1>4, <2>1
  <2> HIDE DEF base
  <2> QED BY <1>6, <2>1, <2>2, OfferedIs
<1> HIDE DEF T
<1>7. -1..Off - 1 \subseteq T
  <2>1. -1 \in Int /\ Off - 1 \in Int
    BY <1>0
  <2> QED BY <1>5, <1>6, <2>1, Upwards, Zenon
<1>8. Off - 1 \in T
  BY <1>0, <1>7
<1>9. \A i : Offering(base, i) = H!Amount(its, i) + H!Of(s, i)
  BY DEF Offering
<1> QED BY <1>2, <1>8, <1>9 DEF T

---------------------------------------------------------------------------
(* The ground. *)

LEMMA LyingType ==
  ASSUME H!HotbarConstants, NEW g \in Grounds, NEW i
  PROVE  H!Lying(g, i) \in Int
<1>1. CASE Goods = {}
  <2> DEFINE f == [t \in DOMAIN g |-> g[t] * H!Of(t, i)]
  <2>1. H!Lying(g, i) = H!SumFunction(f) /\ DOMAIN f = {}
    BY <1>1, GroundsAre DEF H!Lying
  <2> HIDE DEF f
  <2>2. H!Lying(g, i) = 0
    BY <2>1, SumsAre, SumEmpty
  <2> QED BY <2>2
<1>2. CASE Goods # {}
  <2>1. PICK t \in Goods : TRUE
    BY <1>2
  <2> QED BY <2>1, LyingSplit
<1> QED BY <1>1, <1>2

LEMMA LayPile ==
  ASSUME H!HotbarConstants, NEW g \in Grounds, NEW s \in Piles
  PROVE  /\ H!Lay(g, s) \in Grounds
         /\ \A i : H!Lying(H!Lay(g, s), i) = H!Lying(g, i) + H!Of(s, i)
<1>1. CASE s = H!Empty
  <2>2. \A i : H!Of(s, i) = 0
    BY <1>1, PilesAre
  <2>3. \A i : H!Lying(g, i) \in Int
    BY LyingType
  <2>4. H!Lay(g, s) = g
    BY <1>1 DEF H!Lay
  <2> QED BY <2>2, <2>3, <2>4
<1>2. CASE s # H!Empty
  <2>1. s \in Goods
    BY <1>2, Filled
  <2> DEFINE D == DOMAIN g
             h == [e \in D \cup {s} |-> (IF e \in D THEN g[e] ELSE 0) + (IF e \in {s} THEN 1 ELSE 0)]
  <2>2. H!Lay(g, s) = h
    BY <1>2 DEF H!Lay, H!(+), H!SetToBag
  <2>3. IsFiniteSet(D) /\ D \subseteq Goods /\ \A t \in D : g[t] \in Nat \ {0}
    BY GroundsAre
  <2>4. IsFiniteSet(D \cup {s}) /\ D \cup {s} \subseteq Goods
    BY <2>1, <2>3, FS_AddElement
  <2>5. \A t \in D \cup {s} : h[t] \in Nat \ {0}
    BY <2>3
  <2>6. DOMAIN h = D \cup {s} /\ h \in [D \cup {s} -> Nat \ {0}]
    BY <2>5
  <2>7. CountOf(h, s) = CountOf(g, s) + 1
    <3>1. h[s] = (IF s \in D THEN g[s] ELSE 0) + 1
      OBVIOUS
    <3> HIDE DEF h
    <3> QED BY <2>6, <3>1 DEF CountOf
  <2>8. \A t \in D \ {s} : h[t] = g[t]
    BY <2>3
  <2> HIDE DEF h
  <2>9. h \in Grounds
    BY <2>4, <2>6 DEF Grounds
  <2>10. DOMAIN h \ {s} = DOMAIN g \ {s}
    BY <2>6
  <2>11. ASSUME NEW i PROVE H!Lying(h, i) = H!Lying(g, i) + H!Of(s, i)
    <3>1. H!Lying(h, i) = H!Lying(g, i) + 1 * H!Of(s, i)
      BY <2>1, <2>7, <2>8, <2>9, <2>10, LyingChanged
    <3>2. H!Of(s, i) \in Int
      BY PilesAre
    <3> QED BY <3>1, <3>2
  <2> QED BY <2>2, <2>9, <2>11
<1> QED BY <1>1, <1>2

\* A stack that is picked up or gone is one of the ground's.
LEMMA TakenPile ==
  ASSUME H!HotbarConstants, ground \in Grounds, NEW s, H!BagIn(s, ground)
  PROVE  /\ s \in Goods
         /\ \E g \in Grounds :
              /\ \A i : H!Lying(g, i) = H!Lying(ground, i) - H!Of(s, i)
              /\ H!Expire(s) => ground' = g
              /\ H!Pickup(s) => ground' = H!Lay(g, H!Inserted(items, s).rest)
<1> DEFINE D == DOMAIN ground
           less == [e \in D |-> IF e \in {s} THEN ground[e] - 1 ELSE ground[e]]
           rest == {d \in D : less[d] > 0}
           g == [e \in rest |-> less[e]]
<1>1. IsFiniteSet(D) /\ D \subseteq Goods /\ (\A t \in D : ground[t] \in Nat \ {0})
  BY GroundsAre
<1>2. s \in D /\ s \in Goods
  BY <1>1 DEF H!BagIn, H!BagToSet
<1>3. \A t \in D : less[t] \in Int /\ (t # s => less[t] = ground[t] /\ t \in rest)
  BY <1>1
<1>4. less[s] = ground[s] - 1
  BY <1>2
<1> DEFINE Bag == H!SetToBag({s})
           less2 == [e \in D |-> IF e \in DOMAIN Bag THEN ground[e] - Bag[e] ELSE ground[e]]
           g2 == [e \in {d \in D : less2[d] > 0} |-> less2[e]]
<1>5. g2 = g
  <2>1. DOMAIN Bag = {s} /\ Bag[s] = 1
    BY DEF H!SetToBag
  <2> HIDE DEF Bag
  <2>2. less2 = less
    BY <2>1
  <2> HIDE DEF less2, less
  <2> QED BY <2>2
<1>e. H!Expire(s) => ground' = g2
  BY Zenon DEF H!Expire, H!(-)
<1>p. H!Pickup(s) => ground' = H!Lay(g2, H!Inserted(items, s).rest)
  BY Zenon DEF H!Pickup, H!(-)
<1> HIDE DEF g2
<1> HIDE DEF less
<1>6. IsFiniteSet(rest) /\ rest \subseteq Goods
  BY <1>1, FS_Subset
<1>7. DOMAIN g = rest /\ g \in [rest -> Nat \ {0}]
  BY <1>3
<1>8. g \in Grounds
  <2> HIDE DEF rest, g
  <2> QED BY <1>6, <1>7 DEF Grounds
<1>9. CountOf(g, s) = CountOf(ground, s) + (-1)
  BY <1>1, <1>2, <1>4 DEF CountOf
<1>10. DOMAIN g \ {s} = D \ {s} /\ \A t \in D \ {s} : g[t] = ground[t]
  BY <1>3
<1> HIDE DEF rest, g
<1>11. ASSUME NEW i PROVE H!Lying(g, i) = H!Lying(ground, i) - H!Of(s, i)
  <2>1. H!Lying(g, i) = H!Lying(ground, i) + (-1) * H!Of(s, i)
    BY <1>2, <1>8, <1>9, <1>10, LyingChanged
  <2>2. H!Of(s, i) \in Int /\ H!Lying(ground, i) \in Int
    BY <1>2, GoodsAre, PilesAre, LyingType
  <2> QED BY <2>1, <2>2
<1> QED BY <1>2, <1>5, <1>e, <1>p, <1>8, <1>11

\* A sum without one of its elements; in particular the last of some numbers.
LEMMA SumWithout ==
  ASSUME NEW f, NEW R, IsFiniteSet(R), \A x \in R : f[x] \in Int, NEW y \in R, NEW Q, Q = R \ {y}
  PROVE  Sum(f, R) = f[y] + Sum(f, Q) /\ Sum(f, Q) \in Int /\ f[y] \in Int
<1>1. Sum(f, R) = f[y] + Sum(f, Q)
  BY SumTakes
<1>2. IsFiniteSet(Q) /\ \A x \in Q : f[x] \in Int
  BY FS_Subset
<1>3. Sum(f, Q) \in Int
  BY <1>2, SumType
<1> QED BY <1>1, <1>3

LEMMA SumUpto ==
  ASSUME NEW g, NEW k \in Nat, \A x \in 0..k : g[x] \in Int
  PROVE  Sum(g, 0..k) = g[k] + Sum(g, 0..k - 1) /\ Sum(g, 0..k - 1) \in Int /\ g[k] \in Int
<1> DEFINE T == 0..k
           U == 0..k - 1
           e == g
           y == k
<1>1. IsFiniteSet(T)
  BY FS_Interval
<1>2. y \in T /\ U = T \ {y} /\ \A x \in T : e[x] \in Int
  OBVIOUS
<1> HIDE DEF T, U, e, y
<1>3. Sum(e, T) = e[y] + Sum(e, U) /\ Sum(e, U) \in Int /\ e[y] \in Int
  BY <1>1, <1>2, SumWithout
<1> QED BY <1>3 DEF T, U, e, y

\* What the slots hold is laid.
LEMMA LaidIs ==
  ASSUME H!HotbarConstants, NEW g \in Grounds, NEW its \in Bars
  PROVE  /\ H!LaidTo(g, its, Off) \in Grounds
         /\ \A i : H!Lying(H!LaidTo(g, its, Off), i) = H!Lying(g, i) + H!Amount(its, i)
<1> DEFINE Upto(f) == f = [k \in -1..Off |-> IF k = -1 THEN g ELSE H!Lay(f[k - 1], its[k])]
           F == [x \in Grounds \X H!Slots |-> H!Lay(x[1], its[x[2]])]
           upto == CHOOSE f : Upto(f)
<1>0. Off \in Nat \ {0} /\ H!Slots = 0..Off /\ IsFiniteSet(H!Slots)
  BY SlotsAre
<1>1. \A w \in Grounds, k \in H!Slots : F[<<w, k>>] = H!Lay(w, its[k]) /\ F[<<w, k>>] \in Grounds
  BY LayPile DEF Bars
<1> HIDE DEF F
<1> DEFINE m == -1
           n == Off
<1>2. m \in Int /\ n \in Int /\ m <= n /\ \A w \in Grounds, k \in m + 1..n : F[<<w, k>>] \in Grounds
  BY <1>0, <1>1
<1> HIDE DEF m, n
<1>3. \E f \in [m..n -> Grounds] : Recurs(F, g, m, n, f)
  BY <1>2, Recursion
<1>4. PICK h \in [-1..Off -> Grounds] :
             \A k \in -1..Off : h[k] = IF k = -1 THEN g ELSE F[<<h[k - 1], k>>]
  BY <1>3 DEF m, n, Recurs
<1>5. \A k \in -1..Off : k # -1 => k \in H!Slots /\ k - 1 \in -1..Off
  BY <1>0
<1>6. \A k \in -1..Off : h[k] = IF k = -1 THEN g ELSE H!Lay(h[k - 1], its[k])
  BY <1>1, <1>4, <1>5
<1>7. Upto(h)
  BY <1>6
<1>8. Upto(upto)
  BY <1>7
<1>9. H!LaidTo(g, its, Off) = upto[Off]
  BY DEF H!LaidTo
<1> HIDE DEF upto
<1>10. \A k \in -1..Off : upto[k] = IF k = -1 THEN g ELSE H!Lay(upto[k - 1], its[k])
  BY <1>8
<1> HIDE DEF Upto
<1> DEFINE each(i) == [k \in H!Slots |-> H!Of(its[k], i)]
           Laid(k) == \A i : H!Lying(upto[k], i) = H!Lying(g, i) + Sum(each(i), 0..k)
           T == {k \in -1..Off : upto[k] \in Grounds /\ Laid(k)}
<1>a. \A i : \A k \in H!Slots : each(i)[k] = H!Of(its[k], i) /\ each(i)[k] \in Int
  BY PilesAre DEF Bars
<1>b. \A i : Sum(each(i), H!Slots) = H!Amount(its, i)
  BY ItemsCounted
<1> HIDE DEF each
<1>11. -1 \in T
  <2>1. -1 \in -1..Off /\ 0..-1 = {} /\ upto[-1] = g
    BY <1>0, <1>10
  <2>2. \A i : Sum(each(i), {}) = 0 /\ H!Lying(g, i) \in Int
    BY SumEmpty, LyingType
  <2>3. Laid(-1)
    BY <2>1, <2>2
  <2> QED BY <2>1, <2>3
<1>12. ASSUME NEW k \in -1 + 1..Off, k - 1 \in T PROVE k \in T
  <2>1. k \in H!Slots /\ k \in -1..Off /\ k # -1 /\ k \in Nat
    BY <1>0, <1>12
  <2>2. upto[k] = H!Lay(upto[k - 1], its[k])
    BY <1>10, <2>1
  <2>3. its[k] \in Piles
    BY <2>1 DEF Bars
  <2>4. upto[k - 1] \in Grounds /\ Laid(k - 1)
    BY <1>12
  <2>5. 0..k \subseteq H!Slots
    BY <1>0, <2>1
  <2>6. ASSUME NEW i PROVE H!Lying(upto[k], i) = H!Lying(g, i) + Sum(each(i), 0..k)
    <3> DEFINE e == each(i)
    <3>1. (\A x \in 0..k : e[x] \in Int) /\ e[k] = H!Of(its[k], i)
      BY <1>a, <2>1, <2>5
    <3>2. H!Lying(upto[k - 1], i) = H!Lying(g, i) + Sum(e, 0..k - 1)
      BY <2>4
    <3> HIDE DEF e
    <3>3. Sum(e, 0..k) = e[k] + Sum(e, 0..k - 1) /\ Sum(e, 0..k - 1) \in Int /\ e[k] \in Int
      BY <2>1, <3>1, SumUpto
    <3>4. H!Lying(upto[k], i) = H!Lying(upto[k - 1], i) + H!Of(its[k], i)
      BY <2>2, <2>3, <2>4, LayPile
    <3>5. H!Lying(g, i) \in Int
      BY LyingType
    <3>6. H!Lying(upto[k], i) = H!Lying(g, i) + Sum(e, 0..k)
      BY <3>1, <3>2, <3>3, <3>4, <3>5
    <3> QED BY <3>6 DEF e
  <2>7. upto[k] \in Grounds
    BY <2>2, <2>3, <2>4, LayPile
  <2> QED BY <2>1, <2>6, <2>7
<1>d. \A k \in T : upto[k] \in Grounds /\ \A i : H!Lying(upto[k], i) = H!Lying(g, i) + Sum(each(i), 0..k)
  OBVIOUS
<1> HIDE DEF T
<1>13. -1..Off \subseteq T
  <2>1. -1 \in Int /\ Off \in Int
    BY <1>0
  <2> QED BY <1>11, <1>12, <2>1, Upwards, Zenon
<1>14. Off \in T
  BY <1>0, <1>13
<1>15. \A i : H!Lying(upto[Off], i) = H!Lying(g, i) + H!Amount(its, i)
  BY <1>0, <1>14, <1>b, <1>d, Zenon
<1> QED BY <1>9, <1>14, <1>15, <1>d

\* A gift comes in stacks, and goes where stacks go.
Gifts == [items : Bars, ground : Grounds]

LEMMA TotalType ==
  ASSUME H!HotbarConstants, NEW its \in Bars, NEW g \in Grounds, NEW i
  PROVE  H!Total(its, g, i) \in Int
<1>1. H!Amount(its, i) \in Int /\ H!Lying(g, i) \in Int
  BY ItemsCounted, LyingType
<1> QED BY <1>1 DEF H!Total

\* What the hotbar does not take is laid.
LEMMA InsertedTotal ==
  ASSUME H!HotbarConstants, NEW its \in Bars, NEW g \in Grounds, NEW s \in Piles
  PROVE  /\ H!Inserted(its, s).items \in Bars /\ H!Inserted(its, s).rest \in Piles
         /\ H!Lay(g, H!Inserted(its, s).rest) \in Grounds
         /\ \A i \in H!Items : H!Total(H!Inserted(its, s).items, H!Lay(g, H!Inserted(its, s).rest), i)
                                 = H!Total(its, g, i) + H!Of(s, i)
<1> DEFINE got == H!Inserted(its, s)
<1>1. /\ got \in Offers
      /\ \A i \in H!Items : Offering(got, i) = H!Amount(its, i) + H!Of(s, i)
  BY InsertedIs
<1> HIDE DEF got
<1>2. got.items \in Bars /\ got.rest \in Piles
  BY <1>1 DEF Offers
<1>3. /\ H!Lay(g, got.rest) \in Grounds
      /\ \A i : H!Lying(H!Lay(g, got.rest), i) = H!Lying(g, i) + H!Of(got.rest, i)
  BY <1>2, LayPile
<1>4. ASSUME NEW i \in H!Items
      PROVE  H!Total(got.items, H!Lay(g, got.rest), i) = H!Total(its, g, i) + H!Of(s, i)
  <2>1. H!Amount(got.items, i) + H!Of(got.rest, i) = H!Amount(its, i) + H!Of(s, i)
    BY <1>1 DEF Offering
  <2>2. H!Lying(H!Lay(g, got.rest), i) = H!Lying(g, i) + H!Of(got.rest, i)
    BY <1>3
  <2>3. /\ H!Amount(got.items, i) \in Int /\ H!Of(got.rest, i) \in Int
        /\ H!Amount(its, i) \in Int /\ H!Of(s, i) \in Int /\ H!Lying(g, i) \in Int
    BY <1>2, ItemsCounted, PilesAre, LyingType
  <2> QED BY <2>1, <2>2, <2>3 DEF H!Total
<1> QED BY <1>2, <1>3, <1>4 DEF got

LEMMA Concatenated ==
  ASSUME NEW X, NEW p \in Seq(X), NEW q \in Seq(X)
  PROVE  /\ Len(p \o q) = Len(p) + Len(q)
         /\ \A b \in 1..Len(p) + Len(q) : (p \o q)[b] = IF b <= Len(p) THEN p[b] ELSE q[b - Len(p)]
OBVIOUS

\* A gift is made once, whatever stacks it comes in.
LEMMA GivenIs ==
  ASSUME H!HotbarConstants, items \in Bars, ground \in Grounds,
         NEW i \in H!Items, NEW n \in 1..MaxGiven, H!Give(i, n)
  PROVE  /\ items' \in Bars /\ ground' \in Grounds
         /\ \A j \in H!Items : H!Total(items', ground', j)
                                 = H!Total(items, ground, j) + IF j = i THEN n ELSE 0
<1> DEFINE most == Limit[i]
           full == n \div most
           odds == n % most
           all == [b \in 1..full |-> H!Stack(i, most)]
           odd == IF odds = 0 THEN <<>> ELSE <<H!Stack(i, odds)>>
           batches == all \o odd
           Batch(acc, s) == LET got == H!Inserted(acc.items, s)
                            IN  [items |-> got.items, ground |-> H!Lay(acc.ground, got.rest)]
           base == [items |-> items, ground |-> ground]
           Upto(f) == f = [b \in 0..Len(batches) |->
                             IF b = 0 THEN base ELSE Batch(f[b - 1], batches[b])]
           upto == CHOOSE f : Upto(f)
           l == Len(batches)
           Given(b) == IF b <= full THEN b * most ELSE n
<1>0. items' = upto[Len(batches)].items /\ ground' = upto[Len(batches)].ground
  BY Zenon DEF H!Give
<1>1. /\ n \in Nat \ {0} /\ most \in Nat \ {0} /\ full \in Nat /\ odds \in 0..most - 1
      /\ n = full * most + odds
  <2>1. n \in Nat \ {0} /\ most \in Nat \ {0}
    BY DEF H!HotbarConstants, H!Items
  <2> HIDE DEF most
  <2> QED BY <2>1
<1> HIDE DEF most, full, odds
<1>2. /\ l = IF odds = 0 THEN full ELSE full + 1
      /\ \A b \in 1..l : batches[b] = IF b <= full THEN H!Stack(i, most) ELSE H!Stack(i, odds)
  <2>1. all \in Seq({H!Stack(i, most)}) /\ Len(all) = full /\ \A b \in 1..full : all[b] = H!Stack(i, most)
    BY <1>1
  <2>2. CASE odds = 0
    <3>1. batches = all
      BY <2>1, <2>2
    <3> HIDE DEF all
    <3> QED BY <2>1, <2>2, <3>1
  <2>3. CASE odds # 0
    <3>1. odd = <<H!Stack(i, odds)>>
      BY <2>3
    <3> DEFINE u == H!Stack(i, most)
               v == H!Stack(i, odds)
    <3>2. all \in Seq({u, v}) /\ odd \in Seq({u, v}) /\ Len(odd) = 1 /\ odd[1] = v
      BY <2>1, <3>1
    <3> HIDE DEF all, odd, u, v
    <3>3. Len(batches) = full + 1 /\ \A b \in 1..full + 1 :
             batches[b] = IF b <= full THEN all[b] ELSE odd[b - full]
      BY <2>1, <3>2, Concatenated
    <3>4. \A b \in 1..full + 1 : b <= full \/ b - full = 1
      BY <1>1
    <3>5. \A b \in 1..full + 1 : b <= full => b \in 1..full
      BY <1>1
    <3> QED BY <2>1, <2>3, <3>2, <3>3, <3>4, <3>5 DEF u, v
  <2> QED BY <2>2, <2>3
<1> HIDE DEF batches
<1>3. l \in Nat /\ \A b \in 1..l : /\ batches[b] \in Piles
                                   /\ \A j : H!Of(batches[b], j)
                                               = IF j = i THEN IF b <= full THEN most ELSE odds ELSE 0
  <2>1. most \in 1..Limit[i]
    BY <1>1 DEF most
  <2>2. odds # 0 => odds \in 1..Limit[i]
    BY <1>1 DEF most
  <2>3. ASSUME NEW b \in 1..l, ~(b <= full) PROVE odds # 0
    BY <1>1, <1>2, <2>3
  <2>4. l \in Nat
    BY <1>1, <1>2
  <2> HIDE DEF l
  <2> QED BY <1>2, <2>1, <2>2, <2>3, <2>4, StackPile DEF Piles
<1>4. /\ Given(0) = 0 /\ Given(l) = n
      /\ \A b \in 1..l : Given(b) \in Int /\ Given(b - 1) \in Int
                         /\ Given(b) = Given(b - 1) + IF b <= full THEN most ELSE odds
  <2>1. ASSUME NEW b \in 1..l PROVE b \in Nat \ {0} /\ (b <= full \/ b = full + 1)
    BY <1>1, <1>2
  <2>2. \A b \in Nat \ {0} : b * most = (b - 1) * most + most /\ b * most \in Int /\ (b - 1) * most \in Int
    BY <1>1
  <2>3. 0 * most = 0
    BY <1>1
  <2>4. odds = 0 => full * most = n
    BY <1>1
  <2>5. full * most \in Int
    <3>1. \A a, c \in Int : a * c \in Int
      OBVIOUS
    <3> QED BY <1>1, <3>1
  <2>6. Given(l) = n
    BY <1>1, <1>2, <2>4
  <2>7. Given(0) = 0
    BY <1>1, <2>3
  <2>8. ASSUME NEW b \in 1..l
        PROVE  Given(b) \in Int /\ Given(b - 1) \in Int
               /\ Given(b) = Given(b - 1) + IF b <= full THEN most ELSE odds
    <3>1. CASE b <= full
      <4>1. Given(b) = b * most /\ Given(b - 1) = (b - 1) * most
        BY <1>1, <2>1, <3>1
      <4> QED BY <2>1, <2>2, <3>1, <4>1
    <3>2. CASE ~(b <= full)
      <4>1. b = full + 1 /\ b - 1 = full
        BY <1>1, <2>1, <3>2
      <4>2. Given(b) = n /\ Given(b - 1) = full * most
        BY <1>1, <3>2, <4>1
      <4> QED BY <1>1, <2>5, <3>2, <4>2
    <3> QED BY <3>1, <3>2
  <2> QED BY <2>6, <2>7, <2>8
<1> HIDE DEF Given
<1> DEFINE Grown(w, s) == \A j \in H!Items :
                            H!Total(Batch(w, s).items, Batch(w, s).ground, j)
                              = H!Total(w.items, w.ground, j) + H!Of(s, j)
<1>5. ASSUME NEW w \in Gifts, NEW s \in Piles PROVE Batch(w, s) \in Gifts /\ Grown(w, s)
  <2>1. w.items \in Bars /\ w.ground \in Grounds
    BY DEF Gifts
  <2> DEFINE got == H!Inserted(w.items, s)
             lain == H!Lay(w.ground, got.rest)
  <2>2. /\ got.items \in Bars /\ lain \in Grounds
        /\ \A j \in H!Items : H!Total(got.items, lain, j)
                                 = H!Total(w.items, w.ground, j) + H!Of(s, j)
    BY <2>1, InsertedTotal
  <2>3. Batch(w, s) = [items |-> got.items, ground |-> lain]
    OBVIOUS
  <2> HIDE DEF got, lain, Batch
  <2> QED BY <2>2, <2>3 DEF Gifts
<1> DEFINE F == [x \in Gifts \X (1..l) |-> Batch(x[1], batches[x[2]])]
<1> HIDE DEF l, Batch
<1>6. \A w \in Gifts, b \in 1..l : F[<<w, b>>] = Batch(w, batches[b]) /\ F[<<w, b>>] \in Gifts
  BY <1>3, <1>5
<1> HIDE DEF F
<1> DEFINE m == 0
<1>7. m \in Int /\ l \in Int /\ m <= l /\ base \in Gifts
      /\ \A w \in Gifts, b \in m + 1..l : F[<<w, b>>] \in Gifts
  BY <1>3, <1>6 DEF Gifts
<1>c. base.items = items /\ base.ground = ground
  OBVIOUS
<1> HIDE DEF m, base
<1>8. \E f \in [m..l -> Gifts] : Recurs(F, base, m, l, f)
  BY <1>7, Recursion
<1>9. PICK h \in [0..l -> Gifts] :
             \A b \in 0..l : h[b] = IF b = 0 THEN base ELSE F[<<h[b - 1], b>>]
  BY <1>8 DEF m, Recurs
<1>10. \A b \in 0..l : b # 0 => b \in 1..l /\ b - 1 \in 0..l
  BY <1>3
<1>11. \A b \in 0..l : h[b] = IF b = 0 THEN base ELSE Batch(h[b - 1], batches[b])
  BY <1>6, <1>9, <1>10
<1>12. Upto(h)
  BY <1>11 DEF l
<1>13. Upto(upto)
  BY <1>12
<1> HIDE DEF upto
<1>14. \A b \in 0..l : upto[b] = IF b = 0 THEN base ELSE Batch(upto[b - 1], batches[b])
  BY <1>13 DEF l
<1> HIDE DEF Upto
<1> DEFINE Total(w, j) == H!Total(w.items, w.ground, j)
           Right(b) == \A j \in H!Items :
                         Total(upto[b], j) = H!Total(items, ground, j) + IF j = i THEN Given(b) ELSE 0
           T == {b \in 0..l : upto[b] \in Gifts /\ Right(b)}
<1>15. 0 \in T
  <2>1. upto[0] = base /\ 0 \in 0..l
    BY <1>3, <1>14
  <2>2. \A j : H!Total(items, ground, j) \in Int
    BY TotalType
  <2>3. Right(0)
    BY <1>4, <1>c, <2>1, <2>2
  <2> QED BY <1>7, <2>1, <2>3
<1>16. ASSUME NEW b \in 0 + 1..l, b - 1 \in T PROVE b \in T
  <2>1. b \in 1..l /\ b \in 0..l /\ b # 0
    BY <1>3, <1>16
  <2>2. upto[b] = Batch(upto[b - 1], batches[b])
    BY <1>14, <2>1
  <2>3. upto[b - 1] \in Gifts /\ Right(b - 1)
    BY <1>16
  <2>4. upto[b] \in Gifts
    BY <1>3, <1>5, <2>1, <2>2, <2>3
  <2>5. ASSUME NEW j \in H!Items
        PROVE  Total(upto[b], j) = H!Total(items, ground, j) + IF j = i THEN Given(b) ELSE 0
    <3>1. Grown(upto[b - 1], batches[b])
      BY <1>3, <1>5, <2>1, <2>3
    <3>2. Total(upto[b], j) = Total(upto[b - 1], j) + H!Of(batches[b], j)
      BY <2>2, <3>1
    <3>3. Total(upto[b - 1], j) = H!Total(items, ground, j) + IF j = i THEN Given(b - 1) ELSE 0
      BY <2>3
    <3>4. H!Of(batches[b], j) = IF j = i THEN IF b <= full THEN most ELSE odds ELSE 0
      BY <1>3, <2>1
    <3>5. H!Total(items, ground, j) \in Int
      BY TotalType
    <3> HIDE DEF Total
    <3> QED BY <1>1, <1>4, <2>1, <3>2, <3>3, <3>4, <3>5
  <2> QED BY <2>1, <2>4, <2>5
<1>17. \A b \in T : upto[b] \in Gifts /\ Right(b)
  OBVIOUS
<1> HIDE DEF T
<1>18. 0..l \subseteq T
  <2>1. 0 \in Int /\ l \in Int
    BY <1>3
  <2> QED BY <1>15, <1>16, <2>1, Upwards, Zenon
<1>19. l \in T
  BY <1>3, <1>18
<1>20. upto[l] \in Gifts /\ Right(l)
  BY <1>17, <1>19
<1>21. items' = upto[l].items /\ ground' = upto[l].ground
  BY <1>0 DEF l
<1> QED BY <1>4, <1>20, <1>21 DEF Gifts

\* What makes the items kept and shown an invariant: what the slots and the ground hold, and
\* that the off hand is not the active slot.
BarInv ==
  /\ items \in Bars /\ active \in H!Hotbar /\ ground \in Grounds
  /\ balance \in [H!Items -> Int]
  /\ H!ItemsShown /\ H!ItemsKept

LEMMA SyncedShows ==
  ASSUME H!ItemsShown, NEW ks, H!Synced(ks),
         \A k \in H!Slots : k \notin ks => H!Simple(items'[k]) = H!Simple(items[k])
  PROVE  H!ItemsShown'
  BY DEF H!ItemsShown, H!Synced, H!Simple, H!Slots

\* One slot is changed and sent.
LEMMA PutShows ==
  ASSUME H!HotbarConstants, BarInv, NEW k \in H!Slots, NEW s \in Piles,
         items' = [items EXCEPT ![k] = s], H!Synced({k})
  PROVE  /\ items' \in Bars /\ H!ItemsShown'
         /\ \A i : H!Amount(items', i) = H!Amount(items, i) - H!Of(items[k], i) + H!Of(s, i)
<1>1. items' \in Bars /\ items'[k] = s /\ \A j \in H!Slots : j # k => items'[j] = items[j]
  BY DEF BarInv, Bars
<1>2. \A j \in H!Slots : j \notin {k} => H!Simple(items'[j]) = H!Simple(items[j])
  BY <1>1
<1>3. ASSUME NEW i
      PROVE  H!Amount(items', i) = H!Amount(items, i) - H!Of(items[k], i) + H!Of(s, i)
  <2>1. H!Amount(items', i) = H!Amount(items, i) - H!Of(items[k], i) + H!Of(items'[k], i)
    <3> DEFINE its == items
               new == items'
    <3>1. its \in Bars /\ new \in Bars /\ \A j \in H!Slots : j # k => new[j] = its[j]
      BY <1>1 DEF BarInv
    <3> HIDE DEF its, new
    <3>2. H!Amount(new, i) = H!Amount(its, i) - H!Of(its[k], i) + H!Of(new[k], i)
      BY <3>1, ItemsPut
    <3> QED BY <3>2 DEF its, new
  <2> QED BY <1>1, <2>1
<1> QED BY <1>1, <1>2, <1>3, SyncedShows DEF BarInv

\* Nothing of the slots is changed.
LEMMA SameShows ==
  ASSUME BarInv, UNCHANGED items, (UNCHANGED itemView) \/ \E ks : H!Synced(ks)
  PROVE  items' \in Bars /\ H!ItemsShown'
<1>1. CASE UNCHANGED itemView
  BY <1>1 DEF BarInv, H!ItemsShown, H!Simple, H!Slots
<1>2. CASE \E ks : H!Synced(ks)
  BY <1>2, SyncedShows DEF BarInv
<1> QED BY <1>1, <1>2

\* The slots that hold something else are sent.
LEMMA ChangedShows ==
  ASSUME BarInv, items' \in Bars, H!Synced(H!Changed)
  PROVE  H!ItemsShown'
<1>1. \A k \in H!Slots : k \notin H!Changed => H!Simple(items'[k]) = H!Simple(items[k])
  BY DEF H!Changed
<1> QED BY <1>1, SyncedShows DEF BarInv

\* The balance follows what the slots and the ground hold.
LEMMA KeptBy ==
  ASSUME BarInv, NEW d \in [H!Items -> Int], balance' = [i \in H!Items |-> balance[i] + d[i]],
         \A i \in H!Items : H!Total(items', ground', i) = H!Total(items, ground, i) + d[i]
  PROVE  balance' \in [H!Items -> Int] /\ H!ItemsKept'
<1>1. \A i \in H!Items : balance'[i] = balance[i] + d[i] /\ balance[i] \in Int /\ d[i] \in Int
  BY DEF BarInv
<1>2. \A i \in H!Items : H!Total(items, ground, i) = balance[i]
  BY DEF BarInv, H!ItemsKept
<1>3. \A i \in H!Items : H!Total(items', ground', i) = balance'[i]
  BY <1>1, <1>2
<1>4. H!ItemsKept'
  BY <1>3 DEF H!ItemsKept, H!Items
<1> QED BY <1>1, <1>4

LEMMA KeptSame ==
  ASSUME BarInv, UNCHANGED balance,
         \A i \in H!Items : H!Total(items', ground', i) = H!Total(items, ground, i)
  PROVE  balance' \in [H!Items -> Int] /\ H!ItemsKept'
<1>1. \A i \in H!Items : H!Total(items', ground', i) = balance'[i]
  BY DEF BarInv, H!ItemsKept
<1>2. H!ItemsKept'
  BY <1>1 DEF H!ItemsKept, H!Items
<1> QED BY <1>2 DEF BarInv

\* Nothing is moved at all.
LEMMA KeptStill ==
  ASSUME BarInv, UNCHANGED <<items, ground, balance>>
  PROVE  balance' \in [H!Items -> Int] /\ H!ItemsKept'
BY KeptSame

LEMMA KeptEarn ==
  ASSUME H!HotbarConstants, BarInv, NEW i \in H!Items, NEW n \in Int,
         items' \in Bars, ground' \in Grounds,
         balance' = [balance EXCEPT ![i] = balance[i] + n],
         \A j \in H!Items : H!Total(items', ground', j)
                              = H!Total(items, ground, j) + IF j = i THEN n ELSE 0
  PROVE  balance' \in [H!Items -> Int] /\ H!ItemsKept'
<1> DEFINE d == [j \in H!Items |-> IF j = i THEN n ELSE 0]
<1>1. d \in [H!Items -> Int] /\ \A j \in H!Items : d[j] = IF j = i THEN n ELSE 0
  OBVIOUS
<1>2. balance' = [j \in H!Items |-> balance[j] + d[j]]
  <2>1. \A j \in H!Items : balance[j] + 0 = balance[j]
    BY DEF BarInv
  <2> QED BY <2>1 DEF BarInv
<1> HIDE DEF d
<1> QED BY <1>1, <1>2, KeptBy

\* Slots change and the ground does not.
LEMMA KeptSlots ==
  ASSUME H!HotbarConstants, BarInv, UNCHANGED ground, items' \in Bars, NEW i, NEW d \in Int,
         H!Amount(items', i) = H!Amount(items, i) + d
  PROVE  H!Total(items', ground', i) = H!Total(items, ground, i) + d
<1>1. H!Amount(items, i) \in Int /\ H!Lying(ground, i) \in Int
  BY ItemsCounted, LyingType DEF BarInv
<1> QED BY <1>1 DEF H!Total

LEMMA InSlots ==
  ASSUME H!HotbarConstants, BarInv
  PROVE  /\ active \in H!Slots /\ active # Off /\ items[active] \in Piles
         /\ H!Held \in H!Slots
         /\ \A h : H!InHand(h) \in H!Slots
         /\ \A k \in H!Slots : items[k] \in Piles
  BY SlotsAre DEF BarInv, Bars, H!Held, H!InHand

LEMMA OfItem ==
  ASSUME H!HotbarConstants, NEW s \in Piles, s.item \in H!Items
  PROVE  s # H!Empty
  BY DEF H!HotbarConstants, H!Empty

LEMMA UsesOne ==
  ASSUME H!HotbarConstants, BarInv, NEW k \in H!Slots, items[k].item \in H!Items,
         items' = [items EXCEPT ![k] = H!Less(@, 1)], H!Synced({k}), UNCHANGED ground,
         H!Spend(items[k].item, 1)
  PROVE  /\ items' \in Bars /\ H!ItemsShown'
         /\ balance' \in [H!Items -> Int] /\ H!ItemsKept'
<1> DEFINE s == items[k]
           t == H!Less(s, 1)
<1>1. s \in Goods /\ s.item \in H!Items
  BY InSlots, OfItem, Filled
<1>2. 1 \in 0..s.count
  BY <1>1, GoodsAre
<1>3. items' = [items EXCEPT ![k] = t]
  BY DEF BarInv, Bars
<1>4. balance' = [balance EXCEPT ![s.item] = balance[s.item] + (-1)]
  BY <1>1 DEF H!Spend, BarInv
<1> HIDE DEF s
<1>5. t \in Piles /\ \A i \in H!Items : H!Of(t, i) = H!Of(s, i) - IF i = s.item THEN 1 ELSE 0
  BY <1>1, <1>2, LessPile
<1> HIDE DEF t
<1>6. /\ items' \in Bars /\ H!ItemsShown'
      /\ \A i : H!Amount(items', i) = H!Amount(items, i) - H!Of(s, i) + H!Of(t, i)
  BY <1>3, <1>5, PutShows DEF s
<1>7. ASSUME NEW i \in H!Items
      PROVE  H!Total(items', ground', i) = H!Total(items, ground, i) + IF i = s.item THEN -1 ELSE 0
  <2> DEFINE d == IF i = s.item THEN -1 ELSE 0
  <2>1. H!Of(s, i) \in Int /\ H!Amount(items, i) \in Int
    BY <1>1, GoodsAre, PilesAre, ItemsCounted DEF BarInv
  <2>2. d \in Int /\ H!Amount(items', i) = H!Amount(items, i) + d
    <3>1. H!Of(t, i) = H!Of(s, i) - IF i = s.item THEN 1 ELSE 0
      BY <1>5
    <3>2. H!Amount(items', i) = H!Amount(items, i) - H!Of(s, i) + H!Of(t, i)
      BY <1>6
    <3> QED BY <2>1, <3>1, <3>2
  <2> HIDE DEF d
  <2>3. H!Total(items', ground', i) = H!Total(items, ground, i) + d
    BY <1>6, <2>2, KeptSlots
  <2> QED BY <2>3 DEF d
<1>8. ground' \in Grounds
  BY DEF BarInv
<1>9. balance' \in [H!Items -> Int] /\ H!ItemsKept'
  <2> DEFINE i == s.item
             n == -1
  <2>1. i \in H!Items /\ n \in Int
    BY <1>1
  <2> HIDE DEF i, n
  <2> QED BY <1>4, <1>6, <1>7, <1>8, <2>1, KeptEarn DEF i, n
<1> QED BY <1>6, <1>9

\* As much comes or goes as the balance says.
LEMMA KeptBalance ==
  ASSUME BarInv, balance' \in [H!Items -> Int],
         \A i \in H!Items : H!Total(items', ground', i)
                              = H!Total(items, ground, i) + (balance'[i] - balance[i])
  PROVE  H!ItemsKept'
<1>1. \A i \in H!Items : H!Total(items, ground, i) = balance[i] /\ balance[i] \in Int
                         /\ balance'[i] \in Int
  BY DEF BarInv, H!ItemsKept
<1>2. \A i \in H!Items : H!Total(items', ground', i) = balance'[i]
  BY <1>1
<1> QED BY <1>2 DEF H!ItemsKept, H!Items

\* One slot is changed and sent, and the balance follows.
LEMMA PutKept ==
  ASSUME H!HotbarConstants, BarInv, NEW k \in H!Slots, NEW s \in Piles,
         items' = [items EXCEPT ![k] = s], H!Synced({k}), UNCHANGED <<active, ground>>,
         balance' \in [H!Items -> Int],
         \A i \in H!Items : balance'[i] = balance[i] - H!Of(items[k], i) + H!Of(s, i)
  PROVE  BarInv'
<1>1. /\ items' \in Bars /\ H!ItemsShown'
      /\ \A i : H!Amount(items', i) = H!Amount(items, i) - H!Of(items[k], i) + H!Of(s, i)
  BY PutShows
<1>2. ASSUME NEW i \in H!Items
      PROVE  H!Total(items', ground', i) = H!Total(items, ground, i) + (balance'[i] - balance[i])
  <2> DEFINE d == balance'[i] - balance[i]
  <2>1. H!Amount(items', i) = H!Amount(items, i) - H!Of(items[k], i) + H!Of(s, i)
    BY <1>1
  <2>2. H!Of(items[k], i) \in Int /\ H!Of(s, i) \in Int /\ H!Amount(items, i) \in Int
        /\ balance[i] \in Int
    BY InSlots, PilesAre, ItemsCounted DEF BarInv
  <2>3. d \in Int /\ H!Amount(items', i) = H!Amount(items, i) + d
    BY <2>1, <2>2
  <2> HIDE DEF d
  <2>4. H!Total(items', ground', i) = H!Total(items, ground, i) + d
    BY <1>1, <2>3, KeptSlots
  <2> QED BY <2>4 DEF d
<1>3. H!ItemsKept'
  BY <1>2, KeptBalance
<1> QED BY <1>1, <1>3 DEF BarInv, H!Hotbar, H!Items

---------------------------------------------------------------------------

LEMMA BlockedHitShows ==
  ASSUME H!HotbarConstants, BarInv, NEW n \in 1..2, NEW lethal \in BOOLEAN, H!BlockedHit(n, lethal)
  PROVE  BarInv'
<1> DEFINE k == H!Held
           s == items[k]
           t == H!Worn(s, n)
           broke == s # H!Empty /\ t = H!Empty
<1>1. k \in H!Slots /\ s \in Piles
  BY InSlots
<1>2. items' = [items EXCEPT ![k] = t] /\ H!Synced({k}) /\ UNCHANGED <<active, ground>>
      /\ IF broke THEN H!Spend(s.item, s.count) ELSE UNCHANGED balance
  <2>1. items'[k] = t
    BY <1>1 DEF H!BlockedHit, BarInv, Bars
  <2> QED BY <2>1 DEF H!BlockedHit
<1> HIDE DEF k, s
<1>3. /\ t \in Piles /\ (s = H!Empty => t = s)
      /\ t # H!Empty => \A i : H!Of(t, i) = H!Of(s, i)
  BY <1>1, WornPile
<1> HIDE DEF t
<1>4. CASE broke
  <2>1. s \in Goods /\ s.item \in H!Items /\ s.count \in Nat
    BY <1>1, <1>4, Filled, GoodsAre
  <2>2. balance' = [balance EXCEPT ![s.item] = @ - s.count]
    BY <1>2, <1>4 DEF H!Spend
  <2>3. balance' \in [H!Items -> Int]
    BY <2>1, <2>2 DEF BarInv
  <2>4. ASSUME NEW i \in H!Items PROVE balance'[i] = balance[i] - H!Of(s, i) + H!Of(t, i)
    <3>1. H!Of(t, i) = 0
      BY <1>3, <1>4, PilesAre
    <3>2. balance[i] \in Int
      BY DEF BarInv
    <3> QED BY <2>1, <2>2, <3>1, <3>2 DEF H!Of, BarInv
  <2> QED BY <1>1, <1>2, <1>3, <2>3, <2>4, PutKept DEF s
<1>5. CASE ~broke
  <2>1. \A i : H!Of(t, i) = H!Of(s, i) /\ H!Of(s, i) \in Int
    BY <1>1, <1>3, <1>5, PilesAre
  <2>2. balance' = balance /\ balance \in [H!Items -> Int]
    BY <1>2, <1>5 DEF BarInv
  <2>3. \A i \in H!Items : balance'[i] = balance[i] - H!Of(s, i) + H!Of(t, i)
    BY <2>1, <2>2
  <2> QED BY <1>1, <1>2, <1>3, <2>2, <2>3, PutKept DEF s
<1> QED BY <1>4, <1>5

LEMMA PickupShows ==
  ASSUME H!HotbarConstants, BarInv, NEW s, H!Pickup(s)
  PROVE  BarInv'
<1>0. H!BagIn(s, ground) /\ ground \in Grounds /\ items \in Bars
  BY DEF H!Pickup, BarInv
<1> DEFINE got == H!Inserted(items, s)
<1>1. s \in Goods /\ s \in Piles
  BY <1>0, TakenPile, GoodsAre
<1>2. PICK g \in Grounds : /\ \A i : H!Lying(g, i) = H!Lying(ground, i) - H!Of(s, i)
                           /\ ground' = H!Lay(g, got.rest)
  BY <1>0, TakenPile
<1>3. got.items[Off] = items[Off]
  BY <1>0, <1>1, InsertedIs
<1>4. /\ got.items \in Bars /\ got.rest \in Piles /\ H!Lay(g, got.rest) \in Grounds
      /\ \A i \in H!Items : H!Total(got.items, H!Lay(g, got.rest), i)
                              = H!Total(items, g, i) + H!Of(s, i)
  BY <1>0, <1>1, InsertedTotal
<1>5. items' = got.items /\ H!Synced(H!Changed \cap H!Hotbar) /\ UNCHANGED <<active, balance>>
  BY DEF H!Pickup
<1> HIDE DEF got
<1>6. \A k \in H!Slots : k \notin H!Changed \cap H!Hotbar => items'[k] = items[k]
  <2>1. \A k \in H!Slots : k \in H!Hotbar \/ k = Off
    BY DEF H!Slots, H!Hotbar, H!HotbarConstants
  <2> QED BY <1>3, <1>5, <2>1 DEF H!Changed
<1>7. H!ItemsShown'
  BY <1>5, <1>6, SyncedShows DEF BarInv
<1>8. ASSUME NEW i \in H!Items PROVE H!Total(items', ground', i) = H!Total(items, ground, i)
  <2>1. H!Total(items', ground', i) = H!Total(items, g, i) + H!Of(s, i)
    BY <1>2, <1>4, <1>5
  <2>2. H!Lying(g, i) = H!Lying(ground, i) - H!Of(s, i)
    BY <1>2
  <2>3. H!Of(s, i) \in Int /\ H!Lying(ground, i) \in Int /\ H!Amount(items, i) \in Int
    BY <1>0, <1>1, PilesAre, LyingType, ItemsCounted
  <2> QED BY <2>1, <2>2, <2>3 DEF H!Total
<1>9. balance' \in [H!Items -> Int] /\ H!ItemsKept'
  BY <1>5, <1>8, KeptSame
<1> QED BY <1>2, <1>4, <1>5, <1>7, <1>9 DEF BarInv, H!Hotbar, H!Items

LEMMA ExpireShows ==
  ASSUME H!HotbarConstants, BarInv, NEW s, H!Expire(s)
  PROVE  BarInv'
<1>1. /\ H!BagIn(s, ground) /\ UNCHANGED <<items, active, itemView>>
      /\ balance' = [balance EXCEPT ![s.item] = @ - s.count]
  BY DEF H!Expire, H!Spend
<1>2. s \in Goods /\ s.item \in H!Items /\ s.count \in Nat
  BY <1>1, TakenPile, GoodsAre DEF BarInv
<1>3. PICK g \in Grounds : ground' = g /\ \A i : H!Lying(g, i) = H!Lying(ground, i) - H!Of(s, i)
  BY <1>1, TakenPile DEF BarInv
<1>4. balance' \in [H!Items -> Int]
  BY <1>1, <1>2 DEF BarInv
<1>5. ASSUME NEW i \in H!Items
      PROVE  H!Total(items', ground', i) = H!Total(items, ground, i) + (balance'[i] - balance[i])
  <2>1. H!Lying(ground', i) = H!Lying(ground, i) - H!Of(s, i) /\ items' = items
    BY <1>1, <1>3
  <2>2. H!Of(s, i) \in Int /\ H!Lying(ground, i) \in Int /\ H!Amount(items, i) \in Int
        /\ balance[i] \in Int
    BY <1>2, GoodsAre, PilesAre, LyingType, ItemsCounted DEF BarInv
  <2>3. balance'[i] - balance[i] = 0 - H!Of(s, i)
    BY <1>1, <1>2, <2>2 DEF H!Of, BarInv
  <2> QED BY <2>1, <2>2, <2>3 DEF H!Total
<1>6. H!ItemsKept'
  BY <1>4, <1>5, KeptBalance
<1> QED BY <1>1, <1>3, <1>4, <1>6, SameShows DEF BarInv, H!Hotbar, H!Items

LEMMA KillShows ==
  ASSUME H!HotbarConstants, BarInv, NEW keep \in BOOLEAN, H!KillPlayer(keep)
  PROVE  BarInv'
<1>1. CASE keep
  <2>1. UNCHANGED <<items, active, ground, balance>> /\ H!Synced({})
    BY <1>1 DEF H!KillPlayer
  <2> QED BY <2>1, SameShows, KeptStill DEF BarInv, H!Hotbar, H!Items
<1>2. CASE ~keep
  <2>1. /\ items' = [k \in H!Slots |-> H!Empty] /\ ground' = H!LaidTo(ground, items, Off)
        /\ H!Synced(H!Slots) /\ UNCHANGED <<active, balance>>
    BY <1>2 DEF H!KillPlayer
  <2>2. ground' \in Grounds /\ \A i : H!Lying(ground', i) = H!Lying(ground, i) + H!Amount(items, i)
    BY <2>1, LaidIs DEF BarInv
  <2>3. items' \in Bars
    BY <2>1 DEF Bars, Piles
  <2>4. H!ItemsShown'
    BY <2>1, SyncedShows DEF BarInv
  <2>5. ASSUME NEW i PROVE H!Total(items', ground', i) = H!Total(items, ground, i)
    <3>1. \A k \in H!Slots : H!Of(items'[k], i) = 0
      BY <2>1, PilesAre DEF Piles
    <3> DEFINE new == items'
    <3>2. new \in Bars /\ \A k \in H!Slots : H!Of(new[k], i) = 0
      BY <2>3, <3>1
    <3> HIDE DEF new
    <3>3. H!Amount(new, i) = 0
      BY <3>2, ItemsNone
    <3>4. H!Amount(items, i) \in Int /\ H!Lying(ground, i) \in Int
      BY ItemsCounted, LyingType DEF BarInv
    <3> QED BY <2>2, <3>3, <3>4 DEF H!Total, new
  <2>6. balance' \in [H!Items -> Int] /\ H!ItemsKept'
    BY <2>1, <2>5, KeptSame
  <2> QED BY <2>1, <2>2, <2>3, <2>4, <2>6 DEF BarInv, H!Hotbar, H!Items
<1> QED BY <1>1, <1>2

LEMMA GiveShows ==
  ASSUME H!HotbarConstants, BarInv, NEW i \in H!Items, NEW n \in 1..MaxGiven, H!Give(i, n)
  PROVE  BarInv'
<1>1. /\ items' \in Bars /\ ground' \in Grounds
      /\ \A j \in H!Items : H!Total(items', ground', j)
                              = H!Total(items, ground, j) + IF j = i THEN n ELSE 0
  <2>1. items \in Bars /\ ground \in Grounds
    BY DEF BarInv
  <2> QED BY <2>1, GivenIs, Zenon
<1>2. H!Synced(H!Changed) /\ UNCHANGED active /\ balance' = [balance EXCEPT ![i] = balance[i] + n]
  <2>1. H!Synced(H!Changed) /\ H!Earn(i, n) /\ UNCHANGED active
    BY Zenon DEF H!Give
  <2> QED BY <2>1, Zenon DEF H!Earn
<1>3. balance' \in [H!Items -> Int] /\ H!ItemsKept'
  <2>1. n \in Int
    OBVIOUS
  <2> QED BY <1>1, <1>2, <2>1, KeptEarn
<1> QED BY <1>1, <1>2, <1>3, ChangedShows DEF BarInv, H!Hotbar, H!Items

LEMMA ClearShows ==
  ASSUME H!HotbarConstants, BarInv, NEW is, H!Clear(is)
  PROVE  BarInv'
<1> DEFINE hit == {k \in H!Slots : items[k].item \in is}
<1>1. /\ items' = [k \in H!Slots |-> IF k \in hit THEN H!Empty ELSE items[k]]
      /\ H!Synced(hit) /\ UNCHANGED <<active, ground>>
      /\ balance' = [i \in H!Items |-> balance[i] - IF i \in is THEN H!Amount(items, i) ELSE 0]
  BY DEF H!Clear
<1>0. \A k \in H!Slots : k \in hit <=> items[k].item \in is
  OBVIOUS
<1> HIDE DEF hit
<1>2. items' \in Bars
  BY <1>1, InSlots DEF Bars, Piles
<1>3. \A k \in H!Slots : k \notin hit => items'[k] = items[k]
  BY <1>1
<1>4. H!ItemsShown'
  BY <1>1, <1>3, SyncedShows DEF BarInv
<1>5. \A i \in H!Items : H!Amount(items, i) \in Int /\ balance[i] \in Int
  BY ItemsCounted DEF BarInv
<1>6. balance' \in [H!Items -> Int]
  BY <1>1, <1>5
<1>7. ASSUME NEW i \in H!Items
      PROVE  H!Total(items', ground', i) = H!Total(items, ground, i) + (balance'[i] - balance[i])
  <2> DEFINE new == items'
             its == items
             gone == IF i \in is THEN H!Amount(its, i) ELSE 0
  <2>1. /\ new \in Bars /\ its \in Bars
        /\ \A k \in H!Slots : new[k] = IF k \in hit THEN H!Empty ELSE its[k]
        /\ \A k \in H!Slots : k \in hit <=> its[k].item \in is
    BY <1>0, <1>1, <1>2 DEF BarInv
  <2>2. balance'[i] - balance[i] = 0 - gone /\ gone \in Int
    BY <1>1, <1>5
  <2>3. \A k \in H!Slots : H!Of(its[k], i) \in Int /\ H!Of(H!Empty, i) = 0
    BY <2>1, PilesAre DEF Bars, Piles
  <2> HIDE DEF its, new
  <2>4. CASE i \in is
    <3>1. \A k \in H!Slots : H!Of(new[k], i) = 0
      BY <2>1, <2>3, <2>4 DEF H!Of
    <3>2. H!Amount(new, i) = 0
      BY <2>1, <3>1, ItemsNone
    <3> QED BY <1>1, <1>5, <2>2, <2>4, <3>2, LyingType DEF H!Total, BarInv, new, its
  <2>5. CASE i \notin is
    <3>1. \A k \in H!Slots : H!Of(new[k], i) = H!Of(its[k], i)
      BY <2>1, <2>3, <2>5 DEF H!Of
    <3>2. H!Amount(new, i) = H!Amount(its, i)
      BY <2>1, <3>1, ItemsSame
    <3> QED BY <1>1, <1>5, <2>2, <2>5, <3>2, LyingType DEF H!Total, BarInv, new, its
  <2> QED BY <2>4, <2>5
<1>8. H!ItemsKept'
  BY <1>6, <1>7, KeptBalance
<1> QED BY <1>1, <1>2, <1>4, <1>6, <1>8 DEF BarInv, H!Hotbar, H!Items

\* A step of the player that uses one item, or nothing.
LEMMA QuietShows ==
  ASSUME H!HotbarConstants, BarInv
  PROVE  /\ H!Respawn => BarInv'
         /\ \A m \in BarModes : H!SetMode(m) => BarInv'
         /\ H!Lower => BarInv'
         /\ \A k \in H!Hotbar : H!SetCarried(k) => BarInv'
         /\ \A h \in H!Hands : H!Raise(h) => BarInv'
         /\ UNCHANGED H!vars => BarInv'
<1>1. ASSUME UNCHANGED <<items, ground, itemView, balance>>, active' \in H!Hotbar PROVE BarInv'
  BY <1>1, SameShows, KeptStill DEF BarInv, H!Hotbar, H!Items
<1>2. active \in H!Hotbar
  BY DEF BarInv
<1> QED BY <1>1, <1>2 DEF H!Respawn, H!SetMode, H!Lower, H!SetCarried, H!Raise, H!vars

LEMMA UseShows ==
  ASSUME H!HotbarConstants, BarInv
  PROVE  /\ H!UseOnAnimal => BarInv'
         /\ H!Place => BarInv'
         /\ \A h \in H!Hands : H!Eat(h) => BarInv'
<1>0. Treats \subseteq H!Items /\ Placeable \subseteq H!Items /\ Foods \subseteq H!Items
      /\ active \in H!Slots /\ active \in H!Hotbar /\ ground \in Grounds
  BY InSlots DEF H!HotbarConstants, BarInv
<1> DEFINE Good == /\ items' \in Bars /\ H!ItemsShown'
                   /\ balance' \in [H!Items -> Int] /\ H!ItemsKept'
<1>1. ASSUME H!UseOnAnimal PROVE BarInv'
  <2>1. Good
    BY <1>0, <1>1, UsesOne DEF H!UseOnAnimal
  <2> QED BY <1>0, <1>1, <2>1 DEF H!UseOnAnimal, BarInv, H!Hotbar, H!Items
<1>2. ASSUME H!Place PROVE BarInv'
  <2>1. Good
    <3>1. CASE itemMode = "creative"
      BY <1>2, <3>1, SameShows, KeptStill DEF H!Place
    <3>2. CASE itemMode # "creative"
      BY <1>0, <1>2, <3>2, UsesOne DEF H!Place
    <3> QED BY <3>1, <3>2
  <2> QED BY <1>0, <1>2, <2>1 DEF H!Place, BarInv, H!Hotbar, H!Items
<1>3. ASSUME NEW h \in H!Hands, H!Eat(h) PROVE BarInv'
  <2>1. Good
    BY <1>0, <1>3, InSlots, UsesOne DEF H!Eat
  <2> QED BY <1>0, <1>3, <2>1 DEF H!Eat, BarInv, H!Hotbar, H!Items
<1> QED BY <1>1, <1>2, <1>3

LEMMA PickShows ==
  ASSUME H!HotbarConstants, BarInv, NEW i \in H!Items, H!Pick(i)
  PROVE  BarInv'
<1> DEFINE has == {k \in H!Hotbar : items[k].item = i}
<1>1. ground' = ground
  BY DEF H!Pick
<1>2. CASE has # {}
  <2>1. PICK k \in has : \A j \in has : k <= j
    <3>1. has \in SUBSET Nat
      BY SlotsAre
    <3> HIDE DEF has
    <3> QED BY <1>2, <3>1, LeastOf
  <2>2. active' = (CHOOSE l \in has : \A j \in has : l <= j)
        /\ UNCHANGED <<items, itemView, balance>>
    BY <1>2 DEF H!Pick
  <2>3. active' \in has
    BY <2>1, <2>2
  <2>4. active' \in H!Hotbar
    BY <2>3
  <2> QED BY <1>1, <2>2, <2>4, SameShows, KeptStill DEF BarInv, H!Hotbar, H!Items
<1>3. CASE has = {}
  <2> DEFINE new == H!Stack(i, 1)
             old == items[active]
  <2>1. /\ items' = [items EXCEPT ![active] = new] /\ H!Synced({active}) /\ UNCHANGED active
        /\ balance' = [j \in H!Items |-> balance[j] + (IF j = i THEN 1 ELSE 0)
                                         - (IF j = old.item THEN old.count ELSE 0)]
    BY <1>3 DEF H!Pick
  <2>2. new \in Piles /\ \A j : H!Of(new, j) = IF j = i THEN 1 ELSE 0
    <3>1. 1 \in 1..Limit[i]
      BY DEF H!HotbarConstants
    <3> QED BY <3>1, StackPile DEF Piles
  <2>3. \A j : H!Of(old, j) \in Int /\ H!Of(old, j) = IF j = old.item THEN old.count ELSE 0
    BY InSlots, PilesAre DEF H!Of
  <2>4. \A j \in H!Items : balance[j] \in Int
    BY DEF BarInv
  <2> HIDE DEF new, old
  <2>5. \A j \in H!Items : balance'[j] = balance[j] - H!Of(old, j) + H!Of(new, j)
    BY <2>1, <2>2, <2>3, <2>4
  <2>6. balance' \in [H!Items -> Int]
    BY <2>1, <2>3, <2>4
  <2> QED BY <1>1, <2>1, <2>2, <2>5, <2>6, InSlots, PutKept DEF old
<1> QED BY <1>2, <1>3

LEMMA CreativeSlotShows ==
  ASSUME H!HotbarConstants, BarInv, NEW k \in H!Slots,
         NEW s \in {H!Empty} \cup {t \in H!Stacks : t.wear = 0}, H!CreativeSlot(k, s)
  PROVE  BarInv'
<1> DEFINE old == items[k]
<1>1. s \in Piles
  BY StacksPile DEF Piles
<1>2. /\ items' = [items EXCEPT ![k] = s] /\ H!Synced({k}) /\ UNCHANGED <<active, ground>>
      /\ balance' = [j \in H!Items |-> balance[j] + (IF j = s.item THEN s.count ELSE 0)
                                       - (IF j = old.item THEN old.count ELSE 0)]
  BY DEF H!CreativeSlot
<1>3. \A j : /\ H!Of(old, j) \in Int /\ H!Of(old, j) = IF j = old.item THEN old.count ELSE 0
             /\ H!Of(s, j) \in Int /\ H!Of(s, j) = IF j = s.item THEN s.count ELSE 0
  BY <1>1, InSlots, PilesAre DEF H!Of
<1>4. \A j \in H!Items : balance[j] \in Int
  BY DEF BarInv
<1> HIDE DEF old
<1>5. \A j \in H!Items : balance'[j] = balance[j] - H!Of(old, j) + H!Of(s, j)
  BY <1>2, <1>3, <1>4
<1>6. balance' \in [H!Items -> Int]
  <2>1. \A j \in H!Items : balance'[j] \in Int
    BY <1>3, <1>4, <1>5
  <2> QED BY <1>2, <2>1
<1> QED BY <1>1, <1>2, <1>5, <1>6, PutKept DEF old

LEMMA DropShows ==
  ASSUME H!HotbarConstants, BarInv, NEW all \in BOOLEAN, H!Drop(all)
  PROVE  BarInv'
<1> DEFINE old == items[active]
           n == IF all THEN old.count ELSE 1
           s == [old EXCEPT !.count = n]
           t == H!Less(old, n)
<1>1. /\ old # H!Empty /\ items' = [items EXCEPT ![active] = t]
      /\ ground' = H!Lay(ground, s) /\ H!Synced({active}) /\ UNCHANGED <<active, balance>>
  BY DEF H!Drop
<1>2. old \in Goods /\ active \in H!Slots
  BY <1>1, InSlots, Filled
<1> HIDE DEF old
<1>3. n \in 1..old.count /\ n \in 0..old.count
  BY <1>2, GoodsAre
<1> HIDE DEF n
<1>4. s \in Goods /\ \A i : H!Of(s, i) = IF i = old.item THEN n ELSE 0
  <2>1. old.count \in Nat /\ old.count <= Limit[old.item] /\ Limit[old.item] \in Nat
    BY <1>2, GoodsAre
  <2> QED BY <1>2, <1>3, <2>1 DEF Goods, H!Of
<1> HIDE DEF s
<1>5. t \in Piles /\ \A i \in H!Items : H!Of(t, i) = H!Of(old, i) - IF i = old.item THEN n ELSE 0
  BY <1>2, <1>3, LessPile
<1> HIDE DEF t
<1>6. ground' \in Grounds /\ \A i : H!Lying(ground', i) = H!Lying(ground, i) + H!Of(s, i)
  BY <1>1, <1>4, GoodsAre, LayPile DEF BarInv
<1>7. /\ items' \in Bars /\ H!ItemsShown'
      /\ \A i : H!Amount(items', i) = H!Amount(items, i) - H!Of(old, i) + H!Of(t, i)
  BY <1>1, <1>2, <1>5, PutShows DEF old
<1>8. ASSUME NEW i \in H!Items PROVE H!Total(items', ground', i) = H!Total(items, ground, i)
  <2>1. H!Amount(items', i) = H!Amount(items, i) - H!Of(old, i) + H!Of(t, i)
    BY <1>7
  <2>2. H!Lying(ground', i) = H!Lying(ground, i) + H!Of(s, i)
    BY <1>6
  <2>3. H!Of(t, i) = H!Of(old, i) - H!Of(s, i)
    BY <1>4, <1>5
  <2>4. H!Of(old, i) \in Int /\ H!Of(s, i) \in Int /\ H!Amount(items, i) \in Int
        /\ H!Lying(ground, i) \in Int
    BY <1>2, <1>4, GoodsAre, PilesAre, ItemsCounted, LyingType DEF BarInv
  <2> QED BY <2>1, <2>2, <2>3, <2>4 DEF H!Total
<1>9. balance' \in [H!Items -> Int] /\ H!ItemsKept'
  BY <1>1, <1>8, KeptSame
<1> QED BY <1>1, <1>6, <1>7, <1>9 DEF BarInv, H!Hotbar, H!Items

LEMMA SwapShows ==
  ASSUME H!HotbarConstants, BarInv, H!Swap
  PROVE  BarInv'
<1>1. /\ items' = [items EXCEPT ![active] = items[Off], ![Off] = items[active]]
      /\ H!Synced({active, Off}) /\ UNCHANGED <<active, ground, balance>>
  BY DEF H!Swap
<1> DEFINE its == items
           new == items'
           k == active
<1>0. k \in H!Slots /\ Off \in H!Slots /\ k # Off /\ its \in Bars
  BY InSlots, SlotsAre DEF BarInv
<1>2. /\ new \in Bars /\ new[k] = its[Off] /\ new[Off] = its[k]
      /\ \A j \in H!Slots : j \notin {k, Off} => new[j] = its[j]
  BY <1>0, <1>1 DEF Bars
<1>3. H!ItemsShown'
  BY <1>1, <1>2, SyncedShows DEF BarInv
<1> HIDE DEF its, new, k
<1>4. ASSUME NEW i PROVE H!Amount(new, i) = H!Amount(its, i)
  <2>1. H!Amount(new, i) = H!Amount(its, i) - H!Of(its[k], i) + H!Of(new[k], i)
                             - H!Of(its[Off], i) + H!Of(new[Off], i)
    BY <1>0, <1>2, ItemsPutTwo
  <2>2. H!Amount(its, i) \in Int /\ H!Of(its[k], i) \in Int /\ H!Of(its[Off], i) \in Int
    BY <1>0, ItemsCounted, PilesAre DEF Bars
  <2> QED BY <1>2, <2>1, <2>2
<1>5. \A i : H!Total(items', ground', i) = H!Total(items, ground, i)
  BY <1>1, <1>4 DEF H!Total, its, new
<1>6. balance' \in [H!Items -> Int] /\ H!ItemsKept'
  BY <1>1, <1>5, KeptSame
<1> QED BY <1>1, <1>2, <1>3, <1>6 DEF BarInv, H!Hotbar, H!Items, new

\* The tool wears; it is sent if it breaks, and shows as before if it does not.
LEMMA MineShows ==
  ASSUME H!HotbarConstants, BarInv, NEW drop \in {H!Empty} \cup {H!Stack(i, 1) : i \in Mined},
         H!Mine(drop)
  PROVE  BarInv'
<1> DEFINE tool == items[active]
           left0 == H!Worn(tool, 1)
           worn == [items EXCEPT ![active] = left0]
           broke == tool # H!Empty /\ worn[active] = H!Empty
           got == IF drop = H!Empty THEN [items |-> worn, rest |-> H!Empty]
                  ELSE H!Inserted(worn, drop)
           sent == {k \in H!Hotbar : got.items[k] # worn[k]} \cup IF broke THEN {active} ELSE {}
<1>1. /\ items' = got.items /\ ground' = H!Lay(ground, got.rest) /\ H!Synced(sent)
      /\ UNCHANGED active
      /\ balance' = [i \in H!Items |->
           balance[i] + (IF i = drop.item THEN drop.count ELSE 0)
             - (IF broke /\ i = tool.item THEN tool.count ELSE 0)]
  BY DEF H!Mine
<1>0. items \in Bars /\ ground \in Grounds /\ tool \in Piles /\ active \in H!Slots
  BY InSlots DEF BarInv
<1>2. drop \in Piles
  <2>1. Mined \subseteq H!Items
    BY DEF H!HotbarConstants
  <2>2. \A i \in Mined : 1 \in 1..Limit[i]
    BY <2>1 DEF H!HotbarConstants
  <2> QED BY <2>1, <2>2, StackPile DEF Piles
<1> HIDE DEF tool
<1>3. /\ left0 \in Piles /\ (tool = H!Empty => left0 = tool)
      /\ left0 # H!Empty => /\ H!Simple(left0) = H!Simple(tool)
                            /\ \A i : H!Of(left0, i) = H!Of(tool, i)
  BY <1>0, WornPile
<1> HIDE DEF left0
<1>4. /\ worn \in Bars /\ worn[active] = left0
      /\ \A k \in H!Slots : k # active => worn[k] = items[k]
  BY <1>0, <1>3 DEF Bars
<1> HIDE DEF worn
<1>5. ~broke => H!Simple(worn[active]) = H!Simple(items[active])
  BY <1>3, <1>4 DEF tool
<1>6. /\ got.items \in Bars /\ got.items[Off] = worn[Off] /\ ground' \in Grounds
      /\ \A i \in H!Items : H!Total(items', ground', i) = H!Total(worn, ground, i) + H!Of(drop, i)
  <2>1. CASE drop = H!Empty
    <3>1. got = [items |-> worn, rest |-> H!Empty]
      BY <2>1
    <3>2. got.items = worn /\ got.rest = H!Empty
      BY <3>1
    <3>3. ground' = ground /\ items' = worn
      BY <1>1, <3>2 DEF H!Lay
    <3>4. \A i : H!Of(drop, i) = 0 /\ H!Total(worn, ground, i) \in Int
      BY <1>0, <1>4, <2>1, PilesAre, TotalType DEF Piles
    <3> QED BY <1>0, <1>4, <3>2, <3>3, <3>4
  <2>2. CASE drop # H!Empty
    <3>1. got = H!Inserted(worn, drop)
      BY <2>2
    <3> HIDE DEF got
    <3> QED BY <1>0, <1>1, <1>2, <1>4, <3>1, InsertedIs, InsertedTotal
  <2> QED BY <2>1, <2>2
<1>7. ASSUME NEW k \in H!Slots, k \notin sent PROVE H!Simple(items'[k]) = H!Simple(items[k])
  <2> HIDE DEF got, broke
  <2>1. items'[k] = worn[k]
    <3>1. k \in H!Hotbar \/ k = Off
      BY DEF H!Slots, H!Hotbar, H!HotbarConstants
    <3> QED BY <1>1, <1>6, <1>7, <3>1
  <2>2. k = active => ~broke
    BY <1>7
  <2> QED BY <1>4, <1>5, <2>1, <2>2
<1> HIDE DEF sent, got
<1>8. H!ItemsShown'
  BY <1>1, <1>7, SyncedShows DEF BarInv
<1> DEFINE lost(i) == IF broke /\ i = tool.item THEN tool.count ELSE 0
           more(i) == IF i = drop.item THEN drop.count ELSE 0
<1>9. \A i : H!Of(tool, i) \in Int /\ H!Of(left0, i) = H!Of(tool, i) - lost(i) /\ lost(i) \in Int
  <2>1. CASE broke
    <3>1. \A i : H!Of(left0, i) = 0
      BY <1>3, <1>4, <2>1, PilesAre
    <3>2. \A i : H!Of(tool, i) \in Int /\ lost(i) = H!Of(tool, i)
      BY <1>0, <2>1, PilesAre DEF H!Of
    <3> QED BY <3>1, <3>2
  <2>2. CASE ~broke
    <3>1. \A i : H!Of(left0, i) = H!Of(tool, i) /\ H!Of(tool, i) \in Int
      BY <1>0, <1>3, <1>4, <2>2, PilesAre
    <3> QED BY <2>2, <3>1
  <2> QED BY <2>1, <2>2
<1>10. \A i : more(i) = H!Of(drop, i) /\ more(i) \in Int
  BY <1>2, PilesAre DEF H!Of
<1>11. \A i \in H!Items : balance[i] \in Int /\ balance'[i] = balance[i] + more(i) - lost(i)
  BY <1>1 DEF BarInv
<1> HIDE DEF lost, more, broke
<1>12. balance' \in [H!Items -> Int]
  <2>1. DOMAIN balance' = H!Items /\ balance' = [i \in H!Items |-> balance'[i]]
    BY <1>1
  <2>2. \A i \in H!Items : balance'[i] \in Int
    BY <1>9, <1>10, <1>11
  <2> QED BY <2>1, <2>2
<1>13. ASSUME NEW i \in H!Items
       PROVE  H!Total(items', ground', i) = H!Total(items, ground, i) + (balance'[i] - balance[i])
  <2> DEFINE its == items
             k == active
  <2>0. its \in Bars /\ k \in H!Slots /\ worn[k] = left0 /\ its[k] = tool
        /\ \A j \in H!Slots : j # k => worn[j] = its[j]
    BY <1>0, <1>4 DEF tool
  <2> HIDE DEF its, k
  <2>1. H!Amount(worn, i) = H!Amount(its, i) - H!Of(its[k], i) + H!Of(worn[k], i)
    BY <1>4, <2>0, ItemsPut
  <2>2. H!Amount(its, i) \in Int /\ H!Lying(ground, i) \in Int
    BY <1>0, <2>0, ItemsCounted, LyingType
  <2>3. H!Amount(worn, i) = H!Amount(its, i) - lost(i)
    BY <1>9, <2>0, <2>1, <2>2
  <2>4. H!Total(items', ground', i) = H!Total(worn, ground, i) + more(i)
    BY <1>6, <1>10
  <2>5. lost(i) \in Int /\ more(i) \in Int /\ balance'[i] - balance[i] = more(i) - lost(i)
    BY <1>9, <1>10, <1>11
  <2> QED BY <2>2, <2>3, <2>4, <2>5 DEF H!Total, its
<1>14. H!ItemsKept'
  BY <1>12, <1>13, KeptBalance
<1> QED BY <1>1, <1>6, <1>8, <1>12, <1>14 DEF BarInv, H!Hotbar, H!Items

\* The arrow is not in the slot of the bow, and a bow that breaks was one.
LEMMA ShootShows ==
  ASSUME H!HotbarConstants, BarInv, NEW h \in H!Hands, NEW recovered \in BOOLEAN,
         H!Shoot(h, recovered)
  PROVE  BarInv'
<1> DEFINE has == {k \in H!Hotbar : items[k].item = "arrow"}
           arrow == CHOOSE k \in has : \A j \in has : k <= j
           at0 == H!InHand(h)
           shot == H!Less(items[arrow], 1)
           less == [items EXCEPT ![arrow] = shot]
           bow == H!Worn(less[at0], 1)
           uses == itemMode # "creative"
           found(i) == IF i = "arrow" /\ recovered THEN 1 ELSE 0
           spent(i) == (IF i = "arrow" /\ uses THEN 1 ELSE 0)
                         + (IF i = "bow" /\ uses /\ items'[at0] = H!Empty THEN 1 ELSE 0)
<1>1. /\ items[at0].item = "bow" /\ has # {} /\ UNCHANGED active
      /\ items' = IF uses THEN [less EXCEPT ![at0] = bow] ELSE items
      /\ ground' = IF recovered THEN H!Lay(ground, H!Stack("arrow", 1)) ELSE ground
      /\ H!Synced(IF uses THEN {arrow, at0} ELSE {})
      /\ balance' = [i \in H!Items |->
           balance[i] + (IF i = "arrow" /\ recovered THEN 1 ELSE 0)
             - (IF i = "arrow" /\ uses THEN 1 ELSE 0)
             - (IF i = "bow" /\ uses /\ items'[at0] = H!Empty THEN 1 ELSE 0)]
  BY DEF H!Shoot
<1>2. arrow \in has
  <2>1. has \in SUBSET Nat
    BY SlotsAre
  <2> HIDE DEF has
  <2>2. \E k \in has : \A j \in has : k <= j
    BY <1>1, <2>1, LeastOf
  <2> QED BY <2>2
<1>3. /\ arrow \in H!Slots /\ items[arrow].item = "arrow" /\ items[arrow] \in Piles
      /\ at0 \in H!Slots /\ items[at0] \in Piles /\ items \in Bars /\ ground \in Grounds
  BY <1>2, SlotsAre, InSlots DEF BarInv
<1>4. \A i \in H!Items : /\ balance[i] \in Int /\ found(i) \in Int /\ spent(i) \in Int
                         /\ balance'[i] - balance[i] = found(i) - spent(i)
                         /\ balance'[i] \in Int
  <2> DEFINE broke == uses /\ items'[at0] = H!Empty
  <2>1. \A i \in H!Items : balance[i] \in Int
    BY DEF BarInv
  <2>2. \A i \in H!Items : balance'[i] = balance[i] + (IF i = "arrow" /\ recovered THEN 1 ELSE 0)
                           - (IF i = "arrow" /\ uses THEN 1 ELSE 0)
                           - (IF i = "bow" /\ broke THEN 1 ELSE 0)
    BY <1>1
  <2>3. \A i : spent(i) = (IF i = "arrow" /\ uses THEN 1 ELSE 0) + (IF i = "bow" /\ broke THEN 1 ELSE 0)
    OBVIOUS
  <2> HIDE DEF broke, spent, uses
  <2> QED BY <2>1, <2>2, <2>3
<1>5. balance' \in [H!Items -> Int]
  BY <1>1, <1>4
<1> HIDE DEF arrow, at0, has
<1>6. items[arrow] # H!Empty /\ items[at0] # H!Empty /\ arrow # at0
  <2>1. H!Empty.item = "air"
    BY DEF H!Empty
  <2> QED BY <1>1, <1>3, <2>1
<1>7. /\ items[arrow] \in Goods /\ items[at0] \in Goods
      /\ "arrow" \in H!Items /\ "bow" \in H!Items /\ items[at0].count = 1
  <2>1. items[arrow] \in Goods /\ items[at0] \in Goods
    BY <1>3, <1>6, Filled
  <2>2. "arrow" \in H!Items /\ "bow" \in H!Items /\ items[at0].count \in Nat \ {0}
        /\ items[at0].count <= Limit["bow"]
    BY <1>1, <1>3, <2>1, GoodsAre
  <2>3. Limit["bow"] = 1
    BY <2>2 DEF H!HotbarConstants
  <2> QED BY <2>1, <2>2, <2>3
<1>8. /\ shot \in Piles
      /\ \A i \in H!Items : H!Of(shot, i) = H!Of(items[arrow], i) - IF i = "arrow" THEN 1 ELSE 0
  <2>1. 1 \in 0..items[arrow].count
    BY <1>7, GoodsAre
  <2> QED BY <1>3, <1>7, <2>1, LessPile
<1> HIDE DEF shot
<1>9. less \in Bars /\ less[at0] = items[at0]
  BY <1>3, <1>6, <1>8 DEF Bars
<1>a. bow \in Piles /\ (bow # H!Empty => \A i : H!Of(bow, i) = H!Of(items[at0], i))
  BY <1>3, <1>9, WornPile
<1> HIDE DEF bow
<1>10. uses => /\ items' \in Bars /\ items'[arrow] = shot /\ items'[at0] = bow
               /\ \A k \in H!Slots : k \notin {arrow, at0} => items'[k] = items[k]
  BY <1>1, <1>3, <1>6, <1>8, <1>9, <1>a DEF Bars
<1>11. items' \in Bars /\ H!ItemsShown'
  <2>1. CASE uses
    BY <1>1, <1>10, <2>1, SyncedShows DEF BarInv
  <2>2. CASE ~uses
    BY <1>1, <2>2, SameShows
  <2> QED BY <2>1, <2>2
<1>12. ASSUME NEW i \in H!Items PROVE H!Amount(items', i) = H!Amount(items, i) - spent(i)
  <2>0. H!Amount(items, i) \in Int
    BY <1>3, ItemsCounted
  <2>1. CASE ~uses
    <3>1. spent(i) = 0 /\ items' = items
      BY <1>1, <2>1
    <3> QED BY <2>0, <3>1
  <2>2. CASE uses
    <3> DEFINE its == items
               new == items'
    <3>1. /\ its \in Bars /\ new \in Bars /\ new[arrow] = shot /\ new[at0] = bow
          /\ \A j \in H!Slots : j \notin {arrow, at0} => new[j] = its[j]
      BY <1>3, <1>10, <2>2
    <3>2. spent(i) = (IF i = "arrow" THEN 1 ELSE 0) + (IF i = "bow" /\ new[at0] = H!Empty THEN 1 ELSE 0)
      BY <2>2
    <3>3. H!Of(shot, i) = H!Of(its[arrow], i) - IF i = "arrow" THEN 1 ELSE 0
      BY <1>8
    <3>4. H!Of(bow, i) = H!Of(its[at0], i) - (IF i = "bow" /\ bow = H!Empty THEN 1 ELSE 0)
      <4>1. H!Of(its[at0], i) \in Int /\ H!Of(its[at0], i) = IF i = "bow" THEN 1 ELSE 0
        BY <1>1, <1>3, <1>7, PilesAre DEF H!Of
      <4>2. CASE bow = H!Empty
        <5>1. H!Of(bow, i) = 0
          BY <1>a, <4>2, PilesAre
        <5> QED BY <4>1, <4>2, <5>1
      <4>3. CASE bow # H!Empty
        BY <1>a, <4>1, <4>3
      <4> QED BY <4>2, <4>3
    <3>5. H!Of(its[arrow], i) \in Int /\ H!Of(its[at0], i) \in Int
      BY <1>3, PilesAre
    <3>6. H!Amount(its, i) \in Int
      BY <2>0
    <3> HIDE DEF its, new, spent, uses
    <3>7. H!Amount(new, i) = H!Amount(its, i) - H!Of(its[arrow], i) + H!Of(new[arrow], i)
                               - H!Of(its[at0], i) + H!Of(new[at0], i)
      BY <1>3, <1>6, <3>1, ItemsPutTwo
    <3>8. H!Amount(new, i) = H!Amount(its, i) - spent(i)
      BY <3>1, <3>2, <3>3, <3>4, <3>5, <3>6, <3>7
    <3> QED BY <3>8 DEF its, new
  <2> QED BY <2>1, <2>2
<1>13. ground' \in Grounds /\ \A i : H!Lying(ground', i) = H!Lying(ground, i) + found(i)
  <2>1. CASE recovered
    <3>1. 1 \in 1..Limit["arrow"]
      BY <1>7 DEF H!HotbarConstants
    <3>2. /\ H!Stack("arrow", 1) \in Piles
          /\ \A i : H!Of(H!Stack("arrow", 1), i) = IF i = "arrow" THEN 1 ELSE 0
      BY <1>7, <3>1, StackPile DEF Piles
    <3> DEFINE s == H!Stack("arrow", 1)
    <3>3. ground' = H!Lay(ground, s)
      BY <1>1, <2>1
    <3>4. s \in Piles /\ \A i : H!Of(s, i) = found(i)
      BY <2>1, <3>2
    <3> HIDE DEF s, found
    <3> QED BY <1>3, <3>3, <3>4, LayPile
  <2>2. CASE ~recovered
    <3>1. ground' = ground /\ \A i : found(i) = 0
      BY <1>1, <2>2
    <3>2. \A i : H!Lying(ground, i) \in Int
      BY <1>3, LyingType
    <3> QED BY <1>3, <3>1, <3>2
  <2> QED BY <2>1, <2>2
<1> HIDE DEF found, spent
<1>14. ASSUME NEW i \in H!Items
       PROVE  H!Total(items', ground', i) = H!Total(items, ground, i) + (balance'[i] - balance[i])
  <2>1. H!Amount(items', i) = H!Amount(items, i) - spent(i)
    BY <1>12
  <2>2. H!Lying(ground', i) = H!Lying(ground, i) + found(i)
    BY <1>13
  <2>3. H!Amount(items, i) \in Int /\ H!Lying(ground, i) \in Int
    BY <1>3, ItemsCounted, LyingType
  <2>4. balance'[i] - balance[i] = found(i) - spent(i) /\ found(i) \in Int /\ spent(i) \in Int
    BY <1>4
  <2> QED BY <2>1, <2>2, <2>3, <2>4 DEF H!Total
<1>15. H!ItemsKept'
  BY <1>5, <1>14, KeptBalance
<1> QED BY <1>1, <1>5, <1>11, <1>13, <1>15 DEF BarInv, H!Hotbar, H!Items

---------------------------------------------------------------------------

LEMMA BarInit ==
  ASSUME H!HotbarConstants, H!Init
  PROVE  BarInv
<1>1. /\ items = [k \in H!Slots |-> IF k \in DOMAIN Kit THEN Kit[k] ELSE H!Empty]
      /\ active = 0 /\ ground = H!EmptyBag
      /\ itemView = [k \in H!Slots |-> H!Simple(items[k])]
      /\ balance = [i \in H!Items |-> H!Amount(items, i)]
  BY DEF H!Init
<1>2. items \in Bars
  BY <1>1, StacksPile DEF Bars, Piles, H!HotbarConstants
<1>3. active \in H!Hotbar
  BY <1>1, SlotsAre
<1>4. DOMAIN ground = {}
  BY <1>1 DEF H!EmptyBag, H!SetToBag
<1>5. ground \in Grounds
  <2>1. ground \in [{} -> Nat \ {0}]
    BY <1>1 DEF H!EmptyBag, H!SetToBag
  <2> QED BY <2>1, FS_EmptySet DEF Grounds
<1>6. \A i : H!Lying(ground, i) = 0
  <2> TAKE i
  <2> DEFINE f == [s \in DOMAIN ground |-> ground[s] * H!Of(s, i)]
  <2>1. H!Lying(ground, i) = H!SumFunction(f) /\ DOMAIN f = {}
    BY <1>4 DEF H!Lying
  <2> HIDE DEF f
  <2> QED BY <2>1, SumsAre, SumEmpty
<1>7. \A i : H!Amount(items, i) \in Int
  BY <1>2, ItemsCounted
<1>8. balance \in [H!Items -> Int]
  BY <1>1, <1>7
<1>9. H!ItemsKept
  BY <1>1, <1>6, <1>7 DEF H!ItemsKept, H!Total
<1> QED BY <1>1, <1>2, <1>3, <1>5, <1>8, <1>9 DEF BarInv, H!ItemsShown

LEMMA BarNext ==
  ASSUME H!HotbarConstants, BarInv, [H!Next]_(H!vars)
  PROVE  BarInv'
<1>1. CASE \E n \in 1..2, lethal \in BOOLEAN : H!BlockedHit(n, lethal)
  BY <1>1, BlockedHitShows
<1>2. CASE \E s \in H!BagToSet(ground) : H!Pickup(s)
  BY <1>2, PickupShows
<1>3. CASE \E s \in H!BagToSet(ground) : H!Expire(s)
  BY <1>3, ExpireShows
<1>4. CASE \E keep \in BOOLEAN : H!KillPlayer(keep)
  BY <1>4, KillShows
<1>5. CASE \E i \in H!Items, n \in 1..MaxGiven : H!Give(i, n)
  BY <1>5, GiveShows
<1>6. CASE \E is \in {{i} : i \in H!Items} \cup {H!Items} : H!Clear(is)
  BY <1>6, ClearShows
<1>7. CASE \E i \in H!Items : H!Pick(i)
  BY <1>7, PickShows
<1>8. CASE \E k \in H!Slots, s \in {H!Empty} \cup {t \in H!Stacks : t.wear = 0} :
             H!CreativeSlot(k, s)
  BY <1>8, CreativeSlotShows
<1>9. CASE \E all \in BOOLEAN : H!Drop(all)
  BY <1>9, DropShows
<1>10. CASE H!Swap
  BY <1>10, SwapShows
<1>11. CASE \E d \in {H!Empty} \cup {H!Stack(i, 1) : i \in Mined} : H!Mine(d)
  BY <1>11, MineShows
<1>12. CASE \E h \in H!Hands, recovered \in BOOLEAN : H!Shoot(h, recovered)
  BY <1>12, ShootShows
<1>13. CASE \/ H!Respawn \/ \E m \in BarModes : H!SetMode(m)
            \/ H!Lower \/ \E k \in H!Hotbar : H!SetCarried(k)
            \/ \E h \in H!Hands : H!Raise(h)
            \/ UNCHANGED H!vars
  BY <1>13, QuietShows
<1>14. CASE H!UseOnAnimal \/ H!Place \/ \E h \in H!Hands : H!Eat(h)
  BY <1>14, UseShows
<1> QED BY <1>1, <1>2, <1>3, <1>4, <1>5, <1>6, <1>7, <1>8, <1>9, <1>10, <1>11, <1>12, <1>13,
           <1>14 DEF H!Next

LEMMA ItemsAlways == H!Spec => [](H!ItemsShown /\ H!ItemsKept)
<1>1. H!Init => BarInv
  BY HotbarAssumption, BarInit
<1>2. BarInv /\ [H!Next]_(H!vars) => BarInv'
  BY HotbarAssumption, BarNext
<1>3. BarInv => H!ItemsShown /\ H!ItemsKept
  BY DEF BarInv
<1> QED BY <1>1, <1>2, <1>3, PTL DEF H!Spec

(***************************************************************************)
(* Containers. The state_id of a container never goes back, and moves      *)
(* whenever a slot does; and no stack of it all is lost.                   *)
(***************************************************************************)

LEMMA CountsAgree ==
  /\ \A R : C!IsFiniteSet(R) <=> IsFiniteSet(R)
  /\ \A R : C!Cardinality(R) = Cardinality(R)
<1>1. \A R : C!IsFiniteSet(R) <=> IsFiniteSet(R)
  BY Zenon DEF C!IsFiniteSet, IsFiniteSet
<1>2. \A R : C!Cardinality(R) = Cardinality(R)
  BY Zenon DEF C!Cardinality, Cardinality
<1> QED BY <1>1, <1>2

LEMMA SlotsCounted ==
  ASSUME C!ContentConstants, NEW c \in C!Boxes
  PROVE  /\ IsFiniteSet(C!Slots(c)) /\ C!Cardinality(C!Slots(c)) \in Nat
         /\ C!Slots(c) = 1..C!Cardinality(C!Slots(c))
<1>1. C!Slots(c) = 1..Len(Accepted[c]) /\ Len(Accepted[c]) \in Nat
  BY DEF C!ContentConstants, C!Slots
<1>2. IsFiniteSet(C!Slots(c)) /\ Cardinality(1..Len(Accepted[c])) = Len(Accepted[c])
  BY <1>1, FS_Interval
<1> QED BY <1>1, <1>2, CountsAgree

\* A stack of an item.
LEMMA StackWorth ==
  ASSUME C!ContentConstants, NEW i \in C!Items, NEW n \in 0..StackLimit[i]
  PROVE  /\ C!Stack(i, n) \in C!Stacks /\ C!Valid(C!Stack(i, n))
         /\ C!WorthOf(C!Stack(i, n)) = Worth[i] * n
         /\ Worth[i] \in Int /\ Worth[i] * n \in Int /\ StackLimit[i] \in Nat \ {0}
<1>1. Worth[i] \in Int /\ StackLimit[i] \in Nat \ {0}
  BY DEF C!ContentConstants
<1>2. \A a, b \in Int : a * b \in Int
  OBVIOUS
<1>3. Worth[i] * 0 = 0
  BY <1>1
<1>4. Worth[i] * n \in Int
  BY <1>1, <1>2
<1> QED BY <1>1, <1>3, <1>4 DEF C!Stack, C!Stacks, C!WorthOf, C!Empty, C!Valid

LEMMA NoStack ==
  /\ C!Empty \in C!Stacks /\ C!Valid(C!Empty) /\ C!WorthOf(C!Empty) = 0 /\ C!Empty.count = 0
  /\ \A i : C!Stack(i, 0) = C!Empty
BY DEF C!Stacks, C!Valid, C!WorthOf, C!Stack, C!Empty

LEMMA ValidIs ==
  ASSUME C!ContentConstants, NEW s, C!Valid(s)
  PROVE  /\ s.count \in Nat /\ C!WorthOf(s) \in Int
         /\ s # C!Empty => /\ s.item \in C!Items /\ s.count \in 1..StackLimit[s.item]
                           /\ C!WorthOf(s) = Worth[s.item] * s.count
<1>1. CASE s = C!Empty
  BY <1>1, NoStack
<1>2. CASE s # C!Empty
  <2>1. s.item \in C!Items /\ s.count \in 1..StackLimit[s.item]
    BY <1>2 DEF C!Valid
  <2>2. StackLimit[s.item] \in Nat /\ Worth[s.item] \in Int
    BY <2>1 DEF C!ContentConstants
  <2>3. C!WorthOf(s) = Worth[s.item] * s.count
    BY <1>2 DEF C!WorthOf
  <2>4. \A a, b \in Int : a * b \in Int
    OBVIOUS
  <2> QED BY <1>2, <2>1, <2>2, <2>3, <2>4
<1> QED BY <1>1, <1>2

LEMMA StacksValid ==
  ASSUME NEW s \in C!Stacks
  PROVE  C!Valid(s)
BY DEF C!Stacks, C!Valid

\* A stack is as much as the two it is split into.
LEMMA SplitWorth ==
  ASSUME C!ContentConstants, NEW i \in C!Items, NEW m \in Nat, NEW n \in Nat,
         m + n <= StackLimit[i]
  PROVE  C!WorthOf(C!Stack(i, m + n)) = C!WorthOf(C!Stack(i, m)) + C!WorthOf(C!Stack(i, n))
<1>1. m \in 0..StackLimit[i] /\ n \in 0..StackLimit[i] /\ m + n \in 0..StackLimit[i]
  BY DEF C!ContentConstants
<1>2. Worth[i] \in Int
  BY DEF C!ContentConstants
<1>3. \A a, b, d \in Int : a * (b + d) = a * b + a * d
  OBVIOUS
<1>4. Worth[i] * (m + n) = Worth[i] * m + Worth[i] * n
  BY <1>2, <1>3
<1> QED BY <1>1, <1>4, StackWorth

---------------------------------------------------------------------------
(* What the slots and the hands hold. *)

LEMMA WorthCounted ==
  ASSUME C!ContentConstants, NEW R, IsFiniteSet(R), NEW sl \in [R -> C!Stacks]
  PROVE  /\ C!WorthIn(sl) = Sum([k \in R |-> C!WorthOf(sl[k])], R)
         /\ C!WorthIn(sl) \in Int /\ \A k \in R : C!WorthOf(sl[k]) \in Int
<1> DEFINE f == [k \in R |-> C!WorthOf(sl[k])]
<1>1. \A k \in R : f[k] = C!WorthOf(sl[k]) /\ f[k] \in Int
  BY StacksValid, ValidIs
<1>2. C!WorthIn(sl) = Sum(f, R)
  <2>1. DOMAIN f = R /\ C!WorthIn(sl) = C!SumFunction(f)
    BY DEF C!WorthIn
  <2> HIDE DEF f
  <2> QED BY <2>1, SumsAre
<1> HIDE DEF f
<1>3. Sum(f, R) \in Int
  BY <1>1, SumType
<1> QED BY <1>1, <1>2, <1>3 DEF f

LEMMA WorthPut ==
  ASSUME C!ContentConstants, NEW R, IsFiniteSet(R), NEW sl \in [R -> C!Stacks],
         NEW new \in [R -> C!Stacks], NEW k \in R, \A j \in R : j # k => new[j] = sl[j]
  PROVE  C!WorthIn(new) = C!WorthIn(sl) - C!WorthOf(sl[k]) + C!WorthOf(new[k])
<1> DEFINE f == [j \in R |-> C!WorthOf(sl[j])]
           g == [j \in R |-> C!WorthOf(new[j])]
           n == C!WorthOf(new[k])
<1>1. C!WorthIn(sl) = Sum(f, R) /\ C!WorthIn(new) = Sum(g, R)
  BY WorthCounted
<1>2. \A j \in R : f[j] \in Int
  BY WorthCounted
<1>3. n \in Int /\ g[k] = n /\ f[k] = C!WorthOf(sl[k]) /\ \A j \in R \ {k} : g[j] = f[j]
  BY WorthCounted
<1>4. n = C!WorthOf(new[k])
  OBVIOUS
<1> HIDE DEF f, g, n
<1>5. Sum(g, R) = Sum(f, R) - f[k] + n
  BY <1>2, <1>3, SumExcept
<1> QED BY <1>1, <1>3, <1>4, <1>5

\* What some slots have less.
LEMMA SumLess ==
  ASSUME NEW R, IsFiniteSet(R), NEW Z \in SUBSET R, NEW f, NEW g, NEW h,
         \A x \in R : f[x] \in Int, \A x \in Z : h[x] \in Int /\ g[x] = f[x] - h[x],
         \A x \in R \ Z : g[x] = f[x]
  PROVE  Sum(g, R) = Sum(f, R) - Sum(h, Z)
<1> DEFINE Good == {T \in SUBSET R : Sum(g, T) = Sum(f, T) - Sum(h, T \cap Z)}
<1>1. ASSUME NEW T \in SUBSET R, \A U \in SUBSET T : U # T => U \in Good
      PROVE  T \in Good
  <2>0. IsFiniteSet(T) /\ IsFiniteSet(T \cap Z)
    BY FS_Subset
  <2>1. CASE T = {}
    <3>1. T \cap Z = {}
      BY <2>1
    <3> QED BY <2>1, <3>1, SumEmpty
  <2>2. CASE T # {}
    <3> DEFINE x == First(T)
               rest == T \ {x}
    <3>1. x \in T /\ x \in R /\ rest \in SUBSET T /\ rest # T
      BY <2>2, FirstIn
    <3>2. Sum(f, T) = f[x] + Sum(f, rest) /\ Sum(g, T) = g[x] + Sum(g, rest)
      BY <2>0, <2>2, SumFirst
    <3> HIDE DEF x
    <3>3. Sum(g, rest) = Sum(f, rest) - Sum(h, rest \cap Z)
      BY <1>1, <3>1
    <3>4. f[x] \in Int /\ Sum(f, rest) \in Int /\ Sum(h, rest \cap Z) \in Int
      <4>1. IsFiniteSet(rest) /\ IsFiniteSet(rest \cap Z)
        BY <2>0, FS_Subset
      <4>2. (\A y \in rest : f[y] \in Int) /\ \A y \in rest \cap Z : h[y] \in Int
        OBVIOUS
      <4> HIDE DEF rest
      <4> QED BY <3>1, <4>1, <4>2, SumType
    <3>5. CASE x \in Z
      <4>1. rest \cap Z = (T \cap Z) \ {x} /\ x \in T \cap Z
        BY <3>1, <3>5
      <4>2. Sum(h, T \cap Z) = h[x] + Sum(h, (T \cap Z) \ {x})
        <5> DEFINE V == T \cap Z
        <5>1. IsFiniteSet(V) /\ x \in V /\ \A y \in V : h[y] \in Int
          BY <2>0, <4>1
        <5> HIDE DEF V
        <5>2. Sum(h, V) = h[x] + Sum(h, V \ {x})
          BY <5>1, SumTakes
        <5> QED BY <5>2 DEF V
      <4>3. g[x] = f[x] - h[x] /\ h[x] \in Int
        BY <3>5
      <4> DEFINE a == Sum(h, rest \cap Z)
      <4>4. Sum(h, T \cap Z) = h[x] + a /\ a \in Int /\ Sum(g, rest) = Sum(f, rest) - a
        BY <3>3, <3>4, <4>1, <4>2
      <4> HIDE DEF a, rest
      <4> QED BY <3>2, <3>4, <4>3, <4>4
    <3>6. CASE x \notin Z
      <4>1. rest \cap Z = T \cap Z
        BY <3>6
      <4>2. g[x] = f[x]
        BY <3>1, <3>6
      <4> DEFINE a == Sum(h, T \cap Z)
      <4>3. a \in Int /\ Sum(g, rest) = Sum(f, rest) - a
        BY <3>3, <3>4, <4>1
      <4> HIDE DEF a, rest
      <4>4. Sum(g, T) = Sum(f, T) - a
        BY <3>2, <3>4, <4>2, <4>3
      <4> QED BY <4>4 DEF a
    <3> QED BY <3>5, <3>6
  <2> QED BY <2>1, <2>2
<1> HIDE DEF Good
<1>2. \A T \in SUBSET R : T \in Good
  BY <1>1, SubsetInduction
<1>3. Sum(g, R) = Sum(f, R) - Sum(h, R \cap Z)
  BY <1>2 DEF Good
<1>4. R \cap Z = Z
  OBVIOUS
<1> QED BY <1>3, <1>4

\* A recipe whose use of the grid is understood.
GoodRecipe(r) == C!Makeable(r) /\ C!KeepsWorth(r)

\* The cell of a recipe over a slot is one of its cells, or is to be empty.
LEMMA CellIs ==
  ASSUME C!ContentConstants, NEW r, C!Makeable(r), r.kind = "shaped", NEW p \in C!Placements(r),
         r.width <= GridWidth, r.height <= GridHeight, NEW k \in Nat \ {0}
  PROVE  C!CellAt(r, p, k) \subseteq C!Items
<1> DEFINE x == ((k - 1) % GridWidth) - p[1]
           y == ((k - 1) \div GridWidth) - p[2]
           z == IF p[3] THEN r.width - 1 - x ELSE x
<1>1. r.width \in 1..3 /\ r.height \in 1..3 /\ Len(r.cells) = r.width * r.height
      /\ r.cells \in Seq(SUBSET C!Items)
  BY DEF C!Makeable, C!WellShaped
<1>2. GridWidth \in Nat \ {0} /\ GridHeight \in Nat \ {0}
  BY DEF C!ContentConstants
<1>3. p[1] \in Int /\ p[2] \in Int
  BY <1>1, <1>2 DEF C!Placements
<1>4. x \in Int /\ y \in Int
  BY <1>2, <1>3
<1>5. C!CellAt(r, p, k) = IF x \in 0..r.width - 1 /\ y \in 0..r.height - 1
                          THEN r.cells[y * r.width + z + 1] ELSE {}
  BY DEF C!CellAt
<1> HIDE DEF x, y
<1>6. CASE x \in 0..r.width - 1 /\ y \in 0..r.height - 1
  <2>1. z \in 0..r.width - 1
    BY <1>1, <1>4, <1>6
  <2>2. C!CellAt(r, p, k) = r.cells[y * r.width + z + 1]
    BY <1>5, <1>6
  <2> HIDE DEF z
  <2>3. y * r.width + z + 1 \in 1..r.width * r.height
    <3>1. r.width = 1 \/ r.width = 2 \/ r.width = 3
      BY <1>1
    <3>2. y \in Int /\ z \in Int /\ r.height \in Int
      BY <1>1, <1>4, <2>1
    <3>3. CASE r.width = 1
      <4>1. y * 1 + z + 1 \in 1..1 * r.height
        BY <1>6, <2>1, <3>2, <3>3
      <4> QED BY <3>3, <4>1
    <3>4. CASE r.width = 2
      <4>1. y * 2 + z + 1 \in 1..2 * r.height
        BY <1>6, <2>1, <3>2, <3>4
      <4> QED BY <3>4, <4>1
    <3>5. CASE r.width = 3
      <4>1. y * 3 + z + 1 \in 1..3 * r.height
        BY <1>6, <2>1, <3>2, <3>5
      <4> QED BY <3>5, <4>1
    <3> QED BY <3>1, <3>3, <3>4, <3>5
  <2> DEFINE i == y * r.width + z + 1
  <2>4. i \in 1..Len(r.cells)
    BY <1>1, <2>3
  <2> HIDE DEF i
  <2>5. r.cells[i] \in SUBSET C!Items
    BY <1>1, <2>4
  <2> QED BY <2>2, <2>5 DEF i
<1>7. CASE ~(x \in 0..r.width - 1 /\ y \in 0..r.height - 1)
  BY <1>5, <1>7
<1> QED BY <1>6, <1>7

\* What a recipe takes of the grid is there to be taken.
LEMMA UsedIsThere ==
  ASSUME C!ContentConstants, NEW r, C!Makeable(r), NEW sl \in [C!Slots("grid") -> C!Stacks]
  PROVE  C!Use(r, sl) \subseteq C!Filled(sl)
<1>1. CASE r.kind = "shapeless"
  BY <1>1 DEF C!Use
<1>2. CASE r.kind # "shapeless"
  <2>1. ASSUME NEW k \in C!Use(r, sl) PROVE k \in C!Filled(sl)
    <3>1. PICK p \in C!Placements(r) :
                 /\ k \in DOMAIN sl /\ C!CellAt(r, p, k) # {}
                 /\ C!Matches(C!CellAt(r, p, k), sl[k])
      BY <1>2, <2>1 DEF C!Use, C!Fitting
    <3>2. k \in Nat \ {0}
      <4>1. k \in C!Slots("grid") /\ "grid" \in C!Boxes
        BY <3>1 DEF C!ContentConstants
      <4> QED BY <4>1, SlotsCounted
    <3>3. r.kind = "shaped" /\ r.width <= GridWidth /\ r.height <= GridHeight
      BY <1>2, <3>1 DEF C!Makeable, C!WellShaped, C!ContentConstants, C!Placements
    <3>4. C!CellAt(r, p, k) \subseteq C!Items
      BY <3>2, <3>3, CellIs
    <3>5. sl[k].item \in C!Items
      BY <3>1, <3>4 DEF C!Matches
    <3> QED BY <3>1, <3>5 DEF C!Filled, C!Empty, C!ContentConstants
  <2> QED BY <2>1
<1> QED BY <1>1, <1>2

\* A record that is read and can be made is a recipe that keeps the worth.
LEMMA UnderstoodIs ==
  ASSUME C!ContentConstants, NEW r, C!Record(r), ~C!Skipped(r), C!WellShaped(r),
         C!Valid(r.result) /\ r.result # C!Empty /\ C!WellShaped(r) => C!KeepsWorth(C!Understood(r))
  PROVE  GoodRecipe(C!Understood(r))
<1> DEFINE u == C!Understood(r)
           cells == [k \in DOMAIN r.cells |-> r.cells[k] \cap C!Items]
<1>1. DOMAIN r.cells = 1..Len(r.cells) /\ Len(r.cells) \in Nat
  BY DEF C!Record
<1>2. cells \in Seq(SUBSET C!Items) /\ Len(cells) = Len(r.cells) /\ DOMAIN cells = DOMAIN r.cells
  BY <1>1
<1>3. u = [r EXCEPT !.cells = cells]
  BY DEF C!Understood
<1>4. u.cells = cells /\ u.kind = r.kind /\ u.width = r.width /\ u.height = r.height
  BY <1>3 DEF C!Record
<1>5. \A k \in DOMAIN r.cells : r.kind # "shaped" => cells[k] # {}
  <2>1. \A k \in DOMAIN r.cells : cells[k] = r.cells[k] \cap C!Items
    OBVIOUS
  <2> HIDE DEF cells
  <2> QED BY <2>1 DEF C!Skipped, C!Record
<1> HIDE DEF u, cells
<1>6. C!Makeable(u)
  BY <1>2, <1>4, <1>5 DEF C!Makeable, C!WellShaped, C!Record
<1>7. C!KeepsWorth(u)
  BY DEF C!Skipped, u
<1> QED BY <1>6, <1>7 DEF GoodRecipe, u

\* d is what may become of the container b: another state_id if it holds anything else.
Moves(d, b) ==
  /\ d.id \in Int /\ DOMAIN d.slots = DOMAIN b.slots /\ b.id <= d.id
  /\ d.id = b.id => d.slots = b.slots

\* What a player saw is not of the future, and is the container's if the number is.
SawOf(b, d) == b.id \in Int /\ Moves(d, b)

LEMMA WithMoves ==
  ASSUME NEW b, b.id \in Int, NEW sl, DOMAIN sl = DOMAIN b.slots
  PROVE  Moves(C!With(b, sl), b)
  BY DEF Moves, C!With


\* A container's slots, and what is left of a stack that goes into it.
Fills(c) == [C!Slots(c) -> C!Stacks]

LEMMA FillIs ==
  ASSUME C!ContentConstants, NEW c \in C!Boxes, NEW w, w.slots \in Fills(c), C!Valid(w.rest),
         NEW k \in C!Slots(c), NEW merging \in BOOLEAN
  PROVE  /\ C!Fill(c, w, k, merging).slots \in Fills(c)
         /\ C!Fill(c, w, k, merging).rest \in C!Stacks
         /\ C!WorthIn(C!Fill(c, w, k, merging).slots) + C!WorthOf(C!Fill(c, w, k, merging).rest)
              = C!WorthIn(w.slots) + C!WorthOf(w.rest)
<1> DEFINE s == w.slots[k]
           t == w.rest
           i == t.item
           room == IF t = C!Empty \/ ~C!Fits(c, k, t) THEN 0
                   ELSE IF merging THEN (IF s.item = i THEN StackLimit[s.item] - s.count ELSE 0)
                   ELSE (IF s = C!Empty THEN StackLimit[i] ELSE 0)
           n == IF room < t.count THEN room ELSE t.count
           sl == IF n = 0 THEN w.slots ELSE [w.slots EXCEPT ![k] = C!Stack(i, s.count + n)]
           rest == C!Stack(i, t.count - n)
<1>1. C!Fill(c, w, k, merging) = [slots |-> sl, rest |-> rest]
  BY DEF C!Fill
<1>2. s \in C!Stacks /\ C!Valid(s) /\ s.count \in Nat
  BY StacksValid, ValidIs DEF Fills
<1>3. IsFiniteSet(C!Slots(c)) /\ C!WorthIn(w.slots) \in Int
  BY SlotsCounted, WorthCounted DEF Fills
<1> HIDE DEF s
<1>4. CASE t = C!Empty
  <2>1. n = 0 /\ t.count = 0
    BY <1>4, NoStack
  <2>2. sl = w.slots /\ rest = C!Empty
    BY <2>1, NoStack
  <2> QED BY <1>1, <1>4, <2>2, NoStack
<1>5. CASE t # C!Empty
  <2>1. i \in C!Items /\ t.count \in 1..StackLimit[i] /\ C!WorthOf(t) = Worth[i] * t.count
    BY <1>5, ValidIs
  <2>2. StackLimit[i] \in Nat \ {0} /\ Worth[i] \in Int
    BY <2>1 DEF C!ContentConstants
  <2>3. s.item = i => s.count <= StackLimit[i]
    <3>1. CASE s = C!Empty
      BY <2>2, <3>1, NoStack
    <3>2. CASE s # C!Empty
      BY <1>2, <3>2, ValidIs
    <3> QED BY <3>1, <3>2
  <2>4. s = C!Empty => s.count = 0
    BY NoStack
  <2> HIDE DEF t
  <2>5. /\ n \in 0..t.count
        /\ n # 0 => s.count + n <= StackLimit[i] /\ (s = C!Empty \/ s.item = i)
    <3> HIDE DEF i
    <3> QED BY <1>2, <2>1, <2>2, <2>3, <2>4
  <2> HIDE DEF n, i
  <2>6. t.count \in Nat /\ t.count - n \in 0..StackLimit[i] /\ t.count \in 0..StackLimit[i]
        /\ n \in 0..StackLimit[i] /\ n \in Nat /\ t.count - n \in Nat
    BY <2>1, <2>2, <2>5
  <2>7. rest \in C!Stacks /\ C!WorthOf(rest) \in Int
    BY <2>1, <2>6, StackWorth
  <2>8. C!WorthOf(t) = C!WorthOf(C!Stack(i, n)) + C!WorthOf(rest)
        /\ C!WorthOf(C!Stack(i, n)) \in Int
    <3>1. C!WorthOf(C!Stack(i, t.count)) = Worth[i] * t.count
      BY <2>1, <2>6, StackWorth
    <3> DEFINE m == t.count - n
    <3>2. m \in Nat /\ n \in Nat /\ n + m <= StackLimit[i] /\ n + m = t.count
      BY <2>1, <2>2, <2>6
    <3>3. C!WorthOf(C!Stack(i, n + m)) = C!WorthOf(C!Stack(i, n)) + C!WorthOf(C!Stack(i, m))
      <4> HIDE DEF m
      <4> QED BY <2>1, <3>2, SplitWorth
    <3>4. C!WorthOf(C!Stack(i, n)) \in Int
      BY <2>1, <2>6, StackWorth
    <3> QED BY <2>1, <3>1, <3>2, <3>3, <3>4
  <2>9. CASE n = 0
    <3>1. sl = w.slots
      BY <2>9
    <3>2. C!WorthOf(C!Stack(i, n)) = 0
      BY <2>9, NoStack
    <3> HIDE DEF rest
    <3> QED BY <1>1, <1>3, <2>7, <2>8, <3>1, <3>2 DEF t
  <2>10. CASE n # 0
    <3> DEFINE u == C!Stack(i, s.count + n)
               old == w.slots
    <3>1. s.count + n \in 0..StackLimit[i] /\ s.count \in 0..StackLimit[i]
      BY <1>2, <2>2, <2>5, <2>6, <2>10
    <3>2. u \in C!Stacks /\ C!WorthOf(u) \in Int
      BY <2>1, <3>1, StackWorth
    <3>3. C!WorthOf(u) = C!WorthOf(s) + C!WorthOf(C!Stack(i, n))
      <4>1. C!WorthOf(u) = C!WorthOf(C!Stack(i, s.count)) + C!WorthOf(C!Stack(i, n))
        <5>1. s.count + n <= StackLimit[i]
          BY <2>5, <2>10
        <5> QED BY <1>2, <2>1, <2>6, <5>1, SplitWorth
      <4>2. C!WorthOf(C!Stack(i, s.count)) = C!WorthOf(s)
        <5>1. CASE s = C!Empty
          BY <5>1, NoStack
        <5>2. CASE s # C!Empty
          <6>1. s.item = i /\ C!WorthOf(s) = Worth[i] * s.count
            BY <1>2, <2>5, <2>10, <5>2, ValidIs
          <6> QED BY <2>1, <3>1, <6>1, StackWorth
        <5> QED BY <5>1, <5>2
      <4> QED BY <4>1, <4>2
    <3>4. sl = [old EXCEPT ![k] = u]
      BY <2>10
    <3> HIDE DEF u, rest, sl
    <3>5. sl \in Fills(c) /\ sl[k] = u /\ (\A j \in C!Slots(c) : j # k => sl[j] = old[j]) /\ old[k] = s
          /\ old \in Fills(c)
      BY <3>2, <3>4 DEF Fills, s
    <3> HIDE DEF old
    <3>6. C!WorthIn(sl) = C!WorthIn(old) - C!WorthOf(old[k]) + C!WorthOf(sl[k])
      BY <1>3, <3>5, WorthPut DEF Fills
    <3>7. C!WorthOf(s) \in Int /\ C!WorthIn(old) \in Int
      BY <1>2, <1>3, ValidIs DEF old
    <3>8. C!WorthIn(sl) + C!WorthOf(rest) = C!WorthIn(old) + C!WorthOf(t)
      BY <2>7, <2>8, <3>2, <3>3, <3>5, <3>6, <3>7
    <3> QED BY <1>1, <2>7, <3>5, <3>8 DEF old, t
  <2> QED BY <2>9, <2>10
<1> QED BY <1>4, <1>5

\* Inserting a stack is a change of the container if anything goes in, and what does not is
\* left.
LEMMA InsertIs ==
  ASSUME C!ContentConstants, NEW c \in C!Boxes, NEW b, b.id \in Int, b.slots \in Fills(c),
         NEW s, C!Valid(s)
  PROVE  /\ Moves(C!Insert(c, b, s).box, b)
         /\ C!Insert(c, b, s).box.slots \in Fills(c)
         /\ C!Valid(C!Insert(c, b, s).rest)
         /\ s \in C!Stacks => C!Insert(c, b, s).rest \in C!Stacks
         /\ C!WorthIn(C!Insert(c, b, s).box.slots) + C!WorthOf(C!Insert(c, b, s).rest)
              = C!WorthIn(b.slots) + C!WorthOf(s)
<1> DEFINE n == C!Cardinality(C!Slots(c))
           base == [slots |-> b.slots, rest |-> s]
           Step(w, k) == IF k <= n THEN C!Fill(c, w, k, TRUE) ELSE C!Fill(c, w, k - n, FALSE)
           Upto(f) == f = [k \in 0..2 * n |-> IF k = 0 THEN base ELSE Step(f[k - 1], k)]
           filling == CHOOSE f : Upto(f)
           Begun(f, l) == \A k \in 0..l : f[k] = IF k = 0 THEN base ELSE Step(f[k - 1], k)
           T == {l \in 0..2 * n : \E f : Begun(f, l)}
<1>1. n \in Nat
  BY SlotsCounted
<1>2. C!Insert(c, b, s) = [box |-> C!With(b, filling[2 * n].slots), rest |-> filling[2 * n].rest]
  BY DEF C!Insert
<1> DEFINE Holds(w) == C!WorthIn(w.slots) + C!WorthOf(w.rest)
           Good(w) == /\ w.slots \in Fills(c) /\ C!Valid(w.rest)
                      /\ s \in C!Stacks => w.rest \in C!Stacks
                      /\ Holds(w) = Holds(base)
<1>3. \A w : \A k \in 1..2 * n : Good(w) => Good(Step(w, k))
  <2> SUFFICES ASSUME NEW w, NEW k \in 1..2 * n, Good(w) PROVE Good(Step(w, k))
    OBVIOUS
  <2>1. C!Slots(c) = 1..n
    BY SlotsCounted
  <2>2. k <= n => k \in 1..n
    BY <1>1
  <2>3. ~(k <= n) => k - n \in 1..n
    BY <1>1
  <2>4. w.slots \in Fills(c) /\ C!Valid(w.rest) /\ Holds(w) = Holds(base)
    OBVIOUS
  <2> HIDE DEF n, base
  <2>5. CASE k <= n
    <3> DEFINE v == C!Fill(c, w, k, TRUE)
    <3>1. v.slots \in Fills(c) /\ v.rest \in C!Stacks /\ Holds(v) = Holds(w)
      BY <2>1, <2>2, <2>4, <2>5, FillIs
    <3>2. Step(w, k) = v
      BY <2>5
    <3> HIDE DEF v, Holds, Step
    <3> QED BY <2>4, <3>1, <3>2, StacksValid
  <2>6. CASE ~(k <= n)
    <3> DEFINE v == C!Fill(c, w, k - n, FALSE)
    <3>1. v.slots \in Fills(c) /\ v.rest \in C!Stacks /\ Holds(v) = Holds(w)
      BY <2>1, <2>3, <2>4, <2>6, FillIs
    <3>2. Step(w, k) = v
      BY <2>6
    <3> HIDE DEF v, Holds, Step
    <3> QED BY <2>4, <3>1, <3>2, StacksValid
  <2> QED BY <2>5, <2>6
<1>g. Good(base)
  OBVIOUS
<1> HIDE DEF Good
<1> HIDE DEF n, base, Step
<1>4. 0 \in T
  <2> DEFINE f == [k \in 0..0 |-> base]
  <2>1. Begun(f, 0)
    OBVIOUS
  <2> HIDE DEF f
  <2> QED BY <1>1, <2>1
<1>5. ASSUME NEW l \in 0 + 1..2 * n, l - 1 \in T PROVE l \in T
  <2>1. PICK f : Begun(f, l - 1)
    BY <1>5
  <2> DEFINE g == [k \in 0..l |-> IF k = l THEN Step(f[l - 1], l) ELSE f[k]]
  <2>2. /\ l \in Nat /\ l # 0 /\ l - 1 \in 0..l /\ l - 1 # l
        /\ \A k \in 0..l : k # l => k \in 0..l - 1
        /\ \A k \in 0..l : k # 0 => k - 1 \in 0..l /\ k - 1 # l
    BY <1>1
  <2>3. g[l] = Step(f[l - 1], l) /\ \A k \in 0..l : k # l => g[k] = f[k]
    BY <2>2
  <2> HIDE DEF g
  <2>4. ASSUME NEW k \in 0..l PROVE g[k] = IF k = 0 THEN base ELSE Step(g[k - 1], k)
    <3>1. CASE k = l
      BY <2>2, <2>3, <3>1
    <3>2. CASE k # l
      <4>1. g[k] = f[k] /\ k \in 0..l - 1 /\ (k # 0 => g[k - 1] = f[k - 1])
        BY <2>2, <2>3, <3>2
      <4> QED BY <2>1, <4>1
    <3> QED BY <3>1, <3>2
  <2>5. Begun(g, l)
    BY <2>4
  <2> HIDE DEF Begun
  <2>6. l \in 0..2 * n
    BY <1>1
  <2> QED BY <2>5, <2>6
<1> DEFINE m == 2 * n
<1>6. m \in Nat
  BY <1>1
<1>7. PICK f : Begun(f, m)
  <2> HIDE DEF T
  <2>1. 0..2 * n \subseteq T
    <3>1. 0 \in Int /\ 2 * n \in Int
      BY <1>1
    <3> QED BY <1>4, <1>5, <3>1, Upwards, Zenon
  <2> QED BY <1>6, <2>1 DEF T
<1>8. Upto(filling)
  <2> DEFINE g == [k \in 0..m |-> f[k]]
  <2>1. \A k \in 0..m : k # 0 => k - 1 \in 0..m
    BY <1>6
  <2>2. \A k \in 0..m : g[k] = IF k = 0 THEN base ELSE Step(g[k - 1], k)
    BY <1>7, <2>1
  <2>3. g = [k \in 0..m |-> IF k = 0 THEN base ELSE Step(g[k - 1], k)]
    BY <2>2
  <2>4. Upto(g)
    BY <2>3
  <2> QED BY <2>4
<1> HIDE DEF filling
<1>9. \A k \in 0..m : filling[k] = IF k = 0 THEN base ELSE Step(filling[k - 1], k)
  BY <1>8
<1> HIDE DEF Upto, T, Begun, m
<1> DEFINE Same == {k \in 0..m : Good(filling[k])}
<1>10. 0 \in Same
  BY <1>6, <1>9, <1>g
<1>11. ASSUME NEW k \in 0 + 1..m, k - 1 \in Same PROVE k \in Same
  <2>1. k \in 0..m /\ k # 0 /\ k \in 1..2 * n
    BY <1>6, <1>11 DEF m
  <2>2. filling[k] = Step(filling[k - 1], k)
    BY <1>9, <2>1
  <2>3. Good(filling[k - 1])
    BY <1>11
  <2>4. Good(filling[k])
    BY <1>3, <2>1, <2>2, <2>3
  <2> QED BY <2>1, <2>4
<1> HIDE DEF Same
<1>12. 0..m \subseteq Same
  <2>1. 0 \in Int /\ m \in Int
    BY <1>6
  <2> QED BY <1>10, <1>11, <2>1, Upwards, Zenon
<1>13. Good(filling[m])
  BY <1>6, <1>12 DEF Same
<1>14. C!Insert(c, b, s) = [box |-> C!With(b, filling[m].slots), rest |-> filling[m].rest]
  BY <1>2 DEF m
<1>15. C!With(b, filling[m].slots).slots = filling[m].slots
  BY DEF C!With
<1>16. Moves(C!With(b, filling[m].slots), b)
  <2>1. DOMAIN filling[m].slots = DOMAIN b.slots
    BY <1>13 DEF Good, Fills
  <2> QED BY <2>1, WithMoves
<1>17. Holds(base) = C!WorthIn(b.slots) + C!WorthOf(s)
  BY DEF base
<1> QED BY <1>13, <1>14, <1>15, <1>16, <1>17 DEF Good

IsSeq(q) == \E R : q \in Seq(R)

\* A stream of records of which those that are loaded keep the worth.
Promising(q) ==
  /\ IsSeq(q)
  /\ \A n \in DOMAIN q :
       /\ C!Record(q[n])
       /\ C!Valid(q[n].result) /\ q[n].result # C!Empty /\ C!WellShaped(q[n])
            => C!KeepsWorth(C!Understood(q[n]))

\* What makes the worth and the state_ids invariants: what the slots hold, and the recipes.
TableInv ==
  /\ DOMAIN box = C!Boxes
  /\ \A c \in C!Boxes : box[c].id \in Int /\ box[c].slots \in Fills(c)
  /\ cursor \in [Crafters -> C!Stacks]
  /\ DOMAIN seen = Crafters
  /\ \A p \in Crafters : seen[p].of \in C!Boxes /\ SawOf(seen[p].box, box[seen[p].of])
  /\ IsSeq(recipes) /\ \A n \in DOMAIN recipes : GoodRecipe(recipes[n])
  /\ Promising(stream)
  /\ C!WealthKept

---------------------------------------------------------------------------
(* The worth of it all. *)

BoxWorths(b) == [c \in C!Boxes |-> C!WorthIn(b[c].slots)]
HandWorths(h) == [p \in Crafters |-> C!WorthOf(h[p])]

LEMMA WealthIs ==
  ASSUME C!ContentConstants, NEW b, \A c \in C!Boxes : b[c].slots \in Fills(c),
         NEW h \in [Crafters -> C!Stacks]
  PROVE  /\ C!Wealth(b, h) = Sum(BoxWorths(b), C!Boxes) + Sum(HandWorths(h), Crafters)
         /\ Sum(BoxWorths(b), C!Boxes) \in Int /\ Sum(HandWorths(h), Crafters) \in Int
         /\ \A c \in C!Boxes : BoxWorths(b)[c] \in Int
         /\ \A p \in Crafters : HandWorths(h)[p] \in Int
<1>1. IsFiniteSet(C!Boxes) /\ IsFiniteSet(Crafters)
  BY CountsAgree DEF C!ContentConstants
<1>2. \A c \in C!Boxes : BoxWorths(b)[c] \in Int
  BY SlotsCounted, WorthCounted DEF BoxWorths, Fills
<1>3. \A p \in Crafters : HandWorths(h)[p] \in Int
  BY StacksValid, ValidIs DEF HandWorths
<1>4. C!Wealth(b, h) = C!SumFunction(BoxWorths(b)) + C!SumFunction(HandWorths(h))
      /\ DOMAIN BoxWorths(b) = C!Boxes /\ DOMAIN HandWorths(h) = Crafters
  BY DEF C!Wealth, BoxWorths, HandWorths
<1>5. C!Wealth(b, h) = Sum(BoxWorths(b), C!Boxes) + Sum(HandWorths(h), Crafters)
  BY <1>4, SumsAre
<1> QED BY <1>1, <1>2, <1>3, <1>5, SumType

\* One container and one hand are changed.
LEMMA WealthPut ==
  ASSUME C!ContentConstants, TableInv, NEW c \in C!Boxes, NEW p \in Crafters,
         \A e \in C!Boxes : e # c => box'[e] = box[e],
         \A q \in Crafters : q # p => cursor'[q] = cursor[q],
         box'[c].slots \in Fills(c), cursor' \in [Crafters -> C!Stacks],
         C!WorthIn(box'[c].slots) + C!WorthOf(cursor'[p])
           = C!WorthIn(box[c].slots) + C!WorthOf(cursor[p])
  PROVE  C!WealthKept'
<1> DEFINE b == box
           d == box'
           h == cursor
           o == cursor'
           f == BoxWorths(b)
           g == BoxWorths(d)
           e == HandWorths(h)
           r == HandWorths(o)
<1>1. (\A a \in C!Boxes : b[a].slots \in Fills(a)) /\ h \in [Crafters -> C!Stacks]
  BY DEF TableInv
<1>2. (\A a \in C!Boxes : d[a].slots \in Fills(a)) /\ o \in [Crafters -> C!Stacks]
  BY <1>1
<1>3. /\ C!Wealth(b, h) = Sum(f, C!Boxes) + Sum(e, Crafters)
      /\ Sum(f, C!Boxes) \in Int /\ Sum(e, Crafters) \in Int
      /\ (\A a \in C!Boxes : f[a] \in Int) /\ \A a \in Crafters : e[a] \in Int
  BY <1>1, WealthIs
<1>4. /\ C!Wealth(d, o) = Sum(g, C!Boxes) + Sum(r, Crafters)
      /\ Sum(g, C!Boxes) \in Int /\ Sum(r, Crafters) \in Int
      /\ (\A a \in C!Boxes : g[a] \in Int) /\ \A a \in Crafters : r[a] \in Int
  BY <1>2, WealthIs
<1>5. (\A a \in C!Boxes \ {c} : g[a] = f[a]) /\ \A a \in Crafters \ {p} : r[a] = e[a]
  BY DEF BoxWorths, HandWorths
<1>6. g[c] + r[p] = f[c] + e[p]
  BY DEF BoxWorths, HandWorths
<1>7. IsFiniteSet(C!Boxes) /\ IsFiniteSet(Crafters)
  BY CountsAgree DEF C!ContentConstants
<1> DEFINE x == g[c]
           y == r[p]
<1>a. x \in Int /\ y \in Int /\ x + y = f[c] + e[p] /\ g[c] = x /\ r[p] = y
  BY <1>4, <1>6
<1> HIDE DEF b, d, h, o, f, g, e, r, x, y
<1>8. Sum(g, C!Boxes) = Sum(f, C!Boxes) - f[c] + x
  BY <1>3, <1>5, <1>7, <1>a, SumExcept
<1>9. Sum(r, Crafters) = Sum(e, Crafters) - e[p] + y
  BY <1>3, <1>5, <1>7, <1>a, SumExcept
<1>10. C!Wealth(d, o) = C!Wealth(b, h)
  <2>1. f[c] \in Int /\ e[p] \in Int
    BY <1>3
  <2>2. /\ C!Wealth(b, h) = Sum(f, C!Boxes) + Sum(e, Crafters)
        /\ C!Wealth(d, o) = Sum(g, C!Boxes) + Sum(r, Crafters)
        /\ Sum(f, C!Boxes) \in Int /\ Sum(e, Crafters) \in Int
    BY <1>3, <1>4
  <2>3. x \in Int /\ y \in Int /\ x + y = f[c] + e[p]
    BY <1>a
  <2> QED BY <1>8, <1>9, <2>1, <2>2, <2>3
<1>11. C!WealthKept
  BY DEF TableInv
<1> QED BY <1>10, <1>11 DEF C!WealthKept, b, d, h, o

\* Two containers are changed.
LEMMA WealthPutTwo ==
  ASSUME C!ContentConstants, TableInv, NEW c \in C!Boxes, NEW e \in C!Boxes, c # e,
         \A a \in C!Boxes : a \notin {c, e} => box'[a] = box[a], UNCHANGED cursor,
         box'[c].slots \in Fills(c), box'[e].slots \in Fills(e),
         C!WorthIn(box'[c].slots) + C!WorthIn(box'[e].slots)
           = C!WorthIn(box[c].slots) + C!WorthIn(box[e].slots)
  PROVE  C!WealthKept'
<1> DEFINE b == box
           d == box'
           h == cursor
           f == BoxWorths(b)
           g == BoxWorths(d)
           k == [f EXCEPT ![c] = g[c]]
           r == HandWorths(h)
<1>1. (\A a \in C!Boxes : b[a].slots \in Fills(a)) /\ h \in [Crafters -> C!Stacks]
  BY DEF TableInv
<1>2. \A a \in C!Boxes : d[a].slots \in Fills(a)
  BY <1>1
<1>3. /\ C!Wealth(b, h) = Sum(f, C!Boxes) + Sum(r, Crafters)
      /\ Sum(f, C!Boxes) \in Int /\ Sum(r, Crafters) \in Int
      /\ \A a \in C!Boxes : f[a] \in Int
  BY <1>1, WealthIs
<1>4. /\ C!Wealth(d, h) = Sum(g, C!Boxes) + Sum(r, Crafters)
      /\ Sum(g, C!Boxes) \in Int /\ \A a \in C!Boxes : g[a] \in Int
  BY <1>1, <1>2, WealthIs
<1>5. \A a \in C!Boxes : a \notin {c, e} => g[a] = f[a]
  BY DEF BoxWorths
<1>6. g[c] + g[e] = f[c] + f[e]
  BY DEF BoxWorths
<1>7. IsFiniteSet(C!Boxes)
  BY CountsAgree DEF C!ContentConstants
<1>8. DOMAIN f = C!Boxes
  BY DEF BoxWorths
<1>w. C!WealthKept
  BY DEF TableInv
<1>u. cursor' = h
  OBVIOUS
<1> DEFINE x == g[c]
           y == g[e]
<1>a. x \in Int /\ y \in Int /\ x + y = f[c] + f[e] /\ g[e] = y
  BY <1>4, <1>6
<1> HIDE DEF b, d, h, f, g, r
<1>9. /\ k[c] = x /\ k[e] = f[e] /\ (\A a \in C!Boxes \ {c} : k[a] = f[a])
      /\ \A a \in C!Boxes \ {e} : g[a] = k[a]
  BY <1>5, <1>8
<1> HIDE DEF k, x, y
<1>10. \A a \in C!Boxes : k[a] \in Int
  BY <1>3, <1>9, <1>a
<1>11. Sum(k, C!Boxes) = Sum(f, C!Boxes) - f[c] + x
  BY <1>3, <1>7, <1>9, <1>a, SumExcept
<1>12. Sum(g, C!Boxes) = Sum(k, C!Boxes) - k[e] + y
  BY <1>7, <1>9, <1>10, <1>a, SumExcept
<1>13. C!Wealth(d, h) = C!Wealth(b, h)
  <2>1. f[c] \in Int /\ f[e] \in Int
    BY <1>3
  <2> QED BY <1>3, <1>4, <1>9, <1>11, <1>12, <1>a, <2>1
<1> QED BY <1>13, <1>u, <1>w DEF C!WealthKept, b, d, h

---------------------------------------------------------------------------
(* The steps. *)

LEMMA TableSteps ==
  ASSUME TableInv, DOMAIN box' = C!Boxes, \A c \in C!Boxes : Moves(box'[c], box[c]),
         \A c \in C!Boxes : box'[c].slots \in Fills(c), cursor' \in [Crafters -> C!Stacks],
         UNCHANGED <<seen, recipes, stream>>, C!WealthKept'
  PROVE  TableInv'
<1>1. \A c \in C!Boxes : box'[c].id \in Int
  BY DEF Moves
<1>2. ASSUME NEW p \in Crafters
      PROVE  seen'[p].of \in C!Boxes /\ SawOf(seen'[p].box, box'[seen'[p].of])
  <2>1. seen'[p] = seen[p] /\ seen[p].of \in C!Boxes /\ SawOf(seen[p].box, box[seen[p].of])
    BY DEF TableInv
  <2> DEFINE a == seen[p].box
             b == box[seen[p].of]
             d == box'[seen[p].of]
  <2>2. Moves(d, b) /\ b.id \in Int /\ SawOf(a, b)
    BY <2>1 DEF TableInv
  <2> HIDE DEF a, b, d
  <2>3. SawOf(a, d)
    BY <2>2 DEF SawOf, Moves
  <2> QED BY <2>1, <2>3 DEF a, d
<1>3. IsSeq(recipes') /\ (\A n \in DOMAIN recipes' : GoodRecipe(recipes'[n])) /\ Promising(stream')
  BY DEF TableInv, IsSeq, Promising, GoodRecipe
<1>4. /\ (DOMAIN box = C!Boxes)' /\ (cursor \in [Crafters -> C!Stacks])'
      /\ (\A c \in C!Boxes : box[c].id \in Int /\ box[c].slots \in Fills(c))'
  BY <1>1 DEF C!Boxes, C!Slots, C!Stacks, C!Items, Fills
<1>5. (DOMAIN seen = Crafters)'
      /\ (\A p \in Crafters : seen[p].of \in C!Boxes /\ SawOf(seen[p].box, box[seen[p].of]))'
  BY <1>2 DEF TableInv, C!Boxes, SawOf, Moves
<1>6. (IsSeq(recipes))' /\ (\A n \in DOMAIN recipes : GoodRecipe(recipes[n]))'
  BY <1>3 DEF IsSeq
<1>7. (Promising(stream))'
  BY <1>3
<1>8. (C!WealthKept)'
  OBVIOUS
<1> QED BY Zenon, <1>4, <1>5, <1>6, <1>7, <1>8 DEF TableInv

\* One container is changed, and one hand.
LEMMA PutSteps ==
  ASSUME C!ContentConstants, TableInv, NEW c \in C!Boxes, NEW p \in Crafters, NEW b, NEW s \in C!Stacks,
         C!Put(c, b), C!Hold(p, s), Moves(b, box[c]), b.slots \in Fills(c),
         UNCHANGED <<seen, recipes, stream>>,
         C!WorthIn(b.slots) + C!WorthOf(s) = C!WorthIn(box[c].slots) + C!WorthOf(cursor[p])
  PROVE  TableInv'
<1>1. DOMAIN box' = C!Boxes /\ box'[c] = b /\ \A d \in C!Boxes : d # c => box'[d] = box[d]
  BY DEF TableInv, C!Put
<1>2. cursor' \in [Crafters -> C!Stacks] /\ cursor'[p] = s
      /\ \A q \in Crafters : q # p => cursor'[q] = cursor[q]
  BY DEF TableInv, C!Hold
<1>3. \A d \in C!Boxes : Moves(box'[d], box[d])
  BY <1>1 DEF Moves, TableInv
<1>4. \A d \in C!Boxes : box'[d].slots \in Fills(d)
  BY <1>1 DEF TableInv
<1>5. C!WealthKept'
  BY <1>1, <1>2, WealthPut
<1> QED BY <1>1, <1>2, <1>3, <1>4, <1>5, TableSteps

\* What is taken of a slot, and what is left in it.
LEMMA TakeIs ==
  ASSUME C!ContentConstants, NEW c \in C!Boxes, NEW b, b.id \in Int, b.slots \in Fills(c),
         NEW k \in C!Slots(c), NEW n \in Nat
  PROVE  /\ Moves(C!Take(b, k, n).box, b)
         /\ C!Take(b, k, n).box.slots \in Fills(c) /\ C!Take(b, k, n).taken \in C!Stacks
         /\ \A j \in C!Slots(c) : j # k => C!Take(b, k, n).box.slots[j] = b.slots[j]
         /\ C!WorthOf(C!Take(b, k, n).box.slots[k]) + C!WorthOf(C!Take(b, k, n).taken)
              = C!WorthOf(b.slots[k])
         /\ n = 1 /\ b.slots[k] # C!Empty
              => C!WorthOf(C!Take(b, k, n).taken) = Worth[b.slots[k].item]
<1> DEFINE s == b.slots[k]
           i == s.item
           m == IF n < s.count THEN n ELSE s.count
           sl == [b.slots EXCEPT ![k] = C!Stack(i, s.count - m)]
<1>1. C!Take(b, k, n).box = C!With(b, sl) /\ C!Take(b, k, n).taken = C!Stack(i, m)
  BY DEF C!Take
<1>2. Moves(C!With(b, sl), b) /\ C!With(b, sl).slots = sl
  BY WithMoves DEF C!With
<1>3. sl[k] = C!Stack(i, s.count - m) /\ \A j \in C!Slots(c) : j # k => sl[j] = b.slots[j]
  BY DEF Fills
<1>4. s \in C!Stacks /\ C!Valid(s) /\ s.count \in Nat
  BY StacksValid, ValidIs DEF Fills
<1>5. m \in Nat /\ s.count - m \in Nat /\ m + (s.count - m) = s.count
  BY <1>4
<1>6. (n = 1 /\ s.count # 0) => m = 1
  BY <1>4
<1>7. /\ C!Stack(i, s.count - m) \in C!Stacks /\ C!Stack(i, m) \in C!Stacks
      /\ C!WorthOf(C!Stack(i, s.count - m)) + C!WorthOf(C!Stack(i, m)) = C!WorthOf(s)
      /\ n = 1 /\ s # C!Empty => C!WorthOf(C!Stack(i, m)) = Worth[i]
  <2>1. CASE s = C!Empty
    <3>1. s.count = 0 /\ C!WorthOf(s) = 0
      BY <2>1, NoStack
    <3>2. m = 0 /\ s.count - m = 0
      <4> HIDE DEF m, s
      <4> QED BY <1>5, <3>1
    <3> HIDE DEF m, s
    <3> QED BY <2>1, <3>1, <3>2, NoStack
  <2>2. CASE s # C!Empty
    <3> HIDE DEF s
    <3>1. i \in C!Items /\ s.count \in 1..StackLimit[i] /\ C!WorthOf(s) = Worth[i] * s.count
      BY <1>4, <2>2, ValidIs
    <3> HIDE DEF i, m
    <3>2. StackLimit[i] \in Nat /\ Worth[i] \in Int
      BY <3>1, StackWorth, 0 \in 0..StackLimit[i] DEF C!ContentConstants
    <3>3. m \in 0..StackLimit[i] /\ s.count - m \in 0..StackLimit[i] /\ s.count \in 0..StackLimit[i]
          /\ s.count # 0 /\ s.count <= StackLimit[i]
      BY <1>4, <1>5, <3>1, <3>2
    <3>4. C!WorthOf(C!Stack(i, m)) = Worth[i] * m /\ C!WorthOf(C!Stack(i, m)) \in Int
          /\ C!Stack(i, m) \in C!Stacks /\ C!Stack(i, s.count - m) \in C!Stacks
          /\ C!WorthOf(C!Stack(i, s.count - m)) \in Int
          /\ C!WorthOf(C!Stack(i, s.count)) = Worth[i] * s.count
      <4> DEFINE d == s.count - m
      <4>1. d \in 0..StackLimit[i]
        BY <3>3
      <4> HIDE DEF d
      <4>2. C!Stack(i, d) \in C!Stacks /\ C!WorthOf(C!Stack(i, d)) \in Int
        BY <3>1, <4>1, StackWorth
      <4> QED BY <3>1, <3>3, <4>2, StackWorth DEF d
    <3>5. C!WorthOf(C!Stack(i, s.count)) = C!WorthOf(C!Stack(i, m)) + C!WorthOf(C!Stack(i, s.count - m))
      <4> DEFINE d == s.count - m
      <4>1. d \in Nat /\ m + d = s.count /\ m + d <= StackLimit[i]
        BY <1>5, <3>3
      <4> HIDE DEF d
      <4>2. C!WorthOf(C!Stack(i, m + d)) = C!WorthOf(C!Stack(i, m)) + C!WorthOf(C!Stack(i, d))
        BY <1>5, <3>1, <4>1, SplitWorth
      <4> QED BY <4>1, <4>2 DEF d
    <3>6. n = 1 => Worth[i] * m = Worth[i]
      BY <1>6, <3>2, <3>3
    <3> QED BY <3>1, <3>4, <3>5, <3>6
  <2> QED BY <2>1, <2>2
<1>8. sl \in Fills(c)
  <2>1. C!Stack(i, s.count - m) \in C!Stacks
    BY <1>7
  <2> HIDE DEF s, i, m
  <2> QED BY <2>1 DEF Fills
<1> HIDE DEF sl, s, m
<1> QED BY <1>1, <1>2, <1>3, <1>7, <1>8 DEF s

LEMMA LookMoves ==
  ASSUME TableInv, NEW p \in Crafters, NEW c \in C!Boxes, C!Look(p, c)
  PROVE  TableInv'
<1>1. seen' = [seen EXCEPT ![p] = [of |-> c, box |-> box[c]]]
      /\ UNCHANGED <<box, cursor, recipes, stream>>
  BY DEF C!Look
<1>2. DOMAIN seen' = Crafters /\ seen'[p] = [of |-> c, box |-> box[c]]
      /\ \A q \in Crafters : q # p => seen'[q] = seen[q]
  BY <1>1 DEF TableInv
<1>3. SawOf(box[c], box[c])
  BY DEF TableInv, SawOf, Moves
<1>4. \A q \in Crafters : seen'[q].of \in C!Boxes /\ SawOf(seen'[q].box, box[seen'[q].of])
  BY <1>2, <1>3 DEF TableInv
<1>5. /\ (DOMAIN box = C!Boxes)' /\ (cursor \in [Crafters -> C!Stacks])'
      /\ (\A d \in C!Boxes : box[d].id \in Int /\ box[d].slots \in Fills(d))'
  BY <1>1 DEF TableInv, C!Boxes, C!Slots, C!Stacks, C!Items, Fills
<1>6. (DOMAIN seen = Crafters)'
      /\ (\A q \in Crafters : seen[q].of \in C!Boxes /\ SawOf(seen[q].box, box[seen[q].of]))'
  BY <1>1, <1>2, <1>4 DEF C!Boxes, SawOf, Moves
<1>7. (IsSeq(recipes))' /\ (\A n \in DOMAIN recipes : GoodRecipe(recipes[n]))'
  BY <1>1 DEF TableInv, IsSeq, GoodRecipe
<1>8. (Promising(stream))'
  BY <1>1 DEF TableInv, Promising, IsSeq
<1>9. (C!WealthKept)'
  BY <1>1 DEF TableInv, C!WealthKept
<1> QED BY <1>5, <1>6, <1>7, <1>8, <1>9 DEF TableInv

\* The cursor's stack and a slot change places.
LEMMA ExchangeMoves ==
  ASSUME C!ContentConstants, TableInv, NEW p \in Crafters, NEW c \in C!Boxes, NEW k \in C!Slots(c),
         C!Exchange(p, c, k)
  PROVE  TableInv'
<1> DEFINE b == C!SetSlot(box[c], k, cursor[p])
           old == box[c].slots
<1>1. C!Put(c, b) /\ C!Hold(p, old[k]) /\ UNCHANGED <<seen, recipes, stream>>
  BY DEF C!Exchange
<1>2. old \in Fills(c) /\ box[c].id \in Int /\ cursor[p] \in C!Stacks
  BY DEF TableInv
<1>3. b.slots = [old EXCEPT ![k] = cursor[p]] /\ b.id = box[c].id + 1
  BY DEF C!SetSlot
<1> HIDE DEF b
<1>4. b.slots \in Fills(c) /\ old[k] \in C!Stacks /\ b.slots[k] = cursor[p]
      /\ \A j \in C!Slots(c) : j # k => b.slots[j] = old[j]
  BY <1>2, <1>3 DEF Fills
<1>5. Moves(b, box[c])
  BY <1>2, <1>3 DEF Moves
<1>6. C!WorthIn(b.slots) = C!WorthIn(old) - C!WorthOf(old[k]) + C!WorthOf(cursor[p])
  <2> DEFINE new == b.slots
  <2>1. new \in [C!Slots(c) -> C!Stacks] /\ old \in [C!Slots(c) -> C!Stacks]
        /\ new[k] = cursor[p] /\ \A j \in C!Slots(c) : j # k => new[j] = old[j]
    BY <1>2, <1>4 DEF Fills
  <2> HIDE DEF new, old
  <2>2. C!WorthIn(new) = C!WorthIn(old) - C!WorthOf(old[k]) + C!WorthOf(new[k])
    BY <2>1, WorthPut, SlotsCounted
  <2> QED BY <2>1, <2>2 DEF new
<1>7. C!WorthIn(old) \in Int /\ C!WorthOf(old[k]) \in Int /\ C!WorthOf(cursor[p]) \in Int
  BY <1>2, <1>4, SlotsCounted, WorthCounted, StacksValid, ValidIs DEF Fills
<1>8. C!WorthIn(b.slots) + C!WorthOf(old[k]) = C!WorthIn(old) + C!WorthOf(cursor[p])
  BY <1>6, <1>7
<1> DEFINE s == old[k]
<1>9. s \in C!Stacks /\ C!Hold(p, s)
      /\ C!WorthIn(b.slots) + C!WorthOf(s) = C!WorthIn(box[c].slots) + C!WorthOf(cursor[p])
  BY <1>1, <1>4, <1>8
<1> HIDE DEF s
<1> QED BY <1>1, <1>4, <1>5, <1>9, PutSteps

LEMMA InsertMoves ==
  ASSUME C!ContentConstants, TableInv, NEW p \in Crafters, NEW c \in C!Boxes, C!InsertCursor(p, c)
  PROVE  TableInv'
<1> DEFINE got == C!Insert(c, box[c], cursor[p])
           b == got.box
           s == got.rest
<1>1. C!Put(c, b) /\ C!Hold(p, s) /\ UNCHANGED <<seen, recipes, stream>>
  BY DEF C!InsertCursor
<1>2. box[c].slots \in Fills(c) /\ box[c].id \in Int /\ cursor[p] \in C!Stacks
  BY DEF TableInv
<1>3. Moves(b, box[c]) /\ b.slots \in Fills(c) /\ s \in C!Stacks
      /\ C!WorthIn(b.slots) + C!WorthOf(s) = C!WorthIn(box[c].slots) + C!WorthOf(cursor[p])
  BY <1>2, InsertIs, StacksValid
<1> HIDE DEF b, s
<1> QED BY <1>1, <1>3, PutSteps

LEMMA TakeMoves ==
  ASSUME C!ContentConstants, TableInv, NEW p \in Crafters, NEW c \in C!Boxes, NEW k \in C!Slots(c),
         NEW n \in 1..2, C!TakeToCursor(p, c, k, n)
  PROVE  TableInv'
<1> DEFINE got == C!Take(box[c], k, n)
           b == got.box
           s == got.taken
           old == box[c].slots
           new == b.slots
<1>1. C!Put(c, b) /\ C!Hold(p, s) /\ UNCHANGED <<seen, recipes, stream>> /\ cursor[p] = C!Empty
  BY DEF C!TakeToCursor
<1>2. old \in Fills(c) /\ box[c].id \in Int /\ n \in Nat
  BY DEF TableInv
<1>3. /\ Moves(b, box[c]) /\ new \in Fills(c) /\ s \in C!Stacks
      /\ \A j \in C!Slots(c) : j # k => new[j] = old[j]
      /\ C!WorthOf(new[k]) + C!WorthOf(s) = C!WorthOf(old[k])
  BY <1>2, TakeIs
<1>a. new = b.slots /\ old = box[c].slots
  OBVIOUS
<1> HIDE DEF b, s, new, old
<1>4. C!WorthIn(new) = C!WorthIn(old) - C!WorthOf(old[k]) + C!WorthOf(new[k])
  BY <1>2, <1>3, WorthPut, SlotsCounted DEF Fills
<1>5. C!WorthIn(old) \in Int /\ C!WorthOf(old[k]) \in Int /\ C!WorthOf(new[k]) \in Int
      /\ C!WorthOf(s) \in Int /\ C!WorthOf(cursor[p]) = 0
  BY <1>1, <1>2, <1>3, SlotsCounted, WorthCounted, StacksValid, ValidIs, NoStack DEF Fills
<1>6. C!WorthIn(new) + C!WorthOf(s) = C!WorthIn(old) + C!WorthOf(cursor[p])
  BY <1>3, <1>4, <1>5
<1> QED BY <1>1, <1>3, <1>6, <1>a, PutSteps

\* A transaction that is accepted exchanges two slots of the container as it is.
LEMMA TransactMoves ==
  ASSUME C!ContentConstants, TableInv, NEW p \in Crafters,
         NEW j \in C!Slots(seen[p].of), NEW k \in C!Slots(seen[p].of), C!Transact(p, j, k)
  PROVE  TableInv'
<1> DEFINE c == seen[p].of
           was == seen[p].box
           old == box[c].slots
           changes == [i \in {j, k} |-> was.slots[IF i = j THEN k ELSE j]]
           b == C!Transacted(box[c], changes)
           new == b.slots
<1>1. C!Put(c, b) /\ UNCHANGED <<cursor, seen, recipes, stream>> /\ was.id = box[c].id
  BY DEF C!Transact, C!Accepts
<1>2. /\ c \in C!Boxes /\ old \in Fills(c) /\ box[c].id \in Int /\ DOMAIN box = C!Boxes
      /\ j \in C!Slots(c) /\ k \in C!Slots(c) /\ SawOf(was, box[c])
  BY DEF TableInv
<1>3. was.slots = old
  BY <1>1, <1>2 DEF SawOf, Moves
<1>4. new = [i \in C!Slots(c) |-> IF i = j THEN old[k] ELSE IF i = k THEN old[j] ELSE old[i]]
  <2>1. new = [i \in DOMAIN old |-> IF i \in DOMAIN changes THEN changes[i] ELSE old[i]]
    BY DEF C!Transacted, C!With
  <2>2. DOMAIN old = C!Slots(c)
    BY <1>2 DEF Fills
  <2>3. DOMAIN changes = {j, k} /\ changes[j] = old[k] /\ (j # k => changes[k] = old[j])
    BY <1>3
  <2> HIDE DEF changes, old, new, c
  <2> QED BY <2>1, <2>2, <2>3
<1>5. Moves(b, box[c])
  <2>1. DOMAIN [i \in DOMAIN old |-> IF i \in DOMAIN changes THEN changes[i] ELSE old[i]] = DOMAIN old
    OBVIOUS
  <2> HIDE DEF changes, c
  <2> QED BY <1>2, <2>1, WithMoves DEF C!Transacted
<1>a. new = b.slots /\ old = box[c].slots
  OBVIOUS
<1> HIDE DEF new, old, b, c, was
<1>6. new \in Fills(c) /\ new[j] = old[k] /\ new[k] = old[j]
      /\ \A i \in C!Slots(c) : i \notin {j, k} => new[i] = old[i]
  BY <1>2, <1>4 DEF Fills
<1>7. C!WorthIn(new) = C!WorthIn(old)
  <2>1. CASE j = k
    <3>1. new = old
      BY <1>2, <1>6, <2>1 DEF Fills
    <3> QED BY <3>1
  <2>2. CASE j # k
    <3> DEFINE half == [old EXCEPT ![j] = old[k]]
    <3>1. /\ half \in Fills(c) /\ half[j] = old[k] /\ half[k] = old[k]
          /\ \A i \in C!Slots(c) : i # j => half[i] = old[i]
          /\ \A i \in C!Slots(c) : i # k => new[i] = half[i]
      BY <1>2, <1>6, <2>2 DEF Fills
    <3> HIDE DEF half
    <3>2. C!WorthIn(half) = C!WorthIn(old) - C!WorthOf(old[j]) + C!WorthOf(old[k])
      <4>1. C!WorthIn(half) = C!WorthIn(old) - C!WorthOf(old[j]) + C!WorthOf(half[j])
        BY <1>2, <3>1, WorthPut, SlotsCounted DEF Fills
      <4> QED BY <3>1, <4>1
    <3>3. C!WorthIn(new) = C!WorthIn(half) - C!WorthOf(old[k]) + C!WorthOf(old[j])
      <4>1. C!WorthIn(new) = C!WorthIn(half) - C!WorthOf(half[k]) + C!WorthOf(new[k])
        BY <1>2, <1>6, <3>1, WorthPut, SlotsCounted DEF Fills
      <4> QED BY <1>6, <3>1, <4>1
    <3>4. C!WorthIn(old) \in Int /\ C!WorthOf(old[j]) \in Int /\ C!WorthOf(old[k]) \in Int
      BY <1>2, SlotsCounted, WorthCounted DEF Fills
    <3> QED BY <3>2, <3>3, <3>4
  <2> QED BY <2>1, <2>2
<1>8. C!Hold(p, cursor[p])
  BY <1>1 DEF C!Hold, TableInv
<1>9. cursor[p] \in C!Stacks
      /\ C!WorthIn(new) + C!WorthOf(cursor[p]) = C!WorthIn(old) + C!WorthOf(cursor[p])
  BY <1>7 DEF TableInv
<1> DEFINE s == cursor[p]
<1>10. s \in C!Stacks /\ C!Hold(p, s) /\ s = cursor[p]
  BY <1>8, <1>9
<1> HIDE DEF s
<1> QED BY <1>1, <1>2, <1>5, <1>6, <1>9, <1>10, <1>a, PutSteps

---------------------------------------------------------------------------
(* Crafting. *)

LEMMA MatchingIs ==
  ASSUME IsSeq(recipes), NEW sl, C!Matching(sl) # 0
  PROVE  C!Matching(sl) \in DOMAIN recipes /\ C!Matched(recipes[C!Matching(sl)], sl)
<1> DEFINE all == {n \in DOMAIN recipes : C!Matched(recipes[n], sl)}
<1>1. all \in SUBSET Nat
  BY DEF IsSeq
<1>2. C!Matching(sl) = IF all = {} THEN 0 ELSE CHOOSE n \in all : \A m \in all : n <= m
  BY DEF C!Matching
<1>3. all # {} => \E n \in all : \A m \in all : n <= m
  <2> HIDE DEF all
  <2> QED BY <1>1, LeastOf
<1>4. C!Matching(sl) \in all
  <2> HIDE DEF all
  <2> QED BY <1>2, <1>3
<1> QED BY <1>4

\* The grid, from which one is taken in each slot that the recipe uses.
Paid(sl, used) ==
  [k \in C!Slots("grid") |-> IF k \in used THEN C!Take(box["grid"], k, 1).box.slots[k] ELSE sl[k]]

\* What the recipe takes of the grid is worth its result.
LEMMA PaidIs ==
  ASSUME C!ContentConstants, TableInv, NEW r, GoodRecipe(r),
         C!Matched(r, box["grid"].slots)
  PROVE  LET sl == box["grid"].slots
             used == C!Use(r, sl)
         IN  /\ Paid(sl, used) \in Fills("grid") /\ C!Valid(r.result)
             /\ used \subseteq C!Slots("grid")
             /\ C!WorthIn(Paid(sl, used)) + C!WorthOf(r.result) = C!WorthIn(sl)
<1> DEFINE b == box["grid"]
           sl == b.slots
           used == C!Use(r, sl)
           paid == Paid(sl, used)
           f == [k \in C!Slots("grid") |-> C!WorthOf(sl[k])]
           g == [k \in C!Slots("grid") |-> C!WorthOf(paid[k])]
           h == [k \in used |-> Worth[sl[k].item]]
<1>1. "grid" \in C!Boxes /\ b.id \in Int /\ sl \in Fills("grid")
  BY DEF C!ContentConstants, TableInv
<1>2. used \subseteq C!Filled(sl) /\ C!Filled(sl) \subseteq C!Slots("grid")
      /\ \A k \in used : k \in C!Slots("grid") /\ sl[k] # C!Empty
  <2>1. used \subseteq C!Filled(sl)
    BY <1>1, UsedIsThere DEF Fills, GoodRecipe
  <2>2. DOMAIN sl = C!Slots("grid")
    BY <1>1 DEF Fills
  <2> HIDE DEF used, sl
  <2> QED BY <2>1, <2>2 DEF C!Filled
<1>3. C!Valid(r.result) /\ C!SumFunction(h) = C!WorthOf(r.result)
  BY <1>1 DEF GoodRecipe, C!KeepsWorth, Fills
<1>4. ASSUME NEW k \in used
      PROVE  /\ C!Take(b, k, 1).box.slots[k] \in C!Stacks
             /\ C!WorthOf(C!Take(b, k, 1).box.slots[k]) + Worth[sl[k].item] = C!WorthOf(sl[k])
  <2>1. k \in C!Slots("grid") /\ sl[k] # C!Empty
    BY <1>2
  <2> HIDE DEF used, b
  <2>2. /\ C!Take(b, k, 1).box.slots \in Fills("grid")
        /\ C!WorthOf(C!Take(b, k, 1).box.slots[k]) + C!WorthOf(C!Take(b, k, 1).taken) = C!WorthOf(sl[k])
        /\ C!WorthOf(C!Take(b, k, 1).taken) = Worth[sl[k].item]
    BY <1>1, <2>1, 1 \in Nat, TakeIs
  <2> QED BY <2>1, <2>2 DEF Fills
<1>5. \A k \in C!Slots("grid") : paid[k] = IF k \in used THEN C!Take(b, k, 1).box.slots[k] ELSE sl[k]
  BY DEF Paid
<1>6. paid = [k \in C!Slots("grid") |-> paid[k]]
  BY DEF Paid
<1>7. \A k \in C!Slots("grid") : sl[k] \in C!Stacks
  BY <1>1 DEF Fills
<1>8. paid \in Fills("grid")
  <2> HIDE DEF paid, sl, used, b
  <2> QED BY <1>4, <1>5, <1>6, <1>7 DEF Fills
<1>9. C!WorthIn(sl) = Sum(f, C!Slots("grid")) /\ \A k \in C!Slots("grid") : f[k] \in Int
  <2> HIDE DEF sl
  <2> QED BY <1>1, SlotsCounted, WorthCounted DEF Fills
<1>10. C!WorthIn(paid) = Sum(g, C!Slots("grid")) /\ \A k \in C!Slots("grid") : g[k] \in Int
  <2> HIDE DEF paid
  <2> QED BY <1>1, <1>8, SlotsCounted, WorthCounted DEF Fills
<1>11. C!WorthOf(r.result) = Sum(h, used)
  BY <1>3, SumsAre
<1>12. \A k \in used : h[k] \in Int /\ h[k] = Worth[sl[k].item]
  <2>1. \A k \in used : sl[k] \in C!Stacks /\ sl[k] # C!Empty
    BY <1>2, <1>7
  <2> HIDE DEF used, sl
  <2>2. ASSUME NEW k \in used PROVE Worth[sl[k].item] \in Int
    <3>1. sl[k].item \in C!Items
      BY <2>1, StacksValid, ValidIs
    <3> QED BY <3>1 DEF C!ContentConstants
  <2> QED BY <2>2
<1>13. \A k \in C!Slots("grid") : f[k] = C!WorthOf(sl[k]) /\ g[k] = C!WorthOf(paid[k])
  OBVIOUS
<1> HIDE DEF b, sl, used, paid, f, g, h
<1>14. ASSUME NEW k \in used PROVE h[k] \in Int /\ g[k] = f[k] - h[k]
  <2>1. k \in C!Slots("grid")
    BY <1>2
  <2>2. g[k] + h[k] = f[k] /\ f[k] \in Int /\ g[k] \in Int /\ h[k] \in Int
    BY <1>4, <1>5, <1>9, <1>10, <1>12, <1>13, <2>1
  <2> QED BY <2>2
<1>15. \A k \in C!Slots("grid") \ used : g[k] = f[k]
  BY <1>5, <1>13
<1>16. Sum(g, C!Slots("grid")) = Sum(f, C!Slots("grid")) - Sum(h, used)
  <2>1. IsFiniteSet(C!Slots("grid")) /\ used \in SUBSET C!Slots("grid")
    BY <1>1, <1>2, SlotsCounted
  <2> QED BY <1>9, <1>14, <1>15, <2>1, SumLess
<1>17. Sum(g, C!Slots("grid")) \in Int /\ Sum(f, C!Slots("grid")) \in Int /\ Sum(h, used) \in Int
  BY <1>1, <1>3, <1>8, <1>9, <1>10, <1>11, SlotsCounted, WorthCounted, ValidIs DEF Fills
<1>18. C!WorthIn(paid) + C!WorthOf(r.result) = C!WorthIn(sl)
  BY <1>9, <1>10, <1>11, <1>16, <1>17
<1> QED BY <1>2, <1>3, <1>8, <1>18 DEF b, sl, used, paid

\* Each slot that pays counts in the grid's state_id.
LEMMA CraftMoves ==
  ASSUME C!ContentConstants, TableInv, C!CraftOnce
  PROVE  TableInv'
<1> DEFINE b == box["grid"]
           out == box["output"]
           sl == b.slots
           n == C!Matching(sl)
           r == recipes[n]
           used == C!Use(r, sl)
           paid == Paid(sl, used)
           got == C!Insert("output", out, r.result)
           grid == [slots |-> paid, id |-> b.id + C!Cardinality(used)]
<1>0. /\ "grid" \in C!Boxes /\ "output" \in C!Boxes /\ "grid" # "output" /\ DOMAIN box = C!Boxes
      /\ b.id \in Int /\ out.id \in Int /\ sl \in Fills("grid") /\ out.slots \in Fills("output")
  BY DEF C!ContentConstants, TableInv
<1>1. /\ n # 0 /\ UNCHANGED <<cursor, seen, recipes, stream>> /\ got.rest = C!Empty
      /\ box' = [box EXCEPT !["grid"] = grid, !["output"] = got.box]
  BY DEF C!CraftOnce, Paid
<1>2. C!Matched(r, sl) /\ n \in DOMAIN recipes
  <2> HIDE DEF n, sl
  <2>1. C!Matching(sl) \in DOMAIN recipes /\ C!Matched(recipes[C!Matching(sl)], sl)
    BY <1>1, MatchingIs DEF TableInv, n
  <2> QED BY <2>1 DEF n
<1>3. GoodRecipe(r)
  BY <1>2 DEF TableInv
<1> HIDE DEF n, r
<1>4. /\ paid \in Fills("grid") /\ C!Valid(r.result) /\ used \subseteq C!Slots("grid")
      /\ C!WorthIn(paid) + C!WorthOf(r.result) = C!WorthIn(sl)
  BY <1>2, <1>3, PaidIs
<1>5. C!Cardinality(used) \in Nat /\ (C!Cardinality(used) = 0 => paid = sl)
  <2> HIDE DEF used
  <2>1. IsFiniteSet(used)
    BY <1>0, <1>4, SlotsCounted, FS_Subset
  <2>2. C!Cardinality(used) \in Nat /\ (C!Cardinality(used) = 0 => used = {})
    BY <2>1, CountsAgree, FS_CardinalityType, FS_EmptySet
  <2>3. used = {} => paid = sl
    <3> HIDE DEF sl
    <3> QED BY <1>0 DEF Paid, Fills
  <2> QED BY <2>2, <2>3
<1> HIDE DEF used, paid
<1>6. Moves(grid, b) /\ grid.slots = paid
  <2>1. DOMAIN paid = DOMAIN b.slots
    BY <1>0, <1>4 DEF Fills
  <2> HIDE DEF b
  <2> QED BY <1>0, <1>5, <2>1 DEF Moves
<1>7. /\ Moves(got.box, out) /\ got.box.slots \in Fills("output")
      /\ C!WorthIn(got.box.slots) + C!WorthOf(got.rest) = C!WorthIn(out.slots) + C!WorthOf(r.result)
  <2> HIDE DEF out
  <2> QED BY <1>0, <1>4, InsertIs
<1>8. /\ C!WorthIn(sl) \in Int /\ C!WorthIn(out.slots) \in Int /\ C!WorthIn(paid) \in Int
      /\ C!WorthIn(got.box.slots) \in Int /\ C!WorthOf(r.result) \in Int /\ C!WorthOf(got.rest) = 0
  BY <1>0, <1>1, <1>4, <1>7, SlotsCounted, WorthCounted, ValidIs, NoStack DEF Fills
<1>a. b = box["grid"] /\ out = box["output"] /\ sl = b.slots
  OBVIOUS
<1> HIDE DEF grid, got, b, out, sl
<1>9. DOMAIN box' = C!Boxes /\ box'["grid"] = grid /\ box'["output"] = got.box
      /\ \A c \in C!Boxes : c \notin {"grid", "output"} => box'[c] = box[c]
  BY <1>0, <1>1
<1>10. \A c \in C!Boxes : Moves(box'[c], box[c])
  BY <1>6, <1>7, <1>9, <1>a DEF Moves, TableInv
<1>11. \A c \in C!Boxes : box'[c].slots \in Fills(c)
  BY <1>4, <1>6, <1>7, <1>9 DEF TableInv
<1>12. C!WealthKept'
  <2> DEFINE c == "grid"
             e == "output"
  <2>1. c \in C!Boxes /\ e \in C!Boxes /\ c # e /\ UNCHANGED cursor
        /\ \A a \in C!Boxes : a \notin {c, e} => box'[a] = box[a]
    BY <1>0, <1>1, <1>9
  <2>2. box'[c].slots \in Fills(c) /\ box'[e].slots \in Fills(e)
    BY <1>0, <1>11
  <2>3. C!WorthIn(box'[c].slots) + C!WorthIn(box'[e].slots)
          = C!WorthIn(box[c].slots) + C!WorthIn(box[e].slots)
    <3>1. C!WorthIn(paid) + C!WorthIn(got.box.slots) = C!WorthIn(sl) + C!WorthIn(out.slots)
      BY <1>4, <1>7, <1>8
    <3> QED BY <1>6, <1>9, <1>a, <3>1
  <2> HIDE DEF c, e
  <2> QED BY <2>1, <2>2, <2>3, WealthPutTwo
<1>13. cursor' \in [Crafters -> C!Stacks] /\ UNCHANGED <<seen, recipes, stream>>
  BY <1>1 DEF TableInv
<1> QED BY <1>9, <1>10, <1>11, <1>12, <1>13, TableSteps

---------------------------------------------------------------------------
(* Loading, and the rest. *)

LEMMA LoadMoves ==
  ASSUME C!ContentConstants, TableInv, C!Load
  PROVE  TableInv'
<1> DEFINE r == Head(stream)
           u == C!Understood(r)
<1>1. /\ UNCHANGED <<box, cursor, seen>> /\ stream # <<>> /\ stream' = Tail(stream)
      /\ \/ recipes' = recipes
         \/ recipes' = Append(recipes, u) /\ ~C!Skipped(r) /\ C!WellShaped(r)
  BY DEF C!Load
<1>2. PICK R : stream \in Seq(R)
  BY DEF TableInv, Promising, IsSeq
<1>3. 1 \in DOMAIN stream /\ r = stream[1]
  BY <1>1, <1>2
<1>4. /\ C!Record(r)
      /\ C!Valid(r.result) /\ r.result # C!Empty /\ C!WellShaped(r) => C!KeepsWorth(u)
  BY <1>3 DEF TableInv, Promising
<1>5. Promising(stream')
  <2>1. stream' \in Seq(R)
    BY <1>1, <1>2
  <2>2. \A k \in DOMAIN stream' : k + 1 \in DOMAIN stream /\ stream'[k] = stream[k + 1]
    BY <1>1, <1>2
  <2> QED BY <2>1, <2>2 DEF TableInv, Promising, IsSeq
<1>6. recipes' # recipes => GoodRecipe(u)
  <2> HIDE DEF r
  <2> QED BY <1>1, <1>4, UnderstoodIs
<1> HIDE DEF r, u
<1>7. IsSeq(recipes') /\ \A k \in DOMAIN recipes' : GoodRecipe(recipes'[k])
  <2>1. CASE recipes' = recipes
    BY <2>1 DEF TableInv, IsSeq
  <2>2. CASE recipes' # recipes
    <3>1. PICK Q : recipes \in Seq(Q)
      BY DEF TableInv, IsSeq
    <3> DEFINE W == Q \cup {u}
    <3>2. recipes \in Seq(W) /\ u \in W /\ Len(recipes) \in Nat
      BY <3>1
    <3> HIDE DEF W
    <3>3. Append(recipes, u) \in Seq(W)
      BY <3>2
    <3>4. ASSUME NEW k \in DOMAIN Append(recipes, u)
          PROVE  (k \in DOMAIN recipes /\ Append(recipes, u)[k] = recipes[k]) \/ Append(recipes, u)[k] = u
      BY <3>2
    <3>5. recipes' = Append(recipes, u) /\ GoodRecipe(u)
      BY <1>1, <1>6, <2>2
    <3> QED BY <3>3, <3>4, <3>5 DEF TableInv, IsSeq
  <2> QED BY <2>1, <2>2
<1>8. /\ (DOMAIN box = C!Boxes)' /\ (cursor \in [Crafters -> C!Stacks])'
      /\ (\A d \in C!Boxes : box[d].id \in Int /\ box[d].slots \in Fills(d))'
  BY <1>1 DEF TableInv, C!Boxes, C!Slots, C!Stacks, C!Items, Fills
<1>9. (DOMAIN seen = Crafters)'
      /\ (\A q \in Crafters : seen[q].of \in C!Boxes /\ SawOf(seen[q].box, box[seen[q].of]))'
  BY <1>1 DEF TableInv, C!Boxes, SawOf, Moves
<1>10. (IsSeq(recipes))' /\ (\A k \in DOMAIN recipes : GoodRecipe(recipes[k]))'
  BY <1>7 DEF IsSeq
<1>11. (Promising(stream))'
  BY <1>5
<1>12. (C!WealthKept)'
  BY <1>1 DEF TableInv, C!WealthKept
<1> QED BY <1>8, <1>9, <1>10, <1>11, <1>12 DEF TableInv

LEMMA TableInit ==
  ASSUME C!ContentConstants, C!Init
  PROVE  TableInv
<1>1. /\ box = [c \in C!Boxes |-> [slots |-> [k \in C!Slots(c) |-> C!Empty], id |-> 0]]
      /\ seen = [p \in Crafters |-> [of |-> "grid", box |-> box["grid"]]]
      /\ recipes = Known /\ stream \in Streams /\ cursor = Start
  BY DEF C!Init
<1>2. "grid" \in C!Boxes /\ IsSeq(recipes) /\ cursor \in [Crafters -> C!Stacks]
      /\ \A n \in DOMAIN recipes : GoodRecipe(recipes[n])
  BY <1>1 DEF C!ContentConstants, IsSeq, GoodRecipe
<1>3. Promising(stream)
  BY <1>1 DEF C!ContentConstants, Promising, IsSeq
<1>4. \A c \in C!Boxes : box[c].id = 0 /\ box[c].slots = [k \in C!Slots(c) |-> C!Empty]
                         /\ box[c].slots \in Fills(c)
  BY <1>1, NoStack DEF Fills
<1>5. SawOf(box["grid"], box["grid"])
  <2> DEFINE b == box["grid"]
  <2>1. b.id = 0
    BY <1>2, <1>4
  <2> HIDE DEF b
  <2>2. SawOf(b, b)
    BY <2>1 DEF SawOf, Moves
  <2> QED BY <2>2 DEF b
<1>6. C!WealthKept
  <2>1. \A c \in C!Boxes : C!WorthIn(box[c].slots) = 0
    <3>1. ASSUME NEW c \in C!Boxes PROVE C!WorthIn(box[c].slots) = 0
      <4> DEFINE f == [k \in C!Slots(c) |-> C!WorthOf(box[c].slots[k])]
      <4>1. C!WorthIn(box[c].slots) = Sum(f, C!Slots(c)) /\ IsFiniteSet(C!Slots(c))
        BY <1>4, SlotsCounted, WorthCounted DEF Fills
      <4>2. \A k \in C!Slots(c) : f[k] = 0
        BY <1>4, NoStack
      <4> HIDE DEF f
      <4> QED BY <4>1, <4>2, SumZero
    <3> QED BY <3>1
  <2> DEFINE g == BoxWorths(box)
             e == HandWorths(cursor)
  <2>2. C!Wealth(box, cursor) = Sum(g, C!Boxes) + Sum(e, Crafters) /\ Sum(e, Crafters) \in Int
    BY <1>2, <1>4, WealthIs
  <2>3. Sum(g, C!Boxes) = 0
    <3>1. \A c \in C!Boxes : g[c] = 0
      BY <2>1 DEF BoxWorths
    <3>2. IsFiniteSet(C!Boxes)
      BY CountsAgree DEF C!ContentConstants
    <3> HIDE DEF g
    <3> QED BY <3>1, <3>2, SumZero
  <2>4. C!SumFunction([p \in Crafters |-> C!WorthOf(Start[p])]) = Sum(e, Crafters)
    <3>1. e = [p \in Crafters |-> C!WorthOf(Start[p])] /\ DOMAIN e = Crafters
      BY <1>1 DEF HandWorths
    <3> HIDE DEF e
    <3> QED BY <3>1, SumsAre
  <2> HIDE DEF g, e
  <2>5. C!Wealth(box, cursor) = C!SumFunction([p \in Crafters |-> C!WorthOf(Start[p])])
    BY <2>2, <2>3, <2>4
  <2> QED BY <2>5 DEF C!WealthKept
<1>7. DOMAIN box = C!Boxes /\ (\A c \in C!Boxes : box[c].id \in Int) /\ DOMAIN seen = Crafters
      /\ \A p \in Crafters : seen[p].of = "grid" /\ seen[p].box = box["grid"]
  BY <1>1, <1>4
<1> QED BY <1>2, <1>3, <1>4, <1>5, <1>6, <1>7 DEF TableInv

LEMMA TableNext ==
  ASSUME C!ContentConstants, TableInv, [C!Next]_(C!vars)
  PROVE  TableInv'
<1>1. CASE UNCHANGED C!vars
  <2>1. UNCHANGED <<box, cursor, seen, recipes, stream>>
    BY <1>1 DEF C!vars
  <2>2. \A c \in C!Boxes : Moves(box'[c], box[c]) /\ box'[c].slots \in Fills(c)
    BY <2>1 DEF TableInv, Moves
  <2>3. DOMAIN box' = C!Boxes /\ cursor' \in [Crafters -> C!Stacks]
    BY <2>1 DEF TableInv
  <2>4. C!WealthKept'
    BY <2>1 DEF TableInv, C!WealthKept
  <2> QED BY <2>1, <2>2, <2>3, <2>4, TableSteps
<1>2. CASE C!Next
  BY <1>2, LookMoves, ExchangeMoves, InsertMoves, TakeMoves, TransactMoves, CraftMoves, LoadMoves
     DEF C!Next
<1> QED BY <1>1, <1>2

LEMMA TableAlways == C!Spec => [](C!SeenIsCurrent /\ C!WealthKept)
<1>1. C!Init => TableInv
  BY ContentAssumption, TableInit
<1>2. TableInv /\ [C!Next]_(C!vars) => TableInv'
  BY ContentAssumption, TableNext
<1>3. TableInv => C!SeenIsCurrent /\ C!WealthKept
  BY DEF TableInv, C!SeenIsCurrent, SawOf, Moves
<1> QED BY <1>1, <1>2, <1>3, PTL DEF C!Spec

---------------------------------------------------------------------------

\* Nothing is made of nothing and nothing is lost: however a player is hit, dies, picks up,
\* drops, mines, shoots and is given items, those of the slots and of the ground are as many
\* as the operations account for; and however several players insert, take, exchange and
\* craft, what the containers and the hands hold is worth what the hands held at first. For
\* any kit, limits and number of players, containers and recipes.
THEOREM NothingLostCorrect == H!Spec /\ C!Spec => []NothingLost
<1>1. H!ItemsShown /\ H!ItemsKept /\ C!SeenIsCurrent /\ C!WealthKept => NothingLost
  BY DEF NothingLost
<1> QED BY <1>1, ItemsAlways, TableAlways, PTL

=============================================================================

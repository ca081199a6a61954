-------------------------- MODULE AutoscalerProofs --------------------------
(***************************************************************************)
(* Theorems about Autoscaler, for any pool, schedule, floor, step and      *)
(* cooldowns: its types, and that what it stops it may stop.               *)
(***************************************************************************)
EXTENDS Autoscaler, FiniteSetTheorems, FunctionTheorems, TLAPS

\* What the looks of a poll are still good for: a leased unit is one it read as leased or
\* one leased since, and of the units it is about to stop only those have work whose work
\* began meanwhile.
Looked ==
  /\ asPc = "units" => asLeases \subseteq asHeld \cup asUnseen
  /\ asPc = "busy" => asLeases \cap asSeen \subseteq asHeld \cup asUnseen
  /\ asPc = "stop" => asTodo \cap (asJobs \cup asLeases) \subseteq asUnseen

\* The floor is left when all units that are about to be stopped are gone.
FloorLeft ==
  asPc = "stop" /\ asTodo # {} => Cardinality(asSeen) >= AsMin + Cardinality(asTodo)

AsInv == AsTypeOK /\ Looked /\ FloorLeft

-----------------------------------------------------------------------------
\* The units are finitely many, and so are those of any part of them.
LEMMA UnitsFinite ==
  ASSUME NEW S \in SUBSET AsUnit
  PROVE  IsFiniteSet(S) /\ Cardinality(S) \in Nat
<1>1. IsFiniteSet(AsUnit)
  BY FS_Interval, AutoscalerAssumption DEF AsUnit
<1>2. QED
  BY <1>1, FS_Subset, FS_CardinalityType

\* First(n, S) takes n units of S at most: two of them have not the same number of
\* units of S before them.
LEMMA FirstTakes ==
  ASSUME NEW S \in SUBSET AsUnit, NEW n \in Nat
  PROVE  First(n, S) \subseteq S /\ Cardinality(First(n, S)) <= n
<1> DEFINE Before(u) == {v \in S : v < u}
           f == [u \in First(n, S) |-> Cardinality(Before(u))]
<1>0. \A u \in AsUnit : u \in Int
  BY DEF AsUnit
<1>1. First(n, S) \subseteq S
  BY DEF First
<1>2. \A u \in S : Before(u) \in SUBSET AsUnit /\ IsFiniteSet(Before(u)) /\ Cardinality(Before(u)) \in Nat
  BY UnitsFinite
<1>3. f \in [First(n, S) -> 0 .. n - 1]
  <2> SUFFICES ASSUME NEW u \in First(n, S)
               PROVE  Cardinality(Before(u)) \in 0 .. n - 1
    OBVIOUS
  <2>1. u \in S /\ Cardinality(Before(u)) < n
    BY DEF First
  <2>2. Cardinality(Before(u)) \in Nat
    BY <1>2, <2>1
  <2>3. QED
    BY <2>1, <2>2
<1>4. ASSUME NEW u \in First(n, S), NEW w \in First(n, S), u < w
      PROVE  f[u] # f[w]
  <2>1. u \in S /\ w \in S /\ \A v \in S : v \in Int
    BY <1>0, <1>1
  <2>2. Before(u) \subseteq Before(w)
    BY <1>4, <2>1
  <2>3. u \in Before(w) /\ u \notin Before(u)
    BY <1>4, <2>1
  <2>4. IsFiniteSet(Before(w))
    BY <1>2, <2>1
  <2>5. Cardinality(Before(u)) # Cardinality(Before(w))
    BY <2>2, <2>3, <2>4, FS_Subset
  <2>6. QED
    BY <2>5
<1>5. \A u, w \in First(n, S) : u # w => f[u] # f[w]
  <2> TAKE u, w \in First(n, S)
  <2> HAVE u # w
  <2>1. u \in Int /\ w \in Int
    BY <1>0, <1>1
  <2>2. u < w \/ w < u
    BY <2>1
  <2>3. QED
    BY <1>4, <2>2
<1> HIDE DEF f
<1>6. f \in Injection(First(n, S), 0 .. n - 1)
  BY <1>3, <1>5 DEF Injection, IsInjective
<1>7. IsFiniteSet(0 .. n - 1) /\ Cardinality(0 .. n - 1) <= n
  <2>1. 0 \in Int /\ n - 1 \in Int
    OBVIOUS
  <2>2. /\ IsFiniteSet(0 .. n - 1)
        /\ Cardinality(0 .. n - 1) = IF 0 > n - 1 THEN 0 ELSE (n - 1) - 0 + 1
    BY ONLY <2>1, FS_Interval
  <2>3. QED
    BY <2>2
<1>8. Cardinality(First(n, S)) \in Nat /\ Cardinality(0 .. n - 1) \in Nat
  BY <1>1, <1>7, UnitsFinite, FS_CardinalityType
<1>9. Cardinality(First(n, S)) <= Cardinality(0 .. n - 1)
  BY <1>6, <1>7, FS_Injection
<1>10. QED
  BY <1>1, <1>7, <1>8, <1>9

\* No unit is among the first none.
LEMMA FirstNone ==
  ASSUME NEW S \in SUBSET AsUnit
  PROVE  First(0, S) = {}
<1>1. \A u \in S : Cardinality({v \in S : v < u}) \in Nat
  BY UnitsFinite
<1>2. QED
  BY <1>1 DEF First

\* The pool's target is a number and the floor at least.
LEMMA DesiredIsFloored ==
  ASSUME AsTypeOK
  PROVE  Desired \in Nat /\ Desired >= AsMin
BY AutoscalerAssumption DEF AsTypeOK, Desired, AsLower

\* As many units are stopped as leave the floor.
LEMMA ExcessLeavesFloor ==
  ASSUME AsTypeOK, NEW idle
  PROVE  /\ Excess(idle) \in Nat
         /\ Excess(idle) > 0 => Cardinality(asSeen) >= AsMin + Excess(idle)
<1>1. Cardinality(asSeen) \in Nat
  BY UnitsFinite DEF AsTypeOK
<1>2. AsMin \in Nat /\ AsStep \in Nat
  BY AutoscalerAssumption
<1>3. QED
  BY <1>1, <1>2, DesiredIsFloored DEF Excess, AsLower

\* A shortage is a number of units, and there is none where there is an excess.
LEMMA ShortageIsNat ==
  ASSUME AsTypeOK, NEW idle
  PROVE  /\ Shortage(idle) \in Nat
         /\ Excess(idle) > 0 => Shortage(idle) = 0
<1>1. Cardinality(asSeen) \in Nat
  BY UnitsFinite DEF AsTypeOK
<1>2. AsStep \in Nat
  BY AutoscalerAssumption
<1>3. Excess(idle) \in Nat
  BY ExcessLeavesFloor
<1>4. QED
  BY <1>1, <1>2, <1>3, DesiredIsFloored DEF Shortage, AsLower

\* What a decision is about to do: stops are of idle units, as many as leave the floor,
\* and it does not start any unless it stops none.
LEMMA Decision ==
  ASSUME AsTypeOK, NEW busy
  PROVE  LET idle == Idle(busy) IN
         /\ idle \subseteq asSeen
         /\ ToStop(idle) \subseteq idle
         /\ ToStart(idle) \subseteq AsUnit
         /\ Excess(idle) > 0 => ToStart(idle) = {}
         /\ ~(Excess(idle) > 0) => ToStop(idle) = {}
         /\ ToStop(idle) # {} => Cardinality(asSeen) >= AsMin + Cardinality(ToStop(idle))
<1> DEFINE idle == Idle(busy)
<1>1. idle \subseteq asSeen /\ idle \in SUBSET AsUnit /\ AsUnit \ asSeen \in SUBSET AsUnit
  BY DEF Idle, AsTypeOK
<1> HIDE DEF idle
<1>2. /\ Excess(idle) \in Nat
      /\ Excess(idle) > 0 => Cardinality(asSeen) >= AsMin + Excess(idle)
  BY ExcessLeavesFloor
<1>3. Shortage(idle) \in Nat /\ (Excess(idle) > 0 => Shortage(idle) = 0)
  BY ShortageIsNat
<1>4. First(Excess(idle), idle) \subseteq idle /\ Cardinality(First(Excess(idle), idle)) <= Excess(idle)
  BY <1>1, <1>2, FirstTakes
<1>5. ToStop(idle) \subseteq idle
  BY <1>4 DEF ToStop
<1>6. ToStart(idle) \subseteq AsUnit
  BY <1>1, <1>3, FirstTakes DEF ToStart
<1>7. Excess(idle) > 0 => ToStart(idle) = {}
  BY <1>1, <1>3, FirstNone DEF ToStart
<1>8. ~(Excess(idle) > 0) => ToStop(idle) = {}
  <2>1. Excess(idle) = 0 => First(Excess(idle), idle) = {}
    BY <1>1, FirstNone
  <2>2. QED
    BY <1>2, <2>1 DEF ToStop
<1>9. ToStop(idle) # {} => Cardinality(asSeen) >= AsMin + Cardinality(ToStop(idle))
  <2> HAVE ToStop(idle) # {}
  <2>1. ToStop(idle) = First(Excess(idle), idle)
    BY DEF ToStop
  <2>2. Excess(idle) > 0
    BY <1>8
  <2>3. Cardinality(ToStop(idle)) \in Nat /\ Cardinality(asSeen) \in Nat
    BY <1>1, <1>5, UnitsFinite DEF AsTypeOK
  <2>4. QED
    BY <1>2, <1>4, <2>1, <2>2, <2>3, AutoscalerAssumption
<1>10. QED
  BY <1>1, <1>5, <1>6, <1>7, <1>8, <1>9 DEF idle

-----------------------------------------------------------------------------
\* Of the smaller of two numbers: it is one of them.
LEMMA LowerIsNat ==
  ASSUME NEW m \in Nat, NEW n \in Nat
  PROVE  AsLower(m, n) \in 0 .. n
BY DEF AsLower

\* A sleep keeps the types, whatever poll it ends.
LEMMA SleepTyped ==
  ASSUME AsTypeOK, NEW n \in 0 .. AsHistory, Sleep(n)
  PROVE  AsTypeOK'
<1>1. /\ AsHistory \in Nat /\ AsSpacing \in Nat /\ 2 * AsCooldown \in Nat
      /\ asOverAge \in Nat /\ asStopAge \in Nat
  BY AutoscalerAssumption DEF AsTypeOK
<1>2. asOverAge' \in 0 .. 2 * AsCooldown /\ asStopAge' \in 0 .. AsSpacing
  BY <1>1, LowerIsNat DEF Sleep
<1>3. QED
  BY <1>1, <1>2 DEF AsTypeOK, Sleep, asWorld, AtRisk

\* The types of what surrounds the loop's memory, and of its memory.
WorldTyped ==
  /\ asState \in [AsUnit -> {"up", "draining", "cycling", "down"}]
  /\ asJobs \subseteq {u \in AsUnit : asState[u] # "down"}
  /\ {u \in AsUnit : asState[u] \in {"draining", "cycling"}} \subseteq asJobs
  /\ asLeases \subseteq AsLeasable
  /\ asLoad \in {"high", "between", "low"} /\ asWanted \in AsSchedule

MindTyped ==
  /\ asPc \in {"sleep", "units", "busy", "stop", "start"}
  /\ asHeld \subseteq AsUnit /\ asSeen \subseteq AsUnit
  /\ asTodo \subseteq (IF asPc = "stop" THEN asSeen ELSE AsUnit)
  /\ asSamples \in 0 .. AsHistory
  /\ asOverAge \in 0 .. 2 * AsCooldown /\ asStopAge \in 0 .. AsSpacing

\* The types are those of the world, of the loop's mind, and of the history.
LEMMA TypedParts == AsTypeOK <=> WorldTyped /\ MindTyped /\ asUnseen \subseteq AtRisk
BY DEF AsTypeOK, WorldTyped, MindTyped

\* What the loop does for itself keeps the types.
LEMMA LoopTyped ==
  ASSUME AsTypeOK,
         \/ Sample \/ ReadUnits \/ Rest \/ Abandon \/ Restart
         \/ \E held \in {asLeases, {}} : ReadLeases(held)
         \/ \E busy \in SUBSET asSeen : Decide(busy)
  PROVE  AsTypeOK'
<1>1. /\ AsHistory \in Nat /\ AsSpacing \in Nat /\ 2 * AsCooldown \in Nat
      /\ AsLeasable \subseteq AsUnit /\ asSamples \in 0 .. AsHistory
  BY AutoscalerAssumption DEF AsTypeOK
<1>2. CASE Sample
  <2>1. asSamples + 1 \in 0 .. AsHistory
    BY <1>1, <1>2 DEF Sample
  <2>2. QED
    BY <1>2, <2>1, SleepTyped DEF Sample
<1>3. CASE Rest
  BY <1>1, <1>3, SleepTyped DEF Rest
<1>4. CASE Abandon
  <2>1. asSamples + 1 \in Nat
    BY <1>1
  <2>2. AsLower(asSamples + 1, AsHistory) \in 0 .. AsHistory
    BY <1>1, <2>1, LowerIsNat
  <2>3. QED
    BY <1>1, <1>4, <2>2, SleepTyped DEF Abandon
<1>5. CASE Restart
  BY <1>1, <1>5 DEF Restart, AsTypeOK, asWorld, AtRisk
<1>6. CASE \E held \in {asLeases, {}} : ReadLeases(held)
  <2>1. asUnseen' \subseteq AtRisk' /\ asHeld' \subseteq AsUnit
    BY <1>1, <1>6 DEF ReadLeases, AtRisk, AsTypeOK
  <2>2. WorldTyped'
    BY <1>6, TypedParts DEF WorldTyped, ReadLeases, asWorld
  <2>3. MindTyped'
    BY <1>1, <1>6, <2>1 DEF MindTyped, AsTypeOK, ReadLeases
  <2>4. QED
    BY <2>1, <2>2, <2>3, TypedParts DEF AsTypeOK, WorldTyped, MindTyped
<1>7. CASE ReadUnits
  <2>1. asUnseen' \subseteq AtRisk' /\ asSeen' \subseteq AsUnit
    BY <1>7 DEF ReadUnits, AtRisk, Up
  <2>2. QED
    BY <1>7, <2>1 DEF ReadUnits, AsTypeOK, asWorld, asClocks
<1>8. ASSUME NEW busy \in SUBSET asSeen, Decide(busy)
      PROVE  AsTypeOK'
  <2> DEFINE idle == Idle(busy)
  <2>1. /\ idle \subseteq asSeen /\ ToStop(idle) \subseteq idle
        /\ ToStart(idle) \subseteq AsUnit
        /\ Excess(idle) > 0 => ToStart(idle) = {}
        /\ ~(Excess(idle) > 0) => ToStop(idle) = {}
    BY Decision
  <2> HIDE DEF idle
  <2>2. /\ asOverAge' = IF Overloaded THEN 0 ELSE asOverAge
        /\ asTodo' = ToStop(idle) \cup ToStart(idle)
        /\ asPc' = IF Excess(idle) > 0 THEN "stop" ELSE "start"
        /\ asStopAge' = IF ToStop(idle) # {} THEN 0 ELSE asStopAge
        /\ asHeld' = {}
        /\ asSeen' = IF ToStop(idle) # {} THEN asSeen ELSE {}
        /\ asUnseen' = asUnseen \cap ToStop(idle)
        /\ UNCHANGED <<asWorld, asSamples>>
    BY <1>8 DEF Decide, idle
  <2>3. asUnseen' \subseteq AtRisk'
    BY <2>1, <2>2 DEF AtRisk
  <2>4. asTodo' \subseteq (IF asPc' = "stop" THEN asSeen' ELSE AsUnit)
    BY <2>1, <2>2 DEF AsTypeOK
  <2>5. asOverAge' \in 0 .. 2 * AsCooldown /\ asStopAge' \in 0 .. AsSpacing
    BY <1>1, <2>2 DEF AsTypeOK
  <2>6. asSeen' \subseteq AsUnit /\ asPc' \in {"stop", "start"}
    BY <2>2 DEF AsTypeOK
  <2>7. QED
    BY <2>2, <2>3, <2>4, <2>5, <2>6 DEF AsTypeOK, asWorld
<1>9. QED
  BY <1>2, <1>3, <1>4, <1>5, <1>6, <1>7, <1>8

\* systemctl leaves the states of units states of units: one drains for a job only, and
\* one that has a job is not down.
LEMMA UnitsTyped ==
  ASSUME WorldTyped, NEW u \in AsUnit, UNCHANGED <<asJobs, asLeases, asLoad, asWanted>>,
         \/ asState' = [asState EXCEPT ![u] = Stopped(u)]
         \/ asState' = [asState EXCEPT ![u] = Started(u)]
         \/ UNCHANGED asState
  PROVE  WorldTyped'
<1>1. CASE asState' = [asState EXCEPT ![u] = Stopped(u)]
  BY <1>1 DEF WorldTyped, Stopped
<1>2. CASE asState' = [asState EXCEPT ![u] = Started(u)]
  BY <1>2 DEF WorldTyped, Started
<1>3. CASE UNCHANGED asState
  BY <1>3 DEF WorldTyped
<1>4. QED
  BY <1>1, <1>2, <1>3

\* A call keeps the types, done, refused or failed.
LEMMA CallTyped ==
  ASSUME AsTypeOK, NEW u \in AsUnit, Stop(u) \/ StopRefused(u) \/ StartUnit(u) \/ CallFails(u)
  PROVE  AsTypeOK'
<1>1. PICK pc \in {"stop", "start"} : Call(pc, u)
  BY DEF Stop, StopRefused, StartUnit, CallFails
<1>2. /\ \/ asSeen' = asSeen
         \/ pc = "stop" /\ asSeen' = asSeen \ {u}
      /\ \/ asState' = [asState EXCEPT ![u] = Stopped(u)]
         \/ asState' = [asState EXCEPT ![u] = Started(u)]
         \/ UNCHANGED asState
  BY <1>1 DEF Stop, StopRefused, StartUnit, CallFails, Call
<1>3. WorldTyped'
  BY <1>1, <1>2, TypedParts, UnitsTyped DEF Call
<1>4. MindTyped'
  BY <1>1, <1>2, TypedParts DEF MindTyped, Call, asClocks
<1>5. asUnseen' \subseteq AtRisk'
  BY <1>1, <1>2 DEF AsTypeOK, Call, AtRisk
<1>6. QED
  BY <1>3, <1>4, <1>5 DEF AsTypeOK, WorldTyped, MindTyped

\* What happens around the loop keeps the types.
LEMMA WorldStepTyped ==
  ASSUME AsTypeOK,
         \/ Change
         \/ \E u \in AsUnit : \/ JobBegins(u) \/ JobEnds(u) \/ LeaseTaken(u) \/ LeaseOver(u)
                              \/ UnitFalls(u) \/ OperatorStops(u) \/ OperatorStarts(u)
  PROVE  AsTypeOK'
<1>1. AsTypeOK <=> WorldTyped /\ MindTyped /\ asUnseen \subseteq AtRisk
  BY TypedParts
<1>2. UNCHANGED asMind
  BY DEF Change, JobBegins, JobEnds, LeaseTaken, LeaseOver, UnitFalls, OperatorStops, OperatorStarts
<1>3. MindTyped' /\ AtRisk' = AtRisk
  BY <1>1, <1>2 DEF MindTyped, AtRisk, asMind, asClocks
<1>4. asUnseen' \subseteq AtRisk
  BY <1>1 DEF Change, JobBegins, JobEnds, LeaseTaken, LeaseOver, UnitFalls, OperatorStops,
              OperatorStarts, Begins
<1>5. WorldTyped'
  <2>1. CASE Change
    BY <1>1, <2>1 DEF Change, WorldTyped
  <2> SUFFICES ASSUME NEW u \in AsUnit,
                      \/ JobBegins(u) \/ JobEnds(u) \/ LeaseTaken(u) \/ LeaseOver(u)
                      \/ UnitFalls(u) \/ OperatorStops(u) \/ OperatorStarts(u)
               PROVE  WorldTyped'
    BY <2>1
  <2>2. CASE JobBegins(u)
    BY <1>1, <2>2 DEF JobBegins, WorldTyped
  <2>3. CASE JobEnds(u)
    BY <1>1, <2>3 DEF JobEnds, WorldTyped
  <2>4. CASE LeaseTaken(u)
    BY <1>1, <2>4 DEF LeaseTaken, WorldTyped
  <2>5. CASE LeaseOver(u)
    BY <1>1, <2>5 DEF LeaseOver, WorldTyped
  <2>6. CASE UnitFalls(u)
    BY <1>1, <2>6 DEF UnitFalls, WorldTyped
  <2>7. CASE OperatorStops(u)
    BY <1>1, <2>7, UnitsTyped DEF OperatorStops
  <2>8. CASE OperatorStarts(u)
    BY <1>1, <2>8, UnitsTyped DEF OperatorStarts
  <2>9. QED
    BY <2>2, <2>3, <2>4, <2>5, <2>6, <2>7, <2>8
<1>6. QED
  BY <1>3, <1>4, <1>5 DEF AsTypeOK, WorldTyped, MindTyped

\* The pool and the loop start well formed.
LEMMA TypedAtFirst == AsInit => AsTypeOK
<1> SUFFICES ASSUME AsInit PROVE AsTypeOK
  OBVIOUS
<1>1. AsHistory \in Nat /\ AsSpacing \in Nat /\ 2 * AsCooldown \in Nat
  BY AutoscalerAssumption
<1>2. QED
  BY <1>1 DEF AsInit, AsTypeOK, AtRisk

\* Every step keeps the types.
LEMMA TypedStep == AsTypeOK /\ [AsNext]_asVars => AsTypeOK'
<1> SUFFICES ASSUME AsTypeOK, [AsNext]_asVars
             PROVE  AsTypeOK'
  OBVIOUS
<1>1. CASE Loop
  <2>1. /\ ReadLeases(asLeases) => \E held \in {asLeases, {}} : ReadLeases(held)
        /\ Decide(asJobs \cap asSeen) => \E busy \in SUBSET asSeen : Decide(busy)
    OBVIOUS
  <2>2. QED
    BY <1>1, <2>1, LoopTyped, CallTyped DEF Loop
<1>2. CASE Around
  <2>1. /\ Unread => \E held \in {asLeases, {}} : ReadLeases(held)
        /\ Cautious => \E busy \in SUBSET asSeen : Decide(busy)
    BY DEF Unread, Cautious
  <2>2. QED
    BY <1>2, <2>1, LoopTyped, CallTyped, WorldStepTyped DEF Around
<1>3. CASE UNCHANGED asVars
  BY <1>3 DEF asVars, asWorld, asMind, asClocks, AsTypeOK, AtRisk
<1>4. QED
  BY <1>1, <1>2, <1>3 DEF AsNext

\* Units, their work and what the loop knows keep their shape, for any pool.
THEOREM TypeCorrect == AsSpec => []AsTypeOK
BY TypedAtFirst, TypedStep, PTL DEF AsSpec

-----------------------------------------------------------------------------
\* What it has looked at stays good while others go on: whoever gets work meanwhile is
\* noted, if it is at risk.
LEMMA LookedStep ==
  ASSUME AsTypeOK, Looked, [AsNext]_asVars
  PROVE  Looked'
<1>1. CASE Sample \/ Rest \/ Abandon \/ Restart
  BY <1>1 DEF Looked, Sample, Rest, Abandon, Restart, Sleep
<1>2. ASSUME NEW held, ReadLeases(held)
      PROVE  Looked'
  BY <1>2 DEF Looked, ReadLeases, asWorld
<1>3. CASE ReadUnits
  BY <1>3 DEF Looked, ReadUnits, asWorld
<1>4. ASSUME NEW busy, asJobs \cap asSeen \subseteq busy, Decide(busy)
      PROVE  Looked'
  <2> DEFINE idle == Idle(busy)
  <2>1. /\ idle \subseteq asSeen /\ ToStop(idle) \subseteq idle
        /\ Excess(idle) > 0 => ToStart(idle) = {}
    BY Decision
  <2>2. idle \cap asJobs = {} /\ idle \cap asLeases \subseteq asUnseen
    BY <1>4 DEF Idle, Looked, Decide
  <2> HIDE DEF idle
  <2>3. /\ asTodo' = ToStop(idle) \cup ToStart(idle)
        /\ asPc' = IF Excess(idle) > 0 THEN "stop" ELSE "start"
        /\ asUnseen' = asUnseen \cap ToStop(idle)
        /\ asJobs' = asJobs /\ asLeases' = asLeases
    BY <1>4 DEF Decide, idle, asWorld
  <2>4. QED
    BY <2>1, <2>2, <2>3 DEF Looked
<1>5. ASSUME NEW u \in AsUnit, Stop(u) \/ StopRefused(u) \/ StartUnit(u) \/ CallFails(u)
      PROVE  Looked'
  BY <1>5 DEF Looked, Stop, StopRefused, StartUnit, CallFails, Call
<1>6. CASE Change
  BY <1>6 DEF Looked, Change, asMind
<1>7. ASSUME NEW u \in AsUnit, JobBegins(u) \/ LeaseTaken(u)
      PROVE  Looked'
  <2>1. /\ asJobs' \cup asLeases' \subseteq asJobs \cup asLeases \cup {u}
        /\ asLeases' \subseteq asLeases \cup {u}
        /\ asUnseen' = asUnseen \cup ({u} \cap AtRisk)
        /\ UNCHANGED <<asPc, asHeld, asSeen, asTodo>>
    BY <1>7 DEF JobBegins, LeaseTaken, Begins, asMind
  <2>2. QED
    BY <2>1 DEF Looked, AtRisk
<1>8. ASSUME NEW u \in AsUnit,
              JobEnds(u) \/ LeaseOver(u) \/ UnitFalls(u) \/ OperatorStops(u) \/ OperatorStarts(u)
       PROVE  Looked'
  <2>1. /\ asJobs' \subseteq asJobs /\ asLeases' \subseteq asLeases
        /\ UNCHANGED <<asPc, asHeld, asSeen, asTodo, asUnseen>>
    BY <1>8 DEF JobEnds, LeaseOver, UnitFalls, OperatorStops, OperatorStarts, asMind
  <2>2. QED
    BY <2>1 DEF Looked
<1>9. CASE UNCHANGED asVars
  BY <1>9 DEF Looked, asVars, asWorld, asMind
<1>10. QED
  BY <1>1, <1>2, <1>3, <1>4, <1>5, <1>6, <1>7, <1>8, <1>9
     DEF AsNext, Loop, Around, Unread, Cautious

\* Only the loop itself changes what is left of the pool as it knows it: each stop takes
\* one unit from what it has seen, and one from what it is about to do.
LEMMA FloorStep ==
  ASSUME AsTypeOK, FloorLeft, [AsNext]_asVars
  PROVE  FloorLeft'
<1>1. CASE asPc' # "stop"
  BY <1>1 DEF FloorLeft
<1>2. ASSUME NEW busy, Decide(busy)
      PROVE  FloorLeft'
  <2> DEFINE idle == Idle(busy)
  <2>1. /\ Excess(idle) > 0 => ToStart(idle) = {}
        /\ ToStop(idle) # {} => Cardinality(asSeen) >= AsMin + Cardinality(ToStop(idle))
    BY Decision
  <2> HIDE DEF idle
  <2>2. /\ asTodo' = ToStop(idle) \cup ToStart(idle)
        /\ asPc' = IF Excess(idle) > 0 THEN "stop" ELSE "start"
        /\ asSeen' = IF ToStop(idle) # {} THEN asSeen ELSE {}
    BY <1>2 DEF Decide, idle
  <2>3. QED
    BY <2>1, <2>2 DEF FloorLeft
<1>3. ASSUME NEW u \in AsUnit, asPc = "stop",
             Stop(u) \/ StopRefused(u) \/ StartUnit(u) \/ CallFails(u)
      PROVE  FloorLeft'
  <2>1. /\ u \in asTodo /\ asTodo' = asTodo \ {u} /\ asPc' = asPc
        /\ asSeen' = asSeen \/ asSeen' = asSeen \ {u}
    BY <1>3 DEF Stop, StopRefused, StartUnit, CallFails, Call
  <2>2. /\ asTodo \in SUBSET AsUnit /\ asSeen \in SUBSET AsUnit /\ u \in asSeen
    BY <1>3, <2>1 DEF AsTypeOK
  <2>3. /\ Cardinality(asTodo') = Cardinality(asTodo) - 1
        /\ Cardinality(asSeen \ {u}) = Cardinality(asSeen) - 1
        /\ Cardinality(asTodo) \in Nat /\ Cardinality(asSeen) \in Nat
    BY <2>1, <2>2, UnitsFinite, FS_RemoveElement
  <2>4. Cardinality(asSeen) >= AsMin + Cardinality(asTodo)
    BY <1>3, <2>1 DEF FloorLeft
  <2>5. Cardinality(asSeen') = Cardinality(asSeen) \/ Cardinality(asSeen') = Cardinality(asSeen) - 1
    BY <2>1, <2>3
  <2>6. AsMin \in Nat
    BY AutoscalerAssumption
  <2>7. Cardinality(asSeen') >= AsMin + Cardinality(asTodo')
    BY <2>3, <2>4, <2>5, <2>6
  <2>8. QED
    BY <2>7 DEF FloorLeft
<1>4. CASE UNCHANGED <<asPc, asSeen, asTodo>>
  BY <1>4 DEF FloorLeft
<1>5. CASE Sample \/ Rest \/ Abandon \/ Restart \/ ReadUnits
  BY <1>1, <1>5 DEF Sample, Rest, Abandon, Restart, ReadUnits, Sleep
<1>6. ASSUME NEW held, ReadLeases(held)
      PROVE  FloorLeft'
  BY <1>1, <1>6 DEF ReadLeases
<1>7. ASSUME NEW u \in AsUnit, asPc # "stop",
             Stop(u) \/ StopRefused(u) \/ StartUnit(u) \/ CallFails(u)
      PROVE  FloorLeft'
  BY <1>1, <1>7 DEF Stop, StopRefused, StartUnit, CallFails, Call
<1>8. ASSUME \/ Change
             \/ \E u \in AsUnit : \/ JobBegins(u) \/ JobEnds(u) \/ LeaseTaken(u) \/ LeaseOver(u)
                                  \/ UnitFalls(u) \/ OperatorStops(u) \/ OperatorStarts(u)
      PROVE  FloorLeft'
  BY <1>4, <1>8 DEF Change, JobBegins, JobEnds, LeaseTaken, LeaseOver, UnitFalls,
                    OperatorStops, OperatorStarts, asMind
<1>9. CASE UNCHANGED asVars
  BY <1>4, <1>9 DEF asVars, asMind
<1>10. QED
  BY <1>2, <1>3, <1>5, <1>6, <1>7, <1>8, <1>9 DEF AsNext, Loop, Around, Unread, Cautious

\* The looks stay good and the floor is left, at any moment of any poll.
THEOREM LooksHold == AsSpec => []AsInv
<1>1. AsInit => AsInv
  BY TypedAtFirst DEF AsInit, AsInv, Looked, FloorLeft
<1>2. AsInv /\ [AsNext]_asVars => AsInv'
  BY TypedStep, LookedStep, FloorStep DEF AsInv
<1>3. QED
  BY <1>1, <1>2, PTL DEF AsSpec

\* A unit that the autoscaler stops has no job and no lease that this poll could have seen,
\* and leaves the floor of those it saw.
LEMMA SafeStop ==
  ASSUME AsInv, NEW u \in AsUnit, Stop(u)
  PROVE  /\ u \notin (asJobs \cup asLeases) \ asUnseen
         /\ Cardinality(Up') >= AsMin \/ ~(asSeen' \subseteq Up')
<1>1. asPc = "stop" /\ u \in asTodo /\ asSeen' = asSeen \ {u}
  BY DEF Stop, Call
<1>2. u \notin (asJobs \cup asLeases) \ asUnseen
  BY <1>1 DEF AsInv, Looked
<1>3. ASSUME asSeen' \subseteq Up'
      PROVE  Cardinality(Up') >= AsMin
  <2>1. asTodo \in SUBSET AsUnit /\ asSeen \in SUBSET AsUnit /\ u \in asSeen
    BY <1>1 DEF AsInv, AsTypeOK
  <2>2. /\ Cardinality(asTodo) \in Nat /\ Cardinality(asTodo) # 0
        /\ Cardinality(asSeen) \in Nat /\ Cardinality(asSeen') = Cardinality(asSeen) - 1
    BY <1>1, <2>1, UnitsFinite, FS_RemoveElement, FS_EmptySet
  <2>3. Cardinality(asSeen) >= AsMin + Cardinality(asTodo)
    BY <1>1 DEF AsInv, FloorLeft
  <2>4. Up' \in SUBSET AsUnit
    BY DEF Up
  <2>5. Cardinality(asSeen') <= Cardinality(Up') /\ Cardinality(Up') \in Nat
    BY <1>3, <2>4, UnitsFinite, FS_Subset
  <2>6. QED
    BY <2>2, <2>3, <2>5, AutoscalerAssumption
<1>4. QED
  BY <1>2, <1>3

\* However jobs, leases, units, operators and failures come between its looks and its
\* calls, the autoscaler stops what it may stop, and leaves the floor.
THEOREM StopsStaySafe == AsSpec => StopsAreSafe
<1>1. AsInv /\ [AsNext]_asVars =>
        [\A u \in AsUnit : Stop(u) =>
           /\ u \notin (asJobs \cup asLeases) \ asUnseen
           /\ Cardinality(Up') >= AsMin \/ ~(asSeen' \subseteq Up')]_asVars
  BY SafeStop
<1>2. QED
  BY <1>1, LooksHold, PTL DEF AsSpec, StopsAreSafe
=============================================================================

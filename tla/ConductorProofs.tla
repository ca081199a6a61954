-------------------------- MODULE ConductorProofs --------------------------
(***************************************************************************)
(* Theorems about Conductor, for any callers, requests, fleet and TTL.     *)
(***************************************************************************)
EXTENDS Conductor, FiniteSetTheorems, TLAPS

\* A table of leases: what _state.leases may be.
Table(L) == DOMAIN L \subseteq LeaseId /\ L \in [DOMAIN L -> Lease]

-----------------------------------------------------------------------------
\* The slots of a table are finitely many, so reserved_slots is a number.
LEMMA ReservedIsNat ==
  ASSUME NEW L, Table(L)
  PROVE  IsFiniteSet(SlotsOf(L)) /\ Reserved(L) \in Nat
<1>1. IsFiniteSet(1 .. Total)
  BY ConductorAssumption, FS_Interval
<1>2. IsFiniteSet(LeaseId \X (1 .. Total))
  BY <1>1, ConductorAssumption, FS_Product
<1>3. SlotsOf(L) \subseteq LeaseId \X (1 .. Total)
  <2> SUFFICES ASSUME NEW id \in DOMAIN L, NEW x \in {id} \X (1 .. L[id].slots)
               PROVE  x \in LeaseId \X (1 .. Total)
    BY DEF SlotsOf
  <2>1. L[id] \in Lease /\ id \in LeaseId
    BY DEF Table
  <2>2. L[id].slots \in 1 .. Total
    BY <2>1 DEF Lease
  <2>3. 1 .. L[id].slots \subseteq 1 .. Total
    BY <2>2, ConductorAssumption
  <2>4. QED
    BY <2>1, <2>3
<1>4. QED
  BY <1>2, <1>3, FS_Subset, FS_CardinalityType DEF Reserved

\* Dropping leases, and changing anything but their slots, reserves no more.
LEMMA FewerLeases ==
  ASSUME NEW L, Table(L), NEW M, Table(M), DOMAIN M \subseteq DOMAIN L,
         \A id \in DOMAIN M : M[id].slots = L[id].slots
  PROVE  Reserved(M) <= Reserved(L)
<1>1. SlotsOf(M) \subseteq SlotsOf(L)
  <2> SUFFICES ASSUME NEW id \in DOMAIN M, NEW x \in {id} \X (1 .. M[id].slots)
               PROVE  x \in SlotsOf(L)
    BY DEF SlotsOf
  <2>1. x \in {id} \X (1 .. L[id].slots) /\ id \in DOMAIN L
    OBVIOUS
  <2>2. QED
    BY <2>1 DEF SlotsOf
<1>2. QED
  BY <1>1, ReservedIsNat, FS_Subset DEF Reserved

\* A new lease adds its slots and no more.
LEMMA OneMoreLease ==
  ASSUME NEW L, Table(L), NEW M, NEW id, id \notin DOMAIN L,
         DOMAIN M = DOMAIN L \cup {id}, \A k \in DOMAIN L : M[k] = L[k],
         NEW n \in Nat \ {0}, M[id].slots = n
  PROVE  Reserved(M) <= Reserved(L) + n
<1> DEFINE N == {id} \X (1 .. n)
<1>1. SlotsOf(M) = SlotsOf(L) \cup N
  <2>1. SlotsOf(M) \subseteq SlotsOf(L) \cup N
    <3> SUFFICES ASSUME NEW k \in DOMAIN M, NEW x \in {k} \X (1 .. M[k].slots)
                 PROVE  x \in SlotsOf(L) \cup N
      BY DEF SlotsOf
    <3>1. CASE k = id
      BY <3>1
    <3>2. CASE k \in DOMAIN L
      <4>1. x \in {k} \X (1 .. L[k].slots)
        BY <3>2
      <4>2. QED
        BY <3>2, <4>1 DEF SlotsOf
    <3>3. QED
      BY <3>1, <3>2
  <2>2. N \subseteq SlotsOf(M)
    BY DEF SlotsOf
  <2>3. SlotsOf(L) \subseteq SlotsOf(M)
    <3> SUFFICES ASSUME NEW k \in DOMAIN L, NEW x \in {k} \X (1 .. L[k].slots)
                 PROVE  x \in SlotsOf(M)
      BY DEF SlotsOf
    <3>1. x \in {k} \X (1 .. M[k].slots) /\ k \in DOMAIN M
      OBVIOUS
    <3>2. QED
      BY <3>1 DEF SlotsOf
  <2>4. QED
    BY <2>1, <2>2, <2>3
<1>2. IsFiniteSet({id}) /\ Cardinality({id}) = 1
  BY FS_Singleton
<1>3. IsFiniteSet(1 .. n) /\ Cardinality(1 .. n) = n
  BY FS_Interval
<1>4. IsFiniteSet(N) /\ Cardinality(N) = n
  BY <1>2, <1>3, FS_Product
<1>5. IsFiniteSet(SlotsOf(L)) /\ Cardinality(SlotsOf(L)) \in Nat
  BY ReservedIsNat DEF Reserved
<1> HIDE DEF N
<1>6. Cardinality(SlotsOf(L) \cap N) \in Nat
  BY <1>4, FS_Subset, FS_CardinalityType
<1>7. QED
  BY <1>1, <1>4, <1>5, <1>6, FS_Union DEF Reserved

\* Reaping keeps a table a table, and reserves no more.
LEMMA Reaping ==
  ASSUME NEW L, Table(L)
  PROVE  Table(Reaped(L)) /\ Reserved(Reaped(L)) <= Reserved(L)
<1>1. /\ Table(Reaped(L)) /\ DOMAIN Reaped(L) \subseteq DOMAIN L
      /\ \A id \in DOMAIN Reaped(L) : Reaped(L)[id].slots = L[id].slots
  BY DEF Table, Reaped, Restrict
<1>2. QED
  BY <1>1, FewerLeases

\* No lease, no slot.
LEMMA NoLeases ==
  ASSUME NEW L, DOMAIN L = {}
  PROVE  Reserved(L) = 0
<1>1. SlotsOf(L) = {}
  BY DEF SlotsOf
<1>2. QED
  BY <1>1, FS_EmptySet DEF Reserved

-----------------------------------------------------------------------------
\* What the critical section does to the leases, for each way it can go: with a
\* capacity within the fleet they stay a table within the bound.
Bounded(L) ==
  Table(L) /\ (Reserved(L) > 0 => \E r \in LeaseRequest : Reserved(L) + r.reserve <= Total)

\* A smaller reservation is within the bound if a larger one is.
LEMMA BoundedDown ==
  ASSUME NEW L, Bounded(L), NEW M, Table(M), Reserved(M) <= Reserved(L)
  PROVE  Bounded(M)
<1>1. Reserved(L) \in Nat /\ Reserved(M) \in Nat
  BY ReservedIsNat DEF Bounded
<1>2. ASSUME Reserved(M) > 0
      PROVE  \E r \in LeaseRequest : Reserved(M) + r.reserve <= Total
  <2>1. PICK r \in LeaseRequest : Reserved(L) + r.reserve <= Total
    BY <1>1, <1>2 DEF Bounded
  <2>2. r.reserve \in Nat /\ Total \in Nat
    BY ConductorAssumption
  <2>3. Reserved(M) + r.reserve <= Total
    BY <1>1, <2>1, <2>2
  <2>4. QED
    BY <2>3
<1>3. QED
  BY <1>2 DEF Bounded

\* Granting keeps the bound: the decision sees every lease that is out.
LEMMA GrantBounded ==
  ASSUME Bounded(leases), NEW r, NEW snap \in 0 .. Total,
         Grant(r, snap)
  PROVE  Bounded(leases')
<1> DEFINE L == Reaped(leases)
<1>1. Table(L) /\ Reserved(L) \in Nat
  BY Reaping, ReservedIsNat DEF Bounded
<1>2. r \in LeaseRequest /\ r.slots \in Nat \ {0} /\ r.reserve \in Nat
  BY ConductorAssumption DEF Grant
<1>3. r.slots <= snap - r.reserve - Reserved(L)
  BY <1>1, <1>2, ConductorAssumption DEF Grant, Admits, FreeSlots
<1>4. PICK id \in LeaseId \ DOMAIN L :
        leases' = [k \in DOMAIN L \cup {id} |->
                     IF k = id THEN [slots |-> r.slots, ttl |-> TTL] ELSE leases[k]]
  BY DEF Grant
<1>5. \A k \in DOMAIN L : L[k] = leases[k]
  BY DEF Reaped, Restrict
<1> HIDE DEF L
<1>6. r.slots \in 1 .. Total
  BY <1>1, <1>2, <1>3, ConductorAssumption
<1>7. [slots |-> r.slots, ttl |-> TTL] \in Lease
  BY <1>6, ConductorAssumption DEF Lease
<1>8. Table(leases')
  BY <1>1, <1>4, <1>5, <1>7 DEF Table
<1>9. /\ DOMAIN leases' = DOMAIN L \cup {id}
      /\ \A k \in DOMAIN L : leases'[k] = L[k]
      /\ leases'[id].slots = r.slots
      /\ id \notin DOMAIN L
  BY <1>4, <1>5
<1>10. Reserved(leases') <= Reserved(L) + r.slots
  BY <1>1, <1>2, <1>9, OneMoreLease
<1>11. Reserved(leases') \in Nat
  BY <1>8, ReservedIsNat
<1>12. Reserved(leases') + r.reserve <= Total
  BY <1>1, <1>2, <1>3, <1>10, <1>11, ConductorAssumption
<1>13. QED
  BY <1>2, <1>8, <1>12 DEF Bounded

\* The critical section keeps the bound and the types of what it writes.
LEMMA DecideBounded ==
  ASSUME TypeOK, Bounded(leases), NEW r, NEW snap \in 0 .. Total,
         Decide(r, snap)
  PROVE  /\ Bounded(leases')
         /\ mode' \in {"running", "paused", "draining"}
<1>1. CASE Grant(r, snap)
  BY <1>1, GrantBounded DEF Grant, TypeOK
<1>2. CASE Deny(r, snap) \/ GetQueue(r)
  <2>1. Bounded(Reaped(leases))
    BY Reaping, BoundedDown DEF Bounded
  <2>2. QED
    BY <1>2, <2>1 DEF Deny, GetQueue, TypeOK
<1>3. CASE ControlQueue(r)
  <2>1. mode' \in {"running", "paused", "draining"}
    BY <1>3 DEF ControlQueue, ModeAfter, Control
  <2>2. QED
    BY <1>3, <2>1 DEF ControlQueue, TypeOK
<1>4. QED
  BY <1>1, <1>2, <1>3 DEF Decide

-----------------------------------------------------------------------------
GateInv == TypeOK /\ Bounded(leases)

\* Init satisfies the invariant: no lease is out.
LEMMA GateInit == Init => GateInv
<1> SUFFICES ASSUME Init PROVE GateInv
  OBVIOUS
<1>1. DOMAIN leases = {} /\ Table(leases)
  BY DEF Init, Table
<1>2. Reserved(leases) = 0
  BY <1>1, NoLeases
<1>3. Bounded(leases)
  BY <1>1, <1>2 DEF Bounded
<1>4. TypeOK
  BY <1>1, ConductorAssumption DEF Init, TypeOK, Table
<1>5. QED
  BY <1>3, <1>4 DEF GateInv

\* Every step of the gate and of its world keeps the invariant.
LEMMA GateStep == GateInv /\ [Next]_vars => GateInv'
<1> SUFFICES ASSUME TypeOK, Bounded(leases), [Next]_vars PROVE TypeOK' /\ Bounded(leases')
  BY DEF GateInv, Bounded, Table, Reserved, SlotsOf
<1>0. Table(leases)
  BY DEF Bounded
<1>1. ASSUME NEW c \in Client, NEW r \in Asks[c], AskHit(c, r)
      PROVE  TypeOK' /\ Bounded(leases')
  <2>1. cache \in 0 .. Total
    BY <1>1 DEF AskHit, TypeOK
  <2>2. Decide(r, cache)
    BY <1>1 DEF AskHit
  <2>3. /\ Bounded(leases')
        /\ mode' \in {"running", "paused", "draining"}
    BY <2>1, <2>2, DecideBounded
  <2>4. QED
    BY <1>1, <2>3 DEF AskHit, TypeOK, Bounded, Table
<1>2. ASSUME NEW c \in Client, NEW r \in Asks[c], AskMiss(c, r)
      PROVE  TypeOK' /\ Bounded(leases')
  <2>1. r \in Request
    BY ConductorAssumption
  <2>2. [req |-> r, snap |-> None] \in [req : Request, snap : 0 .. Total \cup {None}]
    BY <2>1
  <2>3. QED
    BY <1>2, <2>2 DEF AskMiss, TypeOK
<1>3. ASSUME NEW c \in Client, Read(c) PROVE TypeOK' /\ Bounded(leases')
  <2>1. handler[c] \in [req : Request, snap : 0 .. Total \cup {None}]
    BY <1>3 DEF Read, TypeOK
  <2>2. [handler[c] EXCEPT !.snap = idle] \in [req : Request, snap : 0 .. Total \cup {None}]
    BY <2>1 DEF TypeOK
  <2>3. QED
    BY <1>3, <2>2 DEF Read, TypeOK
<1>4. ASSUME NEW c \in Client, Arrive(c) PROVE TypeOK' /\ Bounded(leases')
  <2>1. handler[c].snap \in 0 .. Total
    BY <1>4 DEF Arrive, TypeOK
  <2>2. Decide(handler[c].req, handler[c].snap)
    BY <1>4 DEF Arrive
  <2>3. /\ Bounded(leases')
        /\ mode' \in {"running", "paused", "draining"}
    BY <2>1, <2>2, DecideBounded
  <2>4. QED
    BY <1>4, <2>1, <2>3 DEF Arrive, TypeOK, Bounded, Table
<1>5. ASSUME NEW c \in Client, Fail(c) PROVE TypeOK' /\ Bounded(leases')
  <2>1. 0 \in 0 .. Total /\ Decide(handler[c].req, 0)
    BY <1>5, ConductorAssumption DEF Fail
  <2>2. /\ Bounded(leases')
        /\ mode' \in {"running", "paused", "draining"}
    BY <2>1, DecideBounded
  <2>3. QED
    BY <1>5, <2>2 DEF Fail, TypeOK, Bounded, Table
<1>6. ASSUME NEW c \in Client, NEW id \in LeaseId, Release(c, id)
      PROVE  TypeOK' /\ Bounded(leases')
  <2>1. /\ Table(leases') /\ DOMAIN leases' \subseteq DOMAIN leases
        /\ \A k \in DOMAIN leases' : leases'[k].slots = leases[k].slots
    BY <1>0, <1>6 DEF Release, Restrict, Table
  <2>2. Bounded(leases')
    BY <1>0, <2>1, FewerLeases, BoundedDown
  <2>3. QED
    BY <1>6, <2>1, <2>2 DEF Release, TypeOK, Table
<1>7. CASE Tick
  <2>1. /\ DOMAIN leases' = DOMAIN leases
        /\ \A id \in DOMAIN leases :
             leases'[id] = [leases[id] EXCEPT !.ttl = IF @ > 0 THEN @ - 1 ELSE 0]
        /\ leases' \in [DOMAIN leases' -> {leases'[id] : id \in DOMAIN leases}]
    BY <1>7 DEF Tick
  <2>2. ASSUME NEW id \in DOMAIN leases
        PROVE  leases'[id] \in Lease /\ leases'[id].slots = leases[id].slots
    <3>1. leases[id] \in [slots : 1 .. Total, ttl : 0 .. TTL]
      BY <1>0 DEF Table, Lease
    <3>2. (IF leases[id].ttl > 0 THEN leases[id].ttl - 1 ELSE 0) \in 0 .. TTL
      BY <3>1, ConductorAssumption
    <3>3. QED
      BY <2>1, <3>1, <3>2 DEF Lease
  <2>3. Table(leases')
    BY <1>0, <2>1, <2>2 DEF Table
  <2>4. Bounded(leases')
    BY <1>0, <2>1, <2>2, <2>3, FewerLeases, BoundedDown
  <2>5. QED
    BY <1>7, <2>3, <2>4 DEF Tick, TypeOK, Table
<1>8. CASE CacheExpires
  BY <1>8 DEF CacheExpires, TypeOK
<1>9. CASE FleetChanges
  BY <1>9 DEF FleetChanges, TypeOK
<1>10. ASSUME NEW c \in Client, CallerDies(c) PROVE TypeOK' /\ Bounded(leases')
  BY <1>10 DEF CallerDies, TypeOK
<1>11. CASE Restart
  <2>1. DOMAIN leases' = {} /\ Table(leases')
    BY <1>11 DEF Restart, Table
  <2>2. Bounded(leases')
    BY <2>1, NoLeases DEF Bounded
  <2>3. QED
    BY <1>11, <2>1, <2>2, ConductorAssumption DEF Restart, TypeOK, Table
<1>12. CASE UNCHANGED vars
  BY <1>12 DEF vars, TypeOK
<1>13. QED
  BY <1>1, <1>2, <1>3, <1>4, <1>5, <1>6, <1>7, <1>8, <1>9, <1>10, <1>11, <1>12
  DEF Next, Ask

\* Type correctness: modes are those of QueueMode, and no lease is larger than the
\* fleet.
THEOREM TypeCorrect == Spec => []TypeOK
<1>1. GateInv => TypeOK
  BY DEF GateInv
<1>2. QED
  BY <1>1, GateInit, GateStep, PTL DEF Spec

\* The gate never oversubscribes the fleet, whatever number of requests race on
\* snapshots of it, for every fleet, reserve and TTL.
THEOREM NeverOversubscribes == Spec => []NeverOversubscribed
<1>1. GateInv => NeverOversubscribed
  BY DEF GateInv, Bounded, NeverOversubscribed
<1>2. QED
  BY <1>1, GateInit, GateStep, PTL DEF Spec
=============================================================================

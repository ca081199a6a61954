------------------------- MODULE StartupLocksProofs -------------------------
(***************************************************************************)
(* Theorems about StartupLocks, for any processes, candidates and worlds.  *)
(***************************************************************************)
EXTENDS StartupLocks, TLAPS

\* An autoscaler goes past a candidate only if nobody could ever lock it; a process
\* that opened or holds a file is at a candidate that it can open, and lock.
Searched ==
  /\ \A i \in Autoscaler : \A n \in 1 .. at[i] - 1 : ~Good(i, n)
  /\ \A i \in Inst : pc[i] \in {"opened", "holding"} =>
       at[i] <= Last(i) /\ Candidate(i) \in Usable(i)
  /\ \A i \in Inst : pc[i] = "holding" => Candidate(i) \in world.lockable

\* A lock has one holder.
Exclusive ==
  \A i, j \in Inst :
    pc[i] = "holding" /\ pc[j] = "holding" /\ Candidate(i) = Candidate(j) => i = j

WalkInv == TypeOK /\ Searched /\ Exclusive

\* All autoscalers walk the same list and can open the same files.
Uniform ==
  \A i, j \in Autoscaler :
    /\ Candidates[i] = Candidates[j]
    /\ \A w \in World : w.usable[i] = w.usable[j]

-----------------------------------------------------------------------------
\* Nobody has looked at any candidate at first.
LEMMA InvInit == Init => WalkInv
BY StartupLocksAssumption
DEF Init, WalkInv, TypeOK, Searched, Exclusive, Inst, Last, Good, Candidate

\* What a step of one process does, whichever it is: it moves that process only,
\* and to where its program lets it.
LEMMA InvType == WalkInv /\ [Next]_vars => TypeOK'
<1> SUFFICES ASSUME TypeOK, Searched, [Next]_vars PROVE TypeOK'
  BY DEF WalkInv
<1> USE DEF TypeOK, Inst, Last
<1>1. ASSUME NEW i \in Inst, Start(i) PROVE TypeOK'
  <2>1. Last(i) \in Nat
    BY StartupLocksAssumption
  <2>2. QED
    BY <1>1, <2>1, StartupLocksAssumption DEF Start, To
<1>2. ASSUME NEW i \in Inst, Die(i) PROVE TypeOK'
  BY <1>2 DEF Die, To
<1>3. ASSUME NEW i \in Inst, Try(i) PROVE TypeOK'
  <2>1. Last(i) \in Nat
    BY StartupLocksAssumption
  <2>2. CASE OpenFile(i)
    BY <2>2 DEF OpenFile, To
  <2>3. CASE SkipFile(i)
    BY <2>1, <2>3 DEF SkipFile, Advance, To
  <2>4. CASE TakeLock(i)
    BY <2>4 DEF TakeLock, To
  <2>5. CASE NoLocking(i)
    BY <2>1, <2>5 DEF NoLocking, Advance, To, Searched
  <2>6. QED
    BY <1>3, <2>2, <2>3, <2>4, <2>5 DEF Try
<1>4. ASSUME NEW i \in Autoscaler, HeldExit(i) \/ NoneExit(i) PROVE TypeOK'
  BY <1>4, StartupLocksAssumption DEF HeldExit, NoneExit, To
<1>5. ASSUME NEW i \in Worker, HeldNext(i) \/ Follow(i) \/ LeadForced(i) PROVE TypeOK'
  <2>1. i \in Inst /\ i \notin Autoscaler /\ Last(i) \in Nat
    BY StartupLocksAssumption
  <2>2. CASE HeldNext(i)
    BY <2>1, <2>2 DEF HeldNext, Advance, To, Searched
  <2>3. CASE Follow(i)
    BY <2>1, <2>3 DEF Follow, To
  <2>4. CASE LeadForced(i)
    BY <2>1, <2>4 DEF LeadForced, To
  <2>5. QED
    BY <1>5, <2>2, <2>3, <2>4
<1>6. CASE UNCHANGED vars
  BY <1>6 DEF vars
<1>7. QED
  BY <1>1, <1>2, <1>3, <1>4, <1>5, <1>6, StartupLocksAssumption DEF Next, Walk

\* An autoscaler advances past a candidate only after finding that nobody could
\* lock it; a process opens what it can open and locks what can be locked.
LEMMA InvSearched == WalkInv /\ [Next]_vars => Searched'
<1> SUFFICES ASSUME TypeOK, Searched, [Next]_vars PROVE Searched'
  BY DEF WalkInv
<1> USE DEF TypeOK, Searched, Inst, Last, Good, Candidate, Usable
<1>1. ASSUME NEW i \in Inst, Start(i) PROVE Searched'
  BY <1>1 DEF Start, To
<1>2. ASSUME NEW i \in Inst, Die(i) PROVE Searched'
  BY <1>2 DEF Die, To
<1>3. ASSUME NEW i \in Inst, Try(i) PROVE Searched'
  <2>1. CASE OpenFile(i)
    BY <2>1 DEF OpenFile, To
  <2>2. CASE SkipFile(i)
    BY <2>2 DEF SkipFile, Advance, To
  <2>3. CASE TakeLock(i)
    BY <2>3 DEF TakeLock, To
  <2>4. CASE NoLocking(i)
    BY <2>4 DEF NoLocking, Advance, To
  <2>5. QED
    BY <1>3, <2>1, <2>2, <2>3, <2>4 DEF Try
<1>4. ASSUME NEW i \in Autoscaler, HeldExit(i) \/ NoneExit(i) PROVE Searched'
  BY <1>4 DEF HeldExit, NoneExit, To
<1>5. ASSUME NEW i \in Worker, HeldNext(i) \/ Follow(i) \/ LeadForced(i) PROVE Searched'
  <2>1. i \in Inst /\ i \notin Autoscaler /\ Last(i) \in Nat
    BY StartupLocksAssumption
  <2>2. CASE HeldNext(i)
    BY <2>1, <2>2 DEF HeldNext, Advance, To
  <2>3. CASE Follow(i)
    BY <2>1, <2>3 DEF Follow, To
  <2>4. CASE LeadForced(i)
    BY <2>1, <2>4 DEF LeadForced, To
  <2>5. QED
    BY <1>5, <2>2, <2>3, <2>4
<1>6. CASE UNCHANGED vars
  BY <1>6 DEF vars
<1>7. QED
  BY <1>1, <1>2, <1>3, <1>4, <1>5, <1>6, StartupLocksAssumption DEF Next, Walk

\* Only TakeLock makes a holder, and it looks for another holder of the file first.
LEMMA InvExclusive == WalkInv /\ [Next]_vars => Exclusive'
<1> SUFFICES ASSUME TypeOK, Exclusive, [Next]_vars PROVE Exclusive'
  BY DEF WalkInv
<1> USE DEF TypeOK, Exclusive, Inst, Candidate
<1>1. ASSUME NEW i \in Inst, Start(i) PROVE Exclusive'
  BY <1>1 DEF Start, To
<1>2. ASSUME NEW i \in Inst, Die(i) PROVE Exclusive'
  BY <1>2 DEF Die, To
<1>3. ASSUME NEW i \in Inst, Try(i) PROVE Exclusive'
  <2>1. CASE OpenFile(i)
    BY <2>1 DEF OpenFile, To
  <2>2. CASE SkipFile(i)
    BY <2>2 DEF SkipFile, Advance, To
  <2>3. CASE TakeLock(i)
    BY <2>3 DEF TakeLock, HeldByOther, To
  <2>4. CASE NoLocking(i)
    BY <2>4 DEF NoLocking, Advance, To
  <2>5. QED
    BY <1>3, <2>1, <2>2, <2>3, <2>4 DEF Try
<1>4. ASSUME NEW i \in Autoscaler, HeldExit(i) \/ NoneExit(i) PROVE Exclusive'
  BY <1>4 DEF HeldExit, NoneExit, To
<1>5. ASSUME NEW i \in Worker, HeldNext(i) \/ Follow(i) \/ LeadForced(i) PROVE Exclusive'
  BY <1>5 DEF HeldNext, Follow, LeadForced, Advance, To
<1>6. CASE UNCHANGED vars
  BY <1>6 DEF vars
<1>7. QED
  BY <1>1, <1>2, <1>3, <1>4, <1>5, <1>6, StartupLocksAssumption DEF Next, Walk

\* Two autoscalers that run are at the same candidate of the same list: neither can
\* have gone past the candidate the other could lock.
LEMMA SameEnvironment ==
  ASSUME WalkInv, Uniform
  PROVE  Singleton
<1> SUFFICES ASSUME NEW i \in Autoscaler, NEW j \in Autoscaler,
                    pc[i] = "holding", pc[j] = "holding"
             PROVE  i = j
  BY DEF Singleton
<1> USE DEF WalkInv, TypeOK, Inst
<1>1. /\ at[i] \in Nat \ {0} /\ at[j] \in Nat \ {0}
      /\ Good(i, at[i]) /\ Good(j, at[j])
  BY DEF Searched, Good, Candidate
<1>2. Usable(i) = Usable(j) /\ Candidates[i] = Candidates[j]
  BY DEF Uniform, Usable
<1>3. Good(i, at[j]) /\ Good(j, at[i])
  BY <1>1, <1>2 DEF Good
<1>4. ~ (at[j] < at[i]) /\ ~ (at[i] < at[j])
  BY <1>1, <1>3 DEF Searched
<1>5. Candidate(i) = Candidate(j)
  BY <1>1, <1>2, <1>4 DEF Candidate
<1>6. QED
  BY <1>5 DEF Exclusive

-----------------------------------------------------------------------------
\* The invariant the theorems rest on.
THEOREM InvHolds == Spec => []WalkInv
<1>1. WalkInv /\ [Next]_vars => WalkInv'
  BY InvType, InvSearched, InvExclusive DEF WalkInv
<1>2. QED
  BY <1>1, InvInit, PTL DEF Spec

\* No process leaves the list of candidates or the states of its own program.
THEOREM TypeCorrect == Spec => []TypeOK
<1>1. WalkInv => TypeOK
  BY DEF WalkInv
<1>2. QED
  BY <1>1, InvHolds, PTL

\* Autoscalers that share one environment never run two at a time, however many
\* start, die and are started again, and whichever files can be opened and locked.
THEOREM SingletonHolds == ASSUME Uniform PROVE Spec => []Singleton
<1>1. WalkInv => Singleton
  BY SameEnvironment
<1>2. QED
  BY <1>1, InvHolds, PTL

\* An autoscaler gives up only on a lock that is held or a host without any lock.
THEOREM ExitIsJustified == Spec => ExitJustified
<1> DEFINE Justified ==
      \A i \in Autoscaler :
        pc[i] # "exited" /\ pc'[i] = "exited" =>
          \/ \E j \in Inst \ {i} : pc[j] = "holding"
          \/ \A n \in 1 .. Last(i) : ~Good(i, n)
<1>1. WalkInv /\ [Next]_vars => [Justified]_vars
  <2> SUFFICES ASSUME WalkInv, Next PROVE Justified
    OBVIOUS
  <2> SUFFICES ASSUME NEW i \in Autoscaler, pc[i] # "exited", pc'[i] = "exited"
               PROVE  \/ \E j \in Inst \ {i} : pc[j] = "holding"
                      \/ \A n \in 1 .. Last(i) : ~Good(i, n)
    OBVIOUS
  <2> USE DEF WalkInv, TypeOK, Inst
  <2>1. HeldExit(i) \/ NoneExit(i)
    <3>1. PICK j \in Inst : Start(j) \/ Walk(j) \/ Die(j)
      BY DEF Next
    <3>2. ~Start(j) /\ ~Die(j)
      BY DEF Start, Die, To
    <3>3. ~Try(j)
      BY DEF Try, OpenFile, SkipFile, TakeLock, NoLocking, Advance, To
    <3>4. ~HeldNext(j) /\ ~Follow(j) /\ ~LeadForced(j)
      BY DEF HeldNext, Follow, LeadForced, Advance, To
    <3>5. HeldExit(j) \/ NoneExit(j)
      BY <3>1, <3>2, <3>3, <3>4 DEF Walk
    <3>6. j = i
      BY <3>5 DEF HeldExit, NoneExit, To
    <3>7. QED
      BY <3>5, <3>6
  <2>2. CASE HeldExit(i)
    BY <2>2 DEF HeldExit, HeldByOther
  <2>3. CASE NoneExit(i)
    <3>1. Last(i) \in Nat /\ at[i] \in Nat /\ at[i] > Last(i)
      BY <2>3, StartupLocksAssumption DEF NoneExit, Last
    <3>2. 1 .. Last(i) \subseteq 1 .. at[i] - 1
      BY <3>1
    <3>3. QED
      BY <3>2 DEF Searched
  <2>4. QED
    BY <2>1, <2>2, <2>3
<1>2. QED
  BY <1>1, InvHolds, PTL DEF Spec, ExitJustified
=============================================================================

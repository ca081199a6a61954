-------------------------- MODULE LeaseStoreProofs --------------------------
(***************************************************************************)
(* Theorems about LeaseStore for every set of workers, principals and      *)
(* runners, every quota and every bound.                                   *)
(***************************************************************************)
EXTENDS LeaseStore, FiniteSetTheorems, TLAPS

-----------------------------------------------------------------------------
(***************************************************************************)
(* Type correctness.                                                       *)
(***************************************************************************)

\* What a record is: an acquired lease that expires, or the one assignment record
\* of an issue.
LEMMA RecordFields ==
  ASSUME NEW x \in Record
  PROVE  /\ x = Lease(x.principal, x.runner, x.exp)
         /\ x.runner \in Runner \cup Issue
         /\ x.principal \in Principal => x.runner \in Runner /\ x.exp \in Nat
         /\ x.runner \in Issue => x = Lease(LinearBot, x.runner, Perm)
  BY LeaseStoreAssumption DEF Record, Lease

\* An operation of kind "acquire" has an acquisition's fields.
LEMMA AcquireFields ==
  ASSUME NEW o \in LockedOp, o.kind = "acquire"
  PROVE  o.who \in Principal /\ o.runner \in Runner /\ o.dur \in Nat
  <1>1. o \notin ReleaseOp /\ o \notin PruneOp
    BY DEF ReleaseOp, PruneOp
  <1>2. o \in AcquireOp
    BY <1>1 DEF LockedOp
  <1>3. QED
    BY <1>2, LeaseStoreAssumption DEF AcquireOp

\* What an operation writes are records.
LEMMA MutatedType ==
  ASSUME NEW o \in LockedOp, NEW recs \in SUBSET Record, NEW t \in Nat
  PROVE  Mutated(o, recs, t) \subseteq Record
  <1>1. o.kind = "acquire" => Lease(o.who, o.runner, t + o.dur) \in Record
    BY AcquireFields DEF Record, Lease
  <1>2. QED
    BY <1>1 DEF Mutated

\* Every reachable state has the shape TypeOK describes.
THEOREM TypeCorrect == Spec => []TypeOK
  <1>1. Init => TypeOK
    BY LeaseStoreAssumption
    DEF Init, TypeOK, Inode, Closed, Prune, LockedOp, PruneOp, Locking
  <1>2. TypeOK /\ [Next]_vars => TypeOK'
    <2> SUFFICES ASSUME TypeOK, [Next]_vars
                 PROVE  TypeOK'
      OBVIOUS
    <2> USE DEF TypeOK, Goto
    <2>F. ASSUME NEW p \in Proc, Finish(p)
          PROVE  /\ pc' \in [Proc -> {"idle", "opened", "loaded"} \cup Locking]
                 /\ op' \in [Proc -> LockedOp]
                 /\ handle' \in [Proc -> [ino : 0 .. MaxInode, recs : SUBSET Record]]
                 /\ pending' \in [Proc -> SUBSET Record]
      BY <2>F, LeaseStoreAssumption DEF Finish, Closed, Prune, LockedOp, PruneOp
    <2>R. ASSUME NEW p \in Proc, Rename(pending[p])
          PROVE  file' \in [ino : Inode, recs : SUBSET Record]
      BY <2>R DEF Rename, FreeInode
    <2>1. ASSUME NEW p \in Proc, Open(p) PROVE TypeOK'
      BY <2>1, LeaseStoreAssumption DEF Open, Inode
    <2>2. ASSUME NEW p \in Proc, Lock(p) PROVE TypeOK'
      BY <2>2 DEF Lock, Locking
    <2>3. ASSUME NEW p \in Proc, Refuse(p) PROVE TypeOK'
      BY <2>3, <2>F DEF Refuse
    <2>4. ASSUME NEW p \in Proc, Dump(p) PROVE TypeOK'
      <3>1. now \in Nat /\ op[p] \in LockedOp /\ Fresh(p) \in SUBSET Record
        BY LeaseStoreAssumption DEF Fresh
      <3>2. Mutated(op[p], Fresh(p), now) \subseteq Record
        BY <3>1, MutatedType
      <3>3. QED
        BY <2>4, <3>2 DEF Dump, Locking
    <2>5. ASSUME NEW p \in Proc, Replace(p) PROVE TypeOK'
      BY <2>5, <2>R DEF Replace, Locking
    <2>6. ASSUME NEW p \in Proc, Return(p) PROVE TypeOK'
      BY <2>6, <2>F DEF Return
    <2>7. ASSUME NEW p \in Proc, Crash(p) PROVE TypeOK'
      BY <2>7, <2>F DEF Crash
    <2>8. ASSUME NEW p \in Proc, LinearLoad(p) PROVE TypeOK'
      <3>1. \A i \in Issue : Lease(LinearBot, i, Perm) \in Record
        BY DEF Record, Lease
      <3>2. {file, Closed} \subseteq [ino : 0 .. MaxInode, recs : SUBSET Record]
        BY LeaseStoreAssumption DEF Closed, Inode
      <3>3. QED
        BY <2>8, <3>1, <3>2 DEF LinearLoad
    <2>9. ASSUME NEW p \in Proc, LinearSave(p) PROVE TypeOK'
      BY <2>9, <2>F, <2>R DEF LinearSave
    <2>10. CASE Tick
      BY <2>10, LeaseStoreAssumption DEF Tick
    <2>11. CASE UNCHANGED vars
      BY <2>11 DEF vars
    <2>12. QED
      BY <2>1, <2>2, <2>3, <2>4, <2>5, <2>6, <2>7, <2>8, <2>9, <2>10, <2>11
      DEF Next, Step
  <1>3. QED
    BY <1>1, <1>2, PTL DEF Spec

-----------------------------------------------------------------------------
(***************************************************************************)
(* StoreSound.  A process may write records it read long ago, so the       *)
(* soundness of leases.yml is not inductive alone: it has to hold of every *)
(* set of records some process has open or is about to write.  It is then  *)
(* a fact about one mutation of one sound set, whichever set that is.      *)
(***************************************************************************)

SoundSet(recs) == IsFiniteSet(recs) /\ Sound(recs)

\* Removing records (pruning, releasing) keeps a set sound.
LEMMA SoundSubset ==
  ASSUME NEW recs \in SUBSET Record, SoundSet(recs), NEW sub \in SUBSET recs
  PROVE  SoundSet(sub)
  <1>1. IsFiniteSet(sub)
    BY FS_Subset DEF SoundSet
  <1>2. \A x, y \in sub : x.runner = y.runner /\ x.runner \in Runner => x = y
    BY DEF SoundSet, Sound
  <1>3. ASSUME NEW q \in Principal
        PROVE  Cardinality({x \in sub : x.principal = q}) <= MaxRunners[q]
    <2> DEFINE A == {x \in recs : x.principal = q}
               B == {x \in sub : x.principal = q}
    <2>1. IsFiniteSet(A)
      BY FS_Subset DEF SoundSet
    <2>2. B \in SUBSET A
      OBVIOUS
    <2>3. Cardinality(B) <= Cardinality(A) /\ IsFiniteSet(B)
      BY <2>1, <2>2, FS_Subset
    <2>4. Cardinality(A) \in Nat /\ Cardinality(B) \in Nat
      BY <2>1, <2>3, FS_CardinalityType
    <2>5. Cardinality(A) <= MaxRunners[q]
      BY DEF SoundSet, Sound
    <2>6. MaxRunners[q] \in Nat
      BY LeaseStoreAssumption
    <2> QED
      BY <2>3, <2>4, <2>5, <2>6
  <1> QED
    BY <1>1, <1>2, <1>3 DEF SoundSet, Sound

\* acquire_lease's checks are enough: on any sound set of records, what an
\* operation that is not refused writes is sound.
LEMMA SoundMutated ==
  ASSUME NEW recs \in SUBSET Record, SoundSet(recs),
         NEW o \in LockedOp, ~Refused(o, recs), NEW t \in Nat
  PROVE  SoundSet(Mutated(o, recs, t))
  <1> DEFINE kept == {x \in recs : ~Targets(o, x)}
  <1>1. SoundSet(kept) /\ kept \in SUBSET Record
    BY SoundSubset
  <1>2. CASE o.kind # "acquire"
    BY <1>1, <1>2 DEF Mutated
  <1>3. CASE o.kind = "acquire"
    <2> DEFINE new == Lease(o.who, o.runner, t + o.dur)
    <2>1. Mutated(o, recs, t) = kept \cup {new}
      BY <1>3 DEF Mutated
    <2>2. IsFiniteSet(kept \cup {new})
      BY <1>1, FS_AddElement DEF SoundSet
    <2>3. new.principal = o.who /\ new.runner = o.runner
      BY DEF Lease
    <2>4. \A x \in kept : x.runner # o.runner
      BY <1>3 DEF Refused, Targets
    <2>5. \A x, y \in kept \cup {new} : x.runner = y.runner /\ x.runner \in Runner => x = y
      BY <1>1, <2>3, <2>4 DEF SoundSet, Sound
    <2>6. ASSUME NEW q \in Principal
          PROVE  Cardinality({x \in kept \cup {new} : x.principal = q}) <= MaxRunners[q]
      <3> DEFINE A == {x \in kept : x.principal = q}
                 B == {x \in recs : x.principal = q}
      <3>1. IsFiniteSet(A) /\ Cardinality(A) \in Nat /\ Cardinality(A) <= MaxRunners[q]
        BY <1>1, FS_Subset, FS_CardinalityType DEF SoundSet, Sound
      <3>2. IsFiniteSet(B) /\ Cardinality(B) \in Nat /\ Cardinality(B) <= MaxRunners[q]
        BY FS_Subset, FS_CardinalityType DEF SoundSet, Sound
      <3>3. MaxRunners[q] \in Nat
        BY LeaseStoreAssumption
      <3>4. CASE q # o.who
        <4>1. {x \in kept \cup {new} : x.principal = q} = A
          BY <2>3, <3>4
        <4> QED
          BY <4>1, <3>1
      <3>5. CASE q = o.who
        <4>1. {x \in kept \cup {new} : x.principal = q} = A \cup {new}
          BY <2>3, <3>5
        <4>2. Cardinality(A \cup {new}) <= Cardinality(A) + 1
          <5>1. new \notin A
            BY <2>3, <2>4
          <5>2. IsFiniteSet(A) /\ Cardinality(A) \in Nat
            BY <3>1
          <5> HIDE DEF A, new
          <5>3. Cardinality(A \cup {new}) = Cardinality(A) + 1
            BY <5>1, <5>2, FS_AddElement
          <5> QED
            BY <5>2, <5>3
        <4>3. Cardinality(A) < MaxRunners[q]
          <5>1. CASE \E x \in recs : x.runner = o.runner
            <6>1. PICK old \in recs : old.runner = o.runner
              BY <5>1
            <6>2. old \in B /\ A \subseteq B \ {old}
              BY <1>3, <6>1, <3>5 DEF Refused, Targets
            <6>3. IsFiniteSet(B \ {old}) /\ Cardinality(B \ {old}) = Cardinality(B) - 1
              BY <3>2, <6>2, FS_RemoveElement
            <6>4. Cardinality(A) <= Cardinality(B \ {old})
              BY <6>2, <6>3, FS_Subset
            <6> QED
              BY <3>1, <3>2, <3>3, <6>3, <6>4
          <5>2. CASE \A x \in recs : x.runner # o.runner
            <6>1. ~(Cardinality(B) >= MaxRunners[q])
              BY <1>3, <5>2, <3>5 DEF Refused
            <6>2. Cardinality(A) <= Cardinality(B)
              BY <3>2, FS_Subset
            <6> QED
              BY <3>1, <3>2, <3>3, <6>1, <6>2
          <5> QED
            BY <5>1, <5>2
        <4>4. IsFiniteSet(A \cup {new}) /\ Cardinality(A \cup {new}) \in Nat
          BY <3>1, FS_AddElement, FS_CardinalityType
        <4> QED
          BY <4>1, <4>2, <4>3, <4>4, <3>1, <3>3
      <3> QED
        BY <3>4, <3>5
    <2> QED
      BY <2>1, <2>2, <2>5, <2>6 DEF SoundSet, Sound
  <1> QED
    BY <1>2, <1>3

\* Adding the assignment record of an issue keeps a set sound: issues are not
\* runners and the bot has no quota.
LEMMA SoundAssignment ==
  ASSUME NEW recs \in SUBSET Record, SoundSet(recs), NEW i \in Issue
  PROVE  SoundSet(recs \cup {Lease(LinearBot, i, Perm)})
  <1> DEFINE new == Lease(LinearBot, i, Perm)
  <1>1. IsFiniteSet(recs \cup {new})
    BY FS_AddElement DEF SoundSet
  <1>2. new.runner = i /\ new.principal = LinearBot
    BY DEF Lease
  <1>3. \A x \in recs : x.runner = i => x = new
    BY RecordFields
  <1>4. \A x, y \in recs \cup {new} : x.runner = y.runner /\ x.runner \in Runner => x = y
    BY <1>2, <1>3 DEF SoundSet, Sound
  <1>5. ASSUME NEW q \in Principal
        PROVE  Cardinality({x \in recs \cup {new} : x.principal = q}) <= MaxRunners[q]
    <2>1. {x \in recs \cup {new} : x.principal = q} = {x \in recs : x.principal = q}
      BY <1>2, LeaseStoreAssumption
    <2> QED
      BY <2>1 DEF SoundSet, Sound
  <1> QED
    BY <1>1, <1>4, <1>5 DEF SoundSet, Sound

\* The empty set, which a failing load answers, is sound.
LEMMA SoundEmpty == SoundSet({})
  <1>1. \A q \in Principal : {x \in {} : x.principal = q} = {}
    OBVIOUS
  <1> QED
    BY <1>1, FS_EmptySet, LeaseStoreAssumption DEF SoundSet, Sound

\* Every set of records the processes deal in is sound.
SnapshotsSound ==
  /\ SoundSet(file.recs)
  /\ \A p \in Proc : SoundSet(handle[p].recs) /\ SoundSet(pending[p])

\* Processes that race, crash and overwrite one another deal in sound sets only.
LEMMA SnapshotsStaySound == Spec => []SnapshotsSound
  <1>1. Init => SnapshotsSound
    <2> SUFFICES ASSUME Init PROVE SnapshotsSound
      OBVIOUS
    <2>1. file.recs = {} /\ \A p \in Proc : handle[p].recs = {} /\ pending[p] = {}
      BY DEF Init, Closed
    <2> QED
      BY <2>1, SoundEmpty DEF SnapshotsSound
  <1>2. TypeOK /\ SnapshotsSound /\ [Next]_vars => SnapshotsSound'
    <2> SUFFICES ASSUME TypeOK, SnapshotsSound, [Next]_vars
                 PROVE  SnapshotsSound'
      OBVIOUS
    <2> USE DEF TypeOK, SnapshotsSound
    <2>F. ASSUME NEW p \in Proc, Finish(p)
          PROVE  \A q \in Proc : SoundSet(handle'[q].recs) /\ SoundSet(pending'[q])
      BY <2>F, SoundEmpty DEF Finish, Closed
    <2>R. ASSUME NEW p \in Proc, Rename(pending[p])
          PROVE  SoundSet(file'.recs)
      BY <2>R DEF Rename
    <2>S. SoundSet(file.recs)' <=> SoundSet(file'.recs)
      BY DEF SoundSet, Sound
    <2>P. ASSUME NEW p \in Proc
          PROVE  /\ SoundSet(handle[p].recs)' <=> SoundSet(handle'[p].recs)
                 /\ SoundSet(pending[p])' <=> SoundSet(pending'[p])
      BY DEF SoundSet, Sound
    <2>1. ASSUME NEW p \in Proc, Open(p) PROVE SnapshotsSound'
      <3>1. file' = file /\ pending' = pending /\ handle' = [handle EXCEPT ![p] = file]
        BY <2>1 DEF Open
      <3> QED
        BY <3>1, <2>P, <2>S
    <2>2. ASSUME NEW p \in Proc, Lock(p) PROVE SnapshotsSound'
      BY <2>2, <2>P, <2>S DEF Lock
    <2>3. ASSUME NEW p \in Proc, Refuse(p) PROVE SnapshotsSound'
      BY <2>3, <2>F, <2>P, <2>S DEF Refuse
    <2>4. ASSUME NEW p \in Proc, Dump(p) PROVE SnapshotsSound'
      <3>1. Fresh(p) \in SUBSET Record /\ SoundSet(Fresh(p)) /\ now \in Nat
        BY SoundSubset, LeaseStoreAssumption DEF Fresh
      <3>2. SoundSet(Mutated(op[p], Fresh(p), now))
        BY <2>4, <3>1, SoundMutated DEF Dump
      <3> QED
        BY <2>4, <3>2, <2>P, <2>S DEF Dump
    <2>5. ASSUME NEW p \in Proc, Replace(p) PROVE SnapshotsSound'
      BY <2>5, <2>R, <2>P, <2>S DEF Replace
    <2>6. ASSUME NEW p \in Proc, Return(p) PROVE SnapshotsSound'
      BY <2>6, <2>F, <2>P, <2>S DEF Return
    <2>7. ASSUME NEW p \in Proc, Crash(p) PROVE SnapshotsSound'
      BY <2>7, <2>F, <2>P, <2>S DEF Crash
    <2>8. ASSUME NEW p \in Proc, LinearLoad(p) PROVE SnapshotsSound'
      <3>1. PICK i \in Issue, from \in {file, Closed} :
              /\ handle' = [handle EXCEPT ![p] = from]
              /\ pending' = [pending EXCEPT ![p] = from.recs \cup {Lease(LinearBot, i, Perm)}]
        BY <2>8 DEF LinearLoad
      <3>2. from.recs \in SUBSET Record /\ SoundSet(from.recs)
        <4>1. CASE from = file
          BY <4>1
        <4>2. CASE from = Closed
          BY <4>2, SoundEmpty DEF Closed
        <4>3. QED
          BY <4>1, <4>2
      <3>3. SoundSet(from.recs \cup {Lease(LinearBot, i, Perm)})
        BY <3>2, SoundAssignment
      <3> QED
        BY <2>8, <3>1, <3>2, <3>3, <2>P, <2>S DEF LinearLoad
    <2>9. ASSUME NEW p \in Proc, LinearSave(p) PROVE SnapshotsSound'
      BY <2>9, <2>F, <2>R, <2>P, <2>S DEF LinearSave
    <2>10. CASE Tick
      BY <2>10, <2>P, <2>S DEF Tick
    <2>11. CASE UNCHANGED vars
      BY <2>11, <2>P, <2>S DEF vars
    <2>12. QED
      BY <2>1, <2>2, <2>3, <2>4, <2>5, <2>6, <2>7, <2>8, <2>9, <2>10, <2>11
      DEF Next, Step
  <1>3. QED
    BY <1>1, <1>2, TypeCorrect, PTL DEF Spec

\* leases.yml never holds a runner twice or a principal above its quota, for
\* any number of workers that race, crash and overwrite one another.
THEOREM StoreIsSound == Spec => []StoreSound
  <1>1. SnapshotsSound => StoreSound
    BY DEF SnapshotsSound, StoreSound, SoundSet
  <1>2. QED
    BY <1>1, SnapshotsStaySound, PTL

-----------------------------------------------------------------------------
(***************************************************************************)
(* One worker.  What a process knows of leases.yml is then still true when *)
(* it renames: the handle is the file, and what is pending has lost no     *)
(* lease that somebody holds, unless the load of an assignment has failed. *)
(***************************************************************************)

OneWriter == \A p, q \in Proc : p = q

\* What the worker has read is the present leases.yml, unless its load failed.
WriterKnows(p) ==
  /\ pc[p] \in {"opened", "locked", "dumped"} => handle[p] = file
  /\ pc[p] = "loaded" => LoadFailed(p) \/ handle[p] = file
  /\ pc[p] = "dumped" => granted \subseteq pending[p]
  /\ pc[p] = "loaded" /\ ~LoadFailed(p) => granted \subseteq pending[p]
  /\ pc[p] = "replaced" => file.recs = pending[p]
  /\ pc[p] \in {"opened"} \cup Locking => \A g \in granted : ~Targets(op[p], g)

WriterInv ==
  /\ GrantsBacked
  /\ \A g \in granted : Live(g, now)
  /\ \A p \in Proc : WriterKnows(p)

\* With one worker the inductive invariant holds: what the worker has open or is
\* about to write still agrees with leases.yml and with the leases callers hold.
THEOREM OneWriterInv == ASSUME OneWriter PROVE Spec => []WriterInv
  <1>1. Init => WriterInv
    BY DEF Init, WriterInv, WriterKnows, GrantsBacked, Locking
  <1>2. TypeOK /\ WriterInv /\ [Next]_vars => WriterInv'
    <2> SUFFICES ASSUME TypeOK, WriterInv, [Next]_vars
                 PROVE  WriterInv'
      OBVIOUS
    <2> USE DEF TypeOK, WriterInv, WriterKnows, LoadFailed, GrantsBacked, Goto, Locking
    <2>O. \A p, q \in Proc : p = q
      BY OneWriter DEF OneWriter
    <2>I. file.ino # 0
      BY LeaseStoreAssumption DEF Inode
    <2>1. ASSUME NEW p \in Proc, Open(p) PROVE WriterInv'
      BY <2>1, <2>O DEF Open
    <2>2. ASSUME NEW p \in Proc, Lock(p) PROVE WriterInv'
      BY <2>2, <2>O DEF Lock
    <2>3. ASSUME NEW p \in Proc, Refuse(p) PROVE WriterInv'
      BY <2>3, <2>O DEF Refuse, Finish
    <2>4. ASSUME NEW p \in Proc, Dump(p) PROVE WriterInv'
      <3>1. granted \subseteq Fresh(p)
        BY <2>4 DEF Dump, Fresh
      <3>2. granted \subseteq Mutated(op[p], Fresh(p), now)
        BY <2>4, <3>1 DEF Dump, Mutated
      <3> QED
        BY <2>4, <3>2, <2>O DEF Dump
    <2>5. ASSUME NEW p \in Proc, Replace(p) PROVE WriterInv'
      BY <2>5, <2>O DEF Replace, Rename
    <2>6. ASSUME NEW p \in Proc, Return(p) PROVE WriterInv'
      BY <2>6, <2>O DEF Return, Finish
    <2>7. ASSUME NEW p \in Proc, Crash(p) PROVE WriterInv'
      BY <2>7, <2>O DEF Crash, Finish
    <2>8. ASSUME NEW p \in Proc, LinearLoad(p) PROVE WriterInv'
      <3>1. PICK i \in Issue, from \in {file, Closed} :
              /\ handle' = [handle EXCEPT ![p] = from]
              /\ pending' = [pending EXCEPT ![p] = from.recs \cup {Lease(LinearBot, i, Perm)}]
        BY <2>8 DEF LinearLoad
      <3>2. handle'[p] = from /\ (file.recs \subseteq pending'[p] \/ from = Closed)
        BY <3>1
      <3>3. pc'[p] = "loaded" /\ UNCHANGED <<file, granted, now>>
        BY <2>8 DEF LinearLoad
      <3>4. QED
        BY <2>O, <3>1, <3>2, <3>3
    <2>9. ASSUME NEW p \in Proc, LinearSave(p) PROVE WriterInv'
      BY <2>9, <2>O DEF LinearSave, Finish, Rename, LoadFailed
    <2>10. CASE Tick
      <3>1. \A g \in granted' : g \in granted /\ Live(g, now')
        BY <2>10 DEF Tick
      <3> QED
        BY <2>10, <3>1 DEF Tick
    <2>11. CASE UNCHANGED vars
      BY <2>11 DEF vars
    <2>12. QED
      BY <2>1, <2>2, <2>3, <2>4, <2>5, <2>6, <2>7, <2>8, <2>9, <2>10, <2>11
      DEF Next, Step
  <1>3. QED
    BY <1>1, <1>2, TypeCorrect, PTL DEF Spec

\* With one worker no lease a caller holds is ever lost from leases.yml, whatever is
\* acquired, released, pruned or assigned meanwhile and wherever the worker dies, except
\* to an assignment whose load failed, which wipes the leases and the history alike.
THEOREM OneWriterBacked == ASSUME OneWriter PROVE Spec => []GrantsBacked
  <1>1. WriterInv => GrantsBacked
    BY DEF WriterInv
  <1> QED
    BY <1>1, OneWriterInv, PTL

\* With one worker no runner is ever held by two principals, counting the leases that no
\* failed load has wiped.
THEOREM OneWriterExclusion == ASSUME OneWriter PROVE Spec => []NoDoubleGrant
  <1>1. TypeOK /\ WriterInv /\ StoreSound => NoDoubleGrant
    <2> SUFFICES ASSUME TypeOK, WriterInv, StoreSound, NEW g \in granted, NEW h \in granted,
                        g.runner = h.runner
                 PROVE  g.principal = h.principal
      BY DEF NoDoubleGrant
    <2>1. g \in Record /\ h \in Record /\ g \in file.recs /\ h \in file.recs
      BY DEF TypeOK, WriterInv, GrantsBacked
    <2>2. CASE g.runner \in Runner
      BY <2>1, <2>2 DEF StoreSound, Sound
    <2>3. CASE g.runner \in Issue
      BY <2>1, <2>3, RecordFields
    <2> QED
      BY <2>1, <2>2, <2>3, RecordFields
  <1> QED
    BY <1>1, TypeCorrect, OneWriterInv, StoreIsSound, PTL

-----------------------------------------------------------------------------
(***************************************************************************)
(* What a process is about to rename, with any number of workers: its      *)
(* operation applied to the list it has read, pruned at the moment of the  *)
(* dump (since then only the clock has moved), or that list and one        *)
(* assignment.  The list is the present one while its inode is.            *)
(***************************************************************************)

LiveAt(recs, t) == {x \in recs : Live(x, t)}

\* The operation o turns recs, pruned at time t, into out.
OneOperation(o, recs, t, out) ==
  ~Refused(o, LiveAt(recs, t)) /\ out = Mutated(o, LiveAt(recs, t), t)

Prepared(p) ==
  /\ pc[p] = "dumped" =>
       \E t \in 0 .. now : OneOperation(op[p], handle[p].recs, t, pending[p])
  /\ pc[p] = "loaded" =>
       /\ \E i \in Issue : pending[p] = handle[p].recs \cup {Lease(LinearBot, i, Perm)}
       /\ LoadFailed(p) => ReadFaults

\* A handle of the inode that leases.yml is linked to shows what is in leases.yml.
ShowsFile(p) == handle[p].ino = file.ino => handle[p].recs = file.recs

\* What a process is about to write is one operation on what it has read.
LEMMA AlwaysPrepared == Spec => [](\A p \in Proc : Prepared(p))
  <1> DEFINE Inv == \A p \in Proc : Prepared(p)
  <1>1. Init => Inv
    BY DEF Init, Prepared
  <1>2. TypeOK /\ Inv /\ [Next]_vars => Inv'
    <2> SUFFICES ASSUME TypeOK, Inv, [Next]_vars, NEW p \in Proc
                 PROVE  Prepared(p)'
      OBVIOUS
    <2>P. \A t \in Nat : OneOperation(op[p], handle[p].recs, t, pending[p])'
                          <=> OneOperation(op'[p], handle'[p].recs, t, pending'[p])
      BY DEF OneOperation, LiveAt, Live, Refused, Mutated, Targets, Lease
    <2>N. now \in Nat
      BY LeaseStoreAssumption DEF TypeOK
    <2>0. ASSUME pc'[p] = pc[p], op'[p] = op[p], handle'[p] = handle[p],
                 pending'[p] = pending[p], now' \in {now, now + 1}
          PROVE  Prepared(p)'
      <3>1. 0 .. now \subseteq 0 .. now'
        BY <2>N, <2>0
      <3>2. now' \in Nat
        BY <2>N, <2>0
      <3>3. QED
        BY <2>0, <3>1, <3>2, <2>P DEF Prepared, LoadFailed
    <2>1. ASSUME NEW q \in Proc, Dump(q) PROVE Prepared(p)'
      <3>1. CASE q = p
        <4>1. /\ pc'[p] = "dumped" /\ UNCHANGED <<op, handle, now>>
              /\ pending'[p] = Mutated(op[p], Fresh(p), now) /\ ~Refused(op[p], Fresh(p))
          BY <2>1, <3>1 DEF Dump, Goto, TypeOK
        <4>2. Fresh(p) = LiveAt(handle[p].recs, now)
          BY DEF Fresh, LiveAt
        <4>3. OneOperation(op'[p], handle'[p].recs, now, pending'[p])
          BY <4>1, <4>2 DEF OneOperation
        <4>4. QED
          BY <4>1, <4>3, <2>N, <2>P DEF Prepared
      <3>2. CASE q # p
        BY <2>1, <3>2, <2>0 DEF Dump, Goto, TypeOK
      <3>3. QED
        BY <3>1, <3>2
    <2>2. ASSUME NEW q \in Proc, LinearLoad(q) PROVE Prepared(p)'
      <3>1. CASE q = p
        <4>1. PICK i \in Issue, from \in {file} \cup (IF ReadFaults THEN {Closed} ELSE {}) :
                /\ handle' = [handle EXCEPT ![p] = from]
                /\ pending' = [pending EXCEPT ![p] = from.recs \cup {Lease(LinearBot, i, Perm)}]
          BY <2>2, <3>1 DEF LinearLoad
        <4>2. /\ pc'[p] = "loaded" /\ handle'[p] = from
              /\ pending'[p] = handle'[p].recs \cup {Lease(LinearBot, i, Perm)}
          BY <2>2, <3>1, <4>1 DEF LinearLoad, Goto, TypeOK
        <4>3. handle'[p] = Closed => ReadFaults
          BY <4>1, <4>2, LeaseStoreAssumption DEF TypeOK, Closed, Inode
        <4>4. QED
          BY <4>2, <4>3 DEF Prepared, LoadFailed, Lease
      <3>2. CASE q # p
        BY <2>2, <3>2, <2>0 DEF LinearLoad, Goto, TypeOK
      <3>3. QED
        BY <3>1, <3>2
    <2>3. CASE Tick
      BY <2>3, <2>0 DEF Tick
    <2>4. ASSUME NEW q \in Proc, Open(q) \/ Lock(q) \/ Refuse(q) \/ Replace(q) \/ Return(q)
                                 \/ Crash(q) \/ LinearSave(q)
          PROVE  Prepared(p)'
      <3>1. CASE q = p
        <4>1. pc'[p] \notin {"dumped", "loaded"}
          BY <2>4, <3>1
          DEF Open, Lock, Refuse, Replace, Return, Crash, LinearSave, Goto, Finish, TypeOK
        <4>2. QED
          BY <4>1 DEF Prepared
      <3>2. CASE q # p
        BY <2>4, <3>2, <2>0
        DEF Open, Lock, Refuse, Replace, Return, Crash, LinearSave, Goto, Finish, TypeOK
      <3>3. QED
        BY <3>1, <3>2
    <2>5. CASE UNCHANGED vars
      BY <2>5, <2>0 DEF vars
    <2>6. QED
      BY <2>1, <2>2, <2>3, <2>4, <2>5 DEF Next, Step
  <1>3. QED
    BY <1>1, <1>2, TypeCorrect, PTL DEF Spec

\* A rename takes an inode that nobody has open: who had read the old file can tell.
LEMMA AlwaysShowsFile == Spec => [](\A p \in Proc : ShowsFile(p))
  <1> DEFINE Inv == \A p \in Proc : ShowsFile(p)
  <1>1. Init => Inv
    BY DEF Init, ShowsFile, Closed
  <1>2. TypeOK /\ Inv /\ [Next]_vars => Inv'
    <2> SUFFICES ASSUME TypeOK, Inv, [Next]_vars, NEW p \in Proc
                 PROVE  ShowsFile(p)'
      OBVIOUS
    <2>I. file.ino # Closed.ino
      BY LeaseStoreAssumption DEF TypeOK, Inode, Closed
    <2>1. CASE file' = file
      <3>1. handle'[p] \in {handle[p], file, Closed}
        BY DEF Next, Step, Open, Lock, Refuse, Dump, Replace, Return, Crash, LinearLoad, LinearSave,
               Tick, Finish, vars, TypeOK
      <3>2. QED
        BY <2>1, <2>I, <3>1 DEF ShowsFile
    <2>2. CASE \E q \in Proc : Replace(q) \/ LinearSave(q)
      <3>1. handle'[p] \in {handle[p], Closed}
        BY <2>2 DEF Replace, LinearSave, Finish, TypeOK
      <3>2. file'.ino \in Inode /\ file'.ino # handle[p].ino
        BY <2>2 DEF Replace, LinearSave, Rename, FreeInode
      <3>3. handle'[p].ino # file'.ino
        BY <3>1, <3>2, LeaseStoreAssumption DEF Closed, Inode
      <3>4. QED
        BY <3>3 DEF ShowsFile
    <2>3. QED
      BY <2>1, <2>2
      DEF Next, Step, Open, Lock, Refuse, Dump, Return, Crash, LinearLoad, Tick, vars
  <1>3. QED
    BY <1>1, <1>2, TypeCorrect, PTL DEF Spec

\* What is live now was live at any earlier time: nothing that lives is pruned.
LEMMA LiveBefore ==
  ASSUME TypeOK, NEW t \in 0 .. now, NEW x \in Record, Live(x, now)
  PROVE  Live(x, t)
<1>1. now \in Nat /\ (x.exp = Perm \/ x.exp \in Nat)
  BY LeaseStoreAssumption DEF TypeOK, Record
<1>2. QED
  BY <1>1 DEF Live

-----------------------------------------------------------------------------
(***************************************************************************)
(* With any number of workers: a rename does to the leases it has read     *)
(* what its operation says, and nothing else.                              *)
(***************************************************************************)

\* Steps that move neither leases.yml nor the clock are no steps of the service; those that
\* do are a rename by one of the two programs, and the clock.
LEMMA StepsOfFile ==
  ASSUME [Next]_vars
  PROVE  \/ UNCHANGED <<file, now>>
         \/ Tick
         \/ \E p \in Proc : Replace(p) \/ LinearSave(p)
BY DEF Next, Step, Open, Lock, Refuse, Dump, Return, Crash, LinearLoad, vars

\* What a rename does to each record: a live one goes only if the operation takes it or
\* never read it, and one that comes is the operation's own or was read in an older file.
LEMMA RenameIsLocal ==
  ASSUME TypeOK, NEW p \in Proc, Prepared(p), ShowsFile(p), Replace(p) \/ LinearSave(p)
  PROVE  /\ pc[p] # pc'[p]
         /\ \A x \in file.recs :
              \/ x \in file'.recs \/ ~Live(x, now) \/ Targets(op[p], x)
              \/ x \notin handle[p].recs /\ handle[p].ino # file.ino
         /\ \A x \in file'.recs :
              \/ x \in file.recs \/ x.principal = LinearBot
              \/ op[p].kind = "acquire" /\ Targets(op[p], x)
              \/ x \in handle[p].recs /\ handle[p].ino # file.ino
<1>1. CASE Replace(p)
  <2>1. PICK t \in 0 .. now : OneOperation(op[p], handle[p].recs, t, pending[p])
    BY <1>1 DEF Replace, Goto, Prepared
  <2>2. file'.recs = Mutated(op[p], LiveAt(handle[p].recs, t), t)
    BY <1>1, <2>1 DEF OneOperation, Replace, Rename
  <2>3. handle[p].recs \subseteq Record
    BY DEF TypeOK
  <2>4. \A x \in handle[p].recs : Live(x, now) => x \in LiveAt(handle[p].recs, t)
    BY <2>3, LiveBefore DEF LiveAt
  <2>5. LiveAt(handle[p].recs, t) \subseteq handle[p].recs
    BY DEF LiveAt
  <2>6. pc[p] = "dumped" /\ pc'[p] = "replaced"
    BY <1>1 DEF Replace, Goto, TypeOK
  <2>7. QED
    BY <2>2, <2>4, <2>5, <2>6 DEF Mutated, Targets, Lease, ShowsFile
<1>2. CASE LinearSave(p)
  <2>1. PICK i \in Issue : pending[p] = handle[p].recs \cup {Lease(LinearBot, i, Perm)}
    BY <1>2 DEF LinearSave, Prepared
  <2>2. file'.recs = handle[p].recs \cup {Lease(LinearBot, i, Perm)}
    BY <1>2, <2>1 DEF LinearSave, Rename
  <2>3. pc[p] = "loaded" /\ pc'[p] = "idle"
    BY <1>2 DEF LinearSave, Finish, TypeOK
  <2>4. QED
    BY <2>2, <2>3 DEF Lease, ShowsFile
<1>3. QED
  BY <1>1, <1>2

\* However many workers there are, an operation loses no live lease it has read but the
\* one it releases or renews, and brings back none but those it had read before another
\* rename overtook it.
THEOREM ChangesOnlyItsOwn == Spec => OnlyOwnEffects
<1>1. TypeOK /\ (\A p \in Proc : Prepared(p)) /\ (\A p \in Proc : ShowsFile(p)) /\ [Next]_vars
        => [LosesOnlyUnread /\ AddsOnlyRead]_vars
  <2> SUFFICES ASSUME TypeOK, \A p \in Proc : Prepared(p), \A p \in Proc : ShowsFile(p),
                      [Next]_vars
               PROVE  LosesOnlyUnread /\ AddsOnlyRead
    OBVIOUS
  <2>1. CASE UNCHANGED <<file, now>> \/ Tick
    BY <2>1 DEF Tick, LosesOnlyUnread, AddsOnlyRead
  <2>2. CASE \E p \in Proc : Replace(p) \/ LinearSave(p)
    <3>1. LosesOnlyUnread
      BY <2>2, RenameIsLocal DEF LosesOnlyUnread, Overtaken
    <3>2. AddsOnlyRead
      BY <2>2, RenameIsLocal DEF AddsOnlyRead, Overtaken
    <3> QED BY <3>1, <3>2
  <2>3. QED
    BY <2>1, <2>2, StepsOfFile
<1>2. QED
  BY <1>1, TypeCorrect, AlwaysPrepared, AlwaysShowsFile, PTL DEF Spec, OnlyOwnEffects

-----------------------------------------------------------------------------
(***************************************************************************)
(* One worker implements the service: what it renames is one operation on  *)
(* the present leases.yml, or an assignment that forgets the leases.       *)
(***************************************************************************)

\* A locked operation that renames is an operation of the service on what leases.yml
\* says at that moment.  (The bound on durations is the one of the service's Expiry.)
LEMMA ReplaceIsOperation ==
  ASSUME TypeOK, StoreSound, IsFiniteSet(file.recs), Duration \subseteq 0 .. MaxTime,
         NEW p \in Proc, Prepared(p), handle[p] = file, Replace(p)
  PROVE  Service!Next \/ UNCHANGED <<file.recs, now>>
<1> DEFINE o == op[p]
<1>1. PICK t \in 0 .. now : OneOperation(o, file.recs, t, pending[p])
  BY DEF Replace, Goto, Prepared
<1> DEFINE old == LiveAt(file.recs, t)
           kept == {x \in old : ~Targets(o, x)}
<1>2. /\ ~Refused(o, old)
      /\ file'.recs = Mutated(o, old, t)
      /\ now' = now
  BY <1>1 DEF OneOperation, Replace, Rename
<1>3. /\ o \in LockedOp /\ now \in Nat /\ t \in Nat /\ t <= now
      /\ file.recs \subseteq Record
  BY LeaseStoreAssumption DEF TypeOK
<1>4. old \subseteq file.recs /\ \A x \in file.recs : Live(x, now) => x \in old
  BY <1>3, LiveBefore DEF LiveAt
<1> HIDE DEF o, old
<1>5. \A x, e : Service!Live(x, e) <=> Live(x, e)
  BY DEF Service!Live, Live
<1>6. Service!LiveLeases \subseteq old
  BY <1>4, <1>5 DEF Service!LiveLeases
<1>7. CASE o.kind = "acquire"
  <2> DEFINE q == o.who
             r == o.runner
             e == t + o.dur
  <2>1. q \in Principal /\ r \in Runner /\ o.dur \in Duration
    BY <1>3, <1>7 DEF LockedOp, AcquireOp, ReleaseOp, PruneOp
  <2>2. e \in Service!Expiry /\ e <= now + o.dur
    <3>1. o.dur \in 0 .. MaxTime /\ now \in 0 .. MaxTime /\ MaxTime \in Nat
      BY <2>1, LeaseStoreAssumption DEF TypeOK
    <3>2. QED
      BY ONLY <1>3, <3>1 DEF Service!Expiry
  <2>3. file'.recs = kept \cup {Service!Lease(q, r, e)}
    BY <1>2, <1>7 DEF Mutated, Service!Lease, Lease
  <2>4. \A x \in old : x.runner = r => x.principal = q
    BY <1>2, <1>7 DEF Refused
  <2>5. \A x \in kept : x.runner # r
    BY <1>7, <2>4 DEF Targets
  <2>6. \A x \in old : x \notin kept => x.runner = r
    BY <1>7 DEF Targets
  <2> HIDE DEF kept
  <2>7. kept \subseteq old
    BY DEF kept
  <2>8. Service!Keeping(kept, Service!On(r))
    BY <1>4, <1>6, <2>5, <2>6, <2>7 DEF Service!Keeping, Service!On, Service!LiveLeases
  <2>9. Cardinality({x \in Service!LiveLeases \ Service!On(r) : x.principal = q}) < MaxRunners[q]
    <3> DEFINE A == {x \in Service!LiveLeases \ Service!On(r) : x.principal = q}
               B == {x \in old : x.principal = q}
               C == {x \in file.recs : x.principal = q}
    <3>1. A \subseteq B /\ B \subseteq C
      BY <1>4, <1>6
    <3>2. IsFiniteSet(C) /\ IsFiniteSet(B) /\ IsFiniteSet(A)
      BY <3>1, FS_Subset
    <3>3. /\ Cardinality(A) \in Nat /\ Cardinality(B) \in Nat /\ Cardinality(C) \in Nat
          /\ Cardinality(A) <= Cardinality(B) /\ Cardinality(B) <= Cardinality(C)
      BY <3>1, <3>2, FS_Subset, FS_CardinalityType
    <3>4. Cardinality(C) <= MaxRunners[q] /\ MaxRunners[q] \in Nat
      BY <2>1, LeaseStoreAssumption DEF StoreSound, Sound
    <3>5. CASE \A x \in old : x.runner # r
      <4>1. ~(Cardinality(B) >= MaxRunners[q])
        BY <1>2, <1>7, <3>5 DEF Refused
      <4>2. QED
        BY <3>3, <3>4, <4>1
    <3>6. CASE \E x \in old : x.runner = r
      <4>1. PICK x \in old : x.runner = r
        BY <3>6
      <4>2. x \in B /\ x \notin A /\ A \subseteq B \ {x}
        BY <1>4, <2>4, <3>1, <4>1 DEF Service!On
      <4> HIDE DEF A, B, C
      <4>3. IsFiniteSet(B \ {x}) /\ Cardinality(B \ {x}) = Cardinality(B) - 1
        BY <3>2, <4>2, FS_RemoveElement
      <4>4. Cardinality(A) <= Cardinality(B \ {x})
        BY <4>2, <4>3, FS_Subset
      <4>5. QED
        BY <3>3, <3>4, <4>3, <4>4 DEF A
    <3>7. QED
      BY <3>5, <3>6
  <2>10. kept \in SUBSET file.recs
    BY <1>4, <2>7
  <2>11. \A x \in Service!LiveLeases : x.runner = r => x.principal = q
    BY <1>6, <2>4
  <2> HIDE DEF q, r, e
  <2>12. Service!Grant(q, r, e)
    BY <1>2, <2>1, <2>2, <2>3, <2>8, <2>9, <2>10, <2>11 DEF Service!Grant, Service!Cardinality, Cardinality
  <2>13. QED
    BY <2>1, <2>2, <2>12 DEF Service!Next, q, r
<1>8. CASE o.kind = "release"
  <2> DEFINE gone == {x \in file.recs : Targets(o, x)}
  <2>1. o.runner \in Runner
    BY <1>3, <1>8 DEF LockedOp, AcquireOp, ReleaseOp, PruneOp
  <2>2. file'.recs = kept
    BY <1>2, <1>8 DEF Mutated
  <2>3. gone \in SUBSET Service!On(o.runner)
    BY <1>8 DEF Targets, Service!On
  <2>4. Service!Keeping(file'.recs, gone)
    BY <1>4, <1>6, <2>2 DEF Service!Keeping, Service!LiveLeases
  <2>5. Service!Release(o.runner)
    BY <1>2, <2>3, <2>4 DEF Service!Release
  <2>6. QED
    BY <2>1, <2>5 DEF Service!Next
<1>9. CASE o.kind = "prune"
  <2>1. file'.recs = old
    BY <1>2, <1>9 DEF Mutated, Targets
  <2>2. CASE \E r \in Runner : TRUE
    <3>1. PICK r \in Runner : TRUE
      BY <2>2
    <3>2. {} \in SUBSET Service!On(r) /\ Service!Keeping(file'.recs, {})
      BY <1>4, <1>6, <2>1 DEF Service!Keeping
    <3>3. Service!Release(r)
      BY <1>2, <3>2 DEF Service!Release
    <3>4. QED
      BY <3>3 DEF Service!Next
  <2>3. CASE Runner = {}
    <3>1. \A x \in file.recs : x.exp = Perm
      BY <1>3, <2>3 DEF Record
    <3>2. file'.recs = file.recs
      BY <1>4, <2>1, <3>1 DEF Live
    <3>3. QED
      BY <1>2, <3>2
  <2>4. QED
    BY <2>2, <2>3
<1>10. QED
  BY <1>3, <1>7, <1>8, <1>9 DEF LockedOp, AcquireOp, ReleaseOp, PruneOp

\* With one worker, and loads that may fail, the store implements the service: every rename
\* is one atomic operation on the leases (after a failed load the assignment that forgets
\* them), and every other step is invisible.
THEOREM OneWriterImplements ==
  ASSUME OneWriter, Duration \subseteq 0 .. MaxTime
  PROVE  Spec => ImplementsService
<1>1. Init => Service!Init
  BY DEF Init, Service!Init
<1>2. ASSUME TypeOK, WriterInv, StoreSound, IsFiniteSet(file.recs),
             \A p \in Proc : Prepared(p), [Next]_vars
      PROVE  [Service!Next]_Service!vars
  <2> SUFFICES Service!Next \/ UNCHANGED <<file.recs, now>>
    BY DEF Service!vars
  <2>1. ASSUME NEW p \in Proc, Replace(p)
        PROVE  Service!Next \/ UNCHANGED <<file.recs, now>>
    <3>1. handle[p] = file /\ Prepared(p)
      BY <1>2, <2>1 DEF Replace, Goto, WriterInv, WriterKnows
    <3>2. QED
      BY <1>2, <2>1, <3>1, ReplaceIsOperation
  <2>2. ASSUME NEW p \in Proc, LinearSave(p)
        PROVE  Service!Next
    <3>1. PICK i \in Issue : pending[p] = handle[p].recs \cup {Lease(LinearBot, i, Perm)}
      BY <1>2, <2>2 DEF LinearSave, Prepared
    <3>2. \/ handle[p].recs = file.recs
          \/ ReadFaults /\ handle[p].recs = {}
      BY <1>2, <2>2 DEF LinearSave, Prepared, LoadFailed, Closed, WriterInv, WriterKnows
    <3>3. file'.recs = handle[p].recs \cup {Lease(LinearBot, i, Perm)} /\ now' = now
      BY <2>2, <3>1 DEF LinearSave, Rename
    <3>4. Service!Assign(i)
      BY <3>2, <3>3 DEF Service!Assign, Service!Lease, Lease
    <3>5. QED
      BY <3>4 DEF Service!Next
  <2>3. CASE Tick
    BY <2>3 DEF Tick, Service!Tick, Service!Next
  <2>4. QED
    BY <1>2, <2>1, <2>2, <2>3, StepsOfFile
<1>3. SnapshotsSound => IsFiniteSet(file.recs)
  BY DEF SnapshotsSound, SoundSet
<1>4. QED
  BY <1>1, <1>2, <1>3, TypeCorrect, OneWriterInv, StoreIsSound, SnapshotsStaySound,
     AlwaysPrepared, PTL
     DEF Spec, ImplementsService, Service!Spec
=============================================================================

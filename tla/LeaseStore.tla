----------------------------- MODULE LeaseStore -----------------------------
(***************************************************************************)
(* The runner-lease store of backend/runner_lease.py: leases.yml shared by *)
(* server workers.  Every operation but linear_sync's opens the file,      *)
(* takes an exclusive flock on the file it OPENED, reads it, prunes,       *)
(* mutates, writes a temporary file, renames that over leases.yml while    *)
(* holding the lock, and unlocks.  The lock belongs to the inode, and the  *)
(* rename gives the name another inode: who waits for the old inode's lock *)
(* then reads the old inode.  An inode is never written once it is linked, *)
(* so an open handle is the inode's number with its contents.              *)
(***************************************************************************)
EXTENDS Integers, FiniteSets

CONSTANTS
  Proc,        \* server workers (WORKERS), each running one operation at a time
  Principal, Runner, Issue, LinearBot, MaxRunners, Duration, Perm,
               \* as in LeaseService
  Anyone,      \* release_lease's principal_id = None
  ReadFaults,  \* TRUE when load_leases may fail and answer []
  MaxInode,    \* bound on inode numbers; MaxInode > |Proc| + 1 is enough
  MaxTime      \* bound on the clock

ASSUME LeaseStoreAssumption ==
  /\ LinearBot \notin Principal
  /\ Anyone \notin Principal
  /\ Runner \cap Issue = {}
  /\ MaxRunners \in [Principal -> Nat]
  /\ Duration \subseteq Nat
  /\ Perm \notin Nat
  /\ ReadFaults \in BOOLEAN
  /\ MaxInode \in Nat \ {0}
  /\ MaxTime \in Nat

VARIABLES
  file,     \* the inode the name leases.yml is linked to, and its records
  pc,       \* where each process is in its operation
  op,       \* the operation each process runs
  handle,   \* the inode each process has open, or loaded from
  pending,  \* the records a process is about to write
  granted,  \* history: leases returned to a caller, neither given up nor expired,
            \* nor wiped by the save of an assignment whose load failed
  now       \* time.time()

vars == <<file, pc, op, handle, pending, granted, now>>

-----------------------------------------------------------------------------
Record == [principal : Principal, runner : Runner, exp : Nat]
          \cup [principal : {LinearBot}, runner : Issue, exp : {Perm}]

AcquireOp == [kind : {"acquire"}, who : Principal, runner : Runner, dur : Duration]
ReleaseOp == [kind : {"release"}, who : Principal \cup {Anyone}, runner : Runner]
PruneOp   == [kind : {"prune"}]
LockedOp  == AcquireOp \cup ReleaseOp \cup PruneOp
Prune     == [kind |-> "prune"]

Lease(q, r, e) == [principal |-> q, runner |-> r, exp |-> e]

Live(x, t) == x.exp = Perm \/ x.exp > t

Inode == 1 .. MaxInode
Closed == [ino |-> 0, recs |-> {}]

Locking == {"locked", "dumped", "replaced"}   \* pc values that hold the flock

FreeInode == Inode \ ({file.ino} \cup {handle[p].ino : p \in Proc})

-----------------------------------------------------------------------------
\* Does release / acquire o take record x away from its holder?
Targets(o, x) ==
  \/ /\ o.kind = "acquire"
     /\ x.runner = o.runner /\ x.principal = o.who
  \/ /\ o.kind = "release"
     /\ x.runner = o.runner /\ o.who \in {x.principal, Anyone}

\* Mutant: the quota is compared with > .
RefusedOneLate(o, recs) ==
  /\ o.kind = "acquire"
  /\ \/ \E x \in recs : x.runner = o.runner /\ x.principal # o.who
     \/ /\ \A x \in recs : x.runner # o.runner
        /\ Cardinality({x \in recs : x.principal = o.who}) > MaxRunners[o.who]

\* acquire_lease raises: ValueError (leased by another), PermissionError (quota).
Refused(o, recs) ==
  /\ o.kind = "acquire"
  /\ \/ \E x \in recs : x.runner = o.runner /\ x.principal # o.who
     \/ /\ \A x \in recs : x.runner # o.runner
        /\ Cardinality({x \in recs : x.principal = o.who}) >= MaxRunners[o.who]

\* Mutant: a release ignores principal_id.
MutatedAnyHolder(o, recs, t) ==
  {x \in recs : o.kind = "prune" \/ x.runner # o.runner}
    \cup (IF o.kind = "acquire" THEN {Lease(o.who, o.runner, t + o.dur)} ELSE {})

\* What the operation's mutate returns for the pruned records at time t.
Mutated(o, recs, t) ==
  {x \in recs : ~Targets(o, x)}
    \cup (IF o.kind = "acquire" THEN {Lease(o.who, o.runner, t + o.dur)} ELSE {})

Init ==
  /\ file = [ino |-> 1, recs |-> {}]
  /\ pc = [p \in Proc |-> "idle"]
  /\ op = [p \in Proc |-> Prune]
  /\ handle = [p \in Proc |-> Closed]
  /\ pending = [p \in Proc |-> {}]
  /\ granted = {}
  /\ now = 0

Goto(p, from, to) == pc[p] = from /\ pc' = [pc EXCEPT ![p] = to]

\* The operation is over: the handle is closed, and with it the lock is free.
Finish(p) ==
  /\ pc' = [pc EXCEPT ![p] = "idle"]
  /\ op' = [op EXCEPT ![p] = Prune]
  /\ handle' = [handle EXCEPT ![p] = Closed]
  /\ pending' = [pending EXCEPT ![p] = {}]

\* The name leases.yml goes to a new inode with the records recs.
Rename(recs) ==
  \E i \in FreeInode :
    /\ \A j \in FreeInode : i <= j
    /\ file' = [ino |-> i, recs |-> recs]

-----------------------------------------------------------------------------
\* touch and open.  A caller that acquires again or releases has let go of
\* the lease it held.
Open(p) ==
  /\ Goto(p, "idle", "opened")
  /\ \E o \in LockedOp :
        /\ op' = [op EXCEPT ![p] = o]
        /\ granted' = {g \in granted : ~Targets(o, g)}
  /\ handle' = [handle EXCEPT ![p] = file]
  /\ UNCHANGED <<file, pending, now>>

\* Mutant: the lock is free only when nobody else has the file open.
LockWhenAlone(p) ==
  /\ Goto(p, "opened", "locked")
  /\ \A q \in Proc : q # p => handle[q].ino # handle[p].ino
  /\ UNCHANGED <<file, op, handle, pending, granted, now>>

\* flock(LOCK_EX) returns: no other process holds the lock of this inode.
Lock(p) ==
  /\ Goto(p, "opened", "locked")
  /\ \A q \in Proc : pc[q] \in Locking => handle[q].ino # handle[p].ino
  /\ UNCHANGED <<file, op, handle, pending, granted, now>>

\* Mutant: a lease is pruned one second early.
FreshEarly(p) == {x \in handle[p].recs : Live(x, now + 1)}

\* The expiry sweep over the records read from the handle.
Fresh(p) == {x \in handle[p].recs : Live(x, now)}

\* acquire_lease's mutate raises; the context manager unlocks.
Refuse(p) ==
  /\ pc[p] = "locked"
  /\ Refused(op[p], Fresh(p))
  /\ Finish(p)
  /\ UNCHANGED <<file, granted, now>>

\* Read the handle, prune, mutate, dump to a private temporary file.
Dump(p) ==
  /\ Goto(p, "locked", "dumped")
  /\ ~Refused(op[p], Fresh(p))
  /\ pending' = [pending EXCEPT ![p] = Mutated(op[p], Fresh(p), now)]
  /\ UNCHANGED <<file, op, handle, granted, now>>

\* os.replace, with the lock of the inode that was opened still held.
Replace(p) ==
  /\ Goto(p, "dumped", "replaced")
  /\ Rename(pending[p])
  /\ UNCHANGED <<op, handle, pending, granted, now>>

\* Unlock, close and return: an acquirer now holds the record it wrote.
Return(p) ==
  /\ pc[p] = "replaced"
  /\ granted' = granted \cup
       {x \in pending[p] : op[p].kind = "acquire" /\ Targets(op[p], x) /\ Live(x, now)}
  /\ Finish(p)
  /\ UNCHANGED <<file, now>>

\* The process dies, or the dump or the rename raises OSError: the temporary
\* file is not renamed, and the kernel or the context manager drops the lock.
Crash(p) ==
  /\ pc[p] # "idle"
  /\ Finish(p)
  /\ UNCHANGED <<file, granted, now>>

\* Mutant: the assignment expires like an acquired lease.
LinearLoadExpiring(p) ==
  /\ Goto(p, "idle", "loaded")
  /\ handle' = [handle EXCEPT ![p] = file]
  /\ \E i \in Issue : pending' = [pending EXCEPT ![p] = file.recs \cup {Lease(LinearBot, i, now)}]
  /\ UNCHANGED <<file, op, granted, now>>

\* linear_sync._create_runner_assignment: a new LeaseManager loads without
\* the lock; a load that fails leaves it with no leases at all.
LinearLoad(p) ==
  /\ Goto(p, "idle", "loaded")
  /\ \E i \in Issue, from \in {file} \cup (IF ReadFaults THEN {Closed} ELSE {}) :
        /\ handle' = [handle EXCEPT ![p] = from]
        /\ pending' = [pending EXCEPT ![p] = from.recs \cup {Lease(LinearBot, i, Perm)}]
  /\ UNCHANGED <<file, op, granted, now>>

LoadFailed(p) == handle[p] = Closed

\* ... and save_leases renames without the lock.  After a failed load this wipes
\* every lease, and the history says so.
LinearSave(p) ==
  /\ pc[p] = "loaded"
  /\ Rename(pending[p])
  /\ granted' = {g \in granted : LoadFailed(p) => g \in pending[p]}
  /\ Finish(p)
  /\ UNCHANGED now

Tick ==
  /\ now < MaxTime
  /\ now' = now + 1
  /\ granted' = {g \in granted : Live(g, now + 1)}
  /\ UNCHANGED <<file, pc, op, handle, pending>>

Step(p) ==
  \/ Lock(p) \/ Refuse(p) \/ Dump(p) \/ Replace(p) \/ Return(p) \/ LinearSave(p)

Next ==
  \/ \E p \in Proc : Step(p) \/ Open(p) \/ LinearLoad(p) \/ Crash(p)
  \/ Tick

Spec == Init /\ [][Next]_vars

\* An operation that has begun runs on (it contains no await), and flock
\* serves its waiters: strong fairness, since others come and go meanwhile.
FairSpec == Spec /\ \A p \in Proc : WF_vars(Step(p)) /\ SF_vars(Lock(p))

-----------------------------------------------------------------------------
\* The shape of the store, of the open handles and of what is about to be
\* written: linear_sync's records never expire, acquired ones always do.
TypeOK ==
  /\ file \in [ino : Inode, recs : SUBSET Record]
  /\ pc \in [Proc -> {"idle", "opened", "loaded"} \cup Locking]
  /\ op \in [Proc -> LockedOp]
  /\ handle \in [Proc -> [ino : 0 .. MaxInode, recs : SUBSET Record]]
  /\ pending \in [Proc -> SUBSET Record]
  /\ granted \subseteq Record
  /\ now \in 0 .. MaxTime

\* One record per runner and no principal above its quota.  (The records of one
\* issue, which linear_sync writes anew after every restart, are one record here.)
Sound(recs) ==
  /\ \A x, y \in recs : x.runner = y.runner /\ x.runner \in Runner => x = y
  /\ \A q \in Principal :
        Cardinality({x \in recs : x.principal = q}) <= MaxRunners[q]

\* Whatever processes race, die or overwrite one another, leases.yml is always
\* a consistent set of leases: no runner twice, no quota exceeded.  It guards
\* acquire_lease's checks, which run on the records of the handle, against a
\* file that several processes rename.
StoreSound == Sound(file.recs)

\* A lease acquire_lease returned stays in leases.yml until it is released, renewed,
\* expired or wiped by an assignment whose load failed: the reaper, linear_sync and the
\* autoscaler rely on it.
GrantsBacked == granted \subseteq file.recs

\* Two principals never hold one runner at the same time, leases that a failed load has
\* wiped aside.
NoDoubleGrant == \A g, h \in granted : g.runner = h.runner => g.principal = h.principal

\* p is about to rename although leases.yml is no longer what p has read (another rename
\* overtook it, or its load failed).
Overtaken(p) == pc[p] # pc'[p] /\ handle[p].ino # file.ino

\* A live lease leaves leases.yml only by the operation that releases or renews it, or by
\* one that was overtaken and never read it: a prune tick removes what has expired in the
\* list it read under its lock (issue 936), and a lost lease is the trace of a second
\* writer or of a failed load, never of one operation's own arithmetic.
LosesOnlyUnread ==
  \A x \in file.recs :
     \/ x \in file'.recs
     \/ ~Live(x, now)
     \/ \E p \in Proc : pc[p] # pc'[p] /\ Targets(op[p], x)
     \/ \E p \in Proc : Overtaken(p) /\ x \notin handle[p].recs

\* A record enters leases.yml only by the acquire_lease that creates it, by linear_sync,
\* or out of an older leases.yml that an overtaken operation had read: what was released,
\* renewed or pruned is brought back by no operation that read the present leases.yml.
AddsOnlyRead ==
  \A x \in file'.recs :
     \/ x \in file.recs
     \/ x.principal = LinearBot
     \/ \E p \in Proc : pc[p] # pc'[p] /\ op[p].kind = "acquire" /\ Targets(op[p], x)
     \/ \E p \in Proc : Overtaken(p) /\ x \in handle[p].recs

\* However many workers race, an operation changes of what it has read only its own: it
\* loses no live lease of others that it read, and brings back none that it did not read.
OnlyOwnEffects == [][LosesOnlyUnread /\ AddsOnlyRead]_vars

\* No operation waits forever on the lock, whatever the others do or die of.
OperationsEnd == \A p \in Proc : pc[p] # "idle" ~> pc[p] = "idle"

Service == INSTANCE LeaseService WITH leases <- file.recs

\* With one worker the store implements the service: each rename is one atomic
\* operation on the leases of leases.yml, a failed load's included, and every other
\* step is invisible.
ImplementsService == Service!Spec
=============================================================================

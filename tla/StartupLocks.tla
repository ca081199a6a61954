---------------------------- MODULE StartupLocks ----------------------------
(***************************************************************************)
(* The lock files that autoscalers (runner_autoscaler._acquire_lock) and   *)
(* server workers (server._startup) walk when they start: create the       *)
(* directory, open the file, flock it without blocking, or go on to the    *)
(* next candidate.  They differ in what a held lock means: an autoscaler   *)
(* exits, a worker goes on; a worker that got none becomes a follower for  *)
(* good.  Workers with DASHBOARD_LEADER=1 lead without any lock.           *)
(***************************************************************************)
EXTENDS Integers, Sequences

CONSTANTS
  Autoscaler,  \* autoscaler processes on one host
  Worker,      \* server workers on that host
  Forced,      \* workers started with DASHBOARD_LEADER=1
  Path,        \* lock files, as the kernel tells them apart
  Candidates,  \* the walk of each process, unset entries left out
  World,       \* what may be the case: who can open which paths, and which can be locked
  MaxStarts    \* bound on the starts of each process

Inst == Autoscaler \cup Worker

ASSUME StartupLocksAssumption ==
  /\ Autoscaler \cap Worker = {}
  /\ Forced \subseteq Worker
  /\ Candidates \in [Inst -> Seq(Path)]
  /\ World \subseteq [usable: [Inst -> SUBSET Path], lockable: SUBSET Path]
  /\ MaxStarts \in [Inst -> Nat]

VARIABLES
  pc,        \* where each process is
  at,        \* index of the candidate it is at
  world,     \* the member of World that is the case: never changes
  starts     \* how many times each process has started

vars == <<pc, at, world, starts>>

Last(i) == Len(Candidates[i])
Candidate(i) == Candidates[i][at[i]]

Usable(i) == world.usable[i]

\* i could hold the n-th of its candidates if nobody else does.
Good(i, n) == Candidates[i][n] \in Usable(i) \cap world.lockable

HeldByOther(i) ==
  \E j \in Inst \ {i} : pc[j] = "holding" /\ Candidate(j) = Candidate(i)

Init ==
  /\ pc = [i \in Inst |-> "down"]
  /\ at = [i \in Inst |-> 1]
  /\ world \in World
  /\ starts = [i \in Inst |-> 0]

To(i, where) == pc' = [pc EXCEPT ![i] = where]

\* Mutant: a failed candidate takes the next one with it.
AdvanceTwice(i) ==
  /\ To(i, "walking")
  /\ at' = [at EXCEPT ![i] = @ + 2]

\* continue: on to the next candidate.
Advance(i) ==
  /\ To(i, "walking")
  /\ at' = [at EXCEPT ![i] = @ + 1]

\* Mutant: an autoscaler that gave up left with status 0, which
\* Restart=on-failure takes for success.
StartDown(i) ==
  /\ pc[i] = "down"
  /\ starts[i] < MaxStarts[i]
  /\ starts' = [starts EXCEPT ![i] = @ + 1]
  /\ To(i, "walking")
  /\ at' = [at EXCEPT ![i] = 1]
  /\ UNCHANGED <<world>>

\* The process starts, or its supervisor starts it again.
Start(i) ==
  /\ pc[i] \in {"down", "exited"}
  /\ starts[i] < MaxStarts[i]
  /\ starts' = [starts EXCEPT ![i] = @ + 1]
  /\ To(i, "walking")
  /\ at' = [at EXCEPT ![i] = 1]
  /\ UNCHANGED <<world>>

\* makedirs and open succeed.
OpenFile(i) ==
  /\ pc[i] = "walking" /\ at[i] <= Last(i)
  /\ Candidate(i) \in Usable(i)
  /\ To(i, "opened")
  /\ UNCHANGED <<at, world, starts>>

\* makedirs or open raises OSError.
SkipFile(i) ==
  /\ pc[i] = "walking" /\ at[i] <= Last(i)
  /\ Candidate(i) \notin Usable(i)
  /\ Advance(i)
  /\ UNCHANGED <<world, starts>>

\* flock succeeds: the autoscaler polls, the worker starts the background loops.
TakeLock(i) ==
  /\ pc[i] = "opened"
  /\ Candidate(i) \in world.lockable
  /\ ~HeldByOther(i)
  /\ To(i, "holding")
  /\ UNCHANGED <<at, world, starts>>

\* flock raises an OSError that does not mean the lock is held.
NoLocking(i) ==
  /\ pc[i] = "opened"
  /\ Candidate(i) \notin world.lockable
  /\ Advance(i)
  /\ UNCHANGED <<world, starts>>

\* The process dies; the kernel drops its lock.
Die(i) ==
  /\ pc[i] \notin {"down", "exited"}
  /\ To(i, "down")
  /\ UNCHANGED <<at, world, starts>>

-----------------------------------------------------------------------------
\* Mutant: a held lock is one more candidate that failed.
HeldExitNext(i) ==
  /\ pc[i] = "opened"
  /\ Candidate(i) \in world.lockable
  /\ HeldByOther(i)
  /\ Advance(i)
  /\ UNCHANGED <<world, starts>>

\* BlockingIOError in an autoscaler: another one runs; sys.exit(75).
HeldExit(i) ==
  /\ pc[i] = "opened"
  /\ Candidate(i) \in world.lockable
  /\ HeldByOther(i)
  /\ To(i, "exited")
  /\ UNCHANGED <<at, world, starts>>

\* Mutant: the check for a lock that was not acquired comes one candidate early.
NoneExitEarly(i) ==
  /\ pc[i] = "walking" /\ at[i] >= Last(i)
  /\ To(i, "exited")
  /\ UNCHANGED <<at, world, starts>>

\* No candidate could be locked: an autoscaler leaves with sys.exit(75).
NoneExit(i) ==
  /\ pc[i] = "walking" /\ at[i] > Last(i)
  /\ To(i, "exited")
  /\ UNCHANGED <<at, world, starts>>

\* DASHBOARD_LEADER=1: the loops start without any lock.
LeadForced(i) ==
  /\ pc[i] = "walking"
  /\ To(i, "leading")
  /\ UNCHANGED <<at, world, starts>>

\* BlockingIOError is an OSError: a worker closes the file and goes on.
HeldNext(i) ==
  /\ pc[i] = "opened"
  /\ Candidate(i) \in world.lockable
  /\ HeldByOther(i)
  /\ Advance(i)
  /\ UNCHANGED <<world, starts>>

\* Mutant: a worker gives up before its last candidate.
FollowEarly(i) ==
  /\ pc[i] = "walking" /\ at[i] >= Last(i)
  /\ To(i, "following")
  /\ UNCHANGED <<at, world, starts>>

\* No candidate acquired: a follower, which never tries again.
Follow(i) ==
  /\ pc[i] = "walking" /\ at[i] > Last(i)
  /\ To(i, "following")
  /\ UNCHANGED <<at, world, starts>>

Try(i) == OpenFile(i) \/ SkipFile(i) \/ TakeLock(i) \/ NoLocking(i)

\* What a process does by itself once it has started.
Walk(i) ==
  \/ i \in Autoscaler /\ (Try(i) \/ HeldExit(i) \/ NoneExit(i))
  \/ i \in Worker \ Forced /\ (Try(i) \/ HeldNext(i) \/ Follow(i))
  \/ i \in Forced /\ LeadForced(i)

Next == \E i \in Inst : Start(i) \/ Walk(i) \/ Die(i)

Spec == Init /\ [][Next]_vars

\* The walk waits for nothing; systemd starts an autoscaler that failed
\* (Restart=on-failure) until its start limit, uvicorn a worker that died.
FairSpec == Spec /\ \A i \in Inst : WF_vars(Walk(i)) /\ WF_vars(Start(i))

-----------------------------------------------------------------------------
\* pc follows the walk of the program; at never leaves the list of candidates by
\* more than one.
TypeOK ==
  /\ pc \in [Inst -> {"down", "walking", "opened", "holding"}
                       \cup {"exited", "leading", "following"}]
  /\ \A i \in Worker : pc[i] # "exited"
  /\ \A i \in Autoscaler : pc[i] \notin {"leading", "following"}
  /\ at \in [Inst -> Nat \ {0}]
  /\ \A i \in Inst : at[i] <= Last(i) + 1
  /\ world \in World
  /\ starts \in [Inst -> Nat]
  /\ \A i \in Inst : starts[i] <= MaxStarts[i]

\* At most one autoscaler runs its poll loop: two would stop and start the same
\* units against each other (issue 933).
Singleton ==
  \A i, j \in Autoscaler : pc[i] = "holding" /\ pc[j] = "holding" => i = j

\* An autoscaler gives up only when another process holds a lock, or when it can
\* lock no candidate at all: contention alone never leaves the host without one.
ExitJustified ==
  [][\A i \in Autoscaler :
       pc[i] # "exited" /\ pc'[i] = "exited" =>
         \/ \E j \in Inst \ {i} : pc[j] = "holding"
         \/ \A n \in 1 .. Last(i) : ~Good(i, n)]_vars

\* The host is never left without an autoscaler while a candidate can be locked,
\* whoever died and whoever lost a race, until the unit's start limit is used up.
HostCovered ==
  (\A i \in Autoscaler : \E n \in 1 .. Last(i) : Good(i, n))
    => []<>(\/ \E i \in Autoscaler : pc[i] = "holding"
            \/ \A i \in Autoscaler : starts[i] = MaxStarts[i])

Leaders == {i \in Worker : pc[i] \in {"holding", "leading"}}

\* "leader-election ensures only a single background task thread executes
\* across all workers" (README.md:175).
AtMostOneLeader == \A i, j \in Leaders : i = j

\* As long as no ordinary worker is down for good, the background loops always come
\* to run again, whatever the forced workers do: a follower never tries again, so
\* this rests on the worker that died walking anew.
LoopsCovered ==
  (/\ Forced # Worker
   /\ \A i \in Worker \ Forced : \E n \in 1 .. Last(i) : Good(i, n))
    => []<>(\/ Leaders # {}
            \/ \E i \in Worker \ Forced : pc[i] = "down" /\ starts[i] = MaxStarts[i])
=============================================================================

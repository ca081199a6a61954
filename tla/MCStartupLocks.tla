--------------------------- MODULE MCStartupLocks ---------------------------
(***************************************************************************)
(* Instances of StartupLocks for TLC.                                      *)
(***************************************************************************)
EXTENDS StartupLocks, TLC

CONSTANTS service, shell, varRun, userRun, tmp, privateTmp, leaderFile, leaderTmp

Uniformly(autoscalers, workers) ==
  [i \in Inst |-> IF i \in Autoscaler THEN autoscalers ELSE workers]

\* All processes of a program run as one user in one mount namespace.
MCCandidates == Uniformly(<<userRun, tmp>>, <<leaderFile>>)
Opening(s, locks) == [usable |-> [i \in Inst |-> s], lockable |-> locks]

\* Nothing wrong; /run/user missing; no flock there; nothing to lock at all.
MCWorld ==
  {Opening(Path, Path), Opening(Path \ {userRun}, Path),
   Opening(Path, Path \ {userRun}), Opening({userRun, tmp}, {leaderFile})}

\* The two candidates of a worker, whatever can be opened and locked.
LeaderCandidates == Uniformly(<<userRun, tmp>>, <<leaderFile, leaderTmp>>)
LeaderWorld == {Opening(s, t) : s, t \in SUBSET Path}

\* The forced workers start once: their lives are all alike.
MCStarts == [i \in Inst |-> IF i \in Forced THEN 1 ELSE 2]

\* deploy/runner-autoscaler.service: User= keeps /var/run from the service,
\* ProtectHome=read-only keeps /run/user and ~/.cache from it, PrivateTmp gives it
\* a /tmp of its own.  The same user's shell can open all but /var/run.
DeployedCandidates ==
  [i \in Inst |-> <<varRun, userRun, IF i = service THEN privateTmp ELSE tmp>>]
DeployedWorld ==
  {[usable |-> [i \in Inst |-> IF i = service THEN {privateTmp} ELSE {userRun, tmp}],
    lockable |-> Path]}
=============================================================================

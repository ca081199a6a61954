------------------------------- MODULE MCHost -------------------------------
(***************************************************************************)
(* What runs for ever on a host, for TLC: the server's workers on the      *)
(* lease store, or the autoscaler on its pool.  The autoscaler takes the   *)
(* leases as it finds them, any set of them at any time, so one run checks *)
(* the two one at a time: scene names the one that runs.                   *)
(***************************************************************************)
EXTENDS MCLeaseStore, Autoscaler

VARIABLE scene

HostInit ==
  /\ Init /\ AsInit
  /\ \/ scene = "pool"
     \/ /\ scene = "store"
        /\ asState = [u \in AsUnit |-> "up"] /\ Desired = AsUnits

HostNext ==
  \/ scene = "store" /\ Next /\ UNCHANGED <<scene, asVars>>
  \/ scene = "pool" /\ AsNext /\ UNCHANGED <<scene, vars>>

\* FairSpec of the store; AsFairness of the pool, if that is what runs.
HostSpec ==
  /\ HostInit /\ [][HostNext]_<<scene, vars, asVars>>
  /\ \A p \in Proc : WF_vars(Step(p)) /\ SF_vars(Lock(p))
  /\ WF_asVars(scene = "pool" /\ Loop)
=============================================================================

---------------------------- MODULE MCConductor ----------------------------
(***************************************************************************)
(* Instances of Conductor for TLC.                                         *)
(***************************************************************************)
EXTENDS Conductor, TLC

CONSTANTS o1, o2

\* One orchestrator asks for a slot and keeps a runner in reserve, the other asks
\* for two at once and is also the operator, who drains, resumes and looks.  An
\* operator never pauses here: paused differs from draining in its report only.
Careful == [kind |-> "lease", slots |-> 1, reserve |-> 1]
Large == [kind |-> "lease", slots |-> 2, reserve |-> 0]
BothSizes == {Careful, Large}
BothAsk ==
  [c \in Client |-> IF c = o1 THEN {Careful}
     ELSE {Large} \cup {r \in Request : r.kind \in {"drain", "resume", "status"}}]
=============================================================================

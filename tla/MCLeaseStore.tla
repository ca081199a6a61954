---------------------------- MODULE MCLeaseStore ----------------------------
(***************************************************************************)
(* Instances of LeaseStore for TLC.                                        *)
(***************************************************************************)
EXTENDS LeaseStore, TLC

CONSTANTS alice, bob, quota

\* alice is limited to `quota` runners, bob to one.
MCMaxRunners == [q \in Principal |-> IF q = alice THEN quota ELSE 1]

\* Workers and runners are interchangeable (safety runs only).
Symmetry == Permutations(Proc) \cup Permutations(Runner)

\* Two states that differ only in the numbers of their inodes, or in the history
\* variable, have the same behaviours.
View ==
  <<file.recs, pc, op, pending, now, [p \in Proc |-> handle[p].recs],
    {p \in Proc : handle[p].ino = file.ino},
    {pair \in Proc \X Proc : handle[pair[1]].ino = handle[pair[2]].ino}>>
=============================================================================

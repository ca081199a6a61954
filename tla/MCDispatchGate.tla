--------------------------- MODULE MCDispatchGate ---------------------------
(***************************************************************************)
(* What the server's requests share, for TLC: the dispatch gate's limiters *)
(* and quotas, or the file of sessions.  They have no state in common, so  *)
(* one run checks the two one at a time: scene names the one that runs.    *)
(***************************************************************************)
EXTENDS DispatchGate, SessionStore, TLC

CONSTANTS alice, bob, quota, budget

MCMaxRunners == [q \in Principal |-> quota]
\* Both remediate, the same failures; the other kinds are shared out.
MCMay == [q \in Principal |-> IF q = alice THEN {"bulk", "remediation"}
                              ELSE {"quick", "assistant", "remediation"}]
MCBudget == [q \in Principal |-> budget]

\* The bulk limiter's window is the wider one.
MCLimit == [g \in Gate |-> 1]
MCWidth == [g \in Gate |-> IF g = "bulk" THEN 2 ELSE 1]

\* Two bulk requests that both pass the limiter.
RaceMay == [q \in Principal |-> {"bulk"}]
RaceLimit == [g \in Gate |-> 2]

Symmetry == Permutations(Handler)

VARIABLE scene

\* Without threads and ids there is nothing of the sessions to keep.
NoThreads ==
  /\ ssFile = NoSessions /\ ssTodo = NoSessions /\ ssPhase = NoSessions
  /\ ssMine = NoSessions /\ ssUsed = NoSessions /\ ssCookies = {} /\ ssGone = {}
  /\ ssWritten = TRUE /\ ssIds = 0 /\ ssNow = 0

ServerInit ==
  /\ Init
  /\ \/ scene = "gate" /\ NoThreads
     \/ scene = "sessions" /\ SsInit

ServerNext ==
  \/ scene = "gate" /\ Next /\ UNCHANGED <<scene, ssVars>>
  \/ scene = "sessions" /\ SsNext /\ UNCHANGED <<scene, vars>>

ServerSpec == ServerInit /\ [][ServerNext]_<<scene, vars, ssVars>>
=============================================================================

---------------------------- MODULE MutationQueue ----------------------------
(***************************************************************************)
(* Mutations made offline wait in the browser's database, which all tabs   *)
(* share, and are replayed when a tab comes online.  The server keeps no   *)
(* record of the Idempotency-Key it is sent.                               *)
(***************************************************************************)
EXTENDS Naturals, FiniteSets

CONSTANTS
    MqTab,
    MqMax          \* bound: mutations ever queued

ASSUME MqAssumption == MqMax \in Nat

VARIABLES
    mqNext,        \* mutations queued so far
    mqStore,       \* those in the database
    mqOld,         \* those older than ten minutes
    mqOnline,      \* the network, as navigator.onLine has it
    mqTodo,        \* per tab, what its drain took and has not handled yet,
                   \* handled in the order of the ids
    mqPhase,       \* per tab: "idle", "next", "asking", "sent", "answered"
    mqStatus,      \* per tab, the answer that came
    mqCount,       \* per tab, queuedCount
    mqRuns,        \* how often the server ran each mutation
    mqRefused      \* history: mutations the server refused with a 4xx

mqTabVars == <<mqTodo, mqPhase, mqStatus, mqCount>>
mqVars == <<mqNext, mqStore, mqOld, mqOnline, mqTabVars, mqRuns, mqRefused>>

Entry == 1..MqMax
MqStatuses == {"unasked", "done", "refused", "error", "none"}
------------------------------------------------------------------------------
MqTypeOK ==
    /\ mqNext \in 0..MqMax
    /\ mqStore \cup mqOld \cup mqRefused \subseteq 1..mqNext
    /\ mqOnline \in BOOLEAN
    /\ mqTodo \in [MqTab -> SUBSET [id : 1..mqNext, old : BOOLEAN]]
    /\ mqPhase \in [MqTab -> {"idle", "next", "asking", "sent", "answered"}]
    /\ mqStatus \in [MqTab -> MqStatuses]
    /\ mqCount \in [MqTab -> 0..MqMax]
    /\ mqRuns \in [Entry -> 0..MqMax * 2]

MqInit ==
    /\ mqNext = 0 /\ mqStore = {} /\ mqOld = {} /\ mqOnline = FALSE
    /\ mqTodo = [t \in MqTab |-> {}] /\ mqPhase = [t \in MqTab |-> "idle"]
    /\ mqStatus = [t \in MqTab |-> "unasked"] /\ mqCount = [t \in MqTab |-> 0]
    /\ mqRuns = [e \in Entry |-> 0] /\ mqRefused = {}

\* A caller that finds the browser offline queues.
Enqueue == \E t \in MqTab :
    /\ ~mqOnline /\ mqNext < MqMax
    /\ mqNext' = mqNext + 1 /\ mqStore' = mqStore \cup {mqNext'}
    /\ mqCount' = [mqCount EXCEPT ![t] = Cardinality(mqStore')]
    /\ UNCHANGED <<mqOld, mqOnline, mqTodo, mqPhase, mqStatus, mqRuns, mqRefused>>
Aging == \E e \in mqStore \ mqOld :
    /\ mqOld' = mqOld \cup {e}
    /\ UNCHANGED <<mqNext, mqStore, mqOnline, mqTabVars, mqRuns, mqRefused>>

\* What a drain takes: the whole database, each entry with its age as of now.
Snapshot == {[id |-> e, old |-> e \in mqOld] : e \in mqStore}

\* What it handles next: the entry with the least key.
First(t) == CHOOSE m \in mqTodo[t] : \A n \in mqTodo[t] : m.id <= n.id

\* Every tab that is not draining starts to.
ComesOnline ==
    /\ ~mqOnline /\ mqOnline' = TRUE
    /\ mqTodo' = [t \in MqTab |-> IF mqPhase[t] = "idle" THEN Snapshot
                                  ELSE mqTodo[t]]
    /\ mqPhase' = [t \in MqTab |-> IF mqPhase[t] = "idle" THEN "next"
                                   ELSE mqPhase[t]]
    /\ UNCHANGED <<mqNext, mqStore, mqOld, mqStatus, mqCount, mqRuns, mqRefused>>
GoesOffline ==
    /\ mqOnline /\ mqOnline' = FALSE
    /\ UNCHANGED <<mqNext, mqStore, mqOld, mqTabVars, mqRuns, mqRefused>>
\* A tab that is closed or loaded anew, which drains if it is online.
Reopen == \E t \in MqTab :
    /\ mqTodo' = [mqTodo EXCEPT ![t] = IF mqOnline THEN Snapshot ELSE {}]
    /\ mqPhase' = [mqPhase EXCEPT ![t] = IF mqOnline THEN "next" ELSE "idle"]
    /\ mqStatus' = [mqStatus EXCEPT ![t] = "unasked"]
    /\ mqCount' = [mqCount EXCEPT ![t] = Cardinality(mqStore)]
    /\ UNCHANGED <<mqNext, mqStore, mqOld, mqOnline, mqRuns, mqRefused>>

Idle(t) == /\ mqTodo' = [mqTodo EXCEPT ![t] = {}]
           /\ mqPhase' = [mqPhase EXCEPT ![t] = "idle"]
Skip(t) == /\ mqTodo' = [mqTodo EXCEPT ![t] = @ \ {First(t)}]
           /\ mqPhase' = [mqPhase EXCEPT ![t] = "next"]

\* The next entry is sent, unless it was old when the drain began.
Take(t) ==
    /\ mqPhase[t] = "next"
    /\ IF mqTodo[t] = {} THEN Idle(t)
       ELSE /\ mqPhase' = [mqPhase EXCEPT ![t] =
                             IF First(t).old THEN "asking" ELSE "sent"]
            /\ UNCHANGED mqTodo
    /\ mqCount' = [mqCount EXCEPT ![t] = Cardinality(mqStore)]
    /\ UNCHANGED <<mqNext, mqStore, mqOld, mqOnline, mqStatus, mqRuns, mqRefused>>
\* The prompt answers itself with no when its time is up.
Prompt(t) ==
    /\ mqPhase[t] = "asking"
    /\ \/ mqPhase' = [mqPhase EXCEPT ![t] = "sent"] /\ UNCHANGED mqTodo
       \/ Skip(t)
    /\ mqCount' = [mqCount EXCEPT ![t] = Cardinality(mqStore)]
    /\ UNCHANGED <<mqNext, mqStore, mqOld, mqOnline, mqStatus, mqRuns, mqRefused>>

\* The server runs what it is sent and answers; it may fail before or after
\* it ran it, and so may the network.
Serve(t) == \E status \in MqStatuses \ {"unasked"}, ran \in BOOLEAN :
    LET e == First(t).id
    IN /\ mqPhase[t] = "sent"
       /\ status = "done" => ran
       /\ status = "refused" => ~ran
       /\ ran => mqOnline /\ mqRuns[e] < MqMax * 2
       /\ status # "none" => mqOnline
       /\ mqRuns' = IF ran THEN [mqRuns EXCEPT ![e] = @ + 1] ELSE mqRuns
       /\ mqRefused' = IF status = "refused" THEN mqRefused \cup {e}
                       ELSE mqRefused
       /\ mqStatus' = [mqStatus EXCEPT ![t] = status]
       /\ mqPhase' = [mqPhase EXCEPT ![t] = "answered"]
       /\ UNCHANGED <<mqNext, mqStore, mqOld, mqOnline, mqTodo, mqCount>>

\* Wrong: an answer of 500 and above removes the entry too.
HandleAll(t) ==
    /\ mqPhase[t] = "answered"
    /\ mqStore' = IF mqStatus[t] # "none"
                  THEN mqStore \ {First(t).id} ELSE mqStore
    /\ IF mqStatus[t] = "none" THEN Idle(t) ELSE Skip(t)
    /\ mqCount' = [mqCount EXCEPT ![t] = Cardinality(mqStore')]
    /\ mqStatus' = [mqStatus EXCEPT ![t] = "unasked"]
    /\ UNCHANGED <<mqNext, mqOld, mqOnline, mqRuns, mqRefused>>

\* An answer below 500 removes the entry; without one the drain gives up.
Handle(t) ==
    /\ mqPhase[t] = "answered"
    /\ mqStore' = IF mqStatus[t] \in {"done", "refused"}
                  THEN mqStore \ {First(t).id} ELSE mqStore
    /\ IF mqStatus[t] = "none" THEN Idle(t) ELSE Skip(t)
    /\ mqCount' = [mqCount EXCEPT ![t] = Cardinality(mqStore')]
    /\ mqStatus' = [mqStatus EXCEPT ![t] = "unasked"]
    /\ UNCHANGED <<mqNext, mqOld, mqOnline, mqRuns, mqRefused>>

MqStep(t) == Take(t) \/ Prompt(t) \/ Serve(t) \/ Handle(t)
MqNext == \/ Enqueue \/ Aging \/ ComesOnline \/ GoesOffline \/ Reopen
          \/ \E t \in MqTab : MqStep(t)
MqFairness == \A t \in MqTab : WF_mqVars(MqStep(t))
MqSpec == MqInit /\ [][MqNext]_mqVars /\ MqFairness
------------------------------------------------------------------------------
\* A mutation leaves the database only when the server ran or refused it,
\* whichever tabs replayed it, were closed or lost their network.
NoMutationLost == \A e \in 1..mqNext :
    e \in mqStore \/ mqRuns[e] > 0 \/ e \in mqRefused

\* A drain does not wait for ever on a prompt nobody answers or a server
\* that fails: it ends, unless its tab is opened again and again.
DrainEnds == (\A t \in MqTab : []<>(mqPhase[t] = "idle"))
             \/ []<><<Reopen>>_mqVars \/ []<><<ComesOnline>>_mqVars

\* "each mutation replayed exactly once". It does not hold of two tabs, nor of
\* one whose answer is lost, see the README. No run checks it.
ReplayedOnce == \A e \in Entry : mqRuns[e] <= 1
==============================================================================

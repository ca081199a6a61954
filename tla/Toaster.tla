-------------------------------- MODULE Toaster --------------------------------
(***************************************************************************)
(* The toaster: at most four messages, each dismissed by its timer unless  *)
(* it was asked to stay, by its button, by Escape, or by newer messages.   *)
(* A message may carry an action; a caller that waits for it has a timer   *)
(* of its own that gives up.                                               *)
(***************************************************************************)
EXTENDS Naturals, FiniteSets

CONSTANTS TsMaxVisible,    \* MAX_VISIBLE_TOASTS
          TsIds            \* bound: messages ever shown

ASSUME TsAssumption == TsMaxVisible \in Nat \ {0} /\ TsIds \in Nat

VARIABLES
    tsNext,        \* idRef
    tsToasts,      \* the messages on show, [id, stays, asks]; ids grow, so
                   \* the order of the list is that of its ids
    tsTimers,      \* dismissal timers pending, by message
    tsWaits,       \* callers waiting for the action, by message
    tsAnswers      \* what they were told: message -> BOOLEAN

tsVars == <<tsNext, tsToasts, tsTimers, tsWaits, tsAnswers>>

TsShown == {m.id : m \in tsToasts}

\* All of them but those with one of the ids.
Without(toasts, ids) == {m \in toasts : m.id \notin ids}
------------------------------------------------------------------------------
TsTypeOK ==
    /\ tsNext \in 0..TsIds
    /\ tsToasts \subseteq [id : 1..tsNext, stays : BOOLEAN, asks : BOOLEAN]
    /\ Cardinality(tsToasts) <= TsMaxVisible
    /\ tsTimers \cup tsWaits \subseteq 1..tsNext
    /\ DOMAIN tsAnswers \subseteq 1..tsNext

TsInit == /\ tsNext = 0 /\ tsToasts = {} /\ tsTimers = {} /\ tsWaits = {}
          /\ tsAnswers = <<>>

Oldest(toasts) == CHOOSE id \in {m.id : m \in toasts} :
                    \A m \in toasts : id <= m.id

\* Wrong: one message too many stays.
EvictedLate(toasts) == IF Cardinality(toasts) > TsMaxVisible + 1
                       THEN {Oldest(toasts)} ELSE {}

\* The oldest message makes room, whether it was to stay or not.
Evicted(toasts) == IF Cardinality(toasts) > TsMaxVisible
                   THEN {Oldest(toasts)} ELSE {}
ShowToast == \E stays, asks \in BOOLEAN :
    /\ tsNext < TsIds /\ tsNext' = tsNext + 1
    /\ LET next == tsToasts \cup {[id |-> tsNext', stays |-> stays,
                                   asks |-> asks]}
       IN /\ tsToasts' = Without(next, Evicted(next))
          /\ tsTimers' = (tsTimers \ Evicted(next))
                           \cup (IF stays THEN {} ELSE {tsNext'})
    /\ tsWaits' = IF asks THEN tsWaits \cup {tsNext'} ELSE tsWaits
    /\ UNCHANGED tsAnswers

Dismissed(id) ==
    /\ tsToasts' = Without(tsToasts, {id})
    /\ tsTimers' = tsTimers \ {id}
TsTimeout == \E id \in tsTimers :
    /\ Dismissed(id) /\ UNCHANGED <<tsNext, tsWaits, tsAnswers>>
\* The cross of any message, and Escape for the newest.
TsDismiss == \E id \in TsShown :
    /\ Dismissed(id) /\ UNCHANGED <<tsNext, tsWaits, tsAnswers>>

\* The first word to a waiting caller counts.
Finish(id, word) ==
    /\ tsWaits' = tsWaits \ {id}
    /\ tsAnswers' = IF id \in tsWaits
                    THEN [a \in DOMAIN tsAnswers \cup {id} |->
                            IF a = id THEN word ELSE tsAnswers[a]]
                    ELSE tsAnswers
    /\ UNCHANGED tsNext
TsAction == \E m \in tsToasts :
    /\ m.asks
    /\ Finish(m.id, TRUE) /\ Dismissed(m.id)
\* Wrong: only a message on show is answered for.
GivenUpShown(id) == id \in tsWaits \cap TsShown /\ Finish(id, FALSE)
                    /\ Dismissed(id)

GivenUp(id) == id \in tsWaits /\ Finish(id, FALSE) /\ Dismissed(id)
TsGiveUp == \E id \in tsWaits : GivenUp(id)

TsNext == ShowToast \/ TsTimeout \/ TsDismiss \/ TsAction \/ TsGiveUp
TsFairness == /\ \A id \in 1..TsIds : WF_tsVars(GivenUp(id))
              /\ WF_tsVars(TsTimeout)
TsSpec == TsInit /\ [][TsNext]_tsVars /\ TsFairness
------------------------------------------------------------------------------
\* A message that is not to stay goes: while it is on show its timer is
\* pending, and a timer never outlives the message it would dismiss, however
\* messages were evicted, dismissed and answered.
TimersMatchToasts ==
    tsTimers = {m.id : m \in {n \in tsToasts : ~n.stays}}

\* A caller that asked is told something, also when its message was evicted
\* by newer ones or dismissed without an answer.
AskersAreTold == \A id \in 1..TsIds : id \in tsWaits ~> id \in DOMAIN tsAnswers
==============================================================================

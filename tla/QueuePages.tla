----------------------------- MODULE QueuePages ------------------------------
(*****************************************************************************)
(* The two pages of the queue: the tab of the wide screen, with its panel of *)
(* stale runs, and the page of the phone. They share no state.               *)
(*****************************************************************************)
EXTENDS Naturals, SequencesExt, FiniteSets

(***************************************************************************)
(* The queue tab: the runs in progress and waiting, the two-step buttons   *)
(* that cancel one run or every waiting run of a workflow, and the timers  *)
(* that disarm a button and reload the queue; and below it the panel that  *)
(* previews the stale runs of the queue and purges them, after a second    *)
(* click, from the preview that is on show by then.                        *)
(***************************************************************************)

CONSTANTS
    QuRun,          \* workflow runs
    QuWorkflow,     \* workflows, each as the set of its runs
    QuNone,         \* nothing armed
    QuTimers,       \* bound: timers pending that disarm one key, or clear
    QuLoads,        \* bound: loads in flight, and timers pending for one
    ScRun,          \* stale runs
    ScTimers        \* bound: timers pending, previews in flight

ASSUME QuAssumption == {QuTimers, QuLoads} \subseteq Nat \ {0}
ASSUME ScAssumption == IsFiniteSet(ScRun) /\ ScTimers \in Nat \ {0}

VARIABLES
    quOwn,          \* the shell hands no queue: the tab loads its own
    quShown,        \* the waiting runs the tab holds
    quLoading, quFlight,
    quArmed,        \* confirmRun and confirmWorkflow
    quDisarms,      \* 5 s timers pending, by the key they disarm
    quCancel,       \* the state of each run's button
    quPosts,        \* cancel requests in flight
    quReloads,      \* 1.5 s timers pending that reload the queue
    quMessage,      \* the message of a bulk cancellation is shown
    quClears,       \* 6 s timers pending that clear the message
    scMax,          \* the max count field, 0 for none
    scShown, scSafe,        \* the preview: its runs, those safe to cancel
    scLoading, scFlight,
    scConfirming, scDisarms,
    scPurging, scPosts,     \* the purges in flight, as the runs they name
    scReloads,
    scOpen          \* rows unfolded on a phone

quListVars == <<quOwn, quShown, quLoading, quFlight>>
quSays == <<quMessage, quClears>>
quVars == <<quListVars, quArmed, quDisarms, quCancel, quPosts, quReloads,
            quSays>>

scPreview == <<scShown, scSafe>>
scVars == <<scMax, scPreview, scLoading, scFlight, scConfirming, scDisarms,
            scPurging, scPosts, scReloads, scOpen>>

QuKey == QuRun \cup QuWorkflow
QuKind(key) == IF key \in QuRun THEN "run" ELSE "workflow"
------------------------------------------------------------------------------
QuTypeOK ==
    /\ quOwn \in BOOLEAN /\ quLoading \in BOOLEAN
    /\ quShown \subseteq QuRun
    /\ {quFlight, quReloads} \subseteq 0..QuLoads
    /\ quArmed \in [{"run", "workflow"} -> QuKey \cup {QuNone}]
    /\ quDisarms \in [QuKey -> 0..QuTimers]
    /\ quCancel \in [QuRun -> {"none", "pending", "done", "error"}]
    /\ quPosts \subseteq QuKey
    /\ quMessage \in BOOLEAN
    /\ quClears \in 0..QuTimers

QuInit ==
    /\ quOwn \in BOOLEAN
    /\ quShown = {}
    /\ quLoading = quOwn
    /\ quFlight = IF quOwn THEN 1 ELSE 0
    /\ quArmed = [k \in {"run", "workflow"} |-> QuNone]
    /\ quDisarms = [k \in QuKey |-> 0]
    /\ quCancel = [r \in QuRun |-> "none"]
    /\ quPosts = {} /\ quReloads = 0
    /\ quMessage = FALSE /\ quClears = 0

\* The queue of the shell changes by itself; the tab's own is loaded again
\* only by the reload after a cancellation. A failure keeps the list.
QuArrives ==
    /\ quOwn => quFlight > 0
    /\ quFlight' = IF quOwn THEN quFlight - 1 ELSE quFlight
    /\ quLoading' = FALSE
    /\ quShown' \in SUBSET QuRun
    /\ UNCHANGED <<quOwn, quArmed, quDisarms, quCancel, quPosts, quReloads, quSays>>

QuReload ==
    /\ quReloads > 0
    /\ quReloads' = quReloads - 1
    /\ IF quOwn
         THEN /\ quFlight < QuLoads
              /\ quFlight' = quFlight + 1 /\ quLoading' = TRUE
         ELSE UNCHANGED <<quFlight, quLoading>>
    /\ UNCHANGED <<quOwn, quShown, quArmed, quDisarms, quCancel, quPosts, quSays>>

\* The cancel buttons of the table and the cards, dead once a cancellation of
\* the run was tried, and one per workflow with several runs waiting.
QuRunButtons == {r \in quShown : quCancel[r] = "none"}
QuBulkButtons == {w \in QuWorkflow :
                    Cardinality(w \cap quShown) > 1}

\* The first click arms the button for 5 s, the second sends.
QuArm == \E key \in QuRunButtons \cup QuBulkButtons :
    /\ quArmed[QuKind(key)] # key
    /\ quDisarms[key] < QuTimers
    /\ quArmed' = [quArmed EXCEPT ![QuKind(key)] = key]
    /\ quDisarms' = [quDisarms EXCEPT ![key] = @ + 1]
    /\ UNCHANGED <<quListVars, quCancel, quPosts, quReloads, quSays>>

QuSend == \E key \in QuRunButtons \cup QuBulkButtons :
    /\ quArmed[QuKind(key)] = key
    /\ quArmed' = [quArmed EXCEPT ![QuKind(key)] = QuNone]
    /\ key \in QuWorkflow => key \notin quPosts  \* bound: one bulk request
    /\ quPosts' = quPosts \cup {key}
    /\ quCancel' = [r \in QuRun |-> IF r = key THEN "pending" ELSE quCancel[r]]
    /\ UNCHANGED <<quListVars, quDisarms, quReloads, quSays>>

\* A timer disarms its own key, whichever click armed it.
QuDisarm == \E key \in QuKey :
    /\ quDisarms[key] > 0
    /\ quDisarms' = [quDisarms EXCEPT ![key] = @ - 1]
    /\ quArmed' = [kind \in DOMAIN quArmed |->
                     IF quArmed[kind] = key THEN QuNone ELSE quArmed[kind]]
    /\ UNCHANGED <<quListVars, quCancel, quPosts, quReloads, quSays>>

\* A refusal in JSON counts as done, too. A bulk cancellation says how it
\* ended, for six seconds.
QuSettles == \E key \in quPosts, json \in BOOLEAN :
    /\ quPosts' = quPosts \ {key}
    /\ quCancel' = [r \in QuRun |-> IF r = key
                      THEN IF json THEN "done" ELSE "error" ELSE quCancel[r]]
    /\ json => quReloads < QuLoads
    /\ quReloads' = IF json THEN quReloads + 1 ELSE quReloads
    /\ IF key \in QuWorkflow
         THEN /\ quClears < QuTimers /\ quClears' = quClears + 1
              /\ quMessage' = TRUE
         ELSE UNCHANGED <<quMessage, quClears>>
    /\ UNCHANGED <<quListVars, quArmed, quDisarms>>

\* A timer clears whatever message is there by then.
QuClear ==
    /\ quClears > 0
    /\ quClears' = quClears - 1
    /\ quMessage' = FALSE
    /\ UNCHANGED <<quListVars, quArmed, quDisarms, quCancel, quPosts, quReloads>>

QuNext == \/ QuArrives \/ QuReload \/ QuArm \/ QuSend \/ QuDisarm \/ QuSettles
          \/ QuClear

QuSpec == QuInit /\ [][QuNext]_quVars
------------------------------------------------------------------------------
\* A button is never left armed: whatever was armed, sent, armed again or
\* disarmed by an earlier timer, a timer that disarms it is pending.
QuArmEnds == \A k \in DOMAIN quArmed :
    quArmed[k] # QuNone => quDisarms[quArmed[k]] > 0

\* Nor is the message of a bulk cancellation left standing, although timers
\* of earlier ones clear newer ones.
QuMessageEnds == quMessage => quClears > 0

\* A run's button says "pending" exactly while its cancellation is out.
QuPendingIsOut == \A r \in QuRun : quCancel[r] = "pending" <=> r \in quPosts
------------------------------------------------------------------------------
(* The panel of stale runs.                                                *)
ScTypeOK ==
    /\ scMax \in 0..Cardinality(ScRun)
    /\ scShown \subseteq ScRun /\ scSafe \subseteq ScRun /\ scOpen \subseteq ScRun
    /\ {scLoading, scConfirming, scPurging} \subseteq BOOLEAN
    /\ {scFlight, scDisarms, scReloads} \subseteq 0..ScTimers
    /\ scPosts \in Seq(SUBSET ScRun) /\ Len(scPosts) <= ScTimers

ScInit ==
    /\ scMax = Cardinality(ScRun)
    /\ scShown = {} /\ scSafe = {} /\ scOpen = {}
    /\ scLoading = FALSE /\ scConfirming = FALSE /\ scPurging = FALSE
    /\ scFlight = 0 /\ scDisarms = 0 /\ scReloads = 0 /\ scPosts = <<>>

\* The first `max` safe runs of the preview; which ones is its order.
ScTargets == {t \in SUBSET scSafe :
                Cardinality(t) = IF Cardinality(scSafe) < scMax
                                 THEN Cardinality(scSafe) ELSE scMax}

ScEdit == \E n \in 0..Cardinality(ScRun) :
    /\ scMax' = n
    /\ UNCHANGED <<scPreview, scLoading, scFlight, scConfirming, scDisarms,
                   scPurging, scPosts, scReloads, scOpen>>

ScAsk ==
    /\ ~scLoading
    /\ scFlight' = scFlight + 1
    /\ scLoading' = TRUE /\ scConfirming' = FALSE
    /\ UNCHANGED <<scMax, scPreview, scDisarms, scPurging, scPosts, scReloads,
                   scOpen>>

ScAnswer == \E ok \in BOOLEAN, runs \in SUBSET ScRun : \E safe \in SUBSET runs :
    /\ scFlight > 0
    /\ scFlight' = scFlight - 1
    /\ scLoading' = FALSE
    /\ scShown' = IF ok THEN runs ELSE scShown
    /\ scSafe' = IF ok THEN safe ELSE scSafe
    /\ UNCHANGED <<scMax, scConfirming, scDisarms, scPurging, scPosts,
                   scReloads, scOpen>>

ScPurgeOffered == ~scPurging /\ \A t \in ScTargets : t # {}

ScArm ==
    /\ ScPurgeOffered /\ ~scConfirming /\ scDisarms < ScTimers
    /\ scConfirming' = TRUE
    /\ scDisarms' = scDisarms + 1
    /\ UNCHANGED <<scMax, scPreview, scLoading, scFlight, scPurging, scPosts,
                   scReloads, scOpen>>

ScDisarm ==
    /\ scDisarms > 0
    /\ scDisarms' = scDisarms - 1
    /\ scConfirming' = FALSE
    /\ UNCHANGED <<scMax, scPreview, scLoading, scFlight, scPurging, scPosts,
                   scReloads, scOpen>>

ScPurge == \E t \in ScTargets :
    /\ ScPurgeOffered /\ scConfirming
    /\ scPurging' = TRUE /\ scConfirming' = FALSE
    /\ scPosts' = Append(scPosts, t)
    /\ UNCHANGED <<scMax, scPreview, scLoading, scFlight, scDisarms, scReloads,
                   scOpen>>

\* The purge answers with a preview of what is left; it may fail in part.
ScPurged == \E ok \in BOOLEAN, left \in SUBSET ScRun : \E safe \in SUBSET left :
    /\ scPosts # <<>>
    /\ scPosts' = Tail(scPosts)
    /\ scPurging' = FALSE
    /\ scShown' = IF ok THEN left ELSE scShown
    /\ scSafe' = IF ok THEN safe ELSE scSafe
    /\ ok => scReloads < ScTimers
    /\ scReloads' = IF ok THEN scReloads + 1 ELSE scReloads
    /\ UNCHANGED <<scMax, scLoading, scFlight, scConfirming, scDisarms, scOpen>>

ScReload ==
    /\ scReloads > 0
    /\ scReloads' = scReloads - 1
    /\ UNCHANGED <<scMax, scPreview, scLoading, scFlight, scConfirming,
                   scDisarms, scPurging, scPosts, scOpen>>

ScUnfold == \E run \in scShown :
    /\ scOpen' = IF run \in scOpen THEN scOpen \ {run} ELSE scOpen \cup {run}
    /\ UNCHANGED <<scMax, scPreview, scLoading, scFlight, scConfirming,
                   scDisarms, scPurging, scPosts, scReloads>>

ScNext == \/ ScEdit \/ ScAsk \/ ScAnswer \/ ScArm \/ ScDisarm \/ ScPurge
          \/ ScPurged \/ ScReload \/ ScUnfold
ScSpec == ScInit /\ [][ScNext]_scVars
------------------------------------------------------------------------------
\* Purge is never left armed, and never sent twice over: previews, earlier
\* timers and late answers in between notwithstanding.
ScArmEnds == scConfirming => scDisarms > 0
ScOnePurge == Len(scPosts) <= 1 /\ (scPurging <=> scPosts # <<>>)

------------------------------------------------------------------------------
(***************************************************************************)
(* The queue page of the phone: two polled lists, a sheet for one run with *)
(* Cancel and Rerun, and a purge of stale runs in two taps.                *)
(***************************************************************************)

CONSTANTS
    QmRun,         \* workflow runs
    QmNone,        \* no sheet
    QmMax          \* bound: requests of a kind in flight, timers pending

ASSUME QmAssumption == QmMax \in Nat \ {0}

VARIABLES
    qmQueue, qmStale,        \* runs held, of the queue and of the stale list
    qmSafe,                  \* those of the stale list that may be cancelled
    qmLoading, qmFailure, qmRefreshing,
    qmFlight, qmStaleFlight, \* requests in flight for either list
    qmPulls,                 \* pulls waiting for both of their requests
    qmFilter,
    qmSheet,                 \* the run of the open sheet
    qmCancelling, qmDone,    \* by run
    qmPosts,                 \* cancellations in flight
    qmReruns,                \* reruns in flight
    qmReloads,               \* 1.5 s timers
    qmDryRun, qmConfirm, qmDisarms, qmPurging

qmLists == <<qmQueue, qmStale, qmSafe, qmLoading, qmFailure, qmRefreshing,
             qmFlight, qmStaleFlight, qmPulls>>
qmRuns == <<qmSheet, qmCancelling, qmDone, qmPosts, qmReruns, qmReloads>>
qmPurge == <<qmDryRun, qmConfirm, qmDisarms, qmPurging>>
qmVars == <<qmLists, qmFilter, qmRuns, qmPurge>>

QmFilters == {"all", "running", "queued", "stale", "failed"}
------------------------------------------------------------------------------
QmTypeOK ==
    /\ qmQueue \subseteq QmRun /\ qmStale \subseteq QmRun
    /\ qmSafe \subseteq QmRun
    /\ {qmLoading, qmFailure, qmRefreshing, qmDryRun, qmConfirm, qmPurging}
          \subseteq BOOLEAN
    /\ {qmFlight, qmStaleFlight, qmReloads, qmDisarms, qmReruns, qmPulls}
          \subseteq 0..QmMax
    /\ qmFilter \in QmFilters /\ qmSheet \in QmRun \cup {QmNone}
    /\ qmCancelling \subseteq QmRun /\ qmDone \subseteq QmRun
    /\ qmPosts \in Seq(QmRun)

QmInit ==
    /\ qmQueue = {} /\ qmStale = {} /\ qmSafe = {}
    /\ qmLoading = TRUE /\ qmFailure = FALSE /\ qmRefreshing = FALSE
    /\ qmFlight = 1 /\ qmStaleFlight = 1 /\ qmPulls = 0
    /\ qmFilter = "all" /\ qmSheet = QmNone
    /\ qmCancelling = {} /\ qmDone = {}
    /\ qmPosts = <<>> /\ qmReruns = 0 /\ qmReloads = 0
    /\ qmDryRun = TRUE /\ qmConfirm = FALSE /\ qmDisarms = 0
    /\ qmPurging = FALSE

\* The interval of the queue, which also runs when the page is not loading.
QmPoll ==
    /\ qmFlight < QmMax
    /\ qmFlight' = qmFlight + 1
    /\ UNCHANGED <<qmQueue, qmStale, qmSafe, qmLoading, qmFailure, qmRefreshing,
                   qmStaleFlight, qmPulls, qmFilter, qmRuns, qmPurge>>

QmPollStale ==
    /\ qmStaleFlight < QmMax
    /\ qmStaleFlight' = qmStaleFlight + 1
    /\ UNCHANGED <<qmQueue, qmStale, qmSafe, qmLoading, qmFailure, qmRefreshing,
                   qmFlight, qmPulls, qmFilter, qmRuns, qmPurge>>

\* Any answer of the queue, of a poll too, ends a pull's refresh.
QmAnswer == \E ok \in BOOLEAN, runs \in SUBSET QmRun :
    /\ qmFlight > 0
    /\ qmFlight' = qmFlight - 1
    /\ qmQueue' = IF ok THEN runs ELSE qmQueue
    /\ qmFailure' = ~ok
    /\ qmLoading' = FALSE /\ qmRefreshing' = FALSE
    /\ UNCHANGED <<qmStale, qmSafe, qmStaleFlight, qmPulls, qmFilter, qmRuns, qmPurge>>

QmAnswerStale == \E ok \in BOOLEAN, runs \in SUBSET QmRun : \E safe \in SUBSET runs :
    /\ qmStaleFlight > 0
    /\ qmStaleFlight' = qmStaleFlight - 1
    /\ qmStale' = IF ok THEN runs ELSE qmStale
    /\ qmSafe' = IF ok THEN safe ELSE qmSafe
    /\ UNCHANGED <<qmQueue, qmLoading, qmFailure, qmRefreshing, qmFlight,
                   qmPulls, qmFilter, qmRuns, qmPurge>>

\* PullToRefresh takes no second pull before both lists have answered, nor
\* while the page refreshes.
QmPull ==
    /\ ~qmLoading /\ ~qmRefreshing /\ qmPulls = 0
    /\ qmFlight < QmMax /\ qmStaleFlight < QmMax
    /\ qmRefreshing' = TRUE /\ qmPulls' = 1
    /\ qmFlight' = qmFlight + 1 /\ qmStaleFlight' = qmStaleFlight + 1
    /\ UNCHANGED <<qmQueue, qmStale, qmSafe, qmLoading, qmFailure, qmFilter, qmRuns,
                   qmPurge>>
QmPulled ==
    /\ qmPulls > 0 /\ qmFlight < QmMax /\ qmStaleFlight < QmMax
    /\ qmPulls' = 0
    /\ UNCHANGED <<qmQueue, qmStale, qmSafe, qmLoading, qmFailure, qmRefreshing,
                   qmFlight, qmStaleFlight, qmFilter, qmRuns, qmPurge>>

\* The failed runs are not among the data of this page.
QmListed == CASE qmFilter = "failed" -> {}
              [] qmFilter = "stale" -> qmStale
              [] qmFilter = "all" -> qmQueue \cup qmStale
              [] OTHER -> qmQueue

QmFilterTo == \E f \in QmFilters :
    /\ qmFilter' = f
    /\ UNCHANGED <<qmLists, qmRuns, qmPurge>>

QmOpen == \E r \in QmListed :
    /\ ~qmLoading /\ qmSheet = QmNone
    /\ qmSheet' = r
    /\ UNCHANGED <<qmLists, qmFilter, qmCancelling, qmDone, qmPosts, qmReruns,
                   qmReloads, qmPurge>>
QmClose ==
    /\ qmSheet # QmNone
    /\ qmSheet' = QmNone
    /\ UNCHANGED <<qmLists, qmFilter, qmCancelling, qmDone, qmPosts, qmReruns,
                   qmReloads, qmPurge>>

\* The sheet's buttons.
QmSheetOffers == {b \in {"cancel", "rerun"} :
    /\ qmSheet # QmNone /\ qmSheet \notin qmDone
    /\ b = "cancel" => qmSheet \notin qmCancelling}

QmCancel ==
    /\ "cancel" \in QmSheetOffers
    /\ qmCancelling' = qmCancelling \cup {qmSheet}
    /\ qmPosts' = Append(qmPosts, qmSheet)
    /\ UNCHANGED <<qmLists, qmFilter, qmSheet, qmDone, qmReruns, qmReloads,
                   qmPurge>>

QmCancelled == \E i \in 1..Len(qmPosts), ok \in BOOLEAN :
    /\ qmPosts' = RemoveAt(qmPosts, i)
    /\ qmCancelling' = qmCancelling \ {qmPosts[i]}
    /\ qmDone' = IF ok THEN qmDone \cup {qmPosts[i]} ELSE qmDone
    /\ ok => qmReloads < QmMax
    /\ qmReloads' = IF ok THEN qmReloads + 1 ELSE qmReloads
    /\ UNCHANGED <<qmLists, qmFilter, qmSheet, qmReruns, qmPurge>>

QmRerun ==
    /\ "rerun" \in QmSheetOffers /\ qmReruns < QmMax
    /\ qmReruns' = qmReruns + 1
    /\ UNCHANGED <<qmLists, qmFilter, qmSheet, qmCancelling, qmDone, qmPosts,
                   qmReloads, qmPurge>>
QmReran == \E ok \in BOOLEAN :
    /\ qmReruns > 0
    /\ qmReruns' = qmReruns - 1
    /\ ok => qmReloads < QmMax
    /\ qmReloads' = IF ok THEN qmReloads + 1 ELSE qmReloads
    /\ UNCHANGED <<qmLists, qmFilter, qmSheet, qmCancelling, qmDone, qmPosts,
                   qmPurge>>

QmReload ==
    /\ qmReloads > 0 /\ qmFlight < QmMax
    /\ qmReloads' = qmReloads - 1
    /\ qmFlight' = qmFlight + 1
    /\ UNCHANGED <<qmQueue, qmStale, qmSafe, qmLoading, qmFailure, qmRefreshing,
                   qmStaleFlight, qmPulls, qmFilter, qmSheet, qmCancelling,
                   qmDone, qmPosts, qmReruns, qmPurge>>

\* The purge form of the stale filter: a dry run unless unticked, and the
\* first tap only arms it. It waits for a stale run that may be cancelled.
QmPurgeOffered == qmFilter = "stale" /\ ~qmPurging /\ qmSafe # {}
QmPurgeTap ==
    /\ QmPurgeOffered
    /\ IF qmConfirm
         THEN /\ qmConfirm' = FALSE /\ qmPurging' = TRUE
              /\ UNCHANGED qmDisarms
         ELSE /\ qmDisarms < QmMax
              /\ qmConfirm' = TRUE /\ qmDisarms' = qmDisarms + 1
              /\ UNCHANGED qmPurging
    /\ UNCHANGED <<qmLists, qmFilter, qmRuns, qmDryRun>>
QmDisarm ==
    /\ qmDisarms > 0
    /\ qmDisarms' = qmDisarms - 1
    /\ qmConfirm' = FALSE
    /\ UNCHANGED <<qmLists, qmFilter, qmRuns, qmDryRun, qmPurging>>
QmDryRunBox ==
    /\ qmFilter = "stale"
    /\ qmDryRun' = ~qmDryRun
    /\ UNCHANGED <<qmLists, qmFilter, qmRuns, qmConfirm, qmDisarms, qmPurging>>
QmPurged == \E ok \in BOOLEAN :
    /\ qmPurging
    /\ qmPurging' = FALSE
    /\ ok => qmFlight < QmMax /\ qmStaleFlight < QmMax
    /\ qmFlight' = IF ok THEN qmFlight + 1 ELSE qmFlight
    /\ qmStaleFlight' = IF ok THEN qmStaleFlight + 1 ELSE qmStaleFlight
    /\ UNCHANGED <<qmQueue, qmStale, qmSafe, qmLoading, qmFailure, qmRefreshing,
                   qmPulls, qmFilter, qmRuns, qmDryRun, qmConfirm, qmDisarms>>

QmNext == \/ QmPoll \/ QmPollStale \/ QmAnswer \/ QmAnswerStale \/ QmPull
          \/ QmPulled \/ QmFilterTo \/ QmOpen \/ QmClose \/ QmCancel
          \/ QmCancelled \/ QmRerun \/ QmReran \/ QmReload \/ QmPurgeTap
          \/ QmDisarm \/ QmDryRunBox \/ QmPurged
QmSpec == QmInit /\ [][QmNext]_qmVars
------------------------------------------------------------------------------
\* A run is cancelled once at a time, whatever sheets are closed and opened
\* meanwhile, and its sheet says so exactly while the request is out.
QmOneCancel == /\ IsInjective(qmPosts)
               /\ qmCancelling = Range(qmPosts)

\* The page's refresh mark is up only while the queue is being asked for.
QmSpinner == qmLoading \/ qmRefreshing => qmFlight > 0
QmArmEnds == qmConfirm => qmDisarms > 0
==============================================================================

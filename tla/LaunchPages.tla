----------------------------- MODULE LaunchPages -----------------------------
(***************************************************************************)
(* The pages that send work out: an assessment, the heavy tests and the    *)
(* CI reruns, the agent dispatch in three steps, the quick-dispatch popup  *)
(* and the remediation of the phone.  laPage is the one mounted.           *)
(***************************************************************************)
EXTENDS Naturals, SequencesExt, FiniteSets

CONSTANTS
    LaItem,         \* repositories, runs, pull requests, issues
    LaNone,         \* nothing chosen
    LaFlights       \* bound: requests and timers of one kind

ASSUME LaAssumption == LaFlights \in Nat \ {0}

VARIABLES
    laPage,         \* the page mounted
    laChosen,       \* the item chosen, LaNone for none
    laPosts,        \* dispatches in flight, by item
    laLocked,       \* the buttons that are dead while one is out
    laStep,         \* the panel, the step, the popup or the sheet shown
    laOutcome,      \* the message of the last dispatch, "none" for none
    laForm,         \* what a form lacks, or that it is complete
    laTimers,       \* 1.5 s timers that close the popup
    laListed,       \* items the phone lists
    laHidden,       \* items dispatched, kept by the shell
    laTimes         \* dispatches that succeeded, by item

laVars == <<laPage, laChosen, laPosts, laLocked, laStep, laOutcome, laForm,
            laTimers, laListed, laHidden, laTimes>>
laRest == <<laPage, laTimers, laListed, laHidden, laTimes>>

LaPages == {"assessments", "tests", "agent", "quick", "phone"}
LaPosted == {i \in LaItem : laPosts[i] > 0}
Send(item) ==
    /\ laPosts[item] < LaFlights
    /\ laPosts' = [laPosts EXCEPT ![item] = @ + 1]
Settle(item) ==
    /\ laPosts[item] > 0
    /\ laPosts' = [laPosts EXCEPT ![item] = @ - 1]
------------------------------------------------------------------------------
LaTypeOK ==
    /\ laPage \in LaPages
    /\ laChosen \in LaItem \cup {LaNone}
    /\ laPosts \in [LaItem -> 0..LaFlights]
    /\ laLocked \subseteq LaItem
    /\ laStep \in {"none", "confirm", "select", "review", "dispatch", "open",
                   "sheet", "picker"}
    /\ laOutcome \in {"none", "ok", "error"}
    /\ laForm \in {"none", "repository", "prompt", "complete"}
    /\ laTimers \in 0..LaFlights
    /\ {laListed, laHidden} \subseteq SUBSET LaItem
    /\ laTimes \in [LaItem -> 0..LaFlights]

LaInit ==
    /\ laPage \in LaPages
    /\ laChosen = LaNone
    /\ laPosts = [i \in LaItem |-> 0]
    /\ laLocked = {}
    /\ laStep = IF laPage = "agent" THEN "select" ELSE "none"
    /\ laOutcome = "none"
    /\ laForm = IF laPage = "quick" THEN "repository" ELSE "none"
    /\ laTimers = 0
    /\ laListed = {} /\ laHidden = {}
    /\ laTimes = [i \in LaItem |-> 0]
------------------------------------------------------------------------------
(* Assessments.  The repository can be picked again, or unpicked, below    *)
(* the question whether to send it; nothing is dead while one is out.      *)
AsOffered == (IF laChosen = LaNone THEN {} ELSE {"run"})
             \cup (IF laStep = "confirm" THEN {"confirm", "cancel"} ELSE {})

AsPick == \E repo \in LaItem \cup {LaNone} :
    /\ laPage = "assessments"
    /\ laChosen' = repo
    /\ UNCHANGED <<laRest, laPosts, laLocked, laStep, laOutcome, laForm>>
AsAsk == \E ask \in BOOLEAN :
    /\ laPage = "assessments"
    /\ (IF ask THEN "run" ELSE "cancel") \in AsOffered
    /\ laStep' = IF ask THEN "confirm" ELSE "none"
    /\ UNCHANGED <<laRest, laChosen, laPosts, laLocked, laOutcome, laForm>>
\* An unpicked repository is sent as an empty name and refused.
AsDispatch ==
    /\ laPage = "assessments" /\ "confirm" \in AsOffered
    /\ laStep' = "none"
    /\ IF laChosen = LaNone
         THEN laOutcome' = "error" /\ UNCHANGED laPosts
         ELSE laOutcome' = "none" /\ Send(laChosen)
    /\ UNCHANGED <<laRest, laChosen, laLocked, laForm>>
AsDispatched == \E repo \in LaItem, ok \in BOOLEAN :
    /\ laPage = "assessments"
    /\ Settle(repo)
    /\ laOutcome' = IF ok THEN "ok" ELSE "error"
    /\ UNCHANGED <<laRest, laChosen, laLocked, laStep, laForm>>
AsNext == AsPick \/ AsAsk \/ AsDispatch \/ AsDispatched
------------------------------------------------------------------------------
(* Tests.  A button of each repository reruns its failed run or sends its  *)
(* heavy tests, and is dead until the answer.                              *)
TeOffered == LaItem \ laLocked
TeSend == \E item \in TeOffered :
    /\ laPage = "tests"
    /\ Send(item)
    /\ laLocked' = laLocked \cup {item}
    /\ UNCHANGED <<laRest, laChosen, laStep, laOutcome, laForm>>
TeSent == \E item \in LaItem :
    /\ laPage = "tests"
    /\ Settle(item)
    /\ laLocked' = laLocked \ {item}
    /\ UNCHANGED <<laRest, laChosen, laStep, laOutcome, laForm>>
TeNext == TeSend \/ TeSent
------------------------------------------------------------------------------
(* Agent dispatch: a provider (laForm) and a failed run are selected, then *)
(* reviewed, then dispatched; the result leads back to either step.        *)
AdOffered ==
    CASE laStep = "select"   -> {"provider", "run"} \cup
                                (IF laForm = "complete" THEN {"review"} ELSE {})
      [] laStep = "review"   -> {"back"} \cup
                                (IF laForm = "complete" /\ laChosen # LaNone
                                    /\ laLocked = {}
                                   THEN {"confirm"} ELSE {})
      [] laStep = "dispatch" -> IF laOutcome = "none" THEN {} ELSE {"new", "back"}
      [] OTHER               -> {}

AdProvider == \E form \in {"none", "complete"} :
    /\ laPage = "agent" /\ "provider" \in AdOffered
    /\ laForm' = form
    /\ laOutcome' = "none"
    /\ UNCHANGED <<laRest, laChosen, laPosts, laLocked, laStep>>
AdRun == \E run \in LaItem :
    /\ laPage = "agent" /\ "run" \in AdOffered
    /\ laChosen' = run
    /\ UNCHANGED <<laRest, laPosts, laLocked, laStep, laOutcome, laForm>>
AdReview ==
    /\ laPage = "agent" /\ "review" \in AdOffered
    /\ laStep' = "review"
    /\ UNCHANGED <<laRest, laChosen, laPosts, laLocked, laOutcome, laForm>>
AdBack ==
    /\ laPage = "agent" /\ "back" \in AdOffered
    /\ laStep' = IF laStep = "review" THEN "select" ELSE "review"
    /\ laOutcome' = IF laStep = "review" THEN laOutcome ELSE "none"
    /\ UNCHANGED <<laRest, laChosen, laPosts, laLocked, laForm>>
AdConfirm ==
    /\ laPage = "agent" /\ "confirm" \in AdOffered
    /\ Send(laChosen)
    /\ laStep' = "dispatch" /\ laOutcome' = "none"
    /\ laLocked' = {laChosen}
    /\ UNCHANGED <<laRest, laChosen, laForm>>
AdAnswer == \E run \in LaItem, ok \in BOOLEAN :
    /\ laPage = "agent"
    /\ Settle(run)
    /\ laOutcome' = IF ok THEN "ok" ELSE "error"
    /\ laLocked' = {}
    /\ UNCHANGED <<laRest, laChosen, laStep, laForm>>
AdNew ==
    /\ laPage = "agent" /\ "new" \in AdOffered
    /\ laStep' = "select" /\ laOutcome' = "none"
    /\ laChosen' = LaNone /\ laForm' = "none"
    /\ UNCHANGED <<laRest, laPosts, laLocked>>
AdNext == AdProvider \/ AdRun \/ AdReview \/ AdBack \/ AdConfirm \/ AdAnswer
          \/ AdNew
------------------------------------------------------------------------------
(* Quick dispatch.  The popup closes on its toggle, Escape and a click     *)
(* beside it, also while a dispatch is out; a success closes it 1.5 s      *)
(* later, whatever it shows by then.                                       *)
QdOffered == IF laStep # "open" \/ laLocked # {} THEN {}
             ELSE {"dispatch", "cancel"}

QdToggle == \E forget \in BOOLEAN :     \* the toggle, or Escape and beside
    /\ laPage = "quick"
    /\ forget \/ laStep = "open"
    /\ laStep' = IF laStep = "open" THEN "none" ELSE "open"
    /\ laOutcome' = IF forget THEN "none" ELSE laOutcome
    /\ UNCHANGED <<laRest, laChosen, laPosts, laLocked, laForm>>
\* The lists come with the first opening, the prompt is typed.
QdFill == \E item \in LaItem, form \in {"prompt", "complete"} :
    /\ laPage = "quick" /\ laStep = "open"
    /\ laChosen' = item /\ laForm' = form
    /\ UNCHANGED <<laRest, laPosts, laLocked, laStep, laOutcome>>
QdDispatch ==
    /\ laPage = "quick" /\ "dispatch" \in QdOffered
    /\ IF laForm # "complete"
         THEN laOutcome' = "error" /\ UNCHANGED <<laPosts, laLocked>>
         ELSE /\ Send(laChosen)
              /\ laOutcome' = "none" /\ laLocked' = {laChosen}
    /\ UNCHANGED <<laRest, laChosen, laStep, laForm>>
QdDispatched == \E item \in LaItem, ok \in BOOLEAN :
    /\ laPage = "quick"
    /\ Settle(item)
    /\ laLocked' = {}
    /\ laOutcome' = IF ok THEN "ok" ELSE "error"
    /\ laForm' = IF ok THEN "prompt" ELSE laForm
    /\ ok => laTimers < LaFlights
    /\ laTimers' = IF ok THEN laTimers + 1 ELSE laTimers
    /\ UNCHANGED <<laPage, laChosen, laStep, laListed, laHidden, laTimes>>
QdTimeout ==
    /\ laPage = "quick" /\ laTimers > 0
    /\ laTimers' = laTimers - 1
    /\ laStep' = "none"
    /\ laOutcome' = IF laOutcome = "ok" THEN "none" ELSE laOutcome
    /\ UNCHANGED <<laPage, laChosen, laPosts, laLocked, laForm, laListed,
                   laHidden, laTimes>>
QdNext == QdToggle \/ QdFill \/ QdDispatch \/ QdDispatched \/ QdTimeout
------------------------------------------------------------------------------
(* Remediation on the phone: the failed runs, pull requests and issues not *)
(* dispatched yet, a sheet for the one tapped with the recommended agent   *)
(* and a second sheet for the others.                                      *)
RmRuns == laListed \ laHidden
RmOffered ==
    CASE laStep = "sheet"  -> {"close"} \cup
                              (IF laLocked = {} THEN {"dispatch", "pick"} ELSE {})
      [] laStep = "picker" -> {"back"} \cup
                              (IF laLocked = {} THEN {"dispatch"} ELSE {})
      [] OTHER             -> {}

\* A load; the sheet is drawn only while there is no failure and no load.
RmLoaded == \E items \in SUBSET LaItem :
    /\ laPage = "phone" /\ laStep = "none"
    /\ laListed' = items
    /\ UNCHANGED <<laPage, laChosen, laPosts, laLocked, laStep, laOutcome,
                   laForm, laTimers, laHidden, laTimes>>
RmTap == \E item \in RmRuns :
    /\ laPage = "phone" /\ laStep = "none"
    /\ laChosen' = item /\ laStep' = "sheet"
    /\ UNCHANGED <<laRest, laPosts, laLocked, laOutcome, laForm>>
RmPick ==
    /\ laPage = "phone"
    /\ {"pick", "back"} \cap RmOffered # {}
    /\ laStep' = IF laStep = "sheet" THEN "picker" ELSE "sheet"
    /\ UNCHANGED <<laRest, laChosen, laPosts, laLocked, laOutcome, laForm>>
RmClose ==
    /\ laPage = "phone" /\ "close" \in RmOffered
    /\ laLocked = {}
    /\ laStep' = "none" /\ laChosen' = LaNone
    /\ UNCHANGED <<laRest, laPosts, laLocked, laOutcome, laForm>>
RmDispatch ==
    /\ laPage = "phone" /\ "dispatch" \in RmOffered
    /\ Send(laChosen)
    /\ laLocked' = {laChosen}
    /\ laStep' = "sheet"
    /\ UNCHANGED <<laRest, laChosen, laOutcome, laForm>>
RmDispatched == \E item \in LaItem, ok \in BOOLEAN :
    /\ laPage = "phone"
    /\ Settle(item)
    /\ laLocked' = {}
    /\ laOutcome' = IF ok THEN "ok" ELSE "error"
    /\ IF ok
         THEN /\ laHidden' = laHidden \cup {item}
              /\ laTimes[item] < LaFlights
              /\ laTimes' = [laTimes EXCEPT ![item] = @ + 1]
              /\ laStep' = "none" /\ laChosen' = LaNone
         ELSE UNCHANGED <<laHidden, laTimes, laStep, laChosen>>
    /\ UNCHANGED <<laPage, laForm, laTimers, laListed>>
RmNext == RmLoaded \/ RmTap \/ RmPick \/ RmClose \/ RmDispatch \/ RmDispatched
------------------------------------------------------------------------------
LaNext == AsNext \/ TeNext \/ AdNext \/ QdNext \/ RmNext
LaSpec == LaInit /\ [][LaNext]_laVars
------------------------------------------------------------------------------
\* Tests, agent and quick dispatch and the phone have at most one dispatch of
\* an item out, however a popup is closed and opened or a step gone back to.
LaOneDispatch ==
    /\ laPage \in {"tests", "phone"} => \A i \in LaItem : laPosts[i] <= 1
    /\ laPage \in {"agent", "quick"} =>
         Cardinality(LaPosted) <= 1 /\ \A i \in LaItem : laPosts[i] <= 1

\* The result of an agent dispatch shows in its own step, and that step shows
\* either the result or a dispatch that is out.
AdStepTrue ==
    laPage = "agent" => /\ laOutcome # "none" => laStep = "dispatch"
                        /\ laStep = "dispatch" =>
                             (laOutcome = "none" <=> LaPosted # {})

\* The phone dispatches an item successfully at most once: once dispatched it
\* is not listed again, and no sheet of it is open.
RmNotTwice == \A i \in LaItem : laTimes[i] <= 1

------------------------------------------------------------------------------
(***************************************************************************)
(* The workflows page: filters kept for the session, a list with rows that *)
(* unfold, and a dialog that dispatches one workflow in two steps.         *)
(***************************************************************************)

CONSTANTS
    WfWorkflow,    \* workflows with a manual trigger
    WfRepo,        \* repositories, each as the set of its workflows
    WfNone         \* no workflow

ASSUME WfAssumption == WfNone \notin WfWorkflow

VARIABLES
    wfShown,       \* the workflows the host holds
    wfLoading,     \* its load is out
    wfError,
    wfFilter,      \* the repository filter, or all of them
    wfSaved,       \* the filters in sessionStorage
    wfExpanded,
    wfModal,       \* the workflow of the dialog
    wfConfirm,     \* the dialog shows its second step
    wfSending,     \* dispatchingWf
    wfPosts,       \* dispatches in flight
    wfConsent      \* history: the workflow whose first step was passed

wfListVars == <<wfShown, wfLoading, wfError, wfFilter, wfSaved, wfExpanded>>
wfVars == <<wfListVars, wfModal, wfConfirm, wfSending, wfPosts, wfConsent>>

WfOne == WfWorkflow \cup {WfNone}
------------------------------------------------------------------------------
WfTypeOK ==
    /\ wfShown \subseteq WfWorkflow
    /\ {wfLoading, wfError, wfConfirm} \subseteq BOOLEAN
    /\ {wfFilter, wfSaved} \subseteq WfRepo \cup {WfWorkflow}
    /\ {wfExpanded, wfModal, wfSending, wfConsent} \subseteq WfOne
    /\ wfPosts \in Seq(WfWorkflow)

WfInit ==
    /\ wfShown = {} /\ wfLoading = TRUE /\ wfError = FALSE
    /\ wfSaved \in WfRepo \cup {WfWorkflow} /\ wfFilter = wfSaved
    /\ wfExpanded = WfNone /\ wfModal = WfNone /\ wfConfirm = FALSE
    /\ wfSending = WfNone /\ wfPosts = <<>> /\ wfConsent = WfNone

WfListed == wfShown \cap wfFilter

WfRefresh ==
    /\ ~wfLoading
    /\ wfLoading' = TRUE /\ wfError' = FALSE
    /\ UNCHANGED <<wfShown, wfFilter, wfSaved, wfExpanded, wfModal, wfConfirm,
                   wfSending, wfPosts, wfConsent>>
WfLoaded == \E ok \in BOOLEAN, list \in SUBSET WfWorkflow :
    /\ wfLoading
    /\ wfLoading' = FALSE /\ wfError' = ~ok
    /\ wfShown' = IF ok THEN list ELSE wfShown
    /\ UNCHANGED <<wfFilter, wfSaved, wfExpanded, wfModal, wfConfirm, wfSending,
                   wfPosts, wfConsent>>

WfFilterTo == \E f \in WfRepo \cup {WfWorkflow} :
    /\ wfModal = WfNone
    /\ wfFilter' = f /\ wfSaved' = f
    /\ UNCHANGED <<wfShown, wfLoading, wfError, wfExpanded, wfModal, wfConfirm,
                   wfSending, wfPosts, wfConsent>>

\* A row unfolds one workflow at a time; its Run button opens the dialog,
\* unless this very workflow is being dispatched.
WfUnfold == \E w \in WfListed :
    /\ wfModal = WfNone
    /\ wfExpanded' = IF wfExpanded = w THEN WfNone ELSE w
    /\ UNCHANGED <<wfShown, wfLoading, wfError, wfFilter, wfSaved, wfModal,
                   wfConfirm, wfSending, wfPosts, wfConsent>>
WfRunButtons == WfListed \ {wfSending}
WfOpen == \E w \in WfRunButtons :
    /\ wfModal = WfNone
    /\ wfModal' = w /\ wfConfirm' = FALSE
    /\ wfConsent' = WfNone
    /\ UNCHANGED <<wfListVars, wfSending, wfPosts>>

\* The dialog: Dispatch..., then Dispatch now, which waits for the dispatch
\* that is out; Cancel at either step.
WfDialog ==
    IF wfModal = WfNone THEN {}
    ELSE IF ~wfConfirm THEN {"proceed", "cancel"}
    ELSE {"cancel"} \cup (IF wfSending = WfNone THEN {"now"} ELSE {})

WfProceed ==
    /\ "proceed" \in WfDialog
    /\ wfConfirm' = TRUE /\ wfConsent' = wfModal
    /\ UNCHANGED <<wfListVars, wfModal, wfSending, wfPosts>>
WfCancel ==
    /\ "cancel" \in WfDialog
    /\ wfModal' = WfNone /\ wfConfirm' = FALSE
    /\ UNCHANGED <<wfListVars, wfSending, wfPosts, wfConsent>>
WfNow ==
    /\ "now" \in WfDialog
    /\ wfSending' = wfModal
    /\ wfPosts' = Append(wfPosts, wfModal)
    /\ UNCHANGED <<wfListVars, wfModal, wfConfirm, wfConsent>>

\* However it ends, the dialog that is open by then is closed.
WfSettles ==
    /\ wfPosts # <<>>
    /\ wfPosts' = Tail(wfPosts)
    /\ wfSending' = WfNone /\ wfModal' = WfNone /\ wfConfirm' = FALSE
    /\ UNCHANGED <<wfListVars, wfConsent>>

WfNext == \/ WfRefresh \/ WfLoaded \/ WfFilterTo \/ WfUnfold \/ WfOpen
          \/ WfProceed \/ WfCancel \/ WfNow \/ WfSettles
WfSpec == WfInit /\ [][WfNext]_wfVars
------------------------------------------------------------------------------
\* One dispatch is out at a time, and it is of a workflow whose dialog was
\* carried through both steps, whichever dialogs were left open or closed by
\* the end of another dispatch.
WfOneDispatch == Len(wfPosts) <= 1 /\ (wfSending # WfNone <=> wfPosts # <<>>)
WfConsented == wfConfirm => wfConsent = wfModal
==============================================================================

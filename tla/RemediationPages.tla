-------------------------- MODULE RemediationPages ---------------------------
(*****************************************************************************)
(* The three sub-tabs of the remediation page: failed runs, issues and pull  *)
(* requests. Only one is mounted at a time, and they share no state.         *)
(*****************************************************************************)
EXTENDS Naturals, SequencesExt, FiniteSetsExt

(***************************************************************************)
(* The Manual Dispatch list of the remediation tab, with the two hosts     *)
(* that own its state: pick a failed run, preview the plan the policy      *)
(* makes for it, dispatch an agent.  One loading flag stands for whatever  *)
(* the host has in flight.                                                 *)
(***************************************************************************)

CONSTANTS
    RrRuns,        \* failed runs are 1 .. RrRuns, in the order they are listed
    RrFlights      \* bound: requests in flight

ASSUME RrAssumption == RrRuns \in Nat /\ RrFlights \in Nat \ {0}

VARIABLES
    rrFailed,      \* the failed runs of the sample
    rrSelected,    \* the selected run, 0 for none
    rrPlan,        \* the plan on show: the run it was made for, and its verdict
    rrLoading,
    rrNote,        \* the in-flight tile: "none", "in-flight", "error"
    rrSheet,       \* the run whose sheet is open, 0 for none
    rrPicker,      \* the agent picker of the sheet is open
    rrProvider,    \* the provider the next dispatch names
    rrEditing,     \* the fields of the policy that are open for typing
    rrSaving,      \* the policy's own saving flag
    rrFlight       \* requests in flight

rrView == <<rrSheet, rrPicker>>
rrPolicy == <<rrEditing, rrSaving>>
rrVars == <<rrFailed, rrSelected, rrPlan, rrLoading, rrNote, rrView,
            rrProvider, rrPolicy, rrFlight>>

RrRun == 1..RrRuns
RrProviders == {"jules_api", "codex_cli"}
RrFields == {"loop guard", "default provider"}
NoPlan == [run |-> 0, accepted |-> FALSE]
RrRequest == [kind : {"load", "save", "plan", "dispatch"}, run : 0..RrRuns]
------------------------------------------------------------------------------
RrTypeOK ==
    /\ rrFailed \subseteq RrRun
    /\ rrSelected \in 0..RrRuns /\ rrSheet \in 0..RrRuns
    /\ rrPlan \in [run : 0..RrRuns, accepted : BOOLEAN]
    /\ rrLoading \in BOOLEAN /\ rrPicker \in BOOLEAN
    /\ rrNote \in {"none", "in-flight", "error"}
    /\ rrProvider \in RrProviders
    /\ rrEditing \subseteq RrFields /\ rrSaving \in BOOLEAN
    /\ rrFlight \in Seq(RrRequest) /\ Len(rrFlight) <= RrFlights

RrInit ==
    /\ rrFailed = {} /\ rrSelected = 0 /\ rrPlan = NoPlan
    /\ rrNote = "none" /\ rrSheet = 0 /\ rrPicker = FALSE
    /\ rrProvider = "jules_api"
    /\ rrEditing = {} /\ rrSaving = FALSE
    /\ rrLoading = TRUE
    /\ rrFlight = <<[kind |-> "load", run |-> 0]>>

\* Without a choice the first run listed counts as the selected one.
IsSelected(run) == \/ run = rrSelected
                   \/ rrSelected = 0 /\ run = Min(rrFailed)

RrSend(kind, run) ==
    /\ Len(rrFlight) < RrFlights
    /\ rrFlight' = Append(rrFlight, [kind |-> kind, run |-> run])
    /\ rrLoading' = TRUE

\* The rows: Preview waits for the host, Dispatch also for a plan that was
\* accepted when the row is the selected one.
RowOffers(run) ==
    {k \in {"plan", "dispatch"} :
        ~rrLoading /\ (k = "dispatch" /\ IsSelected(run) => rrPlan.accepted)}

\* The sheet: Dispatch waits for the host, Preview for nothing.
SheetOffers == {k \in {"plan", "dispatch"} : k = "dispatch" => ~rrLoading}

Previewed == rrNote' = "none"
Dispatched == rrNote' = "in-flight"

RrOrder(kind) == IF kind = "plan" THEN Previewed ELSE Dispatched

RrRow == \E run \in rrFailed : \E kind \in RowOffers(run) :
    /\ RrSend(kind, run)
    /\ RrOrder(kind)
    /\ rrSelected' = run
    /\ UNCHANGED <<rrFailed, rrPlan, rrView, rrProvider, rrPolicy>>

RrOpenSheet == \E run \in rrFailed :
    /\ rrSelected' = run
    /\ rrSheet' = run /\ rrPicker' = FALSE
    /\ UNCHANGED <<rrFailed, rrPlan, rrLoading, rrNote, rrProvider, rrPolicy,
                   rrFlight>>

RrSheetOrder == \E kind \in SheetOffers :
    /\ rrSheet # 0
    /\ RrSend(kind, rrSheet)
    /\ RrOrder(kind)
    /\ rrSelected' = IF kind = "dispatch" THEN rrSheet ELSE rrSelected
    /\ rrSheet' = 0
    /\ UNCHANGED <<rrFailed, rrPlan, rrPicker, rrProvider, rrPolicy>>

RrSheetView ==
    /\ rrSheet # 0
    /\ \/ rrSheet' = 0 /\ UNCHANGED rrPicker
       \/ rrPicker' = ~rrPicker /\ UNCHANGED rrSheet
    /\ UNCHANGED <<rrFailed, rrSelected, rrPlan, rrLoading, rrNote,
                   rrProvider, rrPolicy, rrFlight>>

\* The selects of the sheet and of a row; a row's select selects the row.
RrProvide == \E p \in RrProviders, run \in rrFailed \cup {rrSelected} :
    /\ IF rrSheet # 0 THEN rrPicker ELSE run \in rrFailed
    /\ rrProvider' = p
    /\ rrSelected' = IF rrSheet = 0 THEN run ELSE rrSelected
    /\ UNCHANGED <<rrFailed, rrPlan, rrLoading, rrNote, rrView, rrPolicy,
                   rrFlight>>

RrRefresh ==
    /\ RrSend("load", 0)
    /\ UNCHANGED <<rrFailed, rrSelected, rrPlan, rrNote, rrView, rrProvider,
                   rrPolicy>>

\* A click on a field of the policy opens it, Escape or leaving it closes it.
RrEdit == \E field \in RrFields :
    /\ rrEditing' \in {rrEditing \cup {field}, rrEditing \ {field}}
    /\ UNCHANGED <<rrFailed, rrSelected, rrPlan, rrLoading, rrNote, rrView,
                   rrProvider, rrSaving, rrFlight>>

\* The whole policy is sent, by "Save routing", which waits for the host and
\* for a save, or from an open field, which waits for nothing and is closed.
SavedFrom == (IF rrSaving \/ rrLoading THEN {} ELSE {{}})
                \cup {{field} : field \in rrEditing}

RrSave == \E fields \in SavedFrom :
    /\ RrSend("save", 0)
    /\ rrSaving' = TRUE
    /\ rrEditing' = rrEditing \ fields
    /\ UNCHANGED <<rrFailed, rrSelected, rrPlan, rrNote, rrView, rrProvider>>

\* A load replaces the sample, and a load or a save sets the provider to the
\* policy's default; a failed preview drops the plan, nothing else does. The
\* first save to end, well or not, takes the saving flag down.
RrSettles == \E i \in 1..Len(rrFlight) :
    LET req == rrFlight[i] IN
    /\ rrFlight' = RemoveAt(rrFlight, i)
    /\ rrLoading' = FALSE
    /\ rrSaving' = (rrSaving /\ req.kind # "save")
    /\ CASE req.kind = "load" ->
              /\ \/ rrFailed' \in SUBSET RrRun /\ rrProvider' \in RrProviders
                 \/ UNCHANGED <<rrFailed, rrProvider>>
              /\ UNCHANGED <<rrPlan, rrNote>>
         [] req.kind = "save" ->
              /\ rrProvider' \in RrProviders
              /\ UNCHANGED <<rrFailed, rrPlan, rrNote>>
         [] req.kind = "plan" ->
              /\ rrPlan' \in {NoPlan} \cup [run : {req.run}, accepted : BOOLEAN]
              /\ UNCHANGED <<rrFailed, rrProvider, rrNote>>
         [] OTHER ->
              /\ rrNote' \in {"in-flight", "error"}
              /\ UNCHANGED <<rrFailed, rrProvider, rrPlan>>
    /\ UNCHANGED <<rrSelected, rrView, rrEditing>>

RrNext == \/ RrRow \/ RrOpenSheet \/ RrSheetOrder \/ RrSheetView
          \/ RrProvide \/ RrRefresh \/ RrEdit \/ RrSave \/ RrSettles

RrSpec == RrInit /\ [][RrNext]_rrVars
------------------------------------------------------------------------------
\* The shared flag is up only while some request is out that will lower it,
\* the saving flag only while a save is.
RrSpinner ==
    /\ rrLoading => rrFlight # <<>>
    /\ rrSaving => \E i \in 1..Len(rrFlight) : rrFlight[i].kind = "save"

\* "Dispatch is gated by the plan accepted flag": a dispatch that is sent is
\* of the run for which a plan was made and accepted. It does not hold, the
\* sheet of a run dispatches without one, see the README. No run checks it.
DispatchGated ==
    [][Len(rrFlight') > Len(rrFlight) /\ Last(rrFlight').kind = "dispatch"
          => rrPlan = [run |-> Last(rrFlight').run, accepted |-> TRUE]]_rrVars

------------------------------------------------------------------------------
(***************************************************************************)
(* The Issues sub-tab: a list per source, filters, a selection, and a      *)
(* dialog that dispatches the selected issues that pass the filters.       *)
(***************************************************************************)

CONSTANTS
    IsIssue,        \* issues, each with the repo and number a dispatch needs
    IsFlights       \* bound: requests in flight

ASSUME IsAssumption == IsFlights \in Nat \ {0}

VARIABLES
    isSource,       \* sourceFilter, "none" before the workspaces are known
    isStored,       \* issuesSourceFilter in localStorage
    isOptions,      \* the sources the select offers
    isAsked,        \* the workspaces were asked for and not answered
    isLoading, isError,
    isFlight,       \* list requests in flight, each by its source
    isShown,        \* the issues held
    isBlocked,      \* those of them the backend marked pickable: false
    isOnlyPickable, \* a filter; every filter clears the selection alike
    isSelected,
    isModal, isForce,
    isTicked,       \* history: Force was ticked since this dialog opened
    isPosts,        \* dispatches in flight; their answers differ in nothing
    isSent          \* history: a dispatch forced without being ticked

isFilterVars == <<isSource, isStored, isOptions, isAsked, isOnlyPickable>>
isListVars == <<isLoading, isError, isFlight, isShown, isBlocked>>
isDialogVars == <<isModal, isForce, isTicked>>
isVars == <<isFilterVars, isListVars, isSelected, isDialogVars, isPosts, isSent>>

IsSources == {"github", "linear", "unified"}
------------------------------------------------------------------------------
IsTypeOK ==
    /\ {isSource, isStored} \subseteq IsSources \cup {"none"}
    /\ isOptions \subseteq IsSources
    /\ {isAsked, isLoading, isError, isOnlyPickable, isModal, isForce,
        isTicked, isSent} \subseteq BOOLEAN
    /\ isFlight \in Seq(IsSources) /\ Len(isFlight) <= IsFlights
    /\ isShown \subseteq IsIssue /\ isBlocked \subseteq isShown
    /\ isSelected \subseteq IsIssue
    /\ isPosts \in 0..IsFlights

IsInit ==
    /\ isStored \in IsSources \cup {"none"} /\ isSource = isStored
    /\ isOptions = {"github"} /\ isAsked = TRUE
    /\ isOnlyPickable \in BOOLEAN
    /\ isFlight = IF isSource = "none" THEN <<>> ELSE <<isSource>>
    /\ isLoading = (isSource # "none") /\ isError = FALSE
    /\ isShown = {} /\ isBlocked = {} /\ isSelected = {}
    /\ isModal = FALSE /\ isForce = FALSE /\ isTicked = FALSE
    /\ isPosts = 0 /\ isSent = FALSE

IsListed == IF isOnlyPickable THEN isShown \ isBlocked ELSE isShown
IsItems == IsListed \cap isSelected

\* fetchIssues: no request is cancelled, none is numbered.
IsFetch(source) ==
    /\ Len(isFlight) < IsFlights
    /\ isFlight' = Append(isFlight, IF source = "none" THEN "github" ELSE source)
    /\ isLoading' = TRUE /\ isError' = FALSE
    /\ UNCHANGED <<isShown, isBlocked>>

\* The effects of a change of the source: store it, fetch its list.
IsTurnTo(source) ==
    /\ isSource' = source
    /\ IF source = isSource
         THEN UNCHANGED <<isStored, isListVars>>
         ELSE isStored' = source /\ IsFetch(source)

\* With a Linear workspace that is authorised the sources are three.
IsWorkspaces == \E linear, ok \in BOOLEAN :
    LET offered == IF ok /\ linear THEN IsSources ELSE {"github"}
        kept == IF isSource \in offered THEN isSource
                ELSE IF isStored \in offered THEN isStored
                ELSE IF linear THEN "unified" ELSE "github"
    IN /\ isAsked /\ isAsked' = FALSE
       /\ isOptions' = offered
       /\ IsTurnTo(IF ok THEN kept
                   ELSE IF isSource = "none" THEN "github" ELSE isSource)
       /\ UNCHANGED <<isOnlyPickable, isSelected, isDialogVars, isPosts, isSent>>

IsFilter ==
    /\ ~isModal
    /\ isSelected' = {}
    /\ \/ /\ \E s \in isOptions : IsTurnTo(s)
          /\ UNCHANGED isOnlyPickable
       \/ /\ isOnlyPickable' = ~isOnlyPickable
          /\ UNCHANGED <<isSource, isStored, isListVars>>
    /\ UNCHANGED <<isOptions, isAsked, isDialogVars, isPosts, isSent>>

\* Refresh and Retry keep the selection.
IsRefresh ==
    /\ ~isModal
    /\ IsFetch(isSource)
    /\ UNCHANGED <<isFilterVars, isSelected, isDialogVars, isPosts, isSent>>

\* Another list; what is selected may be blocked in it, or gone.
IsReplaced == /\ isShown' \in SUBSET IsIssue
              /\ isBlocked' \in SUBSET isShown'

\* Wrong: a failed load leaves the spinner up.
IsAnswerOk == \E i \in 1..Len(isFlight) :
    /\ isFlight' = RemoveAt(isFlight, i)
    /\ \/ /\ isLoading' = FALSE /\ UNCHANGED isError
          /\ IsReplaced
       \/ isError' = TRUE /\ UNCHANGED <<isLoading, isShown, isBlocked>>
    /\ UNCHANGED <<isFilterVars, isSelected, isDialogVars, isPosts, isSent>>

IsAnswer == \E i \in 1..Len(isFlight) :
    /\ isFlight' = RemoveAt(isFlight, i)
    /\ isLoading' = FALSE
    /\ \/ UNCHANGED isError /\ IsReplaced
       \/ isError' = TRUE /\ UNCHANGED <<isShown, isBlocked>>
    /\ UNCHANGED <<isFilterVars, isSelected, isDialogVars, isPosts, isSent>>

\* The rows, which the table shows when nothing loads and nothing failed.  The
\* box of a blocked row is dead, whether ticked or not, and "all" leaves the
\* row out: something blocked is selected only by a list that came later.
IsRows == IF isLoading \/ isError THEN {} ELSE IsListed
IsPick ==
    /\ ~isModal /\ IsRows # {}
    /\ \/ \E x \in IsRows \ isBlocked :
             isSelected' = IF x \in isSelected THEN isSelected \ {x}
                           ELSE isSelected \cup {x}
       \/ isSelected' = IsRows \ isBlocked
       \/ isSelected' = {}
    /\ UNCHANGED <<isFilterVars, isListVars, isDialogVars, isPosts, isSent>>

\* Wrong: the dialog opens with the Force of the last one.
IsOpenKeeping ==
    /\ ~isModal /\ IsItems # {}
    /\ isModal' = TRUE /\ isTicked' = FALSE
    /\ UNCHANGED <<isFilterVars, isListVars, isSelected, isForce, isPosts, isSent>>

IsOpen ==
    /\ ~isModal /\ IsItems # {}
    /\ isModal' = TRUE /\ isForce' = FALSE /\ isTicked' = FALSE
    /\ UNCHANGED <<isFilterVars, isListVars, isSelected, isPosts, isSent>>

\* Force is offered while something that cannot be picked is selected.
IsTick ==
    /\ isModal /\ IsItems \cap isBlocked # {}
    /\ isForce' = ~isForce
    /\ isTicked' = TRUE
    /\ UNCHANGED <<isFilterVars, isListVars, isSelected, isModal, isPosts, isSent>>

IsDismiss ==
    /\ isModal
    /\ isModal' = FALSE
    /\ UNCHANGED <<isFilterVars, isListVars, isSelected, isForce, isTicked,
                   isPosts, isSent>>

\* Confirm sends what is selected by then, and is not disabled meanwhile.
IsConfirm ==
    /\ isModal /\ isPosts < IsFlights
    /\ isPosts' = isPosts + 1
    /\ isSent' = (isSent \/ (isForce /\ ~isTicked))
    /\ UNCHANGED <<isFilterVars, isListVars, isSelected, isDialogVars>>

\* Any answer closes the dialog, whichever it is by now; success drops the
\* whole selection, and only an answer that could be read resets Force.
IsDispatched == \E result \in {"success", "refused", "error"} :
    /\ isPosts > 0 /\ isPosts' = isPosts - 1
    /\ isModal' = FALSE
    /\ isForce' = (isForce /\ result = "error")
    /\ isSelected' = IF result = "success" THEN {} ELSE isSelected
    /\ UNCHANGED <<isFilterVars, isListVars, isTicked, isSent>>

IsNext == \/ IsWorkspaces \/ IsFilter \/ IsRefresh \/ IsAnswer \/ IsPick
          \/ IsOpen \/ IsTick \/ IsDismiss \/ IsConfirm \/ IsDispatched

IsSpec == IsInit /\ [][IsNext]_isVars
------------------------------------------------------------------------------
\* The list comes back: "Loading" is shown only while a list is on its way.
IsSpinner == isLoading => isFlight # <<>>

\* Force never outlives the dialog it was ticked in: no dispatch overrides
\* the pick policy on account of an earlier, dismissed or failed, one.
IsForceTicked == ~isSent

------------------------------------------------------------------------------
(***************************************************************************)
(* The PRs sub-tab: filters, a selection that outlives them, and a dialog  *)
(* that dispatches the pull requests it was opened with.                   *)
(***************************************************************************)

CONSTANTS
    PrPull,        \* pull requests
    PrDraft,       \* those that are drafts
    PrFlights      \* bound: list requests in flight, dispatches in flight

ASSUME PrAssumption == PrFlights \in Nat \ {0}

VARIABLES
    prLoading, prError, prFlight,  \* the list, and the requests for it
    prShown, prDrafts,             \* what is held, and the drafts filter
    prSelected,
    prModal,       \* the pull requests of the open dialog, {} when closed
    prSending,     \* "dispatching"
    prPosts,       \* dispatches in flight
    prMessage,     \* "none", "success" or "error"
    prTimers       \* timers that will clear the message

prListVars == <<prLoading, prError, prFlight, prShown>>
prMessageVars == <<prMessage, prTimers>>
prVars == <<prListVars, prDrafts, prSelected, prModal, prSending, prPosts,
            prMessageVars>>
------------------------------------------------------------------------------
PrTypeOK ==
    /\ {prLoading, prError, prDrafts, prSending} \subseteq BOOLEAN
    /\ prFlight \in 0..PrFlights
    /\ {prShown, prSelected, prModal} \subseteq SUBSET PrPull
    /\ prPosts \in Seq(SUBSET PrPull)
    /\ prMessage \in {"none", "success", "error"}
    /\ prTimers \in 0..PrFlights

PrInit ==
    /\ prLoading = TRUE /\ prError = FALSE /\ prFlight = 1
    /\ prShown = {} /\ prDrafts = TRUE /\ prSelected = {} /\ prModal = {}
    /\ prSending = FALSE /\ prPosts = <<>>
    /\ prMessage = "none" /\ prTimers = 0

\* prMatchesFilters, for the drafts box.
PrMatching == IF prDrafts THEN prShown ELSE prShown \ PrDraft

\* The Refresh button, disabled while a list is on its way.
PrRefresh ==
    /\ ~prLoading /\ prModal = {}
    /\ prFlight' = prFlight + 1
    /\ prLoading' = TRUE /\ prError' = FALSE
    /\ UNCHANGED <<prShown, prDrafts, prSelected, prModal, prSending, prPosts,
                   prMessageVars>>

PrAnswer == \E ok \in BOOLEAN, list \in SUBSET PrPull :
    /\ prFlight > 0
    /\ prFlight' = prFlight - 1
    /\ prLoading' = FALSE /\ prError' = ~ok
    /\ prShown' = IF ok THEN list ELSE prShown
    /\ prSelected' = IF ok THEN {} ELSE prSelected
    /\ UNCHANGED <<prDrafts, prModal, prSending, prPosts, prMessageVars>>

PrFilter ==
    /\ prModal = {}
    /\ prDrafts' = ~prDrafts
    /\ UNCHANGED <<prListVars, prSelected, prModal, prSending, prPosts,
                   prMessageVars>>

\* The table, and its rows' and its head's boxes.
PrRows == IF prError \/ (prLoading /\ prShown = {}) THEN {} ELSE PrMatching
PrToggle ==
    /\ prModal = {} /\ PrRows # {}
    /\ \/ \E x \in PrRows :
             prSelected' = IF x \in prSelected THEN prSelected \ {x}
                           ELSE prSelected \cup {x}
       \/ prSelected' = IF PrRows \subseteq prSelected
                        THEN prSelected \ PrRows ELSE prSelected \cup PrRows
    /\ UNCHANGED <<prListVars, prDrafts, prModal, prSending, prPosts,
                   prMessageVars>>

\* "Dispatch to selected", "Dispatch to all" (after a question): the choices
\* the bars under the table offer, whatever the table shows at the time.
PrOffered == {items \in {PrMatching \cap prSelected, PrMatching} : items # {}}
PrOpen == \E items \in PrOffered :
    /\ prModal = {}
    /\ prModal' = items
    /\ UNCHANGED <<prListVars, prDrafts, prSelected, prSending, prPosts,
                   prMessageVars>>

\* The dialog: Cancel waits for the dispatch, Escape and the backdrop do not.
PrClose ==
    /\ prModal # {}
    /\ prModal' = {}
    /\ UNCHANGED <<prListVars, prDrafts, prSelected, prSending, prPosts,
                   prMessageVars>>

\* Wrong: the button does not wait for the dispatch that is out.
PrConfirmAgain ==
    /\ prModal # {} /\ Len(prPosts) < PrFlights
    /\ prSending' = TRUE
    /\ prPosts' = Append(prPosts, prModal)
    /\ UNCHANGED <<prListVars, prDrafts, prSelected, prModal, prMessageVars>>

PrConfirm ==
    /\ prModal # {} /\ ~prSending
    /\ prSending' = TRUE
    /\ prPosts' = Append(prPosts, prModal)
    /\ UNCHANGED <<prListVars, prDrafts, prSelected, prModal, prMessageVars>>

\* Success closes the dialog that is open by now and drops the selection;
\* either way a timer is set that clears whatever message it finds.
PrDispatched == \E i \in 1..Len(prPosts), ok \in BOOLEAN :
    /\ prTimers < PrFlights
    /\ prPosts' = RemoveAt(prPosts, i)
    /\ prSending' = FALSE
    /\ prMessage' = IF ok THEN "success" ELSE "error"
    /\ prTimers' = prTimers + 1
    /\ prModal' = IF ok THEN {} ELSE prModal
    /\ prSelected' = IF ok THEN {} ELSE prSelected
    /\ UNCHANGED <<prListVars, prDrafts>>

PrTimer ==
    /\ prTimers > 0
    /\ prTimers' = prTimers - 1
    /\ prMessage' = "none"
    /\ UNCHANGED <<prListVars, prDrafts, prSelected, prModal, prSending, prPosts>>

PrNext == \/ PrRefresh \/ PrAnswer \/ PrFilter \/ PrToggle \/ PrOpen
          \/ PrClose \/ PrConfirm \/ PrDispatched \/ PrTimer

PrSpec == PrInit /\ [][PrNext]_prVars
------------------------------------------------------------------------------
\* One dispatch at a time, although the dialog can be escaped from and opened
\* again while one is out.
PrOneDispatch == Len(prPosts) <= 1 /\ (prSending <=> prPosts # <<>>)

\* No message stays for ever: while one is shown a timer is set that clears it.
PrMessageEnds == prMessage # "none" => prTimers > 0
==============================================================================

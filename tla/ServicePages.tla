---------------------------- MODULE ServicePages ----------------------------
(***************************************************************************)
(* The pages that run the service itself: diagnostics, deployment, the     *)
(* runner schedule, the conductor queue and the scheduler of the cline     *)
(* launcher.  Each is a state machine of its own; svPage is the one        *)
(* mounted.  A page that is left takes its state along, and the answers to *)
(* its requests go nowhere: what is counted are the requests of one visit. *)
(***************************************************************************)
EXTENDS Naturals, FiniteSets

CONSTANTS
    SvNode,         \* machines of the deployment, agents of the launcher
    SvNone,         \* nothing chosen
    SvFlights       \* bound: requests in flight of one kind

ASSUME SvAssumption == SvFlights \in Nat \ {0}

VARIABLES
    svPage,         \* the page mounted
    svAsking,       \* its load shows as loading
    svError,        \* its error shows
    svLoads,        \* loads in flight
    \* Diagnostics
    dgConfirm,      \* the restart asks to be confirmed
    dgRestarts,     \* restarts posted and not answered
    dgRestarting,   \* the confirm button is dead
    dgMaking,       \* launchers are being generated
    \* Deployment
    dpPanel,        \* the machine of the preview panel and its stage
    dpDryRuns,      \* dry runs in flight, by machine
    dpSignals,      \* update signals in flight, by machine
    dpSeen,         \* machines whose dry run was answered
    dpTimers,       \* 1.5 s timers that load again
    \* Runner schedule
    rsHeld,         \* the schedule held: "none" or the stamp of the server
    rsDraft,        \* the draft: the stamp it was copied from, and edits
    rsSaves,        \* saves in flight
    \* Conductor
    cqShown,        \* the mode shown, SvNone before an answer
    cqOff,          \* the conductor is disabled
    cqBusy,
    cqActions,      \* actions in flight
    \* Cline launcher
    clRunning,      \* the scheduler as the page knows it
    clBusy,         \* the actions whose button is dead
    clPosts         \* actions posted and not answered, of each verb

svLoadVars == <<svAsking, svError, svLoads>>
dgVars == <<dgConfirm, dgRestarts, dgRestarting, dgMaking>>
dpVars == <<dpPanel, dpDryRuns, dpSignals, dpSeen, dpTimers>>
rsVars == <<rsHeld, rsDraft, rsSaves>>
cqVars == <<cqShown, cqOff, cqBusy, cqActions>>
clVars == <<clRunning, clBusy, clPosts>>
svVars == <<svPage, svLoadVars, dgVars, dpVars, rsVars, cqVars, clVars>>

SvPages == {"diagnostics", "deployment", "schedule", "conductor", "cline"}
Modes == {"running", "paused", "draining"}
Verbs == {"start", "stop"} \cup SvNode      \* run once, by agent
Stages == {"asking", "blank", "dry", "confirming", "sent", "failed"}
NoPanel == [machine |-> SvNone, stage |-> "none"]
OthersUnchanged(page) ==
    /\ page # "diagnostics" => UNCHANGED dgVars
    /\ page # "deployment" => UNCHANGED dpVars
    /\ page # "schedule" => UNCHANGED rsVars
    /\ page # "conductor" => UNCHANGED cqVars
    /\ page # "cline" => UNCHANGED clVars
    /\ UNCHANGED svPage
On(page) == svPage = page /\ OthersUnchanged(page)
------------------------------------------------------------------------------
SvTypeOK ==
    /\ svPage \in SvPages
    /\ {svAsking, svError, dgConfirm, dgRestarting, dgMaking, cqOff,
        cqBusy} \subseteq BOOLEAN
    /\ {svLoads, dgRestarts, dpTimers, rsSaves, cqActions} \subseteq 0..SvFlights
    /\ dpPanel \in [machine: SvNode, stage: Stages] \cup {NoPanel}
    /\ dpDryRuns \in [SvNode -> 0..SvFlights]
    /\ dpSignals \in [SvNode -> 0..SvFlights]
    /\ dpSeen \subseteq SvNode
    /\ rsHeld \in 0..SvFlights /\ rsDraft \in [of: 0..SvFlights, edited: BOOLEAN]
    /\ cqShown \in Modes \cup {SvNone}
    /\ clRunning \in BOOLEAN /\ clBusy \subseteq Verbs
    /\ clPosts \in [Verbs -> 0..SvFlights]

\* Every page loads when it is mounted; the launcher's and the deployment's
\* loading is set by the request itself.
SvInit ==
    /\ svPage \in SvPages
    /\ svAsking = TRUE /\ svError = FALSE /\ svLoads = 1
    /\ dgConfirm = FALSE /\ dgRestarts = 0 /\ dgRestarting = FALSE
    /\ dgMaking = FALSE
    /\ dpPanel = NoPanel /\ dpSeen = {} /\ dpTimers = 0
    /\ dpDryRuns = [n \in SvNode |-> 0] /\ dpSignals = [n \in SvNode |-> 0]
    /\ rsHeld = 0 /\ rsDraft = [of |-> 0, edited |-> FALSE]
    /\ rsSaves = 0
    /\ cqShown = SvNone /\ cqOff = FALSE /\ cqBusy = FALSE /\ cqActions = 0
    /\ clRunning = FALSE /\ clBusy = {} /\ clPosts = [v \in Verbs |-> 0]

\* The page is left for another one, or left and opened again.  A restart, an
\* update or an action that is out stays out, and the new visit knows nothing
\* of it.
SvOpen == \E page \in SvPages :
    /\ svPage' = page
    /\ svAsking' = TRUE /\ svError' = FALSE /\ svLoads' = 1
    /\ dgConfirm' = FALSE /\ dgRestarts' = 0 /\ dgRestarting' = FALSE
    /\ dgMaking' = FALSE
    /\ dpPanel' = NoPanel /\ dpSeen' = {} /\ dpTimers' = 0
    /\ dpDryRuns' = [n \in SvNode |-> 0] /\ dpSignals' = [n \in SvNode |-> 0]
    /\ rsHeld' = 0 /\ rsDraft' = [of |-> 0, edited |-> FALSE]
    /\ rsSaves' = 0
    /\ cqShown' = SvNone /\ cqOff' = FALSE /\ cqBusy' = FALSE /\ cqActions' = 0
    /\ clRunning' = FALSE /\ clBusy' = {} /\ clPosts' = [v \in Verbs |-> 0]

Load ==
    /\ svLoads < SvFlights
    /\ svLoads' = svLoads + 1
    /\ svAsking' = TRUE
Loaded(error) ==
    /\ svLoads > 0
    /\ svLoads' = svLoads - 1
    /\ svAsking' = FALSE
    /\ svError' = error
------------------------------------------------------------------------------
(* Diagnostics.  The page is replaced by a line while it loads, and by its *)
(* error once a load was lost: then nothing is left to press.              *)
DgOffered == IF svAsking \/ svError THEN {}
             ELSE {"refresh"}
                  \cup (IF dgConfirm
                          THEN {"cancel"} \cup
                               (IF dgRestarting THEN {} ELSE {"confirm"})
                          ELSE {"restart"})
                  \cup (IF dgMaking THEN {} ELSE {"launchers"})

DgRefresh == /\ On("diagnostics") /\ "refresh" \in DgOffered
             /\ Load /\ UNCHANGED <<svError, dgVars>>
DgLoaded == \E lost \in BOOLEAN : /\ On("diagnostics")
                                  /\ Loaded(lost) /\ UNCHANGED dgVars

DgAsk == \E ask \in BOOLEAN :
    /\ On("diagnostics")
    /\ (IF ask THEN "restart" ELSE "cancel") \in DgOffered
    /\ dgConfirm' = ask
    /\ UNCHANGED <<svLoadVars, dgRestarts, dgRestarting, dgMaking>>
\* Wrong: a restart that is out does not rest the button.
DgRestartAgain ==
    /\ On("diagnostics") /\ dgConfirm /\ ~svAsking /\ ~svError
    /\ dgRestarts < SvFlights
    /\ dgRestarts' = dgRestarts + 1
    /\ dgRestarting' = TRUE
    /\ UNCHANGED <<svLoadVars, dgConfirm, dgMaking>>

DgRestart ==
    /\ On("diagnostics") /\ "confirm" \in DgOffered
    /\ dgRestarts < SvFlights
    /\ dgRestarts' = dgRestarts + 1
    /\ dgRestarting' = TRUE
    /\ UNCHANGED <<svLoadVars, dgConfirm, dgMaking>>
\* The restarted service may never answer: the request is then lost.
DgRestarted ==
    /\ On("diagnostics")
    /\ dgRestarts > 0
    /\ dgRestarts' = dgRestarts - 1
    /\ dgConfirm' = FALSE /\ dgRestarting' = FALSE
    /\ UNCHANGED <<svLoadVars, dgMaking>>
DgLaunchers ==
    /\ On("diagnostics")
    /\ dgMaking \/ "launchers" \in DgOffered    \* the answer, or the click
    /\ dgMaking' = ~dgMaking
    /\ UNCHANGED <<svLoadVars, dgConfirm, dgRestarts, dgRestarting>>

DgNext == DgRefresh \/ DgLoaded \/ DgAsk \/ DgRestart \/ DgRestarted
          \/ DgLaunchers
------------------------------------------------------------------------------
(* Deployment.  Machines out of step offer a dry run; its answer fills the *)
(* panel, whichever machine the panel shows by then.                       *)
DpOffered == IF dpPanel.stage \in {"dry", "confirming"}
               THEN {"confirm", "clear"}
               ELSE IF dpPanel = NoPanel THEN {} ELSE {"clear"}
Panel(n, stage) == dpPanel' = [machine |-> n, stage |-> stage]

DpLoaded == /\ On("deployment")
            /\ Loaded(FALSE) /\ UNCHANGED dpVars
DpPreview == \E n \in SvNode :
    /\ On("deployment") /\ dpDryRuns[n] < SvFlights
    /\ Panel(n, "asking")
    /\ dpDryRuns' = [dpDryRuns EXCEPT ![n] = @ + 1]
    /\ UNCHANGED <<svLoadVars, dpSignals, dpSeen, dpTimers>>
DpPreviewed == \E n \in SvNode, stage \in {"dry", "blank", "failed"} :
    /\ On("deployment") /\ dpDryRuns[n] > 0
    /\ Panel(n, stage)
    /\ dpDryRuns' = [dpDryRuns EXCEPT ![n] = @ - 1]
    /\ dpSeen' = IF stage = "dry" THEN dpSeen \cup {n} ELSE dpSeen
    /\ UNCHANGED <<svLoadVars, dpSignals, dpTimers>>
DpClear ==
    /\ On("deployment") /\ "clear" \in DpOffered
    /\ dpPanel' = NoPanel
    /\ UNCHANGED <<svLoadVars, dpDryRuns, dpSignals, dpSeen, dpTimers>>

\* The button stays while the signal is out: a second click sends another, and
\* no property says otherwise.
DpConfirm ==
    /\ On("deployment") /\ "confirm" \in DpOffered
    /\ dpSignals[dpPanel.machine] < SvFlights
    /\ dpSignals' = [dpSignals EXCEPT ![dpPanel.machine] = @ + 1]
    /\ Panel(dpPanel.machine, "confirming")
    /\ UNCHANGED <<svLoadVars, dpDryRuns, dpSeen, dpTimers>>
DpConfirmed == \E n \in SvNode, ok \in BOOLEAN :
    /\ On("deployment") /\ dpSignals[n] > 0
    /\ dpSignals' = [dpSignals EXCEPT ![n] = @ - 1]
    /\ Panel(n, IF ok THEN "sent" ELSE "failed")
    /\ IF ok
         THEN /\ Load /\ dpTimers < SvFlights /\ dpTimers' = dpTimers + 1
         ELSE UNCHANGED <<svLoads, svAsking, dpTimers>>
    /\ UNCHANGED <<svError, dpDryRuns, dpSeen>>
DpTimeout ==
    /\ On("deployment") /\ dpTimers > 0
    /\ dpTimers' = dpTimers - 1
    /\ Load
    /\ UNCHANGED <<svError, dpPanel, dpDryRuns, dpSignals, dpSeen>>

DpNext == DpLoaded \/ DpPreview \/ DpPreviewed \/ DpClear \/ DpConfirm
          \/ DpConfirmed \/ DpTimeout
------------------------------------------------------------------------------
(* Runner schedule.  A new stamp of the server replaces the draft, edits   *)
(* and all; the save sends the draft.                                      *)
Holds(stamp) ==
    /\ rsHeld' = stamp
    /\ rsDraft' = IF stamp # rsHeld THEN [of |-> stamp, edited |-> FALSE]
                                    ELSE rsDraft
RsOffered == {"refresh"}
             \cup (IF svAsking \/ rsDraft.of = 0 THEN {} ELSE {"save"})
RsTable == IF rsDraft.of = 0 THEN "empty" ELSE "inputs"

RsRefresh == /\ On("schedule")
             /\ Load /\ svError' = FALSE /\ UNCHANGED rsVars
RsLoaded == \E stamp \in 1..SvFlights, lost \in BOOLEAN :
    /\ On("schedule")
    /\ Loaded(svError \/ lost)
    /\ IF lost THEN UNCHANGED <<rsHeld, rsDraft>> ELSE Holds(stamp)
    /\ UNCHANGED rsSaves
RsEdit ==
    /\ On("schedule") /\ RsTable = "inputs"
    /\ rsDraft' = [rsDraft EXCEPT !.edited = TRUE]
    /\ UNCHANGED <<svLoadVars, rsHeld, rsSaves>>
RsSave ==
    /\ On("schedule") /\ "save" \in RsOffered
    /\ rsSaves < SvFlights
    /\ rsSaves' = rsSaves + 1
    /\ svAsking' = TRUE /\ svError' = FALSE
    /\ UNCHANGED <<svLoads, rsHeld, rsDraft>>
RsSaved == \E stamp \in 1..SvFlights, lost \in BOOLEAN :
    /\ On("schedule") /\ rsSaves > 0
    /\ rsSaves' = rsSaves - 1
    /\ svAsking' = FALSE
    /\ IF lost THEN /\ svError' = TRUE /\ UNCHANGED <<rsHeld, rsDraft>>
               ELSE /\ UNCHANGED svError /\ Holds(stamp)
    /\ UNCHANGED svLoads

RsNext == RsRefresh \/ RsLoaded \/ RsEdit \/ RsSave \/ RsSaved
------------------------------------------------------------------------------
(* Conductor.  The answer to an action is the state after it, in whatever  *)
(* mode others have put the queue since; an error replaces the page and    *)
(* only loading again brings it back.  The page never asks by itself.      *)
CqOffered ==
    IF svAsking \/ cqOff THEN {}
    ELSE IF svError \/ cqShown = SvNone THEN {"retry"}
    ELSE IF cqBusy THEN {} ELSE Modes \ {cqShown}

CqRetry == /\ On("conductor") /\ "retry" \in CqOffered
           /\ Load /\ svError' = FALSE /\ UNCHANGED cqVars
CqLoaded == \E kind \in {"ok", "off", "lost"}, mode \in Modes :
    /\ On("conductor")
    /\ Loaded(svError \/ kind = "lost")
    /\ cqOff' = (kind = "off" \/ (kind = "lost" /\ cqOff))
    /\ cqShown' = CASE kind = "ok" -> mode [] kind = "off" -> SvNone
                    [] kind = "lost" -> cqShown
    /\ UNCHANGED <<cqBusy, cqActions>>
CqAct ==
    /\ On("conductor") /\ Modes \cap CqOffered # {}
    /\ cqActions < SvFlights
    /\ cqActions' = cqActions + 1
    /\ cqBusy' = TRUE /\ svError' = FALSE
    /\ UNCHANGED <<svAsking, svLoads, cqShown, cqOff>>
CqAnswer == \E mode \in Modes, lost \in BOOLEAN :
    /\ On("conductor")
    /\ cqActions > 0
    /\ cqActions' = cqActions - 1
    /\ cqBusy' = FALSE
    /\ svError' = (svError \/ lost)
    /\ cqShown' = IF lost THEN cqShown ELSE mode
    /\ UNCHANGED <<svAsking, svLoads, cqOff>>

CqNext == CqRetry \/ CqLoaded \/ CqAct \/ CqAnswer
------------------------------------------------------------------------------
(* Cline launcher.  The status comes every 5 s and the repositories on     *)
(* demand; start is offered while the status reads stopped, stop while it  *)
(* reads running, run once for every agent without a lock.                 *)
ClOffered == ((IF clRunning THEN {"stop"} ELSE {"start"}) \cup SvNode) \ clBusy

AskStatus == svLoads < SvFlights /\ svLoads' = svLoads + 1
ClAsk == \E refresh \in {svAsking, TRUE} :
    /\ On("cline")
    /\ AskStatus
    /\ svAsking' = refresh
    /\ UNCHANGED <<svError, clVars>>
ClLoaded == \E running, lost \in BOOLEAN :
    /\ On("cline")
    /\ svLoads > 0 /\ svLoads' = svLoads - 1
    /\ svError' = lost
    /\ clRunning' = IF lost THEN clRunning ELSE running
    /\ UNCHANGED <<svAsking, clBusy, clPosts>>
ClRepos == \E lost \in BOOLEAN :
    /\ On("cline") /\ svAsking
    /\ svAsking' = FALSE
    /\ svError' = lost
    /\ UNCHANGED <<svLoads, clVars>>
ClAct == \E verb \in ClOffered :
    /\ On("cline") /\ clPosts[verb] < SvFlights
    /\ clBusy' = clBusy \cup {verb}
    /\ clPosts' = [clPosts EXCEPT ![verb] = @ + 1]
    /\ UNCHANGED <<svLoadVars, clRunning>>
\* An action done asks for the status again.
ClDone == \E verb \in Verbs, ok \in BOOLEAN :
    /\ On("cline") /\ clPosts[verb] > 0
    /\ clPosts' = [clPosts EXCEPT ![verb] = @ - 1]
    /\ clBusy' = clBusy \ {verb}
    /\ IF ok THEN AskStatus /\ UNCHANGED svError
             ELSE UNCHANGED svLoads /\ svError' = TRUE
    /\ UNCHANGED <<svAsking, clRunning>>

ClNext == ClAsk \/ ClLoaded \/ ClRepos \/ ClAct \/ ClDone
------------------------------------------------------------------------------
SvNext == SvOpen \/ DgNext \/ DpNext \/ RsNext \/ CqNext \/ ClNext
SvSpec == SvInit /\ [][SvNext]_svVars
------------------------------------------------------------------------------
\* A page that says it loads has a load or a save out.  (The launcher's flag is
\* its search for repositories itself.)
SvSpinner == svAsking /\ svPage # "cline" => svLoads + rsSaves > 0

\* Within a visit, pressing restart, confirm and cancel in any order never has
\* two restarts of the service out.
DgOneRestart == dgRestarts <= 1

\* An update is signalled to a machine only after its own dry run came back
\* with a preview in this visit, whatever machine the panel showed in between
\* and whichever answers came late.  It may be signalled twice.
DpDrySeen == \A n \in SvNode : dpSignals[n] > 0 => n \in dpSeen

\* The conductor page has one request out at most, of a load, a retry and the
\* three actions together: no answer overwrites the mode a later one showed.
CqOneOut == svPage = "conductor" => svLoads + cqActions <= 1

\* Of every action of the launcher one is out at most, although the status that
\* offers it is polled and actions end in any order.
ClOneEach == \A verb \in Verbs : clPosts[verb] <= 1
==============================================================================

----------------------------- MODULE FleetPages ------------------------------
(*****************************************************************************)
(* The two pages that command the fleet: runners started and stopped, and    *)
(* machines dispatched and deployed to. They share no state.                 *)
(*****************************************************************************)
EXTENDS Naturals, SequencesExt

(***************************************************************************)
(* The fleet tab and its two hosts: the native overview page, which loads  *)
(* ten documents in one Promise.all, and the legacy shell, which polls and *)
(* follows a control up with timers.  The tab's buttons start and stop     *)
(* runners; the host sends the command and owns the flags that lock them.  *)
(***************************************************************************)

CONSTANTS
    Runner,
    FtLoads        \* bound: loads in flight

ASSUME FtAssumption == FtLoads \in Nat \ {0}

VARIABLES
    ftHost,        \* "native" or "legacy"
    ftServer,      \* the runners that are online, at the server
    ftShown,       \* and as the host holds them
    ftLoading, ftAction, ftError,
    ftLoads,       \* loads in flight, with the runners read for them
    ftPosts,       \* controls in flight
    ftRefetch,     \* legacy: fetchFleet timers of 2 s pending (0 or 1)
    ftUnlock,      \* legacy: the 2.5 s timer that drops the lock is pending
    ftFilter,      \* the status filter of the runner list
    ftCollapsed    \* the machine's rows are folded away

ftServerVars == <<ftServer>>
ftTimers == <<ftRefetch, ftUnlock>>
ftView == <<ftFilter, ftCollapsed>>
ftVars == <<ftHost, ftServer, ftShown, ftLoading, ftAction, ftError, ftLoads,
            ftPosts, ftTimers, ftView>>

Filters == {"all", "online", "offline"}
------------------------------------------------------------------------------
FtTypeOK ==
    /\ ftHost \in {"native", "legacy"}
    /\ ftServer \subseteq Runner /\ ftShown \subseteq Runner
    /\ {ftLoading, ftAction, ftError, ftRefetch, ftUnlock, ftCollapsed}
          \subseteq BOOLEAN
    /\ ftLoads \in Seq(SUBSET Runner) /\ Len(ftLoads) <= FtLoads
    /\ Len(ftPosts) <= 1
    /\ ftFilter \in Filters

FtInit ==
    /\ ftHost \in {"native", "legacy"}
    /\ ftServer \in SUBSET Runner
    /\ ftShown = {}
    /\ ftLoading = (ftHost = "native")
    /\ ftAction = FALSE /\ ftError = FALSE
    /\ ftLoads = <<ftServer>>
    /\ ftPosts = <<>>
    /\ ftRefetch = FALSE /\ ftUnlock = FALSE
    /\ ftFilter = "all" /\ ftCollapsed = FALSE

\* The lock the host hands to the tab.
Busy == IF ftHost = "native" THEN ftLoading \/ ftAction ELSE ftAction

\* The rows the tab lists.
Listed == IF ftCollapsed THEN {}
          ELSE {r \in Runner : CASE ftFilter = "online" -> r \in ftShown
                                 [] ftFilter = "offline" -> r \notin ftShown
                                 [] OTHER -> TRUE}

\* What the control buttons do to the fleet when the server obeys.
FleetCommand == {[runners |-> Runner, to |-> "up"],
                 [runners |-> Runner, to |-> "down"]}
RunnerCommand == {[runners |-> {r},
                   to |-> IF r \in ftShown THEN "down" ELSE "up"] : r \in Listed}

Obeyed(c) == IF c.to = "up" THEN ftServer \cup c.runners
             ELSE ftServer \ c.runners

\* refresh() of the native page, fetchFleet of the shell.
Load ==
    /\ Len(ftLoads) < FtLoads
    /\ ftLoads' = Append(ftLoads, ftServer)
    /\ IF ftHost = "native"
         THEN ftLoading' = TRUE /\ ftError' = FALSE
         ELSE UNCHANGED <<ftLoading, ftError>>

\* onFleet and onRunner: lock, send. Every button is disabled while locked.
FtControl == \E c \in FleetCommand \cup RunnerCommand :
    /\ ~Busy
    /\ ftAction' = TRUE
    /\ ftPosts' = Append(ftPosts, c)
    /\ UNCHANGED <<ftHost, ftServer, ftShown, ftLoading, ftError, ftLoads,
                   ftTimers, ftView>>

\* The native page: success reloads, a refusal is shown as its error, and
\* either way the lock is dropped.
NativeSettles == \E ok, done \in BOOLEAN :
    /\ ftHost = "native" /\ ftPosts # <<>>
    /\ ok => done
    /\ ftServer' = IF done THEN Obeyed(Head(ftPosts)) ELSE ftServer
    /\ ftPosts' = <<>>
    /\ ftAction' = FALSE
    /\ IF ok
         THEN /\ Len(ftLoads) < FtLoads
              /\ ftLoads' = Append(ftLoads, ftServer')
              /\ ftLoading' = TRUE /\ ftError' = FALSE
         ELSE ftError' = TRUE /\ UNCHANGED <<ftLoads, ftLoading>>
    /\ UNCHANGED <<ftHost, ftShown, ftTimers, ftView>>

\* Wrong: a request that was not answered never unlocks.
LegacySettlesAnswered == \E answered, done \in BOOLEAN :
    /\ ftHost = "legacy" /\ ftPosts # <<>>
    /\ ftServer' = IF done THEN Obeyed(Head(ftPosts)) ELSE ftServer
    /\ ftPosts' = <<>>
    /\ ftRefetch' = (ftRefetch \/ answered)
    /\ ftUnlock' = answered
    /\ UNCHANGED <<ftHost, ftShown, ftLoading, ftAction, ftError, ftLoads,
                   ftView>>

\* The legacy shell: any answer schedules the reload, and the lock falls
\* 2.5 s after the request settled, refused or not.
LegacySettles == \E answered, done \in BOOLEAN :
    /\ ftHost = "legacy" /\ ftPosts # <<>>
    /\ ftServer' = IF done THEN Obeyed(Head(ftPosts)) ELSE ftServer
    /\ ftPosts' = <<>>
    /\ ftRefetch' = (ftRefetch \/ answered)
    /\ ftUnlock' = TRUE
    /\ UNCHANGED <<ftHost, ftShown, ftLoading, ftAction, ftError, ftLoads,
                   ftView>>

FtSettles == NativeSettles \/ LegacySettles

FtRefetch ==
    /\ ftRefetch
    /\ ftRefetch' = FALSE
    /\ Load
    /\ UNCHANGED <<ftHost, ftServer, ftShown, ftAction, ftPosts, ftUnlock,
                   ftView>>

\* The 2 s timer was set before the 2.5 s one and fires before it.
FtUnlock ==
    /\ ftUnlock /\ ~ftRefetch
    /\ ftUnlock' = FALSE
    /\ ftAction' = FALSE
    /\ UNCHANGED <<ftHost, ftServer, ftShown, ftLoading, ftError, ftLoads,
                   ftPosts, ftRefetch, ftView>>

\* The Retry button of the native page's error, the shell's poll. The bound
\* keeps one load free for what follows a control.
FtReload ==
    /\ Len(ftLoads) < FtLoads - 1
    /\ ftHost = "native" => ftError
    /\ Load
    /\ UNCHANGED <<ftHost, ftServer, ftShown, ftAction, ftPosts, ftTimers,
                   ftView>>

\* A load settles, in any order: one failed document fails the native page's
\* load as a whole; the shell retains the runners it had.
FtLoaded == \E i \in 1..Len(ftLoads), ok \in BOOLEAN :
    /\ ftLoads' = RemoveAt(ftLoads, i)
    /\ ftShown' = IF ok THEN ftLoads[i] ELSE ftShown
    /\ IF ftHost = "native"
         THEN ftLoading' = FALSE /\ ftError' = (ftError \/ ~ok)
         ELSE UNCHANGED <<ftLoading, ftError>>
    /\ UNCHANGED <<ftHost, ftServer, ftAction, ftPosts, ftTimers, ftView>>

FtFilter == \E f \in Filters :
    /\ ftFilter' = f
    /\ UNCHANGED <<ftHost, ftServer, ftShown, ftLoading, ftAction, ftError,
                   ftLoads, ftPosts, ftTimers, ftCollapsed>>

FtToggle ==
    /\ ftCollapsed' = ~ftCollapsed
    /\ UNCHANGED <<ftHost, ftServer, ftShown, ftLoading, ftAction, ftError,
                   ftLoads, ftPosts, ftTimers, ftFilter>>

\* Runners come and go by themselves.
FtDrift == \E r \in Runner :
    /\ ftServer' = IF r \in ftServer THEN ftServer \ {r} ELSE ftServer \cup {r}
    /\ UNCHANGED <<ftHost, ftShown, ftLoading, ftAction, ftError, ftLoads,
                   ftPosts, ftTimers, ftView>>

FtNext == \/ FtControl \/ FtSettles \/ FtRefetch
          \/ FtUnlock \/ FtReload \/ FtLoaded \/ FtFilter \/ FtToggle
          \/ FtDrift

\* Requests settle and due timers fire.
FtFairness == /\ WF_ftVars(FtSettles) /\ WF_ftVars(FtRefetch)
              /\ WF_ftVars(FtUnlock) /\ WF_ftVars(FtLoaded)

FtSpec == FtInit /\ [][FtNext]_ftVars /\ FtFairness
------------------------------------------------------------------------------
\* No second control leaves the page while one is out, from any button and
\* with any reload in between.
ControlLocked == ftPosts # <<>> => Busy

\* The legacy shell unlocks only with nothing left to do for the control: it
\* was answered and its reload was sent.
LegacyUnlocksLast ==
    [][ftHost = "legacy" /\ ftAction /\ ~ftAction' =>
          ftPosts = <<>> /\ ~ftRefetch]_ftVars

\* However the requests of a control end, the buttons come back.
ControlsReturn == []<>(~Busy)

------------------------------------------------------------------------------
(***************************************************************************)
(* The orchestration page: the machines, a dialog that dispatches a        *)
(* workflow, and a form that deploys to one machine once a box is ticked.  *)
(***************************************************************************)

CONSTANTS
    FoMachine, FoNone,      \* machines, and none chosen
    FoFlights               \* bound: requests in flight of one kind

ASSUME FoAssumption == FoFlights \in Nat \ {0}

VARIABLES
    foShown,                \* the machines held
    foLoading, foError, foFlight,
    foOpen, foFilled,       \* the dialog, and its repository and workflow
    foSending, foDispatches, foDispatchError,
    foTarget,               \* the machine of the deploy form
    foConfirm, foDeploying,
    foDeploys,              \* deployments in flight, by machine
    foDeployError

foListVars == <<foShown, foLoading, foError, foFlight>>
foDialogVars == <<foOpen, foFilled, foSending, foDispatches, foDispatchError>>
foFormVars == <<foTarget, foConfirm, foDeploying, foDeploys, foDeployError>>
foVars == <<foListVars, foDialogVars, foFormVars>>
------------------------------------------------------------------------------
FoTypeOK ==
    /\ foShown \subseteq FoMachine
    /\ {foLoading, foError, foOpen, foFilled, foSending, foDispatchError,
        foConfirm, foDeploying, foDeployError} \subseteq BOOLEAN
    /\ {foFlight, foDispatches} \subseteq 0..FoFlights
    /\ foTarget \in FoMachine \cup {FoNone}
    /\ foDeploys \subseteq FoMachine

FoInit ==
    /\ foShown = {} /\ foLoading = TRUE /\ foError = FALSE /\ foFlight = 1
    /\ foOpen = FALSE /\ foFilled = FALSE /\ foSending = FALSE
    /\ foDispatches = 0 /\ foDispatchError = FALSE
    /\ foTarget = FoNone /\ foConfirm = FALSE /\ foDeploying = FALSE
    /\ foDeploys = {} /\ foDeployError = FALSE

\* A load is also asked for by every success; no load cancels another.
FoAsk == foFlight < FoFlights /\ foFlight' = foFlight + 1 /\ foLoading' = TRUE
FoRefresh ==
    /\ ~foLoading /\ FoAsk
    /\ UNCHANGED <<foShown, foError, foDialogVars, foFormVars>>
FoLoaded == \E ok \in BOOLEAN, machines \in SUBSET FoMachine :
    /\ foFlight > 0 /\ foFlight' = foFlight - 1
    /\ foLoading' = FALSE /\ foError' = ~ok
    /\ foShown' = IF ok THEN machines ELSE foShown
    /\ UNCHANGED <<foDialogVars, foFormVars>>

\* The dialog closes on Cancel, the cross, the backdrop and Escape, also
\* while its dispatch is out; what was typed stays.
FoOpen ==
    /\ ~foOpen
    /\ foOpen' = TRUE /\ foDispatchError' = FALSE
    /\ UNCHANGED <<foListVars, foFilled, foSending, foDispatches, foFormVars>>
FoClose ==
    /\ foOpen /\ foOpen' = FALSE
    /\ UNCHANGED <<foListVars, foFilled, foSending, foDispatches,
                   foDispatchError, foFormVars>>
FoFill ==
    /\ foOpen /\ foFilled' = ~foFilled
    /\ UNCHANGED <<foListVars, foOpen, foSending, foDispatches,
                   foDispatchError, foFormVars>>
FoDispatch ==
    /\ foOpen /\ ~foSending
    /\ IF ~foFilled
         THEN foDispatchError' = TRUE /\ UNCHANGED <<foSending, foDispatches>>
         ELSE /\ foDispatches < FoFlights
              /\ foSending' = TRUE /\ foDispatchError' = FALSE
              /\ foDispatches' = foDispatches + 1
    /\ UNCHANGED <<foListVars, foOpen, foFilled, foFormVars>>
FoDispatched == \E ok \in BOOLEAN :
    /\ foDispatches > 0 /\ foDispatches' = foDispatches - 1
    /\ foSending' = FALSE
    /\ foDispatchError' = IF ok THEN foDispatchError ELSE TRUE
    /\ foOpen' = (foOpen /\ ~ok)
    /\ IF ok THEN FoAsk ELSE UNCHANGED <<foLoading, foFlight>>
    /\ UNCHANGED <<foShown, foError, foFilled, foFormVars>>

\* Choosing another machine leaves the box ticked.
FoTarget == \E m \in foShown \cup {FoNone} :
    /\ foTarget' = m
    /\ UNCHANGED <<foListVars, foDialogVars, foConfirm, foDeploying, foDeploys,
                   foDeployError>>
FoTick ==
    /\ foConfirm' = ~foConfirm
    /\ UNCHANGED <<foListVars, foDialogVars, foTarget, foDeploying, foDeploys,
                   foDeployError>>

FoDeployOffered == ~foDeploying /\ foConfirm
FoDeploy ==
    /\ FoDeployOffered
    /\ IF foTarget = FoNone
         THEN foDeployError' = TRUE /\ UNCHANGED <<foDeploying, foDeploys>>
         ELSE /\ foDeploying' = TRUE /\ foDeployError' = FALSE
              /\ foDeploys' = foDeploys \cup {foTarget}
    /\ UNCHANGED <<foListVars, foDialogVars, foTarget, foConfirm>>
FoDeployed == \E m \in foDeploys, ok \in BOOLEAN :
    /\ foDeploys' = foDeploys \ {m}
    /\ foDeploying' = FALSE
    /\ foDeployError' = IF ok THEN foDeployError ELSE TRUE
    /\ foConfirm' = (foConfirm /\ ~ok)
    /\ IF ok THEN FoAsk ELSE UNCHANGED <<foLoading, foFlight>>
    /\ UNCHANGED <<foShown, foError, foDialogVars, foTarget>>

FoNext == \/ FoRefresh \/ FoLoaded \/ FoOpen \/ FoClose \/ FoFill \/ FoDispatch
          \/ FoDispatched \/ FoTarget \/ FoTick \/ FoDeploy \/ FoDeployed
FoSpec == FoInit /\ [][FoNext]_foVars
------------------------------------------------------------------------------
\* One dispatch and one deployment are out at a time, whichever dialog was
\* closed and opened again meanwhile and however the other one ended.
FoOneEach == /\ foSending <=> foDispatches > 0
             /\ foDispatches <= 1
             /\ foDeploying <=> foDeploys # {}
             /\ \A m, n \in foDeploys : m = n
FoSpinner == foLoading => foFlight > 0
==============================================================================

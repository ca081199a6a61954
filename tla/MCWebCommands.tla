---------------------------- MODULE MCWebCommands ----------------------------
(****************************************************************************)
(* The parts of the browser's pages that send commands, side by side for    *)
(* TLC. They share no state, so one run checks them one at a time: scene    *)
(* names the part that runs, chosen at the start, and every other part      *)
(* rests in one of its initial states. A property of one part speaks of all *)
(* its behaviours, and none is multiplied by those of its neighbours.       *)
(****************************************************************************)
EXTENDS RemediationPages, QueuePages, LaunchPages, FleetPages, AdminPages,
        MutationQueue, Toaster

VARIABLE scene     \* the part of the page that runs

CONSTANTS x1, x2, None

MCRepos == {{x1}, {x2}}
MCWorkflows == {{x1, x2}}

Scenes == {"remediation", "issues", "pulls", "queue", "stale",
           "queueMobile", "workflows", "orchestration", "launch", "offline",
           "toasts", "fleet", "principals", "features"}

\* Only the part in scene moves; the others rest in an initial state.
Rest ==
  /\ IF scene = "remediation" THEN TRUE ELSE UNCHANGED rrVars
  /\ IF scene = "issues" THEN TRUE ELSE UNCHANGED isVars
  /\ IF scene = "pulls" THEN TRUE ELSE UNCHANGED prVars
  /\ IF scene = "queue" THEN TRUE ELSE UNCHANGED quVars
  /\ IF scene = "stale" THEN TRUE ELSE UNCHANGED scVars
  /\ IF scene = "queueMobile" THEN TRUE ELSE UNCHANGED qmVars
  /\ IF scene = "workflows" THEN TRUE ELSE UNCHANGED wfVars
  /\ IF scene = "orchestration" THEN TRUE ELSE UNCHANGED foVars
  /\ IF scene = "launch" THEN TRUE ELSE UNCHANGED laVars
  /\ IF scene = "offline" THEN TRUE ELSE UNCHANGED mqVars
  /\ IF scene = "toasts" THEN TRUE ELSE UNCHANGED tsVars
  /\ IF scene = "fleet" THEN TRUE ELSE UNCHANGED ftVars
  /\ IF scene = "principals" THEN TRUE ELSE UNCHANGED pnVars
  /\ IF scene = "features" THEN TRUE ELSE UNCHANGED frVars
  /\ UNCHANGED scene

Init ==
  /\ scene \in Scenes
  /\ RrInit
  /\ IsInit /\ (scene = "issues" \/ (isStored = "none" /\ ~isOnlyPickable))
  /\ PrInit
  /\ QuInit /\ (scene = "queue" \/ ~quOwn)
  /\ ScInit
  /\ QmInit
  /\ WfInit /\ (scene = "workflows" \/ wfSaved = WfWorkflow)
  /\ FoInit
  /\ LaInit /\ (scene = "launch" \/ laPage = "quick")
  /\ MqInit
  /\ TsInit
  /\ FtInit /\ (scene = "fleet" \/ (ftHost = "legacy" /\ ftServer = {}))
  /\ PnInit
  /\ FrInit /\ (scene = "features" \/ frSaved = FrEmpty)

Next ==
  \/ scene = "remediation" /\ RrNext /\ Rest
  \/ scene = "issues" /\ IsNext /\ Rest
  \/ scene = "pulls" /\ PrNext /\ Rest
  \/ scene = "queue" /\ QuNext /\ Rest
  \/ scene = "stale" /\ ScNext /\ Rest
  \/ scene = "queueMobile" /\ QmNext /\ Rest
  \/ scene = "workflows" /\ WfNext /\ Rest
  \/ scene = "orchestration" /\ FoNext /\ Rest
  \/ scene = "launch" /\ LaNext /\ Rest
  \/ scene = "offline" /\ MqNext /\ Rest
  \/ scene = "toasts" /\ TsNext /\ Rest
  \/ scene = "fleet" /\ FtNext /\ Rest
  \/ scene = "principals" /\ PnNext /\ Rest
  \/ scene = "features" /\ FrNext /\ Rest

vars == <<scene, rrVars, isVars, prVars, quVars, scVars, qmVars, wfVars,
          foVars, laVars, mqVars, tsVars, ftVars, pnVars, frVars>>

\* Of the part in scene, see FtFairness, MqFairness and TsFairness.
Fairness ==
  /\ WF_ftVars(scene = "fleet" /\ FtSettles)
  /\ WF_ftVars(scene = "fleet" /\ FtRefetch)
  /\ WF_ftVars(scene = "fleet" /\ FtUnlock)
  /\ WF_ftVars(scene = "fleet" /\ FtLoaded)
  /\ \A t \in MqTab : WF_mqVars(scene = "offline" /\ MqStep(t))
  /\ \A id \in 1..TsIds : WF_tsVars(scene = "toasts" /\ GivenUp(id))
  /\ WF_tsVars(scene = "toasts" /\ TsTimeout)

Spec ==
  /\ Init /\ [][Next]_vars
  /\ Fairness
------------------------------------------------------------------------------
\* The states of the parts that send commands have their types.
CommandTypeOK ==
  /\ scene \in Scenes
  /\ RrTypeOK
  /\ IsTypeOK
  /\ PrTypeOK
  /\ QuTypeOK
  /\ ScTypeOK
  /\ QmTypeOK
  /\ WfTypeOK
  /\ FoTypeOK
  /\ LaTypeOK
  /\ MqTypeOK
  /\ TsTypeOK
  /\ FtTypeOK
  /\ PnTypeOK
  /\ FrTypeOK

\* No page waits for nothing: a spinner, or the step that waits for a
\* dispatch, is shown only while the request that will end it is out, in
\* whatever order and however requests end.
Spinners ==
  /\ RrSpinner
  /\ IsSpinner
  /\ QmSpinner
  /\ FoSpinner
  /\ FrSpinner
  /\ AdStepTrue

\* Where a page disables its button while a command is out, no second command
\* of the kind leaves it, although dialogs are left, reopened and answered
\* late meanwhile.
SingleSubmission ==
  /\ PrOneDispatch
  /\ QuPendingIsOut
  /\ ScOnePurge
  /\ QmOneCancel
  /\ WfOneDispatch
  /\ FoOneEach
  /\ LaOneDispatch
  /\ RmNotTwice
  /\ ControlLocked

\* What a page shows for a while goes by itself: an armed button, a message
\* and a toast each have their timer pending, whichever older timers fire
\* first.
ArmedEnds ==
  /\ QuArmEnds
  /\ QuMessageEnds
  /\ ScArmEnds
  /\ QmArmEnds
  /\ PrMessageEnds
  /\ FrMessageEnds
  /\ FrEditorFollows
  /\ TimersMatchToasts

\* Whatever comes up on a page comes down again.
NothingStaysUp == Spinners /\ ArmedEnds

\* A command that overrides a policy or leaves the page at once was consented
\* to in the dialog it is sent from.
ConsentFirst ==
  /\ IsForceTicked
  /\ WfConsented

\* Whoever started something that goes on by itself gets its answer: a replay
\* that began ends, whatever happens to the connection, who asked by a toast is
\* told, also when newer toasts displace it, and however the requests of a
\* control end, the buttons of the fleet page come back, in the legacy shell
\* with nothing left to do for the control.
AskersGetAnswers ==
  /\ scene = "fleet" => ControlsReturn
  /\ LegacyUnlocksLast
  /\ scene = "offline" => DrainEnds
  /\ scene = "toasts" => AskersAreTold
==============================================================================

---------------------------- MODULE MCWebViews ----------------------------
(****************************************************************************)
(* The parts of the browser's pages that load, watch and converse, side by  *)
(* side for TLC. They share no state, so one run checks them one at a time: *)
(* scene names the part that runs, chosen at the start, and every other     *)
(* part rests in one of its initial states. A property of one part speaks   *)
(* of all its behaviours, and none is multiplied by those of its            *)
(* neighbours.                                                              *)
(****************************************************************************)
EXTENDS LegacyFeeds, FleetWatch, ReadPages, ServicePages, Chats, Shell,
        Credentials

VARIABLE scene     \* the part of the page that runs

CONSTANTS a, b, None

\* Node documents of a machine and of one that reports an alias of its name.
MCDoc(machine, local, reachable, online, system, role, reason, state) ==
  [machine |-> machine, local |-> local, reachable |-> reachable,
   online |-> online, system |-> system, role |-> role, reason |-> reason,
   state |-> state]
MCNodeDocs ==
  {MCDoc("ct-nvme", TRUE, TRUE, TRUE, "none", "hub", "none", "none"),
   MCDoc("ct", FALSE, TRUE, TRUE, "some", "node", "none", "offline"),
   MCDoc("ct", FALSE, TRUE, FALSE, "bare", "hub", "none", "dashboard_only"),
   MCDoc("ct-nvme", FALSE, TRUE, TRUE, "zero", "runner_pool", "none", "none"),
   MCDoc("Brick", FALSE, FALSE, FALSE, "some", "node",
         "resource_monitoring", "none"),
   MCDoc("brick", FALSE, FALSE, FALSE, "none", "node", "none", "offline")}
MCRunnerDocs == [machine : {"ct", "brick"}, online : BOOLEAN]
MCAlias == [x \in {"ct-nvme"} |-> "ct"]
MCLower == [x \in {"ct", "brick", "Brick"} |-> IF x = "Brick" THEN "brick" ELSE x]

Scenes == {"feeds", "events", "alerts", "machines", "analysis", "read",
           "services", "chats", "shell", "credentialsMobile", "credentials"}

\* Only the part in scene moves; the others rest in an initial state.
Rest ==
  /\ IF scene = "feeds" THEN TRUE ELSE UNCHANGED feedVars
  /\ IF scene = "events" THEN TRUE ELSE UNCHANGED evVars
  /\ IF scene = "alerts" THEN TRUE ELSE UNCHANGED alVars
  /\ IF scene = "machines" THEN TRUE ELSE UNCHANGED mcVars
  /\ IF scene = "analysis" THEN TRUE ELSE UNCHANGED anVars
  /\ IF scene = "read" THEN TRUE ELSE UNCHANGED rpVars
  /\ IF scene = "services" THEN TRUE ELSE UNCHANGED svVars
  /\ IF scene = "chats" THEN TRUE ELSE UNCHANGED chVars
  /\ IF scene = "shell" THEN TRUE ELSE UNCHANGED shVars
  /\ IF scene = "credentialsMobile" THEN TRUE ELSE UNCHANGED crVars
  /\ IF scene = "credentials" THEN TRUE ELSE UNCHANGED ctVars
  /\ UNCHANGED scene

Init ==
  /\ scene \in Scenes
  /\ FeedInit /\ (scene = "feeds" \/ (feed = "fleet" /\ feedTab = "overview"))
  /\ EvInit
  /\ AlInit /\ (scene = "alerts" \/ alLive = "hosted-runners")
  /\ McInit
  /\ AnInit /\ (scene = "analysis" \/ (anStored = "reports" /\ anQuery = a))
  /\ RpInit /\ (scene = "read" \/ rpPage = "org")
  /\ SvInit /\ (scene = "services" \/ svPage = "diagnostics")
  /\ ChInit /\ (scene = "chats" \/ mxView = "help")
  /\ ShInit /\ (scene = "shell" \/ shView = "phone")
  /\ CrInit
  /\ CtInit /\ (scene = "credentials" \/ ctHost = "page")

Next ==
  \/ scene = "feeds" /\ FeedNext /\ Rest
  \/ scene = "events" /\ EvNext /\ Rest
  \/ scene = "alerts" /\ AlNext /\ Rest
  \/ scene = "machines" /\ McNext /\ Rest
  \/ scene = "analysis" /\ AnNext /\ Rest
  \/ scene = "read" /\ RpNext /\ Rest
  \/ scene = "services" /\ SvNext /\ Rest
  \/ scene = "chats" /\ ChNext /\ Rest
  \/ scene = "shell" /\ ShNext /\ Rest
  \/ scene = "credentialsMobile" /\ CrNext /\ Rest
  \/ scene = "credentials" /\ CtNext /\ Rest

vars == <<scene, feedVars, evVars, alVars, mcVars, anVars, rpVars, svVars,
          chVars, shVars, crVars, ctVars>>

\* Of the part in scene, see FeedFairness.
Fairness ==
  /\ WF_feedVars(scene = "feeds" /\ FeedTick)
  /\ WF_feedVars(scene = "feeds" /\ FeedShow)
  /\ WF_feedVars(scene = "feeds" /\ FeedOldest)

Spec ==
  /\ Init /\ [][Next]_vars
  /\ Fairness
------------------------------------------------------------------------------
\* The states of the parts that show and settle have their types.
ViewTypeOK ==
  /\ scene \in Scenes
  /\ FeedTypeOK
  /\ EvTypeOK
  /\ AlTypeOK
  /\ McTypeOK
  /\ AnTypeOK
  /\ RpTypeOK
  /\ SvTypeOK
  /\ ChTypeOK
  /\ ShTypeOK
  /\ CrTypeOK
  /\ CtTypeOK

\* No page waits for nothing: whatever order its answers come in, a page that
\* shows it is loading has a request out that will take the sign down, calls
\* that wait for the session wait for a refresh that is out, and recovery is
\* offered only after three failed probes in a row. The exception is the analysis whose
\* collection failed: its spinner stays, and nothing is out.
NoIdleWait ==
  /\ FeedSpinnerHasRequest
  /\ AnSpinner
  /\ RpSpinner
  /\ SvSpinner
  /\ CrSpinner
  /\ CtSpinner
  /\ RefreshHasWaiters
  /\ RecoveryAfterThree

\* Open credentials are always about to be locked again.
LocksHold ==
  /\ CrIdleLocks
  /\ CtLockHolds

\* What a page shows is the best it was told: no newer event is dropped,
\* alarms are those of the newest state of each runner, an alert is hidden
\* only by a press on that content that had not run out when the page was
\* drawn, a machine shows its freshest and fullest report, of a chat only the
\* answer that still streams is marked live (messages restored from storage
\* apart), and only what may be stored is.
ShownIsTrue ==
  /\ EventLogKeepsNewest
  /\ AlarmsFollowNewestState
  /\ HiddenOnlyByOperator
  /\ LiveNeverOffline
  /\ BestTelemetryWins
  /\ OnlyStreamIsLive
  /\ NothingKeptUnasked

\* Within one visit of a page there is at most one restart of a service out,
\* one request of the conductor's page, one post of each kind to the launcher,
\* and no machine is signalled to update before its own dry run was shown. A
\* second update may be signalled while the first one is out.
ServicesConsent ==
  /\ DgOneRestart
  /\ DpDrySeen
  /\ CqOneOut
  /\ ClOneEach

\* A page that is opened by its tab, an alert or a number finds what it shows
\* polled or asked for, and a polled feed ends up with what the server holds,
\* although its requests are neither numbered nor cancelled.
FeedsCatchUp ==
  /\ OpensAsked
  /\ scene = "feeds" => FeedCatchesUp
==============================================================================

------------------------------- MODULE Shell -------------------------------
(***************************************************************************)
(* The frame around the pages: the registry of tabs, the three layouts     *)
(* (phone, modern desktop, classic desktop), the router, the guard that    *)
(* the legacy bundle puts around fetch when it loads, the session and      *)
(* recovery dialogs, and the Help panel of the modern header.              *)
(* Sources: src/frontend/src/shell/*, src/frontend/src/legacy/App.tsx,     *)
(* fetchGuards.ts, sessionExpired.ts, hooks/useSession.ts.                 *)
(*                                                                         *)
(* A call that is answered 401 waits for the one refresh in flight and is  *)
(* then sent again, past the guard. Bounds: ShCall is the set of calls     *)
(* that may be out, ShTab the tabs the operator visits, ShRenewals the     *)
(* number of times the server lets a session lapse.                        *)
(***************************************************************************)
EXTENDS Naturals, FiniteSets

CONSTANTS ShCall, ShTab, ShRenewals

ASSUME ShAssumption == ShRenewals \in Nat

VARIABLES
  shView,      \* which layout the page was loaded with
  shTab,       \* the tab the URL names
  shGuard,     \* the legacy bundle is loaded: fetch is guarded from then on
  shSession,   \* number of the session the server takes, 0: none
  shCookie,    \* number of the session the browser sends, 0: none
  shLapses,    \* how often the session has lapsed
  shCalls,     \* call -> its phase, the session it was sent with, and
               \* whether fetch was guarded then
  shRefresh,   \* the refresh is in flight
  shDialog,    \* the session dialog is asked for
  shProbes,    \* health probes out, as far as 2
  shFails,     \* consecutive failed health probes, as far as 3
  shRecovery,  \* the recovery dialog is open
  shHelp,      \* the Help panel: open, version known, request out
  shMenu       \* the drawer (phone), the rail and folded groups (desktop)

shVars == <<shView, shTab, shGuard, shSession, shCookie, shLapses, shCalls,
            shRefresh, shDialog, shProbes, shFails, shRecovery, shHelp, shMenu>>
shNet == <<shSession, shCookie, shLapses, shCalls, shRefresh, shDialog>>
shHealth == <<shProbes, shFails, shRecovery>>
shPlace == <<shView, shTab, shGuard>>

-----------------------------------------------------------------------------
(* The registry: one set per group, and what the small menus list. *)
FleetGroup == {"overview", "queue", "machines", "runner-schedule", "runner-audit", "events"}
WorkflowsGroup == {"remediation", "workflows", "scheduled-jobs"}
OrchestrationGroup == {"conductor", "agent-dispatch", "fleet-orchestration", "deployment"}
AgentsGroup == {"maxwell", "cline-launcher"}
AnalysisGroup == {"reports", "analysis", "assessments", "feature-requests", "org"}
AdminGroup == {"credentials", "linear-setup", "push-settings", "local-apps", "tests",
               "diagnostics", "principals", "settings"}

NavGroups == {FleetGroup, WorkflowsGroup, OrchestrationGroup, AgentsGroup,
              AnalysisGroup, AdminGroup}
NavItems == UNION NavGroups
FrequentItems == {"overview", "queue", "remediation", "conductor"}
MobilePrimaryItems == {"overview", "queue", "remediation", "maxwell"}
MobileDrawerItems ==
  NavItems \ (MobilePrimaryItems
              \cup {"linear-setup", "local-apps", "tests", "diagnostics", "principals"})

\* The module throws as it loads unless the registry is well formed.
ValidNavRegistry ==
  /\ \A g, k \in NavGroups : g # {} /\ (g # k => g \cap k = {})
  /\ MobilePrimaryItems \cap MobileDrawerItems = {}
  /\ FrequentItems # {} /\ FrequentItems # NavItems
  /\ MobilePrimaryItems # {} /\ MobilePrimaryItems # NavItems

\* Old names in a URL; a name the registry does not know is the overview.
NormalTab(name) == IF name = "fleet" THEN "overview"
                   ELSE IF name = "health" THEN "queue" ELSE name
\* Wrong: a path that names no tab is taken as it is.
TabOfRaw(name) == name

TabOf(name) == IF NormalTab(name) \in NavItems THEN NormalTab(name) ELSE "overview"

\* What each layout draws for a tab itself; the rest is the legacy bundle's.
MobileNative == {"overview", "queue", "maxwell", "remediation", "reports", "credentials"}
DesktopNative == NavItems
\* /settings/push is a route of its own, without any shell around it.
Bare(tab) == tab = "push-settings"
DrawsLegacy(view, tab) ==
  /\ ~Bare(tab)
  /\ \/ view = "phone" /\ tab \notin MobileNative
     \/ view = "classic"
     \/ view = "modern" /\ tab \notin DesktopNative

Mobile == shView = "phone" /\ ~Bare(shTab)
Desktop == shView = "modern" /\ ~Bare(shTab)
LegacyMounted == DrawsLegacy(shView, shTab)

-----------------------------------------------------------------------------
NoCall == [phase |-> "none", session |-> 0, guarded |-> FALSE]
Unread == [open |-> FALSE, version |-> FALSE, asked |-> FALSE]
ClosedMenu == [drawer |-> FALSE, rail |-> FALSE, folded |-> FALSE, intro |-> TRUE]
Awaiting == {c \in ShCall : shCalls[c].phase = "waits"}

ShInit ==
  /\ ValidNavRegistry
  /\ shView \in {"phone", "classic", "modern"}
  /\ shTab = "overview"
  /\ shGuard = DrawsLegacy(shView, shTab)
  /\ shSession = 1 /\ shCookie = 1 /\ shLapses = 0
  /\ shCalls = [c \in ShCall |-> NoCall]
  /\ shRefresh = FALSE /\ shDialog = FALSE
  /\ shProbes = 0 /\ shFails = 0 /\ shRecovery = FALSE
  /\ shHelp = Unread /\ shMenu = ClosedMenu

\* The tabs the open menus offer.
Offered ==
  CASE Mobile -> MobilePrimaryItems \cup (IF shMenu.drawer THEN MobileDrawerItems ELSE {})
    [] Desktop -> NavItems    \* toolstrip and its More menu; the sidebar repeats them
    [] shView = "classic" /\ ~Bare(shTab) -> NavItems
    [] OTHER -> {}

\* A tab is chosen from a menu, or by a deep link or the back button. The
\* dialogs are state of the legacy app and go when it is unmounted; the guard
\* stays, it was put around the window's fetch.
Goes(tab) ==
  LET mounted == DrawsLegacy(shView, tab) IN
  /\ shTab' = tab
  /\ shGuard' = (shGuard \/ mounted)
  /\ shDialog' = (shDialog /\ mounted /\ LegacyMounted)
  /\ shProbes' = IF mounted /\ LegacyMounted THEN shProbes ELSE 0
  /\ shFails' = IF mounted /\ LegacyMounted THEN shFails ELSE 0
  /\ shRecovery' = (shRecovery /\ mounted /\ LegacyMounted)
  /\ shMenu' = [shMenu EXCEPT !.drawer = FALSE,
                              !.intro = @ \/ tab # shTab]
  /\ shHelp' = IF Bare(tab) \/ Bare(shTab) THEN Unread ELSE [shHelp EXCEPT !.open = FALSE]
  /\ UNCHANGED <<shView, shSession, shCookie, shLapses, shCalls, shRefresh>>

ShSelect == \E tab \in ShTab \cap Offered : Goes(TabOf(tab))
ShDeepLink == \E name \in ShTab \cup {"fleet", "nowhere"} : Goes(TabOf(name))

\* The drawer, the collapsed rail, a folded group, the intro of a tab.
ShFold ==
  /\ \/ Mobile /\ shMenu' = [shMenu EXCEPT !.drawer = ~@]
     \/ Desktop /\ shMenu' = [shMenu EXCEPT !.rail = ~@]
     \/ Desktop /\ ~shMenu.rail /\ shMenu' = [shMenu EXCEPT !.folded = ~@]
     \/ Desktop /\ shMenu.intro /\ shMenu' = [shMenu EXCEPT !.intro = FALSE]
  /\ UNCHANGED <<shPlace, shNet, shHealth, shHelp>>

\* "Classic layout", "Refresh", and the return from the login: the page is
\* loaded again, with nothing left but the URL, the cookie and the folds.
ShLoads(view, cookie) ==
  /\ shView' = view /\ shGuard' = DrawsLegacy(view, shTab)
  /\ shCookie' = cookie
  /\ shCalls' = [c \in ShCall |-> NoCall]
  /\ shRefresh' = FALSE /\ shDialog' = FALSE
  /\ shProbes' = 0 /\ shFails' = 0 /\ shRecovery' = FALSE
  /\ shHelp' = Unread
  /\ shMenu' = [ClosedMenu EXCEPT !.rail = shMenu.rail, !.folded = shMenu.folded]
  /\ UNCHANGED <<shTab, shSession, shLapses>>

ShClassic == Desktop /\ ShLoads("classic", shCookie)
ShReload == ShLoads(shView, shCookie)

\* Logging in again brings a session the server takes; the old one is gone.
ShLogin ==
  /\ shDialog \/ (Desktop /\ shCookie = 0)
  /\ shSession' = shLapses + 1 /\ shCookie' = shLapses + 1
  /\ shCalls' = [c \in ShCall |-> NoCall]
  /\ shRefresh' = FALSE /\ shDialog' = FALSE
  /\ shProbes' = 0 /\ shFails' = 0 /\ shRecovery' = FALSE
  /\ shHelp' = Unread /\ shMenu' = [shMenu EXCEPT !.drawer = FALSE, !.intro = TRUE]
  /\ shGuard' = LegacyMounted
  /\ UNCHANGED <<shView, shTab, shLapses>>

\* Logout reads the cookie again whether the request went through or not.
ShLogout ==
  /\ Desktop /\ shCookie # 0
  /\ \/ shCookie' = 0 /\ shSession' = 0
     \/ UNCHANGED <<shCookie, shSession>>
  /\ UNCHANGED <<shPlace, shLapses, shCalls, shRefresh, shDialog, shHealth, shHelp, shMenu>>

-----------------------------------------------------------------------------
(* The session ends on the server; the browser finds out by a 401. *)
ShLapse ==
  /\ shSession # 0 /\ shLapses < ShRenewals
  /\ shSession' = 0 /\ shLapses' = shLapses + 1
  /\ UNCHANGED <<shPlace, shCookie, shCalls, shRefresh, shDialog, shHealth, shHelp, shMenu>>

Accepted(session) == session # 0 /\ session = shSession

ShSend(c) ==
  /\ shCalls[c].phase \in {"none", "done"}
  /\ shCalls' = [shCalls EXCEPT ![c] =
                   [phase |-> "sent", session |-> shCookie, guarded |-> shGuard]]
  /\ UNCHANGED <<shPlace, shSession, shCookie, shLapses, shRefresh, shDialog,
                 shHealth, shHelp, shMenu>>

\* The call fails, is answered otherwise than 401, or no guard looks.
ShAnswer(c) ==
  /\ shCalls[c].phase = "sent"
  /\ shCalls' = [shCalls EXCEPT ![c].phase = "done"]
  /\ UNCHANGED <<shPlace, shSession, shCookie, shLapses, shRefresh, shDialog,
                 shHealth, shHelp, shMenu>>

\* A 401 under the guard: join the refresh that is out, or send one.
ShUnauthorized(c) ==
  /\ shCalls[c].phase = "sent" /\ shCalls[c].guarded /\ ~Accepted(shCalls[c].session)
  /\ shCalls' = [shCalls EXCEPT ![c].phase = "waits"]
  /\ shRefresh' = TRUE
  /\ UNCHANGED <<shPlace, shSession, shCookie, shLapses, shDialog, shHealth, shHelp, shMenu>>

\* The refresh comes back, to every call that waits for it: a renewed session
\* sends them again, a refusal raises the toast and the session dialog, which
\* only the mounted legacy app listens for.
ShRefreshed(renewed) ==
  /\ shRefresh /\ shRefresh' = FALSE
  /\ IF renewed
       THEN shSession' = shLapses + 1 /\ shCookie' = shLapses + 1
       ELSE UNCHANGED <<shSession, shCookie>>
  /\ shCalls' = [c \in ShCall |->
       IF c \notin Awaiting THEN shCalls[c]
       ELSE IF renewed THEN [phase |-> "again", session |-> shCookie', guarded |-> FALSE]
       ELSE [shCalls[c] EXCEPT !.phase = "done"]]
  /\ shDialog' = (shDialog \/ (~renewed /\ Awaiting # {} /\ LegacyMounted))
  /\ UNCHANGED <<shPlace, shLapses, shHealth, shHelp, shMenu>>

\* The second answer is the caller's, whatever it is.
ShAgain(c) ==
  /\ shCalls[c].phase = "again"
  /\ shCalls' = [shCalls EXCEPT ![c].phase = "done"]
  /\ UNCHANGED <<shPlace, shSession, shCookie, shLapses, shRefresh, shDialog,
                 shHealth, shHelp, shMenu>>

ShDismiss ==
  /\ shDialog /\ shDialog' = FALSE
  /\ UNCHANGED <<shPlace, shSession, shCookie, shLapses, shCalls, shRefresh,
                 shHealth, shHelp, shMenu>>

-----------------------------------------------------------------------------
(* The health probe of the legacy app, every 2 s while the page is visible,  *)
(* whether the last one was answered or not. The answer to a probe of an app *)
(* that was left counts for an app that is gone.                             *)
ShProbe ==
  /\ LegacyMounted /\ shProbes < 2
  /\ shProbes' = shProbes + 1
  /\ UNCHANGED <<shPlace, shNet, shFails, shRecovery, shHelp, shMenu>>

ShProbed(up) ==
  /\ LegacyMounted /\ shProbes > 0
  /\ shProbes' = shProbes - 1
  /\ IF up
       THEN shFails' = 0 /\ shRecovery' = FALSE
       ELSE /\ shFails' = IF shFails < 3 THEN shFails + 1 ELSE 3
            /\ shRecovery' = (shRecovery \/ shFails + 1 >= 3)
  /\ UNCHANGED <<shPlace, shNet, shHelp, shMenu>>

ShCloseRecovery ==
  /\ shRecovery /\ shRecovery' = FALSE /\ UNCHANGED <<shProbes, shFails>>
  /\ UNCHANGED <<shPlace, shNet, shHelp, shMenu>>

\* The Help panel asks for the version when it is open and knows none: after
\* a failed answer at once again.
ShHelpToggle ==
  /\ Desktop
  /\ shHelp' = [shHelp EXCEPT !.open = ~@, !.asked = @ \/ (~shHelp.open /\ ~shHelp.version)]
  /\ UNCHANGED <<shPlace, shNet, shHealth, shMenu>>

ShVersion(ok) ==
  /\ shHelp.asked
  /\ shHelp' = [shHelp EXCEPT !.version = ok, !.asked = ~ok /\ shHelp.open]
  /\ UNCHANGED <<shPlace, shNet, shHealth, shMenu>>

ShNext ==
  \/ ShSelect \/ ShDeepLink \/ ShFold \/ ShClassic \/ ShReload \/ ShLogin \/ ShLogout
  \/ ShLapse \/ ShDismiss \/ ShProbe \/ ShCloseRecovery \/ ShHelpToggle
  \/ \E c \in ShCall : ShSend(c) \/ ShAnswer(c) \/ ShUnauthorized(c) \/ ShAgain(c)
  \/ \E ok \in BOOLEAN : ShRefreshed(ok) \/ ShProbed(ok) \/ ShVersion(ok)

ShSpec == ShInit /\ [][ShNext]_shVars

-----------------------------------------------------------------------------
ShTypeOK ==
  /\ shView \in {"phone", "classic", "modern"} /\ shTab \in NavItems
  /\ {shGuard, shRefresh, shDialog, shRecovery} \subseteq BOOLEAN
  /\ shProbes \in 0..2 /\ shFails \in 0..3
  /\ \A c \in ShCall : shCalls[c].phase \in {"none", "sent", "waits", "again", "done"}

\* The refresh is out exactly while a call waits for it: no call is left
\* waiting for an answer that was given, and no second refresh is sent.
RefreshHasWaiters == shRefresh <=> Awaiting # {}

\* The recovery dialog is there only after three probes failed in a row.
RecoveryAfterThree == shRecovery => shFails = 3
=============================================================================

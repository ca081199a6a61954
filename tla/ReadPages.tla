------------------------------ MODULE ReadPages ------------------------------
(*****************************************************************************)
(* The pages that load lists and show them. They share no state.             *)
(*****************************************************************************)
EXTENDS Naturals, SequencesExt

(***************************************************************************)
(* The pages that load a list and show it: the label guide, the local      *)
(* tools, the organisation, the scheduled workflows, the reports and the   *)
(* fleet of the phone, the runner audit, the assessments, the tests and    *)
(* the workspaces of Linear.                                               *)
(* Each page treats an answer, a refusal and a lost answer in its own way. *)
(***************************************************************************)

CONSTANTS
    RpRow,          \* rows a list can have
    RpNone,         \* no report opened
    RpFlights       \* bound: requests in flight

ASSUME RpAssumption == RpFlights \in Nat \ {0}

VARIABLES
    rpPage,         \* the page mounted
    rpRows,         \* the rows it holds
    rpKnown,        \* the answer they are from: "none", "ok", "refused"
    rpError,        \* its error, "none" for none
    rpLoading, rpRefreshing,
    rpFlight,       \* loads in flight
    rpFilter,       \* the rows the filter or the search lets through
    rpSheet,        \* the report opened on the phone
    rpChecks,       \* audit refreshes in flight
    rpTimer         \* the 3 s timer that loads the audit after one

rpListVars == <<rpRows, rpKnown, rpError, rpLoading>>
rpVars == <<rpListVars, rpPage, rpRefreshing, rpFlight, rpFilter, rpSheet,
            rpChecks, rpTimer>>

RpPages == {"label-guide", "local-apps", "org", "scheduled", "reports",
            "fleet", "audit", "assessments", "tests", "linear"}
------------------------------------------------------------------------------
\* What a list becomes.
Shows(rows, known) ==
    [rows |-> rows, known |-> known, error |-> "none"]
Fails(kind) == [rows |-> rpRows, known |-> rpKnown, error |-> kind]
Unchanged == [rows |-> rpRows, known |-> rpKnown, error |-> rpError]

\* Pages that look at the status of the answer.
LabelGuideLoads(kind, rows) ==
    IF kind = "ok" THEN Shows(rows, "ok") ELSE Fails(kind)
OrgLoads(kind, rows) ==
    IF kind = "ok" THEN Shows(rows, "ok") ELSE Fails(kind)
ReportsLoad(kind, rows) ==
    IF kind = "ok" THEN Shows(rows, "ok") ELSE Fails(kind)
FleetLoads(kind, rows) ==
    IF kind = "ok" THEN Shows(rows, "ok") ELSE Fails(kind)
AssessmentsLoad(kind, rows) ==
    IF kind = "ok" THEN Shows(rows, "ok") ELSE Fails(kind)
TestsLoad(kind, rows) ==
    IF kind = "ok" THEN Shows(rows, "ok") ELSE Fails(kind)
LinearLoads(kind, rows) ==
    IF kind = "ok" THEN Shows(rows, "ok") ELSE Fails(kind)

\* Pages that take the body of a refusal for a list, and forget a lost answer.
LocalAppsLoad(kind, rows) ==
    CASE kind = "ok"      -> Shows(rows, "ok")
      [] kind = "refused" -> Shows({}, "refused")
      [] kind = "lost"    -> Unchanged
ScheduledLoad(kind, rows) ==
    CASE kind = "ok"      -> Shows(rows, "ok")
      [] kind = "refused" -> Shows({}, "refused")
      [] kind = "lost"    -> Unchanged

\* The audit is emptied by a lost answer, and a refusal leaves it unchecked.
AuditLoads(kind, rows) ==
    CASE kind = "ok"      -> Shows(rows, "ok")
      [] kind = "refused" -> Shows({}, "refused")
      [] kind = "lost"    -> [rows |-> {}, known |-> "none", error |-> "lost"]

Loads(kind, rows) ==
    CASE rpPage = "label-guide" -> LabelGuideLoads(kind, rows)
      [] rpPage = "local-apps"  -> LocalAppsLoad(kind, rows)
      [] rpPage = "org"         -> OrgLoads(kind, rows)
      [] rpPage = "scheduled"   -> ScheduledLoad(kind, rows)
      [] rpPage = "reports"     -> ReportsLoad(kind, rows)
      [] rpPage = "fleet"       -> FleetLoads(kind, rows)
      [] rpPage = "audit"       -> AuditLoads(kind, rows)
      [] rpPage = "assessments" -> AssessmentsLoad(kind, rows)
      [] rpPage = "tests"       -> TestsLoad(kind, rows)
      [] rpPage = "linear"      -> LinearLoads(kind, rows)
------------------------------------------------------------------------------
\* What a page draws, and how it can be made to ask again.
Screen(skeleton, error, rows, offers) ==
    [skeleton |-> skeleton, error |-> error, rows |-> rows, offers |-> offers]
Waiting == Screen(TRUE, FALSE, {}, {})
Broken(offers) == Screen(FALSE, TRUE, {}, offers)

\* Labels and workflow classes; a failure leaves no way back.
LabelGuideScreen ==
    IF rpLoading THEN Waiting
    ELSE IF rpError # "none" \/ rpKnown = "none" THEN Broken({})
    ELSE Screen(FALSE, FALSE, rpRows, {})

\* The tools, or a line that says no manifest was found.
LocalAppsScreen ==
    Screen(rpLoading, FALSE, IF rpLoading THEN {} ELSE rpRows, {"refresh"})

\* The repositories searched for, below an error with its retry.
OrgScreen ==
    Screen(FALSE, rpError # "none", rpRows \cap rpFilter,
           IF rpError = "none" THEN {} ELSE {"retry"})

\* The scheduled workflows of a repository or a search.
ScheduledScreen ==
    Screen(rpLoading /\ rpRows = {}, FALSE, rpRows \cap rpFilter, {"refresh"})

\* A failure shows only while there is no report to show.
ReportsScreen ==
    IF rpLoading THEN Waiting
    ELSE IF rpError # "none" /\ rpRows = {} THEN Broken({"retry"})
    ELSE Screen(FALSE, FALSE, rpRows \cap rpFilter,
                IF rpRefreshing THEN {} ELSE {"pull"})

\* The machines, the pools of the control tower before the others.
FleetScreen ==
    IF rpLoading THEN Waiting
    ELSE IF rpError # "none" /\ rpRows = {} THEN Broken({})
    ELSE Screen(FALSE, FALSE, rpRows \cap rpFilter,
                IF rpRefreshing THEN {} ELSE {"pull"})

\* The hosted runners found in use.
AuditScreen == Screen(FALSE, rpError # "none", rpRows, {"check"})

\* The latest score of each repository, replaced by a spinner.
AssessmentsScreen ==
    Screen(rpLoading, rpError # "none", IF rpLoading THEN {} ELSE rpRows,
           IF rpLoading THEN {} ELSE {"refresh"})

TestsScreen ==
    Screen(FALSE, rpError # "none", rpRows, IF rpError = "none" THEN {} ELSE {"retry"})

\* The workspaces, none of them below an error; nothing asks again.
LinearScreen ==
    IF rpLoading THEN Waiting
    ELSE Screen(FALSE, rpError # "none", rpRows, {})

RpScreen ==
    CASE rpPage = "label-guide" -> LabelGuideScreen
      [] rpPage = "local-apps"  -> LocalAppsScreen
      [] rpPage = "org"         -> OrgScreen
      [] rpPage = "scheduled"   -> ScheduledScreen
      [] rpPage = "reports"     -> ReportsScreen
      [] rpPage = "fleet"       -> FleetScreen
      [] rpPage = "audit"       -> AuditScreen
      [] rpPage = "assessments" -> AssessmentsScreen
      [] rpPage = "tests"       -> TestsScreen
      [] rpPage = "linear"      -> LinearScreen
------------------------------------------------------------------------------
RpTypeOK ==
    /\ rpPage \in RpPages
    /\ rpRows \subseteq RpRow /\ rpFilter \subseteq RpRow
    /\ rpKnown \in {"none", "ok", "refused"}
    /\ rpError \in {"none", "refused", "lost"}
    /\ {rpLoading, rpRefreshing, rpTimer} \subseteq BOOLEAN
    /\ {rpFlight, rpChecks} \subseteq 0..RpFlights
    /\ rpSheet \in RpRow \cup {RpNone}

\* Every page asks when it is mounted; the audit has no spinner.
RpInit ==
    /\ rpPage \in RpPages
    /\ rpRows = {} /\ rpKnown = "none" /\ rpError = "none"
    /\ rpLoading = (rpPage # "audit")
    /\ rpRefreshing = FALSE
    /\ rpFlight = 1
    /\ rpFilter = RpRow
    /\ rpSheet = RpNone
    /\ rpChecks = 0 /\ rpTimer = FALSE

\* Pages whose every load shows as loading, and those that drop their error.
SpinsAgain == {"local-apps", "org", "scheduled", "assessments", "tests"}
ForgetsError == {"org", "assessments", "tests"}
Polls == {"scheduled", "fleet"}

AskAgain ==
    /\ rpFlight < RpFlights
    /\ rpFlight' = rpFlight + 1
    /\ rpLoading' = (rpLoading \/ rpPage \in SpinsAgain)
    /\ rpError' = IF rpPage \in ForgetsError THEN "none" ELSE rpError
    /\ UNCHANGED <<rpPage, rpRows, rpKnown>>

\* A button or a poll of the page.
RpAsk ==
    /\ RpScreen.offers \cap {"refresh", "retry"} # {} \/ rpPage \in Polls
    /\ AskAgain
    /\ UNCHANGED <<rpRefreshing, rpFilter, rpSheet, rpChecks, rpTimer>>
RpPull ==
    /\ "pull" \in RpScreen.offers
    /\ AskAgain
    /\ rpRefreshing' = TRUE
    /\ UNCHANGED <<rpFilter, rpSheet, rpChecks, rpTimer>>

\* Answers come in any order, and the last one to come is what shows.
RpAnswer == \E kind \in {"ok", "refused", "lost"}, rows \in SUBSET RpRow :
    /\ rpFlight > 0
    /\ rpFlight' = rpFlight - 1
    /\ rpRows' = Loads(kind, rows).rows
    /\ rpKnown' = Loads(kind, rows).known
    /\ rpError' = Loads(kind, rows).error
    /\ rpLoading' = FALSE /\ rpRefreshing' = FALSE
    /\ UNCHANGED <<rpPage, rpFilter, rpSheet, rpChecks, rpTimer>>

\* The audit is checked again by the server, and loaded 3 s after it said so.
RpCheck ==
    /\ "check" \in RpScreen.offers
    /\ rpChecks < RpFlights
    /\ rpChecks' = rpChecks + 1
    /\ UNCHANGED <<rpListVars, rpPage, rpRefreshing, rpFlight, rpFilter,
                   rpSheet, rpTimer>>
RpChecked == \E answered \in BOOLEAN :
    /\ rpChecks > 0
    /\ rpChecks' = rpChecks - 1
    /\ rpTimer' = (rpTimer \/ answered)
    /\ UNCHANGED <<rpListVars, rpPage, rpRefreshing, rpFlight, rpFilter,
                   rpSheet>>
RpTimeout ==
    /\ rpTimer
    /\ rpTimer' = FALSE
    /\ AskAgain
    /\ UNCHANGED <<rpRefreshing, rpFilter, rpSheet, rpChecks>>

\* A search, a repository or a kind; a report opened, and closed.
RpFilterTo == \E rows \in SUBSET RpRow :
    /\ rpPage \in {"org", "scheduled", "reports", "fleet"}
    /\ ~RpScreen.skeleton /\ (rpPage \in {"reports", "fleet"} =>
                                ~RpScreen.error)
    /\ rpFilter' = rows
    /\ UNCHANGED <<rpListVars, rpPage, rpRefreshing, rpFlight, rpSheet,
                   rpChecks, rpTimer>>
RpOpen == \E report \in RpRow \cup {RpNone} :
    /\ rpPage = "reports"
    /\ report \in RpScreen.rows \/ (report = RpNone /\ rpSheet # RpNone)
    /\ rpSheet' = report
    /\ UNCHANGED <<rpListVars, rpPage, rpRefreshing, rpFlight, rpFilter,
                   rpChecks, rpTimer>>

RpNext == \/ RpAsk \/ RpPull \/ RpAnswer \/ RpCheck \/ RpChecked \/ RpTimeout
          \/ RpFilterTo \/ RpOpen
RpSpec == RpInit /\ [][RpNext]_rpVars
------------------------------------------------------------------------------
\* A page says it is loading only while a request of it is in flight, whatever
\* the answers were and whatever asked.
RpSpinner == rpLoading \/ rpRefreshing => rpFlight > 0

------------------------------------------------------------------------------
(***************************************************************************)
(* The analysis page: five sub-tabs of which one is mounted, each with its *)
(* own loads.  A sub-tab that is left takes its state along, and answers   *)
(* to its requests go nowhere.                                             *)
(***************************************************************************)

CONSTANTS
    AnItem,        \* rows of the statistics, dates of the reports
    AnQueries,     \* the choices of days and grouping
    AnNone,        \* nothing selected, nothing held
    AnFlights      \* bound: requests of a kind in flight

ASSUME AnAssumption == AnFlights \in Nat \ {0}

VARIABLES
    anTab, anStored,    \* the sub-tab, and analysis-subtab in localStorage
    anReports,          \* the page's own list of reports has come
    anQuery,            \* the statistics' query
    anRows,             \* the query whose rows are shown
    anLoading, anFlight,
    anSelected, anDetail, anDetailFlight,
    anStuck             \* history: the last request of the tables to end was
                        \* a collection that failed

anMounted == <<anRows, anLoading, anFlight, anSelected, anDetail,
               anDetailFlight, anStuck>>
anVars == <<anTab, anStored, anReports, anQuery, anMounted>>

AnTabs == {"outcomes", "stats", "history", "performance", "reports"}
AnTables == {"outcomes", "stats", "performance"}
------------------------------------------------------------------------------
AnTypeOK ==
    /\ anTab \in AnTabs /\ anStored \in AnTabs
    /\ {anReports, anLoading, anStuck} \subseteq BOOLEAN
    /\ anQuery \in AnQueries /\ anRows \in AnQueries \cup {AnNone}
    /\ anFlight \in Seq({"collect"} \cup AnQueries) /\ Len(anFlight) <= AnFlights
    /\ {anSelected, anDetail} \subseteq AnItem \cup {AnNone}
    /\ anDetailFlight \in Seq(AnItem) /\ Len(anDetailFlight) <= AnFlights

\* A sub-tab is mounted: the tables load, the reports load the newest once
\* the list of reports is there.
Mounted(tab, query, reports, newest) ==
    /\ anRows' = AnNone /\ anDetail' = AnNone /\ anStuck' = FALSE
    /\ anFlight' = IF tab \in AnTables THEN <<query>> ELSE <<>>
    /\ IF tab = "reports" /\ reports
         THEN anSelected' = newest /\ anDetailFlight' = <<newest>>
         ELSE anSelected' = AnNone /\ anDetailFlight' = <<>>
    /\ anLoading' = (tab \in AnTables \/ (tab = "reports" /\ reports))

AnInit ==
    /\ anStored \in AnTabs /\ anTab = anStored
    /\ anReports = FALSE
    /\ anQuery \in AnQueries
    /\ anRows = AnNone /\ anDetail = AnNone /\ anStuck = FALSE
    /\ anSelected = AnNone /\ anDetailFlight = <<>>
    /\ anFlight = IF anTab \in AnTables THEN <<anQuery>> ELSE <<>>
    /\ anLoading = (anTab \in AnTables)

\* The statistics' query starts anew with the component.
AnSwitch == \E tab \in AnTabs \ {anTab}, newest \in AnItem, q \in AnQueries :
    /\ anTab' = tab /\ anStored' = tab
    /\ anQuery' = q
    /\ UNCHANGED anReports
    /\ Mounted(tab, q, anReports, newest)

\* loadReport, and the statistics' effect on a selected row.
AnAsk(item) ==
    /\ Len(anDetailFlight) < AnFlights
    /\ anSelected' = item
    /\ anDetailFlight' = Append(anDetailFlight, item)

AnReportsCome == \E newest \in AnItem :
    /\ ~anReports /\ anReports' = TRUE
    /\ IF anTab = "reports" /\ anSelected = AnNone
         THEN AnAsk(newest) /\ anLoading' = TRUE
         ELSE UNCHANGED <<anSelected, anDetailFlight, anLoading>>
    /\ UNCHANGED <<anTab, anStored, anQuery, anRows, anFlight, anDetail, anStuck>>

AnRequest(what) ==
    /\ Len(anFlight) < AnFlights
    /\ anFlight' = Append(anFlight, what)
    /\ anLoading' = TRUE

\* A new grouping or window deselects, clears the chart and loads.
AnRequery == \E q \in AnQueries \ {anQuery} :
    /\ anTab = "stats"
    /\ anQuery' = q
    /\ anSelected' = AnNone /\ anDetail' = AnNone
    /\ AnRequest(q)
    /\ UNCHANGED <<anTab, anStored, anReports, anRows, anDetailFlight, anStuck>>

AnRefresh ==
    /\ anTab \in AnTables /\ ~anLoading
    /\ AnRequest(anQuery)
    /\ UNCHANGED <<anTab, anStored, anReports, anQuery, anRows, anSelected,
                   anDetail, anDetailFlight, anStuck>>

AnCollect ==
    /\ anTab = "stats"
    /\ AnRequest("collect")
    /\ UNCHANGED <<anTab, anStored, anReports, anQuery, anRows, anSelected,
                   anDetail, anDetailFlight, anStuck>>

\* A collection that answers reloads; nobody catches one that fails, and the
\* flag stays up until another query or collection brings rows.
AnAnswer == \E i \in 1..Len(anFlight), ok \in BOOLEAN :
    LET what == anFlight[i] IN
    /\ IF what = "collect"
         THEN /\ anFlight' = IF ok THEN Append(RemoveAt(anFlight, i), anQuery)
                             ELSE RemoveAt(anFlight, i)
              /\ anLoading' = (ok \/ anLoading)
              /\ anStuck' = ~ok
              /\ UNCHANGED anRows
         ELSE /\ anFlight' = RemoveAt(anFlight, i)
              /\ anLoading' = FALSE
              /\ anRows' = IF ok THEN what ELSE anRows
              /\ anStuck' = FALSE
    /\ UNCHANGED <<anTab, anStored, anReports, anQuery, anSelected, anDetail,
                   anDetailFlight>>

\* A row's chart, a report of the list.
AnSelect == \E item \in AnItem :
    /\ \/ anTab = "stats" /\ anRows # AnNone /\ item # anSelected
       \/ anTab = "reports" /\ anReports
    /\ AnAsk(item)
    /\ anLoading' = (anLoading \/ anTab = "reports")
    /\ UNCHANGED <<anTab, anStored, anReports, anQuery, anRows, anFlight,
                   anDetail, anStuck>>

AnDeselect ==
    /\ anTab = "stats" /\ anSelected # AnNone
    /\ anSelected' = AnNone /\ anDetail' = AnNone
    /\ UNCHANGED <<anTab, anStored, anReports, anQuery, anRows, anLoading,
                   anFlight, anDetailFlight, anStuck>>

\* Nothing says which selection an answer is to.
AnDetailComes == \E i \in 1..Len(anDetailFlight), ok \in BOOLEAN :
    /\ anDetailFlight' = RemoveAt(anDetailFlight, i)
    /\ anDetail' = IF ok THEN anDetailFlight[i] ELSE anDetail
    /\ anLoading' = (anLoading /\ anTab # "reports")
    /\ UNCHANGED <<anTab, anStored, anReports, anQuery, anRows, anFlight,
                   anSelected, anStuck>>

AnNext == \/ AnSwitch \/ AnReportsCome \/ AnRequery \/ AnRefresh \/ AnCollect
          \/ AnAnswer \/ AnSelect \/ AnDeselect \/ AnDetailComes
AnSpec == AnInit /\ [][AnNext]_anVars
------------------------------------------------------------------------------
\* The page says it loads with nothing out only if the last request to end was
\* a collection that failed: whatever overlaps, one that failed before a load
\* that ended leaves no spinner behind.
AnSpinner == anLoading /\ ~anStuck => \/ anFlight # <<>>
                                      \/ anTab = "reports" /\ anDetailFlight # <<>>
==============================================================================

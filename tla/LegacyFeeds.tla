----------------------------- MODULE LegacyFeeds -----------------------------
(***************************************************************************)
(* The data feeds of the legacy application shell: one component that      *)
(* loads some twenty documents of the server on mount, on intervals that   *)
(* pause while the page is hidden, on a click on a tab and with a page's   *)
(* Refresh button, with no request ever cancelled.  Feeds do not read one  *)
(* another, so a behaviour follows ONE feed, chosen at the start.          *)
(* A document is the version of it the server holds; an answer may come    *)
(* after the answer of a later request. The runner capacity has three      *)
(* writers: its own fetch, a save, and the fleet's fetch, which brings the *)
(* schedule along and leaves the loading flag alone.                       *)
(***************************************************************************)
EXTENDS Naturals, SequencesExt

CONSTANTS
    MaxVersion,    \* bound: how often the document changes on the server
    MaxFlight,     \* bound: requests in flight at a time
    MaxFaults,     \* bound: answers that are not the document
    Nothing,       \* the initial empty value of a feed's state
    Blank          \* an error body taken for the document

ASSUME FeedAssumption ==
    MaxVersion \in Nat /\ MaxFlight \in Nat \ {0} /\ MaxFaults \in Nat

VARIABLES
    feed,          \* the feed this behaviour follows
    served,        \* version of the document on the server
    feedFlight,    \* requests in flight: the version when they were sent, and
                   \* which function sent them
    feedShown,     \* what the component holds
    feedLoading,   \* its loading flag
    feedError,     \* its error message is set
    feedTab,       \* the page on show, if it is drawn from the feed
    feedVisible,   \* the browser shows the page
    feedFaults     \* answers that went wrong so far

feedVars == <<feed, feedTab, served, feedFlight, feedShown, feedLoading, feedError,
              feedVisible, feedFaults>>

\* Lists replaced only when the answer has the list.
ListFeeds == {"repos", "tests", "ciResults", "reports"}
\* Documents replaced by any JSON the server sends, an error body too.
FleetFiles == {"localApps", "enrichedRuns", "watchdog", "deployment",
               "deploymentState"}
PlanFeeds == {"scheduledJobs", "runnerCapacity"}
\* Loaded on demand, with an error message of their own.
DemandFeeds == {"orchestration", "credentials", "workflows", "maxwell"}

\* The intervals of the mounted component, each fetched on mount as well.
Polled == {"fleet", "machines", "queue", "runnerAudit"}
            \cup ListFeeds \cup FleetFiles \cup PlanFeeds

\* The strip of tabs: what a click on each one loads, and what its badge counts.
WorkTabs ==
    {[tab |-> "overview", loads |-> {}, counts |-> {}],
     [tab |-> "remediation", loads |-> {"remediation"}, counts |-> {"fleet"}],
     [tab |-> "agent-dispatch", loads |-> {}, counts |-> {"fleet"}],
     [tab |-> "queue", loads |-> {"queue"}, counts |-> {"queue"}],
     [tab |-> "conductor", loads |-> {}, counts |-> {}],
     [tab |-> "machines", loads |-> {"machines"}, counts |-> {"machines"}],
     [tab |-> "org", loads |-> {}, counts |-> {}]}
RunTabs ==
    {[tab |-> "tests", loads |-> {}, counts |-> {}],
     [tab |-> "analysis", loads |-> {"enrichedRuns", "reports"},
      counts |-> {"enrichedRuns"}],
     [tab |-> "scheduled-jobs", loads |-> {"scheduledJobs"},
      counts |-> {"scheduledJobs"}],
     [tab |-> "workflows", loads |-> {"workflows"}, counts |-> {"workflows"}],
     [tab |-> "runner-schedule", loads |-> {"runnerCapacity"},
      counts |-> {"runnerCapacity"}],
     [tab |-> "deployment", loads |-> {"deploymentState"},
      counts |-> {"deploymentState"}],
     [tab |-> "local-apps", loads |-> {"localApps"}, counts |-> {"localApps"}]}
AdminTabs ==
    {[tab |-> "credentials", loads |-> {"credentials"}, counts |-> {"credentials"}],
     [tab |-> "fleet-orchestration", loads |-> {"orchestration"}, counts |-> {}],
     [tab |-> "assessments", loads |-> {"assessments"}, counts |-> {}],
     [tab |-> "feature-requests", loads |-> {"featureRequests"},
      counts |-> {"featureRequests"}],
     [tab |-> "cline-launcher", loads |-> {}, counts |-> {}],
     [tab |-> "maxwell", loads |-> {"maxwell"}, counts |-> {"maxwell"}],
     [tab |-> "runner-audit", loads |-> {}, counts |-> {"runnerAudit"}]}
\* A page's button that opens another page loads for it as well.
PageLinks ==
    {[tab |-> "deployment", loads |-> {"deploymentState"}, counts |-> {}],
     [tab |-> "overview", loads |-> {"fleet"}, counts |-> {}]}
TabStrip == WorkTabs \cup RunTabs \cup AdminTabs

\* The pages that are drawn from feeds, and what each page's own button
\* reloads. The other pages load for themselves.
WorkPages ==
    {[tab |-> "overview", refresh |-> {},
      shows |-> {"fleet", "queue", "machines", "watchdog", "deployment",
                 "runnerAudit"}],
     [tab |-> "deployment", refresh |-> {"deploymentState"},
      shows |-> {"deploymentState"}],
     [tab |-> "remediation", refresh |-> {"remediation"},
      shows |-> {"remediation", "enrichedRuns", "fleet"}],
     [tab |-> "analysis", refresh |-> {},
      shows |-> {"enrichedRuns", "reports", "fleet"}],
     [tab |-> "queue", refresh |-> {"queue"}, shows |-> {"queue"}],
     [tab |-> "machines", refresh |-> {}, shows |-> {"machines", "fleet"}],
     [tab |-> "org", refresh |-> {}, shows |-> {"repos", "fleet"}],
     [tab |-> "tests", refresh |-> {}, shows |-> {"tests", "ciResults"}],
     [tab |-> "workflows", refresh |-> {"workflows"}, shows |-> {"workflows"}],
     [tab |-> "runner-schedule", refresh |-> {"runnerCapacity"},
      shows |-> {"runnerCapacity"}]}
AdminPages ==
    {[tab |-> "local-apps", refresh |-> {"localApps"}, shows |-> {"localApps"}],
     [tab |-> "credentials", refresh |-> {"credentials"},
      shows |-> {"credentials"}],
     [tab |-> "fleet-orchestration", refresh |-> {"orchestration"},
      shows |-> {"orchestration"}],
     [tab |-> "assessments", refresh |-> {"assessments"},
      shows |-> {"assessments", "repos"}],
     [tab |-> "feature-requests", refresh |-> {"featureRequests"},
      shows |-> {"featureRequests", "repos"}],
     [tab |-> "maxwell", refresh |-> {"maxwell"}, shows |-> {"maxwell"}],
     [tab |-> "runner-audit", refresh |-> {"runnerAudit"},
      shows |-> {"runnerAudit"}]}
Pages == WorkPages \cup AdminPages

\* Where an alert of the header and the numbers of the overview lead to.
AlertTabs == {"runner-audit", "machines", "events", "overview", "queue"}

\* The page a tab opens, as far as the feed is concerned.
Opened(tab) == IF \E page \in Pages : page.tab = tab /\ feed \in page.shows
                 THEN tab ELSE "elsewhere"
Refreshed == UNION {page.refresh : page \in {q \in Pages : q.tab = feedTab}}

\* The Refresh button of the header.
RefreshAll == {"fleet", "repos", "tests", "reports", "queue", "machines",
               "localApps", "enrichedRuns", "watchdog", "deployment",
               "deploymentState", "remediation", "scheduledJobs",
               "runnerCapacity"}

Feeds == Polled \cup DemandFeeds
           \cup {"remediation", "assessments", "featureRequests"}
HasLoading == Feeds \ {"fleet", "ciResults", "enrichedRuns", "watchdog",
                       "deployment", "runnerAudit"}

\* The tables name feeds of the shell only, badges included.
ASSUME FeedTables ==
    /\ \A row \in TabStrip \cup PageLinks : row.loads \cup row.counts \subseteq Feeds
    /\ \A page \in Pages : page.shows \cup page.refresh \subseteq Feeds

Senders == {"fetch", "save", "fleet"}
Request(by) == [version |-> served, by |-> by]
------------------------------------------------------------------------------
FeedTypeOK ==
    /\ feed \in Feeds
    /\ feedTab \in {page.tab : page \in Pages} \cup {"elsewhere"}
    /\ served \in 0..MaxVersion
    /\ Len(feedFlight) <= MaxFlight
    /\ feedFlight \in Seq([version : 0..MaxVersion, by : Senders])
    /\ feedShown \in 0..MaxVersion \cup {Nothing, Blank}
    /\ {feedLoading, feedError, feedVisible} \subseteq BOOLEAN
    /\ feedFaults \in 0..MaxFaults

FeedInit ==
    /\ feed \in Feeds
    /\ \E page \in Pages : feedTab = Opened(page.tab)
    /\ served = 0
    /\ feedShown = Nothing
    /\ feedError = FALSE
    /\ feedVisible = TRUE
    /\ feedFaults = 0
    /\ feedFlight = IF feed \in Polled THEN <<Request("fetch")>> ELSE <<>>
    /\ feedLoading = (feed \in Polled \cap HasLoading)

\* Every fetch function: raise the loading flag, send. The assessments'
\* fetch alone clears the error before the answer.
Send(by) ==
    /\ Len(feedFlight) < MaxFlight
    /\ feedFlight' = Append(feedFlight, Request(by))
    /\ feedLoading' = (feedLoading \/ feed \in HasLoading)
    /\ feedError' = (feedError /\ feed # "assessments")
    /\ UNCHANGED <<feed, served, feedShown, feedVisible, feedFaults>>

Fetch == Send("fetch") /\ UNCHANGED feedTab

\* Wrong: the poll stops once something is shown.
FeedTickOnce == feed \in Polled /\ feedVisible /\ feedShown = Nothing /\ Fetch

\* setInterval of createVisibleInterval: nothing while the page is hidden.
FeedTick == feed \in Polled /\ feedVisible /\ Fetch

\* The page is hidden, or shown again: shown again, every poll runs at once.
FeedHide == /\ feedVisible
            /\ feedVisible' = FALSE
            /\ UNCHANGED <<feed, feedTab, served, feedFlight, feedShown, feedLoading,
                           feedError, feedFaults>>

FeedShow ==
    /\ ~feedVisible
    /\ feedVisible' = TRUE
    /\ IF feed \in Polled /\ Len(feedFlight) < MaxFlight
         THEN /\ feedFlight' = Append(feedFlight, Request("fetch"))
              /\ feedLoading' = (feedLoading \/ feed \in HasLoading)
         ELSE UNCHANGED <<feedFlight, feedLoading>>
    /\ UNCHANGED <<feed, feedTab, served, feedShown, feedError, feedFaults>>

\* A tab of the strip or a link to another page is clicked.
FeedOpen ==
    /\ feedVisible
    /\ \E row \in TabStrip \cup PageLinks :
         /\ feedTab' = Opened(row.tab)
         /\ IF feed \in row.loads
              THEN Send("fetch")
              ELSE UNCHANGED <<feed, served, feedFlight, feedShown, feedLoading,
                               feedError, feedVisible, feedFaults>>

\* An alert or a number is clicked, which loads nothing.
GoTo(tabs) ==
    /\ feedVisible
    /\ \E tab \in tabs : feedTab' = Opened(tab)
    /\ UNCHANGED <<feed, served, feedFlight, feedShown, feedLoading, feedError,
                   feedVisible, feedFaults>>
FeedJump == GoTo(AlertTabs)
\* Nor does the URL, the back button or the phone's drawer, to any page.
FeedArrive == GoTo({page.tab : page \in Pages})

\* Refresh on the page, or in the header.
FeedRefresh == feedVisible /\ feed \in Refreshed \cup RefreshAll /\ Fetch

\* The capacity's page saves a schedule: the answer holds the new state.
FeedSave ==
    /\ feed = "runnerCapacity" /\ feedTab = "runner-schedule" /\ feedVisible
    /\ Send("save")
    /\ UNCHANGED feedTab

\* The fleet's fetch, on its interval, by a click or two seconds after a
\* control, also when the page is hidden by then.
FleetCarries ==
    /\ feed = "runnerCapacity"
    /\ Len(feedFlight) < MaxFlight
    /\ feedFlight' = Append(feedFlight, Request("fleet"))
    /\ UNCHANGED <<feed, feedTab, served, feedShown, feedLoading, feedError,
                   feedVisible, feedFaults>>

ServerChanges ==
    /\ served < MaxVersion
    /\ served' = served + 1
    /\ UNCHANGED <<feed, feedTab, feedFlight, feedShown, feedLoading, feedError,
                   feedVisible, feedFaults>>
------------------------------------------------------------------------------
\* An answer: request i gets the version of some moment since it was sent
\* ("document"), an error body in JSON ("detail"), or no JSON at all
\* ("failure"). Only the save of the capacity looks at the status.
Kinds == {"document", "detail", "failure"}

Arrives(i, kind, version) ==
    /\ feedFlight' = RemoveAt(feedFlight, i)
    /\ version \in feedFlight[i].version..served
    /\ IF kind = "document"
         THEN UNCHANGED feedFaults
         ELSE feedFaults < MaxFaults /\ feedFaults' = feedFaults + 1
    /\ UNCHANGED <<feed, feedTab, served, feedVisible>>

Shown(kind, version, onDetail) ==
    CASE kind = "document" -> version
      [] kind = "detail" -> onDetail
      [] OTHER -> feedShown

\* The four answers of fetchFleet come back together, each replaced by null
\* when it fails; without runners the last ones are retained.
FleetAnswer(i, kind, version) ==
    /\ feed = "fleet"
    /\ Arrives(i, kind, version)
    /\ feedShown' = Shown(kind, version, feedShown)
    /\ feedError' = (kind # "document")
    /\ UNCHANGED feedLoading

ListAnswer(i, kind, version) ==
    /\ feed \in ListFeeds
    /\ Arrives(i, kind, version)
    /\ feedShown' = Shown(kind, version, feedShown)
    /\ feedLoading' = FALSE
    /\ UNCHANGED feedError

QueueAnswer(i, kind, version) ==
    /\ feed = "queue"
    /\ Arrives(i, kind, version)
    /\ feedShown' = Shown(kind, version, Blank)
    /\ feedLoading' = FALSE
    /\ UNCHANGED feedError

MachinesAnswer(i, kind, version) ==
    /\ feed = "machines"
    /\ Arrives(i, kind, version)
    /\ feedShown' = Shown(kind, version, Blank)
    /\ feedError' = (kind = "failure")
    /\ feedLoading' = FALSE

\* Wrong: a failure leaves the spinner up.
FileAnswerRead(i, kind, version) ==
    /\ feed \in FleetFiles
    /\ Arrives(i, kind, version)
    /\ feedShown' = Shown(kind, version,
                          IF feed = "enrichedRuns" THEN feedShown ELSE Blank)
    /\ feedLoading' = (feedLoading /\ kind = "failure")
    /\ UNCHANGED feedError

FileAnswer(i, kind, version) ==
    /\ feed \in FleetFiles
    /\ Arrives(i, kind, version)
    /\ feedShown' = Shown(kind, version,
                          IF feed = "enrichedRuns" THEN feedShown ELSE Blank)
    /\ feedLoading' = FALSE
    /\ UNCHANGED feedError

\* What the fleet's fetch carried is taken, its loading flag is not its own.
PlanAnswer(i, kind, version) ==
    /\ feed \in PlanFeeds
    /\ Arrives(i, kind, version)
    /\ feedShown' = Shown(kind, version,
                          IF feedFlight[i].by = "save" THEN feedShown ELSE Blank)
    /\ feedLoading' = (feedLoading /\ feedFlight[i].by = "fleet")
    /\ UNCHANGED feedError

AuditAnswer(i, kind, version) ==
    /\ feed = "runnerAudit"
    /\ Arrives(i, kind, version)
    /\ feedShown' = Shown(kind, version, Blank)
    /\ UNCHANGED <<feedLoading, feedError>>

DemandAnswer(i, kind, version) ==
    /\ feed \in DemandFeeds
    /\ Arrives(i, kind, version)
    /\ feedShown' = Shown(kind, version, Blank)
    /\ feedError' = (kind = "failure")
    /\ feedLoading' = FALSE

RemediationAnswer(i, kind, version) ==
    /\ feed = "remediation"
    /\ Arrives(i, kind, version)
    /\ feedShown' = Shown(kind, version, Blank)
    /\ feedError' = (kind = "failure")
    /\ feedLoading' = FALSE

AssessmentsAnswer(i, kind, version) ==
    /\ feed = "assessments"
    /\ Arrives(i, kind, version)
    /\ feedShown' = Shown(kind, version, Blank)
    /\ feedError' = (feedError \/ kind = "failure")
    /\ feedLoading' = FALSE

\* A failed half is replaced by an empty list, so the list is emptied.
FeaturesAnswer(i, kind, version) ==
    /\ feed = "featureRequests"
    /\ Arrives(i, kind, version)
    /\ feedShown' = IF kind = "document" THEN version ELSE Blank
    /\ feedLoading' = FALSE
    /\ UNCHANGED feedError

AnswerOf(i) ==
    \E kind \in Kinds, version \in 0..MaxVersion :
        \/ FleetAnswer(i, kind, version)
        \/ ListAnswer(i, kind, version)
        \/ QueueAnswer(i, kind, version)
        \/ MachinesAnswer(i, kind, version)
        \/ FileAnswer(i, kind, version)
        \/ PlanAnswer(i, kind, version)
        \/ AuditAnswer(i, kind, version)
        \/ DemandAnswer(i, kind, version)
        \/ RemediationAnswer(i, kind, version)
        \/ AssessmentsAnswer(i, kind, version)
        \/ FeaturesAnswer(i, kind, version)

FeedAnswer == \E i \in 1..Len(feedFlight) : AnswerOf(i)

FeedOldest == Len(feedFlight) > 0 /\ AnswerOf(1)

FeedNext == \/ FeedTick \/ FeedHide \/ FeedShow \/ FeedOpen \/ FeedJump
            \/ FeedArrive \/ FeedRefresh \/ FeedSave
            \/ FleetCarries \/ ServerChanges \/ FeedAnswer
------------------------------------------------------------------------------
\* The browser runs a due interval of a page it shows and settles every
\* request; nobody need click and no document need change.
FeedFairness ==
    /\ WF_feedVars(FeedTick)
    /\ WF_feedVars(FeedShow)
    /\ WF_feedVars(FeedOldest)

FeedSpec == FeedInit /\ [][FeedNext]_feedVars /\ FeedFairness
------------------------------------------------------------------------------
\* A spinner is up only while a request that will take it down is still out,
\* whichever answers came back first and however they failed.
FeedSpinnerHasRequest ==
    feedLoading => \E i \in 1..Len(feedFlight) : feedFlight[i].by # "fleet"

\* Requests are not numbered, so an old answer can overwrite a newer one; a
\* polled feed still ends up with what the server holds, once that settles.
FeedCatchesUp == feed \in Polled => <>[](feedShown = served)

\* Whoever comes to a page by its tab, by an alert or by a number of the
\* overview finds what it shows polled, or just asked for. The URL and the
\* phone's drawer open a page that nobody loads until its Refresh is pressed.
OpensAsked ==
    [][FeedOpen \/ FeedJump =>
         \/ feedTab' = "elsewhere"
         \/ feed \in Polled
         \/ Len(feedFlight') > Len(feedFlight)]_feedVars
==============================================================================

----------------------------- MODULE FleetWatch ------------------------------
(*****************************************************************************)
(* What the browser makes of the fleet's documents: the log of events, the   *)
(* alerts that may be hidden, and one card per machine. They share no state. *)
(*****************************************************************************)
EXTENDS Integers, SequencesExt, FiniteSets

(***************************************************************************)
(* The fleet event feed of the browser: every page that shows it polls the *)
(* server's ring of recent events, merges what comes back into the events  *)
(* it holds, newest first and bounded, and saves the result under one key  *)
(* of localStorage that all tabs of the browser share.  Alarms are derived *)
(* from the events held.                                                   *)
(* An event is its position in the server's log, which is its timestamp.   *)
(***************************************************************************)

CONSTANTS
    EvPage,        \* the mounted users of the feed, in one tab or in several
    EvNode,        \* runners
    EvMax,         \* MAX_RETAINED_EVENTS
    EvLimit,       \* the limit sent with each request
    EvTotal,       \* bound: events the server ever records
    EvFlights      \* bound: requests of one page in flight

ASSUME EvAssumption ==
    /\ EvMax \in Nat \ {0} /\ EvLimit \in Nat \ {0}
    /\ EvTotal \in Nat /\ EvFlights \in Nat

VARIABLES
    evLog,         \* what the server ever recorded, oldest first
    evHeld,        \* per page, the events in its state
    evSeen,        \* per page, every event it received or loaded (history)
    evStore,       \* localStorage
    evFlight,      \* per page, answers in flight, as sets of events
    evHidden       \* the browser hides the page: its timer is stopped

evVars == <<evLog, evHeld, evSeen, evStore, evFlight, evHidden>>

EvKind == {"offline", "offline_disk", "online", "low_disk"}
Event == [kind : EvKind, node : EvNode]
------------------------------------------------------------------------------
\* mergeEvents: one event per key, newest first, the newest EvMax kept.
Newest(events, max) ==
    {e \in events : Cardinality({f \in events : f > e}) < max}

Merge(held, incoming) == Newest(held \cup incoming, EvMax)

EvTypeOK ==
    /\ evLog \in Seq(Event) /\ Len(evLog) <= EvTotal
    /\ evHeld \in [EvPage -> SUBSET (1..EvTotal)]
    /\ evSeen \in [EvPage -> SUBSET (1..EvTotal)]
    /\ evStore \subseteq 1..EvTotal
    /\ \A p \in EvPage : evFlight[p] \in Seq(SUBSET (1..EvTotal))
    /\ evHidden \in [EvPage -> BOOLEAN]

EvInit ==
    /\ evLog = <<>>
    /\ evHeld = [p \in EvPage |-> {}]
    /\ evSeen = [p \in EvPage |-> {}]
    /\ evStore = {}
    /\ evFlight = [p \in EvPage |-> <<{}>>]
    /\ evHidden = [p \in EvPage |-> FALSE]

EvRecord == \E e \in Event :
    /\ Len(evLog) < EvTotal
    /\ evLog' = Append(evLog, e)
    /\ UNCHANGED <<evHeld, evSeen, evStore, evFlight, evHidden>>

\* fetchOnce: the answer is fixed when the server reads its ring.
EvSend(p) == evFlight' = [evFlight EXCEPT ![p] =
                 Append(@, Newest(1..Len(evLog), EvLimit))]

EvPoll(p) ==
    /\ ~evHidden[p]
    /\ Len(evFlight[p]) < EvFlights
    /\ EvSend(p)
    /\ UNCHANGED <<evLog, evHeld, evSeen, evStore, evHidden>>

EvHide(p) ==
    /\ ~evHidden[p]
    /\ evHidden' = [evHidden EXCEPT ![p] = TRUE]
    /\ UNCHANGED <<evLog, evHeld, evSeen, evStore, evFlight>>

EvShow(p) ==
    /\ evHidden[p]
    /\ evHidden' = [evHidden EXCEPT ![p] = FALSE]
    /\ IF Len(evFlight[p]) < EvFlights THEN EvSend(p) ELSE UNCHANGED evFlight
    /\ UNCHANGED <<evLog, evHeld, evSeen, evStore>>

\* An answer, of any request: merged into the state the page has now, saved.
EvAnswer(p) == \E i \in 1..Len(evFlight[p]) :
    LET merged == Merge(evHeld[p], evFlight[p][i]) IN
    /\ evHeld' = [evHeld EXCEPT ![p] = merged]
    /\ evStore' = merged
    /\ evSeen' = [evSeen EXCEPT ![p] = @ \cup evFlight[p][i]]
    /\ evFlight' = [evFlight EXCEPT ![p] = RemoveAt(@, i)]
    /\ UNCHANGED <<evLog, evHidden>>

EvFail(p) == \E i \in 1..Len(evFlight[p]) :
    /\ evFlight' = [evFlight EXCEPT ![p] = RemoveAt(@, i)]
    /\ UNCHANGED <<evLog, evHeld, evSeen, evStore, evHidden>>

\* The page is left or reloaded and comes back: answers that arrive in
\* between are dropped, the events are those saved.
EvReload(p) ==
    /\ evHeld' = [evHeld EXCEPT ![p] = evStore]
    /\ evSeen' = [evSeen EXCEPT ![p] = evStore]
    /\ evFlight' = [evFlight EXCEPT ![p] = <<Newest(1..Len(evLog), EvLimit)>>]
    /\ evHidden' = [evHidden EXCEPT ![p] = FALSE]
    /\ UNCHANGED <<evLog, evStore>>

EvNext == \/ EvRecord
          \/ \E p \in EvPage : \/ EvPoll(p) \/ EvHide(p) \/ EvShow(p)
                               \/ EvAnswer(p) \/ EvFail(p) \/ EvReload(p)
------------------------------------------------------------------------------
\* The events about the state of a runner, as opposed to its disk.
Tells(e) == evLog[e].kind \in {"offline", "offline_disk", "online"}

\* activeConditions: one turn of its walk from the newest event to the oldest.
Walk(e, acc) ==
    LET n == evLog[e].node
        k == evLog[e].kind
    IN CASE Tells(e) /\ n \notin acc.seen ->
              [acc EXCEPT !.seen = @ \cup {n},
                 !.offline = IF k = "online" THEN @ ELSE @ \cup {n},
                 !.disk = IF k = "offline_disk" THEN @ \cup {n} ELSE @]
         [] k = "low_disk" /\ n \notin acc.seenLow ->
              [acc EXCEPT !.seenLow = @ \cup {n},
                 !.low = IF n \in acc.seen THEN @ ELSE @ \cup {n}]
         [] OTHER -> acc

NoConditions == [seen |-> {}, seenLow |-> {}, offline |-> {}, disk |-> {},
                 low |-> {}]

\* The oldest event has the last turn.
ActiveConditions(events) ==
    MapThenFoldSet(Walk, NoConditions, LAMBDA e : e, Min, events)

\* eventsToAlerts: at most the two alarms, each with its nodes.
EventAlarms(events) ==
    LET c == ActiveConditions(events) IN
      [diskPressure |-> c.disk \cup c.low, critical |-> c.disk # {},
       runnersOffline |-> c.offline \ c.disk]

EvSpec == EvInit /\ [][EvNext]_evVars
------------------------------------------------------------------------------
\* However answers are delayed, reordered or repeated, an event a page
\* received and no longer holds is older than all it holds, and it holds as
\* many as it may.
EventLogKeepsNewest == \A p \in EvPage :
    /\ evHeld[p] \subseteq evSeen[p]
    /\ \A e \in evSeen[p] \ evHeld[p] :
          /\ Cardinality(evHeld[p]) = EvMax
          /\ \A f \in evHeld[p] : f > e

\* A runner has an offline alarm exactly when the newest event about its
\* state that the page holds says offline: a recovery always ends the alarm,
\* and no late answer brings it back.
AlarmsFollowNewestState == \A p \in EvPage, n \in EvNode :
    LET states == {e \in evHeld[p] : evLog[e].node = n
                                     /\ evLog[e].kind # "low_disk"}
        alarms == EventAlarms(evHeld[p])
        down == \E e \in states : /\ \A f \in states : f <= e
                                  /\ evLog[e].kind # "online"
    IN down <=> n \in alarms.runnersOffline \cup
                      (alarms.diskPressure \cap ActiveConditions(evHeld[p]).offline)

------------------------------------------------------------------------------
(***************************************************************************)
(* The rollup of fleet signals into alerts, and the alerts centre that     *)
(* lets the operator acknowledge or snooze them durably.  The rollup runs  *)
(* on whatever each feed brought last, once for the pill in the header and *)
(* once for the hero of the fleet tab.                                     *)
(***************************************************************************)

CONSTANTS
    Machine,       \* physical machines
    Aliased,       \* machines whose node reports a name that is an alias
    AlMaxClock,    \* bound: ticks of the browser's clock
    SnoozeFor,     \* ticks a snooze lasts
    NoAck

ASSUME AlAssumption ==
    Aliased \subseteq Machine /\ SnoozeFor \in Nat \ {0} /\ AlMaxClock \in Nat

VARIABLES
    alLive,        \* bound: the slot whose documents change in a behaviour
    alNodes,       \* /api/fleet/nodes as held: machine -> state
    alRunners,     \* /api/runners as held: machine -> state of its runners
    alWatchdog, alRate, alViolations,    \* the other held documents
    alClock,
    alAcks,        \* localStorage: slot -> acknowledgement
    alMemory,      \* memoryMap, read once storage broke
    alBroken,      \* storageBroken
    alVisible,     \* the alerts listed at the last render
    alHidden,      \* and those it counted as acknowledged
    alRendered,    \* the clock of that render
    alPressed      \* history: the acknowledgements that may still be stored

alDocs == <<alLive, alNodes, alRunners, alWatchdog, alRate, alViolations>>
alStore == <<alAcks, alMemory, alBroken>>
alRender == <<alVisible, alHidden, alRendered>>
alVars == <<alDocs, alClock, alStore, alRender, alPressed>>

Slot == {"machines-offline", "wsl-keepalive", "success-rate",
         "hosted-runners"}
------------------------------------------------------------------------------
\* An entry of a machine list: whose it is, under which name, and whether up.
Entry(m, name, up) == [machine |-> m, name |-> name, online |-> up]

\* The header works on the nodes as they came.
PillNodes ==
    {Entry(m, IF m \in Aliased THEN "alias" ELSE "canonical",
           alNodes[m] = "online") : m \in {x \in Machine : alNodes[x] # "absent"}}

\* The fleet tab starts from the machines its runners belong to, found under
\* the canonical name, then adds the nodes whose reported name is not there.
MachineNodes ==
    LET named == {m \in Machine : alRunners[m] # "none"}
        joined == {Entry(m, "canonical",
                         IF alNodes[m] # "absent" THEN alNodes[m] = "online"
                         ELSE alRunners[m] = "online") : m \in named}
    IN joined \cup {e \in PillNodes : ~\E j \in joined :
                        j.machine = e.machine /\ j.name = e.name}

\* computeFleetAlerts; the content is what the title and detail tell apart.
Alert(id, level, content) == [id |-> id, level |-> level, content |-> content]

Rollup(entries) ==
    LET down == {e \in entries : ~e.online} IN
       {Alert("machines-offline", "critical", d) : d \in {down} \ {{}}}
    \cup {Alert("wsl-keepalive",
                IF w = "legacy" THEN "critical" ELSE "warning", w) :
            w \in {alWatchdog} \ {"missing", "healthy"}}
    \cup {Alert("success-rate",
                IF r = "below40" THEN "critical" ELSE "warning", r) :
            r \in {alRate} \cap {"below40", "below70"}}
    \cup {Alert("hosted-runners", "warning", v) : v \in {alViolations} \ {0}}

Level(alerts) == IF \E a \in alerts : a.level = "critical" THEN "critical"
                 ELSE IF alerts # {} THEN "warning" ELSE "ok"
------------------------------------------------------------------------------
\* readMap: memory once a read or a write was refused, this read included.
Reads(refused) == /\ alBroken' = (alBroken \/ refused)
                  /\ alAcks' = alAcks /\ alMemory' = alMemory
Stored(broken) == IF broken THEN alMemory ELSE alAcks

\* Wrong: a snooze that ran out still hides.
IsAckedForever(map, a, now) ==
    /\ map[a.id] # NoAck
    /\ map[a.id].content = a.content

IsAcked(map, a, now) ==
    /\ map[a.id] # NoAck
    /\ map[a.id].content = a.content
    /\ map[a.id].until > now

AlTypeOK ==
    /\ alLive \in Slot
    /\ alNodes \in [Machine -> {"absent", "online", "offline"}]
    /\ alRunners \in [Machine -> {"none", "online", "offline"}]
    /\ alWatchdog \in {"missing", "healthy", "degraded", "legacy"}
    /\ alRate \in {"unknown", "good", "below70", "below40"}
    /\ alViolations \in 0..2
    /\ alClock \in 0..AlMaxClock
    /\ DOMAIN alAcks = Slot /\ DOMAIN alMemory = Slot
    /\ alBroken \in BOOLEAN /\ alRendered \in 0..alClock
    /\ \A a \in alVisible \cup alHidden : a.id \in Slot

NoAcks == [s \in Slot |-> NoAck]
Forever == AlMaxClock + SnoozeFor + 1

AlInit ==
    /\ alLive \in Slot
    /\ alNodes = [m \in Machine |-> "absent"]
    /\ alRunners = [m \in Machine |-> "none"]
    /\ alWatchdog = "missing" /\ alRate = "unknown" /\ alViolations = 0
    /\ alClock = 0
    /\ alAcks = NoAcks /\ alMemory = NoAcks /\ alBroken = FALSE
    /\ alVisible = {} /\ alHidden = {} /\ alRendered = 0
    /\ alPressed = {}

\* The centre partitions the live alerts when the shell renders with a new
\* list or its own revision changes, with the records and the time of then.
RenderWith(map) ==
    /\ alVisible' = {a \in Rollup(PillNodes)' : ~IsAcked(map, a, alClock)}
    /\ alHidden' = {a \in Rollup(PillNodes)' : IsAcked(map, a, alClock)}
    /\ alRendered' = alClock

\* A poll of one feed brings another document; each feed on its own.
AlPoll ==
    /\ \/ /\ "machines-offline" = alLive
          /\ \E m \in Machine, s \in {"absent", "online", "offline"} :
                 alNodes' = [alNodes EXCEPT ![m] = s]
          /\ UNCHANGED <<alRunners, alWatchdog, alRate, alViolations>>
       \/ /\ "machines-offline" = alLive
          /\ \E m \in Machine, s \in {"none", "online", "offline"} :
                 alRunners' = [alRunners EXCEPT ![m] = s]
          /\ UNCHANGED <<alNodes, alWatchdog, alRate, alViolations>>
       \/ /\ "wsl-keepalive" = alLive
          /\ alWatchdog' \in {"healthy", "degraded", "legacy"}
          /\ UNCHANGED <<alNodes, alRunners, alRate, alViolations>>
       \/ /\ "success-rate" = alLive
          /\ alRate' \in {"good", "below70", "below40"}
          /\ UNCHANGED <<alNodes, alRunners, alWatchdog, alViolations>>
       \/ /\ "hosted-runners" = alLive
          /\ alViolations' \in 0..2
          /\ UNCHANGED <<alNodes, alRunners, alWatchdog, alRate>>
    /\ \E refused \in BOOLEAN :
           /\ refused => Rollup(PillNodes)' # {}
           /\ Reads(refused)
           /\ RenderWith(Stored(alBroken \/ refused))
    /\ UNCHANGED <<alLive, alClock, alPressed>>

AlTick ==
    /\ alClock < AlMaxClock
    /\ alClock' = alClock + 1
    /\ UNCHANGED <<alDocs, alStore, alRender, alPressed>>

\* writeMap: memory always; localStorage is tried even when it was refused
\* before, and what it refuses stays as it was.
Writes(map, read, write) ==
    /\ alMemory' = map
    /\ alAcks' = IF write THEN alAcks ELSE map
    /\ alBroken' = (alBroken \/ read \/ write)

\* The slot's presses: those before are gone with the record they wrote,
\* unless localStorage refused to replace it.
Pressed(id, write, presses) ==
    alPressed' = presses \cup {x \in alPressed : x.id # id \/ write}

\* Acknowledge and Snooze are offered on a visible alert: the record takes
\* the content that is listed, and replaces the slot's last record.
Ack(a, until) == \E read, write \in BOOLEAN :
    LET map == [Stored(alBroken \/ read) EXCEPT
                   ![a.id] = [content |-> a.content, until |-> until]]
    IN /\ a \in alVisible
       /\ UNCHANGED <<alDocs, alClock>>
       /\ Writes(map, read, write)
       /\ RenderWith(map)
       /\ Pressed(a.id, write, {[id |-> a.id, content |-> a.content,
                                 until |-> until]})

AlAcknowledge == \E a \in alVisible : Ack(a, Forever)
AlSnooze == \E a \in alVisible : Ack(a, alClock + SnoozeFor)

\* clear: Un-acknowledge is offered on a hidden alert, and writes when the
\* map read holds its record.  What storage refuses comes back with a reload.
AlUnack == \E a \in alHidden, read, write \in BOOLEAN :
    LET held == Stored(alBroken \/ read)
        map == [held EXCEPT ![a.id] = NoAck]
    IN /\ UNCHANGED <<alDocs, alClock>>
       /\ IF held[a.id] = NoAck
            THEN Reads(read) /\ UNCHANGED alPressed
            ELSE Writes(map, read, write) /\ Pressed(a.id, write, {})
       /\ RenderWith(map)

\* A reload: the module's memory goes, what was stored stays.
AlReload ==
    /\ alMemory' = NoAcks
    /\ alBroken' = FALSE
    /\ alVisible' = {} /\ alHidden' = {} /\ alRendered' = alClock
    /\ alNodes' = [m \in Machine |-> "absent"]
    /\ alRunners' = [m \in Machine |-> "none"]
    /\ alWatchdog' = "missing" /\ alRate' = "unknown" /\ alViolations' = 0
    /\ UNCHANGED <<alLive, alClock, alAcks, alPressed>>

AlNext == \/ AlPoll \/ AlTick \/ AlAcknowledge \/ AlSnooze \/ AlUnack
          \/ AlReload

AlSpec == AlInit /\ [][AlNext]_alVars
------------------------------------------------------------------------------
\* The alerts of the hero and the pill come from the same rollup, which is to
\* keep them in sync. It does not: they are given different lists of machines,
\* see the README. No run checks it.
HeroAgreesWithPill == Level(Rollup(MachineNodes)) = Level(Rollup(PillNodes))

\* Whatever polls, reloads and refusals of storage came in between, an alert
\* is out of the list only if the operator acknowledged that very content, by
\* a press that had not run out when the list was rendered and that no later
\* press or withdrawal on the slot has replaced in storage.
HiddenOnlyByOperator == \A a \in alHidden : \E x \in alPressed :
    x.id = a.id /\ x.content = a.content /\ x.until > alRendered

------------------------------------------------------------------------------
(***************************************************************************)
(* The machines page: the fleet's nodes and the registered runners, loaded *)
(* together, folded into one card per physical machine.                    *)
(***************************************************************************)

CONSTANTS
    McNodeDoc,     \* the node documents that occur, see McAssumption
    McRunnerDoc,   \* the runners that occur: [machine, online]
    McAlias,       \* aliased spellings -> display name
    McLower,       \* display name -> lower-case key
    McLoads        \* bound: loads in flight

\* A node names the machine it belongs to; "system" says what its document
\* says of the system: "none" at all, "bare" (no figure, but its uptime),
\* "zero" (figures that all read 0) or "some".
ASSUME McAssumption ==
    /\ McLoads \in Nat \ {0}
    /\ \A d \in McNodeDoc :
         /\ {d.local, d.reachable, d.online} \subseteq BOOLEAN
         /\ d.system \in {"none", "bare", "zero", "some"}
         /\ d.role \in {"hub", "node", "runner_pool"}
         /\ d.reason \in {"none", "resource_monitoring"}
         /\ d.state \in {"none", "offline", "dashboard_only", "full_telemetry"}

VARIABLES
    mcNodes, mcRunners,     \* the documents held
    mcLoading, mcError,
    mcFlight

mcVars == <<mcNodes, mcRunners, mcLoading, mcError, mcFlight>>

CanonicalMachineName(n) == IF n \in DOMAIN McAlias THEN McAlias[n] ELSE n

McTypeOK ==
    /\ mcNodes \subseteq McNodeDoc /\ mcRunners \subseteq McRunnerDoc
    /\ {mcLoading, mcError} \subseteq BOOLEAN
    /\ mcFlight \in 0..McLoads

McInit == /\ mcNodes = {} /\ mcRunners = {} /\ mcLoading = TRUE
          /\ mcError = FALSE /\ mcFlight = 1
------------------------------------------------------------------------------
\* Both documents are loaded together and replaced together.  Retry is
\* offered with an error, while another load may be out already.
McAsk == /\ mcLoading' = TRUE /\ mcError' = FALSE
         /\ mcFlight < McLoads /\ mcFlight' = mcFlight + 1
         /\ UNCHANGED <<mcNodes, mcRunners>>
McRetry == mcError /\ McAsk

McLoaded == \E nodes \in SUBSET McNodeDoc, runners \in SUBSET McRunnerDoc :
    /\ Cardinality(nodes) <= 2      \* bound: nodes of one document
    /\ mcFlight > 0 /\ mcFlight' = mcFlight - 1
    /\ mcLoading' = FALSE
    /\ mcNodes' = nodes /\ mcRunners' = runners
    /\ UNCHANGED mcError
McFailed == /\ mcFlight > 0 /\ mcFlight' = mcFlight - 1
            /\ mcLoading' = FALSE /\ mcError' = TRUE
            /\ UNCHANGED <<mcNodes, mcRunners>>

\* Leaving the page aborts its loads; coming back mounts it anew.
McRemount == /\ ~mcLoading
             /\ mcNodes' = {} /\ mcRunners' = {} /\ mcLoading' = TRUE
             /\ mcError' = FALSE /\ mcFlight' = 1

McNext == McRetry \/ McLoaded \/ McFailed \/ McRemount
McSpec == McInit /\ [][McNext]_mcVars
------------------------------------------------------------------------------
Points(condition, n) == IF condition THEN n ELSE 0

NodeHasSystemMetrics(d) == d.system \in {"zero", "some"}
\* The label of a card asks for any entry at all, the score for a figure.
SystemHasKeys(d) == d.system # "none"

NodeQualityScore(d) ==
    Points(d.local, 100) + Points(d.reachable, 40) + Points(d.online, 20)
    + Points(NodeHasSystemMetrics(d), 60) + Points(d.role = "hub", 5)
    - Points(d.role = "runner_pool", 10)

\* Runners are grouped by the machine in their name, nodes by the lower-case
\* name of their physical machine; a name of either group makes a card.
RunnersOf(name) == {r \in mcRunners : CanonicalMachineName(r.machine) = name}
NodesOf(name) == {d \in mcNodes :
                    McLower[CanonicalMachineName(d.machine)] = McLower[name]}
MachineNames ==
    {CanonicalMachineName(r.machine) : r \in mcRunners}
        \cup {CanonicalMachineName(d.machine) : d \in mcNodes}

\* A machine nobody reports on gets a stub made of its runners.
Stub(name) ==
    [machine |-> name, local |-> FALSE, reachable |-> FALSE,
     online |-> \E r \in RunnersOf(name) : r.online, system |-> "none",
     role |-> "node", reason |-> "none", state |-> "none"]

\* The nodes a card may be made of: the best score comes first.
BestNodes(name) ==
    IF NodesOf(name) = {} THEN {Stub(name)}
    ELSE {d \in NodesOf(name) : \A e \in NodesOf(name) :
            NodeQualityScore(d) >= NodeQualityScore(e)}

VisibilitySnapshot(d, live) ==
    IF d.reason = "resource_monitoring" THEN "degraded"
    ELSE IF (d.online \/ live) /\ d.reachable /\ SystemHasKeys(d)
      THEN "full_telemetry"
    ELSE IF d.online \/ live THEN "runners_only"
    ELSE IF d.reachable THEN "dashboard_only" ELSE "offline"

\* The backend's word, unless it contradicts runners that are online.
ResolveVisibility(d, live) ==
    IF d.state = "none" \/ (live /\ d.state \in {"dashboard_only", "offline"})
    THEN VisibilitySnapshot(d, live) ELSE d.state

IsLive(d, live) == d.online \/ live

\* The dot of a card: a document without an uptime, which comes with any word
\* of the system, counts as a dashboard that cannot be reached.
Dot(d, live) == IF ~IsLive(d, live) THEN "red"
                ELSE IF d.reachable /\ d.system # "none" THEN "green"
                ELSE "yellow"

\* The resources of a card are drawn when a CPU or memory figure is not 0.
PanelDrawn(d) == d.system = "some"

HasOnline(name) == \E r \in RunnersOf(name) : r.online
------------------------------------------------------------------------------
\* Whatever the nodes of a machine, the registry and the backend's own word
\* say, in whichever order they rank: a machine with an online runner has a
\* card that is neither red nor labelled offline.
LiveNeverOffline == \A name \in MachineNames : HasOnline(name) =>
    \A d \in BestNodes(name) :
        /\ ResolveVisibility(d, TRUE) \notin {"offline", "dashboard_only"}
        /\ Dot(d, TRUE) # "red"

\* "the best live telemetry node wins": a node of the machine that is online,
\* reachable and has metrics is passed over only for one with metrics, or for
\* the node the dashboard itself runs on.
BestTelemetryWins == \A name \in MachineNames :
    (\E d \in NodesOf(name) : d.online /\ d.reachable /\ NodeHasSystemMetrics(d))
    => \A d \in BestNodes(name) : NodeHasSystemMetrics(d) \/ d.local
==============================================================================

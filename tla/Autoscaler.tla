----------------------------- MODULE Autoscaler -----------------------------
(***************************************************************************)
(* The poll loop of the runner autoscaler for one pool of units: it        *)
(* samples the host's load, reads the leases, which units are active and   *)
(* which of them are busy, and then stops idle units or starts inactive    *)
(* ones.  Between these looks and its systemctl calls jobs, leases, units  *)
(* and operators go on.  Time passes while it sleeps: one poll is a tick.  *)
(***************************************************************************)
EXTENDS Integers, FiniteSets

CONSTANTS
  AsUnits,     \* how many units the pool has; they are read in the order of their names
  AsLeasable,  \* units that somebody leases
  AsSafe,      \* units with the drain contract (KillMode=mixed, a long TimeoutStopSec)
  AsBroken,    \* units that systemd cannot start
  AsMin,       \* min_online
  AsMax,       \* max_online
  AsSchedule,  \* what the schedule may ask for
  AsStep,      \* AUTOSCALER_MAX_SCALE_STEP
  AsSpacing,   \* AUTOSCALER_ACTION_COOLDOWN_SECONDS, in polls
  AsCooldown,  \* AUTOSCALER_COOLDOWN_SECS, in polls
  AsHistory    \* samples before the first decision

AsUnit == 1 .. AsUnits

ASSUME AutoscalerAssumption ==
  /\ {AsUnits, AsMin, AsMax, AsStep, AsSpacing, AsCooldown} \subseteq Nat
  /\ AsHistory \in Nat \ {0} /\ AsSchedule \subseteq Nat
  /\ AsLeasable \cup AsSafe \cup AsBroken \subseteq AsUnit

VARIABLES
  asState,    \* each unit: up, draining (told to stop, its job goes on), cycling (told
              \* to start while draining), or down
  asJobs,     \* units with a job
  asLeases,   \* leased units
  asLoad,     \* the average of the samples: high (overloaded), low (recovered), or between
  asWanted,   \* what the schedule asks for
  asPc,       \* where the loop is
  asHeld,     \* the leased units as this poll read them
  asSeen,     \* the active units as this poll read them, without those it stopped; kept
              \* as long as it may stop some, like asHeld as long as it decides
  asTodo,     \* units it is about to stop or to start
  asSamples,  \* how many samples it has
  asOverAge,  \* polls since the last overload, up to 2 * AsCooldown
  asStopAge,  \* polls since the last stop, up to AsSpacing
  asUnseen    \* history: units it may stop whose job or lease this poll could not have seen

asWorld == <<asState, asJobs, asLeases, asLoad, asWanted>>
asClocks == <<asSamples, asOverAge, asStopAge>>
asMind == <<asPc, asHeld, asSeen, asTodo, asClocks>>
asVars == <<asWorld, asMind, asUnseen>>

AsInit ==
  /\ asState \in [AsUnit -> {"up", "down"}] /\ \A u \in AsBroken : asState[u] = "down"
  /\ asJobs = {} /\ asLeases = {} /\ asLoad = "low" /\ asWanted \in AsSchedule
  /\ asPc = "sleep" /\ asHeld = {} /\ asSeen = {} /\ asTodo = {}
  /\ asSamples = 0 /\ asOverAge = 2 * AsCooldown /\ asStopAge = AsSpacing
  /\ asUnseen = {}

Up == {u \in AsUnit : asState[u] = "up"}

AsLower(m, n) == IF m < n THEN m ELSE n

\* The first n units of S, in the order of their names.
First(n, S) == {u \in S : Cardinality({v \in S : v < u}) < n}

\* _get_scheduled_pool_desired.
Desired ==
  LET most == AsLower(AsLower(AsMax, AsUnits), asWanted) IN
  IF most < AsMin THEN AsMin ELSE most

-----------------------------------------------------------------------------
\* time.sleep(POLL_SECONDS), with so many samples.
Sleep(samples) ==
  /\ asPc' = "sleep"
  /\ asSamples' = samples
  /\ asOverAge' = AsLower(asOverAge + 1, 2 * AsCooldown)
  /\ asStopAge' = AsLower(asStopAge + 1, AsSpacing)
  /\ asHeld' = {} /\ asSeen' = {} /\ asTodo' = {} /\ asUnseen' = {}
  /\ UNCHANGED asWorld

\* Too few samples for a decision.
Sample == asPc = "sleep" /\ asSamples + 1 < AsHistory /\ Sleep(asSamples + 1)

\* _leased_runners: it answers with no leases when it cannot read the file.
ReadLeases(held) ==
  /\ asPc = "sleep" /\ asSamples + 1 >= AsHistory
  /\ asSamples' = AsHistory
  /\ asHeld' = held /\ asUnseen' = asLeases \ held
  /\ asPc' = "units"
  /\ UNCHANGED <<asWorld, asSeen, asTodo, asOverAge, asStopAge>>

\* _unit_is_active for each unit; a unit that drains is not.
ReadUnits ==
  /\ asPc = "units"
  /\ asSeen' = Up /\ asUnseen' = asUnseen \cap Up
  /\ asPc' = "busy"
  /\ UNCHANGED <<asWorld, asHeld, asTodo, asClocks>>

\* Mutant: leases protect nothing.
IdleLeased(busy) == asSeen \ busy

\* Mutant: taken from the units of the pool, the inactive ones included.
IdleUnits(busy) == (AsUnit \ busy) \ asHeld

\* pool_idle_active.
Idle(busy) == (asSeen \ busy) \ asHeld

Overloaded == asLoad = "high"

\* How many units to stop: the surplus over the schedule, or under overload all but
\* the floor, MAX_STEP at a time.
Excess(idle) ==
  LET n == Cardinality(asSeen) IN
  IF n > Desired /\ idle # {} THEN AsLower(AsStep, n - Desired)
  ELSE IF Overloaded /\ n > AsMin THEN AsLower(AsStep, n - AsMin)
  ELSE 0

\* How many to start: up to the schedule once the load is low and the last overload
\* long past, one at a time while it is not very long past.
Shortage(idle) ==
  LET n == Cardinality(asSeen) IN
  IF Excess(idle) = 0 /\ asLoad = "low" /\ n < Desired /\ asOverAge >= AsCooldown
  THEN AsLower(IF asOverAge < 2 * AsCooldown THEN 1 ELSE AsStep, Desired - n)
  ELSE 0

\* Mutant: the units to start are not taken from the inactive ones.
ToStartAny(idle) == First(Shortage(idle), AsUnit)

ToStart(idle) == First(Shortage(idle), AsUnit \ asSeen)

\* The stop is deferred for AUTOSCALER_ACTION_COOLDOWN_SECONDS after the last one.
ToStop(idle) == IF asStopAge < AsSpacing THEN {} ELSE First(Excess(idle), idle)

\* _runner_is_busy for each active unit, and the decision.
Decide(busy) ==
  LET idle == Idle(busy) IN
  /\ asPc = "busy"
  /\ asOverAge' = IF Overloaded THEN 0 ELSE asOverAge
  /\ asTodo' = ToStop(idle) \cup ToStart(idle)
  /\ asPc' = IF Excess(idle) > 0 THEN "stop" ELSE "start"
  /\ asStopAge' = IF ToStop(idle) # {} THEN 0 ELSE asStopAge
  /\ asHeld' = {}
  /\ asSeen' = IF ToStop(idle) # {} THEN asSeen ELSE {}
  /\ asUnseen' = asUnseen \cap ToStop(idle)
  /\ UNCHANGED <<asWorld, asSamples>>

\* The call for unit u is made and over.
Call(pc, u) ==
  /\ asPc = pc /\ u \in asTodo /\ \A v \in asTodo : u <= v
  /\ asTodo' = asTodo \ {u} /\ asUnseen' = asUnseen \ {u}
  /\ UNCHANGED <<asJobs, asLeases, asLoad, asWanted, asPc, asHeld, asClocks>>

\* systemctl stop of a unit with the drain contract: its job goes on.
Stopped(u) ==
  IF asState[u] \in {"up", "cycling"} /\ u \in asJobs THEN "draining"
  ELSE IF asState[u] = "up" THEN "down" ELSE asState[u]

\* systemctl start.  A unit that drains is started once it is down.
Started(u) ==
  IF asState[u] = "draining" THEN "cycling"
  ELSE IF asState[u] = "down" /\ u \notin AsBroken THEN "up" ELSE asState[u]

\* _stop_unit of a unit with the contract.
Stop(u) ==
  /\ Call("stop", u) /\ u \in AsSafe
  /\ asSeen' = asSeen \ {u}
  /\ asState' = [asState EXCEPT ![u] = Stopped(u)]

\* _stop_unit refuses a unit without the contract.
StopRefused(u) == Call("stop", u) /\ u \notin AsSafe /\ UNCHANGED <<asState, asSeen>>

\* _start_unit.
StartUnit(u) ==
  /\ Call("start", u)
  /\ asState' = [asState EXCEPT ![u] = Started(u)]
  /\ UNCHANGED asSeen

\* The poll is over.
Rest == asPc \in {"stop", "start"} /\ asTodo = {} /\ Sleep(asSamples)

\* What the loop does when every call it makes succeeds.
Loop ==
  \/ Sample \/ ReadLeases(asLeases) \/ ReadUnits \/ Decide(asJobs \cap asSeen) \/ Rest
  \/ \E u \in AsUnit : Stop(u) \/ StopRefused(u) \/ StartUnit(u)

-----------------------------------------------------------------------------
\* leases.yml cannot be read.
Unread == ReadLeases({})

\* A busy query failed, or a job ended a moment ago: more units count as busy.
Cautious == \E busy \in SUBSET asSeen : asJobs \cap asSeen \subseteq busy /\ Decide(busy)

\* A query raises and the poll is given up, before or after its sample is kept, or no
\* unit is listed.
Abandon ==
  \/ asPc \in {"sleep", "units", "busy"} /\ Sleep(asSamples)
  \/ asPc = "sleep" /\ Sleep(AsLower(asSamples + 1, AsHistory))

\* systemctl or sudo fails for one unit.
CallFails(u) == (Call("stop", u) \/ Call("start", u)) /\ UNCHANGED <<asState, asSeen>>

\* The autoscaler dies and systemd starts it anew; what it remembered is gone.
Restart ==
  /\ asPc' = "sleep" /\ asHeld' = {} /\ asSeen' = {} /\ asTodo' = {}
  /\ asSamples' = 0 /\ asOverAge' = 2 * AsCooldown /\ asStopAge' = AsSpacing
  /\ asUnseen' = {}
  /\ UNCHANGED asWorld

\* The units that the poll under way may stop.
AtRisk ==
  CASE asPc = "units" -> AsUnit [] asPc = "busy" -> asSeen
    [] asPc = "stop" -> asTodo [] OTHER -> {}

\* Work that begins while a poll is under way that may stop its unit.
Begins(u) == asUnseen' = asUnseen \cup ({u} \cap AtRisk)

JobBegins(u) ==
  /\ asState[u] = "up" /\ u \notin asJobs
  /\ asJobs' = asJobs \cup {u}
  /\ Begins(u)
  /\ UNCHANGED <<asState, asLeases, asLoad, asWanted, asMind>>

\* The job ends; that of a unit that drains also because TimeoutStopSec is over.
JobEnds(u) ==
  /\ u \in asJobs
  /\ asJobs' = asJobs \ {u}
  /\ asState' = [asState EXCEPT ![u] =
       CASE @ = "draining" -> "down" [] @ = "cycling" -> "up" [] @ = "up" -> "up"]
  /\ UNCHANGED <<asLeases, asLoad, asWanted, asMind, asUnseen>>

LeaseTaken(u) ==
  /\ u \in AsLeasable \ asLeases
  /\ asLeases' = asLeases \cup {u}
  /\ Begins(u)
  /\ UNCHANGED <<asState, asJobs, asLoad, asWanted, asMind>>

LeaseOver(u) ==
  /\ u \in asLeases
  /\ asLeases' = asLeases \ {u}
  /\ UNCHANGED <<asState, asJobs, asLoad, asWanted, asMind, asUnseen>>

\* A unit that is up dies, with its job.
UnitFalls(u) ==
  /\ asState[u] = "up"
  /\ asState' = [asState EXCEPT ![u] = "down"] /\ asJobs' = asJobs \ {u}
  /\ UNCHANGED <<asLeases, asLoad, asWanted, asMind, asUnseen>>

\* An operator stops a unit on the dashboard, which looks at no contract: stopping one
\* that has none kills its job, as if the unit had died.
OperatorStops(u) ==
  /\ u \in AsSafe /\ Stopped(u) # asState[u]
  /\ asState' = [asState EXCEPT ![u] = Stopped(u)]
  /\ UNCHANGED <<asJobs, asLeases, asLoad, asWanted, asMind, asUnseen>>

OperatorStarts(u) ==
  /\ Started(u) # asState[u]
  /\ asState' = [asState EXCEPT ![u] = Started(u)]
  /\ UNCHANGED <<asJobs, asLeases, asLoad, asWanted, asMind, asUnseen>>

\* The load is sampled, and the schedule matters, once a poll.
Change ==
  /\ asPc = "sleep"
  /\ asLoad' \in {"high", "between", "low"} /\ asWanted' \in AsSchedule
  /\ UNCHANGED <<asState, asJobs, asLeases, asMind, asUnseen>>

Around ==
  \/ Unread \/ Cautious \/ Abandon \/ Restart \/ Change
  \/ \E u \in AsUnit : \/ CallFails(u) \/ JobBegins(u) \/ JobEnds(u) \/ LeaseTaken(u)
                       \/ LeaseOver(u) \/ UnitFalls(u) \/ OperatorStops(u) \/ OperatorStarts(u)

AsNext == Loop \/ Around

\* The loop goes on as long as the process lives, and systemd restarts it.
AsFairness == WF_asVars(Loop)

AsSpec == AsInit /\ [][AsNext]_asVars /\ AsFairness
-----------------------------------------------------------------------------
\* Units, what the loop knows of them, and its clocks.  A unit drains for a job only,
\* and the loop stops only what it has seen up.
AsTypeOK ==
  /\ asState \in [AsUnit -> {"up", "draining", "cycling", "down"}]
  /\ asJobs \subseteq {u \in AsUnit : asState[u] # "down"}
  /\ {u \in AsUnit : asState[u] \in {"draining", "cycling"}} \subseteq asJobs
  /\ asLeases \subseteq AsLeasable
  /\ asLoad \in {"high", "between", "low"} /\ asWanted \in AsSchedule
  /\ asPc \in {"sleep", "units", "busy", "stop", "start"}
  /\ asHeld \subseteq AsUnit /\ asSeen \subseteq AsUnit /\ asUnseen \subseteq AtRisk
  /\ asTodo \subseteq (IF asPc = "stop" THEN asSeen ELSE AsUnit)
  /\ asSamples \in 0 .. AsHistory
  /\ asOverAge \in 0 .. 2 * AsCooldown /\ asStopAge \in 0 .. AsSpacing

\* A unit that the autoscaler stops has no job and no lease that this very poll could
\* have seen, and the pool is left with the floor "never reduce below this count"
\* (runner_autoscaler.py:30) unless another unit has just fallen by itself: between the
\* look at the leases and the last of the stops everybody else goes on.
StopsAreSafe ==
  [][\A u \in AsUnit : Stop(u) =>
       /\ u \notin (asJobs \cup asLeases) \ asUnseen
       /\ Cardinality(Up') >= AsMin \/ ~(asSeen' \subseteq Up')]_asVars

\* The pool is as the schedule and the load ask, but for a first idle unit that will not
\* be stopped or a first inactive one that will not start: the loop takes units in the
\* order of their names and does not try the next one when a call fails.
Settled ==
  LET idle == (Up \ asJobs) \ asLeases
      stopped == First(1, idle) \cap AsSafe = {}
      started == \A u \in First(1, AsUnit \ Up) : u \in AsBroken \/ asState[u] = "cycling" IN
  /\ Cardinality(Up) > Desired => stopped
  /\ Overloaded /\ Cardinality(Up) > AsMin => stopped
  /\ asLoad = "low" /\ Cardinality(Up) < Desired => started

\* Left alone, the loop settles: spacing, cooldown and soft recovery delay it but do
\* not keep it from what schedule and load ask for.
PoolSettles == <>[][Loop]_asVars => <>[]Settled
=============================================================================

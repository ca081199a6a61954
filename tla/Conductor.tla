----------------------------- MODULE Conductor -----------------------------
(***************************************************************************)
(* The Conductor admission gate (backend/orchestrator_api.py): HTTP        *)
(* handlers on one event loop that lease CI dispatch slots against the     *)
(* fleet's idle runners.  A handler reads the capacity first, which        *)
(* suspends it on a cache miss (gh_utils.get_cached_org_runners), and does *)
(* the rest in one critical section.                                       *)
(***************************************************************************)
EXTENDS Integers, FiniteSets, Functions

CONSTANTS
  Client,       \* callers: orchestrators, operators, dashboard tabs
  LeaseRequest, \* lease requests, [kind, slots, reserve]
  Asks,         \* [Client -> SUBSET Request]: what each caller sends
  LeaseId,      \* ids to name leases by (uuid4 in the code)
  Total,        \* runners of the fleet
  TTL,          \* LEASE_TTL_SECONDS, in ticks
  MaxRestarts,  \* bound on server restarts
  None          \* no value: a caller without a request, an empty cache

Control == [kind : {"pause", "resume", "drain"}]
Status == [kind : {"status"}]
Request == LeaseRequest \cup Control \cup Status

ASSUME ConductorAssumption ==
  /\ LeaseRequest \subseteq [kind : {"lease"}, slots : Nat \ {0}, reserve : Nat]
  /\ Asks \in [Client -> SUBSET Request]
  /\ IsFiniteSet(LeaseId)
  /\ Total \in Nat /\ TTL \in Nat \ {0} /\ MaxRestarts \in Nat
  /\ None \notin Nat

VARIABLES
  mode,      \* _state.mode
  leases,    \* _state.leases: id -> [slots, ttl], ttl the ticks left to expires_at
  cache,     \* idle runners by the shared `runners` cache, or None
  handler,   \* each caller's request that waits for GitHub, or None
  alive,     \* callers that have not crashed
  idle,      \* idle runners of the fleet, by GitHub
  restarts

vars == <<mode, leases, cache, handler, alive, idle, restarts>>

Init ==
  /\ mode = "running"
  /\ leases = [id \in {} |-> None]
  /\ cache = None
  /\ handler = [c \in Client |-> None]
  /\ alive = Client
  /\ idle \in 0 .. Total
  /\ restarts = 0

-----------------------------------------------------------------------------
\* reserved_slots: the slots of all leases, summed as the size of a disjoint union.
SlotsOf(L) == UNION {{id} \X (1 .. L[id].slots) : id \in DOMAIN L}
Reserved(L) == Cardinality(SlotsOf(L))

\* Mutant: expired leases stay.
NoReap(L) == L

\* reap_expired: leases whose TTL has not run out.
Reaped(L) == Restrict(L, {id \in DOMAIN L : L[id].ttl > 0})

\* Mutant: what is leased already is not subtracted.
FreeForAll(snap, reserve, L) == IF snap > reserve THEN snap - reserve ELSE 0

\* _free_slots: never negative.
FreeSlots(snap, reserve, L) ==
  LET free == snap - reserve - Reserved(L) IN IF free > 0 THEN free ELSE 0

\* Mutant: the queue's mode does not matter.
AdmitsAnyMode(r, snap, L) == r.slots <= FreeSlots(snap, r.reserve, L)

\* The admission decision, on the reaped leases.
Admits(r, snap, L) == mode = "running" /\ r.slots <= FreeSlots(snap, r.reserve, L)

\* Mutant: the action's name is stored as the mode.
ModeAfterRaw(r) == r.kind

\* control_queue: the mode each action sets.
ModeAfter(r) ==
  CASE r.kind = "pause" -> "paused" [] r.kind = "resume" -> "running"
    [] r.kind = "drain" -> "draining"

\* request_lease after the await: reap, then grant or deny.  The id is one no
\* lease has; that of a lease that is gone may come again, unlike a uuid.
Grant(r, snap) ==
  /\ r \in LeaseRequest /\ Admits(r, snap, Reaped(leases))
  /\ \E id \in LeaseId \ DOMAIN Reaped(leases) :
       leases' = [k \in DOMAIN Reaped(leases) \cup {id} |->
                    IF k = id THEN [slots |-> r.slots, ttl |-> TTL] ELSE leases[k]]
  /\ UNCHANGED mode

Deny(r, snap) ==
  /\ r \in LeaseRequest /\ ~Admits(r, snap, Reaped(leases))
  /\ leases' = Reaped(leases)
  /\ UNCHANGED mode

\* get_queue: reap and report.
GetQueue(r) ==
  /\ r \in Status
  /\ leases' = Reaped(leases)
  /\ UNCHANGED mode

\* control_queue: set the mode and report; it does not reap.
ControlQueue(r) ==
  /\ r \in Control
  /\ mode' = ModeAfter(r)
  /\ UNCHANGED leases

\* What a handler does once it has the capacity.
Decide(r, snap) ==
  Grant(r, snap) \/ Deny(r, snap) \/ GetQueue(r) \/ ControlQueue(r)

-----------------------------------------------------------------------------
\* A request arrives; the cache has the inventory: no suspension.
AskHit(c, r) ==
  /\ c \in alive /\ handler[c] = None /\ r \in Asks[c]
  /\ cache # None
  /\ Decide(r, cache)
  /\ UNCHANGED <<cache, handler, alive, idle, restarts>>

\* A request arrives; the cache is empty: the handler awaits fetch_org_runners.
AskMiss(c, r) ==
  /\ c \in alive /\ handler[c] = None /\ r \in Asks[c]
  /\ cache = None
  /\ handler' = [handler EXCEPT ![c] = [req |-> r, snap |-> None]]
  /\ UNCHANGED <<mode, leases, cache, alive, idle, restarts>>

Ask(c) == \E r \in Asks[c] : AskHit(c, r) \/ AskMiss(c, r)
Look(c) == \E r \in Asks[c] \cap Status : AskHit(c, r) \/ AskMiss(c, r)

\* GitHub reads the inventory; the answer is on its way.
Read(c) ==
  /\ handler[c] # None /\ handler[c].snap = None
  /\ handler' = [handler EXCEPT ![c].snap = idle]
  /\ UNCHANGED <<mode, leases, cache, alive, idle, restarts>>

\* The answer arrives: the cache is set and the handler goes on.
Arrive(c) ==
  /\ handler[c] # None /\ handler[c].snap # None
  /\ cache' = handler[c].snap
  /\ Decide(handler[c].req, handler[c].snap)
  /\ handler' = [handler EXCEPT ![c] = None]
  /\ UNCHANGED <<alive, idle, restarts>>

\* The call fails, wherever on its way: the handler goes on with zero capacity and
\* the cache stays as it is.
Fail(c) ==
  /\ handler[c] # None /\ handler[c].snap # None
  /\ Decide(handler[c].req, 0)
  /\ handler' = [handler EXCEPT ![c] = None]
  /\ UNCHANGED <<cache, alive, idle, restarts>>

\* release_lease: any caller that knows the id; unknown ids are ignored.
Release(c, id) ==
  /\ c \in alive /\ handler[c] = None /\ Asks[c] \cap LeaseRequest # {}
  /\ id \in DOMAIN leases
  /\ leases' = Restrict(leases, DOMAIN leases \ {id})
  /\ UNCHANGED <<mode, cache, handler, alive, idle, restarts>>

-----------------------------------------------------------------------------
\* Time passes: every lease comes one tick closer to its expiry.
Tick ==
  /\ leases' = [id \in DOMAIN leases |->
                  [leases[id] EXCEPT !.ttl = IF @ > 0 THEN @ - 1 ELSE 0]]
  /\ UNCHANGED <<mode, cache, handler, alive, idle, restarts>>

\* CacheTtl.RUNNERS_S has passed since the inventory was cached.
CacheExpires ==
  /\ cache # None
  /\ cache' = None
  /\ UNCHANGED <<mode, leases, handler, alive, idle, restarts>>

\* Jobs start and end, runners come and go.
FleetChanges ==
  /\ idle' \in 0 .. Total
  /\ UNCHANGED <<mode, leases, cache, handler, alive, restarts>>

\* A caller dies; its leases and its request in flight stay with the server.
CallerDies(c) ==
  /\ c \in alive
  /\ alive' = alive \ {c}
  /\ UNCHANGED <<mode, leases, cache, handler, idle, restarts>>

\* The server restarts: everything was in the process.
Restart ==
  /\ restarts < MaxRestarts
  /\ restarts' = restarts + 1
  /\ mode' = "running"
  /\ leases' = [id \in {} |-> None]
  /\ cache' = None
  /\ handler' = [c \in Client |-> None]
  /\ UNCHANGED <<alive, idle>>

Next ==
  \/ \E c \in Client : Ask(c) \/ Read(c) \/ Arrive(c) \/ Fail(c) \/ CallerDies(c)
  \/ \E c \in Client, id \in LeaseId : Release(c, id)
  \/ Tick \/ CacheExpires \/ FleetChanges \/ Restart

Spec == Init /\ [][Next]_vars

\* Callers that live go on asking, those that show the queue go on looking at it;
\* GitHub answers, and does not fail for ever; time passes for leases and the
\* cache.  Nothing makes a caller release its lease.
FairSpec ==
  /\ Spec
  /\ \A c \in Client : /\ WF_vars(Ask(c)) /\ SF_vars(Look(c))
                       /\ WF_vars(Read(c)) /\ SF_vars(Arrive(c))
  /\ WF_vars(Tick) /\ WF_vars(CacheExpires)

-----------------------------------------------------------------------------
Lease == [slots : 1 .. Total, ttl : 0 .. TTL]

\* Modes are the three of QueueMode; no lease is larger than the fleet.
TypeOK ==
  /\ mode \in {"running", "paused", "draining"}
  /\ DOMAIN leases \subseteq LeaseId
  /\ leases \in [DOMAIN leases -> Lease]
  /\ cache \in 0 .. Total \cup {None}
  /\ handler \in [Client -> [req : Request, snap : 0 .. Total \cup {None}] \cup {None}]
  /\ alive \subseteq Client
  /\ idle \in 0 .. Total
  /\ restarts \in 0 .. MaxRestarts

\* However many requests race on snapshots of the fleet, fresh or stale, the slots
\* that are leased out leave the reserve some request asked for within the fleet.
NeverOversubscribed ==
  Reserved(leases) > 0 =>
    \E r \in LeaseRequest : Reserved(leases) + r.reserve <= Total

\* "a crashed orchestrator cannot wedge the fleet": when all other orchestrators
\* have died without releasing, the queue runs and the fleet has the runners, an
\* orchestrator that goes on asking is granted slots again and again.
Calm(c) ==
  /\ mode = "running"
  /\ c \in alive /\ Asks[c] # {} /\ Asks[c] \subseteq LeaseRequest
  /\ \A d \in alive \ {c} : Asks[d] \cap LeaseRequest = {}
  /\ \A r \in Asks[c] \cap LeaseRequest : r.slots + r.reserve <= idle

Granting ==
  \E id \in DOMAIN leases' :
    leases'[id].ttl = TTL /\ (id \in DOMAIN leases => leases[id].ttl < TTL)

SelfHealing == \A c \in Client : <>[]Calm(c) => []<><<Granting>>_vars

\* A drain drains: while the queue stays in draining and someone looks at it, the
\* leases that were out when it began go away and none takes their place.
DrainCompletes ==
  <>[](mode = "draining" /\ \E c \in alive : Status \subseteq Asks[c])
    => <>[](leases = [id \in {} |-> None])

\* "each admission decision reuses one GitHub round-trip per CacheTtl.RUNNERS_S
\* window": callers that find the cache empty share one call. They do not, see
\* the README. No run checks it.
OneRoundTrip == Cardinality({c \in Client : handler[c] # None}) <= 1
=============================================================================

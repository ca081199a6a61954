---------------------------- MODULE DispatchGate ----------------------------
(***************************************************************************)
(* How one server worker dispatches agents: the quick, bulk and            *)
(* remediation routes and the assistant's tool check a rate limiter, the   *)
(* principal's daily spend and its runner leases, wait for `gh api`, and   *)
(* charge and lease only when it has answered.  Handlers share one event   *)
(* loop: what lies between two awaits is one step.                         *)
(***************************************************************************)
EXTENDS Integers, Sequences, FiniteSets

CONSTANTS
  Handler,      \* requests the server handles at a time
  Principal,    \* authenticated callers
  May,          \* the kinds of dispatch each caller asks for, by its scopes
  Everyone,     \* the key of the quick limiter, which all callers share
  Fingerprint,  \* failures that remediation works on
  MaxRunners,   \* quotas.max_runners
  Budget,       \* quotas.agent_spend_usd_day, in dispatches of $0.10
  Limit,        \* admissions of each limiter in its window
  Width,        \* the width of that window, in ticks
  LeaseTime,    \* duration_seconds of a virtual lease, in ticks
  Targets,      \* how many PRs or issues a bulk request selects
  Midnight,     \* the tick at which the spend of a new day starts
  MaxTime,      \* bound on the clock
  MaxRuns,      \* bound on the workflow runs
  MaxRestarts,  \* bound on server restarts
  None          \* a free handler; the task of a run without fingerprint

Gate == {"quick", "remediation", "bulk"}
Limiter == [of : {"quick"}, who : {Everyone}]
           \cup [of : {"remediation", "bulk"}, who : Principal]
Kind == {"quick", "assistant", "remediation", "bulk"}

ASSUME DispatchAssumption ==
  /\ IsFiniteSet(Handler)
  /\ May \in [Principal -> SUBSET Kind]
  /\ Everyone \notin Principal
  /\ None \notin Fingerprint /\ Fingerprint \cap Nat = {}
  /\ MaxRunners \in [Principal -> Nat] /\ Budget \in [Principal -> Nat]
  /\ Limit \in [Gate -> Nat] /\ Width \in [Gate -> Nat]
  /\ LeaseTime \in Nat /\ Targets \subseteq Nat
  /\ MaxTime \in Nat /\ MaxRuns \in Nat /\ MaxRestarts \in Nat

VARIABLES
  handler,   \* each handler's request: [kind, who, task, pc, calls, ok], or None
  window,    \* the times each limiter remembers
  admitted,  \* history: all times each limiter admitted since the server started
  leases,    \* live leases of virtual runners: [principal, runner, exp]
  spend,     \* each principal's spend of the day, in dispatches
  runs,      \* history: the workflow runs GitHub started, by number
  now,       \* the clock
  restarts

vars == <<handler, window, admitted, leases, spend, runs, now, restarts>>

Init ==
  /\ handler = [h \in Handler |-> None]
  /\ window = [l \in Limiter |-> <<>>]
  /\ admitted = [l \in Limiter |-> <<>>]
  /\ leases = {}
  /\ spend = [q \in Principal |-> 0]
  /\ runs = <<>>
  /\ now = 0
  /\ restarts = 0

-----------------------------------------------------------------------------
\* The limiter a request of q goes through.
LimiterOf(kind, q) ==
  IF kind \in {"quick", "assistant"} THEN [of |-> "quick", who |-> Everyone]
  ELSE [of |-> kind, who |-> q]

\* Mutant: times leave the window one tick early.
InWindowEarly(l, t) == now - t < Width[l.of] - 1

\* Does a time count against the limit?  The bulk limiter counts its far end too.
InWindow(l, t) == \/ now - t < Width[l.of]
                  \/ l.of = "bulk" /\ now - t = Width[l.of]

\* The remembered times that count: times are in order, the old ones come first.
Recent(l) ==
  SubSeq(window[l], 1 + Cardinality({i \in DOMAIN window[l] : ~InWindow(l, window[l][i])}),
         Len(window[l]))

Admits(l) == Len(Recent(l)) < Limit[l.of]

Remember(l) ==
  /\ window' = [window EXCEPT ![l] = Append(Recent(l), now)]
  /\ admitted' = [admitted EXCEPT ![l] = Append(@, now)]

Held(q) == {x \in leases : x.principal = q}

\* Runners q may still lease.
Room(q) == IF Cardinality(Held(q)) < MaxRunners[q]
           THEN MaxRunners[q] - Cardinality(Held(q)) ELSE 0

\* check_dispatch_quota, for one dispatch.
Allowed(q) == spend[q] + 1 <= Budget[q] /\ Room(q) > 0

Lower(m, n) == IF m < n THEN m ELSE n

\* Mutant: a bulk request is not truncated.
TruncatedToAll(q, n) == n

\* The targets of a bulk request that fit the remaining quota.
Truncated(q, n) == Lower(n, Room(q))

Serve(h, kind, q, task, pc, calls) ==
  handler' = [handler EXCEPT ![h] = [kind |-> kind, who |-> q, task |-> task,
                                     pc |-> pc, calls |-> calls, ok |-> {}]]

Answer(h) == handler' = [handler EXCEPT ![h] = None]

At(h, pc) == handler[h] # None /\ handler[h].pc = pc

-----------------------------------------------------------------------------
\* POST /api/agents/quick-dispatch checks the quota; the health gate may suspend it.
Quick(h, q) ==
  /\ handler[h] = None /\ "quick" \in May[q] /\ Allowed(q)
  /\ Serve(h, "quick", q, None, "probing", 0)
  /\ UNCHANGED <<window, admitted, leases, spend, runs, now, restarts>>

\* The assistant's quick_dispatch_agent tool checks no quota.
Assist(h, q) ==
  /\ handler[h] = None /\ "assistant" \in May[q]
  /\ Serve(h, "assistant", q, None, "probing", 0)
  /\ UNCHANGED <<window, admitted, leases, spend, runs, now, restarts>>

\* The health gate says no.
NotReady(h) ==
  /\ At(h, "probing")
  /\ Answer(h)
  /\ UNCHANGED <<window, admitted, leases, spend, runs, now, restarts>>

\* _check_quick_dispatch_rate, then gh is called unless the provider's
\* dispatch_mode rules that out.
QuickAdmitted(h) ==
  LET r == handler[h]  l == LimiterOf("quick", r.who) IN
  /\ At(h, "probing") /\ Admits(l)
  /\ Remember(l)
  /\ Serve(h, r.kind, r.who, None, "calling", 1) \/ Answer(h)
  /\ UNCHANGED <<leases, spend, runs, now, restarts>>

QuickLimited(h) ==
  LET l == LimiterOf("quick", handler[h].who) IN
  /\ At(h, "probing") /\ ~Admits(l)
  /\ window' = [window EXCEPT ![l] = Recent(l)]
  /\ Answer(h)
  /\ UNCHANGED <<admitted, leases, spend, runs, now, restarts>>

\* The remediation route passes check_dispatch_rate and reads the body.
Remediate(h, q, f) ==
  LET l == LimiterOf("remediation", q) IN
  /\ handler[h] = None /\ "remediation" \in May[q] /\ Admits(l)
  /\ Remember(l)
  /\ Serve(h, "remediation", q, f, "checking", 0)
  /\ UNCHANGED <<leases, spend, runs, now, restarts>>

\* ... then checks the quota and plans; the planner may decline.
Plan(h) ==
  LET r == handler[h] IN
  /\ At(h, "checking")
  /\ \/ Allowed(r.who) /\ Serve(h, r.kind, r.who, r.task, "calling", 1)
     \/ Answer(h)
  /\ UNCHANGED <<window, admitted, leases, spend, runs, now, restarts>>

\* A bulk request: quota, DispatchQuota.check_and_record, truncation, fan-out.  One
\* whose provider or selection is refused has been recorded all the same.
Bulk(h, q, n) ==
  LET l == LimiterOf("bulk", q) IN
  /\ handler[h] = None /\ "bulk" \in May[q] /\ Allowed(q) /\ Admits(l)
  /\ Remember(l)
  /\ Serve(h, "bulk", q, None, "calling", Truncated(q, n)) \/ Answer(h)
  /\ UNCHANGED <<leases, spend, runs, now, restarts>>

BulkLimited(q) ==
  LET l == LimiterOf("bulk", q) IN
  /\ "bulk" \in May[q] /\ Allowed(q) /\ ~Admits(l)
  /\ window' = [window EXCEPT ![l] = Recent(l)]
  /\ UNCHANGED <<handler, admitted, leases, spend, runs, now, restarts>>

-----------------------------------------------------------------------------
\* Mutant: answers are awaited without counting them.
CallingOn(h) == At(h, "calling")

Calling(h) == At(h, "calling") /\ handler[h].calls > 0

Run(h) == [who |-> handler[h].who, task |-> handler[h].task]

\* GitHub starts a run and gh exits with 0.
Started(h) ==
  /\ Calling(h) /\ Len(runs) < MaxRuns
  /\ runs' = Append(runs, Run(h))
  /\ handler' = [handler EXCEPT ![h].calls = @ - 1,
                                ![h].ok = @ \cup {Len(runs) + 1}]
  /\ UNCHANGED <<window, admitted, leases, spend, now, restarts>>

\* GitHub starts a run, but gh times out or fails on the answer.
Unreported(h) ==
  /\ Calling(h) /\ Len(runs) < MaxRuns
  /\ runs' = Append(runs, Run(h))
  /\ handler' = [handler EXCEPT ![h].calls = @ - 1]
  /\ UNCHANGED <<window, admitted, leases, spend, now, restarts>>

\* Mutant: a dispatch that failed is reported as one that succeeded.
FailedAccepted(h) ==
  /\ Calling(h)
  /\ handler' = [handler EXCEPT ![h].calls = @ - 1,
                                ![h].ok = @ \cup {Len(runs) + 1}]
  /\ UNCHANGED <<window, admitted, leases, spend, runs, now, restarts>>

\* gh fails and GitHub starts nothing.
Failed(h) ==
  /\ Calling(h)
  /\ handler' = [handler EXCEPT ![h].calls = @ - 1]
  /\ UNCHANGED <<window, admitted, leases, spend, runs, now, restarts>>

VirtualLease(q, v) == [principal |-> q, runner |-> v, exp |-> now + LeaseTime]

\* Mutant: the quota is not checked again when the leases are acquired.
LeasedAll(r) == leases' = leases \cup {VirtualLease(r.who, id) : id \in r.ok}

\* acquire_lease for each accepted run, under its own virtual runner or, for a
\* remediation, under the fingerprint's: renewed if q has it, refused if another
\* principal has it, and refused beyond the quota.  A refusal is only logged.
Leased(r) ==
  IF r.kind = "remediation" /\ \E x \in leases : x.runner = r.task
  THEN leases' = {IF x.runner = r.task /\ x.principal = r.who /\ r.ok # {}
                  THEN VirtualLease(r.who, r.task) ELSE x : x \in leases}
  ELSE \E granted \in SUBSET r.ok :
         /\ Cardinality(granted) = Lower(Cardinality(r.ok), Room(r.who))
         /\ leases' = leases \cup
              {VirtualLease(r.who, IF r.kind = "remediation" THEN r.task ELSE id) :
                 id \in granted}

\* All calls have been answered: the accepted runs are charged and leased.
Collate(h) ==
  LET r == handler[h] IN
  /\ At(h, "calling") /\ r.calls = 0
  /\ spend' = [spend EXCEPT ![r.who] = @ + Cardinality(r.ok)]
  /\ Leased(r)
  /\ Answer(h)
  /\ UNCHANGED <<window, admitted, runs, now, restarts>>

-----------------------------------------------------------------------------
\* Time passes.  Every reader of the leases prunes them first, so an expired lease
\* is gone; get_today_spend reads the spend of the current date.
Tick ==
  /\ now < MaxTime
  /\ now' = now + 1
  /\ leases' = {x \in leases : x.exp > now + 1}
  /\ spend' = IF now + 1 = Midnight THEN [q \in Principal |-> 0] ELSE spend
  /\ UNCHANGED <<handler, window, admitted, runs, restarts>>

\* The server restarts: requests and limiters were in the process, leases and
\* spend are in files.
Restart ==
  /\ restarts < MaxRestarts
  /\ restarts' = restarts + 1
  /\ handler' = [h \in Handler |-> None]
  /\ window' = [l \in Limiter |-> <<>>]
  /\ admitted' = [l \in Limiter |-> <<>>]
  /\ UNCHANGED <<leases, spend, runs, now>>

Next ==
  \/ \E h \in Handler, q \in Principal :
       \/ Quick(h, q) \/ Assist(h, q)
       \/ \E f \in Fingerprint : Remediate(h, q, f)
       \/ \E n \in Targets : Bulk(h, q, n)
  \/ \E h \in Handler :
       \/ NotReady(h) \/ QuickAdmitted(h) \/ QuickLimited(h) \/ Plan(h)
       \/ Started(h) \/ Unreported(h) \/ Failed(h) \/ Collate(h)
  \/ \E q \in Principal : BulkLimited(q)
  \/ Tick \/ Restart

Spec == Init /\ [][Next]_vars

-----------------------------------------------------------------------------
Request ==
  [kind : Kind, who : Principal, task : Fingerprint \cup {None},
   pc : {"probing", "checking", "calling"}, calls : Nat, ok : SUBSET (1 .. MaxRuns)]

\* The shape of requests, limiters, leases and runs.
TypeOK ==
  /\ handler \in [Handler -> Request \cup {None}]
  /\ window \in [Limiter -> Seq(0 .. MaxTime)]
  /\ admitted \in [Limiter -> Seq(0 .. MaxTime)]
  /\ leases \subseteq [principal : Principal, runner : Fingerprint \cup 1 .. MaxRuns, exp : Nat]
  /\ spend \in [Principal -> Nat]
  /\ runs \in Seq([who : Principal, task : Fingerprint \cup {None}])
  /\ Len(runs) <= MaxRuns
  /\ now \in 0 .. MaxTime /\ restarts \in 0 .. MaxRestarts

\* A limiter admits no more than its limit in any stretch of time as long as its
\* window, wherever the stretch begins and however the requests interleave.
RateBound ==
  \A l \in Limiter : \A i \in DOMAIN admitted[l] :
    i > Limit[l.of] => admitted[l][i] - admitted[l][i - Limit[l.of]] >= Width[l.of]

\* "Maximum concurrent runners leased by this principal" (SPEC.md:4415): although
\* the quota is checked before the await and the leases are acquired after it.
LeaseQuota == \A q \in Principal : Cardinality(Held(q)) <= MaxRunners[q]

RunsOf(q) == {i \in DOMAIN runs : runs[i].who = q}

\* Nobody holds a lease or pays for a run GitHub did not start for them, whatever
\* replies are lost, runs fail or leases are refused.
NoPhantom ==
  /\ \A q \in Principal : spend[q] <= Cardinality(RunsOf(q))
  /\ \A x \in leases :
       \E i \in RunsOf(x.principal) : x.runner \in {i, runs[i].task}

\* The requests that are in flight together may overrun the daily budget, each by
\* one quota of runners at most, for a principal that does not use the assistant.
OverrunBounded ==
  \A q \in Principal : Budget[q] > 0 /\ "assistant" \notin May[q] =>
    spend[q] < Budget[q] + Cardinality(Handler) * MaxRunners[q]

\* "Bulk PR/issue dispatches are automatically truncated to fit within the
\* principal's remaining max_runners quota" (SPEC.md:4423): the bulk dispatches of a
\* principal that are under way, with the leases it holds, are no more than that.
UnderWay(q) ==
  UNION {{h} \X (1 .. handler[h].calls + Cardinality(handler[h].ok)) :
           h \in {g \in Handler : At(g, "calling") /\ handler[g].who = q
                                   /\ handler[g].kind = "bulk"}}

BulkFits ==
  \A q \in Principal : Cardinality(UnderWay(q)) + Cardinality(Held(q)) <= MaxRunners[q]
=============================================================================

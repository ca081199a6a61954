---------------------------- MODULE LeaseService ----------------------------
(***************************************************************************)
(* What the runner-lease store promises its callers, with no files, locks  *)
(* or processes: one set of leases, changed by atomic operations.          *)
(* LeaseStore is the mechanism (leases.yml, flock, os.replace) and its     *)
(* refinement mapping reads `leases` off the file named leases.yml.        *)
(***************************************************************************)
EXTENDS Integers, FiniteSets

CONSTANTS
  Principal,   \* identities that hold leases
  Runner,      \* runner ids, the virtual ids of dispatched work included
  Issue,       \* Linear issues, each a synthetic runner id
  LinearBot,   \* the principal linear_sync records its assignments under
  MaxRunners,  \* [Principal -> Nat], principal.quotas.max_runners
  Duration,    \* the duration_seconds callers ask for
  Perm,        \* expires_at = None
  ReadFaults,  \* TRUE when an assignment's load of the store may fail
  MaxTime      \* bound on the clock

VARIABLES
  leases,      \* the lease records of the store
  now          \* the wall clock

vars == <<leases, now>>

Expiry == 0 .. 2 * MaxTime

Lease(q, r, e) == [principal |-> q, runner |-> r, exp |-> e]

Live(x, t) == x.exp = Perm \/ x.exp > t

LiveLeases == {x \in leases : Live(x, now)}

Init == leases = {} /\ now = 0

\* A writer may also drop what has expired, never anything live but `gone`.
Keeping(kept, gone) ==
  /\ kept \subseteq leases \ gone
  /\ LiveLeases \ gone \subseteq kept

On(r) == {x \in leases : x.runner = r}

Grant(q, r, e) ==
  /\ \A x \in LiveLeases : x.runner = r => x.principal = q
  /\ Cardinality({x \in LiveLeases \ On(r) : x.principal = q}) < MaxRunners[q]
  /\ \E d \in Duration : e <= now + d
  /\ \E kept \in SUBSET leases :
        Keeping(kept, On(r)) /\ leases' = kept \cup {Lease(q, r, e)}
  /\ UNCHANGED now

Release(r) ==
  /\ \E gone \in SUBSET On(r) : Keeping(leases', gone)
  /\ UNCHANGED now

\* An assignment adds one record, to all of the leases or, its load having failed,
\* to none of them: this is the one operation that may forget leases.
Assign(i) ==
  /\ \E kept \in {leases} \cup (IF ReadFaults THEN {{}} ELSE {}) :
        leases' = kept \cup {Lease(LinearBot, i, Perm)}
  /\ UNCHANGED now

Tick ==
  /\ now < MaxTime
  /\ now' = now + 1
  /\ UNCHANGED leases

Next ==
  \/ \E q \in Principal, r \in Runner, e \in Expiry : Grant(q, r, e)
  \/ \E r \in Runner : Release(r)
  \/ \E i \in Issue : Assign(i)
  \/ Tick

Spec == Init /\ [][Next]_vars
=============================================================================

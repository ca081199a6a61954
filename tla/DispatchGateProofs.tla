------------------------- MODULE DispatchGateProofs -------------------------
(***************************************************************************)
(* Theorems about DispatchGate, for any handlers, principals, quotas,      *)
(* limits, windows and bounds.                                             *)
(***************************************************************************)
EXTENDS DispatchGate, FiniteSetTheorems, SequenceTheorems, TLAPS

Times == 0 .. MaxTime

\* A remediation has a fingerprint and is not put through the health gate.
HandlerType ==
  /\ handler \in [Handler -> Request \cup {None}]
  /\ \A h \in Handler : handler[h] # None /\ handler[h].kind = "remediation" =>
                          handler[h].task \in Fingerprint /\ handler[h].pc # "probing"

\* Only finitely many leases are live.
GateType == TypeOK /\ HandlerType /\ IsFiniteSet(leases)

-----------------------------------------------------------------------------
\* The image of a finite set has no more elements than the set.
LEMMA ImageBound ==
  ASSUME NEW S, IsFiniteSet(S), NEW f, f = [x \in S |-> f[x]]
  PROVE  /\ IsFiniteSet({f[x] : x \in S})
         /\ Cardinality({f[x] : x \in S}) <= Cardinality(S)
<1> DEFINE T == {f[x] : x \in S}
<1>1. f \in Surjection(S, T)
  BY DEF Surjection
<1>2. QED
  BY <1>1, FS_Surjection

\* What is left of a window is a tail of it, and what was cut off is out of it.
LEMMA RecentIsTail ==
  ASSUME TypeOK, NEW l \in Limiter,
         \A i, j \in DOMAIN window[l] : i <= j => window[l][i] <= window[l][j]
  PROVE  \E k \in 0 .. Len(window[l]) :
           /\ Recent(l) \in Seq(Times)
           /\ Len(Recent(l)) = Len(window[l]) - k
           /\ \A i \in 1 .. Len(Recent(l)) : Recent(l)[i] = window[l][k + i]
           /\ \A i \in 1 .. k : now - window[l][i] >= Width[l.of]
<1> DEFINE w == window[l]
           Old == {i \in DOMAIN w : ~InWindow(l, w[i])}
           k == Cardinality(Old)
<1>1. w \in Seq(Times) /\ now \in Times /\ l.of \in Gate /\ Width[l.of] \in Nat
  BY DispatchAssumption DEF TypeOK, Times, Limiter, Gate
<1>2. Len(w) \in Nat /\ DOMAIN w = 1 .. Len(w) /\ \A i \in DOMAIN w : w[i] \in Times
  BY <1>1
<1>3. Old \subseteq 1 .. Len(w) /\ IsFiniteSet(1 .. Len(w)) /\ Cardinality(1 .. Len(w)) = Len(w)
  BY <1>2, FS_Interval
<1>4. k \in 0 .. Len(w)
  BY <1>2, <1>3, FS_Subset, FS_CardinalityType
<1>5. ASSUME NEW x \in 1 .. k PROVE x \in Old
  <2> SUFFICES ASSUME x \notin Old PROVE FALSE
    OBVIOUS
  <2>1. x \in DOMAIN w
    BY <1>2, <1>4
  <2>2. InWindow(l, w[x])
    BY <2>1
  <2>3. ASSUME NEW y \in Old PROVE y \in 1 .. x - 1
    <3>1. ~InWindow(l, w[y]) /\ y \in DOMAIN w /\ w[y] \in Times /\ w[x] \in Times
      BY <2>1, <1>2
    <3>2. CASE y >= x
      <4>1. w[x] <= w[y]
        BY <3>1, <3>2, <2>1
      <4>2. ASSUME NEW a \in Nat, NEW b \in Nat, NEW n \in Nat, NEW d \in Nat, a <= b
            PROVE  (n - a < d => n - b < d) /\ (n - a = d => n - b < d \/ n - b = d)
        BY <4>2
      <4>3. InWindow(l, w[y])
        <5>1. w[x] \in Nat /\ w[y] \in Nat /\ now \in Nat
          BY <3>1, <1>1, DispatchAssumption DEF Times
        <5>2. QED
          BY <5>1, <4>1, <4>2, <2>2, <1>1 DEF InWindow
      <4>4. QED
        BY <3>1, <4>3
    <3>3. QED
      BY <3>1, <3>2, <1>2
  <2>4. Old \subseteq 1 .. x - 1 /\ IsFiniteSet(1 .. x - 1) /\ Cardinality(1 .. x - 1) = x - 1
    BY <2>3, FS_Interval
  <2>5. k <= x - 1
    BY <2>4, FS_Subset
  <2>6. QED
    BY <2>5, <1>4
<1>6. ASSUME NEW i \in 1 .. k PROVE now - w[i] >= Width[l.of]
  <2>1. i \in Old /\ i \in DOMAIN w
    BY <1>5
  <2>2. w[i] \in Times /\ ~(now - w[i] < Width[l.of])
    BY <2>1, <1>2 DEF InWindow
  <2>3. w[i] \in Int /\ now \in Int
    BY <2>2, <1>1, DispatchAssumption DEF Times
  <2> HIDE DEF w
  <2>4. QED
    BY <2>2, <2>3, <1>1
<1>7. Recent(l) = SubSeq(w, 1 + k, Len(w))
  BY DEF Recent
<1>8. /\ Recent(l) \in Seq(Times)
      /\ Len(Recent(l)) = Len(w) - k
      /\ \A i \in 1 .. Len(Recent(l)) : Recent(l)[i] = w[k + i]
  <2> HIDE DEF k, w
  <2>1. \A i \in 1 + k .. Len(w) : w[i] \in Times
    BY <1>2, <1>4
  <2>2. 1 + k \in Int /\ Len(w) \in Int
    BY <1>2, <1>4
  <2>3. /\ SubSeq(w, 1 + k, Len(w)) \in Seq(Times)
        /\ Len(SubSeq(w, 1 + k, Len(w))) = IF 1 + k <= Len(w) THEN Len(w) - (1 + k) + 1 ELSE 0
        /\ \A i \in 1 .. Len(w) - (1 + k) + 1 : SubSeq(w, 1 + k, Len(w))[i] = w[(1 + k) + i - 1]
    BY <2>1, <2>2, SubSeqProperties
  <2>4. Len(Recent(l)) = Len(w) - k
    <3>1. Len(w) \in Nat /\ k \in Nat /\ k <= Len(w)
      BY <1>2, <1>4
    <3>2. (IF 1 + k <= Len(w) THEN Len(w) - (1 + k) + 1 ELSE 0) = Len(w) - k
      BY <3>1
    <3>3. QED
      BY <2>3, <3>2, <1>7
  <2>5. ASSUME NEW i \in 1 .. Len(Recent(l)) PROVE Recent(l)[i] = w[k + i]
    <3>1. i \in 1 .. Len(w) - (1 + k) + 1 /\ (1 + k) + i - 1 = k + i
      BY <2>4, <1>4, <1>2
    <3>2. QED
      BY <3>1, <2>3, <1>7
  <2>6. QED
    BY <2>3, <2>4, <2>5, <1>7
<1>9. QED
  BY <1>4, <1>6, <1>8

-----------------------------------------------------------------------------
(***************************************************************************)
(* The limiters.  What a limiter remembers is the tail of what it has      *)
(* admitted, and what it has forgotten is out of its window.               *)
(***************************************************************************)
Recalls(l, adm, win, t) ==
  /\ Len(win) <= Len(adm)
  /\ \A i \in 1 .. Len(win) : win[i] = adm[Len(adm) - Len(win) + i]
  /\ \A i \in 1 .. Len(adm) - Len(win) : t - adm[i] >= Width[l.of]
  /\ \A i, j \in 1 .. Len(adm) : i <= j => adm[i] <= adm[j]
  /\ \A i \in 1 .. Len(adm) : adm[i] <= t

Bounded(l, adm) ==
  \A i \in 1 .. Len(adm) : i > Limit[l.of] => adm[i] - adm[i - Limit[l.of]] >= Width[l.of]

Limiting(l) == Recalls(l, admitted[l], window[l], now) /\ Bounded(l, admitted[l])

\* Forgetting what is out of the window.
LEMMA Trimmed ==
  ASSUME TypeOK, NEW l \in Limiter, Limiting(l)
  PROVE  Recent(l) \in Seq(Times) /\ Recalls(l, admitted[l], Recent(l), now)
<1> DEFINE a == admitted[l]
           w == window[l]
           r == Recent(l)
<1>1. a \in Seq(Times) /\ w \in Seq(Times) /\ now \in Times
  BY DEF TypeOK, Times
<1>2. Recalls(l, a, w, now)
  BY DEF Limiting
<1>3. \A i, j \in DOMAIN w : i <= j => w[i] <= w[j]
  <2>1. ASSUME NEW i \in 1 .. Len(w), NEW j \in 1 .. Len(w), i <= j PROVE w[i] <= w[j]
    <3> DEFINE d == Len(a) - Len(w)
    <3>0. Len(a) \in Nat /\ Len(w) \in Nat /\ Len(w) <= Len(a)
      BY <1>1, <1>2 DEF Recalls
    <3>1. d + i \in 1 .. Len(a) /\ d + j \in 1 .. Len(a) /\ d + i <= d + j
      <4> HIDE DEF a, w
      <4>1. QED
        BY <3>0, <2>1
    <3>2. w[i] = a[d + i] /\ w[j] = a[d + j]
      BY <1>2 DEF Recalls
    <3> HIDE DEF d, a, w
    <3>3. QED
      BY <3>1, <3>2, <1>2 DEF Recalls
  <2>2. QED
    BY <2>1, <1>1
<1>4. PICK k \in 0 .. Len(w) :
        /\ r \in Seq(Times)
        /\ Len(r) = Len(w) - k
        /\ \A i \in 1 .. Len(r) : r[i] = w[k + i]
        /\ \A i \in 1 .. k : now - w[i] >= Width[l.of]
  BY <1>3, RecentIsTail
<1>5. Len(w) \in Nat /\ Len(a) \in Nat /\ Len(w) <= Len(a) /\ k \in Nat /\ k <= Len(w)
  BY <1>1, <1>2, <1>4 DEF Recalls
<1> HIDE DEF a, w, r
<1>6. Len(r) <= Len(a)
  BY <1>4, <1>5
<1>7. ASSUME NEW i \in 1 .. Len(r) PROVE r[i] = a[Len(a) - Len(r) + i]
  <2>1. k + i \in 1 .. Len(w) /\ r[i] = w[k + i]
    BY <1>4, <1>5
  <2>2. w[k + i] = a[Len(a) - Len(w) + (k + i)]
    BY <2>1, <1>2 DEF Recalls
  <2>3. Len(a) - Len(w) + (k + i) = Len(a) - Len(r) + i
    BY <1>4, <1>5
  <2>4. QED
    BY <2>1, <2>2, <2>3
<1>8. ASSUME NEW i \in 1 .. Len(a) - Len(r) PROVE now - a[i] >= Width[l.of]
  <2>1. CASE i <= Len(a) - Len(w)
    <3>1. i \in 1 .. Len(a) - Len(w)
      BY <2>1, <1>4, <1>5
    <3>2. QED
      BY <3>1, <1>2 DEF Recalls
  <2>2. CASE i > Len(a) - Len(w)
    <3> DEFINE n == i - (Len(a) - Len(w))
    <3>1. n \in 1 .. k /\ n \in 1 .. Len(w) /\ Len(a) - Len(w) + n = i
      BY <2>2, <1>4, <1>5
    <3>2. w[n] = a[Len(a) - Len(w) + n]
      BY <3>1, <1>2 DEF Recalls
    <3>3. now - w[n] >= Width[l.of]
      BY <3>1, <1>4
    <3>4. QED
      BY <3>1, <3>2, <3>3
  <2>3. QED
    BY <2>1, <2>2, <1>4, <1>5
<1>9. Recalls(l, a, r, now)
  BY <1>2, <1>6, <1>7, <1>8 DEF Recalls
<1>10. QED
  BY <1>4, <1>9 DEF a, r

\* Admitting one more, when fewer than the limit are in the window.
LEMMA Admitted ==
  ASSUME NEW l \in Limiter, NEW a \in Seq(Times), NEW w \in Seq(Times), NEW t \in Times,
         Recalls(l, a, w, t), Bounded(l, a), Len(w) < Limit[l.of]
  PROVE  Recalls(l, Append(a, t), Append(w, t), t) /\ Bounded(l, Append(a, t))
<1> DEFINE b == Append(a, t)
           v == Append(w, t)
<1>1. /\ Len(a) \in Nat /\ Len(w) \in Nat /\ Len(w) <= Len(a)
      /\ Limit[l.of] \in Nat /\ Width[l.of] \in Nat
  BY DispatchAssumption DEF Recalls, Limiter, Gate
<1>2. /\ Len(b) = Len(a) + 1 /\ b[Len(a) + 1] = t
      /\ \A i \in 1 .. Len(a) : b[i] = a[i]
      /\ Len(v) = Len(w) + 1 /\ v[Len(w) + 1] = t
      /\ \A i \in 1 .. Len(w) : v[i] = w[i]
  BY AppendProperties
<1>3. \A i \in 1 .. Len(a) : a[i] \in Nat /\ a[i] <= t
  BY DispatchAssumption DEF Recalls, Times
<1>4. t \in Nat
  BY DispatchAssumption DEF Times
<1> HIDE DEF b, v
<1>5. Len(v) <= Len(b) /\ Len(b) - Len(v) = Len(a) - Len(w)
  BY <1>1, <1>2
<1>6. ASSUME NEW i \in 1 .. Len(v) PROVE v[i] = b[Len(b) - Len(v) + i]
  <2>1. CASE i = Len(w) + 1
    <3>1. Len(b) - Len(v) + i = Len(a) + 1
      BY <2>1, <1>1, <1>5
    <3>2. QED
      BY <3>1, <2>1, <1>2
  <2>2. CASE i <= Len(w)
    <3>1. i \in 1 .. Len(w) /\ Len(a) - Len(w) + i \in 1 .. Len(a)
      BY <2>2, <1>1
    <3>2. w[i] = a[Len(a) - Len(w) + i]
      BY <3>1 DEF Recalls
    <3>3. QED
      BY <3>1, <3>2, <1>2, <1>5
  <2>3. QED
    BY <2>1, <2>2, <1>1, <1>2
<1>7. ASSUME NEW i \in 1 .. Len(b) - Len(v) PROVE t - b[i] >= Width[l.of]
  <2>1. i \in 1 .. Len(a) - Len(w) /\ i \in 1 .. Len(a)
    BY <1>1, <1>5
  <2>2. QED
    BY <2>1, <1>2 DEF Recalls
<1>8. ASSUME NEW i \in 1 .. Len(b) PROVE b[i] <= t
  <2>1. CASE i \in 1 .. Len(a)
    BY <2>1, <1>2, <1>3
  <2>2. CASE i = Len(a) + 1
    BY <2>2, <1>2, <1>4
  <2>3. QED
    BY <2>1, <2>2, <1>1, <1>2
<1>9. ASSUME NEW i \in 1 .. Len(b), NEW j \in 1 .. Len(b), i <= j PROVE b[i] <= b[j]
  <2>1. CASE j \in 1 .. Len(a)
    <3>1. i \in 1 .. Len(a)
      BY <2>1, <1>9, <1>1
    <3>2. QED
      BY <3>1, <2>1, <1>9, <1>2 DEF Recalls
  <2>2. CASE j = Len(a) + 1
    BY <2>2, <1>2, <1>8
  <2>3. QED
    BY <2>1, <2>2, <1>1, <1>2
<1>10. ASSUME NEW i \in 1 .. Len(b), i > Limit[l.of]
       PROVE  b[i] - b[i - Limit[l.of]] >= Width[l.of]
  <2> DEFINE m == i - Limit[l.of]
  <2>1. CASE i \in 1 .. Len(a)
    <3>1. m \in 1 .. Len(a)
      BY <2>1, <1>10, <1>1
    <3>2. a[i] - a[m] >= Width[l.of]
      BY <2>1, <1>10 DEF Bounded
    <3>3. QED
      BY <3>1, <3>2, <2>1, <1>2
  <2>2. CASE i = Len(a) + 1
    <3>1. m \in 1 .. Len(a) - Len(w) /\ m \in 1 .. Len(a)
      BY <2>2, <1>10, <1>1
    <3>2. t - a[m] >= Width[l.of]
      BY <3>1 DEF Recalls
    <3>3. b[i] = t /\ b[m] = a[m]
      BY <3>1, <2>2, <1>2
    <3>4. QED
      BY <3>2, <3>3
  <2>3. QED
    BY <2>1, <2>2, <1>1, <1>2
<1>11. Recalls(l, b, v, t) /\ Bounded(l, b)
  BY <1>5, <1>6, <1>7, <1>8, <1>9, <1>10 DEF Recalls, Bounded
<1>12. QED
  BY <1>11 DEF b, v

\* Waiting.
LEMMA Waited ==
  ASSUME NEW l \in Limiter, NEW a \in Seq(Times), NEW w \in Seq(Times),
         NEW t \in Times, NEW u \in Times, t <= u, Recalls(l, a, w, t)
  PROVE  Recalls(l, a, w, u)
<1>1. t \in Nat /\ u \in Nat /\ Width[l.of] \in Nat /\ Len(a) \in Nat /\ Len(w) \in Nat
  BY DispatchAssumption DEF Times, Limiter, Gate
<1>2. \A i \in 1 .. Len(a) : a[i] \in Nat
  BY DispatchAssumption DEF Times
<1>3. Len(w) <= Len(a) /\ 1 .. Len(a) - Len(w) \subseteq 1 .. Len(a)
  BY <1>1 DEF Recalls
<1>4. \A i \in 1 .. Len(a) - Len(w) : u - a[i] >= Width[l.of]
  BY <1>1, <1>2, <1>3 DEF Recalls
<1>5. \A i \in 1 .. Len(a) : a[i] <= u
  BY <1>1, <1>2 DEF Recalls
<1>6. QED
  BY <1>4, <1>5 DEF Recalls
-----------------------------------------------------------------------------
\* What a step does to a limiter: time may pass, it forgets, it admits a request
\* that it may admit, or it starts again with the server.
Steady(l) == /\ window'[l] = window[l] /\ admitted'[l] = admitted[l]
             /\ now' \in Times /\ now <= now'
Forgets(l) == window'[l] = Recent(l) /\ admitted'[l] = admitted[l] /\ now' = now
Records(l) == /\ Admits(l)
              /\ window'[l] = Append(Recent(l), now)
              /\ admitted'[l] = Append(admitted[l], now)
              /\ now' = now
Cleared(l) == window'[l] = <<>> /\ admitted'[l] = <<>> /\ now' = now

\* A step leaves a limiter alone, lets it forget, lets it record, or clears it.
LEMMA LimiterStep ==
  ASSUME TypeOK, [Next]_vars, NEW l \in Limiter
  PROVE  Steady(l) \/ Forgets(l) \/ Records(l) \/ Cleared(l)
<1>1. /\ window \in [Limiter -> Seq(Times)] /\ admitted \in [Limiter -> Seq(Times)]
      /\ now \in Times
  BY DEF TypeOK, Times
<1>2. ASSUME UNCHANGED <<window, admitted, now>> PROVE Steady(l)
  BY <1>1, <1>2, DispatchAssumption DEF Steady, Times
<1>3. ASSUME NEW m, m \in Limiter, Admits(m), Remember(m), now' = now
      PROVE  Steady(l) \/ Records(l)
  <2>1. CASE l = m
    BY <2>1, <1>3, <1>1 DEF Remember, Records
  <2>2. CASE l # m
    BY <2>2, <1>3, <1>1, DispatchAssumption DEF Remember, Steady, Times
  <2>3. QED
    BY <2>1, <2>2
<1>4. ASSUME NEW m, m \in Limiter, window' = [window EXCEPT ![m] = Recent(m)],
             UNCHANGED <<admitted, now>>
      PROVE  Steady(l) \/ Forgets(l)
  <2>1. CASE l = m
    BY <2>1, <1>4, <1>1 DEF Forgets
  <2>2. CASE l # m
    BY <2>2, <1>4, <1>1, DispatchAssumption DEF Steady, Times
  <2>3. QED
    BY <2>1, <2>2
<1>5. ASSUME NEW q \in Principal, NEW kind \in Kind PROVE LimiterOf(kind, q) \in Limiter
  BY DEF LimiterOf, Limiter, Kind
<1>6. LimiterOf("quick", Everyone) \in Limiter
      /\ \A q : LimiterOf("quick", q) = LimiterOf("quick", Everyone)
  BY DEF LimiterOf, Limiter
<1>7. ASSUME NEW h \in Handler, NEW q \in Principal, Quick(h, q) \/ Assist(h, q)
      PROVE  Steady(l)
  BY <1>7, <1>2 DEF Quick, Assist
<1>8. ASSUME NEW h \in Handler, NEW q \in Principal, NEW f \in Fingerprint, Remediate(h, q, f)
      PROVE  Steady(l) \/ Records(l)
  BY <1>8, <1>3, <1>5 DEF Remediate, Kind
<1>9. ASSUME NEW h \in Handler, NEW q \in Principal, NEW n \in Targets, Bulk(h, q, n)
      PROVE  Steady(l) \/ Records(l)
  BY <1>9, <1>3, <1>5 DEF Bulk, Kind
<1>10. ASSUME NEW h \in Handler, QuickAdmitted(h) PROVE Steady(l) \/ Records(l)
  BY <1>10, <1>3, <1>6 DEF QuickAdmitted
<1>11. ASSUME NEW h \in Handler, QuickLimited(h) PROVE Steady(l) \/ Forgets(l)
  BY <1>11, <1>4, <1>6 DEF QuickLimited
<1>12. ASSUME NEW h \in Handler,
              \/ NotReady(h) \/ Plan(h) \/ Started(h) \/ Unreported(h)
              \/ Failed(h) \/ Collate(h)
       PROVE  Steady(l)
  BY <1>12, <1>2 DEF NotReady, Plan, Started, Unreported, Failed, Collate
<1>13. ASSUME NEW q \in Principal, BulkLimited(q) PROVE Steady(l) \/ Forgets(l)
  BY <1>13, <1>4, <1>5 DEF BulkLimited, Kind
<1>14. ASSUME Tick PROVE Steady(l)
  BY <1>14, <1>1, DispatchAssumption DEF Tick, Steady, Times
<1>15. ASSUME Restart PROVE Cleared(l)
  BY <1>15 DEF Restart, Cleared
<1>16. CASE UNCHANGED vars
  BY <1>16, <1>2 DEF vars
<1>17. QED
  BY <1>7, <1>8, <1>9, <1>10, <1>11, <1>12, <1>13, <1>14, <1>15, <1>16 DEF Next

\* The limiters stay as described.
LEMMA LimitingStep ==
  ASSUME TypeOK, [Next]_vars, NEW l \in Limiter, Limiting(l)
  PROVE  /\ Limiting(l)'
         /\ window'[l] \in Seq(Times) /\ admitted'[l] \in Seq(Times)
<1>1. /\ window[l] \in Seq(Times) /\ admitted[l] \in Seq(Times) /\ now \in Times
  BY DEF TypeOK, Times
<1>2. Recent(l) \in Seq(Times) /\ Recalls(l, admitted[l], Recent(l), now)
  BY Trimmed
<1>3. /\ Limiting(l)' <=> Recalls(l, admitted'[l], window'[l], now') /\ Bounded(l, admitted'[l])
      /\ Recalls(l, admitted[l], window[l], now) /\ Bounded(l, admitted[l])
  BY DEF Limiting, Recalls, Bounded
<1>4. CASE Steady(l)
  BY <1>4, <1>1, <1>3, Waited DEF Steady
<1>5. CASE Forgets(l)
  BY <1>5, <1>1, <1>2, <1>3 DEF Forgets
<1>6. CASE Records(l)
  <2>1. Len(Recent(l)) < Limit[l.of]
    BY <1>6 DEF Records, Admits
  <2>2. /\ Recalls(l, Append(admitted[l], now), Append(Recent(l), now), now)
        /\ Bounded(l, Append(admitted[l], now))
    BY <2>1, <1>1, <1>2, <1>3, Admitted
  <2>3. Append(Recent(l), now) \in Seq(Times) /\ Append(admitted[l], now) \in Seq(Times)
    BY <1>1, <1>2
  <2>4. QED
    BY <2>2, <2>3, <1>3, <1>6 DEF Records
<1>7. CASE Cleared(l)
  <2>1. <<>> \in Seq(Times) /\ Len(<<>>) = 0
    OBVIOUS
  <2>2. Recalls(l, <<>>, <<>>, now') /\ Bounded(l, <<>>)
    BY DEF Recalls, Bounded
  <2>3. QED
    BY <2>1, <2>2, <1>3, <1>7 DEF Cleared
<1>8. QED
  BY <1>4, <1>5, <1>6, <1>7, LimiterStep
-----------------------------------------------------------------------------
(***************************************************************************)
(* Types.                                                                  *)
(***************************************************************************)
Leases == [principal : Principal, runner : Fingerprint \cup 1 .. MaxRuns, exp : Nat]

\* A handler that takes up a request, or answers it, is well formed.
LEMMA HandlerServed ==
  ASSUME HandlerType, NEW h \in Handler, NEW kind \in Kind, NEW q \in Principal,
         NEW task \in Fingerprint \cup {None}, NEW pc \in {"probing", "checking", "calling"},
         NEW calls \in Nat, kind = "remediation" => task \in Fingerprint /\ pc # "probing",
         Serve(h, kind, q, task, pc, calls) \/ Answer(h)
  PROVE  HandlerType'
<1> DEFINE r == [kind |-> kind, who |-> q, task |-> task, pc |-> pc, calls |-> calls, ok |-> {}]
<1>1. r \in Request /\ r.kind = kind /\ r.task = task /\ r.pc = pc
  BY DEF Request
<1> HIDE DEF r
<1>2. CASE handler' = [handler EXCEPT ![h] = r]
  BY <1>1, <1>2 DEF HandlerType
<1>3. CASE Answer(h)
  BY <1>3 DEF HandlerType, Answer
<1>4. QED
  BY <1>2, <1>3 DEF r, Serve

\* So is one that answers.
LEMMA HandlerAnswered ==
  ASSUME HandlerType, NEW h \in Handler, Answer(h)
  PROVE  HandlerType'
BY DEF HandlerType, Answer

\* The room left is what is missing to the quota.
LEMMA RoomType ==
  ASSUME GateType, NEW q \in Principal
  PROVE  /\ Room(q) \in Nat /\ IsFiniteSet(Held(q)) /\ Cardinality(Held(q)) \in Nat
         /\ Cardinality(Held(q)) <= MaxRunners[q] =>
              Cardinality(Held(q)) + Room(q) = MaxRunners[q]
<1>1. IsFiniteSet(Held(q)) /\ Cardinality(Held(q)) \in Nat
  BY FS_Subset, FS_CardinalityType DEF GateType, Held
<1>2. MaxRunners[q] \in Nat
  BY DispatchAssumption
<1>3. QED
  BY <1>1, <1>2 DEF Room

\* The runs a handler has been told of are numbers of runs.
LEMMA AcceptedType ==
  ASSUME HandlerType, NEW h \in Handler, handler[h] # None
  PROVE  /\ handler[h] \in Request
         /\ handler[h].ok \subseteq 1 .. MaxRuns
         /\ IsFiniteSet(handler[h].ok) /\ Cardinality(handler[h].ok) \in Nat
<1>1. handler[h] \in Request
  BY DEF HandlerType
<1>2. handler[h].ok \subseteq 1 .. MaxRuns
  BY <1>1 DEF Request
<1>3. IsFiniteSet(1 .. MaxRuns)
  BY FS_Interval, DispatchAssumption
<1>4. QED
  BY <1>1, <1>2, <1>3, FS_Subset, FS_CardinalityType

\* What collation does to the leases: renewals, which replace each lease by one of
\* the same principal and runner, or new leases within the room there is.
LEMMA LeasedEffect ==
  ASSUME GateType, NEW h \in Handler, At(h, "calling"), Leased(handler[h])
  PROVE  \/ \E f : /\ f = [x \in leases |-> f[x]]
                   /\ leases' = {f[x] : x \in leases}
                   /\ \A x \in leases : /\ f[x] \in Leases
                                        /\ f[x].principal = x.principal
                                        /\ f[x].runner = x.runner
         \/ \E granted \in SUBSET handler[h].ok : \E f :
              /\ Cardinality(granted) <= Room(handler[h].who)
              /\ f = [id \in granted |-> f[id]]
              /\ leases' = leases \cup {f[id] : id \in granted}
              /\ \A id \in granted : /\ f[id] \in Leases
                                     /\ f[id].principal = handler[h].who
                                     /\ f[id].runner \in {id, handler[h].task}
<1> DEFINE r == handler[h]
<1>1. HandlerType /\ r # None /\ now + LeaseTime \in Nat
  BY DispatchAssumption DEF GateType, TypeOK, HandlerType, At
<1>2. r \in Request /\ r.ok \subseteq 1 .. MaxRuns /\ r.who \in Principal
      /\ (r.kind = "remediation" => r.task \in Fingerprint)
  BY <1>1, AcceptedType DEF HandlerType, Request
<1>3. leases \subseteq Leases
  BY DEF GateType, TypeOK, Leases
<1> HIDE DEF r
<1>4. ASSUME NEW v \in Fingerprint \cup 1 .. MaxRuns
      PROVE  /\ VirtualLease(r.who, v) \in Leases
             /\ VirtualLease(r.who, v).principal = r.who /\ VirtualLease(r.who, v).runner = v
  BY <1>1, <1>2 DEF VirtualLease, Leases
<1>5. CASE r.kind = "remediation" /\ \E x \in leases : x.runner = r.task
  <2> DEFINE f == [x \in leases |-> IF x.runner = r.task /\ x.principal = r.who /\ r.ok # {}
                                    THEN VirtualLease(r.who, r.task) ELSE x]
  <2>1. leases' = {f[x] : x \in leases}
    BY <1>5 DEF Leased, r
  <2>2. ASSUME NEW x \in leases
        PROVE  f[x] \in Leases /\ f[x].principal = x.principal /\ f[x].runner = x.runner
    BY <1>2, <1>3, <1>4, <1>5
  <2> HIDE DEF f
  <2>3. f = [x \in leases |-> f[x]]
    BY DEF f
  <2>4. QED
    BY <2>1, <2>2, <2>3
<1>6. CASE ~(r.kind = "remediation" /\ \E x \in leases : x.runner = r.task)
  <2>1. PICK granted \in SUBSET r.ok :
          /\ Cardinality(granted) = Lower(Cardinality(r.ok), Room(r.who))
          /\ leases' = leases \cup
               {VirtualLease(r.who, IF r.kind = "remediation" THEN r.task ELSE id) :
                  id \in granted}
    BY <1>6 DEF Leased, r
  <2> DEFINE f == [id \in granted |->
                     VirtualLease(r.who, IF r.kind = "remediation" THEN r.task ELSE id)]
  <2>2. leases' = leases \cup {f[id] : id \in granted}
    BY <2>1
  <2>3. ASSUME NEW id \in granted
        PROVE  f[id] \in Leases /\ f[id].principal = r.who /\ f[id].runner \in {id, r.task}
    <3> DEFINE v == IF r.kind = "remediation" THEN r.task ELSE id
    <3>1. v \in Fingerprint \cup 1 .. MaxRuns /\ v \in {id, r.task}
      BY <1>2
    <3>2. f[id] = VirtualLease(r.who, v)
      OBVIOUS
    <3> HIDE DEF v, f
    <3>3. QED
      BY <3>1, <3>2, <1>4
  <2>4. Cardinality(granted) <= Room(r.who)
    <3>1. Cardinality(r.ok) \in Nat /\ Room(r.who) \in Nat
      BY <1>1, <1>2, AcceptedType, RoomType DEF r
    <3>2. QED
      BY <3>1, <2>1 DEF Lower
  <2> HIDE DEF f
  <2>5. f = [id \in granted |-> f[id]]
    BY DEF f
  <2>6. QED
    BY <2>2, <2>3, <2>4, <2>5 DEF r
<1>7. QED
  BY <1>5, <1>6

\* No step of the gate leaves a handler ill formed.
LEMMA HandlerStep ==
  ASSUME GateType, Next
  PROVE  HandlerType'
<1>0. HandlerType
  BY DEF GateType
<1>1. ASSUME NEW h \in Handler, NEW q \in Principal, Quick(h, q) \/ Assist(h, q)
      PROVE  HandlerType'
  <2>1. PICK kind \in {"quick", "assistant"} : Serve(h, kind, q, None, "probing", 0)
    BY <1>1 DEF Quick, Assist
  <2>2. QED
    BY <2>1, <1>0, HandlerServed DEF Kind
<1>2. ASSUME NEW h \in Handler, NEW q \in Principal, NEW f \in Fingerprint, Remediate(h, q, f)
      PROVE  HandlerType'
  BY <1>2, <1>0, HandlerServed DEF Remediate, Kind
<1>3. ASSUME NEW h \in Handler, NEW q \in Principal, NEW n \in Targets, Bulk(h, q, n)
      PROVE  HandlerType'
  <2>1. Truncated(q, n) \in Nat
    BY DispatchAssumption, RoomType DEF Truncated, Lower
  <2>2. Serve(h, "bulk", q, None, "calling", Truncated(q, n)) \/ Answer(h)
    BY <1>3 DEF Bulk
  <2>3. QED
    BY <2>1, <2>2, <1>0, HandlerServed DEF Kind
<1>4. ASSUME NEW h \in Handler, NotReady(h) \/ QuickLimited(h) \/ Collate(h)
      PROVE  HandlerType'
  BY <1>4, <1>0, HandlerAnswered DEF NotReady, QuickLimited, Collate
<1>5. ASSUME NEW h \in Handler, QuickAdmitted(h) PROVE HandlerType'
  <2>1. handler[h] # None
    BY <1>5 DEF QuickAdmitted, At
  <2>2. /\ handler[h].kind \in Kind /\ handler[h].who \in Principal
    BY <2>1, <1>0, AcceptedType DEF Request
  <2>3. CASE Answer(h)
    BY <2>3, <1>0, HandlerAnswered
  <2>4. CASE Serve(h, handler[h].kind, handler[h].who, None, "calling", 1)
    <3>1. handler[h].kind # "remediation"
      BY <1>5, <2>1, <1>0 DEF QuickAdmitted, At, HandlerType
    <3>2. QED
      BY <2>2, <2>4, <3>1, <1>0, HandlerServed
  <2>5. QED
    BY <1>5, <2>3, <2>4 DEF QuickAdmitted
<1>6. ASSUME NEW h \in Handler, Plan(h) PROVE HandlerType'
  <2>1. handler[h] # None
    BY <1>6 DEF Plan, At
  <2>2. /\ handler[h].kind \in Kind /\ handler[h].who \in Principal
        /\ handler[h].task \in Fingerprint \cup {None}
        /\ handler[h].kind = "remediation" => handler[h].task \in Fingerprint
    BY <2>1, <1>0, AcceptedType DEF Request, HandlerType
  <2>3. \/ Serve(h, handler[h].kind, handler[h].who, handler[h].task, "calling", 1)
        \/ Answer(h)
    BY <1>6 DEF Plan
  <2>4. QED
    BY <2>2, <2>3, <1>0, HandlerServed
<1>7. ASSUME NEW h \in Handler, Started(h) \/ Unreported(h) \/ Failed(h)
      PROVE  HandlerType'
  <2> DEFINE r == handler[h]
  <2>1. r # None /\ r \in Request /\ r.calls > 0
    BY <1>7, <1>0, AcceptedType DEF Started, Unreported, Failed, Calling, At
  <2>2. PICK s : /\ handler' = [handler EXCEPT ![h] = s]
                 /\ s \in Request /\ s.kind = r.kind /\ s.task = r.task /\ s.pc = r.pc
    <3>1. CASE Started(h)
      <4>1. Len(runs) + 1 \in 1 .. MaxRuns
        BY <3>1, DispatchAssumption DEF Started, GateType, TypeOK
      <4>2. handler' = [handler EXCEPT ![h] = [r EXCEPT !.calls = @ - 1,
                                                        !.ok = @ \cup {Len(runs) + 1}]]
        BY <3>1, <1>0 DEF Started, HandlerType
      <4>3. [r EXCEPT !.calls = @ - 1, !.ok = @ \cup {Len(runs) + 1}] \in Request
        <5>1. r.ok \cup {Len(runs) + 1} \in SUBSET (1 .. MaxRuns) /\ r.calls - 1 \in Nat
          BY <2>1, <4>1 DEF Request
        <5>2. QED
          BY <2>1, <5>1 DEF Request
      <4>4. QED
        BY <4>2, <4>3, <2>1 DEF Request
    <3>2. CASE Unreported(h) \/ Failed(h)
      <4>1. handler' = [handler EXCEPT ![h] = [r EXCEPT !.calls = @ - 1]]
        BY <3>2, <1>0 DEF Unreported, Failed, HandlerType
      <4>2. [r EXCEPT !.calls = @ - 1] \in Request
        BY <2>1 DEF Request
      <4>3. QED
        BY <4>1, <4>2, <2>1 DEF Request
    <3>3. QED
      BY <1>7, <3>1, <3>2
  <2>3. QED
    BY <2>1, <2>2, <1>0 DEF HandlerType
<1>8. ASSUME Restart PROVE HandlerType'
  BY <1>8 DEF Restart, HandlerType
<1>9. ASSUME Tick \/ \E q \in Principal : BulkLimited(q) PROVE HandlerType'
  BY <1>9, <1>0 DEF Tick, BulkLimited, HandlerType
<1>10. QED
  BY <1>1, <1>2, <1>3, <1>4, <1>5, <1>6, <1>7, <1>8, <1>9 DEF Next
\* The steps that do not collate and let no time pass keep the leases and the spend.
LEMMA Others ==
  ASSUME Next, ~(\E h \in Handler : Collate(h)), ~Tick
  PROVE  UNCHANGED <<leases, spend, now>>
<1>1. ASSUME NEW h \in Handler, NEW q \in Principal,
             \/ Quick(h, q) \/ Assist(h, q)
             \/ \E f \in Fingerprint : Remediate(h, q, f)
             \/ \E n \in Targets : Bulk(h, q, n)
      PROVE  UNCHANGED <<leases, spend, now>>
  BY <1>1 DEF Quick, Assist, Remediate, Bulk
<1>2. ASSUME NEW h \in Handler,
             \/ NotReady(h) \/ QuickAdmitted(h) \/ QuickLimited(h) \/ Plan(h)
             \/ Started(h) \/ Unreported(h) \/ Failed(h)
      PROVE  UNCHANGED <<leases, spend, now>>
  BY <1>2 DEF NotReady, QuickAdmitted, QuickLimited, Plan, Started, Unreported, Failed
<1>3. ASSUME (\E q \in Principal : BulkLimited(q)) \/ Restart
      PROVE  UNCHANGED <<leases, spend, now>>
  BY <1>3 DEF BulkLimited, Restart
<1>4. QED
  BY <1>1, <1>2, <1>3 DEF Next

\* Runs are only ever added, and no others than requests under way.
RunsKept == runs' = runs
RunAdded(h) == /\ Calling(h) /\ Len(runs) < MaxRuns
               /\ runs' = Append(runs, Run(h))

\* Runs are only added, one at a time, by a call of some handler.
LEMMA RunsStep ==
  ASSUME Next
  PROVE  RunsKept \/ \E h \in Handler : RunAdded(h) /\ (Started(h) \/ Unreported(h))
<1>1. ASSUME NEW h \in Handler, NEW q \in Principal,
             \/ Quick(h, q) \/ Assist(h, q)
             \/ \E f \in Fingerprint : Remediate(h, q, f)
             \/ \E n \in Targets : Bulk(h, q, n)
      PROVE  RunsKept
  BY <1>1 DEF Quick, Assist, Remediate, Bulk, RunsKept
<1>2. ASSUME NEW h \in Handler,
             \/ NotReady(h) \/ QuickAdmitted(h) \/ QuickLimited(h) \/ Plan(h)
             \/ Failed(h) \/ Collate(h)
      PROVE  RunsKept
  BY <1>2 DEF NotReady, QuickAdmitted, QuickLimited, Plan, Failed, Collate, RunsKept
<1>3. ASSUME (\E q \in Principal : BulkLimited(q)) \/ Tick \/ Restart
      PROVE  RunsKept
  BY <1>3 DEF BulkLimited, Tick, Restart, RunsKept
<1>4. ASSUME NEW h \in Handler, Started(h) \/ Unreported(h)
      PROVE  RunAdded(h)
  BY <1>4 DEF Started, Unreported, RunAdded
<1>5. QED
  BY <1>1, <1>2, <1>3, <1>4 DEF Next

\* Types and limiters together are inductive: a limiter's trimmed window is a
\* window because times are remembered in order.
GateInv == GateType /\ \A l \in Limiter : Limiting(l)

\* Every step keeps the invariant.
LEMMA GateStep ==
  ASSUME GateInv, [Next]_vars
  PROVE  GateInv'
<1>1. GateType /\ TypeOK /\ HandlerType /\ IsFiniteSet(leases) /\ leases \subseteq Leases
  BY DEF GateInv, GateType, TypeOK, Leases
<1>2. CASE UNCHANGED vars
  BY <1>2 DEF vars, GateInv, GateType, TypeOK, HandlerType, Request, Limiting, Recalls, Bounded
<1>3. CASE Next
  <2>1. \A l \in Limiter : /\ Limiting(l)'
                            /\ window'[l] \in Seq(Times) /\ admitted'[l] \in Seq(Times)
    BY <1>1, LimitingStep DEF GateInv
  <2>2. HandlerType'
    BY <1>1, <1>3, HandlerStep
  <2>3. /\ window' \in [Limiter -> Seq(0 .. MaxTime)]
        /\ admitted' \in [Limiter -> Seq(0 .. MaxTime)]
    <3>1. /\ window' = [l \in Limiter |-> window'[l]]
          /\ admitted' = [l \in Limiter |-> admitted'[l]]
      <4>1. ASSUME NEW l, Remember(l)
            PROVE  /\ window' = [m \in Limiter |-> window'[m]]
                   /\ admitted' = [m \in Limiter |-> admitted'[m]]
        BY <4>1, <1>1 DEF Remember, TypeOK
      <4>2. ASSUME UNCHANGED admitted,
                   (UNCHANGED window) \/ \E l : window' = [window EXCEPT ![l] = Recent(l)]
            PROVE  /\ window' = [m \in Limiter |-> window'[m]]
                   /\ admitted' = [m \in Limiter |-> admitted'[m]]
        BY <4>2, <1>1 DEF TypeOK
      <4>3. ASSUME NEW h \in Handler, NEW q \in Principal,
                   \/ Quick(h, q) \/ Assist(h, q)
                   \/ \E f \in Fingerprint : Remediate(h, q, f)
                   \/ \E n \in Targets : Bulk(h, q, n)
            PROVE  /\ window' = [m \in Limiter |-> window'[m]]
                   /\ admitted' = [m \in Limiter |-> admitted'[m]]
        BY <4>1, <4>2, <4>3 DEF Quick, Assist, Remediate, Bulk
      <4>4. ASSUME NEW h \in Handler,
                   \/ NotReady(h) \/ QuickAdmitted(h) \/ QuickLimited(h) \/ Plan(h)
                   \/ Started(h) \/ Unreported(h) \/ Failed(h) \/ Collate(h)
            PROVE  /\ window' = [m \in Limiter |-> window'[m]]
                   /\ admitted' = [m \in Limiter |-> admitted'[m]]
        BY <4>1, <4>2, <4>4
           DEF NotReady, QuickAdmitted, QuickLimited, Plan, Started, Unreported, Failed, Collate
      <4>5. ASSUME (\E q \in Principal : BulkLimited(q)) \/ Tick
            PROVE  /\ window' = [m \in Limiter |-> window'[m]]
                   /\ admitted' = [m \in Limiter |-> admitted'[m]]
        BY <4>2, <4>5 DEF BulkLimited, Tick
      <4>6. CASE Restart
        BY <4>6 DEF Restart
      <4>7. QED
        BY <1>3, <4>3, <4>4, <4>5, <4>6 DEF Next
    <3>2. QED
      BY <2>1, <3>1 DEF Times
  <2>4. leases' \subseteq Leases /\ IsFiniteSet(leases') /\ spend' \in [Principal -> Nat]
        /\ now' \in 0 .. MaxTime
    <3>1. spend \in [Principal -> Nat] /\ now \in 0 .. MaxTime
      BY <1>1 DEF TypeOK
    <3>2. CASE Tick
      <4>1. leases' \subseteq leases
        BY <3>2 DEF Tick
      <4>2. QED
        BY <1>1, <3>1, <3>2, <4>1, FS_Subset, DispatchAssumption DEF Tick
    <3>3. ASSUME NEW h \in Handler, Collate(h)
          PROVE  /\ leases' \subseteq Leases /\ IsFiniteSet(leases')
                 /\ spend' \in [Principal -> Nat] /\ now' = now
      <4>1. At(h, "calling") /\ Leased(handler[h])
            /\ spend' = [spend EXCEPT ![handler[h].who] = @ + Cardinality(handler[h].ok)]
            /\ now' = now
        BY <3>3 DEF Collate
      <4>2. handler[h].who \in Principal /\ IsFiniteSet(handler[h].ok)
            /\ Cardinality(handler[h].ok) \in Nat
        BY <4>1, <1>1, AcceptedType DEF At, Request
      <4>3. spend' \in [Principal -> Nat]
        BY <4>1, <4>2, <3>1
      <4>4. ASSUME NEW f, f = [x \in leases |-> f[x]], leases' = {f[x] : x \in leases},
                   \A x \in leases : f[x] \in Leases
            PROVE  leases' \subseteq Leases /\ IsFiniteSet(leases')
        BY <4>4, <1>1, ImageBound
      <4>5. ASSUME NEW granted \in SUBSET handler[h].ok, NEW f,
                   f = [id \in granted |-> f[id]],
                   leases' = leases \cup {f[id] : id \in granted},
                   \A id \in granted : f[id] \in Leases
            PROVE  leases' \subseteq Leases /\ IsFiniteSet(leases')
        <5>1. IsFiniteSet(granted)
          BY <4>2, FS_Subset
        <5>2. IsFiniteSet({f[id] : id \in granted})
          BY <5>1, <4>5, ImageBound
        <5>3. QED
          BY <5>2, <4>5, <1>1, FS_Union
      <4>6. QED
        BY <4>1, <4>3, <4>4, <4>5, <1>1, LeasedEffect
    <3>4. QED
      BY <1>1, <1>3, <3>1, <3>2, <3>3, Others
  <2>5. /\ runs' \in Seq([who : Principal, task : Fingerprint \cup {None}])
        /\ Len(runs') <= MaxRuns
    <3>1. ASSUME NEW h \in Handler, RunAdded(h)
          PROVE  /\ runs' \in Seq([who : Principal, task : Fingerprint \cup {None}])
                 /\ Len(runs') <= MaxRuns
      <4>1. Run(h) \in [who : Principal, task : Fingerprint \cup {None}]
        BY <3>1, <1>1, AcceptedType DEF RunAdded, Calling, At, Run, Request
      <4>2. QED
        BY <4>1, <3>1, <1>1, DispatchAssumption DEF RunAdded, TypeOK
    <3>2. QED
      BY <3>1, <1>1, <1>3, RunsStep DEF RunsKept, TypeOK
  <2>6. restarts' \in 0 .. MaxRestarts
    <3>1. restarts \in 0 .. MaxRestarts
      BY <1>1 DEF TypeOK
    <3>2. CASE Restart
      BY <3>1, <3>2, DispatchAssumption DEF Restart
    <3>3. ASSUME NEW h \in Handler, NEW q \in Principal,
                 \/ Quick(h, q) \/ Assist(h, q)
                 \/ \E f \in Fingerprint : Remediate(h, q, f)
                 \/ \E n \in Targets : Bulk(h, q, n)
          PROVE  restarts' = restarts
      BY <3>3 DEF Quick, Assist, Remediate, Bulk
    <3>4. ASSUME NEW h \in Handler,
                 \/ NotReady(h) \/ QuickAdmitted(h) \/ QuickLimited(h) \/ Plan(h)
                 \/ Started(h) \/ Unreported(h) \/ Failed(h) \/ Collate(h)
          PROVE  restarts' = restarts
      BY <3>4 DEF NotReady, QuickAdmitted, QuickLimited, Plan, Started, Unreported, Failed, Collate
    <3>5. ASSUME (\E q \in Principal : BulkLimited(q)) \/ Tick PROVE restarts' = restarts
      BY <3>5 DEF BulkLimited, Tick
    <3>6. QED
      BY <1>3, <3>1, <3>2, <3>3, <3>4, <3>5 DEF Next
  <2>7. QED
    BY <2>1, <2>2, <2>3, <2>4, <2>5, <2>6
       DEF GateInv, GateType, TypeOK, HandlerType, Leases, Request
<1>4. QED
  BY <1>2, <1>3

\* The gate starts in it.
LEMMA GateInit ==
  ASSUME Init
  PROVE  GateInv
<1>1. TypeOK
  BY DispatchAssumption DEF Init, TypeOK
<1>2. HandlerType /\ IsFiniteSet(leases)
  BY FS_EmptySet DEF Init, HandlerType
<1>3. ASSUME NEW l \in Limiter PROVE Limiting(l)
  BY DEF Init, Limiting, Recalls, Bounded
<1>4. QED
  BY <1>1, <1>2, <1>3 DEF GateInv, GateType

\* So it always holds.
LEMMA GateInvariant == Spec => []GateInv
BY GateInit, GateStep, PTL DEF Spec

\* The dispatch routes keep requests, limiters, leases and runs well formed.
THEOREM TypeCorrect == Spec => []TypeOK
<1>1. GateInv => TypeOK
  BY DEF GateInv, GateType
<1>2. QED
  BY <1>1, GateInvariant, PTL

\* No interleaving of requests makes a limiter admit more than its limit in any
\* stretch of time as long as its window.
THEOREM RateBounded == Spec => []RateBound
<1>1. GateInv => RateBound
  <2> SUFFICES ASSUME GateInv, NEW l \in Limiter, NEW i \in DOMAIN admitted[l],
                      i > Limit[l.of]
               PROVE  admitted[l][i] - admitted[l][i - Limit[l.of]] >= Width[l.of]
    BY DEF RateBound
  <2>1. admitted[l] \in Seq(Times) /\ Bounded(l, admitted[l])
    BY DEF GateInv, GateType, TypeOK, Times, Limiting
  <2>2. i \in 1 .. Len(admitted[l])
    BY <2>1
  <2>3. QED
    BY <2>1, <2>2 DEF Bounded
<1>2. QED
  BY <1>1, GateInvariant, PTL
-----------------------------------------------------------------------------
(***************************************************************************)
(* The quota of leases.                                                    *)
(***************************************************************************)
LEMMA QuotaStep ==
  ASSUME GateInv, LeaseQuota, [Next]_vars
  PROVE  LeaseQuota'
<1>1. GateType /\ HandlerType /\ IsFiniteSet(leases)
  BY DEF GateInv, GateType
<1>2. SUFFICES ASSUME NEW q \in Principal PROVE Cardinality(Held(q)') <= MaxRunners[q]
  BY DEF LeaseQuota, Held
<1>3. /\ IsFiniteSet(Held(q)) /\ Cardinality(Held(q)) \in Nat /\ MaxRunners[q] \in Nat
      /\ Cardinality(Held(q)) <= MaxRunners[q]
      /\ Room(q) \in Nat /\ Cardinality(Held(q)) + Room(q) = MaxRunners[q]
  BY <1>1, RoomType, DispatchAssumption DEF LeaseQuota
<1>4. CASE UNCHANGED leases
  BY <1>3, <1>4 DEF Held
<1>5. CASE Tick
  <2>1. Held(q)' \subseteq Held(q)
    BY <1>5 DEF Tick, Held
  <2>2. Cardinality(Held(q)') <= Cardinality(Held(q)) /\ Cardinality(Held(q)') \in Nat
    BY <2>1, <1>3, FS_Subset, FS_CardinalityType
  <2>3. QED
    BY <2>2, <1>3
<1>6. ASSUME NEW h \in Handler, Collate(h) PROVE Cardinality(Held(q)') <= MaxRunners[q]
  <2>1. At(h, "calling") /\ Leased(handler[h])
    BY <1>6 DEF Collate
  <2>2. IsFiniteSet(handler[h].ok)
    BY <2>1, <1>1, AcceptedType DEF At
  <2>3. ASSUME NEW f, f = [x \in leases |-> f[x]], leases' = {f[x] : x \in leases},
               \A x \in leases : /\ f[x] \in Leases
                                /\ f[x].principal = x.principal
                                /\ f[x].runner = x.runner
        PROVE  Cardinality(Held(q)') <= MaxRunners[q]
    <3> DEFINE g == [x \in Held(q) |-> f[x]]
    <3>1. Held(q)' = {g[x] : x \in Held(q)}
      <4>1. \A x \in leases : f[x].principal = x.principal
        BY <2>3
      <4>2. Held(q)' = {f[x] : x \in Held(q)}
        BY <4>1, <2>3 DEF Held
      <4>3. QED
        BY <4>2
    <3>2. g = [x \in Held(q) |-> g[x]]
      OBVIOUS
    <3> HIDE DEF g
    <3>3. Cardinality(Held(q)') <= Cardinality(Held(q)) /\ Cardinality(Held(q)') \in Nat
      BY <3>1, <3>2, <1>3, ImageBound, FS_CardinalityType
    <3>4. QED
      BY <3>3, <1>3
  <2>4. ASSUME NEW granted \in SUBSET handler[h].ok, NEW f,
               Cardinality(granted) <= Room(handler[h].who),
               f = [id \in granted |-> f[id]],
               leases' = leases \cup {f[id] : id \in granted},
               \A id \in granted : /\ f[id] \in Leases
                                  /\ f[id].principal = handler[h].who
                                  /\ f[id].runner \in {id, handler[h].task}
        PROVE  Cardinality(Held(q)') <= MaxRunners[q]
    <3> DEFINE new == {f[id] : id \in granted}
    <3>1. IsFiniteSet(granted) /\ Cardinality(granted) \in Nat
      BY <2>2, FS_Subset, FS_CardinalityType
    <3>2. IsFiniteSet(new) /\ Cardinality(new) <= Cardinality(granted) /\ Cardinality(new) \in Nat
      BY <3>1, <2>4, ImageBound, FS_CardinalityType
    <3>3. CASE q = handler[h].who
      <4>1. Held(q)' = Held(q) \cup new
        BY <3>3, <2>4 DEF Held
      <4> HIDE DEF new
      <4>2. /\ Cardinality(Held(q) \cup new) =
                 Cardinality(Held(q)) + Cardinality(new) - Cardinality(Held(q) \cap new)
            /\ Cardinality(Held(q) \cap new) \in Nat
        BY <1>3, <3>2, FS_Union, FS_Intersection, FS_CardinalityType
      <4>3. Cardinality(new) <= Room(q)
        BY <3>1, <3>2, <3>3, <2>4, <1>3
      <4>4. QED
        BY <4>1, <4>2, <4>3, <3>2, <1>3
    <3>4. CASE q # handler[h].who
      <4>1. Held(q)' = Held(q)
        BY <3>4, <2>4 DEF Held
      <4>2. QED
        BY <4>1, <1>3
    <3>5. QED
      BY <3>3, <3>4
  <2>5. QED
    BY <2>1, <2>3, <2>4, <1>1, LeasedEffect
<1>7. QED
  BY <1>4, <1>5, <1>6, Others DEF vars

\* Although the quota is checked before gh is awaited and the leases are acquired
\* after it, nobody holds more runners than its quota allows.
THEOREM LeaseQuotaKept == Spec => []LeaseQuota
<1>1. Init => LeaseQuota
  <2> SUFFICES ASSUME Init, NEW q \in Principal PROVE Cardinality(Held(q)) <= MaxRunners[q]
    BY DEF LeaseQuota
  <2>1. Held(q) = {} /\ MaxRunners[q] \in Nat
    BY DispatchAssumption DEF Init, Held
  <2>2. QED
    BY <2>1, FS_EmptySet
<1>2. GateInv /\ LeaseQuota /\ [Next]_vars => LeaseQuota'
  BY QuotaStep
<1>3. QED
  BY <1>1, <1>2, GateInvariant, PTL DEF Spec

-----------------------------------------------------------------------------
(***************************************************************************)
(* What is charged and leased.  The runs handlers have been told of are    *)
(* runs of theirs, no run is told to two, and the spend is covered by runs *)
(* that no handler is still to charge.                                     *)
(***************************************************************************)
Told ==
  /\ \A h \in Handler : handler[h] # None =>
       \A i \in handler[h].ok : i \in DOMAIN runs /\ runs[i] = Run(h)
  /\ \A g, h \in Handler : g # h /\ handler[g] # None /\ handler[h] # None =>
       handler[g].ok \cap handler[h].ok = {}

Covers(C, q) ==
  /\ C \subseteq RunsOf(q)
  /\ spend[q] <= Cardinality(C)
  /\ \A h \in Handler : handler[h] # None => handler[h].ok \cap C = {}

Vouched ==
  \A x \in leases : \E i \in RunsOf(x.principal) : x.runner \in {i, runs[i].task}

Honest == Told /\ (\A q \in Principal : \E C : Covers(C, q)) /\ Vouched

\* A step leaves what handlers have been told as it was, or tells one of a new run.
ToldKept ==
  \A h \in Handler : handler'[h] # None =>
    \/ handler'[h].ok = {}
    \/ handler[h] # None /\ handler'[h].ok = handler[h].ok /\ Run(h)' = Run(h)

ToldNew(h) ==
  /\ handler[h] # None /\ runs' = Append(runs, Run(h))
  /\ handler'[h].ok = handler[h].ok \cup {Len(runs) + 1} /\ Run(h)' = Run(h)
  /\ \A g \in Handler \ {h} : handler'[g] = handler[g] /\ Run(g)' = Run(g)

\* What handlers have been told of changes only when a run of theirs starts.
LEMMA ToldStep ==
  ASSUME HandlerType, Next
  PROVE  ToldKept \/ \E h \in Handler : Started(h) /\ ToldNew(h)
<1>1. ASSUME NEW h \in Handler, NEW kind, NEW q, NEW task, NEW pc, NEW calls,
             Serve(h, kind, q, task, pc, calls)
      PROVE  ToldKept
  BY <1>1 DEF Serve, ToldKept, HandlerType, Run
<1>2. ASSUME NEW h \in Handler, Answer(h) PROVE ToldKept
  BY <1>2 DEF Answer, ToldKept, HandlerType, Run
<1>3. ASSUME UNCHANGED handler PROVE ToldKept
  BY <1>3 DEF ToldKept, Run
<1>4. ASSUME NEW h \in Handler, NEW q \in Principal,
             \/ Quick(h, q) \/ Assist(h, q)
             \/ \E f \in Fingerprint : Remediate(h, q, f)
             \/ \E n \in Targets : Bulk(h, q, n)
      PROVE  ToldKept
  BY <1>1, <1>2, <1>4 DEF Quick, Assist, Remediate, Bulk
<1>5. ASSUME NEW h \in Handler,
             NotReady(h) \/ QuickAdmitted(h) \/ QuickLimited(h) \/ Plan(h) \/ Collate(h)
      PROVE  ToldKept
  BY <1>1, <1>2, <1>5 DEF NotReady, QuickAdmitted, QuickLimited, Plan, Collate
<1>6. ASSUME NEW h \in Handler, Unreported(h) \/ Failed(h) PROVE ToldKept
  <2>1. /\ handler[h] # None /\ handler[h] \in Request
        /\ handler' = [handler EXCEPT ![h] = [handler[h] EXCEPT !.calls = @ - 1]]
    BY <1>6, AcceptedType DEF Unreported, Failed, Calling, At, HandlerType
  <2>2. QED
    BY <2>1 DEF ToldKept, HandlerType, Run, Request
<1>7. ASSUME NEW h \in Handler, Started(h) PROVE ToldNew(h)
  <2>1. /\ handler[h] # None /\ handler[h] \in Request
        /\ runs' = Append(runs, Run(h))
        /\ handler' = [handler EXCEPT ![h] = [handler[h] EXCEPT !.calls = @ - 1,
                                                 !.ok = @ \cup {Len(runs) + 1}]]
    BY <1>7, AcceptedType DEF Started, Calling, At, HandlerType
  <2>2. QED
    BY <2>1 DEF ToldNew, HandlerType, Run, Request
<1>8. ASSUME (\E q \in Principal : BulkLimited(q)) \/ Tick PROVE ToldKept
  BY <1>3, <1>8 DEF BulkLimited, Tick
<1>9. ASSUME Restart PROVE ToldKept
  BY <1>9 DEF Restart, ToldKept
<1>10. QED
  BY <1>4, <1>5, <1>6, <1>7, <1>8, <1>9 DEF Next

\* Runs keep their numbers.
LEMMA RunsGrow ==
  ASSUME TypeOK, Next
  PROVE  /\ DOMAIN runs = 1 .. Len(runs) /\ Len(runs) \in Nat
         /\ DOMAIN runs \subseteq DOMAIN runs'
         /\ \A i \in DOMAIN runs : runs'[i] = runs[i]
         /\ \A q : RunsOf(q) \subseteq RunsOf(q)'
<1>1. runs \in Seq([who : Principal, task : Fingerprint \cup {None}])
  BY DEF TypeOK
<1>2. DOMAIN runs = 1 .. Len(runs) /\ Len(runs) \in Nat
  BY <1>1
<1>3. DOMAIN runs \subseteq DOMAIN runs' /\ \A i \in DOMAIN runs : runs'[i] = runs[i]
  <2>1. CASE RunsKept
    BY <2>1 DEF RunsKept
  <2>2. ASSUME NEW e, runs' = Append(runs, e)
        PROVE  DOMAIN runs \subseteq DOMAIN runs' /\ \A i \in DOMAIN runs : runs'[i] = runs[i]
    BY <2>2, <1>1, <1>2
  <2>3. QED
    BY <2>1, <2>2, RunsStep DEF RunAdded
<1>4. QED
  BY <1>2, <1>3 DEF RunsOf

\* Nobody is told of the run of another, or of one that another was told of.
LEMMA ToldInvariant ==
  ASSUME TypeOK, HandlerType, Told, Next
  PROVE  Told'
<1>1. /\ DOMAIN runs = 1 .. Len(runs) /\ Len(runs) \in Nat
      /\ DOMAIN runs \subseteq DOMAIN runs'
      /\ \A i \in DOMAIN runs : runs'[i] = runs[i]
  BY RunsGrow
<1>2. CASE ToldKept
  BY <1>1, <1>2 DEF Told, ToldKept
<1>3. ASSUME NEW h \in Handler, ToldNew(h) PROVE Told'
  <2> DEFINE n == Len(runs) + 1
  <2>1. n \in DOMAIN runs' /\ runs'[n] = Run(h) /\ n \notin DOMAIN runs
    BY <1>1, <1>3 DEF ToldNew, TypeOK
  <2>2. ASSUME NEW g \in Handler, handler'[g] # None, NEW i \in handler'[g].ok
        PROVE  i \in DOMAIN runs' /\ runs'[i] = Run(g)'
    <3>1. CASE g # h
      BY <3>1, <2>2, <1>1, <1>3 DEF ToldNew, Told
    <3>2. CASE g = h /\ i = n
      BY <3>2, <2>1, <1>3 DEF ToldNew
    <3>3. CASE g = h /\ i # n
      BY <3>3, <2>2, <1>1, <1>3 DEF ToldNew, Told
    <3>4. QED
      BY <3>1, <3>2, <3>3
  <2>3. \A g \in Handler : handler[g] # None => n \notin handler[g].ok
    BY <2>1 DEF Told
  <2>4. ASSUME NEW g \in Handler, NEW k \in Handler, g # k,
               handler'[g] # None, handler'[k] # None
        PROVE  handler'[g].ok \cap handler'[k].ok = {}
    <3>1. CASE g = h
      BY <3>1, <2>3, <2>4, <1>3 DEF ToldNew, Told
    <3>2. CASE k = h
      BY <3>2, <2>3, <2>4, <1>3 DEF ToldNew, Told
    <3>3. CASE g # h /\ k # h
      BY <3>3, <2>4, <1>3 DEF ToldNew, Told
    <3>4. QED
      BY <3>1, <3>2, <3>3
  <2>5. QED
    BY <2>2, <2>4 DEF Told
<1>4. QED
  BY <1>2, <1>3, ToldStep

\* As long as nothing is charged, the same runs cover the spend.
LEMMA CoverKept ==
  ASSUME TypeOK, HandlerType, Told, Next, NEW q \in Principal, NEW C, Covers(C, q),
         spend'[q] <= Cardinality(C)
  PROVE  Covers(C, q)'
<1>1. /\ DOMAIN runs = 1 .. Len(runs) /\ Len(runs) \in Nat
      /\ RunsOf(q) \subseteq RunsOf(q)'
  BY RunsGrow
<1>2. C \subseteq DOMAIN runs /\ C \subseteq RunsOf(q)'
  BY <1>1 DEF Covers, RunsOf
<1>3. ASSUME NEW h \in Handler, handler'[h] # None PROVE handler'[h].ok \cap C = {}
  <2>1. CASE ToldKept
    BY <2>1, <1>3 DEF ToldKept, Covers
  <2>2. ASSUME NEW g \in Handler, ToldNew(g) PROVE handler'[h].ok \cap C = {}
    <3>1. Len(runs) + 1 \notin C
      BY <1>1, <1>2
    <3>2. CASE h = g
      BY <3>1, <3>2, <2>2 DEF ToldNew, Covers
    <3>3. CASE h # g
      BY <3>3, <2>2, <1>3 DEF ToldNew, Covers
    <3>4. QED
      BY <3>2, <3>3
  <2>3. QED
    BY <2>1, <2>2, ToldStep
<1>4. QED
  BY <1>2, <1>3 DEF Covers

\* Whatever is charged, some runs that nobody is still to charge cover it.
LEMMA CoverStep ==
  ASSUME GateInv, Told, Next, NEW q \in Principal, NEW C, Covers(C, q)
  PROVE  \E D : Covers(D, q)'
<1>1. TypeOK /\ HandlerType /\ spend \in [Principal -> Nat]
  BY DEF GateInv, GateType, TypeOK
<1>2. IsFiniteSet(C) /\ Cardinality(C) \in Nat
  <2>1. C \subseteq 1 .. Len(runs) /\ Len(runs) \in Nat
    BY <1>1, RunsGrow DEF Covers, RunsOf
  <2>2. IsFiniteSet(1 .. Len(runs))
    BY <2>1, FS_Interval
  <2>3. IsFiniteSet(C)
    BY <2>1, <2>2, FS_Subset
  <2>4. QED
    BY <2>3, FS_CardinalityType
<1>3. CASE spend'[q] <= Cardinality(C)
  BY <1>1, <1>3, CoverKept
<1>4. CASE Tick
  <2>1. spend'[q] = 0 \/ spend'[q] = spend[q]
    BY <1>1, <1>4 DEF Tick
  <2>2. QED
    BY <2>1, <1>2, <1>3 DEF Covers
<1>5. ASSUME NEW h \in Handler, Collate(h) PROVE \E D : Covers(D, q)'
  <2> DEFINE r == handler[h]
             D == C \cup r.ok
  <2>1. /\ r # None
        /\ spend' = [spend EXCEPT ![r.who] = @ + Cardinality(r.ok)]
        /\ handler' = [handler EXCEPT ![h] = None]
        /\ runs' = runs
    BY <1>5 DEF Collate, At, Answer
  <2>2. r.who \in Principal /\ IsFiniteSet(r.ok) /\ Cardinality(r.ok) \in Nat
    BY <2>1, <1>1, AcceptedType DEF Request
  <2>3. CASE q # r.who
    BY <2>1, <2>3, <1>1, <1>3 DEF Covers
  <2>4. CASE q = r.who
    <3>1. C \cap r.ok = {}
      BY <2>1 DEF Covers
    <3>2. Cardinality(D) = Cardinality(C) + Cardinality(r.ok)
      <4>1. Cardinality(D) = Cardinality(C) + Cardinality(r.ok) - Cardinality({})
        BY <3>1, <2>2, <1>2, FS_Union
      <4>2. QED
        BY <4>1, <2>2, <1>2, FS_EmptySet
    <3>3. spend'[q] <= Cardinality(D)
      <4>1. spend'[q] = spend[q] + Cardinality(r.ok) /\ spend[q] \in Nat
        BY <2>1, <2>4, <1>1
      <4>2. spend[q] <= Cardinality(C)
        BY DEF Covers
      <4> HIDE DEF D, r
      <4>3. QED
        BY <4>1, <4>2, <3>2, <1>2, <2>2
    <3>4. D \subseteq RunsOf(q)'
      <4>1. C \subseteq RunsOf(q)
        BY DEF Covers
      <4>2. ASSUME NEW i \in r.ok PROVE i \in RunsOf(q)
        <5>1. i \in DOMAIN runs /\ runs[i] = Run(h)
          BY <2>1 DEF Told
        <5>2. QED
          BY <5>1, <2>4 DEF RunsOf, Run
      <4>3. RunsOf(q)' = RunsOf(q)
        BY <2>1 DEF RunsOf
      <4>4. QED
        BY <4>1, <4>2, <4>3
    <3>5. ASSUME NEW g \in Handler, handler'[g] # None PROVE handler'[g].ok \cap D = {}
      <4>1. g # h /\ handler'[g] = handler[g]
        BY <3>5, <2>1, <1>1 DEF HandlerType
      <4>2. QED
        BY <4>1, <3>5, <2>1 DEF Covers, Told
    <3>6. QED
      BY <3>3, <3>4, <3>5 DEF Covers
  <2>5. QED
    BY <2>3, <2>4
<1>6. CASE spend' = spend
  BY <1>3, <1>6 DEF Covers
<1>7. QED
  BY <1>4, <1>5, <1>6, Others

\* Leases stay backed by runs of their holders.
LEMMA VouchedStep ==
  ASSUME GateInv, Told, Vouched, Next
  PROVE  Vouched'
<1>1. GateType /\ TypeOK /\ HandlerType
  BY DEF GateInv, GateType
<1>2. /\ DOMAIN runs \subseteq DOMAIN runs'
      /\ \A i \in DOMAIN runs : runs'[i] = runs[i]
      /\ \A q : RunsOf(q) \subseteq RunsOf(q)'
  BY <1>1, RunsGrow
<1>3. ASSUME NEW p, NEW v, \E i \in RunsOf(p) : v \in {i, runs[i].task}
      PROVE  \E i \in RunsOf(p)' : v \in {i, runs'[i].task}
  BY <1>2, <1>3 DEF RunsOf
<1>4. CASE leases' \subseteq leases
  BY <1>3, <1>4 DEF Vouched
<1>5. CASE Tick
  BY <1>4, <1>5 DEF Tick
<1>6. ASSUME NEW h \in Handler, Collate(h) PROVE Vouched'
  <2>1. At(h, "calling") /\ Leased(handler[h]) /\ handler[h] # None
    BY <1>6 DEF Collate, At
  <2>2. ASSUME NEW f, f = [x \in leases |-> f[x]], leases' = {f[x] : x \in leases},
               \A x \in leases : /\ f[x] \in Leases
                                /\ f[x].principal = x.principal
                                /\ f[x].runner = x.runner
        PROVE  Vouched'
    <3>1. ASSUME NEW x \in leases
          PROVE  \E i \in RunsOf(f[x].principal)' : f[x].runner \in {i, runs'[i].task}
      <4>1. \E i \in RunsOf(x.principal) : x.runner \in {i, runs[i].task}
        BY DEF Vouched
      <4>2. f[x].principal = x.principal /\ f[x].runner = x.runner
        BY <2>2
      <4>3. \E i \in RunsOf(x.principal)' : x.runner \in {i, runs'[i].task}
        BY <4>1, <1>3
      <4>4. QED
        BY <4>2, <4>3
    <3>2. QED
      BY <3>1, <2>2 DEF Vouched
  <2>3. ASSUME NEW granted \in SUBSET handler[h].ok, NEW f,
               Cardinality(granted) <= Room(handler[h].who),
               f = [id \in granted |-> f[id]],
               leases' = leases \cup {f[id] : id \in granted},
               \A id \in granted : /\ f[id] \in Leases
                                  /\ f[id].principal = handler[h].who
                                  /\ f[id].runner \in {id, handler[h].task}
        PROVE  Vouched'
    <3>1. ASSUME NEW id \in granted
          PROVE  \E i \in RunsOf(f[id].principal)' : f[id].runner \in {i, runs'[i].task}
      <4>1. id \in DOMAIN runs /\ runs[id].who = handler[h].who /\ runs[id].task = handler[h].task
        <5>1. id \in handler[h].ok
          BY <3>1
        <5>2. id \in DOMAIN runs /\ runs[id] = Run(h)
          BY <5>1, <2>1 DEF Told
        <5>3. QED
          BY <5>2 DEF Run
      <4>2. id \in RunsOf(f[id].principal) /\ f[id].runner \in {id, runs[id].task}
        BY <4>1, <2>3 DEF RunsOf
      <4>3. QED
        BY <4>2, <1>3
    <3>2. ASSUME NEW x \in leases
          PROVE  \E i \in RunsOf(x.principal)' : x.runner \in {i, runs'[i].task}
      BY <1>3 DEF Vouched
    <3>3. QED
      BY <3>1, <3>2, <2>3 DEF Vouched
  <2>4. QED
    BY <2>1, <2>2, <2>3, <1>1, LeasedEffect
<1>7. QED
  BY <1>4, <1>5, <1>6, Others

\* Nobody pays for a run or holds a lease that GitHub started no run for: replies
\* that are lost and leases that are refused err on the caller's side.
THEOREM NothingPhantom == Spec => []NoPhantom
<1>1. Init => Honest
  <2> SUFFICES ASSUME Init PROVE Honest
    OBVIOUS
  <2>1. Told /\ Vouched
    BY DEF Init, Told, Vouched
  <2>2. ASSUME NEW q \in Principal PROVE Covers({}, q)
    BY FS_EmptySet DEF Init, Covers
  <2>3. QED
    BY <2>1, <2>2 DEF Honest
<1>2. GateInv /\ Honest /\ [Next]_vars => Honest'
  <2> SUFFICES ASSUME GateInv, Honest, [Next]_vars PROVE Honest'
    OBVIOUS
  <2>1. CASE Next
    <3>1. Told' /\ Vouched'
      BY <2>1, ToldInvariant, VouchedStep DEF GateInv, GateType, Honest
    <3>2. ASSUME NEW q \in Principal PROVE \E D : Covers(D, q)'
      BY <2>1, CoverStep DEF Honest
    <3>3. QED
      BY <3>1, <3>2 DEF Honest
  <2>2. CASE UNCHANGED vars
    <3>1. /\ Told' /\ Vouched'
          /\ \A q \in Principal : \A C : Covers(C, q) => Covers(C, q)'
      BY <2>2 DEF vars, Honest, Told, Vouched, Covers, RunsOf, Run
    <3>2. QED
      BY <3>1 DEF Honest
  <2>3. QED
    BY <2>1, <2>2
<1>3. GateInv /\ Honest => NoPhantom
  <2> SUFFICES ASSUME GateInv, Honest, NEW q \in Principal
               PROVE  spend[q] <= Cardinality(RunsOf(q))
    BY DEF NoPhantom, Honest, Vouched
  <2>1. PICK C : C \subseteq RunsOf(q) /\ spend[q] <= Cardinality(C)
    BY DEF Honest, Covers
  <2>2. RunsOf(q) \subseteq 1 .. Len(runs) /\ Len(runs) \in Nat /\ spend[q] \in Nat
    BY DEF GateInv, GateType, TypeOK, RunsOf
  <2>3. IsFiniteSet(RunsOf(q)) /\ Cardinality(RunsOf(q)) \in Nat /\ Cardinality(C) \in Nat
        /\ Cardinality(C) <= Cardinality(RunsOf(q))
    <3>1. IsFiniteSet(RunsOf(q))
      <4>1. IsFiniteSet(1 .. Len(runs))
        BY <2>2, FS_Interval
      <4>2. QED
        BY <2>2, <4>1, FS_Subset
    <3>2. IsFiniteSet(C) /\ Cardinality(C) <= Cardinality(RunsOf(q))
      BY <2>1, <3>1, FS_Subset
    <3>3. QED
      BY <3>1, <3>2, FS_CardinalityType
  <2>4. QED
    BY <2>1, <2>2, <2>3
<1>4. QED
  BY <1>1, <1>2, <1>3, GateInvariant, PTL DEF Spec

-----------------------------------------------------------------------------
(***************************************************************************)
(* The daily budget.  A request that has passed the quota check may still  *)
(* charge one quota of runners: a principal's spend, with a quota for each *)
(* of its requests past the check, stays below its budget with a quota for *)
(* each handler, because a request passes only while the spend is below    *)
(* the budget.                                                             *)
(***************************************************************************)
Fits(r) ==
  /\ r.kind \in May[r.who]
  /\ r.pc # "calling" => r.ok = {}
  /\ r.kind # "assistant" /\ r.pc = "probing" => 1 <= MaxRunners[r.who]
  /\ r.kind # "assistant" /\ r.pc = "calling" =>
       r.calls + Cardinality(r.ok) <= MaxRunners[r.who]

Entitled == \A h \in Handler : handler[h] # None => Fits(handler[h])

Passed(q) == {h \in Handler : /\ handler[h] # None /\ handler[h].who = q
                              /\ handler[h].pc # "checking"}

Chargeable(q) ==
  Budget[q] > 0 /\ "assistant" \notin May[q] =>
    spend[q] + MaxRunners[q] * Cardinality(Passed(q))
      < Budget[q] + MaxRunners[q] * Cardinality(Handler)

\* The quota check leaves room for a runner, and no more than the quota.
LEMMA AllowedRoom ==
  ASSUME GateType, NEW q \in Principal
  PROVE  Room(q) <= MaxRunners[q] /\ (Allowed(q) => 1 <= MaxRunners[q])
<1>1. /\ Room(q) \in Nat /\ Cardinality(Held(q)) \in Nat /\ MaxRunners[q] \in Nat
  BY RoomType, DispatchAssumption
<1>2. Room(q) <= MaxRunners[q]
  BY <1>1 DEF Room
<1>3. QED
  BY <1>1, <1>2 DEF Allowed

\* One element more adds one at most.
LEMMA OneMore ==
  ASSUME NEW S, NEW x, IsFiniteSet(S)
  PROVE  /\ Cardinality(S \cup {x}) \in Nat
         /\ Cardinality(S \cup {x}) <= Cardinality(S) + 1
<1>1. /\ Cardinality(S) \in Nat
      /\ Cardinality(S \cup {x}) = IF x \in S THEN Cardinality(S) ELSE Cardinality(S) + 1
  BY FS_AddElement, FS_CardinalityType
<1>2. QED
  BY <1>1

\* A request that was taken up makes at most as many calls as its principal's quota.
LEMMA EntitledServed ==
  ASSUME HandlerType, Entitled, NEW h \in Handler, NEW kind, NEW q \in Principal, NEW task,
         NEW pc, NEW calls \in Nat, kind \in May[q],
         kind # "assistant" /\ pc = "probing" => 1 <= MaxRunners[q],
         kind # "assistant" /\ pc = "calling" => calls <= MaxRunners[q],
         Serve(h, kind, q, task, pc, calls) \/ Answer(h)
  PROVE  Entitled'
<1> DEFINE r == [kind |-> kind, who |-> q, task |-> task, pc |-> pc, calls |-> calls, ok |-> {}]
<1>1. Cardinality({}) = 0
  BY FS_EmptySet
<1>2. Fits(r)
  BY <1>1, DispatchAssumption DEF Fits
<1> HIDE DEF r
<1>3. ASSUME handler' = [handler EXCEPT ![h] = r], NEW g \in Handler, handler'[g] # None
      PROVE  Fits(handler'[g])
  BY <1>2, <1>3 DEF HandlerType, Entitled
<1>4. ASSUME Answer(h), NEW g \in Handler, handler'[g] # None
      PROVE  Fits(handler'[g])
  BY <1>4 DEF HandlerType, Entitled, Answer
<1>5. QED
  BY <1>3, <1>4 DEF Entitled, Fits, Serve, r

\* Only a request that has passed the check is asked of gh, for what its quota allows.
LEMMA EntitledStep ==
  ASSUME GateInv, Entitled, Next
  PROVE  Entitled'
<1>0. GateType /\ TypeOK /\ HandlerType
  BY DEF GateInv, GateType
<1>1. ASSUME NEW h \in Handler, NEW q \in Principal, Quick(h, q) PROVE Entitled'
  BY <1>1, <1>0, AllowedRoom, EntitledServed DEF Quick
<1>2. ASSUME NEW h \in Handler, NEW q \in Principal, Assist(h, q) PROVE Entitled'
  BY <1>2, <1>0, EntitledServed DEF Assist
<1>3. ASSUME NEW h \in Handler, NEW q \in Principal, NEW f \in Fingerprint, Remediate(h, q, f)
      PROVE  Entitled'
  BY <1>3, <1>0, EntitledServed DEF Remediate
<1>4. ASSUME NEW h \in Handler, NEW q \in Principal, NEW n \in Targets, Bulk(h, q, n)
      PROVE  Entitled'
  <2>1. Truncated(q, n) \in Nat /\ Truncated(q, n) <= MaxRunners[q]
    <3>1. n \in Nat /\ Room(q) \in Nat /\ Room(q) <= MaxRunners[q] /\ MaxRunners[q] \in Nat
      BY <1>0, RoomType, AllowedRoom, DispatchAssumption
    <3>2. QED
      BY <3>1 DEF Truncated, Lower
  <2>2. /\ Serve(h, "bulk", q, None, "calling", Truncated(q, n)) \/ Answer(h)
        /\ "bulk" \in May[q]
    BY <1>4 DEF Bulk
  <2>3. QED
    BY <2>1, <2>2, <1>0, EntitledServed
<1>5. ASSUME NEW h \in Handler, NotReady(h) \/ QuickLimited(h) \/ Collate(h) PROVE Entitled'
  <2>1. Answer(h)
    BY <1>5 DEF NotReady, QuickLimited, Collate
  <2>2. ASSUME NEW g \in Handler, handler'[g] # None PROVE Fits(handler'[g])
    BY <2>1, <2>2, <1>0 DEF Answer, HandlerType, Entitled
  <2>3. QED
    BY <2>2 DEF Entitled, Fits
<1>6. ASSUME NEW h \in Handler, QuickAdmitted(h) \/ Plan(h) PROVE Entitled'
  <2> DEFINE r == handler[h]
  <2>1. r # None /\ r.who \in Principal /\ Fits(r)
    BY <1>6, <1>0, AcceptedType DEF QuickAdmitted, Plan, At, Entitled, Request
  <2>2. r.kind # "assistant" => Answer(h) \/ 1 <= MaxRunners[r.who]
    BY <1>6, <2>1, <1>0, AllowedRoom DEF QuickAdmitted, Plan, At, Fits
  <2>3. \E task : Serve(h, r.kind, r.who, task, "calling", 1) \/ Answer(h)
    BY <1>6 DEF QuickAdmitted, Plan
  <2>4. r.kind \in May[r.who]
    BY <2>1 DEF Fits
  <2>5. CASE Answer(h)
    <3>1. ASSUME NEW g \in Handler, handler'[g] # None PROVE Fits(handler'[g])
      BY <2>5, <3>1, <1>0 DEF Answer, HandlerType, Entitled
    <3>2. QED
      BY <3>1 DEF Entitled, Fits
  <2>6. CASE ~Answer(h)
    <3> HIDE DEF r
    <3>1. QED
      BY <2>1, <2>2, <2>3, <2>4, <2>6, <1>0, EntitledServed
  <2>7. QED
    BY <2>5, <2>6
<1>7. ASSUME NEW h \in Handler, Started(h) \/ Unreported(h) \/ Failed(h) PROVE Entitled'
  <2> DEFINE r == handler[h]
  <2>1. /\ r # None /\ r \in Request /\ r.pc = "calling" /\ r.calls > 0 /\ Fits(r)
        /\ r.calls \in Nat /\ r.who \in Principal
        /\ IsFiniteSet(r.ok) /\ Cardinality(r.ok) \in Nat
    BY <1>7, <1>0, AcceptedType DEF Started, Unreported, Failed, Calling, At, Entitled, Request
  <2>2. PICK ok : /\ handler' = [handler EXCEPT ![h] = [r EXCEPT !.calls = @ - 1, !.ok = ok]]
                  /\ ok = r.ok \/ ok = r.ok \cup {Len(runs) + 1}
    <3>1. CASE Started(h)
      <4>1. handler' = [handler EXCEPT ![h] = [r EXCEPT !.calls = @ - 1,
                                                        !.ok = r.ok \cup {Len(runs) + 1}]]
        BY <3>1, <2>1, <1>0 DEF Started, HandlerType, Request
      <4>2. QED
        BY <4>1
    <3>2. CASE Unreported(h) \/ Failed(h)
      <4>1. handler' = [handler EXCEPT ![h] = [r EXCEPT !.calls = @ - 1, !.ok = r.ok]]
        BY <3>2, <2>1, <1>0 DEF Unreported, Failed, HandlerType, Request
      <4>2. QED
        BY <4>1
    <3>3. QED
      BY <1>7, <3>1, <3>2
  <2>3. Cardinality(ok) \in Nat /\ Cardinality(ok) <= Cardinality(r.ok) + 1
    <3>1. /\ Cardinality(r.ok \cup {Len(runs) + 1}) \in Nat
          /\ Cardinality(r.ok \cup {Len(runs) + 1}) <= Cardinality(r.ok) + 1
      BY <2>1, OneMore
    <3>2. CASE ok = r.ok
      <4> HIDE DEF r
      <4>1. QED
        BY <2>1, <3>2
    <3>3. CASE ok = r.ok \cup {Len(runs) + 1}
      BY <3>1, <3>3
    <3>4. QED
      BY <2>2, <3>2, <3>3
  <2> DEFINE s == [r EXCEPT !.calls = @ - 1, !.ok = ok]
  <2>4. /\ s.kind = r.kind /\ s.who = r.who /\ s.pc = r.pc
        /\ s.calls = r.calls - 1 /\ s.ok = ok
    BY <2>1 DEF Request
  <2>5. handler' = [handler EXCEPT ![h] = s]
    BY <2>2
  <2>6. MaxRunners[r.who] \in Nat
    BY <2>1, DispatchAssumption
  <2> HIDE DEF s, r
  <2>7. Fits(s)
    BY <2>1, <2>3, <2>4, <2>6 DEF Fits
  <2>8. ASSUME NEW g \in Handler, handler'[g] # None PROVE Fits(handler'[g])
    BY <2>5, <2>7, <2>8, <1>0 DEF HandlerType, Entitled
  <2>9. QED
    BY <2>8 DEF Entitled, Fits
<1>8. ASSUME Restart PROVE Entitled'
  BY <1>8 DEF Restart, Entitled
<1>9. ASSUME Tick \/ \E q \in Principal : BulkLimited(q) PROVE Entitled'
  <2>1. handler' = handler
    BY <1>9 DEF Tick, BulkLimited
  <2>2. QED
    BY <2>1 DEF Entitled, Fits
<1>10. QED
  BY <1>1, <1>2, <1>3, <1>4, <1>5, <1>6, <1>7, <1>8, <1>9 DEF Next

\* A request that was not past the check gets there only while the spend is below
\* the budget.
LEMMA PassedStep ==
  ASSUME GateInv, Next, NEW q \in Principal, "assistant" \notin May[q]
  PROVE  \/ Passed(q)' \subseteq Passed(q)
         \/ (Allowed(q) /\ spend' = spend)
<1>0. HandlerType
  BY DEF GateInv, GateType
<1>1. ASSUME NEW h \in Handler, NEW kind, NEW p, NEW task, NEW pc, NEW calls,
             Serve(h, kind, p, task, pc, calls),
             p # q \/ pc = "checking" \/ h \in Passed(q)
      PROVE  Passed(q)' \subseteq Passed(q)
  <2> DEFINE r == [kind |-> kind, who |-> p, task |-> task, pc |-> pc, calls |-> calls, ok |-> {}]
  <2>1. r.who = p /\ r.pc = pc /\ handler' = [handler EXCEPT ![h] = r]
    BY <1>1 DEF Serve
  <2> HIDE DEF r
  <2>2. QED
    BY <2>1, <1>0, <1>1 DEF Passed, HandlerType
<1>2. ASSUME NEW h \in Handler, Answer(h) PROVE Passed(q)' \subseteq Passed(q)
  BY <1>0, <1>2 DEF Answer, Passed, HandlerType
<1>3. ASSUME NEW h \in Handler, NEW p \in Principal, Quick(h, p)
      PROVE  Passed(q)' \subseteq Passed(q) \/ (Allowed(q) /\ spend' = spend)
  BY <1>3, <1>1 DEF Quick
<1>4. ASSUME NEW h \in Handler, NEW p \in Principal, Assist(h, p)
      PROVE  Passed(q)' \subseteq Passed(q)
  BY <1>4, <1>1 DEF Assist
<1>5. ASSUME NEW h \in Handler, NEW p \in Principal, NEW f \in Fingerprint, Remediate(h, p, f)
      PROVE  Passed(q)' \subseteq Passed(q)
  BY <1>5, <1>1 DEF Remediate
<1>6. ASSUME NEW h \in Handler, NEW p \in Principal, NEW n \in Targets, Bulk(h, p, n)
      PROVE  Passed(q)' \subseteq Passed(q) \/ (Allowed(q) /\ spend' = spend)
  BY <1>6, <1>1, <1>2 DEF Bulk
<1>7. ASSUME NEW h \in Handler, NotReady(h) \/ QuickLimited(h) \/ Collate(h)
      PROVE  Passed(q)' \subseteq Passed(q)
  BY <1>7, <1>2 DEF NotReady, QuickLimited, Collate
<1>8. ASSUME NEW h \in Handler, QuickAdmitted(h) PROVE Passed(q)' \subseteq Passed(q)
  <2>1. handler[h].who # q \/ h \in Passed(q)
    BY <1>8 DEF QuickAdmitted, At, Passed
  <2>2. QED
    BY <2>1, <1>8, <1>1, <1>2 DEF QuickAdmitted
<1>9. ASSUME NEW h \in Handler, Plan(h)
      PROVE  Passed(q)' \subseteq Passed(q) \/ (Allowed(q) /\ spend' = spend)
  BY <1>9, <1>1, <1>2 DEF Plan
<1>10. ASSUME NEW h \in Handler, Started(h) \/ Unreported(h) \/ Failed(h)
       PROVE  Passed(q)' \subseteq Passed(q)
  <2>1. handler[h] # None /\ handler[h] \in Request /\ handler[h].pc = "calling"
    BY <1>10, <1>0, AcceptedType DEF Started, Unreported, Failed, Calling, At
  <2>2. \E s : /\ handler' = [handler EXCEPT ![h] = s]
               /\ s.who = handler[h].who /\ s.pc = handler[h].pc
    <3>1. CASE Started(h)
      <4> DEFINE s == [handler[h] EXCEPT !.calls = @ - 1, !.ok = @ \cup {Len(runs) + 1}]
      <4>1. handler' = [handler EXCEPT ![h] = s]
        BY <3>1, <1>0 DEF Started, HandlerType
      <4>2. s.who = handler[h].who /\ s.pc = handler[h].pc
        BY <2>1 DEF Request
      <4>3. QED
        BY <4>1, <4>2
    <3>2. CASE Unreported(h) \/ Failed(h)
      <4> DEFINE s == [handler[h] EXCEPT !.calls = @ - 1]
      <4>1. handler' = [handler EXCEPT ![h] = s]
        BY <3>2, <1>0 DEF Unreported, Failed, HandlerType
      <4>2. s.who = handler[h].who /\ s.pc = handler[h].pc
        BY <2>1 DEF Request
      <4>3. QED
        BY <4>1, <4>2
    <3>3. QED
      BY <1>10, <3>1, <3>2
  <2>3. QED
    BY <2>1, <2>2, <1>0 DEF Passed, HandlerType
<1>11. ASSUME Restart PROVE Passed(q)' \subseteq Passed(q)
  BY <1>11 DEF Restart, Passed
<1>12. ASSUME Tick \/ \E p \in Principal : BulkLimited(p) PROVE Passed(q)' \subseteq Passed(q)
  BY <1>12 DEF Tick, BulkLimited, Passed
<1>13. QED
  BY <1>3, <1>4, <1>5, <1>6, <1>7, <1>8, <1>9, <1>10, <1>11, <1>12 DEF Next

\* The requests past the check are finitely many, one for each handler at most.
LEMMA PassedType ==
  ASSUME NEW q
  PROVE  /\ IsFiniteSet(Passed(q)) /\ Cardinality(Passed(q)) \in Nat
         /\ Cardinality(Handler) \in Nat /\ Cardinality(Passed(q)) <= Cardinality(Handler)
         /\ IsFiniteSet(Passed(q)') /\ Cardinality(Passed(q)') \in Nat
         /\ Cardinality(Passed(q)') <= Cardinality(Handler)
<1>1. Passed(q) \subseteq Handler /\ Passed(q)' \subseteq Handler
  BY DEF Passed
<1>2. QED
  BY <1>1, DispatchAssumption, FS_Subset, FS_CardinalityType

\* Products of naturals grow with their factors.
LEMMA Monotone ==
  ASSUME NEW m \in Nat, NEW a \in Nat, NEW b \in Nat, a <= b
  PROVE  m * a \in Nat /\ m * b \in Nat /\ m * a <= m * b
OBVIOUS

\* What may still be charged stays below the bound, whatever step is taken.
LEMMA ChargeStep ==
  ASSUME GateInv, Entitled, Next, NEW q \in Principal, Chargeable(q)
  PROVE  Chargeable(q)'
<1> SUFFICES ASSUME Budget[q] > 0, "assistant" \notin May[q]
             PROVE  spend'[q] + MaxRunners[q] * Cardinality(Passed(q)')
                      < Budget[q] + MaxRunners[q] * Cardinality(Handler)
  BY DEF Chargeable
<1> DEFINE M == MaxRunners[q]
           a == Cardinality(Passed(q))
           b == Cardinality(Passed(q)')
           n == Cardinality(Handler)
<1>1. M \in Nat /\ Budget[q] \in Nat /\ spend \in [Principal -> Nat] /\ spend[q] \in Nat
      /\ HandlerType
  BY DispatchAssumption DEF GateInv, GateType, TypeOK
<1>2. a \in Nat /\ b \in Nat /\ n \in Nat /\ a <= n /\ b <= n
  BY PassedType
<1>3. spend[q] + M * a < Budget[q] + M * n
  BY DEF Chargeable
<1>4. ASSUME NEW h \in Handler, Collate(h), handler[h].who = q
      PROVE  spend'[q] + M * b < Budget[q] + M * n
  <2> DEFINE c == Cardinality(handler[h].ok)
  <2>1. At(h, "calling") /\ handler[h].calls = 0 /\ Answer(h)
        /\ spend' = [spend EXCEPT ![q] = @ + c]
    BY <1>4 DEF Collate
  <2>2. handler[h] # None /\ handler[h].pc = "calling" /\ c \in Nat
    BY <2>1, <1>1, AcceptedType DEF At
  <2>3. c <= M
    <3>1. Fits(handler[h])
      BY <2>2 DEF Entitled
    <3>2. handler[h].kind # "assistant"
      BY <3>1, <1>4 DEF Fits
    <3> HIDE DEF M
    <3>3. QED
      BY <3>1, <3>2, <2>1, <2>2, <1>4 DEF Fits, M
  <2>4. Passed(q)' = Passed(q) \ {h} /\ h \in Passed(q)
    BY <2>1, <2>2, <1>1, <1>4 DEF Answer, Passed, HandlerType
  <2>5. b = a - 1
    BY <2>4, PassedType, FS_RemoveElement
  <2>6. spend'[q] = spend[q] + c
    BY <2>1, <1>1
  <2> HIDE DEF M, a, b, c, n
  <2>7. M * b + M = M * a /\ M * a \in Nat /\ M * b \in Nat /\ M * n \in Nat
    BY <1>1, <1>2, <2>5
  <2>8. QED
    BY <1>1, <1>3, <2>2, <2>3, <2>6, <2>7
<1>5. ASSUME ~\E h \in Handler : Collate(h) /\ handler[h].who = q
      PROVE  spend'[q] + M * b < Budget[q] + M * n
  <2>1. spend'[q] = spend[q] \/ spend'[q] = 0
    <3>1. ASSUME NEW h \in Handler, Collate(h) PROVE spend'[q] = spend[q]
      BY <3>1, <1>1, <1>5 DEF Collate
    <3>2. CASE Tick
      BY <3>2 DEF Tick
    <3>3. QED
      BY <3>1, <3>2, Others
  <2>2. CASE Passed(q)' \subseteq Passed(q)
    <3>1. b <= a
      BY <2>2, PassedType, FS_Subset
    <3> HIDE DEF M, a, b, n
    <3>2. M * b <= M * a /\ M * a \in Nat /\ M * b \in Nat /\ M * n \in Nat
      BY <3>1, <1>1, <1>2, Monotone
    <3>3. QED
      BY <3>2, <2>1, <1>1, <1>3
  <2>3. CASE Allowed(q) /\ spend' = spend
    <3>1. spend'[q] + 1 <= Budget[q]
      BY <2>3 DEF Allowed
    <3> HIDE DEF M, a, b, n
    <3>2. M * b <= M * n /\ M * b \in Nat /\ M * n \in Nat
      BY <1>1, <1>2, Monotone
    <3>3. spend'[q] \in Nat
      BY <2>3, <1>1
    <3>4. QED
      BY <3>1, <3>2, <3>3, <1>1
  <2>4. QED
    BY <2>2, <2>3, PassedStep
<1>6. QED
  BY <1>4, <1>5

\* Requests in flight together overrun the daily budget by one quota of runners
\* each at most, if the principal does not use the assistant, whose tool checks no
\* quota.
THEOREM OverrunIsBounded == Spec => []OverrunBounded
<1> DEFINE Inv == Entitled /\ \A q \in Principal : Chargeable(q)
<1>1. Init => Inv
  <2> SUFFICES ASSUME Init PROVE Inv
    OBVIOUS
  <2>1. Entitled
    BY DEF Init, Entitled
  <2>2. ASSUME NEW q \in Principal PROVE Chargeable(q)
    <3>1. Passed(q) = {} /\ Cardinality({}) = 0 /\ spend[q] = 0
      BY FS_EmptySet DEF Init, Passed
    <3>2. MaxRunners[q] \in Nat /\ Budget[q] \in Nat /\ Cardinality(Handler) \in Nat
      BY DispatchAssumption, PassedType
    <3>3. MaxRunners[q] * Cardinality(Handler) \in Nat /\ MaxRunners[q] * 0 = 0
      BY <3>2
    <3>4. QED
      BY <3>1, <3>2, <3>3 DEF Chargeable
  <2>3. QED
    BY <2>1, <2>2
<1>2. GateInv /\ Inv /\ [Next]_vars => Inv'
  <2>1. ASSUME GateInv, Inv, Next PROVE Inv'
    BY <2>1, EntitledStep, ChargeStep
  <2>2. ASSUME Inv, UNCHANGED vars PROVE Inv'
    BY <2>2 DEF vars, Entitled, Fits, Chargeable, Passed
  <2>3. QED
    BY <2>1, <2>2
<1>3. GateInv /\ Inv => OverrunBounded
  <2> SUFFICES ASSUME GateInv, Inv, NEW q \in Principal,
                      Budget[q] > 0, "assistant" \notin May[q]
               PROVE  spend[q] < Budget[q] + Cardinality(Handler) * MaxRunners[q]
    BY DEF OverrunBounded
  <2>1. MaxRunners[q] \in Nat /\ Budget[q] \in Nat /\ spend[q] \in Nat
        /\ Cardinality(Handler) \in Nat /\ Cardinality(Passed(q)) \in Nat
    BY DispatchAssumption, PassedType DEF GateInv, GateType, TypeOK
  <2>2. spend[q] + MaxRunners[q] * Cardinality(Passed(q))
          < Budget[q] + MaxRunners[q] * Cardinality(Handler)
    BY DEF Chargeable
  <2>3. /\ MaxRunners[q] * Cardinality(Passed(q)) \in Nat
        /\ MaxRunners[q] * Cardinality(Handler) = Cardinality(Handler) * MaxRunners[q]
        /\ MaxRunners[q] * Cardinality(Handler) \in Nat
    BY <2>1
  <2>4. QED
    BY <2>1, <2>2, <2>3
<1>4. QED
  BY <1>1, <1>2, <1>3, GateInvariant, PTL DEF Spec
=============================================================================

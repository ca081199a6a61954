---------------------------- MODULE WebViewsProofs ----------------------------
(***************************************************************************)
(* The parts of the browser that load, watch and converse: each has an     *)
(* inductive invariant of its own, for any set of machines, events, pages, *)
(* calls and messages, and any bound on what is out at once.  The parts    *)
(* share no state, so the invariants hold side by side.                    *)
(***************************************************************************)
EXTENDS MCWebViews, TLAPS, SequenceTheorems, FiniteSetTheorems,
        WellFoundedInduction

\* What RemoveAt leaves: one element less, and each that is left was there.
LEMMA Removed ==
  ASSUME NEW S, NEW s \in Seq(S), NEW n \in 1..Len(s)
  PROVE  /\ RemoveAt(s, n) \in Seq(S)
         /\ Len(RemoveAt(s, n)) = Len(s) - 1
         /\ \A k \in 1..Len(s)-1 :
              RemoveAt(s, n)[k] = IF k < n THEN s[k] ELSE s[k+1]
<1> DEFINE pre == SubSeq(s, 1, n-1)
           suf == SubSeq(s, n+1, Len(s))
<1>1. pre \in Seq(S) /\ Len(pre) = n - 1 /\ \A k \in 1..n-1 : pre[k] = s[k]
  OBVIOUS
<1>2. suf \in Seq(S) /\ Len(suf) = Len(s) - n /\ \A k \in 1..Len(s)-n : suf[k] = s[n+k]
  OBVIOUS
<1> HIDE DEF pre, suf
<1>3. RemoveAt(s, n) = pre \o suf
  BY DEF RemoveAt, pre, suf
<1>4. /\ pre \o suf \in Seq(S)
      /\ Len(pre \o suf) = Len(s) - 1
  BY <1>1, <1>2, ConcatProperties
<1>5. ASSUME NEW k \in 1..Len(s)-1
      PROVE  (pre \o suf)[k] = IF k < n THEN s[k] ELSE s[k+1]
  BY <1>1, <1>2, ConcatProperties
<1> QED BY <1>3, <1>4, <1>5

\* A sequence of one element.
LEMMA Single == ASSUME NEW S, NEW x \in S PROVE <<x>> \in Seq(S) /\ Len(<<x>>) = 1
OBVIOUS

\* A set of naturals that is not empty has a least element.
LEMMA Least ==
  ASSUME NEW S \in SUBSET Nat, S # {}
  PROVE  \E x \in S : \A y \in S : x <= y
<1> DEFINE Less == {p \in Nat \X Nat : p[1] < p[2]}
<1>3. IsWellFoundedOn(Less, Nat)
  BY NatLessThanWellFounded, Zenon DEF OpToRel
<1> HIDE DEF Less
<1>4. \E x \in S : \A y \in S : ~(<<y,x>> \in Less)
  BY <1>3, WFMin, S \subseteq Nat, Zenon
<1>5. \A x, y \in Nat : ~(<<y, x>> \in Less) => x <= y
  BY DEF Less
<1> QED BY <1>4, <1>5

(***************************************************************************)
(* Polled feeds of the classic page.                                       *)
(***************************************************************************)
\* A feed without a loading flag never shows one, so the answers that leave
\* the flag alone leave nothing shown.
FeedPages == {page.tab : page \in Pages} \cup {"elsewhere"}
FeedRequests == [version : 0..MaxVersion, by : Senders]
FeedShape ==
    /\ feed \in Feeds
    /\ served \in 0..MaxVersion
    /\ feedFlight \in Seq(FeedRequests) /\ Len(feedFlight) <= MaxFlight
    /\ feedShown \in 0..MaxVersion \cup {Nothing, Blank}
    /\ feedFaults \in 0..MaxFaults
FeedInv == FeedShape /\ (feedLoading => feed \in HasLoading) /\ FeedSpinnerHasRequest

\* A polled feed opens with its first request out.
LEMMA FeedStarts == FeedInit => FeedInv
<1> SUFFICES ASSUME FeedInit PROVE FeedInv
  OBVIOUS
<1> DEFINE first == Request("fetch")
<1>1. first \in FeedRequests /\ first.by = "fetch"
  BY FeedAssumption DEF FeedInit, Request, FeedRequests, Senders
<1>2. feed \in Polled => feedFlight = <<first>>
  BY DEF FeedInit
<1> HIDE DEF first
<1>5. ASSUME feedFlight \in Seq(FeedRequests), Len(feedFlight) <= MaxFlight,
             FeedSpinnerHasRequest
      PROVE  FeedInv
  <2>1. feedLoading => feed \in HasLoading
    BY Zenon DEF FeedInit
  <2>2. FeedShape
    BY <1>5, FeedAssumption DEF FeedInit, FeedShape
  <2> QED BY <1>5, <2>1, <2>2, Zenon DEF FeedInv
<1>3. CASE feed \in Polled
  <2>1. feedFlight = <<first>>
    BY <1>2, <1>3
  <2>2. feedFlight \in Seq(FeedRequests) /\ Len(feedFlight) = 1
    BY <1>1, <2>1, Single
  <2>3. feedFlight[1] = first
    BY <2>1
  <2>4. 1 \in 1..Len(feedFlight) /\ feedFlight[1].by # "fleet"
    BY <1>1, <2>2, <2>3
  <2>5. FeedSpinnerHasRequest
    BY <2>4 DEF FeedSpinnerHasRequest
  <2>6. Len(feedFlight) <= MaxFlight
    BY <2>2, FeedAssumption
  <2> QED BY <1>5, <2>2, <2>5, <2>6
<1>4. CASE feed \notin Polled
  <2>1. feedFlight = <<>>
    BY <1>4 DEF FeedInit
  <2>2. feedFlight \in Seq(FeedRequests) /\ Len(feedFlight) <= MaxFlight
    BY <2>1, FeedAssumption
  <2>3. ~feedLoading
    BY <1>4, Zenon DEF FeedInit
  <2>4. FeedSpinnerHasRequest
    BY <2>3, Zenon DEF FeedSpinnerHasRequest
  <2> QED BY <1>5, <2>2, <2>4
<1> QED BY <1>3, <1>4

\* A request that is sent, by the feed's own function or by another's, leaves
\* what is out and may raise the flag only when it is its own.
LEMMA FeedSent ==
  ASSUME FeedInv, NEW by \in Senders, Len(feedFlight) < MaxFlight,
         feedFlight' = Append(feedFlight, Request(by)),
         feedLoading' => feedLoading \/ (feed \in HasLoading /\ by # "fleet"),
         UNCHANGED <<feed, served, feedShown, feedFaults>>
  PROVE  FeedInv'
<1> DEFINE req == Request(by)
<1>1. req \in FeedRequests /\ req.by = by
  BY DEF Request, FeedInv, FeedShape, FeedRequests
<1> HIDE DEF req
<1>2. feedFlight \in Seq(FeedRequests) /\ feedFlight' = Append(feedFlight, req)
  BY DEF FeedInv, FeedShape, req
<1>3. /\ feedFlight' \in Seq(FeedRequests)
      /\ Len(feedFlight') = Len(feedFlight) + 1
      /\ feedFlight'[Len(feedFlight) + 1] = req
      /\ \A i \in 1..Len(feedFlight) : feedFlight'[i] = feedFlight[i]
  BY <1>1, <1>2
<1>4. FeedShape'
  BY <1>3, FeedAssumption DEF FeedInv, FeedShape
<1>5. CASE feedLoading
  <2>1. PICK i \in 1..Len(feedFlight) : feedFlight[i].by # "fleet"
    BY <1>5 DEF FeedInv, FeedSpinnerHasRequest
  <2>2. i \in 1..Len(feedFlight') /\ feedFlight'[i].by # "fleet"
    BY <1>2, <1>3, <2>1
  <2> QED BY <1>4, <1>5, <2>2 DEF FeedInv, FeedSpinnerHasRequest
<1>6. CASE ~feedLoading
  <2>1. feedLoading' => Len(feedFlight) + 1 \in 1..Len(feedFlight')
                          /\ feedFlight'[Len(feedFlight) + 1].by # "fleet"
    BY <1>1, <1>2, <1>3, <1>6
  <2> QED BY <1>4, <1>6, <2>1 DEF FeedInv, FeedSpinnerHasRequest
<1> QED BY <1>5, <1>6

\* A step that leaves the requests, the flag and what is shown alone.
LEMMA FeedRests ==
  ASSUME FeedInv, served' \in 0..MaxVersion,
         UNCHANGED <<feed, feedFlight, feedShown, feedLoading, feedFaults>>
  PROVE  FeedInv'
BY DEF FeedInv, FeedShape, FeedSpinnerHasRequest

\* A fetch or a save is waited for.
LEMMA FeedFetched ==
  ASSUME FeedInv, NEW by \in {"fetch", "save"}, Send(by) PROVE FeedInv'
<1>1. feedLoading' => feedLoading \/ feed \in HasLoading
  BY Zenon DEF Send
<1>2. /\ Len(feedFlight) < MaxFlight /\ feedFlight' = Append(feedFlight, Request(by))
      /\ UNCHANGED <<feed, served, feedShown, feedFaults>>
  BY DEF Send
<1>3. by \in Senders /\ by # "fleet"
  BY DEF Senders
<1> QED BY <1>1, <1>2, <1>3, FeedSent

\* No kind of answer leaves a spinner up without a request of its own.
LEMMA FeedAnswered ==
  ASSUME FeedInv, NEW n \in 1..Len(feedFlight), AnswerOf(n)
  PROVE  FeedInv'
<1>1. PICK kind \in Kinds, version \in 0..MaxVersion :
        \/ FleetAnswer(n, kind, version)
        \/ ListAnswer(n, kind, version)
        \/ QueueAnswer(n, kind, version)
        \/ MachinesAnswer(n, kind, version)
        \/ FileAnswer(n, kind, version)
        \/ PlanAnswer(n, kind, version)
        \/ AuditAnswer(n, kind, version)
        \/ DemandAnswer(n, kind, version)
        \/ RemediationAnswer(n, kind, version)
        \/ AssessmentsAnswer(n, kind, version)
        \/ FeaturesAnswer(n, kind, version)
  BY Zenon DEF AnswerOf
<1>2. Arrives(n, kind, version)
  BY <1>1 DEF FleetAnswer, ListAnswer, QueueAnswer, MachinesAnswer, FileAnswer,
     PlanAnswer, AuditAnswer, DemandAnswer, RemediationAnswer,
     AssessmentsAnswer, FeaturesAnswer
<1>3. feedShown' \in {version, Blank, feedShown}
  BY <1>1 DEF FleetAnswer, ListAnswer, QueueAnswer, MachinesAnswer, FileAnswer,
     PlanAnswer, AuditAnswer, DemandAnswer, RemediationAnswer,
     AssessmentsAnswer, FeaturesAnswer, Shown
<1>4. \/ feedLoading' = FALSE
      \/ feed \in {"fleet", "runnerAudit"} /\ feedLoading' = feedLoading
      \/ feedLoading' = (feedLoading /\ feedFlight[n].by = "fleet")
  BY <1>1, Zenon DEF FleetAnswer, ListAnswer, QueueAnswer, MachinesAnswer,
     FileAnswer, PlanAnswer, AuditAnswer, DemandAnswer, RemediationAnswer,
     AssessmentsAnswer, FeaturesAnswer
<1>5. feedLoading' => feedLoading /\ feedFlight[n].by = "fleet"
  BY <1>4 DEF FeedInv, HasLoading
<1>6. /\ feedFlight' \in Seq(FeedRequests) /\ Len(feedFlight') = Len(feedFlight) - 1
      /\ \A k \in 1..Len(feedFlight) - 1 :
           feedFlight'[k] = IF k < n THEN feedFlight[k] ELSE feedFlight[k + 1]
  BY <1>2, Removed DEF Arrives, FeedInv, FeedShape
<1>7. /\ feedFaults' \in 0..MaxFaults
      /\ UNCHANGED <<feed, served>>
  BY <1>2, FeedAssumption DEF Arrives, FeedInv, FeedShape
<1>8. Len(feedFlight') <= MaxFlight
  BY <1>6, FeedAssumption DEF FeedInv, FeedShape
<1>9. feedShown' \in 0..MaxVersion \cup {Nothing, Blank}
  BY <1>3 DEF FeedInv, FeedShape
<1>10. FeedShape'
  BY <1>6, <1>7, <1>8, <1>9 DEF FeedInv, FeedShape
<1>11. ASSUME feedLoading'
       PROVE  \E k \in 1..Len(feedFlight') : feedFlight'[k].by # "fleet"
  <2>1. PICK i \in 1..Len(feedFlight) : feedFlight[i].by # "fleet"
    BY <1>5, <1>11 DEF FeedInv, FeedSpinnerHasRequest
  <2>2. i # n
    BY <1>5, <1>11, <2>1
  <2>3. CASE i < n
    BY <1>6, <2>1, <2>3
  <2>4. CASE i > n
    <3>1. i - 1 \in 1..Len(feedFlight) - 1 /\ feedFlight'[i - 1] = feedFlight[i]
      BY <1>6, <2>1, <2>4
    <3> QED BY <1>6, <2>1, <3>1
  <2> QED BY <2>2, <2>3, <2>4
<1> QED BY <1>5, <1>7, <1>10, <1>11 DEF FeedInv, FeedSpinnerHasRequest

\* Whatever is polled, clicked, saved, hidden or answered, a spinner has its
\* request.
LEMMA FeedStays == FeedInv /\ [FeedNext]_feedVars => FeedInv'
<1> SUFFICES ASSUME FeedInv, [FeedNext]_feedVars PROVE FeedInv'
  OBVIOUS
<1>0. served \in 0..MaxVersion
  BY DEF FeedInv, FeedShape
<1>1. CASE FeedTick
  BY <1>1, FeedFetched DEF FeedTick, Fetch
<1>2. CASE FeedHide
  BY <1>0, <1>2, FeedRests DEF FeedHide
<1>3. CASE FeedShow
  <2>1. CASE feed \in Polled /\ Len(feedFlight) < MaxFlight
    <3>1. feedLoading' => feedLoading \/ feed \in HasLoading
      BY <1>3, <2>1, Zenon DEF FeedShow
    <3>2. /\ feedFlight' = Append(feedFlight, Request("fetch"))
          /\ UNCHANGED <<feed, served, feedShown, feedFaults>>
      BY <1>3, <2>1 DEF FeedShow
    <3>3. "fetch" \in Senders
      BY DEF Senders
    <3> QED BY <2>1, <3>1, <3>2, <3>3, FeedSent
  <2>2. CASE ~(feed \in Polled /\ Len(feedFlight) < MaxFlight)
    BY <1>0, <1>3, <2>2, FeedRests DEF FeedShow
  <2> QED BY <2>1, <2>2
<1>4. CASE FeedOpen
  <2>1. CASE Send("fetch")
    BY <2>1, FeedFetched
  <2>2. CASE UNCHANGED <<feed, served, feedFlight, feedShown, feedLoading,
                         feedError, feedVisible, feedFaults>>
    BY <1>0, <2>2, FeedRests
  <2> QED BY <1>4, <2>1, <2>2 DEF FeedOpen
<1>5. CASE FeedJump \/ FeedArrive
  BY <1>0, <1>5, FeedRests DEF FeedJump, FeedArrive, GoTo
<1>6. CASE FeedRefresh
  BY <1>6, FeedFetched DEF FeedRefresh, Fetch
<1>7. CASE FeedSave
  BY <1>7, FeedFetched DEF FeedSave
<1>8. CASE FleetCarries
  <2>1. "fleet" \in Senders
    BY DEF Senders
  <2> QED BY <1>8, <2>1, FeedSent DEF FleetCarries
<1>9. CASE ServerChanges
  <2>1. served' \in 0..MaxVersion
    BY <1>0, <1>9, FeedAssumption DEF ServerChanges
  <2> QED BY <1>9, <2>1, FeedRests DEF ServerChanges
<1>10. CASE FeedAnswer
  BY <1>10, FeedAnswered DEF FeedAnswer
<1>11. CASE UNCHANGED feedVars
  BY <1>0, <1>11, FeedRests DEF feedVars
<1> QED BY <1>1, <1>2, <1>3, <1>4, <1>5, <1>6, <1>7, <1>8, <1>9, <1>10, <1>11
        DEF FeedNext

\* What the types add.
FeedFlags == {feedLoading, feedError, feedVisible} \subseteq BOOLEAN

\* The flags are Booleans, and stay so.
LEMMA FeedFlagsStay ==
  /\ FeedInit => FeedFlags
  /\ FeedFlags /\ [FeedNext]_feedVars => FeedFlags'
<1> USE DEF FeedFlags
<1>1. FeedInit => FeedFlags
  <2>1. \/ (feed \in Polled \cap HasLoading) = TRUE
        \/ (feed \in Polled \cap HasLoading) = FALSE
    OBVIOUS
  <2> QED BY <2>1, Zenon DEF FeedInit
<1>2. ASSUME FeedFlags, FeedTick PROVE FeedFlags'
  BY <1>2, Zenon DEF FeedTick, Fetch, Send
<1>3. ASSUME FeedFlags, FeedHide PROVE FeedFlags'
  BY <1>3, Zenon DEF FeedHide
<1>4. ASSUME FeedFlags, FeedShow PROVE FeedFlags'
  BY <1>4, Zenon DEF FeedShow
<1>5. ASSUME FeedFlags, FeedOpen \/ FeedJump \/ FeedArrive PROVE FeedFlags'
  BY <1>5, Zenon DEF FeedOpen, FeedJump, FeedArrive, GoTo, Send
<1>6. ASSUME FeedFlags, ServerChanges PROVE FeedFlags'
  BY <1>6, Zenon DEF ServerChanges
<1>7. ASSUME FeedFlags, FeedAnswer PROVE FeedFlags'
  <2>1. PICK n \in 1..Len(feedFlight), kind \in Kinds, version \in 0..MaxVersion :
          \/ FleetAnswer(n, kind, version)
          \/ ListAnswer(n, kind, version)
          \/ QueueAnswer(n, kind, version)
          \/ MachinesAnswer(n, kind, version)
          \/ FileAnswer(n, kind, version)
          \/ PlanAnswer(n, kind, version)
          \/ AuditAnswer(n, kind, version)
          \/ DemandAnswer(n, kind, version)
          \/ RemediationAnswer(n, kind, version)
          \/ AssessmentsAnswer(n, kind, version)
          \/ FeaturesAnswer(n, kind, version)
    BY <1>7, Zenon DEF FeedAnswer, AnswerOf
  <2>2. CASE FleetAnswer(n, kind, version)
    BY <1>7, <2>2, Zenon DEF FleetAnswer, Arrives
  <2>3. CASE ListAnswer(n, kind, version)
    BY <1>7, <2>3, Zenon DEF ListAnswer, Arrives
  <2>4. CASE QueueAnswer(n, kind, version)
    BY <1>7, <2>4, Zenon DEF QueueAnswer, Arrives
  <2>5. CASE MachinesAnswer(n, kind, version)
    BY <1>7, <2>5, Zenon DEF MachinesAnswer, Arrives
  <2>6. CASE FileAnswer(n, kind, version)
    BY <1>7, <2>6, Zenon DEF FileAnswer, Arrives
  <2>7. CASE PlanAnswer(n, kind, version)
    BY <1>7, <2>7, Zenon DEF PlanAnswer, Arrives
  <2>8. CASE AuditAnswer(n, kind, version)
    BY <1>7, <2>8, Zenon DEF AuditAnswer, Arrives
  <2>9. CASE DemandAnswer(n, kind, version)
    BY <1>7, <2>9, Zenon DEF DemandAnswer, Arrives
  <2>10. CASE RemediationAnswer(n, kind, version)
    BY <1>7, <2>10, Zenon DEF RemediationAnswer, Arrives
  <2>11. CASE AssessmentsAnswer(n, kind, version)
    BY <1>7, <2>11, Zenon DEF AssessmentsAnswer, Arrives
  <2>12. CASE FeaturesAnswer(n, kind, version)
    BY <1>7, <2>12, Zenon DEF FeaturesAnswer, Arrives
  <2> QED BY <2>1, <2>2, <2>3, <2>4, <2>5, <2>6, <2>7, <2>8, <2>9,
     <2>10, <2>11, <2>12
<1>8. ASSUME FeedFlags, FeedRefresh \/ FeedSave PROVE FeedFlags'
  BY <1>8, Zenon DEF FeedRefresh, FeedSave, Fetch, Send
<1>9. ASSUME FeedFlags, FleetCarries PROVE FeedFlags'
  BY <1>9, Zenon DEF FleetCarries
<1>10. ASSUME FeedFlags, UNCHANGED feedVars PROVE FeedFlags'
  BY <1>10, Zenon DEF feedVars
<1> QED BY <1>1, <1>2, <1>3, <1>4, <1>5, <1>6, <1>7, <1>8, <1>9, <1>10
        DEF FeedNext

\* The page on show is one of the shell's.
FeedPlaced == feedTab \in FeedPages

\* A click, an alert and the URL lead to one of them, or elsewhere.
LEMMA FeedPlacedStays ==
  /\ FeedInit => FeedPlaced
  /\ FeedPlaced /\ [FeedNext]_feedVars => FeedPlaced'
<1>1. \A tab : Opened(tab) \in FeedPages
  BY Zenon DEF Opened, FeedPages
<1>2. FeedInit => FeedPlaced
  BY <1>1, Zenon DEF FeedInit, FeedPlaced
<1>3. ASSUME FeedPlaced, FeedOpen \/ FeedJump \/ FeedArrive PROVE FeedPlaced'
  BY <1>1, <1>3, Zenon DEF FeedOpen, FeedJump, FeedArrive, GoTo, FeedPlaced
<1>4. ASSUME FeedNext PROVE UNCHANGED feedTab \/ FeedOpen \/ FeedJump \/ FeedArrive
  <2>1. ASSUME NEW i, NEW kind, NEW version, Arrives(i, kind, version)
        PROVE  UNCHANGED feedTab
    BY <2>1, Zenon DEF Arrives
  <2>2. ASSUME NEW i, AnswerOf(i) PROVE \E kind, version : Arrives(i, kind, version)
    BY <2>2, Zenon DEF AnswerOf, FleetAnswer, ListAnswer, QueueAnswer,
       MachinesAnswer, FileAnswer, PlanAnswer, AuditAnswer, DemandAnswer,
       RemediationAnswer, AssessmentsAnswer, FeaturesAnswer
  <2>3. FeedAnswer => UNCHANGED feedTab
    BY <2>1, <2>2, Zenon DEF FeedAnswer
  <2>4. FeedTick \/ FeedRefresh \/ FeedSave => UNCHANGED feedTab
    BY Zenon DEF FeedTick, FeedRefresh, FeedSave, Fetch
  <2>5. FeedHide \/ FeedShow \/ FleetCarries \/ ServerChanges => UNCHANGED feedTab
    BY Zenon DEF FeedHide, FeedShow, FleetCarries, ServerChanges
  <2> QED BY <1>4, <2>3, <2>4, <2>5, Zenon DEF FeedNext
<1>5. ASSUME FeedPlaced, UNCHANGED feedTab PROVE FeedPlaced'
  BY <1>5, Zenon DEF FeedPlaced, FeedPages
<1> QED BY <1>2, <1>3, <1>4, <1>5, Zenon DEF feedVars

(***************************************************************************)
(* Fleet event feed.                                                       *)
(***************************************************************************)
\* The elements of a set above a bound, and the greatest element of a finite
\* set of naturals.
Above(S, e) == {f \in S : f > e}

\* A set of naturals below a bound has a greatest element.
LEMMA Greatest ==
  ASSUME NEW n \in Nat, NEW S \in SUBSET (0..n), S # {}
  PROVE  \E x \in S : \A y \in S : y <= x
<1> DEFINE T == {n - x : x \in S}
<1>0. \A x \in S : n - x \in Nat
  OBVIOUS
<1>1. T \in SUBSET Nat /\ T # {}
  BY <1>0
<1>2. PICK t \in T : \A u \in T : t <= u
  BY <1>1, Least
<1>3. PICK x \in S : t = n - x
  OBVIOUS
<1>4. \A y \in S : n - x <= n - y
  BY <1>2, <1>3
<1>5. \A y \in S : y <= x
  <2> SUFFICES ASSUME NEW y \in S PROVE y <= x
    OBVIOUS
  <2>1. x \in 0..n /\ y \in 0..n /\ n - x <= n - y
    BY <1>4
  <2> QED BY <2>1
<1> QED BY <1>5

\* What is above an element of such a set is finite, and counted.
LEMMA AboveFinite ==
  ASSUME NEW n \in Nat, NEW S \in SUBSET (0..n), NEW e
  PROVE  /\ IsFiniteSet(S) /\ Cardinality(S) \in Nat
         /\ IsFiniteSet(Above(S, e)) /\ Cardinality(Above(S, e)) \in Nat
<1>1. IsFiniteSet(0..n)
  BY FS_Interval
<1>2. IsFiniteSet(S)
  BY <1>1, FS_Subset
<1>3. IsFiniteSet(Above(S, e))
  BY <1>2, FS_Subset DEF Above
<1> QED BY <1>2, <1>3, FS_CardinalityType

\* A set that has m elements keeps m of them: those above the greatest one it
\* drops are m, and are kept.
LEMMA NewestFull ==
  ASSUME NEW n \in Nat, NEW S \in SUBSET (0..n), NEW m \in Nat, Cardinality(S) >= m
  PROVE  Cardinality(Newest(S, m)) >= m
<1> DEFINE N == Newest(S, m)
<1>1. N \subseteq S /\ N \in SUBSET (0..n)
  BY DEF Newest
<1>2. Cardinality(N) \in Nat
  BY <1>1, AboveFinite
<1>3. CASE N = S
  BY <1>3
<1>4. CASE N # S
  <2>1. S \ N # {} /\ S \ N \in SUBSET (0..n)
    BY <1>1, <1>4
  <2>2. PICK x \in S \ N : \A y \in S \ N : y <= x
    BY <2>1, Greatest
  <2>3. ~(Cardinality(Above(S, x)) < m)
    BY <2>2 DEF Newest, Above
  <2>4. Above(S, x) \subseteq N
    <3> SUFFICES ASSUME NEW y \in Above(S, x), y \notin N PROVE FALSE
      OBVIOUS
    <3>1. y \in S \ N /\ y > x /\ y \in 0..n /\ x \in 0..n
      BY DEF Above
    <3> QED BY <2>2, <3>1
  <2>5. Cardinality(Above(S, x)) <= Cardinality(N)
    BY <2>4, <1>1, AboveFinite, FS_Subset
  <2>6. Cardinality(Above(S, x)) \in Nat
    BY AboveFinite
  <2> QED BY <1>2, <2>3, <2>5, <2>6
<1> QED BY <1>3, <1>4

\* And no more than m: they are its least one and those above that.
LEMMA NewestFew ==
  ASSUME NEW n \in Nat, NEW S \in SUBSET (0..n), NEW m \in Nat
  PROVE  Cardinality(Newest(S, m)) <= m
<1> DEFINE N == Newest(S, m)
<1>1. N \subseteq S /\ N \in SUBSET (0..n) /\ N \in SUBSET Nat
  BY 0..n \subseteq Nat DEF Newest
<1>2. CASE N = {}
  BY <1>2, FS_EmptySet
<1>3. CASE N # {}
  <2>1. PICK x \in N : \A y \in N : x <= y
    BY <1>1, <1>3, Least
  <2>2. Cardinality(Above(S, x)) < m
    BY <2>1 DEF Newest, Above
  <2>3. N \ {x} \subseteq Above(S, x)
    BY <1>1, <2>1 DEF Above
  <2>4. IsFiniteSet(Above(S, x)) /\ Cardinality(Above(S, x)) \in Nat /\ IsFiniteSet(N)
        /\ Cardinality(N) \in Nat
    BY <1>1, AboveFinite
  <2>5. Cardinality(N \ {x}) <= Cardinality(Above(S, x))
    BY <2>3, <2>4, FS_Subset
  <2>6. Cardinality(N \ {x}) = Cardinality(N) - 1
    BY <2>1, <2>4, FS_RemoveElement
  <2> QED BY <2>2, <2>4, <2>5, <2>6
<1> QED BY <1>2, <1>3

\* What is above e in a set is what is above e in its newest, when those are
\* fewer than m.
LEMMA NewestAbove ==
  ASSUME NEW n \in Nat, NEW S \in SUBSET (0..n), NEW m \in Nat, NEW e \in 0..n,
         NEW V, Newest(S, m) \subseteq V, V \in SUBSET (0..n),
         Cardinality(Above(V, e)) < m
  PROVE  Above(S, e) \subseteq Newest(S, m)
<1> SUFFICES ASSUME NEW f \in Above(S, e), f \notin Newest(S, m) PROVE FALSE
  OBVIOUS
<1> DEFINE A == Above(S, f)
<1>1. f \in S /\ f > e /\ f \in 0..n
  BY DEF Above
<1>2. ~(Cardinality(A) < m)
  BY <1>1 DEF Newest, Above
<1>3. A \in SUBSET (0..n) /\ Cardinality(A) \in Nat
  BY AboveFinite DEF Above
<1>4. Cardinality(Newest(A, m)) >= m
  <2>1. Cardinality(A) >= m
    BY <1>2, <1>3
  <2> HIDE DEF A
  <2> QED BY <1>3, <2>1, NewestFull
<1>5. Newest(A, m) \subseteq Above(V, e)
  <2> SUFFICES ASSUME NEW g \in Newest(A, m) PROVE g \in Above(V, e)
    OBVIOUS
  <2>1. g \in A /\ g \in S /\ g > f /\ g > e /\ g \in 0..n
    BY <1>1 DEF Newest, Above
  <2>2. Above(A, g) = Above(S, g)
    <3>1. \A h \in S : h \in 0..n /\ (h > g => h > f)
      BY <1>1, <2>1
    <3> QED BY <3>1 DEF Above
  <2>3. Cardinality(Above(A, g)) < m
    BY DEF Newest, Above
  <2>4. g \in Newest(S, m)
    BY <2>1, <2>2, <2>3 DEF Newest, Above
  <2> QED BY <2>1, <2>4 DEF Above
<1>6. Cardinality(Newest(A, m)) <= Cardinality(Above(V, e))
  <2>1. IsFiniteSet(Above(V, e)) /\ Cardinality(Above(V, e)) \in Nat
    BY AboveFinite
  <2> QED BY <1>5, <2>1, FS_Subset
<1>7. Cardinality(Above(V, e)) \in Nat /\ Cardinality(Newest(A, m)) \in Nat
  <2>1. Newest(A, m) \in SUBSET (0..n)
    BY <1>3 DEF Newest
  <2> QED BY <2>1, AboveFinite
<1> QED BY <1>4, <1>6, <1>7

\* Merging into what was kept is keeping the newest of everything.
LEMMA NewestMerges ==
  ASSUME NEW n \in Nat, NEW S \in SUBSET (0..n), NEW T \in SUBSET (0..n), NEW m \in Nat
  PROVE  Newest(Newest(S, m) \cup T, m) = Newest(S \cup T, m)
<1> DEFINE U == S \cup T
           V == Newest(S, m) \cup T
<1>1. V \subseteq U /\ U \in SUBSET (0..n) /\ V \in SUBSET (0..n)
  BY DEF Newest
<1>2. ASSUME NEW e \in Newest(U, m) PROVE e \in Newest(V, m)
  <2>1. e \in U /\ Cardinality(Above(U, e)) < m
    BY DEF Newest, Above
  <2>2. /\ IsFiniteSet(Above(U, e)) /\ Cardinality(Above(U, e)) \in Nat
        /\ Cardinality(Above(V, e)) \in Nat /\ Cardinality(Above(S, e)) \in Nat
    BY <1>1, AboveFinite
  <2>3. Above(V, e) \subseteq Above(U, e) /\ Above(S, e) \subseteq Above(U, e)
    BY <1>1 DEF Above
  <2>4. /\ Cardinality(Above(V, e)) <= Cardinality(Above(U, e))
        /\ Cardinality(Above(S, e)) <= Cardinality(Above(U, e))
    BY <2>2, <2>3, FS_Subset
  <2>5. Cardinality(Above(V, e)) < m /\ Cardinality(Above(S, e)) < m
    BY <2>1, <2>2, <2>4
  <2>6. e \in V
    BY <2>1, <2>5 DEF Newest, Above
  <2> QED BY <2>5, <2>6 DEF Newest, Above
<1>3. ASSUME NEW e \in Newest(V, m) PROVE e \in Newest(U, m)
  <2>1. e \in V /\ e \in U /\ e \in 0..n /\ Cardinality(Above(V, e)) < m
    BY <1>1 DEF Newest, Above
  <2>2. Above(S, e) \subseteq Newest(S, m)
    BY <1>1, <2>1, NewestAbove
  <2>3. Above(U, e) = Above(V, e)
    BY <1>1, <2>2 DEF Above
  <2> QED BY <2>1, <2>3 DEF Newest, Above
<1> QED BY <1>2, <1>3

\* What is dropped is older than all that is kept, and as many are kept as
\* may be.
LEMMA NewestDrops ==
  ASSUME NEW n \in Nat, NEW S \in SUBSET (0..n), NEW m \in Nat,
         NEW e \in S \ Newest(S, m)
  PROVE  /\ Cardinality(Newest(S, m)) = m
         /\ \A f \in Newest(S, m) : f > e
<1>1. e \in 0..n /\ ~(Cardinality(Above(S, e)) < m)
  BY DEF Newest, Above
<1>2. /\ IsFiniteSet(S) /\ Cardinality(S) \in Nat
      /\ IsFiniteSet(Above(S, e)) /\ Cardinality(Above(S, e)) \in Nat
  BY AboveFinite
<1>3. Cardinality(Above(S, e)) <= Cardinality(S)
  BY <1>2, FS_Subset DEF Above
<1>4. Cardinality(Newest(S, m)) >= m /\ Cardinality(Newest(S, m)) <= m
  <2>1. Cardinality(S) >= m
    BY <1>1, <1>2, <1>3
  <2> QED BY <2>1, NewestFull, NewestFew
<1>5. Cardinality(Newest(S, m)) \in Nat
  <2>1. Newest(S, m) \in SUBSET (0..n)
    BY DEF Newest
  <2> QED BY <2>1, AboveFinite
<1>6. ASSUME NEW f \in Newest(S, m), ~(f > e) PROVE FALSE
  <2>1. f \in S /\ f \in 0..n /\ f < e /\ Cardinality(Above(S, f)) < m
    BY <1>1, <1>6 DEF Newest, Above
  <2>2. Above(S, e) \subseteq Above(S, f)
    <3>1. \A h \in S : h \in 0..n /\ (h > e => h > f)
      BY <1>1, <2>1
    <3> QED BY <3>1 DEF Above
  <2>3. IsFiniteSet(Above(S, f)) /\ Cardinality(Above(S, f)) \in Nat
    BY AboveFinite
  <2>4. Cardinality(Above(S, e)) <= Cardinality(Above(S, f))
    BY <2>2, <2>3, FS_Subset
  <2> QED BY <1>1, <1>2, <2>1, <2>3, <2>4
<1> QED BY <1>4, <1>5, <1>6

\* A page holds the newest of all it ever received; so does the store, of
\* what was merged into it.
EvShape ==
    /\ evLog \in Seq(Event) /\ Len(evLog) <= EvTotal
    /\ DOMAIN evHeld = EvPage /\ DOMAIN evSeen = EvPage
    /\ \A p \in EvPage : evSeen[p] \in SUBSET (0..EvTotal) /\ 0 \notin evSeen[p]
    /\ evStore \in SUBSET (0..EvTotal) /\ 0 \notin evStore
EvFlying ==
    /\ DOMAIN evFlight = EvPage
    /\ \A p \in EvPage : evFlight[p] \in Seq(SUBSET (1..EvTotal))
EvKeeps ==
    /\ \A p \in EvPage : evHeld[p] = Newest(evSeen[p], EvMax)
    /\ Newest(evStore, EvMax) = evStore
EvInv == EvShape /\ EvFlying /\ EvKeeps

\* A page opens with nothing received and one request out.
LEMMA EvStarts == EvInit => EvInv
<1> SUFFICES ASSUME EvInit PROVE EvInv
  OBVIOUS
<1>1. EvShape
  BY EvAssumption DEF EvInit, EvShape
<1>2. EvFlying
  <2>1. {} \in SUBSET (1..EvTotal)
    OBVIOUS
  <2>2. <<{}>> \in Seq(SUBSET (1..EvTotal))
    BY <2>1, Single
  <2> QED BY <2>2 DEF EvInit, EvFlying
<1>3. EvKeeps
  BY DEF EvInit, EvKeeps, Newest
<1> QED BY <1>1, <1>2, <1>3 DEF EvInv

\* The server answers with events it recorded.
LEMMA EvAnswers == EvShape => Newest(1..Len(evLog), EvLimit) \in SUBSET (1..EvTotal)
BY EvAssumption DEF EvShape, Newest

\* A request sent is of events that were recorded.
LEMMA EvSends ==
  ASSUME EvInv, NEW p \in EvPage, EvSend(p)
  PROVE  EvFlying'
<1> DEFINE told == Newest(1..Len(evLog), EvLimit)
<1>1. told \in SUBSET (1..EvTotal)
  BY EvAnswers DEF EvInv
<1>2. evFlight' = [evFlight EXCEPT ![p] = Append(@, told)]
  BY DEF EvSend
<1> HIDE DEF told
<1>3. Append(evFlight[p], told) \in Seq(SUBSET (1..EvTotal))
  BY <1>1 DEF EvInv, EvFlying
<1> QED BY <1>2, <1>3 DEF EvInv, EvFlying

\* An answer that leaves the flight, merged or lost.
LEMMA EvLands ==
  ASSUME EvInv, NEW p \in EvPage, NEW n \in 1..Len(evFlight[p]),
         evFlight' = [evFlight EXCEPT ![p] = RemoveAt(@, n)]
  PROVE  EvFlying'
<1>1. RemoveAt(evFlight[p], n) \in Seq(SUBSET (1..EvTotal))
  BY Removed DEF EvInv, EvFlying
<1> QED BY <1>1 DEF EvInv, EvFlying

\* What was dropped before would be dropped now.
LEMMA EvNewestMerges ==
  ASSUME NEW S \in SUBSET (0..EvTotal), NEW T \in SUBSET (0..EvTotal)
  PROVE  Newest(Newest(S, EvMax) \cup T, EvMax) = Newest(S \cup T, EvMax)
<1>1. EvTotal \in Nat /\ EvMax \in Nat
  BY EvAssumption
<1> QED BY <1>1, NewestMerges, Zenon

\* An answer merged leaves the newest of all that was received.
LEMMA EvMerges == ASSUME EvInv, NEW p \in EvPage, EvAnswer(p) PROVE EvInv'
<1>1. PICK n \in 1..Len(evFlight[p]) :
        /\ evHeld' = [evHeld EXCEPT ![p] = Merge(evHeld[p], evFlight[p][n])]
        /\ evStore' = Merge(evHeld[p], evFlight[p][n])
        /\ evSeen' = [evSeen EXCEPT ![p] = @ \cup evFlight[p][n]]
        /\ evFlight' = [evFlight EXCEPT ![p] = RemoveAt(@, n)]
        /\ UNCHANGED <<evLog, evHidden>>
  BY Zenon DEF EvAnswer
<1> DEFINE new == evFlight[p][n]
           all == evSeen[p] \cup new
<1>2. new \in SUBSET (1..EvTotal)
  <2>1. evFlight[p] \in Seq(SUBSET (1..EvTotal))
    BY DEF EvInv, EvFlying
  <2> QED BY <2>1
<1>3. /\ evSeen[p] \in SUBSET (0..EvTotal) /\ new \in SUBSET (0..EvTotal)
      /\ all \in SUBSET (0..EvTotal) /\ 0 \notin all
  BY <1>2 DEF EvInv, EvShape
<1>4. Merge(evHeld[p], new) = Newest(all, EvMax)
  <2>2. Newest(Newest(evSeen[p], EvMax) \cup new, EvMax) = Newest(evSeen[p] \cup new, EvMax)
    BY <1>3, EvNewestMerges, Zenon
  <2>3. evHeld[p] = Newest(evSeen[p], EvMax)
    BY DEF EvInv, EvKeeps
  <2> QED BY <2>2, <2>3, Zenon DEF Merge
<1>5. Newest(Newest(all, EvMax), EvMax) = Newest(all, EvMax)
  <2>1. Newest(Newest(all, EvMax) \cup {}, EvMax) = Newest(all \cup {}, EvMax)
    <3>1. {} \in SUBSET (0..EvTotal)
      OBVIOUS
    <3> HIDE DEF all
    <3> QED BY <1>3, <3>1, EvNewestMerges, Zenon
  <2>2. Newest(all, EvMax) \cup {} = Newest(all, EvMax) /\ all \cup {} = all
    OBVIOUS
  <2> QED BY <2>1, <2>2
<1> HIDE DEF new
<1>6. evSeen' = [evSeen EXCEPT ![p] = all] /\ evStore' = Newest(all, EvMax)
      /\ evHeld' = [evHeld EXCEPT ![p] = Newest(all, EvMax)]
  BY <1>1, <1>4 DEF new
<1> HIDE DEF all
<1>7. EvFlying'
  BY <1>1, EvLands
<1>8. Newest(all, EvMax) \subseteq all
  BY DEF Newest
<1>9. EvShape'
  BY <1>1, <1>3, <1>6, <1>8 DEF EvInv, EvShape
<1>10. EvKeeps'
  BY <1>5, <1>6 DEF EvInv, EvShape, EvKeeps
<1> QED BY <1>7, <1>9, <1>10 DEF EvInv

\* A page loaded again holds what was saved.
LEMMA EvReloads == ASSUME EvInv, NEW p \in EvPage, EvReload(p) PROVE EvInv'
<1> DEFINE told == Newest(1..Len(evLog), EvLimit)
<1>1. told \in SUBSET (1..EvTotal)
  BY EvAnswers DEF EvInv
<1>2. /\ evHeld' = [evHeld EXCEPT ![p] = evStore]
      /\ evSeen' = [evSeen EXCEPT ![p] = evStore]
      /\ evFlight' = [evFlight EXCEPT ![p] = <<told>>]
      /\ UNCHANGED <<evLog, evStore>>
  BY DEF EvReload
<1> HIDE DEF told
<1>3. <<told>> \in Seq(SUBSET (1..EvTotal))
  BY <1>1, Single
<1>4. EvFlying'
  BY <1>2, <1>3 DEF EvInv, EvFlying
<1>5. EvShape' /\ EvKeeps'
  BY <1>2 DEF EvInv, EvShape, EvKeeps
<1> QED BY <1>4, <1>5 DEF EvInv

\* No event, poll, answer, failure or reload of any page breaks them.
LEMMA EvStays == EvInv /\ [EvNext]_evVars => EvInv'
<1> SUFFICES ASSUME EvInv, [EvNext]_evVars PROVE EvInv'
  OBVIOUS
<1>1. ASSUME UNCHANGED <<evLog, evHeld, evSeen, evStore>>, EvFlying' PROVE EvInv'
  BY <1>1 DEF EvInv, EvShape, EvKeeps
<1>2. ASSUME UNCHANGED evFlight PROVE EvFlying'
  BY <1>2 DEF EvInv, EvFlying
<1>3. CASE EvRecord
  <2>1. evLog' \in Seq(Event) /\ Len(evLog') <= EvTotal
    BY <1>3, EvAssumption DEF EvRecord, EvInv, EvShape
  <2>2. UNCHANGED <<evHeld, evSeen, evStore, evFlight>>
    BY <1>3 DEF EvRecord
  <2> QED BY <1>2, <2>1, <2>2 DEF EvInv, EvShape, EvKeeps
<1>4. ASSUME NEW p \in EvPage, EvPoll(p) PROVE EvInv'
  BY <1>1, <1>4, EvSends DEF EvPoll
<1>5. ASSUME NEW p \in EvPage, EvHide(p) PROVE EvInv'
  BY <1>1, <1>2, <1>5 DEF EvHide
<1>6. ASSUME NEW p \in EvPage, EvShow(p) PROVE EvInv'
  <2>1. EvSend(p) \/ UNCHANGED evFlight
    BY <1>6, Zenon DEF EvShow
  <2>2. UNCHANGED <<evLog, evHeld, evSeen, evStore>>
    BY <1>6 DEF EvShow
  <2> QED BY <1>1, <1>2, <2>1, <2>2, EvSends
<1>7. ASSUME NEW p \in EvPage, EvFail(p) PROVE EvInv'
  BY <1>1, <1>7, EvLands DEF EvFail
<1>8. CASE UNCHANGED evVars
  BY <1>1, <1>2, <1>8 DEF evVars
<1> QED BY <1>3, <1>4, <1>5, <1>6, <1>7, <1>8, EvMerges, EvReloads, Zenon DEF EvNext

\* The newest of what a page received is what is promised.
LEMMA EvHolds == EvInv => EventLogKeepsNewest
<1> SUFFICES ASSUME EvInv, NEW p \in EvPage
             PROVE  /\ evHeld[p] \subseteq evSeen[p]
                    /\ \A e \in evSeen[p] \ evHeld[p] :
                         /\ Cardinality(evHeld[p]) = EvMax
                         /\ \A f \in evHeld[p] : f > e
  BY DEF EventLogKeepsNewest
<1>1. evHeld[p] = Newest(evSeen[p], EvMax) /\ evSeen[p] \in SUBSET (0..EvTotal)
  BY DEF EvInv, EvShape, EvKeeps
<1>2. Newest(evSeen[p], EvMax) \subseteq evSeen[p]
  BY DEF Newest
<1>3. EvTotal \in Nat /\ EvMax \in Nat
  BY EvAssumption
<1>4. ASSUME NEW e \in evSeen[p] \ Newest(evSeen[p], EvMax)
      PROVE  /\ Cardinality(Newest(evSeen[p], EvMax)) = EvMax
             /\ \A f \in Newest(evSeen[p], EvMax) : f > e
  BY <1>1, <1>3, NewestDrops, Zenon
<1> QED BY <1>1, <1>2, <1>4, Zenon

\* What is held, saved or answered was recorded.
EvRecorded ==
    /\ evStore \subseteq 1..Len(evLog)
    /\ \A p \in EvPage :
         /\ evSeen[p] \subseteq 1..Len(evLog)
         /\ \A n \in 1..Len(evFlight[p]) : evFlight[p][n] \subseteq 1..Len(evLog)

\* Nothing is saved or received at first.
LEMMA EvRecordedStarts == EvInit => EvRecorded
BY DEF EvInit, EvRecorded

\* The answer to a request sent now is of what was recorded.
LEMMA EvSendsRecorded ==
  ASSUME EvInv, EvRecorded, NEW p \in EvPage, EvSend(p),
         UNCHANGED <<evLog, evSeen, evStore>>
  PROVE  EvRecorded'
<1> DEFINE told == Newest(1..Len(evLog), EvLimit)
<1>1. told \subseteq 1..Len(evLog) /\ told \in SUBSET (1..EvTotal)
  BY EvAnswers DEF Newest, EvInv
<1>2. evFlight' = [evFlight EXCEPT ![p] = Append(@, told)]
  BY DEF EvSend
<1> HIDE DEF told
<1>3. evFlight[p] \in Seq(SUBSET (1..EvTotal))
  BY DEF EvInv, EvFlying
<1>4. ASSUME NEW n \in 1..Len(Append(evFlight[p], told))
      PROVE  Append(evFlight[p], told)[n] \subseteq 1..Len(evLog)
  <2>1. CASE n \in 1..Len(evFlight[p])
    <3>1. Append(evFlight[p], told)[n] = evFlight[p][n]
      BY <1>3, <2>1
    <3> QED BY <2>1, <3>1 DEF EvRecorded
  <2>2. CASE n \notin 1..Len(evFlight[p])
    <3>1. n = Len(evFlight[p]) + 1
      BY <1>3, <1>4, <2>2
    <3>2. Append(evFlight[p], told)[n] = told
      BY <1>3, <3>1
    <3> QED BY <1>1, <3>2
  <2> QED BY <2>1, <2>2
<1>5. ASSUME NEW q \in EvPage, NEW n \in 1..Len(evFlight'[q])
      PROVE  evFlight'[q][n] \subseteq 1..Len(evLog)
  <2>1. CASE q = p
    BY <1>2, <1>4, <2>1 DEF EvInv, EvFlying
  <2>2. CASE q # p
    BY <1>2, <2>2 DEF EvInv, EvFlying, EvRecorded
  <2> QED BY <2>1, <2>2
<1> QED BY <1>5 DEF EvRecorded

\* What is left in flight was in flight.
LEMMA EvLandsRecorded ==
  ASSUME EvInv, EvRecorded, NEW p \in EvPage, NEW k \in 1..Len(evFlight[p]),
         evFlight' = [evFlight EXCEPT ![p] = RemoveAt(@, k)],
         NEW q \in EvPage, NEW n \in 1..Len(evFlight'[q])
  PROVE  evFlight'[q][n] \subseteq 1..Len(evLog)
<1>1. evFlight[p] \in Seq(SUBSET (1..EvTotal))
  BY DEF EvInv, EvFlying
<1> DEFINE left == RemoveAt(evFlight[p], k)
<1>2. /\ Len(left) = Len(evFlight[p]) - 1
      /\ \A m \in 1..Len(evFlight[p])-1 :
           left[m] = IF m < k THEN evFlight[p][m] ELSE evFlight[p][m+1]
  BY <1>1, Removed
<1> HIDE DEF left
<1>3. ASSUME NEW m \in 1..Len(left) PROVE left[m] \subseteq 1..Len(evLog)
  <2>1. m \in 1..Len(evFlight[p]) /\ (m + 1) \in 1..Len(evFlight[p])
    BY <1>1, <1>2
  <2> QED BY <1>2, <2>1 DEF EvRecorded
<1>4. CASE q = p
  BY <1>3, <1>4 DEF EvInv, EvFlying, left
<1>5. CASE q # p
  BY <1>5 DEF EvInv, EvFlying, EvRecorded
<1> QED BY <1>4, <1>5

\* It stays so, as the log only grows.
LEMMA EvRecordedStays == EvInv /\ EvRecorded /\ [EvNext]_evVars => EvRecorded'
<1> SUFFICES ASSUME EvInv, EvRecorded, [EvNext]_evVars PROVE EvRecorded'
  OBVIOUS
<1>1. CASE EvRecord
  <2>1. 1..Len(evLog) \subseteq 1..Len(evLog')
    BY <1>1 DEF EvRecord, EvInv, EvShape
  <2> QED BY <1>1, <2>1 DEF EvRecord, EvRecorded
<1>2. ASSUME NEW p \in EvPage, EvPoll(p) PROVE EvRecorded'
  BY <1>2, EvSendsRecorded DEF EvPoll
<1>3. ASSUME NEW p \in EvPage, EvHide(p) PROVE EvRecorded'
  BY <1>3 DEF EvHide, EvRecorded
<1>4. ASSUME NEW p \in EvPage, EvShow(p) PROVE EvRecorded'
  <2>1. CASE EvSend(p)
    BY <1>4, <2>1, EvSendsRecorded DEF EvShow
  <2>2. CASE UNCHANGED evFlight
    BY <1>4, <2>2 DEF EvShow, EvRecorded
  <2> QED BY <1>4, <2>1, <2>2, Zenon DEF EvShow
<1>5. ASSUME NEW p \in EvPage, EvAnswer(p) PROVE EvRecorded'
  <2>1. PICK k \in 1..Len(evFlight[p]) :
          /\ evStore' = Merge(evHeld[p], evFlight[p][k])
          /\ evSeen' = [evSeen EXCEPT ![p] = @ \cup evFlight[p][k]]
          /\ evFlight' = [evFlight EXCEPT ![p] = RemoveAt(@, k)]
          /\ UNCHANGED evLog
    BY <1>5, Zenon DEF EvAnswer
  <2>2. evFlight[p][k] \subseteq 1..Len(evLog) /\ evSeen[p] \subseteq 1..Len(evLog)
    BY DEF EvRecorded
  <2>3. evHeld[p] \subseteq evSeen[p]
    BY DEF EvInv, EvKeeps, Newest
  <2>4. evStore' \subseteq 1..Len(evLog)
    BY <2>1, <2>2, <2>3 DEF Merge, Newest
  <2>5. \A q \in EvPage : evSeen'[q] \subseteq 1..Len(evLog)
    BY <2>1, <2>2 DEF EvInv, EvShape, EvRecorded
  <2>6. \A q \in EvPage : \A n \in 1..Len(evFlight'[q]) :
          evFlight'[q][n] \subseteq 1..Len(evLog)
    BY <2>1, EvLandsRecorded
  <2> QED BY <2>1, <2>4, <2>5, <2>6 DEF EvRecorded
<1>6. ASSUME NEW p \in EvPage, EvFail(p) PROVE EvRecorded'
  <2>1. \A q \in EvPage : \A n \in 1..Len(evFlight'[q]) :
          evFlight'[q][n] \subseteq 1..Len(evLog)
    BY <1>6, EvLandsRecorded DEF EvFail
  <2> QED BY <1>6, <2>1 DEF EvFail, EvRecorded
<1>7. ASSUME NEW p \in EvPage, EvReload(p) PROVE EvRecorded'
  <2> DEFINE told == Newest(1..Len(evLog), EvLimit)
  <2>1. told \subseteq 1..Len(evLog)
    BY DEF Newest
  <2>2. /\ evSeen' = [evSeen EXCEPT ![p] = evStore]
        /\ evFlight' = [evFlight EXCEPT ![p] = <<told>>]
        /\ UNCHANGED <<evLog, evStore>>
    BY <1>7 DEF EvReload
  <2> HIDE DEF told
  <2>3. \A q \in EvPage : evSeen'[q] \subseteq 1..Len(evLog)
    BY <2>2 DEF EvInv, EvShape, EvRecorded
  <2>4. ASSUME NEW q \in EvPage, NEW n \in 1..Len(evFlight'[q])
        PROVE  evFlight'[q][n] \subseteq 1..Len(evLog)
    <3>1. CASE q = p
      <4>1. evFlight'[q] = <<told>>
        BY <2>2, <3>1 DEF EvInv, EvFlying
      <4>2. n = 1 /\ <<told>>[1] = told
        BY <2>4, <4>1
      <4> QED BY <2>1, <4>1, <4>2, Zenon
    <3>2. CASE q # p
      BY <2>2, <3>2 DEF EvInv, EvFlying, EvRecorded
    <3> QED BY <3>1, <3>2
  <2> QED BY <2>2, <2>3, <2>4 DEF EvRecorded
<1>8. CASE UNCHANGED evVars
  BY <1>8 DEF evVars, EvRecorded
<1> QED BY <1>1, <1>2, <1>3, <1>4, <1>5, <1>6, <1>7, <1>8, Zenon DEF EvNext

\* What the walk has noted after some turns.
Conditions == [seen : SUBSET EvNode, seenLow : SUBSET EvNode,
               offline : SUBSET EvNode, disk : SUBSET EvNode,
               low : SUBSET EvNode]

\* What the walk makes of the events of s, by the events after the oldest.
Turn(f, s) == IF s = {} THEN NoConditions ELSE Walk(Min(s), f[s \ {Min(s)}])
IsWalk(f, D) == f = [s \in D |-> Turn(f, s)]
From(S, k) == {s \in SUBSET S : \A e \in s : e >= k}

\* What is left of events without their oldest is of those that came later.
LEMMA OldestGoes ==
  ASSUME NEW n \in Nat, NEW S \in SUBSET (0..n), NEW k \in Nat,
         NEW s \in From(S, k), s # {}
  PROVE  /\ Min(s) \in s /\ \A e \in s : Min(s) <= e
         /\ s \ {Min(s)} \in From(S, k+1) /\ s \ {Min(s)} \in From(S, k)
<1>1. s \in SUBSET Nat /\ s \in SUBSET (0..n)
  BY DEF From
<1>2. \E x \in s : \A y \in s : x <= y
  BY <1>1, Least
<1>3. Min(s) \in s /\ \A e \in s : Min(s) <= e
  BY <1>2 DEF Min
<1>4. ASSUME NEW e \in s \ {Min(s)} PROVE e \in S /\ e >= k + 1 /\ e >= k
  <2>1. e \in Nat /\ Min(s) \in Nat /\ e # Min(s) /\ Min(s) <= e /\ Min(s) >= k
    BY <1>1, <1>3 DEF From
  <2>2. e \in S
    BY DEF From
  <2> QED BY <2>1, <2>2
<1> QED BY <1>3, <1>4 DEF From

\* A walk of the later events goes on to one of earlier ones.
LEMMA WalkGoesOn ==
  ASSUME NEW n \in Nat, NEW S \in SUBSET (0..n), NEW k \in Nat,
         \E f : IsWalk(f, From(S, k+1))
  PROVE  \E f : IsWalk(f, From(S, k))
<1>1. PICK f : IsWalk(f, From(S, k+1))
  OBVIOUS
<1> DEFINE g == [s \in From(S, k) |-> Turn(f, s)]
<1>2. From(S, k+1) \subseteq From(S, k)
  <2>1. \A e \in S : e \in Nat /\ (e >= k + 1 => e >= k)
    OBVIOUS
  <2> QED BY <2>1 DEF From
<1>3. \A s \in From(S, k+1) : g[s] = f[s]
  BY <1>1, <1>2 DEF IsWalk
<1> HIDE DEF g
<1>4. \A s \in From(S, k) : Turn(g, s) = Turn(f, s)
  BY <1>3, OldestGoes DEF Turn
<1>5. g = [s \in From(S, k) |-> Turn(g, s)]
  BY <1>4, Zenon DEF g
<1> QED BY <1>5 DEF IsWalk

\* There is such a walk of any events.
LEMMA WalkExists ==
  ASSUME NEW n \in Nat, NEW S \in SUBSET (0..n)
  PROVE  \E f : IsWalk(f, SUBSET S)
<1> DEFINE fails == {k \in 0..(n+1) : ~ \E f : IsWalk(f, From(S, k))}
<1>1. n + 1 \notin fails
  <2>1. From(S, n+1) = {{}}
    <3>1. \A e \in S : e \in 0..n /\ ~(e >= n + 1)
      OBVIOUS
    <3> QED BY <3>1 DEF From
  <2> DEFINE f == [s \in {{}} |-> NoConditions]
  <2>2. f = [s \in {{}} |-> Turn(f, s)]
    BY DEF Turn
  <2> QED BY <2>1, <2>2 DEF IsWalk
<1>2. fails \in SUBSET (0..(n+1))
  OBVIOUS
<1>3. ASSUME fails # {} PROVE FALSE
  <2> HIDE DEF fails
  <2>1. PICK k \in fails : \A j \in fails : j <= k
    BY <1>2, <1>3, n + 1 \in Nat, Greatest
  <2>2. k \in 0..n /\ k + 1 \notin fails
    BY <1>1, <1>2, <2>1
  <2>3. \E f : IsWalk(f, From(S, k+1))
    BY <2>2 DEF fails
  <2>4. ~ \E f : IsWalk(f, From(S, k))
    BY <2>1 DEF fails
  <2>5. k \in Nat
    BY <2>2
  <2> QED BY <2>3, <2>4, <2>5, WalkGoesOn
<1>4. \E f : IsWalk(f, From(S, 0))
  BY <1>3
<1>5. From(S, 0) = SUBSET S
  <2>1. \A e \in S : e \in 0..n /\ e >= 0
    OBVIOUS
  <2> QED BY <2>1 DEF From
<1> QED BY <1>4, <1>5

\* The conditions of some events are where the walk of them all ends.
LEMMA WalkIsActive ==
  ASSUME NEW n \in Nat, NEW S \in SUBSET (0..n)
  PROVE  \E f : IsWalk(f, SUBSET S) /\ ActiveConditions(S) = f[S]
<1> DEFINE walk == CHOOSE f : f = [s \in SUBSET S |-> Turn(f, s)]
<1>1. IsWalk(walk, SUBSET S)
  <2>1. \E g : g = [s \in SUBSET S |-> Turn(g, s)]
    BY WalkExists DEF IsWalk
  <2> QED BY <2>1, Zenon DEF IsWalk
<1>2. ActiveConditions(S) = walk[S]
  BY DEF ActiveConditions, MapThenFoldSet, Turn
<1> QED BY <1>1, <1>2

\* The newest of the events of s about the state of n says that it is down.
SaysDown(s, n) == \E e \in s :
    /\ Tells(e) /\ evLog[e].node = n /\ evLog[e].kind # "online"
    /\ \A d \in s : Tells(d) /\ evLog[d].node = n => d <= e

\* What has been noted of the events of s is true of them.
Noted(acc, s) ==
    /\ acc \in Conditions
    /\ \A n \in EvNode :
         n \in acc.seen <=> \E e \in s : Tells(e) /\ evLog[e].node = n
    /\ \A n \in EvNode : n \in acc.offline <=> SaysDown(s, n)

\* A turn with an older event keeps what is noted true.
LEMMA WalkTurns ==
  ASSUME NEW r \in SUBSET Nat, NEW x \in Nat, NEW acc, Noted(acc, r),
         evLog[x] \in Event, \A e \in r : x < e
  PROVE  Noted(Walk(x, acc), r \cup {x})
<1> DEFINE n == evLog[x].node
           k == evLog[x].kind
           s == r \cup {x}
           out == Walk(x, acc)
<1>1. n \in EvNode /\ k \in EvKind
  BY DEF Event
<1>2. acc \in Conditions
  BY DEF Noted
<1>3. /\ out \in Conditions
      /\ out.seen = IF Tells(x) THEN acc.seen \cup {n} ELSE acc.seen
      /\ out.offline = IF Tells(x) /\ n \notin acc.seen /\ k # "online"
                       THEN acc.offline \cup {n} ELSE acc.offline
  <2>1. CASE Tells(x) /\ n \notin acc.seen
    BY <1>1, <1>2, <2>1 DEF Walk, Conditions, Tells
  <2>2. CASE ~(Tells(x) /\ n \notin acc.seen)
    BY <1>1, <1>2, <2>2 DEF Walk, Conditions, Tells
  <2> QED BY <2>1, <2>2
<1> HIDE DEF out
<1>4. ASSUME NEW m \in EvNode
      PROVE  m \in out.seen <=> \E e \in s : Tells(e) /\ evLog[e].node = m
  BY <1>3 DEF Noted
<1>5. ASSUME NEW m \in EvNode PROVE m \in out.offline <=> SaysDown(s, m)
  <2>1. CASE ~(Tells(x) /\ m = n)
    <3>1. SaysDown(s, m) <=> SaysDown(r, m)
      BY <2>1 DEF SaysDown
    <3> QED BY <1>3, <2>1, <3>1 DEF Noted
  <2>2. CASE Tells(x) /\ m = n /\ n \notin acc.seen
    <3>1. \A e \in r : ~(Tells(e) /\ evLog[e].node = m)
      BY <1>1, <2>2 DEF Noted
    <3>2. SaysDown(s, m) <=> k # "online"
      BY <2>2, <3>1 DEF SaysDown
    <3>3. m \notin acc.offline
      BY <3>1 DEF Noted, SaysDown
    <3> QED BY <1>3, <2>2, <3>2, <3>3
  <2>3. CASE Tells(x) /\ m = n /\ n \in acc.seen
    <3>1. PICK e \in r : Tells(e) /\ evLog[e].node = m
      BY <1>1, <2>3 DEF Noted
    <3>2. SaysDown(s, m) <=> SaysDown(r, m)
      <4>1. ~(e <= x) /\ \A d \in r : x <= d
        BY <3>1
      <4> QED BY <3>1, <4>1 DEF SaysDown
    <3> QED BY <1>3, <2>3, <3>2 DEF Noted
  <2> QED BY <2>1, <2>2, <2>3
<1> QED BY <1>3, <1>4, <1>5 DEF Noted, out

\* So where the walk ends, it has noted who is down.
LEMMA WalkTells ==
  ASSUME NEW n \in Nat, NEW S \in SUBSET (0..n), \A e \in S : evLog[e] \in Event,
         NEW f, IsWalk(f, SUBSET S)
  PROVE  Noted(f[S], S)
<1> DEFINE Good(k) == \A s \in From(S, k) : Noted(f[s], s)
           fails == {k \in 0..(n+1) : ~Good(k)}
<1>1. Noted(f[{}], {})
  BY DEF IsWalk, Turn, Noted, NoConditions, Conditions, SaysDown
<1>2. n + 1 \notin fails
  <2>1. \A e \in S : e \in 0..n /\ ~(e >= n + 1)
    OBVIOUS
  <2>2. From(S, n+1) = {{}}
    BY <2>1 DEF From
  <2> QED BY <1>1, <2>2
<1>3. ASSUME NEW k \in Nat, Good(k+1) PROVE Good(k)
  <2> SUFFICES ASSUME NEW s \in From(S, k), s # {} PROVE Noted(f[s], s)
    BY <1>1
  <2> DEFINE x == Min(s)
             r == s \ {x}
  <2>1. x \in s /\ (\A e \in s : x <= e) /\ r \in From(S, k+1) /\ r \in From(S, k)
    BY OldestGoes
  <2>2. s \in SUBSET S /\ r \in SUBSET Nat /\ x \in Nat /\ s = r \cup {x} /\ x \in S
    <3>1. s \in SUBSET S /\ S \in SUBSET Nat
      BY DEF From
    <3> HIDE DEF x
    <3> QED BY <2>1, <3>1
  <2>3. f[s] = Walk(x, f[r])
    BY <2>2 DEF IsWalk, Turn
  <2> HIDE DEF x
  <2>4. \A e \in r : x < e
    BY <2>1, <2>2
  <2>5. Noted(f[r], r)
    BY <1>3, <2>1
  <2> QED BY <2>2, <2>3, <2>4, <2>5, WalkTurns
<1>4. ASSUME fails # {} PROVE FALSE
  <2>1. fails \in SUBSET (0..(n+1)) /\ n + 1 \in Nat
    OBVIOUS
  <2> HIDE DEF fails, Good
  <2>2. PICK k \in fails : \A j \in fails : j <= k
    BY <1>4, <2>1, Greatest
  <2>3. k \in 0..n /\ k + 1 \notin fails /\ k + 1 \in 0..(n+1)
    BY <1>2, <2>1, <2>2
  <2>4. Good(k+1)
    BY <2>3 DEF fails
  <2>5. ~Good(k)
    BY <2>2 DEF fails
  <2> QED BY <1>3, <2>3, <2>4, <2>5
<1>5. Good(0)
  BY <1>4
<1>6. S \in From(S, 0)
  <2>1. \A e \in S : e \in 0..n /\ e >= 0
    OBVIOUS
  <2> QED BY <2>1 DEF From
<1> QED BY <1>5, <1>6

\* What is alarmed is what the newest of the events held say.
LEMMA EvAlarms == EvInv /\ EvRecorded => AlarmsFollowNewestState
<1> SUFFICES ASSUME EvInv, EvRecorded, NEW p \in EvPage, NEW n \in EvNode
             PROVE  LET states == {e \in evHeld[p] : evLog[e].node = n
                                                     /\ evLog[e].kind # "low_disk"}
                        alarms == EventAlarms(evHeld[p])
                        down == \E e \in states : /\ \A f \in states : f <= e
                                                  /\ evLog[e].kind # "online"
                    IN down <=> n \in alarms.runnersOffline \cup
                                (alarms.diskPressure
                                   \cap ActiveConditions(evHeld[p]).offline)
  BY DEF AlarmsFollowNewestState
<1> DEFINE S == evHeld[p]
           c == ActiveConditions(S)
<1>1. /\ S \in SUBSET (0..EvTotal) /\ EvTotal \in Nat
      /\ \A e \in S : evLog[e] \in Event
  <2>1. S \subseteq evSeen[p] /\ evSeen[p] \in SUBSET (0..EvTotal)
    BY DEF EvInv, EvShape, EvKeeps, Newest
  <2>2. S \subseteq 1..Len(evLog) /\ evLog \in Seq(Event)
    BY <2>1 DEF EvRecorded, EvInv, EvShape
  <2> QED BY <2>1, <2>2, EvAssumption
<1>2. Noted(c, S)
  <2> HIDE DEF S
  <2>1. PICK f : IsWalk(f, SUBSET S) /\ ActiveConditions(S) = f[S]
    BY <1>1, WalkIsActive, Zenon
  <2>2. Noted(f[S], S)
    BY <1>1, <2>1, WalkTells, Zenon
  <2> QED BY <2>1, <2>2
<1> HIDE DEF S
<1>3. \A e \in S : Tells(e) <=> evLog[e].kind # "low_disk"
  BY <1>1 DEF Event, EvKind, Tells
<1>4. SaysDown(S, n) <=> n \in c.offline
  BY <1>2 DEF Noted
<1> HIDE DEF c
<1>5. /\ EventAlarms(S).runnersOffline = c.offline \ c.disk
      /\ EventAlarms(S).diskPressure = c.disk \cup c.low
  BY DEF EventAlarms, c
<1>6. SaysDown(S, n) <=>
        \E e \in {d \in S : evLog[d].node = n /\ evLog[d].kind # "low_disk"} :
          /\ \A f \in {d \in S : evLog[d].node = n /\ evLog[d].kind # "low_disk"} :
               f <= e
          /\ evLog[e].kind # "online"
  BY <1>3 DEF SaysDown
<1> QED BY <1>4, <1>5, <1>6 DEF S, c

\* What the types add.
EvKinds ==
    /\ {evHeld, evSeen} \subseteq [EvPage -> SUBSET (1..EvTotal)]
    /\ evHidden \in [EvPage -> {TRUE, FALSE}]

\* They stay so, as what is held and seen are events recorded.
LEMMA EvKindsStay ==
  /\ EvInit => EvKinds
  /\ EvInv /\ EvInv' /\ EvKinds /\ [EvNext]_evVars => EvKinds'
<1> USE DEF EvKinds
<1>1. EvInit => EvKinds
  BY DEF EvInit
<1> SUFFICES ASSUME EvInv, EvInv', EvKinds, [EvNext]_evVars PROVE EvKinds'
  BY <1>1
<1>2. /\ \A p \in EvPage : evSeen'[p] \in SUBSET (1..EvTotal)
      /\ \A p \in EvPage : evHeld'[p] \in SUBSET (1..EvTotal)
  <2>1. ASSUME NEW p \in EvPage PROVE evSeen'[p] \in SUBSET (1..EvTotal)
    <3>1. evSeen'[p] \in SUBSET (0..EvTotal) /\ 0 \notin evSeen'[p]
      BY DEF EvInv, EvShape
    <3>2. ASSUME NEW n \in evSeen'[p] PROVE n \in 1..EvTotal
      BY <3>1, EvAssumption
    <3> QED BY <3>2
  <2>2. ASSUME NEW p \in EvPage PROVE evHeld'[p] \in SUBSET (1..EvTotal)
    <3>1. evHeld'[p] = Newest(evSeen'[p], EvMax)
      BY DEF EvInv, EvKeeps
    <3>2. Newest(evSeen'[p], EvMax) \subseteq evSeen'[p]
      BY DEF Newest
    <3> QED BY <2>1, <3>1, <3>2
  <2> QED BY <2>1, <2>2
<1>3. \/ UNCHANGED evHeld
      \/ \E p \in EvPage : \E held : evHeld' = [evHeld EXCEPT ![p] = held]
  BY Zenon DEF EvNext, EvRecord, EvPoll, EvHide, EvShow, EvAnswer, EvFail,
     EvReload, evVars
<1>4. \/ UNCHANGED evSeen
      \/ \E p \in EvPage : \E seen : evSeen' = [evSeen EXCEPT ![p] = seen]
  BY Zenon DEF EvNext, EvRecord, EvPoll, EvHide, EvShow, EvAnswer, EvFail,
     EvReload, evVars
<1>5. \/ UNCHANGED evHidden
      \/ \E p \in EvPage : \E hidden \in {TRUE, FALSE} :
           evHidden' = [evHidden EXCEPT ![p] = hidden]
  BY Zenon DEF EvNext, EvRecord, EvPoll, EvHide, EvShow, EvAnswer, EvFail,
     EvReload, evVars
<1>6. evHeld' \in [EvPage -> SUBSET (1..EvTotal)]
  BY <1>2, <1>3
<1>7. evSeen' \in [EvPage -> SUBSET (1..EvTotal)]
  BY <1>2, <1>4
<1>8. evHidden' \in [EvPage -> {TRUE, FALSE}]
  BY <1>5
<1> QED BY <1>6, <1>7, <1>8

(***************************************************************************)
(* Alert rollup and acknowledgements.                                      *)
(***************************************************************************)
\* What is acknowledged, in storage or in memory, the operator acknowledged,
\* until then, by a press that still counts.
PressedIn(map, pressed) ==
    \A s \in Slot : map[s] # NoAck =>
        \E x \in pressed : /\ x.id = s /\ x.content = map[s].content
                            /\ x.until = map[s].until
AlShape ==
    /\ DOMAIN alAcks = Slot /\ DOMAIN alMemory = Slot
    /\ \A al \in alVisible \cup alHidden : al.id \in Slot
AlInv == /\ AlShape
         /\ PressedIn(alAcks, alPressed) /\ PressedIn(alMemory, alPressed)
         /\ HiddenOnlyByOperator

\* Nothing is acknowledged at first.
LEMMA AlStarts == AlInit => AlInv
BY DEF AlInit, AlInv, AlShape, PressedIn, HiddenOnlyByOperator, NoAcks

\* Every alert of the rollup has a slot.
LEMMA AlRollupIds == \A al \in Rollup(PillNodes)' : al.id \in Slot
<1>1. ASSUME NEW al \in Rollup(PillNodes)'
      PROVE  \E s \in Slot : \E level, content : al = Alert(s, level, content)
  <2>1. /\ "machines-offline" \in Slot /\ "wsl-keepalive" \in Slot
        /\ "success-rate" \in Slot /\ "hosted-runners" \in Slot
    BY DEF Slot
  <2> QED BY <2>1, Zenon DEF Rollup
<1>2. \A s \in Slot : \A level, content : Alert(s, level, content).id = s
  BY DEF Alert
<1>3. ASSUME NEW al \in Rollup(PillNodes)' PROVE al.id \in Slot
  <2>1. PICK s \in Slot : \E level, content : al = Alert(s, level, content)
    BY <1>1
  <2>2. al.id = s
    BY <1>2, <2>1
  <2> QED BY <2>2
<1> QED BY <1>3

\* A render under records the operator made hides only what they cover now.
LEMMA AlRenders ==
  ASSUME NEW map, RenderWith(map), PressedIn(map, alPressed')
  PROVE  /\ \A al \in alVisible' \cup alHidden' : al.id \in Slot
         /\ HiddenOnlyByOperator'
<1>1. \A al \in alVisible' \cup alHidden' : al \in Rollup(PillNodes)'
  BY Zenon DEF RenderWith
<1>2. \A al \in alVisible' \cup alHidden' : al.id \in Slot
  BY <1>1, AlRollupIds, Zenon
<1>3. \A al \in alHidden' : /\ map[al.id] # NoAck /\ map[al.id].content = al.content
                            /\ map[al.id].until > alRendered'
  BY Zenon DEF RenderWith, IsAcked
<1>4. HiddenOnlyByOperator'
  BY <1>2, <1>3 DEF PressedIn, HiddenOnlyByOperator
<1> QED BY <1>2, <1>4

\* The records read, from storage or from memory, are ones the operator made.
LEMMA AlReads ==
  ASSUME AlInv, NEW broken
  PROVE  DOMAIN Stored(broken) = Slot /\ PressedIn(Stored(broken), alPressed)
<1>1. Stored(broken) = alMemory \/ Stored(broken) = alAcks
  BY DEF Stored
<1> QED BY <1>1 DEF AlInv, AlShape

\* Records that are written: the presses that still count cover the new ones,
\* and those that storage kept when it refused them.
LEMMA AlWrites ==
  ASSUME AlInv, NEW map, NEW read, NEW write \in BOOLEAN, NEW id, NEW presses,
         DOMAIN map = Slot, Writes(map, read, write), Pressed(id, write, presses),
         RenderWith(map), PressedIn(map, alPressed')
  PROVE  AlInv'
<1>1. alMemory' = map /\ ((write /\ alAcks' = alAcks) \/ (~write /\ alAcks' = map))
  BY Zenon DEF Writes
<1>2. write => \A x \in alPressed : x \in alPressed'
  BY DEF Pressed
<1>3. write => PressedIn(alAcks, alPressed')
  BY <1>2 DEF AlInv, PressedIn
<1>4. PressedIn(alAcks', alPressed') /\ PressedIn(alMemory', alPressed')
  BY <1>1, <1>3
<1>5. DOMAIN alAcks' = Slot /\ DOMAIN alMemory' = Slot
  BY <1>1 DEF AlInv, AlShape
<1>6. /\ \A l \in alVisible' \cup alHidden' : l.id \in Slot
      /\ HiddenOnlyByOperator'
  BY AlRenders
<1> QED BY <1>4, <1>5, <1>6 DEF AlInv, AlShape, PressedIn

\* A record taken of a listed alert is one the operator made.
LEMMA AlAcks ==
  ASSUME AlInv, NEW al, NEW until, Ack(al, until)
  PROVE  AlInv'
<1> DEFINE x == [id |-> al.id, content |-> al.content, until |-> until]
<1>1. PICK read \in BOOLEAN, write \in BOOLEAN :
        LET map == [Stored(alBroken \/ read) EXCEPT
                      ![al.id] = [content |-> al.content, until |-> until]]
        IN /\ al \in alVisible
           /\ Writes(map, read, write) /\ RenderWith(map)
           /\ Pressed(al.id, write, {x})
  BY Zenon DEF Ack
<1> DEFINE held == Stored(alBroken \/ read)
           map == [held EXCEPT ![al.id] = [content |-> al.content, until |-> until]]
<1>2. al.id \in Slot
  BY <1>1 DEF AlInv, AlShape
<1>3. DOMAIN held = Slot /\ PressedIn(held, alPressed)
  BY AlReads
<1>4. Writes(map, read, write) /\ RenderWith(map) /\ Pressed(al.id, write, {x})
  BY <1>1
<1> HIDE DEF held
<1>5. DOMAIN map = Slot
  BY <1>3
<1>6. PressedIn(map, alPressed')
  <2> SUFFICES ASSUME NEW s \in Slot, map[s] # NoAck
               PROVE  \E y \in alPressed' : /\ y.id = s /\ y.content = map[s].content
                                            /\ y.until = map[s].until
    BY DEF PressedIn
  <2>1. CASE s = al.id
    <3>1. map[s] = [content |-> al.content, until |-> until]
      BY <1>2, <1>3, <2>1
    <3>2. /\ x \in alPressed' /\ x.id = s /\ x.content = map[s].content
          /\ x.until = map[s].until
      BY <1>4, <2>1, <3>1 DEF Pressed
    <3> QED BY <3>2
  <2>2. CASE s # al.id
    <3>1. map[s] = held[s]
      BY <1>2, <1>3, <2>2
    <3>2. PICK y \in alPressed : /\ y.id = s /\ y.content = held[s].content
                                 /\ y.until = held[s].until
      BY <1>3, <3>1 DEF PressedIn
    <3>3. y \in alPressed'
      BY <1>4, <2>2, <3>2 DEF Pressed
    <3> QED BY <3>1, <3>2, <3>3
  <2> QED BY <2>1, <2>2
<1> HIDE DEF map, x
<1> QED BY <1>4, <1>5, <1>6, AlWrites

\* An acknowledgement taken back leaves those of the other slots.
LEMMA AlUnacks == ASSUME AlInv, AlUnack PROVE AlInv'
<1>1. PICK al \in alHidden, read \in BOOLEAN, write \in BOOLEAN :
        LET held == Stored(alBroken \/ read)
            map == [held EXCEPT ![al.id] = NoAck]
        IN /\ IF held[al.id] = NoAck
                THEN Reads(read) /\ UNCHANGED alPressed
                ELSE Writes(map, read, write) /\ Pressed(al.id, write, {})
           /\ RenderWith(map)
  BY Zenon DEF AlUnack
<1> DEFINE held == Stored(alBroken \/ read)
           map == [held EXCEPT ![al.id] = NoAck]
<1>2. DOMAIN held = Slot /\ PressedIn(held, alPressed)
  BY AlReads
<1>3. /\ RenderWith(map)
      /\ \/ Reads(read) /\ UNCHANGED alPressed
         \/ Writes(map, read, write) /\ Pressed(al.id, write, {})
  BY <1>1, Zenon
<1>4. al.id \in Slot
  BY <1>1 DEF AlInv, AlShape
<1> HIDE DEF held
<1>5. /\ DOMAIN map = Slot
      /\ \A s \in Slot : map[s] = IF s = al.id THEN NoAck ELSE held[s]
  BY <1>2
<1>6. PressedIn(map, alPressed')
  <2> SUFFICES ASSUME NEW s \in Slot, map[s] # NoAck
               PROVE  \E y \in alPressed' : /\ y.id = s /\ y.content = map[s].content
                                            /\ y.until = map[s].until
    BY DEF PressedIn
  <2>1. s # al.id /\ map[s] = held[s]
    BY <1>5
  <2>2. PICK y \in alPressed : /\ y.id = s /\ y.content = held[s].content
                               /\ y.until = held[s].until
    BY <1>2, <2>1 DEF PressedIn
  <2>3. y \in alPressed'
    BY <1>3, <2>1, <2>2 DEF Pressed
  <2> QED BY <2>1, <2>2, <2>3
<1> HIDE DEF map
<1>7. CASE Reads(read) /\ UNCHANGED alPressed
  <2>1. UNCHANGED <<alAcks, alMemory, alPressed>>
    BY <1>7 DEF Reads
  <2>2. /\ \A l \in alVisible' \cup alHidden' : l.id \in Slot
        /\ HiddenOnlyByOperator'
    BY <1>3, <1>6, AlRenders
  <2> QED BY <2>1, <2>2 DEF AlInv, AlShape, PressedIn
<1>8. CASE Writes(map, read, write) /\ Pressed(al.id, write, {})
  BY <1>3, <1>5, <1>6, <1>8, AlWrites
<1> QED BY <1>3, <1>7, <1>8

\* No poll, press, tick, reload or broken storage breaks them.
LEMMA AlStays == AlInv /\ [AlNext]_alVars => AlInv'
<1> SUFFICES ASSUME AlInv, [AlNext]_alVars PROVE AlInv'
  OBVIOUS
<1>1. CASE AlPoll
  <2>1. PICK refused \in BOOLEAN :
          /\ Reads(refused) /\ RenderWith(Stored(alBroken \/ refused))
          /\ UNCHANGED alPressed
    BY <1>1, Zenon DEF AlPoll
  <2>2. UNCHANGED <<alAcks, alMemory>>
    BY <2>1 DEF Reads
  <2>3. PressedIn(Stored(alBroken \/ refused), alPressed')
    BY <2>1, AlReads
  <2>4. /\ \A l \in alVisible' \cup alHidden' : l.id \in Slot
        /\ HiddenOnlyByOperator'
    BY <2>1, <2>3, AlRenders
  <2> QED BY <2>1, <2>2, <2>4 DEF AlInv, AlShape, PressedIn
<1>2. CASE AlAcknowledge \/ AlSnooze
  BY <1>2, AlAcks DEF AlAcknowledge, AlSnooze
<1>3. CASE AlUnack
  BY <1>3, AlUnacks
<1>4. CASE AlTick \/ UNCHANGED alVars
  <2>1. UNCHANGED <<alAcks, alMemory, alVisible, alHidden, alRendered, alPressed>>
    BY <1>4, Zenon DEF AlTick, alVars, alStore, alRender
  <2> QED BY <2>1 DEF AlInv, AlShape, PressedIn, HiddenOnlyByOperator
<1>5. CASE AlReload
  BY <1>5 DEF AlReload, AlInv, AlShape, PressedIn, HiddenOnlyByOperator, NoAcks
<1> QED BY <1>1, <1>2, <1>3, <1>4, <1>5 DEF AlNext

\* What the types add.
AlKinds ==
    /\ alLive \in Slot
    /\ alNodes \in [Machine -> {"absent", "online", "offline"}]
    /\ alRunners \in [Machine -> {"none", "online", "offline"}]
    /\ alWatchdog \in {"missing", "healthy", "degraded", "legacy"}
    /\ alRate \in {"unknown", "good", "below70", "below40"}
    /\ alViolations \in 0..2
    /\ alClock \in 0..AlMaxClock
    /\ alRendered \in 0..alClock
AlFlag == alBroken \in BOOLEAN

\* The documents, the clock and the slot followed keep their kinds.
LEMMA AlKindsStay == (AlInit => AlKinds) /\ (AlKinds /\ [AlNext]_alVars => AlKinds')
<1> USE AlAssumption DEF AlKinds, alDocs
<1>0. /\ [m \in Machine |-> "absent"] \in [Machine -> {"absent", "online", "offline"}]
      /\ [m \in Machine |-> "none"] \in [Machine -> {"none", "online", "offline"}]
  OBVIOUS
<1>1. AlInit => AlKinds
  BY <1>0 DEF AlInit
<1>2. ASSUME AlKinds, AlPoll PROVE AlKinds'
  <2>1. /\ alNodes' \in [Machine -> {"absent", "online", "offline"}]
        /\ alRunners' \in [Machine -> {"none", "online", "offline"}]
        /\ alWatchdog' \in {"missing", "healthy", "degraded", "legacy"}
        /\ alRate' \in {"unknown", "good", "below70", "below40"}
        /\ alViolations' \in 0..2
    BY <1>2 DEF AlPoll
  <2>2. UNCHANGED <<alLive, alClock>> /\ alRendered' = alClock
    BY <1>2, Zenon DEF AlPoll, RenderWith
  <2> QED BY <1>2, <2>1, <2>2
<1>3. ASSUME AlKinds, AlTick PROVE AlKinds'
  BY <1>3 DEF AlTick, alRender
<1>4. ASSUME AlKinds, NEW al, NEW until, Ack(al, until) PROVE AlKinds'
  <2>1. UNCHANGED <<alDocs, alClock>> /\ alRendered' = alClock
    BY <1>4, Zenon DEF Ack, RenderWith
  <2> QED BY <1>4, <2>1
<1>5. ASSUME AlKinds, AlAcknowledge \/ AlSnooze PROVE AlKinds'
  BY <1>4, <1>5, Zenon DEF AlAcknowledge, AlSnooze
<1>6. ASSUME AlKinds, AlUnack PROVE AlKinds'
  <2>1. UNCHANGED <<alDocs, alClock>> /\ alRendered' = alClock
    BY <1>6, Zenon DEF AlUnack, RenderWith
  <2> QED BY <1>6, <2>1
<1>7. ASSUME AlKinds, AlReload PROVE AlKinds'
  BY <1>0, <1>7 DEF AlReload
<1>8. ASSUME AlKinds, UNCHANGED alVars PROVE AlKinds'
  BY <1>8 DEF alVars, alRender
<1> QED BY <1>1, <1>2, <1>3, <1>5, <1>6, <1>7, <1>8 DEF AlNext

\* Storage is broken or not.
LEMMA AlFlagStays == (AlInit => AlFlag) /\ (AlFlag /\ [AlNext]_alVars => AlFlag')
<1>1. AlInit => AlFlag
  BY Zenon DEF AlFlag, AlInit
<1>2. ASSUME AlFlag, AlNext PROVE AlFlag'
  <2>1. \/ UNCHANGED alBroken \/ alBroken' = FALSE
        \/ \E read, write \in BOOLEAN : alBroken' = (alBroken \/ read \/ write)
        \/ \E read \in BOOLEAN : alBroken' = (alBroken \/ read)
    BY <1>2, Zenon DEF AlNext, AlPoll, AlTick, AlAcknowledge, AlSnooze, Ack, AlUnack,
       AlReload, Reads, Writes, alStore
  <2> QED BY <1>2, <2>1 DEF AlFlag
<1> QED BY <1>1, <1>2 DEF AlFlag, alVars, alStore

(***************************************************************************)
(* Machine cards.  What a card says is a function of the documents held.   *)
(***************************************************************************)

\* A card of a machine with a node that answers is not shown offline.
LEMMA McLive == LiveNeverOffline
<1> SUFFICES ASSUME NEW name \in MachineNames, HasOnline(name),
                    NEW d \in BestNodes(name)
             PROVE  /\ ResolveVisibility(d, TRUE) \notin {"offline", "dashboard_only"}
                    /\ Dot(d, TRUE) # "red"
  BY DEF LiveNeverOffline
<1>1. VisibilitySnapshot(d, TRUE) \in {"degraded", "full_telemetry", "runners_only"}
  BY DEF VisibilitySnapshot
<1>2. ResolveVisibility(d, TRUE) \notin {"offline", "dashboard_only"}
  BY <1>1 DEF ResolveVisibility
<1>3. Dot(d, TRUE) # "red"
  BY DEF Dot, IsLive
<1> QED BY <1>2, <1>3

\* The score of a node that is online, reachable and has metrics, and of one
\* that neither has metrics nor is the dashboard's own.
LEMMA McScores ==
  ASSUME NEW d
  PROVE  /\ d.online /\ d.reachable /\ NodeHasSystemMetrics(d) =>
              NodeQualityScore(d) \in Int /\ NodeQualityScore(d) >= 110
         /\ ~NodeHasSystemMetrics(d) /\ ~d.local =>
              NodeQualityScore(d) \in Int /\ NodeQualityScore(d) <= 65
<1>1. /\ Points(d.local, 100) \in {0, 100}
      /\ Points(d.reachable, 40) \in {0, 40}
      /\ Points(d.online, 20) \in {0, 20}
      /\ Points(NodeHasSystemMetrics(d), 60) \in {0, 60}
      /\ Points(d.role = "hub", 5) \in {0, 5}
      /\ Points(d.role = "runner_pool", 10) \in {0, 10}
  BY DEF Points
<1>2. ASSUME d.online, d.reachable, NodeHasSystemMetrics(d)
      PROVE  /\ Points(d.reachable, 40) = 40 /\ Points(d.online, 20) = 20
             /\ Points(NodeHasSystemMetrics(d), 60) = 60
  BY <1>2 DEF Points
<1>3. ASSUME ~NodeHasSystemMetrics(d), ~d.local
      PROVE  Points(d.local, 100) = 0 /\ Points(NodeHasSystemMetrics(d), 60) = 0
  BY <1>3 DEF Points
<1>4. ASSUME d.online, d.reachable, NodeHasSystemMetrics(d)
      PROVE  NodeQualityScore(d) \in Int /\ NodeQualityScore(d) >= 110
  <2>1. PICK l \in {0, 100}, h \in {0, 5}, r \in {0, 10} :
          /\ Points(d.local, 100) = l /\ Points(d.role = "hub", 5) = h
          /\ Points(d.role = "runner_pool", 10) = r
    BY <1>1
  <2>2. NodeQualityScore(d) = l + 40 + 20 + 60 + h - r
    BY <1>2, <1>4, <2>1, Zenon DEF NodeQualityScore
  <2> QED BY <2>2
<1>5. ASSUME ~NodeHasSystemMetrics(d), ~d.local
      PROVE  NodeQualityScore(d) \in Int /\ NodeQualityScore(d) <= 65
  BY <1>1, <1>3, <1>5 DEF NodeQualityScore
<1> QED BY <1>4, <1>5

\* A live node that has telemetry is passed over for the local one only, or
\* for another that has it.
LEMMA McBest == BestTelemetryWins
<1> SUFFICES ASSUME NEW name \in MachineNames,
                    NEW w \in NodesOf(name),
                    w.online, w.reachable, NodeHasSystemMetrics(w),
                    NEW d \in BestNodes(name)
             PROVE  NodeHasSystemMetrics(d) \/ d.local
  BY DEF BestTelemetryWins
<1>1. NodeQualityScore(d) >= NodeQualityScore(w)
  BY DEF BestNodes
<1> QED BY <1>1, McScores

McInv == /\ mcNodes \subseteq McNodeDoc /\ mcRunners \subseteq McRunnerDoc
         /\ mcFlight \in 0..McLoads

\* What is held are documents that occur, and the loads out are counted.
LEMMA McStays == (McInit => McInv) /\ (McInv /\ [McNext]_mcVars => McInv')
BY McAssumption DEF McInit, McInv, McNext, McRetry, McAsk, McLoaded, McFailed,
   McRemount, mcVars

\* What the types add.
McFlags == {mcLoading, mcError} \subseteq BOOLEAN

\* The flags are Booleans, and stay so.
LEMMA McFlagsStay == (McInit => McFlags) /\ (McFlags /\ [McNext]_mcVars => McFlags')
<1> USE DEF McFlags
<1>1. McInit => McFlags
  BY Zenon DEF McInit
<1>2. ASSUME McFlags, McRetry PROVE McFlags'
  BY <1>2, Zenon DEF McRetry, McAsk
<1>3. ASSUME McFlags, McLoaded PROVE McFlags'
  BY <1>3, Zenon DEF McLoaded
<1>4. ASSUME McFlags, McFailed PROVE McFlags'
  BY <1>4, Zenon DEF McFailed
<1>5. ASSUME McFlags, McRemount PROVE McFlags'
  BY <1>5, Zenon DEF McRemount
<1>6. ASSUME McFlags, UNCHANGED mcVars PROVE McFlags'
  BY <1>6, Zenon DEF mcVars
<1> QED BY <1>1, <1>2, <1>3, <1>4, <1>5, <1>6 DEF McNext

(***************************************************************************)
(* Analysis and statistics.                                                *)
(***************************************************************************)
AnShape ==
    /\ anTab \in AnTabs /\ anStored \in AnTabs
    /\ anQuery \in AnQueries /\ anRows \in AnQueries \cup {AnNone}
    /\ anFlight \in Seq({"collect"} \cup AnQueries) /\ Len(anFlight) <= AnFlights
    /\ {anSelected, anDetail} \subseteq AnItem \cup {AnNone}
    /\ anDetailFlight \in Seq(AnItem) /\ Len(anDetailFlight) <= AnFlights
AnInv == AnShape /\ AnSpinner

\* A sub-tab that is mounted waits only for what it sent.
LEMMA AnMounts ==
  ASSUME NEW tab \in AnTabs, NEW q \in AnQueries, NEW newest \in AnItem,
         NEW reports, Mounted(tab, q, reports, newest),
         anTab' = tab, anStored' = tab, anQuery' = q
  PROVE  AnInv'
<1>1. anFlight' \in Seq({"collect"} \cup AnQueries) /\ Len(anFlight') <= 1
  <2>1. anFlight' = <<q>> \/ anFlight' = <<>>
    BY Zenon DEF Mounted
  <2>2. CASE anFlight' = <<q>>
    BY <2>2, Single
  <2>3. CASE anFlight' = <<>>
    BY <2>3
  <2> QED BY <2>1, <2>2, <2>3
<1>2. anDetailFlight' \in Seq(AnItem) /\ Len(anDetailFlight') <= 1
  <2>1. anDetailFlight' = <<newest>> \/ anDetailFlight' = <<>>
    BY Zenon DEF Mounted
  <2>2. CASE anDetailFlight' = <<newest>>
    BY <2>2, Single
  <2>3. CASE anDetailFlight' = <<>>
    BY <2>3
  <2> QED BY <2>1, <2>2, <2>3
<1>3. anSelected' \in AnItem \cup {AnNone} /\ anDetail' = AnNone /\ anRows' = AnNone
  BY DEF Mounted
<1>4. anLoading' => tab \in AnTables \/ (tab = "reports" /\ reports)
  BY Zenon DEF Mounted
<1>5. /\ tab \in AnTables => anFlight' = <<q>>
      /\ tab = "reports" /\ reports => anDetailFlight' = <<newest>>
  BY Zenon DEF Mounted
<1>6. AnSpinner'
  BY <1>4, <1>5, Single DEF AnSpinner
<1> QED BY <1>1, <1>2, <1>3, <1>6, AnAssumption DEF AnInv, AnShape

\* A sub-tab opens with what it lists out.
LEMMA AnStarts == AnInit => AnInv
<1> SUFFICES ASSUME AnInit PROVE AnInv
  OBVIOUS
<1>1. anFlight \in Seq({"collect"} \cup AnQueries) /\ Len(anFlight) <= 1
  <2>1. CASE anTab \in AnTables
    BY <2>1, Single DEF AnInit
  <2>2. CASE anTab \notin AnTables
    BY <2>2 DEF AnInit
  <2> QED BY <2>1, <2>2
<1>2. anLoading => anFlight # <<>>
  BY DEF AnInit
<1> QED BY <1>1, <1>2, AnAssumption DEF AnInit, AnInv, AnShape, AnSpinner

\* What is asked for is out.
LEMMA AnRequested ==
  ASSUME AnInv, NEW what \in {"collect"} \cup AnQueries, AnRequest(what)
  PROVE  /\ anFlight' \in Seq({"collect"} \cup AnQueries)
         /\ Len(anFlight') <= AnFlights
         /\ anFlight' # <<>>
BY AnAssumption DEF AnInv, AnShape, AnRequest

\* A detail asked for is out.
LEMMA AnAsked ==
  ASSUME AnInv, NEW item \in AnItem, AnAsk(item)
  PROVE  /\ anDetailFlight' \in Seq(AnItem) /\ Len(anDetailFlight') <= AnFlights
         /\ anDetailFlight' # <<>> /\ anSelected' = item
BY AnAssumption DEF AnInv, AnShape, AnAsk

\* No switch, query, selection or answer breaks them.
LEMMA AnStays == AnInv /\ [AnNext]_anVars => AnInv'
<1> SUFFICES ASSUME AnInv, [AnNext]_anVars PROVE AnInv'
  OBVIOUS
<1> USE DEF AnInv, AnShape, AnSpinner
<1>1. CASE AnSwitch
  BY <1>1, AnMounts DEF AnSwitch
<1>2. CASE AnReportsCome
  <2>1. PICK newest \in AnItem :
          /\ IF anTab = "reports" /\ anSelected = AnNone
               THEN AnAsk(newest) /\ anLoading' = TRUE
               ELSE UNCHANGED <<anSelected, anDetailFlight, anLoading>>
          /\ UNCHANGED <<anTab, anStored, anQuery, anRows, anFlight, anDetail, anStuck>>
    BY <1>2 DEF AnReportsCome
  <2> QED BY <2>1, AnAsked
<1>3. CASE AnRequery
  <2>1. PICK q \in AnQueries :
          /\ anQuery' = q /\ anSelected' = AnNone /\ anDetail' = AnNone
          /\ AnRequest(q)
          /\ UNCHANGED <<anTab, anStored, anReports, anRows, anDetailFlight, anStuck>>
    BY <1>3 DEF AnRequery
  <2> QED BY <2>1, AnRequested
<1>4. CASE AnRefresh
  BY <1>4, AnRequested DEF AnRefresh
<1>5. CASE AnCollect
  BY <1>5, AnRequested DEF AnCollect
<1>6. CASE AnAnswer
  <2>1. PICK n \in 1..Len(anFlight), ok \in BOOLEAN :
          /\ IF anFlight[n] = "collect"
               THEN /\ anFlight' = IF ok THEN Append(RemoveAt(anFlight, n), anQuery)
                                   ELSE RemoveAt(anFlight, n)
                    /\ anLoading' = (ok \/ anLoading)
                    /\ anStuck' = ~ok
                    /\ UNCHANGED anRows
               ELSE /\ anFlight' = RemoveAt(anFlight, n)
                    /\ anLoading' = FALSE
                    /\ anRows' = IF ok THEN anFlight[n] ELSE anRows
                    /\ anStuck' = FALSE
          /\ UNCHANGED <<anTab, anStored, anReports, anQuery, anSelected,
                         anDetail, anDetailFlight>>
    BY <1>6, Zenon DEF AnAnswer
  <2>2. /\ RemoveAt(anFlight, n) \in Seq({"collect"} \cup AnQueries)
        /\ Len(RemoveAt(anFlight, n)) = Len(anFlight) - 1
    BY Removed
  <2>3. /\ Append(RemoveAt(anFlight, n), anQuery) \in Seq({"collect"} \cup AnQueries)
        /\ Len(Append(RemoveAt(anFlight, n), anQuery)) = Len(anFlight)
        /\ Append(RemoveAt(anFlight, n), anQuery) # <<>>
    BY <2>2
  <2>4. anRows' \in AnQueries \cup {AnNone}
    BY <2>1, anFlight[n] \in {"collect"} \cup AnQueries
  <2>5. /\ anFlight' \in Seq({"collect"} \cup AnQueries)
        /\ Len(anFlight') <= AnFlights
    <3>1. anFlight' \in {RemoveAt(anFlight, n), Append(RemoveAt(anFlight, n), anQuery)}
      BY <2>1, Zenon
    <3>2. Len(anFlight) \in Nat /\ Len(anFlight) <= AnFlights /\ AnFlights \in Nat
      BY AnAssumption
    <3>3. Len(RemoveAt(anFlight, n)) <= AnFlights
      BY <3>2, <2>2
    <3>4. CASE anFlight' = RemoveAt(anFlight, n)
      BY <3>4, <3>3, <2>2, Zenon
    <3>5. CASE anFlight' = Append(RemoveAt(anFlight, n), anQuery)
      BY <3>5, <3>2, <2>3, Zenon
    <3> QED BY <3>1, <3>4, <3>5, Zenon
  <2>6. anLoading' => anFlight' # <<>> \/ anStuck'
    <3>1. CASE anFlight[n] = "collect" /\ ok
      BY <2>1, <2>3, <3>1
    <3>2. CASE ~(anFlight[n] = "collect" /\ ok)
      BY <2>1, <3>2, Zenon
    <3> QED BY <3>1, <3>2
  <2> QED BY <2>1, <2>4, <2>5, <2>6
<1>7. CASE AnSelect
  <2>1. PICK item \in AnItem :
          /\ \/ anTab = "stats" \/ anTab = "reports"
          /\ AnAsk(item)
          /\ anLoading' = (anLoading \/ anTab = "reports")
          /\ UNCHANGED <<anTab, anStored, anReports, anQuery, anRows, anFlight,
                         anDetail, anStuck>>
    BY <1>7, Zenon DEF AnSelect
  <2>2. anLoading' => anLoading \/ anTab = "reports"
    BY <2>1, Zenon
  <2> QED BY <2>1, <2>2, AnAsked
<1>8. CASE AnDeselect
  BY <1>8 DEF AnDeselect
<1>9. CASE AnDetailComes
  <2>1. PICK n \in 1..Len(anDetailFlight), ok \in BOOLEAN :
          /\ anDetailFlight' = RemoveAt(anDetailFlight, n)
          /\ anDetail' = IF ok THEN anDetailFlight[n] ELSE anDetail
          /\ anLoading' = (anLoading /\ anTab # "reports")
          /\ UNCHANGED <<anTab, anStored, anReports, anQuery, anRows, anFlight,
                         anSelected, anStuck>>
    BY <1>9, Zenon DEF AnDetailComes
  <2>2. anLoading' => anLoading /\ anTab # "reports"
    BY <2>1, Zenon
  <2>3. anDetailFlight' \in Seq(AnItem) /\ Len(anDetailFlight') = Len(anDetailFlight) - 1
    BY <2>1, Removed
  <2>4. anDetail' \in AnItem \cup {AnNone}
    BY <2>1
  <2>5. Len(anDetailFlight') <= AnFlights
    BY <2>3, AnAssumption
  <2> QED BY <2>1, <2>2, <2>3, <2>4, <2>5
<1>10. CASE UNCHANGED anVars
  BY <1>10 DEF anVars, anMounted
<1> QED BY <1>1, <1>2, <1>3, <1>4, <1>5, <1>6, <1>7, <1>8, <1>9, <1>10 DEF AnNext

\* What the types add.
AnFlags == {anReports, anLoading, anStuck} \subseteq BOOLEAN

\* The flags are Booleans, and stay so.
LEMMA AnFlagsStay == (AnInit => AnFlags) /\ (AnFlags /\ [AnNext]_anVars => AnFlags')
<1> USE DEF AnFlags, anMounted
<1>1. AnInit => AnFlags
  <2>1. (anTab \in AnTables) = TRUE \/ (anTab \in AnTables) = FALSE
    OBVIOUS
  <2> QED BY <2>1, Zenon DEF AnInit
<1>2. ASSUME AnFlags, AnSwitch PROVE AnFlags'
  BY <1>2, Zenon DEF AnSwitch, Mounted
<1>3. ASSUME AnFlags, AnReportsCome PROVE AnFlags'
  BY <1>3, Zenon DEF AnReportsCome, AnAsk
<1>4. ASSUME AnFlags, AnRequery PROVE AnFlags'
  BY <1>4, Zenon DEF AnRequery, AnRequest
<1>5. ASSUME AnFlags, AnRefresh PROVE AnFlags'
  BY <1>5, Zenon DEF AnRefresh, AnRequest
<1>6. ASSUME AnFlags, AnCollect PROVE AnFlags'
  BY <1>6, Zenon DEF AnCollect, AnRequest
<1>7. ASSUME AnFlags, AnAnswer PROVE AnFlags'
  BY <1>7, Zenon DEF AnAnswer
<1>8. ASSUME AnFlags, AnSelect PROVE AnFlags'
  BY <1>8, Zenon DEF AnSelect, AnAsk
<1>9. ASSUME AnFlags, AnDeselect PROVE AnFlags'
  BY <1>9, Zenon DEF AnDeselect
<1>10. ASSUME AnFlags, AnDetailComes PROVE AnFlags'
  BY <1>10, Zenon DEF AnDetailComes
<1>11. ASSUME AnFlags, UNCHANGED anVars PROVE AnFlags'
  BY <1>11, Zenon DEF anVars
<1> QED BY <1>1, <1>2, <1>3, <1>4, <1>5, <1>6, <1>7, <1>8, <1>9, <1>10,
  <1>11 DEF AnNext

(***************************************************************************)
(* Pages that only read.                                                   *)
(***************************************************************************)
RpShape ==
    /\ rpPage \in RpPages
    /\ rpRows \subseteq RpRow /\ rpFilter \subseteq RpRow
    /\ rpKnown \in {"none", "ok", "refused"}
    /\ rpError \in {"none", "refused", "lost"}
    /\ rpFlight \in 0..RpFlights /\ rpChecks \in 0..RpFlights
    /\ rpSheet \in RpRow \cup {RpNone}
RpInv == RpShape /\ RpSpinner

\* A page opens with its load out.
LEMMA RpStarts == RpInit => RpInv
BY RpAssumption DEF RpInit, RpInv, RpShape, RpSpinner

\* Whatever a page makes of an answer is rows of its own and an error.
LEMMA RpLoads ==
  ASSUME RpInv, NEW kind \in {"ok", "refused", "lost"}, NEW rows \in SUBSET RpRow
  PROVE  /\ Loads(kind, rows).rows \subseteq RpRow
         /\ Loads(kind, rows).known \in {"none", "ok", "refused"}
         /\ Loads(kind, rows).error \in {"none", "refused", "lost"}
<1> DEFINE Told(answer) ==
      /\ answer.rows \subseteq RpRow
      /\ answer.known \in {"none", "ok", "refused"}
      /\ answer.error \in {"none", "refused", "lost"}
<1>1. Told(Shows(rows, "ok")) /\ Told(Shows({}, "refused")) /\ Told(Unchanged)
  BY DEF RpInv, RpShape, Shows, Unchanged
<1>2. kind # "ok" => Told(Fails(kind))
  BY DEF RpInv, RpShape, Fails
<1>3. Told([rows |-> {}, known |-> "none", error |-> "lost"])
  OBVIOUS
<1> HIDE DEF Told
<1>4. /\ Told(LabelGuideLoads(kind, rows)) /\ Told(OrgLoads(kind, rows))
      /\ Told(ReportsLoad(kind, rows)) /\ Told(FleetLoads(kind, rows))
      /\ Told(AssessmentsLoad(kind, rows)) /\ Told(TestsLoad(kind, rows))
      /\ Told(LinearLoads(kind, rows))
  BY <1>1, <1>2 DEF LabelGuideLoads, OrgLoads, ReportsLoad, FleetLoads,
     AssessmentsLoad, TestsLoad, LinearLoads
<1>5. Told(LocalAppsLoad(kind, rows)) /\ Told(ScheduledLoad(kind, rows))
  BY <1>1 DEF LocalAppsLoad, ScheduledLoad
<1>6. Told(AuditLoads(kind, rows))
  BY <1>1, <1>3 DEF AuditLoads
<1>7. Told(Loads(kind, rows))
  BY <1>4, <1>5, <1>6 DEF Loads, RpInv, RpShape, RpPages
<1> QED BY <1>7 DEF Told

\* A load asked for again is out.
LEMMA RpAsksAgain ==
  ASSUME RpInv, AskAgain
  PROVE  /\ rpFlight' \in 1..RpFlights
         /\ rpError' \in {"none", "refused", "lost"}
         /\ UNCHANGED <<rpPage, rpRows, rpKnown>>
BY RpAssumption DEF AskAgain, RpInv, RpShape

\* No load, check, filter, sheet or answer breaks them.
LEMMA RpStays == RpInv /\ [RpNext]_rpVars => RpInv'
<1> SUFFICES ASSUME RpInv, [RpNext]_rpVars PROVE RpInv'
  OBVIOUS
<1> USE RpAssumption DEF RpInv, RpShape, RpSpinner, rpListVars
<1>1. CASE RpAsk
  BY <1>1, RpAsksAgain DEF RpAsk
<1>2. CASE RpPull
  BY <1>2, RpAsksAgain DEF RpPull
<1>3. CASE RpAnswer
  BY <1>3, RpLoads DEF RpAnswer
<1>4. CASE RpCheck
  BY <1>4 DEF RpCheck
<1>5. CASE RpChecked
  BY <1>5 DEF RpChecked
<1>6. CASE RpTimeout
  BY <1>6, RpAsksAgain DEF RpTimeout
<1>7. CASE RpFilterTo
  BY <1>7 DEF RpFilterTo
<1>8. CASE RpOpen
  <2>1. RpScreen.rows \subseteq RpRow
    BY DEF RpScreen, RpPages, LabelGuideScreen, LocalAppsScreen, OrgScreen,
       ScheduledScreen, ReportsScreen, FleetScreen, AuditScreen,
       AssessmentsScreen, TestsScreen, LinearScreen, Screen, Waiting, Broken
  <2> QED BY <1>8, <2>1 DEF RpOpen
<1>9. CASE UNCHANGED rpVars
  BY <1>9 DEF rpVars
<1> QED BY <1>1, <1>2, <1>3, <1>4, <1>5, <1>6, <1>7, <1>8, <1>9 DEF RpNext

\* What the types add.
RpFlags == {rpLoading, rpRefreshing, rpTimer} \subseteq BOOLEAN

\* The flags are Booleans, and stay so.
LEMMA RpFlagsStay == (RpInit => RpFlags) /\ (RpFlags /\ [RpNext]_rpVars => RpFlags')
<1> USE DEF RpFlags, rpListVars
<1>1. RpInit => RpFlags
  BY Zenon DEF RpInit
<1>2. ASSUME RpFlags, RpAsk PROVE RpFlags'
  BY <1>2, Zenon DEF RpAsk, AskAgain
<1>3. ASSUME RpFlags, RpPull PROVE RpFlags'
  BY <1>3, Zenon DEF RpPull, AskAgain
<1>4. ASSUME RpFlags, RpAnswer PROVE RpFlags'
  BY <1>4, Zenon DEF RpAnswer
<1>5. ASSUME RpFlags, RpCheck PROVE RpFlags'
  BY <1>5, Zenon DEF RpCheck
<1>6. ASSUME RpFlags, RpChecked PROVE RpFlags'
  BY <1>6, Zenon DEF RpChecked
<1>7. ASSUME RpFlags, RpTimeout PROVE RpFlags'
  BY <1>7, Zenon DEF RpTimeout, AskAgain
<1>8. ASSUME RpFlags, RpFilterTo PROVE RpFlags'
  BY <1>8, Zenon DEF RpFilterTo
<1>9. ASSUME RpFlags, RpOpen PROVE RpFlags'
  BY <1>9, Zenon DEF RpOpen
<1>10. ASSUME RpFlags, UNCHANGED rpVars PROVE RpFlags'
  BY <1>10, Zenon DEF rpVars
<1> QED BY <1>1, <1>2, <1>3, <1>4, <1>5, <1>6, <1>7, <1>8, <1>9, <1>10 DEF
  RpNext

(***************************************************************************)
(* Services: five pages of which one is mounted.                           *)
(***************************************************************************)
SvShape ==
    /\ svPage \in SvPages
    /\ svLoads \in 0..SvFlights
    /\ SvSpinner
DgInv ==
    /\ dgRestarts \in 0..1
    /\ dgRestarts = 1 => dgRestarting
\* A panel that offers the update shows a machine whose dry run was seen.
DpInv ==
    /\ dpPanel \in [machine: SvNode, stage: Stages] \cup {NoPanel}
    /\ dpDryRuns \in [SvNode -> 0..SvFlights]
    /\ dpSignals \in [SvNode -> 0..SvFlights]
    /\ dpSeen \subseteq SvNode
    /\ dpTimers \in 0..SvFlights
    /\ dpPanel.stage \in {"dry", "confirming"} => dpPanel.machine \in dpSeen
    /\ DpDrySeen
RsInv ==
    /\ rsHeld \in 0..SvFlights /\ rsDraft.of \in 0..SvFlights
    /\ "edited" \in DOMAIN rsDraft /\ "of" \in DOMAIN rsDraft
    /\ DOMAIN rsDraft = {"of", "edited"}
    /\ rsSaves \in 0..SvFlights
\* At most one action is out, and then nothing else is.
CqInv ==
    /\ cqShown \in Modes \cup {SvNone}
    /\ cqActions \in 0..SvFlights /\ cqActions <= 1
    /\ svPage = "conductor" =>
         /\ svLoads <= 1 /\ (svLoads > 0 => svAsking)
         /\ cqActions > 0 => /\ svLoads = 0 /\ cqBusy /\ ~svError /\ ~cqOff
                             /\ cqShown # SvNone
\* An action that is out rests its button.
ClInv ==
    /\ clBusy \subseteq Verbs /\ clPosts \in [Verbs -> 0..SvFlights]
    /\ \A verb \in Verbs : clPosts[verb] > 0 => verb \in clBusy
    /\ ClOneEach
SvInv == SvShape /\ DgInv /\ DpInv /\ RsInv /\ CqInv /\ ClInv

\* A page opens with its load out and nothing sent.
LEMMA SvStarts == SvInit => SvInv
<1> SUFFICES ASSUME SvInit PROVE SvInv
  OBVIOUS
<1>1. SvShape /\ DgInv /\ RsInv /\ ClInv
  BY SvAssumption DEF SvInit, SvShape, SvSpinner, DgInv, RsInv, ClInv, ClOneEach
<1>2. DpInv
  BY SvAssumption DEF SvInit, DpInv, DpDrySeen, NoPanel
<1>3. CqInv
  BY SvAssumption DEF SvInit, CqInv
<1> QED BY <1>1, <1>2, <1>3 DEF SvInv

\* So does one that is opened again, or in place of another.
LEMMA SvOpens == ASSUME SvOpen PROVE SvInv'
<1>1. SvShape' /\ DgInv' /\ RsInv' /\ ClInv'
  BY SvAssumption DEF SvOpen, SvShape, SvSpinner, DgInv, RsInv, ClInv, ClOneEach
<1>2. DpInv'
  BY SvAssumption DEF SvOpen, DpInv, DpDrySeen, NoPanel
<1>3. CqInv'
  BY SvAssumption DEF SvOpen, CqInv
<1> QED BY <1>1, <1>2, <1>3 DEF SvInv

\* A step of another page leaves a part as it is.
LEMMA SvElsewhere ==
  ASSUME SvInv, NEW page, On(page)
  PROVE  /\ page # "diagnostics" => DgInv'
         /\ page # "deployment" => DpInv'
         /\ page # "schedule" => RsInv'
         /\ page # "conductor" => CqInv'
         /\ page # "cline" => ClInv'
         /\ svPage' = svPage /\ svPage = page
<1> USE DEF SvInv
<1>1. svPage' = svPage /\ svPage = page
  BY DEF On, OthersUnchanged
<1>2. ASSUME page # "diagnostics" PROVE DgInv'
  <2>1. UNCHANGED dgVars
    BY <1>2, Zenon DEF On, OthersUnchanged
  <2> QED BY <2>1 DEF DgInv, dgVars
<1>3. ASSUME page # "deployment" PROVE DpInv'
  <2>1. UNCHANGED dpVars
    BY <1>3, Zenon DEF On, OthersUnchanged
  <2> QED BY <2>1 DEF DpInv, DpDrySeen, dpVars
<1>4. ASSUME page # "schedule" PROVE RsInv'
  <2>1. UNCHANGED rsVars
    BY <1>4, Zenon DEF On, OthersUnchanged
  <2> QED BY <2>1 DEF RsInv, rsVars
<1>5. ASSUME page # "conductor" PROVE CqInv'
  <2>1. UNCHANGED cqVars
    BY <1>5, Zenon DEF On, OthersUnchanged
  <2> QED BY <1>1, <1>5, <2>1 DEF CqInv, cqVars
<1>6. ASSUME page # "cline" PROVE ClInv'
  <2>1. UNCHANGED clVars
    BY <1>6, Zenon DEF On, OthersUnchanged
  <2> QED BY <2>1 DEF ClInv, ClOneEach, clVars
<1> QED BY <1>1, <1>2, <1>3, <1>4, <1>5, <1>6

\* Diagnostics: a restart that is out rests its button.
LEMMA DgStays == ASSUME SvInv, DgNext PROVE SvInv'
<1> USE SvAssumption DEF SvInv
<1>1. On("diagnostics")
  BY DEF DgNext, DgRefresh, DgLoaded, DgAsk, DgRestart, DgRestarted, DgLaunchers
<1>2. DpInv' /\ RsInv' /\ CqInv' /\ ClInv' /\ svPage' = svPage
  BY <1>1, SvElsewhere
<1>3. DgInv' /\ svLoads' \in 0..SvFlights /\ SvSpinner'
  <2> USE <1>1 DEF DgInv, SvShape, SvSpinner, RsInv, On, OthersUnchanged, rsVars, dgVars, svLoadVars
  <2>1. CASE DgRefresh
    BY <2>1 DEF DgRefresh, Load
  <2>2. CASE DgLoaded
    BY <2>2 DEF DgLoaded, Loaded
  <2>3. CASE DgAsk
    BY <2>3 DEF DgAsk
  <2>4. CASE DgRestart
    <3>1. ~dgRestarting
      BY <2>4 DEF DgRestart, DgOffered
    <3> QED BY <2>4, <3>1 DEF DgRestart
  <2>5. CASE DgRestarted
    BY <2>5 DEF DgRestarted
  <2>6. CASE DgLaunchers
    BY <2>6 DEF DgLaunchers
  <2> QED BY <2>1, <2>2, <2>3, <2>4, <2>5, <2>6 DEF DgNext
<1> QED BY <1>2, <1>3 DEF SvShape

\* A load out, or as many as before, leaves the sum positive.
LEMMA SumsStay ==
  \A x, y, z \in Nat : /\ x > 0 => x + y > 0
                       /\ x >= z /\ z + y > 0 => x + y > 0
OBVIOUS

\* Deployment: a panel offers the update of a machine seen in a dry run.
LEMMA DpStays == ASSUME SvInv, DpNext PROVE SvInv'
<1> USE SvAssumption DEF SvInv
<1>1. On("deployment")
  BY DEF DpNext, DpLoaded, DpPreview, DpPreviewed, DpClear, DpConfirm,
     DpConfirmed, DpTimeout
<1>2. DgInv' /\ RsInv' /\ CqInv' /\ ClInv' /\ svPage' = svPage
  BY <1>1, SvElsewhere
<1>3. DpInv' /\ svLoads' \in 0..SvFlights
  <2> USE DEF DpInv, SvShape, dpVars, svLoadVars, DpDrySeen, Stages, Panel, NoPanel
  <2>1. CASE DpLoaded
    BY <2>1 DEF DpLoaded, Loaded
  <2>2. CASE DpPreview
    BY <2>2 DEF DpPreview
  <2>3. CASE DpPreviewed
    <3>1. PICK n \in SvNode, stage \in {"dry", "blank", "failed"} :
            /\ dpDryRuns[n] > 0
            /\ Panel(n, stage)
            /\ dpDryRuns' = [dpDryRuns EXCEPT ![n] = @ - 1]
            /\ dpSeen' = IF stage = "dry" THEN dpSeen \cup {n} ELSE dpSeen
            /\ UNCHANGED <<svLoadVars, dpSignals, dpTimers>>
      BY <2>3, Zenon DEF DpPreviewed
    <3>2. dpDryRuns' \in [SvNode -> 0..SvFlights]
      BY <3>1
    <3>3. dpPanel' \in [machine: SvNode, stage: Stages]
      BY <3>1
    <3>4. dpPanel'.stage \in {"dry", "confirming"} => dpPanel'.machine \in dpSeen'
      BY <3>1
    <3> QED BY <3>1, <3>2, <3>3, <3>4
  <2>4. CASE DpClear
    BY <2>4 DEF DpClear
  <2>5. CASE DpConfirm
    <3>1. dpPanel.stage \in {"dry", "confirming"}
      BY <2>5 DEF DpConfirm, DpOffered
    <3>2. dpPanel.machine \in SvNode /\ dpPanel.machine \in dpSeen
      BY <3>1
    <3> QED BY <2>5, <3>2 DEF DpConfirm
  <2>6. CASE DpConfirmed
    <3>1. PICK n \in SvNode, ok \in BOOLEAN :
            /\ dpSignals[n] > 0
            /\ dpSignals' = [dpSignals EXCEPT ![n] = @ - 1]
            /\ Panel(n, IF ok THEN "sent" ELSE "failed")
            /\ IF ok
                 THEN /\ Load /\ dpTimers < SvFlights /\ dpTimers' = dpTimers + 1
                 ELSE UNCHANGED <<svLoads, svAsking, dpTimers>>
            /\ UNCHANGED <<svError, dpDryRuns, dpSeen>>
      BY <2>6, Zenon DEF DpConfirmed
    <3>2. dpSignals' \in [SvNode -> 0..SvFlights] /\ DpDrySeen'
      BY <3>1
    <3>3. /\ dpPanel' \in [machine: SvNode, stage: Stages]
          /\ dpPanel'.stage \notin {"dry", "confirming"}
      BY <3>1
    <3>4. dpTimers' \in 0..SvFlights /\ svLoads' \in 0..SvFlights
      BY <3>1 DEF Load
    <3> QED BY <3>1, <3>2, <3>3, <3>4
  <2>7. CASE DpTimeout
    BY <2>7 DEF DpTimeout, Load
  <2> QED BY <2>1, <2>2, <2>3, <2>4, <2>5, <2>6, <2>7 DEF DpNext
<1>4. SvSpinner'
  <2> USE DEF SvShape, svLoadVars
  <2>1. svPage = "deployment" /\ UNCHANGED rsSaves /\ rsSaves \in Nat /\ svLoads \in Nat
    BY <1>1 DEF On, OthersUnchanged, rsVars, RsInv
  <2>2. \/ ~svAsking' \/ svLoads' > 0
        \/ (svAsking' => svAsking) /\ svLoads' = svLoads
    <3>1. CASE DpLoaded
      BY <3>1, Zenon DEF DpLoaded, Loaded
    <3>2. CASE DpPreview \/ DpPreviewed \/ DpClear \/ DpConfirm
      BY <3>2, Zenon DEF DpPreview, DpPreviewed, DpClear, DpConfirm
    <3>3. CASE DpConfirmed
      <4>1. \/ svLoads' = svLoads + 1
            \/ (svAsking' => svAsking) /\ svLoads' = svLoads
        BY <3>3, Zenon DEF DpConfirmed, Load
      <4> QED BY <2>1, <4>1
    <3>4. CASE DpTimeout
      <4>1. svLoads' = svLoads + 1
        BY <3>4, Zenon DEF DpTimeout, Load
      <4> QED BY <2>1, <4>1
    <3> QED BY <3>1, <3>2, <3>3, <3>4 DEF DpNext
  <2>3. svLoads' \in Nat
    BY <1>3
  <2>4. svLoads' > 0 => svLoads' + rsSaves' > 0
    <3>1. rsSaves' \in Nat
      BY <2>1, Zenon
    <3> QED BY <2>3, <3>1, SumsStay, Zenon
  <2>5. svAsking => svLoads + rsSaves > 0
    BY <2>1 DEF SvSpinner
  <2>6. svLoads' = svLoads => svLoads' + rsSaves' = svLoads + rsSaves
    BY <2>1
  <2> QED BY <2>2, <2>4, <2>5, <2>6, Zenon DEF SvSpinner
<1> QED BY <1>2, <1>3, <1>4 DEF SvShape

\* A stamp of the server makes a draft of it.
LEMMA RsHolds ==
  ASSUME RsInv, NEW stamp \in 1..SvFlights, Holds(stamp)
  PROVE  /\ rsHeld' \in 0..SvFlights /\ rsDraft'.of \in 0..SvFlights
         /\ DOMAIN rsDraft' = {"of", "edited"}
BY SvAssumption DEF RsInv, Holds

\* Schedule: a page that asks has a load or a save out.
LEMMA RsStays == ASSUME SvInv, RsNext PROVE SvInv'
<1> USE SvAssumption DEF SvInv
<1>1. On("schedule")
  BY DEF RsNext, RsRefresh, RsLoaded, RsEdit, RsSave, RsSaved
<1>2. DgInv' /\ DpInv' /\ CqInv' /\ ClInv' /\ svPage' = svPage
  BY <1>1, SvElsewhere
<1>3. RsInv' /\ svLoads' \in 0..SvFlights /\ SvSpinner'
  <2> USE DEF RsInv, SvShape, SvSpinner, rsVars, svLoadVars
  <2>1. CASE RsRefresh
    BY <2>1 DEF RsRefresh, Load
  <2>2. CASE RsLoaded
    BY <2>2, RsHolds DEF RsLoaded, Loaded
  <2>3. CASE RsEdit
    <3>1. RsInv' /\ UNCHANGED <<svPage, svAsking, svLoads, rsSaves>>
      BY <1>2, <2>3 DEF RsEdit
    <3>2. SvSpinner'
      BY <3>1, Zenon DEF SvSpinner
    <3> QED BY <3>1, <3>2
  <2>4. CASE RsSave
    BY <2>4 DEF RsSave
  <2>5. CASE RsSaved
    BY <2>5, RsHolds DEF RsSaved
  <2> QED BY <2>1, <2>2, <2>3, <2>4, <2>5 DEF RsNext
<1> QED BY <1>2, <1>3 DEF SvShape

\* Cline: the button of an action that is out is dead.
LEMMA ClStays == ASSUME SvInv, ClNext PROVE SvInv'
<1> USE SvAssumption DEF SvInv
<1>1. On("cline")
  BY DEF ClNext, ClAsk, ClLoaded, ClRepos, ClAct, ClDone
<1>2. DgInv' /\ DpInv' /\ RsInv' /\ CqInv' /\ svPage' = svPage
  BY <1>1, SvElsewhere
<1>3. ClInv' /\ svLoads' \in 0..SvFlights
  <2> USE DEF ClInv, SvShape, clVars, svLoadVars, ClOneEach, AskStatus
  <2>1. CASE ClAsk
    BY <2>1 DEF ClAsk
  <2>2. CASE ClLoaded
    BY <2>2 DEF ClLoaded
  <2>3. CASE ClRepos
    BY <2>3 DEF ClRepos
  <2>4. CASE ClAct
    <3>1. PICK verb \in ClOffered :
            /\ clPosts[verb] < SvFlights
            /\ clBusy' = clBusy \cup {verb}
            /\ clPosts' = [clPosts EXCEPT ![verb] = @ + 1]
            /\ UNCHANGED <<svLoadVars, clRunning>>
      BY <2>4, Zenon DEF ClAct
    <3>2. verb \in Verbs /\ verb \notin clBusy
      BY DEF ClOffered, Verbs
    <3>3. clPosts[verb] = 0
      BY <3>2
    <3> QED BY <3>1, <3>2, <3>3
  <2>5. CASE ClDone
    <3>1. PICK verb \in Verbs, ok \in BOOLEAN :
            /\ clPosts[verb] > 0
            /\ clPosts' = [clPosts EXCEPT ![verb] = @ - 1]
            /\ clBusy' = clBusy \ {verb}
            /\ IF ok THEN AskStatus /\ UNCHANGED svError
                     ELSE UNCHANGED svLoads /\ svError' = TRUE
            /\ UNCHANGED <<svAsking, clRunning>>
      BY <2>5, Zenon DEF ClDone
    <3>2. clPosts[verb] = 1 /\ clPosts'[verb] = 0
      BY <3>1
    <3>3. svLoads' \in 0..SvFlights
      BY <3>1
    <3> QED BY <3>1, <3>2, <3>3
  <2> QED BY <2>1, <2>2, <2>3, <2>4, <2>5 DEF ClNext
<1>4. SvSpinner'
  BY <1>1, <1>2, SvElsewhere DEF SvSpinner
<1> QED BY <1>2, <1>3, <1>4 DEF SvShape

\* Conductor: an action is offered only when nothing is out, and nothing else
\* is while it is out.
LEMMA CqStays == ASSUME SvInv, CqNext PROVE SvInv'
<1> USE SvAssumption DEF SvInv
<1>1. On("conductor")
  BY DEF CqNext, CqRetry, CqLoaded, CqAct, CqAnswer
<1>2. DgInv' /\ DpInv' /\ RsInv' /\ ClInv' /\ svPage' = svPage /\ svPage = "conductor"
  BY <1>1, SvElsewhere
<1>3. CqInv' /\ svLoads' \in 0..SvFlights /\ (svAsking' => svLoads' > 0 \/ svAsking)
      /\ (svAsking' /\ svAsking => svLoads' >= svLoads)
  <2> USE <1>2 DEF CqInv, SvShape, cqVars, svLoadVars
  <2>1. CASE CqRetry
    <3>1. ~svAsking /\ ~cqOff /\ (svError \/ cqShown = SvNone)
      BY <2>1 DEF CqRetry, CqOffered, Modes
    <3>2. cqActions = 0
      BY <3>1
    <3> QED BY <2>1, <3>1, <3>2 DEF CqRetry, Load
  <2>2. CASE CqLoaded
    <3>1. PICK kind \in {"ok", "off", "lost"}, mode \in Modes :
            /\ Loaded(svError \/ kind = "lost")
            /\ cqOff' = (kind = "off" \/ (kind = "lost" /\ cqOff))
            /\ cqShown' = CASE kind = "ok" -> mode [] kind = "off" -> SvNone
                            [] kind = "lost" -> cqShown
            /\ UNCHANGED <<cqBusy, cqActions>>
      BY <2>2, Zenon DEF CqLoaded
    <3>2. /\ svLoads > 0 /\ svLoads' = svLoads - 1
          /\ svAsking' = FALSE
      BY <3>1, Zenon DEF Loaded
    <3>3. cqShown' \in {mode, SvNone, cqShown}
      BY <3>1
    <3>4. cqActions = 0
      BY <3>2
    <3>5. svLoads' \in 0..SvFlights /\ svLoads' = 0
      BY <3>2
    <3> QED BY <3>1, <3>2, <3>3, <3>4, <3>5
  <2>3. CASE CqAct
    <3>1. /\ CqOffered # {} /\ CqOffered # {"retry"}
          /\ cqActions < SvFlights
          /\ cqActions' = cqActions + 1
          /\ cqBusy' = TRUE /\ svError' = FALSE
          /\ UNCHANGED <<svAsking, svLoads, cqShown, cqOff>>
      BY <2>3 DEF CqAct, Modes
    <3>2. ~svAsking /\ ~cqOff /\ cqShown # SvNone /\ ~cqBusy
      BY <3>1, Zenon DEF CqOffered
    <3>3. cqActions = 0 /\ svLoads = 0
      BY <3>2
    <3> QED BY <3>1, <3>2, <3>3
  <2>4. CASE CqAnswer
    <3>1. PICK mode \in Modes, lost \in BOOLEAN :
            /\ cqActions > 0
            /\ cqActions' = cqActions - 1
            /\ cqShown' = IF lost THEN cqShown ELSE mode
            /\ UNCHANGED <<svAsking, svLoads, cqOff>>
      BY <2>4, Zenon DEF CqAnswer
    <3>2. cqActions' = 0 /\ cqShown' \in Modes \cup {SvNone}
      BY <3>1
    <3> QED BY <3>1, <3>2
  <2> QED BY <2>1, <2>2, <2>3, <2>4 DEF CqNext
<1>4. SvSpinner'
  <2>1. rsSaves' = rsSaves /\ rsSaves \in Nat /\ svLoads \in Nat /\ svLoads' \in Nat
    BY <1>1, <1>3 DEF On, OthersUnchanged, rsVars, RsInv, SvShape
  <2>2. svAsking => svLoads + rsSaves > 0
    BY <1>2, Zenon DEF SvShape, SvSpinner
  <2>3. /\ svLoads' > 0 => svLoads' + rsSaves' > 0
        /\ svLoads' >= svLoads /\ svLoads + rsSaves > 0 => svLoads' + rsSaves' > 0
    <3>1. rsSaves' \in Nat /\ rsSaves' = rsSaves
      BY <2>1
    <3>2. svLoads' \in Nat /\ svLoads \in Nat /\ rsSaves \in Nat
      BY <2>1
    <3> QED BY <3>1, <3>2, SumsStay, Zenon
  <2> QED BY <1>3, <2>2, <2>3, Zenon DEF SvSpinner
<1> QED BY <1>2, <1>3, <1>4 DEF SvShape

\* No step of the page mounted breaks those of any page.
LEMMA SvStays == SvInv /\ [SvNext]_svVars => SvInv'
<1> SUFFICES ASSUME SvInv, [SvNext]_svVars PROVE SvInv'
  OBVIOUS
<1>1. CASE UNCHANGED svVars
  <2>1. UNCHANGED <<svPage, svLoads, svAsking, svError>>
        /\ UNCHANGED <<dgVars, dpVars, rsVars, cqVars, clVars>>
    BY <1>1, Zenon DEF svVars, svLoadVars
  <2>2. SvShape' /\ DgInv' /\ RsInv' /\ ClInv'
    BY <2>1 DEF SvInv, SvShape, SvSpinner, DgInv, RsInv, ClInv, ClOneEach,
       dgVars, rsVars, clVars
  <2>3. DpInv' /\ CqInv'
    BY <2>1 DEF SvInv, DpInv, CqInv, DpDrySeen, dpVars, cqVars
  <2> QED BY <2>2, <2>3 DEF SvInv
<1> QED BY <1>1, SvOpens, DgStays, DpStays, RsStays, CqStays, ClStays DEF SvNext

\* What the types add.
\* The flags of the loads, which every page moves, and of each page.
LoadFlags == {svAsking, svError} \subseteq BOOLEAN
DgFlags == {dgConfirm, dgRestarting, dgMaking} \subseteq BOOLEAN
RsFlags == rsDraft.edited \in BOOLEAN
           /\ rsDraft = [of |-> rsDraft.of, edited |-> rsDraft.edited]
CqFlags == {cqOff, cqBusy} \subseteq BOOLEAN
ClFlags == clRunning \in BOOLEAN
SvFlags == LoadFlags /\ DgFlags /\ RsFlags /\ CqFlags /\ ClFlags

\* They are set or not at first.
LEMMA SvFlagsStart == SvInit => SvFlags
<1> SUFFICES ASSUME SvInit PROVE SvFlags
  OBVIOUS
<1>1. LoadFlags /\ DgFlags /\ CqFlags /\ ClFlags
  BY Zenon DEF SvInit, LoadFlags, DgFlags, CqFlags, ClFlags
<1>2. rsDraft = [of |-> 0, edited |-> FALSE]
  BY DEF SvInit
<1>3. rsDraft.of = 0 /\ rsDraft.edited = FALSE
  BY <1>2
<1>4. FALSE \in BOOLEAN
  BY Zenon
<1>5. RsFlags
  BY <1>2, <1>3, <1>4 DEF RsFlags
<1> QED BY <1>1, <1>5 DEF SvFlags

\* And in a page that is opened.
LEMMA SvFlagsOpen == SvOpen => SvFlags'
<1> SUFFICES ASSUME SvOpen PROVE SvFlags'
  OBVIOUS
<1>1. LoadFlags' /\ DgFlags' /\ CqFlags' /\ ClFlags'
  BY Zenon DEF SvOpen, LoadFlags, DgFlags, CqFlags, ClFlags
<1>2. rsDraft' = [of |-> 0, edited |-> FALSE]
  BY DEF SvOpen
<1>3. rsDraft'.of = 0 /\ rsDraft'.edited = FALSE
  BY <1>2
<1>4. FALSE \in BOOLEAN
  BY Zenon
<1>5. RsFlags'
  BY <1>2, <1>3, <1>4 DEF RsFlags
<1> QED BY <1>1, <1>5 DEF SvFlags

\* Diagnostics keeps them so.
LEMMA DgFlagsStay == ASSUME LoadFlags, DgFlags, DgNext PROVE LoadFlags' /\ DgFlags'
<1> USE DEF LoadFlags, svLoadVars, dgVars, DgFlags
<1>1. ASSUME DgRefresh PROVE LoadFlags' /\ DgFlags'
  BY <1>1, Zenon DEF DgRefresh, Load
<1>2. ASSUME DgLoaded PROVE LoadFlags' /\ DgFlags'
  BY <1>2, Zenon DEF DgLoaded, Loaded
<1>3. ASSUME DgAsk PROVE LoadFlags' /\ DgFlags'
  BY <1>3, Zenon DEF DgAsk
<1>4. ASSUME DgRestart PROVE LoadFlags' /\ DgFlags'
  BY <1>4, Zenon DEF DgRestart
<1>5. ASSUME DgRestarted PROVE LoadFlags' /\ DgFlags'
  BY <1>5, Zenon DEF DgRestarted
<1>6. ASSUME DgLaunchers PROVE LoadFlags' /\ DgFlags'
  BY <1>6, Zenon DEF DgLaunchers
<1> QED BY <1>1, <1>2, <1>3, <1>4, <1>5, <1>6 DEF DgNext

\* Deployment keeps them so.
LEMMA DpFlagsStay == ASSUME LoadFlags, DpNext PROVE LoadFlags'
<1> USE DEF LoadFlags, svLoadVars, dpVars
<1>1. ASSUME DpLoaded PROVE LoadFlags'
  BY <1>1, Zenon DEF DpLoaded, Loaded
<1>2. ASSUME DpPreview PROVE LoadFlags'
  BY <1>2, Zenon DEF DpPreview
<1>3. ASSUME DpPreviewed PROVE LoadFlags'
  BY <1>3, Zenon DEF DpPreviewed
<1>4. ASSUME DpClear PROVE LoadFlags'
  BY <1>4, Zenon DEF DpClear
<1>5. ASSUME DpConfirm PROVE LoadFlags'
  BY <1>5, Zenon DEF DpConfirm
<1>6. ASSUME DpConfirmed PROVE LoadFlags'
  BY <1>6, Zenon DEF DpConfirmed, Load
<1>7. ASSUME DpTimeout PROVE LoadFlags'
  BY <1>7, Zenon DEF DpTimeout, Load
<1> QED BY <1>1, <1>2, <1>3, <1>4, <1>5, <1>6, <1>7 DEF DpNext

\* The draft that replaces another is not edited.
LEMMA RsDrafts ==
  ASSUME RsFlags, NEW stamp, Holds(stamp)
  PROVE  RsFlags'
<1>1. FALSE \in BOOLEAN
  BY Zenon
<1>2. CASE rsDraft' = [of |-> stamp, edited |-> FALSE]
  <2>1. rsDraft'.of = stamp /\ rsDraft'.edited = FALSE
    BY <1>2
  <2> QED BY <1>1, <1>2, <2>1 DEF RsFlags
<1>3. CASE UNCHANGED rsDraft
  BY <1>3 DEF RsFlags
<1> QED BY <1>2, <1>3 DEF Holds

\* The schedule keeps them so.
LEMMA RsFlagsStay == ASSUME LoadFlags, RsFlags, RsNext PROVE LoadFlags' /\ RsFlags'
<1> USE DEF LoadFlags, svLoadVars, rsVars, RsFlags
<1>1. ASSUME RsRefresh PROVE LoadFlags' /\ RsFlags'
  BY <1>1, Zenon DEF RsRefresh, Load
<1>2. ASSUME RsLoaded PROVE LoadFlags' /\ RsFlags'
  <2>1. LoadFlags'
    BY <1>2, Zenon DEF RsLoaded, Loaded
  <2>2. UNCHANGED rsDraft \/ \E stamp : Holds(stamp)
    BY <1>2, Zenon DEF RsLoaded
  <2>3. RsFlags'
    BY <2>2, RsDrafts
  <2> QED BY <2>1, <2>3
<1>3. ASSUME RsEdit PROVE LoadFlags' /\ RsFlags'
  BY <1>3, Zenon DEF RsEdit
<1>4. ASSUME RsSave PROVE LoadFlags' /\ RsFlags'
  BY <1>4, Zenon DEF RsSave
<1>5. ASSUME RsSaved PROVE LoadFlags' /\ RsFlags'
  <2>1. LoadFlags'
    BY <1>5, Zenon DEF RsSaved
  <2>2. UNCHANGED rsDraft \/ \E stamp : Holds(stamp)
    BY <1>5, Zenon DEF RsSaved
  <2>3. RsFlags'
    BY <2>2, RsDrafts
  <2> QED BY <2>1, <2>3
<1> QED BY <1>1, <1>2, <1>3, <1>4, <1>5 DEF RsNext

\* The conductor page keeps them so.
LEMMA CqFlagsStay == ASSUME LoadFlags, CqFlags, CqNext PROVE LoadFlags' /\ CqFlags'
<1> USE DEF LoadFlags, svLoadVars, cqVars, CqFlags
<1>1. ASSUME CqRetry PROVE LoadFlags' /\ CqFlags'
  BY <1>1, Zenon DEF CqRetry, Load
<1>2. ASSUME CqLoaded PROVE LoadFlags' /\ CqFlags'
  BY <1>2, Zenon DEF CqLoaded, Loaded
<1>3. ASSUME CqAct PROVE LoadFlags' /\ CqFlags'
  BY <1>3, Zenon DEF CqAct
<1>4. ASSUME CqAnswer PROVE LoadFlags' /\ CqFlags'
  BY <1>4, Zenon DEF CqAnswer
<1> QED BY <1>1, <1>2, <1>3, <1>4 DEF CqNext

\* The launcher keeps them so.
LEMMA ClFlagsStay == ASSUME LoadFlags, ClFlags, ClNext PROVE LoadFlags' /\ ClFlags'
<1> USE DEF LoadFlags, svLoadVars, clVars, ClFlags
<1>1. ASSUME ClAsk PROVE LoadFlags' /\ ClFlags'
  BY <1>1, Zenon DEF ClAsk, AskStatus
<1>2. ASSUME ClLoaded PROVE LoadFlags' /\ ClFlags'
  BY <1>2, Zenon DEF ClLoaded
<1>3. ASSUME ClRepos PROVE LoadFlags' /\ ClFlags'
  BY <1>3, Zenon DEF ClRepos
<1>4. ASSUME ClAct PROVE LoadFlags' /\ ClFlags'
  BY <1>4, Zenon DEF ClAct
<1>5. ASSUME ClDone PROVE LoadFlags' /\ ClFlags'
  BY <1>5, Zenon DEF ClDone, AskStatus
<1> QED BY <1>1, <1>2, <1>3, <1>4, <1>5 DEF ClNext

\* Every page does, and leaves those of the others alone.
LEMMA SvFlagsStay == SvFlags /\ [SvNext]_svVars => SvFlags'
<1> SUFFICES ASSUME SvFlags, [SvNext]_svVars PROVE SvFlags'
  OBVIOUS
<1>1. /\ UNCHANGED dgVars => DgFlags'
      /\ UNCHANGED rsVars => RsFlags'
      /\ UNCHANGED cqVars => CqFlags'
      /\ UNCHANGED clVars => ClFlags'
  BY Zenon DEF SvFlags, DgFlags, RsFlags, CqFlags, ClFlags, dgVars, rsVars, cqVars, clVars
<1>2. CASE DgNext
  <2>1. UNCHANGED <<rsVars, cqVars, clVars>>
    BY <1>2, Zenon DEF DgNext, DgRefresh, DgLoaded, DgAsk, DgRestart, DgRestarted,
       DgLaunchers, On, OthersUnchanged
  <2> QED BY <1>1, <1>2, <2>1, DgFlagsStay DEF SvFlags
<1>3. CASE DpNext
  <2>1. UNCHANGED <<dgVars, rsVars, cqVars, clVars>>
    BY <1>3, Zenon DEF DpNext, DpLoaded, DpPreview, DpPreviewed, DpClear, DpConfirm,
       DpConfirmed, DpTimeout, On, OthersUnchanged
  <2> QED BY <1>1, <1>3, <2>1, DpFlagsStay DEF SvFlags
<1>4. CASE RsNext
  <2>1. UNCHANGED <<dgVars, cqVars, clVars>>
    BY <1>4, Zenon DEF RsNext, RsRefresh, RsLoaded, RsEdit, RsSave, RsSaved,
       On, OthersUnchanged
  <2> QED BY <1>1, <1>4, <2>1, RsFlagsStay DEF SvFlags
<1>5. CASE CqNext
  <2>1. UNCHANGED <<dgVars, rsVars, clVars>>
    BY <1>5, Zenon DEF CqNext, CqRetry, CqLoaded, CqAct, CqAnswer,
       On, OthersUnchanged
  <2> QED BY <1>1, <1>5, <2>1, CqFlagsStay DEF SvFlags
<1>6. CASE ClNext
  <2>1. UNCHANGED <<dgVars, rsVars, cqVars>>
    BY <1>6, Zenon DEF ClNext, ClAsk, ClLoaded, ClRepos, ClAct, ClDone,
       On, OthersUnchanged
  <2> QED BY <1>1, <1>6, <2>1, ClFlagsStay DEF SvFlags
<1>7. CASE UNCHANGED svVars
  BY <1>1, <1>7 DEF svVars, svLoadVars, SvFlags, LoadFlags
<1> QED BY <1>1, <1>2, <1>3, <1>4, <1>5, <1>6, <1>7, SvFlagsOpen DEF SvNext

(***************************************************************************)
(* Chats.                                                                  *)
(***************************************************************************)

\* What is kept of a chat is no longer than may be stored, and all of it when
\* it is short enough.
LEMMA KeptIs ==
  ASSUME NEW S, NEW s \in Seq(S)
  PROVE  /\ Kept(s) \in Seq(S) /\ Len(Kept(s)) <= ChKept
         /\ Len(s) <= ChKept => Kept(s) = s
<1>1. Len(s) \in Nat /\ ChKept \in Nat
  BY ChAssumption
<1>2. CASE Len(s) > ChKept
  <2>1. Kept(s) = SubSeq(s, Len(s) - ChKept + 1, Len(s))
    BY <1>2 DEF Kept
  <2>2. Len(s) - ChKept + 1 \in 1..Len(s)+1
    BY <1>1, <1>2
  <2>3. Kept(s) \in Seq(S) /\ Len(Kept(s)) = ChKept
    BY <1>1, <2>1, <2>2, SubSeqProperties
  <2> QED BY <1>1, <1>2, <2>3
<1>3. CASE ~(Len(s) > ChKept)
  <2>1. Kept(s) = SubSeq(s, 1, Len(s))
    BY <1>3 DEF Kept
  <2>2. SubSeq(s, 1, Len(s)) = s
    OBVIOUS
  <2> QED BY <1>1, <1>3, <2>1, <2>2
<1> QED BY <1>2, <1>3

\* A message of the answer that is out streams, and no other written since
\* the page was opened.
MxShape ==
    /\ mxView \in {"desktop", "phone", "help"}
    /\ mxLoads \in 0..2
    /\ mxChat \in Seq(Messages) /\ mxStored \in Seq(Messages)
    /\ Len(mxStored) <= ChKept
    /\ mxOld \in 0..Len(mxChat)
    /\ mxStream \in 0..Len(mxChat) /\ (mxStream # 0 => mxStream > mxOld)
MxLive ==
    /\ mxStream # 0 => mxChat[mxStream].live = TRUE
    /\ \A k \in (mxOld + 1)..Len(mxChat) : k # mxStream => mxChat[k].live = FALSE
MxInv == MxShape /\ MxLive
AtInv ==
    /\ atTalk \in [ChTab -> Seq({"user", "assistant"})]
    /\ DOMAIN atSave = ChTab /\ DOMAIN atOut = ChTab
    /\ atStored \in Seq({"user", "assistant"})
    /\ NothingKeptUnasked
ChInv == MxInv /\ AtInv

\* A chat opens empty, as does what is stored.
LEMMA ChStarts == ChInit => ChInv
<1> SUFFICES ASSUME ChInit PROVE ChInv
  OBVIOUS
<1>1. mxLoads \in 0..2 /\ mxView \in {"desktop", "phone", "help"}
  BY DEF ChInit
<1>2. /\ mxChat = <<>> /\ mxStored = <<>> /\ mxOld = 0 /\ mxStream = 0
      /\ <<>> \in Seq(Messages) /\ Len(<<>>) = 0
  BY DEF ChInit
<1>4. MxInv
  BY <1>1, <1>2, ChAssumption DEF MxInv, MxShape, MxLive
<1>5. AtInv
  BY DEF ChInit, AtInv, NothingKeptUnasked
<1> QED BY <1>4, <1>5 DEF ChInv

\* The messages written are messages, and stream as they are written.
LEMMA ChMessages ==
  /\ \A text \in {"asked", "empty", "part", "full", "failed"} :
       /\ Message("operator", text, FALSE) \in Messages
       /\ Message("maxwell", text, FALSE) \in Messages
       /\ Message("maxwell", text, TRUE) \in Messages
  /\ \A by, text : /\ Message(by, text, TRUE).live = TRUE
                   /\ Message(by, text, FALSE).live = FALSE
<1>1. TRUE \in BOOLEAN /\ FALSE \in BOOLEAN
  BY Zenon
<1> QED BY <1>1 DEF Messages, Message

\* A chat may become any longer one of which only the message named streams.
LEMMA MxChanges ==
  ASSUME MxInv, NEW messages \in Seq(Messages), NEW stream \in 0..Len(messages),
         ChatIs(messages, stream), Len(messages) >= Len(mxChat),
         stream # 0 => stream > mxOld /\ messages[stream].live = TRUE,
         \A k \in (mxOld + 1)..Len(messages) :
           k # stream => messages[k].live = FALSE
  PROVE  MxInv'
<1>1. /\ mxChat' = messages /\ mxStream' = stream
      /\ UNCHANGED <<mxView, mxLoads, mxOld, mxStored>>
  BY DEF ChatIs, mxStatusVars
<1>2. mxOld' \in 0..Len(mxChat')
  BY <1>1 DEF MxInv, MxShape
<1>3. MxShape'
  BY <1>1, <1>2 DEF MxInv, MxShape
<1>4. MxLive'
  BY <1>1 DEF MxLive
<1> QED BY <1>3, <1>4 DEF MxInv

\* What is stored is what is kept of the chat.
LEMMA MxStores == ASSUME MxInv, MxStore PROVE MxInv'
<1>1. /\ mxStored' = Kept(mxChat)
      /\ UNCHANGED <<mxView, mxLoads, mxOld, mxChat, mxStream>>
  BY DEF MxStore, mxStatusVars
<1>2. mxStored' \in Seq(Messages) /\ Len(mxStored') <= ChKept
  BY <1>1, KeptIs DEF MxInv, MxShape
<1>3. MxShape'
  BY <1>1, <1>2 DEF MxInv, MxShape
<1>4. MxLive'
  BY <1>1 DEF MxInv, MxLive
<1> QED BY <1>3, <1>4 DEF MxInv

\* Two elements put after a sequence leave its own where they were.
LEMMA TwoMore ==
  ASSUME NEW S, NEW s \in Seq(S), NEW x \in S, NEW y \in S
  PROVE  LET t == s \o <<x, y>>
         IN  /\ t \in Seq(S) /\ Len(t) = Len(s) + 2
             /\ t[Len(s) + 1] = x /\ t[Len(s) + 2] = y
             /\ \A k \in 1..Len(s) : t[k] = s[k]
<1> DEFINE two == <<x, y>>
           t == s \o two
<1>1. two \in Seq(S) /\ Len(two) = 2 /\ two[1] = x /\ two[2] = y
  OBVIOUS
<1> HIDE DEF two
<1>2. t \in Seq(S) /\ Len(t) = Len(s) + 2
  <2>1. t \in Seq(S) /\ Len(t) = Len(s) + Len(two)
    BY <1>1, ConcatProperties, Zenon
  <2> QED BY <1>1, <2>1
<1>3. \A k \in 1..Len(s) + Len(two) :
        t[k] = IF k <= Len(s) THEN s[k] ELSE two[k - Len(s)]
  BY <1>1, ConcatProperties
<1>4. Len(s) \in Nat
  OBVIOUS
<1> HIDE DEF t
<1>5. t[Len(s) + 1] = x /\ t[Len(s) + 2] = y /\ \A k \in 1..Len(s) : t[k] = s[k]
  BY <1>1, <1>3, <1>4
<1>6. t = s \o <<x, y>>
  BY DEF t, two
<1> QED BY <1>2, <1>5, <1>6

\* A question and its empty answer; only the answer streams.
LEMMA MxSends == ASSUME MxInv, MxSend PROVE MxInv'
<1> DEFINE asked == Message("operator", "asked", FALSE)
           answer == Message("maxwell", "empty", TRUE)
           talk == mxChat \o <<asked, answer>>
<1>1. mxStream = 0
  <2>1. ASSUME mxStream # 0 PROVE MxOffered = {}
    BY <2>1 DEF MxOffered
  <2> QED BY <2>1 DEF MxSend
<1>2. ChatIs(talk, Len(mxChat) + 2)
  BY DEF MxSend
<1>3. /\ asked \in Messages /\ answer \in Messages
      /\ asked.live = FALSE /\ answer.live = TRUE
  BY ChMessages
<1>4. /\ mxChat \in Seq(Messages) /\ Len(mxChat) \in Nat /\ mxOld \in 0..Len(mxChat)
  BY DEF MxInv, MxShape
<1>5. /\ talk \in Seq(Messages) /\ Len(talk) = Len(mxChat) + 2
      /\ talk[Len(mxChat) + 1] = asked /\ talk[Len(mxChat) + 2] = answer
      /\ \A k \in 1..Len(mxChat) : talk[k] = mxChat[k]
  <2> HIDE DEF asked, answer
  <2> QED BY <1>3, <1>4, TwoMore
<1> HIDE DEF asked, answer, talk
<1>7. ASSUME NEW k \in (mxOld + 1)..Len(talk), k # Len(mxChat) + 2
      PROVE  talk[k].live = FALSE
  <2>1. CASE k <= Len(mxChat)
    <3>1. talk[k] = mxChat[k] /\ k \in (mxOld + 1)..Len(mxChat) /\ k # 0
      BY <1>4, <1>5, <2>1
    <3> QED BY <1>1, <3>1 DEF MxInv, MxLive
  <2>2. CASE k = Len(mxChat) + 1
    BY <1>3, <1>5, <2>2
  <2>3. k <= Len(mxChat) \/ k = Len(mxChat) + 1
    BY <1>4, <1>5, <1>7
  <2> QED BY <2>1, <2>2, <2>3
<1>8. /\ Len(mxChat) + 2 \in 0..Len(talk) /\ Len(mxChat) + 2 > mxOld
      /\ Len(talk) >= Len(mxChat) /\ talk[Len(mxChat) + 2].live = TRUE
  BY <1>3, <1>4, <1>5
<1> QED BY <1>2, <1>5, <1>7, <1>8, MxChanges

\* The message that is out gets its next part, or its last.
LEMMA MxAnswered ==
  ASSUME MxInv, mxStream # 0, NEW text \in {"part", "full", "failed"},
         NEW live \in {TRUE, FALSE}, NEW stream \in {0, mxStream},
         live = (stream = mxStream), ChatIs(Answered(text, live), stream)
  PROVE  MxInv'
<1>1. /\ mxChat \in Seq(Messages) /\ Len(mxChat) \in Nat
      /\ mxStream \in 1..Len(mxChat) /\ mxStream > mxOld /\ mxOld \in 0..Len(mxChat)
  BY DEF MxInv, MxShape
<1> DEFINE message == Message("maxwell", text, live)
<1>2. message \in Messages /\ message.live = live
  BY ChMessages
<1> HIDE DEF message
<1>3. Answered(text, live) = [mxChat EXCEPT ![mxStream] = message]
  BY DEF Answered, message
<1> DEFINE answered == [mxChat EXCEPT ![mxStream] = message]
<1>4. /\ answered \in Seq(Messages) /\ Len(answered) = Len(mxChat)
      /\ answered[mxStream] = message
      /\ \A k \in 1..Len(mxChat) : k # mxStream => answered[k] = mxChat[k]
  BY <1>1, <1>2, ExceptSeq
<1> HIDE DEF answered
<1>5. \A k \in (mxOld + 1)..Len(mxChat) : k # mxStream => answered[k].live = FALSE
  BY <1>1, <1>4 DEF MxInv, MxLive
<1>6. CASE stream = 0
  <2>1. live = FALSE
    BY <1>6, Zenon
  <2>2. \A k \in (mxOld + 1)..Len(answered) : k # 0 => answered[k].live = FALSE
    BY <1>1, <1>2, <1>4, <1>5, <2>1
  <2>3. ChatIs(answered, 0)
    BY <1>3, <1>6 DEF answered
  <2>4. 0 \in 0..Len(answered) /\ Len(answered) >= Len(mxChat)
    BY <1>1, <1>4
  <2> QED BY <1>4, <2>2, <2>3, <2>4, MxChanges
<1>7. CASE stream = mxStream
  <2>1. live = TRUE
    BY <1>7, Zenon
  <2>2. answered[mxStream].live = TRUE
    BY <1>2, <1>4, <2>1
  <2>3. ChatIs(answered, mxStream)
    BY <1>3, <1>7 DEF answered
  <2>4. mxStream \in 0..Len(answered) /\ Len(answered) >= Len(mxChat) /\ mxStream > mxOld
    BY <1>1, <1>4
  <2>5. \A k \in (mxOld + 1)..Len(answered) : k # mxStream => answered[k].live = FALSE
    BY <1>4, <1>5
  <2> QED BY <1>4, <2>2, <2>3, <2>4, <2>5, MxChanges
<1> QED BY <1>6, <1>7

\* A page mounted shows the stored history, of which nothing streams.
LEMMA MxMounts ==
  ASSUME MxInv, NEW view \in {"desktop", "phone", "help"}, Mount(view, mxStored)
  PROVE  MxInv'
<1> USE DEF MxInv, MxShape
<1>1. /\ mxView' = view /\ mxStored' = mxStored /\ mxStream' = 0
      /\ mxOld' = Len(mxChat') /\ mxLoads' \in 0..2
  BY DEF Mount
<1>2. mxChat' = IF view = "help" THEN <<>> ELSE mxStored
  BY DEF Mount
<1>3. <<>> \in Seq(Messages) /\ Len(<<>>) = 0
  OBVIOUS
<1>4. mxChat' \in Seq(Messages) /\ Len(mxChat') \in Nat
  BY <1>2, <1>3
<1>5. MxShape'
  BY <1>1, <1>4
<1>6. MxLive'
  BY <1>1, <1>4 DEF MxLive
<1> QED BY <1>5, <1>6

\* What leaves the chat alone leaves what is said of it.
LEMMA MxRests ==
  ASSUME MxInv, UNCHANGED <<mxView, mxChatVars>>, mxLoads' \in 0..2
  PROVE  MxInv'
<1>1. UNCHANGED <<mxView, mxChat, mxOld, mxStored, mxStream>>
  BY DEF mxChatVars
<1>2. MxShape'
  BY <1>1 DEF MxInv, MxShape
<1>3. MxLive'
  BY <1>1 DEF MxInv, MxLive
<1> QED BY <1>2, <1>3 DEF MxInv

MxNext == \/ MxAsk \/ MxAnswer \/ MxPost \/ MxPosted \/ MxSheet
          \/ MxReady \/ MxSend \/ MxPart \/ MxDone \/ MxStore \/ MxLeave
AtNext == AtSend \/ AtAnswer \/ AtSettings \/ AtClear \/ AtReload

\* No step of a Maxwell chat breaks its part, nor touches the sidebars.
LEMMA MxStays == ASSUME MxInv, MxNext PROVE MxInv' /\ UNCHANGED atVars
<1>0. mxLoads \in 0..2
  BY DEF MxInv, MxShape
<1>1. CASE MxAsk
  <2>1. UNCHANGED <<mxView, mxChatVars, atVars>> /\ mxLoads' \in 0..2
    BY <1>0, <1>1 DEF MxAsk
  <2> QED BY <2>1, MxRests
<1>2. CASE MxAnswer
  <2>1. UNCHANGED <<mxView, mxChatVars, atVars>> /\ mxLoads' \in 0..2
    BY <1>0, <1>2 DEF MxAnswer
  <2> QED BY <2>1, MxRests
<1>3. CASE MxPost
  <2>1. UNCHANGED <<mxView, mxChatVars, atVars>> /\ mxLoads' \in 0..2
    BY <1>0, <1>3 DEF MxPost, mxStatusVars
  <2> QED BY <2>1, MxRests
<1>4. CASE MxPosted
  <2>1. UNCHANGED <<mxView, mxChatVars, atVars>> /\ mxLoads' \in 0..2
    BY <1>0, <1>4 DEF MxPosted
  <2> QED BY <2>1, MxRests
<1>5. CASE MxSheet
  <2>1. UNCHANGED <<mxView, mxChatVars, atVars>> /\ mxLoads' \in 0..2
    BY <1>0, <1>5 DEF MxSheet, mxStatusVars
  <2> QED BY <2>1, MxRests
<1>6. CASE MxReady
  <2>1. UNCHANGED <<mxView, mxChatVars, atVars>> /\ mxLoads' \in 0..2
    BY <1>0, <1>6 DEF MxReady, mxStatusVars
  <2> QED BY <2>1, MxRests
<1>7. CASE MxSend
  BY <1>7, MxSends DEF MxSend, ChatIs
<1>8. CASE MxPart
  <2>1. mxStream # 0 /\ ChatIs(Answered("part", TRUE), mxStream)
    BY <1>8 DEF MxPart
  <2>2. MxInv'
    BY <2>1, MxAnswered, Zenon
  <2> QED BY <2>1, <2>2 DEF ChatIs
<1>9. CASE MxDone
  <2>1. PICK text \in {"full", "failed"} :
          mxStream # 0 /\ ChatIs(Answered(text, FALSE), 0)
    BY <1>9 DEF MxDone
  <2>2. text \in {"part", "full", "failed"} /\ FALSE = (0 = mxStream)
    BY <2>1, Zenon
  <2>3. MxInv'
    BY <2>1, <2>2, MxAnswered, Zenon
  <2> QED BY <2>1, <2>3 DEF ChatIs
<1>10. CASE MxLeave
  BY <1>10, MxMounts DEF MxLeave
<1>11. CASE MxStore
  BY <1>11, MxStores DEF MxStore
<1> QED BY <1>1, <1>2, <1>3, <1>4, <1>5, <1>6, <1>7, <1>8, <1>9, <1>10, <1>11
   DEF MxNext

\* A transcript that changes is stored, if its tab saves its history.
LEMMA AtTalks ==
  ASSUME AtInv, NEW tab \in ChTab, NEW talk \in Seq({"user", "assistant"}),
         NEW save, TalkIs(tab, talk, save), DOMAIN atOut' = ChTab
  PROVE  AtInv' /\ UNCHANGED mxVars
<1>1. /\ atTalk' \in [ChTab -> Seq({"user", "assistant"})]
      /\ DOMAIN atSave' = ChTab
  BY DEF AtInv, TalkIs
<1>2. atStored' = IF save THEN Kept(talk) ELSE <<>>
  BY DEF TalkIs
<1>3. Kept(talk) \in Seq({"user", "assistant"}) /\ <<>> \in Seq({"user", "assistant"})
  BY KeptIs
<1>4. atStored' \in Seq({"user", "assistant"})
  BY <1>2, <1>3
<1>5. atSave'[tab] = save
  BY DEF AtInv, TalkIs
<1>6. NothingKeptUnasked'
  BY <1>2, <1>5, Zenon DEF NothingKeptUnasked
<1> QED BY <1>1, <1>4, <1>6 DEF AtInv, TalkIs

\* No step of a sidebar breaks its part, nor touches the Maxwell chat.
LEMMA AtStays == ASSUME AtInv, AtNext PROVE AtInv' /\ UNCHANGED mxVars
<1>0. /\ \A tab \in ChTab : atTalk[tab] \in Seq({"user", "assistant"})
      /\ \A tab \in ChTab : \A by \in {"user", "assistant"} :
           Append(atTalk[tab], by) \in Seq({"user", "assistant"})
      /\ <<>> \in Seq({"user", "assistant"})
      /\ atStored \in Seq({"user", "assistant"})
      /\ DOMAIN atOut = ChTab
  BY DEF AtInv
<1>1. CASE AtSend
  <2>1. PICK tab \in ChTab :
          /\ TalkIs(tab, Append(atTalk[tab], "user"), atSave[tab])
          /\ atOut' = [atOut EXCEPT ![tab] = TRUE]
    BY <1>1 DEF AtSend
  <2>2. DOMAIN atOut' = ChTab
    BY <1>0, <2>1
  <2> QED BY <1>0, <2>1, <2>2, AtTalks
<1>2. CASE AtAnswer
  <2>1. PICK tab \in ChTab :
          /\ TalkIs(tab, Append(atTalk[tab], "assistant"), atSave[tab])
          /\ atOut' = [atOut EXCEPT ![tab] = FALSE]
    BY <1>2 DEF AtAnswer
  <2>2. DOMAIN atOut' = ChTab
    BY <1>0, <2>1
  <2> QED BY <1>0, <2>1, <2>2, AtTalks
<1>3. CASE AtSettings
  <2>1. PICK tab \in ChTab, save \in BOOLEAN :
          /\ TalkIs(tab, IF save THEN atTalk[tab] ELSE <<>>, save)
          /\ UNCHANGED atOut
    BY <1>3, Zenon DEF AtSettings
  <2>2. (IF save THEN atTalk[tab] ELSE <<>>) \in Seq({"user", "assistant"})
    BY <1>0
  <2> QED BY <1>0, <2>1, <2>2, AtTalks
<1>4. CASE AtClear
  <2>1. PICK tab \in ChTab : TalkIs(tab, <<>>, atSave[tab]) /\ UNCHANGED atOut
    BY <1>4 DEF AtClear
  <2> QED BY <1>0, <2>1, AtTalks
<1>5. CASE AtReload
  <2>1. PICK tab \in ChTab, expired \in BOOLEAN :
          /\ TalkIs(tab, IF atSetting /\ ~expired THEN atStored ELSE <<>>, atSetting)
          /\ atOut' = [atOut EXCEPT ![tab] = FALSE]
    BY <1>5, Zenon DEF AtReload
  <2>2. /\ (IF atSetting /\ ~expired THEN atStored ELSE <<>>)
             \in Seq({"user", "assistant"})
        /\ DOMAIN atOut' = ChTab
    BY <1>0, <2>1
  <2> QED BY <2>1, <2>2, AtTalks
<1> QED BY <1>1, <1>2, <1>3, <1>4, <1>5 DEF AtNext

\* No word, answer, switch, tab or view opened breaks them.
LEMMA ChStays == ChInv /\ [ChNext]_chVars => ChInv'
<1> SUFFICES ASSUME ChInv, [ChNext]_chVars PROVE ChInv'
  OBVIOUS
<1>1. ASSUME UNCHANGED mxVars PROVE MxInv'
  BY <1>1, MxRests DEF ChInv, mxVars, mxStatusVars, MxInv, MxShape
<1>2. ASSUME UNCHANGED atVars PROVE AtInv'
  BY <1>2 DEF ChInv, AtInv, atVars, NothingKeptUnasked
<1>3. CASE MxNext
  BY <1>2, <1>3, MxStays DEF ChInv
<1>4. CASE AtNext
  BY <1>1, <1>4, AtStays DEF ChInv
<1>5. CASE UNCHANGED chVars
  BY <1>1, <1>2, <1>5 DEF chVars, ChInv
<1> QED BY <1>3, <1>4, <1>5, Zenon DEF ChNext, MxNext, AtNext

\* Of the messages written since the page was opened the one that is out
\* says so, and no other.
LEMMA ChHolds == ChInv => OnlyStreamIsLive /\ NothingKeptUnasked
<1> SUFFICES ASSUME ChInv PROVE OnlyStreamIsLive
  BY DEF ChInv, MxInv, AtInv
<1>1. ASSUME NEW k \in (mxOld + 1)..Len(mxChat)
      PROVE  mxChat[k].live <=> k = mxStream
  <2>1. k # 0
    BY DEF ChInv, MxInv, MxShape
  <2>2. CASE k = mxStream
    <3>1. mxChat[k].live = TRUE
      BY <2>1, <2>2 DEF ChInv, MxInv, MxLive
    <3> QED BY <2>2, <3>1, Zenon
  <2>3. CASE k # mxStream
    <3>1. mxChat[k].live = FALSE
      BY <2>3 DEF ChInv, MxInv, MxLive
    <3> QED BY <2>3, <3>1, Zenon
  <2> QED BY <2>2, <2>3
<1> QED BY <1>1 DEF OnlyStreamIsLive

\* What the types add.
MxFlags == {mxLoading, mxError, mxReady, mxSheet, mxControl} \subseteq BOOLEAN
MxKnows == mxStatus \in [up: BOOLEAN, running: BOOLEAN]
AtFlags == {atSave, atOut} \subseteq [ChTab -> BOOLEAN] /\ atSetting \in BOOLEAN
ChFlags == MxFlags /\ MxKnows /\ AtFlags

\* What a page takes the daemon for, until told.
LEMMA ChDown == Down \in [up: BOOLEAN, running: BOOLEAN]
<1>1. FALSE \in BOOLEAN
  BY Zenon
<1> QED BY <1>1 DEF Down

\* They are set or not at first.
LEMMA ChFlagsStart == ChInit => ChFlags
<1> SUFFICES ASSUME ChInit PROVE ChFlags
  OBVIOUS
<1>1. MxFlags
  <2>1. (mxView # "help") = TRUE \/ (mxView # "help") = FALSE
    OBVIOUS
  <2> QED BY <2>1, Zenon DEF ChInit, MxFlags
<1>2. MxKnows
  BY ChDown DEF ChInit, MxKnows
<1>3. FALSE \in BOOLEAN
  BY Zenon
<1>4. AtFlags
  BY <1>3 DEF ChInit, AtFlags
<1> QED BY <1>1, <1>2, <1>4 DEF ChFlags

\* A Maxwell chat keeps them so.
LEMMA MxFlagsStay == ASSUME MxFlags, MxKnows, MxNext PROVE MxFlags' /\ MxKnows'
<1> USE DEF MxFlags, MxKnows, mxStatusVars
<1>1. ASSUME MxAsk \/ MxPost \/ MxPosted \/ MxSheet \/ MxReady
      PROVE  MxFlags' /\ MxKnows'
  BY <1>1, Zenon DEF MxAsk, MxPost, MxPosted, MxSheet, MxReady
<1>2. ASSUME MxSend \/ MxPart \/ MxDone \/ MxStore PROVE MxFlags' /\ MxKnows'
  BY <1>2, Zenon DEF MxSend, MxPart, MxDone, MxStore, ChatIs
<1>3. ASSUME MxAnswer PROVE MxFlags' /\ MxKnows'
  <2>1. PICK kind \in {"ok", "refused", "lost"},
             status \in [up: BOOLEAN, running: BOOLEAN] :
          /\ mxLoading' = FALSE
          /\ mxStatus' = CASE kind = "ok" -> status
                           [] kind = "refused" /\ mxView = "desktop" -> Down
                           [] OTHER -> mxStatus
          /\ mxError' = (kind = "lost" \/ (kind = "refused" /\ mxView = "phone"))
          /\ UNCHANGED <<mxReady, mxSheet, mxControl>>
    BY <1>3, Zenon DEF MxAnswer
  <2>2. MxFlags'
    BY <2>1, Zenon
  <2>3. mxStatus' \in {status, Down, mxStatus}
    BY <2>1
  <2> QED BY <2>2, <2>3, ChDown
<1>4. ASSUME MxLeave PROVE MxFlags' /\ MxKnows'
  <2>1. PICK view \in {"desktop", "phone", "help"} : Mount(view, mxStored)
    BY <1>4 DEF MxLeave
  <2>2. (view # "help") = TRUE \/ (view # "help") = FALSE
    OBVIOUS
  <2>3. MxFlags'
    BY <2>1, <2>2, Zenon DEF Mount
  <2>4. MxKnows'
    BY <2>1, ChDown DEF Mount
  <2> QED BY <2>3, <2>4
<1> QED BY <1>1, <1>2, <1>3, <1>4 DEF MxNext

\* A sidebar keeps them so.
LEMMA AtFlagsStay == ASSUME AtFlags, AtNext PROVE AtFlags'
<1> USE DEF AtFlags
<1>0. /\ TRUE \in BOOLEAN /\ FALSE \in BOOLEAN
      /\ atSave \in [ChTab -> BOOLEAN] /\ atOut \in [ChTab -> BOOLEAN]
      /\ \A tab \in ChTab : atSave[tab] \in BOOLEAN
  BY Zenon
<1>1. ASSUME NEW tab \in ChTab, NEW talk, NEW save \in BOOLEAN, TalkIs(tab, talk, save)
      PROVE  atSave' \in [ChTab -> BOOLEAN]
  BY <1>0, <1>1 DEF TalkIs
<1>2. ASSUME NEW tab \in ChTab, NEW out \in BOOLEAN,
             atOut' = [atOut EXCEPT ![tab] = out]
      PROVE  atOut' \in [ChTab -> BOOLEAN]
  BY <1>0, <1>2
<1>3. CASE AtSend
  BY <1>0, <1>1, <1>2, <1>3, Zenon DEF AtSend
<1>4. CASE AtAnswer
  BY <1>0, <1>1, <1>2, <1>4, Zenon DEF AtAnswer
<1>5. CASE AtSettings
  BY <1>0, <1>1, <1>5, Zenon DEF AtSettings
<1>6. CASE AtClear
  BY <1>0, <1>1, <1>6, Zenon DEF AtClear
<1>7. CASE AtReload
  BY <1>0, <1>1, <1>2, <1>7, Zenon DEF AtReload
<1> QED BY <1>3, <1>4, <1>5, <1>6, <1>7 DEF AtNext

\* No step of either breaks those of the other.
LEMMA ChFlagsStay ==
  ASSUME ChInv, ChFlags, [ChNext]_chVars
  PROVE  ChFlags'
<1>1. ASSUME UNCHANGED mxVars PROVE MxFlags' /\ MxKnows'
  BY <1>1 DEF ChFlags, mxVars, mxStatusVars, MxFlags, MxKnows
<1>2. ASSUME UNCHANGED atVars PROVE AtFlags'
  BY <1>2 DEF ChFlags, AtFlags, atVars
<1>3. CASE MxNext
  BY <1>2, <1>3, MxStays, MxFlagsStay DEF ChInv, ChFlags
<1>4. CASE AtNext
  BY <1>1, <1>4, AtStays, AtFlagsStay DEF ChInv, ChFlags
<1>5. CASE UNCHANGED chVars
  BY <1>1, <1>2, <1>5 DEF chVars, ChFlags
<1> QED BY <1>3, <1>4, <1>5, Zenon DEF ChNext, MxNext, AtNext

(***************************************************************************)
(* Shell, session and recovery.                                            *)
(***************************************************************************)
\* The refresh that is out is the one the waiting calls wait for, and the
\* failures counted are those the recovery dialog goes by.
ShPhases == {"none", "sent", "waits", "again", "done"}
ShShape ==
    /\ DOMAIN shCalls = ShCall
    /\ \A c \in ShCall : /\ "phase" \in DOMAIN shCalls[c]
                         /\ shCalls[c].phase \in ShPhases
    /\ shFails \in 0..3 /\ shProbes \in 0..2
ShAnswered ==
    /\ shRefresh => \E c \in ShCall : shCalls[c].phase = "waits"
    /\ \A c \in ShCall : shCalls[c].phase = "waits" => shRefresh
ShInv == ShShape /\ ShAnswered /\ RecoveryAfterThree

\* No call is out at first.
LEMMA ShStarts == ShInit => ShInv
BY DEF ShInit, ShInv, ShShape, ShAnswered, RecoveryAfterThree, NoCall, ShPhases

\* A call whose phase alone changes, to one in which it does not wait.
LEMMA ShGoesOn ==
  ASSUME ShInv, NEW c \in ShCall, shCalls[c].phase # "waits",
         NEW phase \in ShPhases \ {"waits"},
         \/ shCalls' = [shCalls EXCEPT ![c].phase = phase]
         \/ \E session, guarded : shCalls' = [shCalls EXCEPT ![c] =
              [phase |-> phase, session |-> session, guarded |-> guarded]],
         UNCHANGED <<shRefresh, shHealth>>
  PROVE  ShInv'
BY DEF ShInv, ShShape, ShAnswered, RecoveryAfterThree, ShPhases, shHealth

\* The page is loaded again, or logged in again: no call is left.
LEMMA ShAnew ==
  ASSUME shCalls' = [c \in ShCall |-> NoCall], ~shRefresh', shProbes' = 0, shFails' = 0,
         ~shRecovery'
  PROVE  ShInv'
BY DEF ShInv, ShShape, ShAnswered, RecoveryAfterThree, NoCall, ShPhases

\* A tab chosen keeps the calls, and recovery only where it was.
LEMMA ShMoves == ASSUME ShInv, NEW tab, Goes(tab) PROVE ShInv'
<1>1. /\ shFails' \in {shFails, 0} /\ shProbes' \in {shProbes, 0}
      /\ shRecovery' => shRecovery /\ DrawsLegacy(shView, tab) /\ LegacyMounted
      /\ DrawsLegacy(shView, tab) /\ LegacyMounted => shFails' = shFails
      /\ UNCHANGED <<shCalls, shRefresh>>
  BY Zenon DEF Goes
<1> QED BY <1>1 DEF ShInv, ShShape, ShAnswered, RecoveryAfterThree

\* No tab, login, call, answer, refresh or probe breaks them.
LEMMA ShStays == ShInv /\ [ShNext]_shVars => ShInv'
<1> SUFFICES ASSUME ShInv, [ShNext]_shVars PROVE ShInv'
  OBVIOUS
<1>1. ASSUME UNCHANGED <<shCalls, shRefresh, shHealth>> PROVE ShInv'
  BY <1>1 DEF shHealth, ShInv, ShShape, ShAnswered, RecoveryAfterThree
<1>2. CASE ShSelect
  BY <1>2, ShMoves DEF ShSelect
<1>3. CASE ShDeepLink
  BY <1>3, ShMoves DEF ShDeepLink
<1>4. CASE ShFold \/ ShLogout \/ ShLapse \/ ShDismiss \/ ShHelpToggle
             \/ \E ok \in BOOLEAN : ShVersion(ok)
  BY <1>1, <1>4, Zenon DEF ShFold, ShLogout, ShLapse, ShDismiss, ShHelpToggle,
     ShVersion, shNet
<1>5. CASE ShClassic \/ ShReload
  BY <1>5, ShAnew DEF ShClassic, ShReload, ShLoads
<1>6. CASE ShLogin
  BY <1>6, ShAnew DEF ShLogin
<1>7. CASE ShCloseRecovery
  BY <1>7 DEF ShCloseRecovery, shNet, ShInv, ShShape, ShAnswered, RecoveryAfterThree
<1>8. ASSUME NEW c \in ShCall, ShSend(c) PROVE ShInv'
  <2>1. /\ shCalls[c].phase # "waits"
        /\ \E session, guarded : shCalls' = [shCalls EXCEPT ![c] =
             [phase |-> "sent", session |-> session, guarded |-> guarded]]
        /\ UNCHANGED <<shRefresh, shHealth>>
    BY <1>8 DEF ShSend
  <2>2. "sent" \in ShPhases \ {"waits"}
    BY DEF ShPhases
  <2> QED BY <2>1, <2>2, ShGoesOn, Zenon
<1>9. ASSUME NEW c \in ShCall, ShAnswer(c) PROVE ShInv'
  <2>1. /\ shCalls[c].phase # "waits"
        /\ shCalls' = [shCalls EXCEPT ![c].phase = "done"]
        /\ UNCHANGED <<shRefresh, shHealth>>
    BY <1>9 DEF ShAnswer
  <2>2. "done" \in ShPhases \ {"waits"}
    BY DEF ShPhases
  <2> QED BY <2>1, <2>2, ShGoesOn, Zenon
<1>10. ASSUME NEW c \in ShCall, ShAgain(c) PROVE ShInv'
  BY <1>10, ShGoesOn DEF ShAgain, ShPhases
<1>11. ASSUME NEW c \in ShCall, ShUnauthorized(c) PROVE ShInv'
  BY <1>11 DEF ShUnauthorized, shHealth, ShInv, ShShape, ShAnswered,
     RecoveryAfterThree, ShPhases
<1>12. ASSUME NEW renewed \in BOOLEAN, ShRefreshed(renewed) PROVE ShInv'
  <2>1. /\ ~shRefresh' /\ UNCHANGED <<shProbes, shFails, shRecovery>>
        /\ DOMAIN shCalls' = ShCall
    BY <1>12 DEF ShRefreshed, shHealth
  <2>2. ASSUME NEW c \in ShCall
        PROVE  /\ "phase" \in DOMAIN shCalls'[c]
               /\ shCalls'[c].phase \in ShPhases \ {"waits"}
    <3>1. shCalls'[c] = IF c \notin Awaiting THEN shCalls[c]
            ELSE IF renewed
              THEN [phase |-> "again", session |-> shCookie', guarded |-> FALSE]
              ELSE [shCalls[c] EXCEPT !.phase = "done"]
      BY <1>12 DEF ShRefreshed
    <3>2. CASE c \notin Awaiting
      BY <3>1, <3>2 DEF Awaiting, ShInv, ShShape
    <3>3. CASE c \in Awaiting /\ renewed
      BY <3>1, <3>3 DEF ShPhases
    <3>4. CASE c \in Awaiting /\ ~renewed
      BY <3>1, <3>4 DEF ShPhases, ShInv, ShShape
    <3> QED BY <3>2, <3>3, <3>4
  <2> QED BY <2>1, <2>2 DEF ShInv, ShShape, ShAnswered, RecoveryAfterThree
<1>13. ASSUME NEW up \in BOOLEAN, ShProbed(up) PROVE ShInv'
  <2>1. UNCHANGED <<shCalls, shRefresh>> /\ shProbes' \in 0..2
    BY <1>13 DEF ShProbed, shNet, ShInv, ShShape
  <2>2. CASE up
    BY <1>13, <2>1, <2>2 DEF ShProbed, ShInv, ShShape, ShAnswered, RecoveryAfterThree
  <2>3. CASE ~up
    <3>1. /\ shFails' = IF shFails < 3 THEN shFails + 1 ELSE 3
          /\ shRecovery' => shRecovery \/ shFails + 1 >= 3
      BY <1>13, <2>3, Zenon DEF ShProbed
    <3> QED BY <2>1, <3>1 DEF ShInv, ShShape, ShAnswered, RecoveryAfterThree
  <2> QED BY <2>2, <2>3
<1>15. CASE ShProbe
  BY <1>15 DEF ShProbe, shNet, ShInv, ShShape, ShAnswered, RecoveryAfterThree
<1>14. CASE UNCHANGED shVars
  BY <1>1, <1>14 DEF shVars, shHealth
<1> QED BY <1>2, <1>3, <1>4, <1>5, <1>6, <1>7, <1>8, <1>9, <1>10, <1>11,
        <1>12, <1>13, <1>14, <1>15, Zenon DEF ShNext

\* The refresh is out exactly while a call waits for it.
LEMMA ShHolds == ShInv => RefreshHasWaiters /\ RecoveryAfterThree
<1>1. ShInv => (shRefresh => Awaiting # {}) /\ (Awaiting # {} => shRefresh)
  BY DEF ShInv, ShAnswered, Awaiting
<1> QED BY <1>1 DEF ShInv, RefreshHasWaiters

\* What the types add.
ShFlags == {shGuard, shRefresh, shDialog, shRecovery} \subseteq BOOLEAN
ShPlaced == shView \in {"phone", "classic", "modern"} /\ shTab \in NavItems

\* The page opens on a tab of the registry.
LEMMA ShKindsStart == ShInit => ShFlags /\ ShPlaced
<1>1. \A view, tab : DrawsLegacy(view, tab) \in BOOLEAN
  BY Zenon DEF DrawsLegacy
<1>2. ShInit => ShFlags
  BY <1>1, Zenon DEF ShInit, ShFlags
<1>3. ShInit => ShPlaced
  BY DEF ShInit, ShPlaced, NavItems, NavGroups, FleetGroup
<1> QED BY <1>2, <1>3

\* The flags stay Booleans.
LEMMA ShFlagsStay == ShFlags /\ [ShNext]_shVars => ShFlags'
<1> USE DEF ShFlags, shNet, shHealth, shPlace
<1>1. \A view, tab : DrawsLegacy(view, tab) \in BOOLEAN
  BY Zenon DEF DrawsLegacy
<1>2. ASSUME ShFlags, NEW tab, Goes(tab) PROVE ShFlags'
  BY <1>2, Zenon DEF Goes
<1>3. ASSUME ShFlags, ShSelect \/ ShDeepLink PROVE ShFlags'
  BY <1>2, <1>3, Zenon DEF ShSelect, ShDeepLink
<1>4. ASSUME ShFlags, ShClassic \/ ShReload PROVE ShFlags'
  BY <1>1, <1>4, Zenon DEF ShClassic, ShReload, ShLoads
<1>5. ASSUME ShFlags, ShFold \/ ShLogout \/ ShLapse \/ ShDismiss \/ ShProbe
                        \/ ShCloseRecovery \/ ShHelpToggle
      PROVE  ShFlags'
  BY <1>5, Zenon DEF ShFold, ShLogout, ShLapse, ShDismiss, ShProbe,
     ShCloseRecovery, ShHelpToggle
<1>6. ASSUME ShFlags, ShLogin PROVE ShFlags'
  BY <1>1, <1>6, Zenon DEF ShLogin, LegacyMounted
<1>7. ASSUME ShFlags, NEW c \in ShCall,
             ShSend(c) \/ ShAnswer(c) \/ ShUnauthorized(c) \/ ShAgain(c)
      PROVE  ShFlags'
  BY <1>7, Zenon DEF ShSend, ShAnswer, ShUnauthorized, ShAgain
<1>8. ASSUME ShFlags, NEW ok \in BOOLEAN, ShRefreshed(ok) \/ ShVersion(ok)
      PROVE  ShFlags'
  BY <1>8, Zenon DEF ShRefreshed, ShVersion
<1>9. ASSUME ShFlags, NEW up \in BOOLEAN, ShProbed(up) PROVE ShFlags'
  BY <1>9, Zenon DEF ShProbed
<1>10. ASSUME ShFlags, UNCHANGED shVars PROVE ShFlags'
  BY <1>10, Zenon DEF shVars
<1> QED BY <1>3, <1>4, <1>5, <1>6, <1>7, <1>8, <1>9, <1>10, Zenon DEF ShNext

\* Whatever the URL names, the tab is one of the registry.
LEMMA ShPlacedStays == ShPlaced /\ [ShNext]_shVars => ShPlaced'
<1> USE DEF ShPlaced, shPlace
<1>1. \A name : TabOf(name) \in NavItems
  BY DEF TabOf, NavItems, NavGroups, FleetGroup
<1>2. ASSUME ShPlaced, ShSelect \/ ShDeepLink PROVE ShPlaced'
  BY <1>1, <1>2, Zenon DEF ShSelect, ShDeepLink, Goes
<1>3. ASSUME ShPlaced, ShClassic \/ ShReload PROVE ShPlaced'
  BY <1>3, Zenon DEF ShClassic, ShReload, ShLoads
<1>4. ASSUME ShPlaced, ShFold \/ ShLogin \/ ShLogout \/ ShLapse \/ ShDismiss
                         \/ ShCloseRecovery \/ ShHelpToggle \/ ShProbe
      PROVE  ShPlaced'
  BY <1>4, Zenon DEF ShFold, ShLogin, ShLogout, ShLapse, ShDismiss, ShProbe,
     ShCloseRecovery, ShHelpToggle
<1>5. ASSUME ShPlaced, NEW c \in ShCall,
             ShSend(c) \/ ShAnswer(c) \/ ShUnauthorized(c) \/ ShAgain(c)
      PROVE  ShPlaced'
  BY <1>5, Zenon DEF ShSend, ShAnswer, ShUnauthorized, ShAgain
<1>6. ASSUME ShPlaced, NEW ok \in BOOLEAN,
             ShRefreshed(ok) \/ ShVersion(ok) \/ ShProbed(ok)
      PROVE  ShPlaced'
  BY <1>6, Zenon DEF ShRefreshed, ShVersion, ShProbed
<1>7. ASSUME ShPlaced, UNCHANGED shVars PROVE ShPlaced'
  BY <1>7, Zenon DEF shVars
<1> QED BY <1>2, <1>3, <1>4, <1>5, <1>6, <1>7, Zenon DEF ShNext

(***************************************************************************)
(* Credentials on the phone.                                               *)
(***************************************************************************)
CrCause == {"unlock", "key", "refresh"}
CrShape ==
    /\ crLock \in {"locked", "unlocking", "unlocked", "error"}
    /\ crAsserts \in 0..CrFlights
    /\ crHeld \subseteq CrProbe
    /\ crFlight \in Seq(CrCause) /\ Len(crFlight) <= CrFlights
    /\ crSheet \in CrProbe \cup {CrNone}
    /\ crMode \in {"actions", "set-key"}
    /\ crPosts \in Seq(CrProbe) /\ Len(crPosts) <= CrFlights
CrInv == CrShape /\ CrIdleLocks /\ CrSpinner

\* The page opens locked, with its list out.
LEMMA CrStarts == CrInit => CrInv
BY CrAssumption DEF CrInit, CrInv, CrShape, CrIdleLocks, CrSpinner, Open

\* A list asked for joins those that are out.
LEMMA CrAppends ==
  ASSUME CrShape, NEW cause \in CrCause, Len(crFlight) < CrFlights,
         crFlight' = Append(crFlight, cause)
  PROVE  /\ crFlight' \in Seq(CrCause) /\ Len(crFlight') <= CrFlights
         /\ crFlight' # <<>>
         /\ \A k \in DOMAIN crFlight : k \in DOMAIN crFlight' /\ crFlight'[k] = crFlight[k]
         /\ \E k \in DOMAIN crFlight' : crFlight'[k] = cause
<1>1. /\ crFlight' \in Seq(CrCause) /\ Len(crFlight') = Len(crFlight) + 1
      /\ crFlight'[Len(crFlight) + 1] = cause
      /\ \A k \in 1..Len(crFlight) : crFlight'[k] = crFlight[k]
      /\ DOMAIN crFlight' = 1..Len(crFlight') /\ DOMAIN crFlight = 1..Len(crFlight)
  BY DEF CrShape
<1>2. Len(crFlight) \in Nat
  BY DEF CrShape
<1> QED BY <1>1, <1>2, CrAssumption

\* The lists left when one was answered.
LEMMA CrRemoves ==
  ASSUME CrShape, NEW n \in 1..Len(crFlight),
         crFlight' = [k \in 1..Len(crFlight) - 1 |->
                        IF k < n THEN crFlight[k] ELSE crFlight[k + 1]]
  PROVE  /\ crFlight' \in Seq(CrCause) /\ Len(crFlight') <= CrFlights
         /\ \A k \in DOMAIN crFlight : k # n => \E m \in DOMAIN crFlight' :
              crFlight'[m] = crFlight[k]
<1>1. /\ Len(crFlight) \in Nat /\ DOMAIN crFlight = 1..Len(crFlight)
      /\ \A k \in 1..Len(crFlight) : crFlight[k] \in CrCause
  BY DEF CrShape
<1>2. crFlight' \in [1..Len(crFlight) - 1 -> CrCause]
  BY <1>1
<1>3. crFlight' \in Seq(CrCause) /\ Len(crFlight') = Len(crFlight) - 1
  BY <1>1, <1>2, SeqDef, LenProperties, Len(crFlight) - 1 \in Nat
<1>4. ASSUME NEW k \in DOMAIN crFlight, k # n
      PROVE  \E m \in DOMAIN crFlight' : crFlight'[m] = crFlight[k]
  <2>1. CASE k < n
    BY <1>1, <1>2, <1>4, <2>1
  <2>2. CASE k > n
    <3>1. k - 1 \in 1..Len(crFlight) - 1 /\ ~(k - 1 < n) /\ (k - 1) + 1 = k
      BY <1>1, <2>2
    <3> QED BY <1>2, <3>1
  <2> QED BY <1>1, <1>4, <2>1, <2>2
<1> QED BY <1>1, <1>3, <1>4, CrAssumption DEF CrShape

\* No lock, timer, touch, sheet or answer breaks them.
LEMMA CrStays == CrInv /\ [CrNext]_crVars => CrInv'
<1> SUFFICES ASSUME CrInv, [CrNext]_crVars PROVE CrInv'
  OBVIOUS
<1> USE CrAssumption DEF CrInv, CrShape, CrIdleLocks, CrSpinner, Open,
      crSheetVars, crListVars
<1>1. CASE CrLockButton
  BY <1>1 DEF CrLockButton, LockNow
<1>2. CASE CrTimeout
  BY <1>2 DEF CrTimeout, LockNow
<1>3. CASE CrBlur
  BY <1>3 DEF CrBlur, LockNow
<1>4. CASE CrUnlock
  BY <1>4 DEF CrUnlock
<1>5. CASE CrAsserted
  <2>1. PICK outcome \in {"granted", "cancelled", "none"} :
          /\ crAsserts > 0 /\ crAsserts' = crAsserts - 1
          /\ IF outcome = "granted"
               THEN /\ Len(crFlight) < CrFlights
                    /\ crLock' = "unlocked" /\ crLoading' = TRUE /\ crError' = FALSE
                    /\ crFlight' = Append(crFlight, "unlock")
               ELSE /\ crLock' = IF outcome = "cancelled" THEN "error" ELSE crLock
                    /\ UNCHANGED <<crLoading, crError, crFlight>>
          /\ UNCHANGED <<crTimer, crHeld, crRefreshing, crSheet, crSheetVars, crPosts>>
    BY <1>5 DEF CrAsserted
  <2>2. CASE outcome = "granted"
    BY <2>1, <2>2, CrAppends, "unlock" \in CrCause DEF CrCause
  <2>3. CASE outcome # "granted"
    BY <2>1, <2>3
  <2> QED BY <2>2, <2>3
<1>6. CASE CrAnswer
  <2>1. PICK n \in 1..Len(crFlight), ok \in BOOLEAN, list \in SUBSET CrProbe :
          /\ crFlight' = [k \in 1..Len(crFlight) - 1 |->
                            IF k < n THEN crFlight[k] ELSE crFlight[k + 1]]
          /\ crHeld' = IF ok THEN list ELSE crHeld
          /\ crLoading' = FALSE /\ crRefreshing' = FALSE
          /\ crTimer' = (crTimer \/ crFlight[n] # "key")
          /\ UNCHANGED <<crLock, crAsserts, crSheet, crSheetVars, crPosts>>
    BY <1>6, Zenon DEF CrAnswer
  <2>2. crTimer \/ crFlight[n] = "unlock" => crTimer'
    BY <2>1, "unlock" # "key", Zenon
  <2>3. /\ crFlight' \in Seq(CrCause) /\ Len(crFlight') <= CrFlights
        /\ \A k \in DOMAIN crFlight : k # n => \E m \in DOMAIN crFlight' :
             crFlight'[m] = crFlight[k]
    BY <2>1, CrRemoves
  <2>4. CrIdleLocks'
    BY <2>1, <2>2, <2>3
  <2>5. crHeld' \subseteq CrProbe
    BY <2>1
  <2> QED BY <2>1, <2>3, <2>4, <2>5
<1>7. CASE CrTouch
  BY <1>7 DEF CrTouch
<1>8. CASE CrRefresh
  BY <1>8, CrAppends, "refresh" \in CrCause DEF CrRefresh, CrCause
<1>9. CASE CrCard
  BY <1>9 DEF CrCard, SheetShows
<1>10. CASE CrSheetClose
  BY <1>10 DEF CrSheetClose, SheetShows
<1>11. CASE CrForm
  BY <1>11 DEF CrForm
<1>12. CASE CrType
  BY <1>12 DEF CrType
<1>13. CASE CrSubmit
  BY <1>13 DEF CrSubmit, SheetOffers
<1>14. CASE CrChanged
  <2>1. PICK ok \in BOOLEAN :
          /\ crPosts # <<>> /\ crPosts' = Tail(crPosts)
          /\ IF ok
               THEN /\ Len(crFlight) < CrFlights
                    /\ crFlight' = Append(crFlight, "key") /\ crTimer' = TRUE
               ELSE UNCHANGED <<crFlight, crTimer>>
          /\ UNCHANGED <<crLock, crAsserts, crHeld, crLoading, crRefreshing,
                         crSheet, crMode>>
    BY <1>14, Zenon DEF CrChanged
  <2>2. crPosts' \in Seq(CrProbe) /\ Len(crPosts') <= CrFlights
    BY <2>1
  <2>3. CASE ok
    BY <2>1, <2>2, <2>3, CrAppends, "key" \in CrCause DEF CrCause
  <2>4. CASE ~ok
    BY <2>1, <2>2, <2>4
  <2> QED BY <2>3, <2>4
<1>15. CASE UNCHANGED crVars
  BY <1>15 DEF crVars
<1> QED BY <1>1, <1>2, <1>3, <1>4, <1>5, <1>6, <1>7, <1>8, <1>9, <1>10,
        <1>11, <1>12, <1>13, <1>14, <1>15 DEF CrNext

\* What the types add.
CrFlags == {crTimer, crLoading, crRefreshing, crError, crKey, crSubmitting,
    crDone, crFailed} \subseteq BOOLEAN

\* The flags are Booleans, and stay so.
LEMMA CrFlagsStay == (CrInit => CrFlags) /\ (CrFlags /\ [CrNext]_crVars => CrFlags')
<1> USE DEF CrFlags, crListVars, crSheetVars
<1>1. CrInit => CrFlags
  BY Zenon DEF CrInit
<1>2. ASSUME CrFlags, CrLockButton PROVE CrFlags'
  BY <1>2, Zenon DEF CrLockButton, LockNow
<1>3. ASSUME CrFlags, CrTimeout PROVE CrFlags'
  BY <1>3, Zenon DEF CrTimeout, LockNow
<1>4. ASSUME CrFlags, CrBlur PROVE CrFlags'
  BY <1>4, Zenon DEF CrBlur, LockNow
<1>5. ASSUME CrFlags, CrUnlock PROVE CrFlags'
  BY <1>5, Zenon DEF CrUnlock
<1>6. ASSUME CrFlags, CrAsserted PROVE CrFlags'
  BY <1>6, Zenon DEF CrAsserted
<1>7. ASSUME CrFlags, CrAnswer PROVE CrFlags'
  BY <1>7, Zenon DEF CrAnswer
<1>8. ASSUME CrFlags, CrTouch PROVE CrFlags'
  BY <1>8, Zenon DEF CrTouch
<1>9. ASSUME CrFlags, CrRefresh PROVE CrFlags'
  BY <1>9, Zenon DEF CrRefresh
<1>10. ASSUME CrFlags, CrCard PROVE CrFlags'
  BY <1>10, Zenon DEF CrCard, SheetShows
<1>11. ASSUME CrFlags, CrSheetClose PROVE CrFlags'
  BY <1>11, Zenon DEF CrSheetClose, SheetShows
<1>12. ASSUME CrFlags, CrForm PROVE CrFlags'
  BY <1>12, Zenon DEF CrForm
<1>13. ASSUME CrFlags, CrType PROVE CrFlags'
  BY <1>13, Zenon DEF CrType
<1>14. ASSUME CrFlags, CrSubmit PROVE CrFlags'
  BY <1>14, Zenon DEF CrSubmit
<1>15. ASSUME CrFlags, CrChanged PROVE CrFlags'
  BY <1>15, Zenon DEF CrChanged
<1>16. ASSUME CrFlags, UNCHANGED crVars PROVE CrFlags'
  BY <1>16, Zenon DEF crVars
<1> QED BY <1>1, <1>2, <1>3, <1>4, <1>5, <1>6, <1>7, <1>8, <1>9, <1>10,
  <1>11, <1>12, <1>13, <1>14, <1>15, <1>16 DEF CrNext

(***************************************************************************)
(* Credentials, on the desktop and in the legacy shell.                    *)
(***************************************************************************)
CtShape ==
    /\ ctHost \in {"page", "legacy"}
    /\ ctHeld \subseteq CtProbe
    /\ ctFlight \in 0..CtFlights /\ ctAsserts \in 0..CtFlights
    /\ ctPosts \in 0..CtFlights
    /\ ctConfirm \in CtProbe \cup {CtNone} /\ ctPrompt \in CtProbe \cup {CtNone}
    /\ ctPressed \in CtProbe \cup {CtNone}
    /\ ctMobile => ctHost = "legacy"
CtLocked == (ctUnlocked => ctTimer) /\ (ctTimer => ctUnlocked)
CtInv == CtShape /\ CtLocked /\ (ctMobile /\ ~ctUnlocked => ctConfirm = CtNone)
         /\ CtSpinner

\* The page opens locked, with its list out.
LEMMA CtStarts == CtInit => CtInv
BY CtAssumption DEF CtInit, CtInv, CtShape, CtLocked, CtSpinner

\* No lock, timer, prompt or answer breaks them.
LEMMA CtStays == CtInv /\ [CtNext]_ctVars => CtInv'
<1> SUFFICES ASSUME CtInv, [CtNext]_ctVars PROVE CtInv'
  OBVIOUS
<1> USE CtAssumption DEF CtInv, CtShape, CtLocked, CtSpinner, CtShown, CtModal,
      ctListVars, ctLockVars
<1>1. CASE CtRefresh
  BY <1>1 DEF CtRefresh, CtAsk
<1>2. CASE CtAnswer
  BY <1>2 DEF CtAnswer
<1>3. CASE CtUnlock
  BY <1>3 DEF CtUnlock
<1>4. CASE CtAsserted
  BY <1>4 DEF CtAsserted, CtAsk
<1>5. CASE CtDenied
  BY <1>5 DEF CtDenied, CtLock
<1>6. CASE CtTimeout
  BY <1>6 DEF CtTimeout, CtLock
<1>7. CASE CtHide
  BY <1>7 DEF CtHide, CtLock
<1>8. CASE CtShow
  BY <1>8 DEF CtShow
<1>9. CASE CtKeyButton
  BY <1>9 DEF CtKeyButton, SetCredentialKey
<1>10. CASE CtSheet
  BY <1>10 DEF CtSheet, SetCredentialKey
<1>11. CASE CtTyped
  BY <1>11 DEF CtTyped
<1>12. CASE CtSaved
  <2>1. /\ ctPosts' \in 0..CtFlights
        /\ UNCHANGED <<ctHost, ctMobile, ctHeld, ctLockVars, ctPrompt, ctPressed>>
    BY <1>12 DEF CtSaved
  <2>2. CtAsk \/ UNCHANGED <<ctFlight, ctLoading>>
    BY <1>12, Zenon DEF CtSaved
  <2>3. CASE CtAsk
    BY <2>1, <2>3 DEF CtAsk
  <2>4. CASE UNCHANGED <<ctFlight, ctLoading>>
    BY <2>1, <2>4
  <2> QED BY <2>2, <2>3, <2>4
<1>13. CASE UNCHANGED ctVars
  BY <1>13 DEF ctVars
<1> QED BY <1>1, <1>2, <1>3, <1>4, <1>5, <1>6, <1>7, <1>8, <1>9, <1>10,
        <1>11, <1>12, <1>13 DEF CtNext

\* What the types add.
CtFlags == {ctLoading, ctError, ctUnlocked, ctTimer, ctHidden, ctMobile}
    \subseteq BOOLEAN

\* The flags are Booleans, and stay so.
LEMMA CtFlagsStay == (CtInit => CtFlags) /\ (CtFlags /\ [CtNext]_ctVars => CtFlags')
<1> USE DEF CtFlags, ctListVars, ctLockVars
<1>1. CtInit => CtFlags
  BY Zenon DEF CtInit
<1>2. ASSUME CtFlags, CtRefresh PROVE CtFlags'
  BY <1>2, Zenon DEF CtRefresh, CtAsk
<1>3. ASSUME CtFlags, CtAnswer PROVE CtFlags'
  BY <1>3, Zenon DEF CtAnswer
<1>4. ASSUME CtFlags, CtUnlock PROVE CtFlags'
  BY <1>4, Zenon DEF CtUnlock
<1>5. ASSUME CtFlags, CtAsserted PROVE CtFlags'
  BY <1>5, Zenon DEF CtAsserted, CtAsk
<1>6. ASSUME CtFlags, CtDenied PROVE CtFlags'
  BY <1>6, Zenon DEF CtDenied, CtLock
<1>7. ASSUME CtFlags, CtTimeout PROVE CtFlags'
  BY <1>7, Zenon DEF CtTimeout, CtLock
<1>8. ASSUME CtFlags, CtHide PROVE CtFlags'
  BY <1>8, Zenon DEF CtHide, CtLock
<1>9. ASSUME CtFlags, CtShow PROVE CtFlags'
  BY <1>9, Zenon DEF CtShow
<1>10. ASSUME CtFlags, CtKeyButton PROVE CtFlags'
  BY <1>10, Zenon DEF CtKeyButton, SetCredentialKey
<1>11. ASSUME CtFlags, CtSheet PROVE CtFlags'
  BY <1>11, Zenon DEF CtSheet, SetCredentialKey
<1>12. ASSUME CtFlags, CtTyped PROVE CtFlags'
  BY <1>12, Zenon DEF CtTyped
<1>13. ASSUME CtFlags, CtSaved PROVE CtFlags'
  BY <1>13, Zenon DEF CtSaved, CtAsk
<1>14. ASSUME CtFlags, UNCHANGED ctVars PROVE CtFlags'
  BY <1>14, Zenon DEF ctVars
<1> QED BY <1>1, <1>2, <1>3, <1>4, <1>5, <1>6, <1>7, <1>8, <1>9, <1>10,
  <1>11, <1>12, <1>13, <1>14 DEF CtNext

(***************************************************************************)
(* The parts side by side.                                                 *)
(***************************************************************************)
ViewInv ==
    /\ FeedInv
    /\ EvInv /\ EvRecorded
    /\ AlInv
    /\ McInv
    /\ AnInv
    /\ RpInv
    /\ SvInv
    /\ ChInv
    /\ ShInv
    /\ CrInv
    /\ CtInv

\* A step of the page is a step of one part and none of the others.
LEMMA PartsStep ==
  ASSUME [Next]_vars
  PROVE  /\ [FeedNext]_feedVars
         /\ [EvNext]_evVars
         /\ [AlNext]_alVars
         /\ [McNext]_mcVars
         /\ [AnNext]_anVars
         /\ [RpNext]_rpVars
         /\ [SvNext]_svVars
         /\ [ChNext]_chVars
         /\ [ShNext]_shVars
         /\ [CrNext]_crVars
         /\ [CtNext]_ctVars
<1>1. [FeedNext]_feedVars
  BY Zenon DEF Next, Rest, vars
<1>2. [EvNext]_evVars
  BY Zenon DEF Next, Rest, vars
<1>3. [AlNext]_alVars
  BY Zenon DEF Next, Rest, vars
<1>4. [McNext]_mcVars
  BY Zenon DEF Next, Rest, vars
<1>5. [AnNext]_anVars
  BY Zenon DEF Next, Rest, vars
<1>6. [RpNext]_rpVars
  BY Zenon DEF Next, Rest, vars
<1>7. [SvNext]_svVars
  BY Zenon DEF Next, Rest, vars
<1>8. [ChNext]_chVars
  BY Zenon DEF Next, Rest, vars
<1>9. [ShNext]_shVars
  BY Zenon DEF Next, Rest, vars
<1>10. [CrNext]_crVars
  BY Zenon DEF Next, Rest, vars
<1>11. [CtNext]_ctVars
  BY Zenon DEF Next, Rest, vars
<1> QED BY <1>1, <1>2, <1>3, <1>4, <1>5, <1>6, <1>7, <1>8, <1>9, <1>10,
  <1>11

\* Every part opens as its invariant says.
LEMMA ViewsStart == Init => ViewInv
BY FeedStarts, EvStarts, EvRecordedStarts, AlStarts, McStays, AnStarts,
  RpStarts, SvStarts, ChStarts, ShStarts, CrStarts, CtStarts DEF Init, ViewInv

\* No step of any part breaks them.
LEMMA ViewsStay == ViewInv /\ [Next]_vars => ViewInv'
<1> SUFFICES ASSUME ViewInv, [Next]_vars PROVE ViewInv'
  OBVIOUS
<1>1. FeedInv'
  BY PartsStep, FeedStays DEF ViewInv
<1>2. EvInv' /\ EvRecorded'
  BY PartsStep, EvStays, EvRecordedStays DEF ViewInv
<1>3. AlInv'
  BY PartsStep, AlStays DEF ViewInv
<1>4. McInv'
  BY PartsStep, McStays DEF ViewInv
<1>5. AnInv'
  BY PartsStep, AnStays DEF ViewInv
<1>6. RpInv'
  BY PartsStep, RpStays DEF ViewInv
<1>7. SvInv'
  BY PartsStep, SvStays DEF ViewInv
<1>8. ChInv'
  BY PartsStep, ChStays DEF ViewInv
<1>9. ShInv'
  BY PartsStep, ShStays DEF ViewInv
<1>10. CrInv'
  BY PartsStep, CrStays DEF ViewInv
<1>11. CtInv'
  BY PartsStep, CtStays DEF ViewInv
<1> QED BY <1>1, <1>2, <1>3, <1>4, <1>5, <1>6, <1>7, <1>8, <1>9, <1>10,
  <1>11 DEF ViewInv

\* The inductive invariants hold of every part at once.
LEMMA ViewsHold == Spec => []ViewInv
BY ViewsStart, ViewsStay, PTL DEF Spec

\* A page that shows it is loading has a request out that takes the sign down
\* (unless it is the analysis whose collection failed), every call that waits
\* for the session waits for a refresh that is out, and recovery is offered
\* after three failures in a row only: for any number of requests out at once
\* that come back in any order.
THEOREM NobodyWaitsIdly == Spec => []NoIdleWait
<1>1. ViewInv => NoIdleWait
  BY ShHolds DEF ViewInv, FeedInv, AnInv, RpInv, SvInv, SvShape, CrInv, CtInv,
     NoIdleWait
<1> QED BY <1>1, ViewsHold, PTL

\* Open credentials have a timer pending, or a request whose end starts one.
THEOREM LocksClose == Spec => []LocksHold
<1>1. CtInv => CtLockHolds
  BY DEF CtInv, CtLocked, CtLockHolds
<1>2. ViewInv => LocksHold
  BY <1>1 DEF ViewInv, CrInv, LocksHold
<1> QED BY <1>2, ViewsHold, PTL

\* What the page shows is the best it was told, for any set of machines, events
\* and chats and any order of the answers: a hidden alert was pressed with the
\* content it has and had not run out when the page was drawn.
THEOREM ShowsTruth == Spec => []ShownIsTrue
<1>1. ViewInv => ShownIsTrue
  BY EvHolds, EvAlarms, McLive, McBest, ChHolds DEF ViewInv, AlInv, ShownIsTrue
<1> QED BY <1>1, ViewsHold, PTL

\* Within a visit one restart, one request of the conductor's page and one post
\* of each kind to the launcher are out at most, and an update is signalled
\* only to a machine whose own dry run was shown.
THEOREM ServicesAsk == Spec => []ServicesConsent
<1>1. DgInv => DgOneRestart
  BY DEF DgInv, DgOneRestart
<1>2. SvShape /\ CqInv => CqOneOut
  BY SvAssumption DEF SvShape, CqInv, CqOneOut
<1>3. ViewInv => ServicesConsent
  BY <1>1, <1>2 DEF ViewInv, SvInv, DpInv, ClInv, ServicesConsent
<1> QED BY <1>3, ViewsHold, PTL

\* What the types add to the invariants: flags are Booleans, and of what kind
\* the alerts' documents, the events held and the tab shown are.
ViewKinds ==
    /\ scene \in Scenes
    /\ EvKinds /\ AlKinds /\ AlFlag /\ ShPlaced
    /\ FeedFlags /\ FeedPlaced
    /\ McFlags
    /\ AnFlags
    /\ RpFlags
    /\ SvFlags
    /\ ChFlags
    /\ ShFlags
    /\ CrFlags
    /\ CtFlags

\* The kinds hold at first and are kept.
LEMMA KindsHold ==
  /\ Init => ViewKinds
  /\ ViewInv /\ ViewKinds /\ [Next]_vars => ViewKinds'
<1>1. ASSUME Init PROVE ViewKinds
  BY <1>1, EvKindsStay, AlKindsStay, AlFlagStays, FeedFlagsStay, FeedPlacedStays,
    McFlagsStay, AnFlagsStay, RpFlagsStay, SvFlagsStart, ChFlagsStart,
    ShKindsStart, CrFlagsStay, CtFlagsStay DEF Init, ViewKinds
<1>2. ASSUME ViewInv, ViewKinds, [Next]_vars PROVE ViewKinds'
  <2>1. scene' \in Scenes
    BY <1>2, Zenon DEF ViewKinds, Next, Rest, vars
  <2>2. EvKinds'
    BY <1>2, PartsStep, EvStays, EvKindsStay DEF ViewInv, ViewKinds
  <2>3. AlKinds' /\ AlFlag'
    BY <1>2, PartsStep, AlKindsStay, AlFlagStays DEF ViewKinds
  <2>4. ShPlaced'
    BY <1>2, PartsStep, ShPlacedStays DEF ViewKinds
  <2>5. FeedFlags' /\ FeedPlaced'
    BY <1>2, PartsStep, FeedFlagsStay, FeedPlacedStays DEF ViewInv, ViewKinds
  <2>6. McFlags'
    BY <1>2, PartsStep, McFlagsStay DEF ViewInv, ViewKinds
  <2>7. AnFlags'
    BY <1>2, PartsStep, AnFlagsStay DEF ViewInv, ViewKinds
  <2>8. RpFlags'
    BY <1>2, PartsStep, RpFlagsStay DEF ViewInv, ViewKinds
  <2>9. SvFlags'
    BY <1>2, PartsStep, SvFlagsStay DEF ViewInv, ViewKinds
  <2>10. ChFlags'
    BY <1>2, PartsStep, ChFlagsStay DEF ViewInv, ViewKinds
  <2>11. ShFlags'
    BY <1>2, PartsStep, ShFlagsStay DEF ViewInv, ViewKinds
  <2>12. CrFlags'
    BY <1>2, PartsStep, CrFlagsStay DEF ViewInv, ViewKinds
  <2>13. CtFlags'
    BY <1>2, PartsStep, CtFlagsStay DEF ViewInv, ViewKinds
  <2> QED BY <2>1, <2>2, <2>3, <2>4, <2>5, <2>6, <2>7, <2>8, <2>9, <2>10,
     <2>11, <2>12, <2>13 DEF ViewKinds
<1> QED BY <1>1, <1>2

\* The states of the parts that load, watch and converse have their types, for
\* any documents, events, machines, rows, tabs and calls.
THEOREM ViewsTyped == Spec => []ViewTypeOK
<1>1. ViewInv /\ ViewKinds => ViewTypeOK
  <2> SUFFICES ASSUME ViewInv, ViewKinds PROVE ViewTypeOK
    OBVIOUS
  <2> USE DEF ViewInv, ViewKinds
  <2>1. FeedTypeOK
    BY DEF FeedInv, FeedShape, FeedFlags, FeedPlaced, FeedPages, FeedRequests, FeedTypeOK
  <2>2. EvTypeOK
    <3>1. ASSUME NEW n \in evStore PROVE n \in 1..EvTotal
      BY <3>1, EvAssumption DEF EvInv, EvShape
    <3>2. evHidden \in [EvPage -> BOOLEAN]
      BY Zenon DEF EvKinds
    <3> QED BY <3>1, <3>2 DEF EvInv, EvShape, EvFlying, EvKinds, EvTypeOK
  <2>3. AlTypeOK
    BY DEF AlInv, AlShape, AlKinds, AlFlag, AlTypeOK
  <2>4. McTypeOK
    BY DEF McInv, McFlags, McTypeOK
  <2>5. AnTypeOK
    BY DEF AnInv, AnShape, AnFlags, AnTypeOK
  <2>6. RpTypeOK
    BY DEF RpInv, RpShape, RpFlags, RpTypeOK
  <2>7. SvTypeOK
    <3>1. {svLoads, dgRestarts, dpTimers, rsSaves, cqActions} \subseteq 0..SvFlights
      BY SvAssumption DEF SvInv, SvShape, DgInv, DpInv, RsInv, CqInv
    <3>2. rsDraft \in [of: 0..SvFlights, edited: BOOLEAN]
      BY DEF SvInv, RsInv, SvFlags, RsFlags
    <3>3. {svAsking, svError, dgConfirm, dgRestarting, dgMaking, cqOff,
           cqBusy} \subseteq BOOLEAN /\ clRunning \in BOOLEAN
      BY Zenon DEF SvFlags, LoadFlags, DgFlags, RsFlags, CqFlags, ClFlags
    <3> QED BY <3>1, <3>2, <3>3 DEF SvInv, SvShape, DpInv, RsInv, CqInv, ClInv, SvTypeOK
  <2>8. ChTypeOK
    BY DEF ChInv, MxInv, MxShape, AtInv, ChFlags, MxFlags, MxKnows, AtFlags, ChTypeOK
  <2>9. ShTypeOK
    BY DEF ShInv, ShShape, ShPhases, ShFlags, ShPlaced, ShTypeOK
  <2>10. CrTypeOK
    BY DEF CrInv, CrShape, CrCause, CrFlags, CrTypeOK
  <2>11. CtTypeOK
    BY DEF CtInv, CtShape, CtFlags, CtTypeOK
  <2> QED BY <2>1, <2>2, <2>3, <2>4, <2>5, <2>6, <2>7, <2>8, <2>9, <2>10,
     <2>11 DEF ViewTypeOK
<1> QED BY <1>1, KindsHold, ViewsStart, ViewsStay, PTL DEF Spec
==============================================================================

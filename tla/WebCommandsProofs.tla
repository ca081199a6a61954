--------------------------- MODULE WebCommandsProofs ---------------------------
(***************************************************************************)
(* The parts of the browser that send commands: each has an inductive      *)
(* invariant of its own, for any set of runs, issues, pull requests,       *)
(* workflows, tabs and messages, and any bound on what is out at once.     *)
(* The parts share no state, so the invariants hold side by side.          *)
(***************************************************************************)
EXTENDS MCWebCommands, TLAPS, SequenceTheorems, FiniteSetTheorems,
        WellFoundedInduction

\* What RemoveAt leaves: one element less, and each that is left was there.
LEMMA Removed ==
  ASSUME NEW S, NEW s \in Seq(S), NEW n \in 1..Len(s)
  PROVE  /\ RemoveAt(s, n) \in Seq(S)
         /\ Len(RemoveAt(s, n)) = Len(s) - 1
         /\ \A k \in 1..Len(s)-1 :
              RemoveAt(s, n)[k] = IF k < n THEN s[k] ELSE s[k+1]
<1> DEFINE pre == SubSeq(s, 1, n-1)
           suf == SubSeq(s, n+1, Len(s))
<1>1. pre \in Seq(S) /\ Len(pre) = n - 1 /\ \A k \in 1..n-1 : pre[k] = s[k]
  OBVIOUS
<1>2. suf \in Seq(S) /\ Len(suf) = Len(s) - n /\ \A k \in 1..Len(s)-n : suf[k] = s[n+k]
  OBVIOUS
<1> HIDE DEF pre, suf
<1>3. RemoveAt(s, n) = pre \o suf
  BY DEF RemoveAt, pre, suf
<1>4. /\ pre \o suf \in Seq(S)
      /\ Len(pre \o suf) = Len(s) - 1
  BY <1>1, <1>2, ConcatProperties
<1>5. ASSUME NEW k \in 1..Len(s)-1
      PROVE  (pre \o suf)[k] = IF k < n THEN s[k] ELSE s[k+1]
  BY <1>1, <1>2, ConcatProperties
<1> QED BY <1>3, <1>4, <1>5

\* A sequence of one element.
LEMMA Single == ASSUME NEW S, NEW x \in S PROVE <<x>> \in Seq(S) /\ Len(<<x>>) = 1
OBVIOUS

\* A set of naturals that is not empty has a least element.
LEMMA Least ==
  ASSUME NEW S \in SUBSET Nat, S # {}
  PROVE  \E x \in S : \A y \in S : x <= y
<1> DEFINE Less == {p \in Nat \X Nat : p[1] < p[2]}
<1>3. IsWellFoundedOn(Less, Nat)
  BY NatLessThanWellFounded, Zenon DEF OpToRel
<1> HIDE DEF Less
<1>4. \E x \in S : \A y \in S : ~(<<y,x>> \in Less)
  BY <1>3, WFMin, S \subseteq Nat, Zenon
<1>5. \A x, y \in Nat : ~(<<y, x>> \in Less) => x <= y
  BY DEF Less
<1> QED BY <1>4, <1>5

(***************************************************************************)
(* Remediation of runs.                                                    *)
(***************************************************************************)
\* The requests in flight, and a load that is waited for.
RrShape ==
    /\ rrFailed \subseteq RrRun
    /\ rrSelected \in 0..RrRuns /\ rrSheet \in 0..RrRuns
    /\ rrNote \in {"none", "in-flight", "error"}
    /\ rrProvider \in RrProviders
    /\ rrEditing \subseteq RrFields
    /\ rrFlight \in Seq(RrRequest) /\ Len(rrFlight) <= RrFlights
RrSaves == \E i \in 1..Len(rrFlight) : rrFlight[i].kind = "save"
RrInv == RrShape /\ RrSpinner

\* The page opens with its first load out.
LEMMA RrStarts == RrInit => RrInv
<1> SUFFICES ASSUME RrInit PROVE RrInv
  OBVIOUS
<1>1. [kind |-> "load", run |-> 0] \in RrRequest
  BY RrAssumption DEF RrRequest
<1>2. rrFlight \in Seq(RrRequest) /\ Len(rrFlight) = 1
  BY <1>1, Single DEF RrInit
<1> QED BY <1>2, RrAssumption DEF RrInit, RrInv, RrShape, RrSpinner, RrProviders

\* A request that is sent is waited for, and a save among those out stays out.
LEMMA RrSent ==
  ASSUME RrInv, NEW kind \in {"load", "save", "plan", "dispatch"},
         NEW run \in 0..RrRuns, RrSend(kind, run)
  PROVE  /\ rrFlight' \in Seq(RrRequest) /\ Len(rrFlight') <= RrFlights
         /\ rrFlight' # <<>>
         /\ kind = "save" \/ rrSaving => RrSaves'
<1> DEFINE req == [kind |-> kind, run |-> run]
<1>1. req \in RrRequest /\ req.kind = kind
  BY DEF RrRequest
<1>2. rrFlight' = Append(rrFlight, req) /\ Len(rrFlight) < RrFlights
  BY DEF RrSend
<1> HIDE DEF req
<1>3. rrFlight \in Seq(RrRequest)
  BY DEF RrInv, RrShape
<1>4. /\ rrFlight' \in Seq(RrRequest) /\ Len(rrFlight') = Len(rrFlight) + 1
      /\ rrFlight'[Len(rrFlight) + 1] = req
      /\ \A i \in 1..Len(rrFlight) : rrFlight'[i] = rrFlight[i]
  BY <1>1, <1>2, <1>3
<1>5. CASE kind = "save"
  BY <1>1, <1>2, <1>3, <1>4, <1>5, RrAssumption DEF RrSaves
<1>6. CASE kind # "save" /\ rrSaving
  <2>1. PICK i \in 1..Len(rrFlight) : rrFlight[i].kind = "save"
    BY <1>6 DEF RrInv, RrSpinner
  <2> QED BY <1>2, <1>3, <1>4, <2>1, RrAssumption DEF RrSaves
<1>7. CASE kind # "save" /\ ~rrSaving
  BY <1>2, <1>3, <1>4, <1>7, RrAssumption
<1> QED BY <1>5, <1>6, <1>7

\* Whatever the operator does and however requests end, what is shown as going
\* on is out.
LEMMA RrStays == RrInv /\ [RrNext]_rrVars => RrInv'
<1> SUFFICES ASSUME RrInv, [RrNext]_rrVars PROVE RrInv'
  OBVIOUS
<1> USE RrAssumption DEF RrInv, RrShape, RrSpinner, RrSaves, RrProviders, RrRun,
        rrView, rrPolicy
<1>1. CASE RrRow
  <2>1. PICK run \in rrFailed, kind \in {"plan", "dispatch"} :
          /\ RrSend(kind, run) /\ RrOrder(kind) /\ rrSelected' = run
          /\ UNCHANGED <<rrFailed, rrPlan, rrView, rrProvider, rrPolicy>>
    BY <1>1 DEF RrRow, RowOffers
  <2>2. run \in 0..RrRuns
    OBVIOUS
  <2>3. rrNote' \in {"none", "in-flight"}
    BY <2>1 DEF RrOrder, Previewed, Dispatched
  <2>4. /\ rrFlight' \in Seq(RrRequest) /\ Len(rrFlight') <= RrFlights
        /\ rrFlight' # <<>>
        /\ rrSaving => RrSaves'
    BY <2>1, <2>2, RrSent
  <2> QED BY <2>1, <2>2, <2>3, <2>4
<1>2. CASE RrOpenSheet
  BY <1>2 DEF RrOpenSheet
<1>3. CASE RrSheetOrder
  <2>1. PICK kind \in {"plan", "dispatch"} :
          /\ RrSend(kind, rrSheet) /\ RrOrder(kind)
          /\ rrSelected' = IF kind = "dispatch" THEN rrSheet ELSE rrSelected
          /\ rrSheet' = 0
          /\ UNCHANGED <<rrFailed, rrPlan, rrPicker, rrProvider, rrPolicy>>
    BY <1>3 DEF RrSheetOrder, SheetOffers
  <2>2. rrNote' \in {"none", "in-flight"}
    BY <2>1 DEF RrOrder, Previewed, Dispatched
  <2>3. /\ rrFlight' \in Seq(RrRequest) /\ Len(rrFlight') <= RrFlights
        /\ rrFlight' # <<>>
        /\ rrSaving => RrSaves'
    BY <2>1, RrSent
  <2> QED BY <2>1, <2>2, <2>3
<1>4. CASE RrSheetView
  BY <1>4 DEF RrSheetView
<1>5. CASE RrProvide
  BY <1>5 DEF RrProvide
<1>6. CASE RrRefresh
  <2>1. /\ RrSend("load", 0)
        /\ UNCHANGED <<rrFailed, rrSelected, rrPlan, rrNote, rrView, rrProvider,
                       rrPolicy>>
    BY <1>6 DEF RrRefresh
  <2>2. /\ rrFlight' \in Seq(RrRequest) /\ Len(rrFlight') <= RrFlights
        /\ rrFlight' # <<>>
        /\ rrSaving => RrSaves'
    BY <2>1, RrSent
  <2> QED BY <2>1, <2>2
<1>7. CASE RrEdit
  BY <1>7 DEF RrEdit
<1>8. CASE RrSave
  <2>1. /\ RrSend("save", 0)
        /\ rrEditing' \subseteq rrEditing
        /\ UNCHANGED <<rrFailed, rrSelected, rrPlan, rrNote, rrView, rrProvider>>
    BY <1>8 DEF RrSave
  <2>2. /\ rrFlight' \in Seq(RrRequest) /\ Len(rrFlight') <= RrFlights
        /\ rrFlight' # <<>>
        /\ RrSaves'
    BY <2>1, RrSent
  <2> QED BY <2>1, <2>2
<1>9. CASE RrSettles
  <2>1. PICK n \in 1..Len(rrFlight) :
          /\ rrFlight' = RemoveAt(rrFlight, n) /\ rrLoading' = FALSE
          /\ rrSaving' = (rrSaving /\ rrFlight[n].kind # "save")
          /\ \/ rrFailed' \in SUBSET RrRun /\ rrProvider' \in RrProviders
             \/ rrProvider' \in RrProviders /\ UNCHANGED rrFailed
             \/ UNCHANGED <<rrFailed, rrProvider>>
          /\ rrNote' \in {"in-flight", "error"} \/ UNCHANGED rrNote
          /\ UNCHANGED <<rrSelected, rrView, rrEditing>>
    BY <1>9, Zenon DEF RrSettles
  <2>2. /\ rrFlight' \in Seq(RrRequest) /\ Len(rrFlight') = Len(rrFlight) - 1
        /\ \A k \in 1..Len(rrFlight) - 1 :
             rrFlight'[k] = IF k < n THEN rrFlight[k] ELSE rrFlight[k + 1]
    BY <2>1, Removed
  <2>3. ASSUME rrSaving' PROVE RrSaves'
    <3>1. PICK i \in 1..Len(rrFlight) : rrFlight[i].kind = "save"
      BY <2>1, <2>3
    <3>2. i # n
      BY <2>1, <2>3, <3>1
    <3>3. CASE i < n
      BY <2>2, <3>1, <3>3
    <3>4. CASE i > n
      <4>1. i - 1 \in 1..Len(rrFlight) - 1 /\ rrFlight'[i - 1] = rrFlight[i]
        BY <2>2, <3>1, <3>4
      <4> QED BY <2>2, <3>1, <4>1
    <3> QED BY <3>2, <3>3, <3>4
  <2>4. RrShape'
    <3>1. Len(rrFlight') <= RrFlights
      BY <2>2
    <3>2. /\ rrFailed' \subseteq RrRun /\ rrProvider' \in RrProviders
          /\ rrNote' \in {"none", "in-flight", "error"}
      BY <2>1
    <3> QED BY <2>1, <2>2, <3>1, <3>2
  <2> QED BY <2>1, <2>3, <2>4
<1>10. CASE UNCHANGED rrVars
  BY <1>10 DEF rrVars
<1> QED BY <1>1, <1>2, <1>3, <1>4, <1>5, <1>6, <1>7, <1>8, <1>9, <1>10 DEF RrNext

\* Its flags are Booleans.
RrFlags == {rrLoading, rrPicker, rrSaving} \subseteq BOOLEAN

\* They stay so.
LEMMA RrFlagsStay == (RrInit => RrFlags) /\ (RrFlags /\ [RrNext]_rrVars => RrFlags')
<1> USE DEF RrFlags, rrView, rrPolicy
<1>1. RrInit => RrFlags
  BY Zenon DEF RrInit
<1>2. ASSUME RrFlags, RrRow PROVE RrFlags'
  BY <1>2, Zenon DEF RrRow, RrSend
<1>3. ASSUME RrFlags, RrOpenSheet PROVE RrFlags'
  BY <1>3, Zenon DEF RrOpenSheet
<1>4. ASSUME RrFlags, RrSheetOrder PROVE RrFlags'
  BY <1>4, Zenon DEF RrSheetOrder, RrSend
<1>5. ASSUME RrFlags, RrSheetView PROVE RrFlags'
  BY <1>5, Zenon DEF RrSheetView
<1>6. ASSUME RrFlags, RrProvide PROVE RrFlags'
  BY <1>6, Zenon DEF RrProvide
<1>7. ASSUME RrFlags, RrRefresh PROVE RrFlags'
  BY <1>7, Zenon DEF RrRefresh, RrSend
<1>8. ASSUME RrFlags, RrSettles PROVE RrFlags'
  BY <1>8, Zenon DEF RrSettles
<1>9. ASSUME RrFlags, RrEdit PROVE RrFlags'
  BY <1>9, Zenon DEF RrEdit
<1>10. ASSUME RrFlags, RrSave PROVE RrFlags'
  BY <1>10, Zenon DEF RrSave, RrSend
<1>11. ASSUME RrFlags, UNCHANGED rrVars PROVE RrFlags'
  BY <1>11, Zenon DEF rrVars
<1> QED BY <1>1, <1>2, <1>3, <1>4, <1>5, <1>6, <1>7, <1>8, <1>9, <1>10, <1>11
        DEF RrNext

\* A plan is of a run that was asked for one.
RrPlanned == rrPlan \in [run : 0..RrRuns, accepted : BOOLEAN]

\* It stays so, whatever sheet is open.
LEMMA RrPlanStays ==
  (RrInit => RrPlanned) /\ (RrInv /\ RrPlanned /\ [RrNext]_rrVars => RrPlanned')
<1>1. ASSUME RrInit PROVE RrPlanned
  <2>1. 0 \in 0..RrRuns
    BY RrAssumption
  <2> QED BY <1>1, <2>1, Zenon DEF RrInit, NoPlan, RrPlanned
<1>2. ASSUME RrInv, RrPlanned, RrNext PROVE RrPlanned'
  <2>1. CASE UNCHANGED rrPlan
    BY <1>2, <2>1 DEF RrPlanned
  <2>2. CASE RrSettles
    <3>1. PICK n \in 1..Len(rrFlight) :
            \/ UNCHANGED rrPlan
            \/ rrPlan' \in {NoPlan} \cup [run : {rrFlight[n].run}, accepted : BOOLEAN]
      BY <2>2, Zenon DEF RrSettles
    <3>2. rrFlight[n].run \in 0..RrRuns /\ 0 \in 0..RrRuns
      <4>1. rrFlight \in Seq(RrRequest)
        BY <1>2 DEF RrInv, RrShape
      <4>2. rrFlight[n] \in RrRequest
        BY <4>1, ElementOfSeq
      <4> QED BY <4>2, RrAssumption DEF RrRequest
    <3>3. \A r \in 0..RrRuns :
             [run : {r}, accepted : BOOLEAN]
              \subseteq [run : 0..RrRuns, accepted : BOOLEAN]
      BY Zenon
    <3>4. NoPlan \in [run : 0..RrRuns, accepted : BOOLEAN]
      BY <3>2, Zenon DEF NoPlan
    <3> QED BY <1>2, <3>1, <3>2, <3>3, <3>4, Zenon DEF RrPlanned
  <2> QED BY <1>2, <2>1, <2>2 DEF RrNext, RrRow, RrOpenSheet, RrSheetOrder,
             RrSheetView, RrProvide, RrRefresh, RrEdit, RrSave
<1> QED BY <1>1, <1>2 DEF rrVars, RrPlanned

(***************************************************************************)
(* Issues.                                                                 *)
(***************************************************************************)
\* Force is never set in the open dialog without having been ticked there.
IsShape ==
  /\ {isSource, isStored} \subseteq IsSources \cup {"none"}
  /\ isOptions \subseteq IsSources
  /\ isFlight \in Seq(IsSources) /\ Len(isFlight) <= IsFlights
  /\ isShown \subseteq IsIssue /\ isBlocked \subseteq isShown
  /\ isSelected \subseteq IsIssue
  /\ isPosts \in 0..IsFlights
IsInv == IsShape /\ IsSpinner /\ IsForceTicked
         /\ (isModal /\ isForce => isTicked)
         /\ (isAsked => isOptions = {"github"})

\* The issues open unasked or with their first list out.
LEMMA IsStarts == IsInit => IsInv
<1> SUFFICES ASSUME IsInit PROVE IsInv
  OBVIOUS
<1>1. isFlight \in Seq(IsSources) /\ Len(isFlight) <= IsFlights
  <2>1. CASE isSource = "none"
    BY <2>1, IsAssumption DEF IsInit
  <2>2. CASE isSource # "none"
    <3>1. isSource \in IsSources /\ isFlight = <<isSource>>
      BY <2>2 DEF IsInit
    <3> QED BY <3>1, IsAssumption, Single
  <2> QED BY <2>1, <2>2
<1>2. isSource \in IsSources \cup {"none"} /\ isStored = isSource
  BY DEF IsInit
<1>3. IsShape
  BY <1>1, <1>2, IsAssumption DEF IsInit, IsShape, IsSources
<1>4. IsSpinner
  BY DEF IsInit, IsSpinner
<1> QED BY <1>3, <1>4 DEF IsInit, IsInv, IsSpinner, IsForceTicked

\* What turning to another source leaves.
LEMMA IsTurned ==
  ASSUME IsInv, NEW source \in IsSources \cup {"none"}, IsTurnTo(source)
  PROVE  /\ isSource' \in IsSources \cup {"none"} /\ isStored' \in IsSources \cup {"none"}
         /\ isFlight' \in Seq(IsSources) /\ Len(isFlight') <= IsFlights
         /\ isShown' \subseteq IsIssue /\ isBlocked' \subseteq isShown' /\ IsSpinner'
<1> USE IsAssumption DEF IsInv, IsShape, IsSpinner, IsTurnTo, isListVars
<1>1. CASE source = isSource
  BY <1>1
<1>2. CASE source # isSource
  <2> DEFINE asked == IF source = "none" THEN "github" ELSE source
  <2>1. asked \in IsSources
    BY DEF IsSources
  <2>2. isFlight' = Append(isFlight, asked) /\ Len(isFlight) < IsFlights
    BY <1>2 DEF IsFetch
  <2> HIDE DEF asked
  <2>3. /\ isFlight' \in Seq(IsSources) /\ Len(isFlight') = Len(isFlight) + 1
        /\ isFlight' # <<>>
    BY <2>1, <2>2
  <2> QED BY <1>2, <2>2, <2>3 DEF IsFetch
<1> QED BY <1>1, <1>2

\* No step ticks nothing and forces, or waits for a list that is not out.
LEMMA IsStays == IsInv /\ [IsNext]_isVars => IsInv'
<1> SUFFICES ASSUME IsInv, [IsNext]_isVars PROVE IsInv'
  OBVIOUS
<1> USE IsAssumption DEF IsInv, IsShape, IsSpinner, IsForceTicked, IsSources,
        isFilterVars, isListVars, isDialogVars
<1>1. CASE IsWorkspaces
  <2>1. PICK linear \in BOOLEAN, ok \in BOOLEAN :
          LET offered == IF ok /\ linear THEN IsSources ELSE {"github"}
              kept == IF isSource \in offered THEN isSource
                      ELSE IF isStored \in offered THEN isStored
                      ELSE IF linear THEN "unified" ELSE "github"
          IN /\ isAsked /\ isAsked' = FALSE
             /\ isOptions' = offered
             /\ IsTurnTo(IF ok THEN kept
                         ELSE IF isSource = "none" THEN "github" ELSE isSource)
             /\ UNCHANGED <<isOnlyPickable, isSelected, isDialogVars, isPosts, isSent>>
    BY <1>1, Zenon DEF IsWorkspaces
  <2>2. PICK source \in IsSources \cup {"none"} : IsTurnTo(source)
    BY <2>1
  <2>3. isOptions' \subseteq IsSources /\ ~isAsked'
    BY <2>1
  <2> QED BY <2>1, <2>2, <2>3, IsTurned
<1>2. CASE IsFilter
  <2>1. CASE \E s \in isOptions : IsTurnTo(s)
    BY <1>2, <2>1, IsTurned DEF IsFilter
  <2>2. CASE UNCHANGED <<isSource, isStored, isListVars>>
    BY <1>2, <2>2 DEF IsFilter
  <2> QED BY <1>2, <2>1, <2>2 DEF IsFilter
<1>3. CASE IsRefresh
  BY <1>3 DEF IsRefresh, IsFetch
<1>4. CASE IsAnswer
  BY <1>4, Removed DEF IsAnswer, IsReplaced
<1>5. CASE IsPick
  BY <1>5 DEF IsPick, IsRows, IsListed
<1>6. CASE IsOpen
  BY <1>6 DEF IsOpen
<1>7. CASE IsTick
  BY <1>7 DEF IsTick
<1>8. CASE IsDismiss
  BY <1>8 DEF IsDismiss
<1>9. CASE IsConfirm
  <2>1. isPosts' \in 0..IsFlights
    BY <1>9 DEF IsConfirm
  <2>2. ~isSent'
    BY <1>9 DEF IsConfirm
  <2> QED BY <1>9, <2>1, <2>2 DEF IsConfirm
<1>10. CASE IsDispatched
  BY <1>10 DEF IsDispatched
<1>11. CASE UNCHANGED isVars
  BY <1>11 DEF isVars
<1> QED BY <1>1, <1>2, <1>3, <1>4, <1>5, <1>6, <1>7, <1>8, <1>9, <1>10, <1>11 DEF IsNext

\* Its flags are Booleans.
IsFlags == {isAsked, isLoading, isError, isOnlyPickable, isModal, isForce,
    isTicked, isSent} \subseteq BOOLEAN

\* They stay so.
LEMMA IsFlagsStay == (IsInit => IsFlags) /\ (IsFlags /\ [IsNext]_isVars => IsFlags')
<1> USE DEF IsFlags, isFilterVars, isListVars, isDialogVars
<1>1. IsInit => IsFlags
  BY Zenon DEF IsInit
<1>2. ASSUME IsFlags, IsWorkspaces PROVE IsFlags'
  BY <1>2, Zenon DEF IsWorkspaces, IsTurnTo, IsFetch
<1>3. ASSUME IsFlags, IsFilter PROVE IsFlags'
  BY <1>3, Zenon DEF IsFilter, IsTurnTo, IsFetch
<1>4. ASSUME IsFlags, IsRefresh PROVE IsFlags'
  BY <1>4, Zenon DEF IsRefresh, IsFetch
<1>5. ASSUME IsFlags, IsAnswer PROVE IsFlags'
  BY <1>5, Zenon DEF IsAnswer
<1>6. ASSUME IsFlags, IsPick PROVE IsFlags'
  BY <1>6, Zenon DEF IsPick
<1>7. ASSUME IsFlags, IsOpen PROVE IsFlags'
  BY <1>7, Zenon DEF IsOpen
<1>8. ASSUME IsFlags, IsTick PROVE IsFlags'
  BY <1>8, Zenon DEF IsTick
<1>9. ASSUME IsFlags, IsDismiss PROVE IsFlags'
  BY <1>9, Zenon DEF IsDismiss
<1>10. ASSUME IsFlags, IsConfirm PROVE IsFlags'
  BY <1>10, Zenon DEF IsConfirm
<1>11. ASSUME IsFlags, IsDispatched PROVE IsFlags'
  BY <1>11, Zenon DEF IsDispatched
<1>12. ASSUME IsFlags, UNCHANGED isVars PROVE IsFlags'
  BY <1>12, Zenon DEF isVars
<1> QED BY <1>1, <1>2, <1>3, <1>4, <1>5, <1>6, <1>7, <1>8, <1>9, <1>10,
  <1>11, <1>12 DEF IsNext

(***************************************************************************)
(* Pull requests.                                                          *)
(***************************************************************************)
\* A list is on its way exactly while one is said to be.
PrShape ==
  /\ {prShown, prSelected, prModal} \subseteq SUBSET PrPull
  /\ prPosts \in Seq(SUBSET PrPull)
  /\ prMessage \in {"none", "success", "error"}
  /\ prTimers \in 0..PrFlights
PrInv == PrShape /\ (prLoading <=> prFlight = 1) /\ prFlight \in {0, 1}
         /\ PrOneDispatch /\ PrMessageEnds

\* The page opens with its list out.
LEMMA PrStarts == PrInit => PrInv
<1> SUFFICES ASSUME PrInit PROVE PrInv
  OBVIOUS
<1>1. prPosts = <<>> /\ ~prSending
  BY DEF PrInit
<1>2. PrShape
  BY PrAssumption DEF PrInit, PrShape
<1> QED BY <1>1, <1>2 DEF PrInit, PrInv, PrOneDispatch, PrMessageEnds

\* No click, answer or timer breaks them.
LEMMA PrStays == PrInv /\ [PrNext]_prVars => PrInv'
<1> SUFFICES ASSUME PrInv, [PrNext]_prVars PROVE PrInv'
  OBVIOUS
<1> USE PrAssumption DEF PrInv, PrShape, PrOneDispatch, PrMessageEnds,
        prListVars, prMessageVars
<1>1. CASE PrRefresh
  BY <1>1 DEF PrRefresh
<1>2. CASE PrAnswer
  BY <1>2 DEF PrAnswer
<1>3. CASE PrFilter
  BY <1>3 DEF PrFilter
<1>4. CASE PrToggle
  BY <1>4 DEF PrToggle, PrRows, PrMatching
<1>5. CASE PrOpen
  BY <1>5 DEF PrOpen, PrOffered, PrMatching
<1>6. CASE PrClose
  BY <1>6 DEF PrClose
<1>7. CASE PrConfirm
  BY <1>7 DEF PrConfirm
<1>8. CASE PrDispatched
  BY <1>8, Removed DEF PrDispatched
<1>9. CASE PrTimer
  BY <1>9 DEF PrTimer
<1>10. CASE UNCHANGED prVars
  BY <1>10 DEF prVars
<1> QED BY <1>1, <1>2, <1>3, <1>4, <1>5, <1>6, <1>7, <1>8, <1>9, <1>10 DEF PrNext

\* Its flags are Booleans.
PrFlags == {prLoading, prError, prDrafts, prSending} \subseteq BOOLEAN

\* They stay so.
LEMMA PrFlagsStay == (PrInit => PrFlags) /\ (PrFlags /\ [PrNext]_prVars => PrFlags')
<1> USE DEF PrFlags, prListVars, prMessageVars
<1>1. PrInit => PrFlags
  BY Zenon DEF PrInit
<1>2. ASSUME PrFlags, PrRefresh PROVE PrFlags'
  BY <1>2, Zenon DEF PrRefresh
<1>3. ASSUME PrFlags, PrAnswer PROVE PrFlags'
  BY <1>3, Zenon DEF PrAnswer
<1>4. ASSUME PrFlags, PrFilter PROVE PrFlags'
  BY <1>4, Zenon DEF PrFilter
<1>5. ASSUME PrFlags, PrToggle PROVE PrFlags'
  BY <1>5, Zenon DEF PrToggle
<1>6. ASSUME PrFlags, PrOpen PROVE PrFlags'
  BY <1>6, Zenon DEF PrOpen
<1>7. ASSUME PrFlags, PrClose PROVE PrFlags'
  BY <1>7, Zenon DEF PrClose
<1>8. ASSUME PrFlags, PrConfirm PROVE PrFlags'
  BY <1>8, Zenon DEF PrConfirm
<1>9. ASSUME PrFlags, PrDispatched PROVE PrFlags'
  BY <1>9, Zenon DEF PrDispatched
<1>10. ASSUME PrFlags, PrTimer PROVE PrFlags'
  BY <1>10, Zenon DEF PrTimer
<1>11. ASSUME PrFlags, UNCHANGED prVars PROVE PrFlags'
  BY <1>11, Zenon DEF prVars
<1> QED BY <1>1, <1>2, <1>3, <1>4, <1>5, <1>6, <1>7, <1>8, <1>9, <1>10,
  <1>11 DEF PrNext

(***************************************************************************)
(* Queue.                                                                  *)
(***************************************************************************)
QuShape ==
    /\ quShown \subseteq QuRun
    /\ {quFlight, quReloads} \subseteq 0..QuLoads
    /\ quArmed \in [{"run", "workflow"} -> QuKey \cup {QuNone}]
    /\ quDisarms \in [QuKey -> 0..QuTimers]
    /\ quCancel \in [QuRun -> {"none", "pending", "done", "error"}]
    /\ quPosts \subseteq QuKey
    /\ quClears \in 0..QuTimers
QuInv == QuShape /\ QuArmEnds /\ QuPendingIsOut /\ QuMessageEnds

\* Nothing is armed at first.
LEMMA QuStarts == QuInit => QuInv
BY QuAssumption DEF QuInit, QuInv, QuShape, QuArmEnds, QuPendingIsOut,
   QuMessageEnds

\* No click, answer or timer breaks them.
LEMMA QuStays == QuInv /\ [QuNext]_quVars => QuInv'
<1> SUFFICES ASSUME QuInv, [QuNext]_quVars PROVE QuInv'
  OBVIOUS
<1> USE QuAssumption DEF QuInv, QuShape, QuArmEnds, QuPendingIsOut,
        QuMessageEnds, quListVars, quSays
<1>1. CASE QuArrives
  BY <1>1 DEF QuArrives
<1>2. CASE QuReload
  BY <1>2 DEF QuReload
<1>3. CASE QuArm
  BY <1>3 DEF QuArm, QuRunButtons, QuBulkButtons, QuKind, QuKey
<1>4. CASE QuSend
  BY <1>4 DEF QuSend, QuRunButtons, QuBulkButtons, QuKind, QuKey
<1>5. CASE QuDisarm
  BY <1>5 DEF QuDisarm
<1>6. CASE QuSettles
  BY <1>6 DEF QuSettles
<1>7. CASE QuClear
  BY <1>7 DEF QuClear
<1>8. CASE UNCHANGED quVars
  BY <1>8 DEF quVars
<1> QED BY <1>1, <1>2, <1>3, <1>4, <1>5, <1>6, <1>7, <1>8 DEF QuNext

\* Its flags are Booleans.
QuFlags == {quOwn, quLoading, quMessage} \subseteq BOOLEAN

\* They stay so.
LEMMA QuFlagsStay == (QuInit => QuFlags) /\ (QuFlags /\ [QuNext]_quVars => QuFlags')
<1> USE DEF QuFlags, quListVars, quSays
<1>1. QuInit => QuFlags
  BY Zenon DEF QuInit
<1>2. ASSUME QuFlags, QuArrives PROVE QuFlags'
  BY <1>2, Zenon DEF QuArrives
<1>3. ASSUME QuFlags, QuReload PROVE QuFlags'
  BY <1>3, Zenon DEF QuReload
<1>4. ASSUME QuFlags, QuArm PROVE QuFlags'
  BY <1>4, Zenon DEF QuArm
<1>5. ASSUME QuFlags, QuSend PROVE QuFlags'
  BY <1>5, Zenon DEF QuSend
<1>6. ASSUME QuFlags, QuDisarm PROVE QuFlags'
  BY <1>6, Zenon DEF QuDisarm
<1>7. ASSUME QuFlags, QuSettles PROVE QuFlags'
  BY <1>7, Zenon DEF QuSettles
<1>8. ASSUME QuFlags, QuClear PROVE QuFlags'
  BY <1>8, Zenon DEF QuClear
<1>9. ASSUME QuFlags, UNCHANGED quVars PROVE QuFlags'
  BY <1>9, Zenon DEF quVars
<1> QED BY <1>1, <1>2, <1>3, <1>4, <1>5, <1>6, <1>7, <1>8, <1>9 DEF QuNext

(***************************************************************************)
(* Stale runs.                                                             *)
(***************************************************************************)
ScShape ==
    /\ scMax \in 0..Cardinality(ScRun)
    /\ scShown \subseteq ScRun /\ scSafe \subseteq ScRun /\ scOpen \subseteq ScRun
    /\ {scFlight, scDisarms, scReloads} \subseteq 0..ScTimers
    /\ scPosts \in Seq(SUBSET ScRun) /\ Len(scPosts) <= ScTimers
ScInv == ScShape /\ (scLoading <=> scFlight = 1) /\ scFlight \in {0, 1}
         /\ ScArmEnds /\ ScOnePurge

\* The page opens with its list out.
LEMMA ScStarts == ScInit => ScInv
<1> SUFFICES ASSUME ScInit PROVE ScInv
  OBVIOUS
<1>1. Cardinality(ScRun) \in Nat
  BY ScAssumption, FS_CardinalityType
<1>2. scPosts = <<>> /\ ~scPurging /\ ~scLoading /\ ~scConfirming
  BY DEF ScInit
<1> QED BY <1>1, <1>2, ScAssumption DEF ScInit, ScInv, ScShape, ScArmEnds, ScOnePurge

\* No click, answer or timer breaks them.
LEMMA ScStays == ScInv /\ [ScNext]_scVars => ScInv'
<1> SUFFICES ASSUME ScInv, [ScNext]_scVars PROVE ScInv'
  OBVIOUS
<1> USE ScAssumption DEF ScInv, ScShape, ScArmEnds, ScOnePurge, scPreview
<1>1. CASE ScEdit
  BY <1>1 DEF ScEdit
<1>2. CASE ScAsk
  BY <1>2 DEF ScAsk
<1>3. CASE ScAnswer
  BY <1>3 DEF ScAnswer
<1>4. CASE ScArm
  BY <1>4 DEF ScArm
<1>5. CASE ScDisarm
  BY <1>5 DEF ScDisarm
<1>6. CASE ScPurge
  BY <1>6 DEF ScPurge, ScTargets, ScPurgeOffered
<1>7. CASE ScPurged
  BY <1>7 DEF ScPurged
<1>8. CASE ScReload
  BY <1>8 DEF ScReload
<1>9. CASE ScUnfold
  BY <1>9 DEF ScUnfold
<1>10. CASE UNCHANGED scVars
  BY <1>10 DEF scVars
<1> QED BY <1>1, <1>2, <1>3, <1>4, <1>5, <1>6, <1>7, <1>8, <1>9, <1>10 DEF
        ScNext

\* Its flags are Booleans.
ScFlags == {scLoading, scConfirming, scPurging} \subseteq BOOLEAN

\* They stay so.
LEMMA ScFlagsStay == (ScInit => ScFlags) /\ (ScFlags /\ [ScNext]_scVars => ScFlags')
<1> USE DEF ScFlags, scPreview
<1>1. ScInit => ScFlags
  BY Zenon DEF ScInit
<1>2. ASSUME ScFlags, ScEdit PROVE ScFlags'
  BY <1>2, Zenon DEF ScEdit
<1>3. ASSUME ScFlags, ScAsk PROVE ScFlags'
  BY <1>3, Zenon DEF ScAsk
<1>4. ASSUME ScFlags, ScAnswer PROVE ScFlags'
  BY <1>4, Zenon DEF ScAnswer
<1>5. ASSUME ScFlags, ScArm PROVE ScFlags'
  BY <1>5, Zenon DEF ScArm
<1>6. ASSUME ScFlags, ScDisarm PROVE ScFlags'
  BY <1>6, Zenon DEF ScDisarm
<1>7. ASSUME ScFlags, ScPurge PROVE ScFlags'
  BY <1>7, Zenon DEF ScPurge
<1>8. ASSUME ScFlags, ScPurged PROVE ScFlags'
  BY <1>8, Zenon DEF ScPurged
<1>9. ASSUME ScFlags, ScReload PROVE ScFlags'
  BY <1>9, Zenon DEF ScReload
<1>10. ASSUME ScFlags, ScUnfold PROVE ScFlags'
  BY <1>10, Zenon DEF ScUnfold
<1>11. ASSUME ScFlags, UNCHANGED scVars PROVE ScFlags'
  BY <1>11, Zenon DEF scVars
<1> QED BY <1>1, <1>2, <1>3, <1>4, <1>5, <1>6, <1>7, <1>8, <1>9, <1>10,
  <1>11 DEF ScNext

(***************************************************************************)
(* The queue on a phone.                                                   *)
(***************************************************************************)
QmShape ==
    /\ qmQueue \subseteq QmRun /\ qmStale \subseteq QmRun
    /\ qmSafe \subseteq QmRun
    /\ {qmFlight, qmStaleFlight, qmReloads, qmDisarms, qmReruns, qmPulls}
          \subseteq 0..QmMax
    /\ qmFilter \in QmFilters /\ qmSheet \in QmRun \cup {QmNone}
    /\ qmCancelling \subseteq QmRun /\ qmDone \subseteq QmRun
    /\ qmPosts \in Seq(QmRun)
QmInv == QmShape /\ QmOneCancel /\ QmSpinner /\ QmArmEnds

\* The page opens with its list out.
LEMMA QmStarts == QmInit => QmInv
<1> SUFFICES ASSUME QmInit PROVE QmInv
  OBVIOUS
<1>1. IsInjective(qmPosts) /\ Range(qmPosts) = {}
  BY DEF QmInit, IsInjective, Range
<1> QED BY <1>1, QmAssumption DEF QmInit, QmInv, QmShape, QmOneCancel, QmSpinner,
        QmArmEnds, QmFilters

\* The cancellations in flight stay one per run when one of a run that is not
\* among them is sent, and when one of them is answered.
LEMMA OneMorePost ==
  ASSUME NEW S, NEW s \in Seq(S), NEW x \in S, IsInjective(s), x \notin Range(s)
  PROVE  IsInjective(Append(s, x)) /\ Range(Append(s, x)) = Range(s) \cup {x}
<1> DEFINE t == Append(s, x)
<1>1. /\ t \in Seq(S) /\ Len(t) = Len(s) + 1
      /\ \A k \in 1..Len(s) : t[k] = s[k]
      /\ t[Len(s) + 1] = x
  OBVIOUS
<1> HIDE DEF t
<1>2. DOMAIN t = 1..Len(s) + 1 /\ DOMAIN s = 1..Len(s) /\ Len(s) \in Nat
  BY <1>1
<1> QED BY <1>1, <1>2 DEF IsInjective, Range, t

\* An answer taken out of what is out leaves the others, each once.
LEMMA OnePostLess ==
  ASSUME NEW S, NEW s \in Seq(S), NEW n \in 1..Len(s), IsInjective(s)
  PROVE  /\ IsInjective(RemoveAt(s, n))
         /\ Range(RemoveAt(s, n)) = Range(s) \ {s[n]}
<1> DEFINE t == RemoveAt(s, n)
<1>1. /\ t \in Seq(S) /\ Len(t) = Len(s) - 1 /\ Len(s) \in Nat
      /\ \A k \in 1..Len(s)-1 : t[k] = IF k < n THEN s[k] ELSE s[k+1]
  BY Removed
<1> HIDE DEF t
<1>2. DOMAIN t = 1..Len(s)-1 /\ DOMAIN s = 1..Len(s)
  BY <1>1
<1>3. ASSUME NEW k \in DOMAIN t, NEW l \in DOMAIN t, t[k] = t[l] PROVE k = l
  <2>1. (IF k < n THEN k ELSE k+1) \in DOMAIN s /\ (IF l < n THEN l ELSE l+1) \in DOMAIN s
    BY <1>2, <1>1
  <2>2. s[IF k < n THEN k ELSE k+1] = s[IF l < n THEN l ELSE l+1]
    BY <1>1, <1>2, <1>3
  <2>3. (IF k < n THEN k ELSE k+1) = (IF l < n THEN l ELSE l+1)
    BY <2>1, <2>2 DEF IsInjective
  <2> QED BY <2>3, <1>1, <1>2
<1>4. ASSUME NEW k \in DOMAIN t PROVE t[k] \in Range(s) \ {s[n]}
  <2>1. (IF k < n THEN k ELSE k+1) \in DOMAIN s /\ (IF k < n THEN k ELSE k+1) # n
    BY <1>2, <1>1
  <2>2. t[k] = s[IF k < n THEN k ELSE k+1]
    BY <1>1, <1>2
  <2> QED BY <2>1, <2>2, <1>2 DEF IsInjective, Range
<1>5. ASSUME NEW k \in DOMAIN s, k # n PROVE s[k] \in Range(t)
  <2>1. (IF k < n THEN k ELSE k-1) \in DOMAIN t
    BY <1>1, <1>2, <1>5
  <2>2. t[IF k < n THEN k ELSE k-1] = s[k]
    BY <1>1, <1>2, <2>1, <1>5
  <2> QED BY <2>1, <2>2 DEF Range
<1>6. IsInjective(t)
  BY <1>3 DEF IsInjective
<1>7. Range(t) = Range(s) \ {s[n]}
  BY <1>4, <1>5 DEF Range
<1> QED BY <1>6, <1>7 DEF t

\* No tap, answer or timer breaks them.
LEMMA QmStays == QmInv /\ [QmNext]_qmVars => QmInv'
<1> SUFFICES ASSUME QmInv, [QmNext]_qmVars PROVE QmInv'
  OBVIOUS
<1> USE QmAssumption DEF QmInv, QmShape, QmOneCancel, QmSpinner, QmArmEnds,
      QmFilters, qmLists, qmRuns, qmPurge
<1>1. CASE QmPoll
  BY <1>1 DEF QmPoll
<1>2. CASE QmPollStale
  BY <1>2 DEF QmPollStale
<1>3. CASE QmAnswer
  BY <1>3 DEF QmAnswer
<1>4. CASE QmAnswerStale
  BY <1>4 DEF QmAnswerStale
<1>5. CASE QmPull
  BY <1>5 DEF QmPull
<1>6. CASE QmPulled
  BY <1>6 DEF QmPulled
<1>7. CASE QmFilterTo
  BY <1>7 DEF QmFilterTo
<1>8. CASE QmOpen
  BY <1>8 DEF QmOpen, QmListed
<1>9. CASE QmClose
  BY <1>9 DEF QmClose
<1>10. CASE QmCancel
  <2>1. qmSheet \in QmRun \/ qmSheet = QmNone
    OBVIOUS
  <2>2. qmSheet \in QmRun /\ qmSheet \notin Range(qmPosts)
    BY <1>10 DEF QmCancel, QmSheetOffers
  <2>3. /\ IsInjective(Append(qmPosts, qmSheet))
        /\ Range(Append(qmPosts, qmSheet)) = Range(qmPosts) \cup {qmSheet}
    BY <2>2, OneMorePost
  <2> QED BY <1>10, <2>2, <2>3 DEF QmCancel
<1>11. CASE QmCancelled
  <2>1. PICK n \in 1..Len(qmPosts), ok \in BOOLEAN :
          /\ qmPosts' = RemoveAt(qmPosts, n)
          /\ qmCancelling' = qmCancelling \ {qmPosts[n]}
          /\ qmDone' = IF ok THEN qmDone \cup {qmPosts[n]} ELSE qmDone
          /\ ok => qmReloads < QmMax
          /\ qmReloads' = IF ok THEN qmReloads + 1 ELSE qmReloads
          /\ UNCHANGED <<qmLists, qmFilter, qmSheet, qmReruns, qmPurge>>
    BY <1>11, Zenon DEF QmCancelled
  <2>2. qmPosts[n] \in QmRun
    OBVIOUS
  <2>3. qmPosts' \in Seq(QmRun) /\ IsInjective(qmPosts')
        /\ Range(qmPosts') = Range(qmPosts) \ {qmPosts[n]}
    BY <2>1, Removed, OnePostLess
  <2> QED BY <2>1, <2>2, <2>3
<1>12. CASE QmRerun
  BY <1>12 DEF QmRerun
<1>13. CASE QmReran
  BY <1>13 DEF QmReran
<1>14. CASE QmReload
  BY <1>14 DEF QmReload
<1>15. CASE QmPurgeTap
  BY <1>15 DEF QmPurgeTap
<1>16. CASE QmDisarm
  BY <1>16 DEF QmDisarm
<1>17. CASE QmDryRunBox
  BY <1>17 DEF QmDryRunBox
<1>18. CASE QmPurged
  BY <1>18 DEF QmPurged
<1>19. CASE UNCHANGED qmVars
  BY <1>19 DEF qmVars
<1> QED BY <1>1, <1>2, <1>3, <1>4, <1>5, <1>6, <1>7, <1>8, <1>9, <1>10, <1>11,
        <1>12, <1>13, <1>14, <1>15, <1>16, <1>17, <1>18, <1>19 DEF QmNext

\* Its flags are Booleans.
QmFlags == {qmLoading, qmFailure, qmRefreshing, qmDryRun, qmConfirm,
    qmPurging} \subseteq BOOLEAN

\* They stay so.
LEMMA QmFlagsStay == (QmInit => QmFlags) /\ (QmFlags /\ [QmNext]_qmVars => QmFlags')
<1> USE DEF QmFlags, qmLists, qmRuns, qmPurge
<1>1. QmInit => QmFlags
  BY Zenon DEF QmInit
<1>2. ASSUME QmFlags, QmPoll PROVE QmFlags'
  BY <1>2, Zenon DEF QmPoll
<1>3. ASSUME QmFlags, QmPollStale PROVE QmFlags'
  BY <1>3, Zenon DEF QmPollStale
<1>4. ASSUME QmFlags, QmAnswer PROVE QmFlags'
  BY <1>4, Zenon DEF QmAnswer
<1>5. ASSUME QmFlags, QmAnswerStale PROVE QmFlags'
  BY <1>5, Zenon DEF QmAnswerStale
<1>6. ASSUME QmFlags, QmPull PROVE QmFlags'
  BY <1>6, Zenon DEF QmPull
<1>7. ASSUME QmFlags, QmPulled PROVE QmFlags'
  BY <1>7, Zenon DEF QmPulled
<1>8. ASSUME QmFlags, QmFilterTo PROVE QmFlags'
  BY <1>8, Zenon DEF QmFilterTo
<1>9. ASSUME QmFlags, QmOpen PROVE QmFlags'
  BY <1>9, Zenon DEF QmOpen
<1>10. ASSUME QmFlags, QmClose PROVE QmFlags'
  BY <1>10, Zenon DEF QmClose
<1>11. ASSUME QmFlags, QmCancel PROVE QmFlags'
  BY <1>11, Zenon DEF QmCancel
<1>12. ASSUME QmFlags, QmCancelled PROVE QmFlags'
  BY <1>12, Zenon DEF QmCancelled
<1>13. ASSUME QmFlags, QmRerun PROVE QmFlags'
  BY <1>13, Zenon DEF QmRerun
<1>14. ASSUME QmFlags, QmReran PROVE QmFlags'
  BY <1>14, Zenon DEF QmReran
<1>15. ASSUME QmFlags, QmReload PROVE QmFlags'
  BY <1>15, Zenon DEF QmReload
<1>16. ASSUME QmFlags, QmPurgeTap PROVE QmFlags'
  BY <1>16, Zenon DEF QmPurgeTap
<1>17. ASSUME QmFlags, QmDisarm PROVE QmFlags'
  BY <1>17, Zenon DEF QmDisarm
<1>18. ASSUME QmFlags, QmDryRunBox PROVE QmFlags'
  BY <1>18, Zenon DEF QmDryRunBox
<1>19. ASSUME QmFlags, QmPurged PROVE QmFlags'
  BY <1>19, Zenon DEF QmPurged
<1>20. ASSUME QmFlags, UNCHANGED qmVars PROVE QmFlags'
  BY <1>20, Zenon DEF qmVars
<1> QED BY <1>1, <1>2, <1>3, <1>4, <1>5, <1>6, <1>7, <1>8, <1>9, <1>10,
  <1>11, <1>12, <1>13, <1>14, <1>15, <1>16, <1>17, <1>18, <1>19, <1>20 DEF
  QmNext

(***************************************************************************)
(* Workflows.                                                              *)
(***************************************************************************)
WfShape ==
  /\ wfShown \subseteq WfWorkflow
  /\ {wfFilter, wfSaved} \subseteq WfRepo \cup {WfWorkflow}
  /\ {wfExpanded, wfModal, wfSending, wfConsent} \subseteq WfOne
  /\ wfPosts \in Seq(WfWorkflow)
WfInv == WfShape /\ WfOneDispatch /\ WfConsented /\ (wfConfirm => wfModal # WfNone)

\* No dialog is open at first.
LEMMA WfStarts == WfInit => WfInv
<1> SUFFICES ASSUME WfInit PROVE WfInv
  OBVIOUS
<1>1. wfPosts = <<>> /\ wfSending = WfNone /\ ~wfConfirm
  BY DEF WfInit
<1>2. WfShape
  BY DEF WfInit, WfShape, WfOne
<1> QED BY <1>1, <1>2 DEF WfInit, WfInv, WfOneDispatch, WfConsented

\* No click or answer breaks them.
LEMMA WfStays == WfInv /\ [WfNext]_wfVars => WfInv'
<1> SUFFICES ASSUME WfInv, [WfNext]_wfVars PROVE WfInv'
  OBVIOUS
<1> USE WfAssumption DEF WfInv, WfShape, WfOne, WfOneDispatch, WfConsented, wfListVars
<1>1. CASE WfRefresh
  BY <1>1 DEF WfRefresh
<1>2. CASE WfLoaded
  BY <1>2 DEF WfLoaded
<1>3. CASE WfFilterTo
  BY <1>3 DEF WfFilterTo
<1>4. CASE WfUnfold
  BY <1>4 DEF WfUnfold, WfListed
<1>5. CASE WfOpen
  BY <1>5 DEF WfOpen, WfRunButtons, WfListed
<1>6. CASE WfProceed
  BY <1>6 DEF WfProceed, WfDialog
<1>7. CASE WfCancel
  BY <1>7 DEF WfCancel, WfDialog
<1>8. CASE WfNow
  BY <1>8 DEF WfNow, WfDialog
<1>9. CASE WfSettles
  BY <1>9 DEF WfSettles
<1>10. CASE UNCHANGED wfVars
  BY <1>10 DEF wfVars
<1> QED BY <1>1, <1>2, <1>3, <1>4, <1>5, <1>6, <1>7, <1>8, <1>9, <1>10 DEF WfNext

\* Its flags are Booleans.
WfFlags == {wfLoading, wfError, wfConfirm} \subseteq BOOLEAN

\* They stay so.
LEMMA WfFlagsStay == (WfInit => WfFlags) /\ (WfFlags /\ [WfNext]_wfVars => WfFlags')
<1> USE DEF WfFlags, wfListVars
<1>1. WfInit => WfFlags
  BY Zenon DEF WfInit
<1>2. ASSUME WfFlags, WfRefresh PROVE WfFlags'
  BY <1>2, Zenon DEF WfRefresh
<1>3. ASSUME WfFlags, WfLoaded PROVE WfFlags'
  BY <1>3, Zenon DEF WfLoaded
<1>4. ASSUME WfFlags, WfFilterTo PROVE WfFlags'
  BY <1>4, Zenon DEF WfFilterTo
<1>5. ASSUME WfFlags, WfUnfold PROVE WfFlags'
  BY <1>5, Zenon DEF WfUnfold
<1>6. ASSUME WfFlags, WfOpen PROVE WfFlags'
  BY <1>6, Zenon DEF WfOpen
<1>7. ASSUME WfFlags, WfProceed PROVE WfFlags'
  BY <1>7, Zenon DEF WfProceed
<1>8. ASSUME WfFlags, WfCancel PROVE WfFlags'
  BY <1>8, Zenon DEF WfCancel
<1>9. ASSUME WfFlags, WfNow PROVE WfFlags'
  BY <1>9, Zenon DEF WfNow
<1>10. ASSUME WfFlags, WfSettles PROVE WfFlags'
  BY <1>10, Zenon DEF WfSettles
<1>11. ASSUME WfFlags, UNCHANGED wfVars PROVE WfFlags'
  BY <1>11, Zenon DEF wfVars
<1> QED BY <1>1, <1>2, <1>3, <1>4, <1>5, <1>6, <1>7, <1>8, <1>9, <1>10,
  <1>11 DEF WfNext

(***************************************************************************)
(* Fleet orchestration.                                                    *)
(***************************************************************************)
FoShape ==
    /\ foShown \subseteq FoMachine
    /\ {foFlight, foDispatches} \subseteq 0..FoFlights
    /\ foTarget \in FoMachine \cup {FoNone}
    /\ foDeploys \subseteq FoMachine
FoInv == FoShape /\ FoOneEach /\ FoSpinner

\* Nothing is sent at first.
LEMMA FoStarts == FoInit => FoInv
<1> SUFFICES ASSUME FoInit PROVE FoInv
  OBVIOUS
<1>1. ~foSending /\ ~foDeploying /\ foDispatches = 0 /\ foDeploys = {}
  BY DEF FoInit
<1> QED BY <1>1, FoAssumption DEF FoInit, FoInv, FoShape, FoOneEach, FoSpinner

\* No click or answer breaks them.
LEMMA FoStays == FoInv /\ [FoNext]_foVars => FoInv'
<1> SUFFICES ASSUME FoInv, [FoNext]_foVars PROVE FoInv'
  OBVIOUS
<1> USE FoAssumption DEF FoInv, FoShape, FoOneEach, FoSpinner, foListVars,
      foDialogVars, foFormVars
<1>1. CASE FoRefresh
  BY <1>1 DEF FoRefresh, FoAsk
<1>2. CASE FoLoaded
  BY <1>2 DEF FoLoaded
<1>3. CASE FoOpen
  BY <1>3 DEF FoOpen
<1>4. CASE FoClose
  BY <1>4 DEF FoClose
<1>5. CASE FoFill
  BY <1>5 DEF FoFill
<1>6. CASE FoDispatch
  BY <1>6 DEF FoDispatch
<1>7. CASE FoDispatched
  BY <1>7 DEF FoDispatched, FoAsk
<1>8. CASE FoTarget
  BY <1>8 DEF FoTarget
<1>9. CASE FoTick
  BY <1>9 DEF FoTick
<1>10. CASE FoDeploy
  BY <1>10 DEF FoDeploy, FoDeployOffered
<1>11. CASE FoDeployed
  BY <1>11 DEF FoDeployed, FoAsk
<1>12. CASE UNCHANGED foVars
  BY <1>12 DEF foVars
<1> QED BY <1>1, <1>2, <1>3, <1>4, <1>5, <1>6, <1>7, <1>8, <1>9, <1>10, <1>11,
        <1>12 DEF FoNext

\* Its flags are Booleans.
FoFlags == {foLoading, foError, foOpen, foFilled, foSending,
    foDispatchError, foConfirm, foDeploying, foDeployError} \subseteq
    BOOLEAN

\* They stay so.
LEMMA FoFlagsStay == (FoInit => FoFlags) /\ (FoFlags /\ [FoNext]_foVars => FoFlags')
<1> USE DEF FoFlags, foListVars, foDialogVars, foFormVars
<1>1. FoInit => FoFlags
  BY Zenon DEF FoInit
<1>2. ASSUME FoFlags, FoRefresh PROVE FoFlags'
  BY <1>2, Zenon DEF FoRefresh, FoAsk
<1>3. ASSUME FoFlags, FoLoaded PROVE FoFlags'
  BY <1>3, Zenon DEF FoLoaded
<1>4. ASSUME FoFlags, FoOpen PROVE FoFlags'
  BY <1>4, Zenon DEF FoOpen
<1>5. ASSUME FoFlags, FoClose PROVE FoFlags'
  BY <1>5, Zenon DEF FoClose
<1>6. ASSUME FoFlags, FoFill PROVE FoFlags'
  BY <1>6, Zenon DEF FoFill
<1>7. ASSUME FoFlags, FoDispatch PROVE FoFlags'
  BY <1>7, Zenon DEF FoDispatch
<1>8. ASSUME FoFlags, FoDispatched PROVE FoFlags'
  BY <1>8, Zenon DEF FoDispatched, FoAsk
<1>9. ASSUME FoFlags, FoTarget PROVE FoFlags'
  BY <1>9, Zenon DEF FoTarget
<1>10. ASSUME FoFlags, FoTick PROVE FoFlags'
  BY <1>10, Zenon DEF FoTick
<1>11. ASSUME FoFlags, FoDeploy PROVE FoFlags'
  BY <1>11, Zenon DEF FoDeploy
<1>12. ASSUME FoFlags, FoDeployed PROVE FoFlags'
  BY <1>12, Zenon DEF FoDeployed, FoAsk
<1>13. ASSUME FoFlags, UNCHANGED foVars PROVE FoFlags'
  BY <1>13, Zenon DEF foVars
<1> QED BY <1>1, <1>2, <1>3, <1>4, <1>5, <1>6, <1>7, <1>8, <1>9, <1>10,
  <1>11, <1>12, <1>13 DEF FoNext

(***************************************************************************)
(* Launchers.                                                              *)
(***************************************************************************)
LaShape ==
    /\ laPage \in LaPages
    /\ laChosen \in LaItem \cup {LaNone}
    /\ laPosts \in [LaItem -> 0..LaFlights]
    /\ laLocked \subseteq LaItem
    /\ laStep \in {"none", "confirm", "select", "review", "dispatch", "open",
                   "sheet", "picker"}
    /\ laOutcome \in {"none", "ok", "error"}
    /\ laForm \in {"none", "repository", "prompt", "complete"}
    /\ laTimers \in 0..LaFlights
    /\ {laListed, laHidden} \subseteq SUBSET LaItem
    /\ laTimes \in [LaItem -> 0..LaFlights]

\* A repository's button on the tests page is dead exactly while its dispatch
\* is out.
TeLocks == laPage = "tests" =>
    \A x \in LaItem : laPosts[x] = IF x \in laLocked THEN 1 ELSE 0

\* Agent and quick dispatch have the one dispatch out that locks them.
OneLocks == laPage \in {"agent", "quick"} =>
    \A x \in LaItem : laPosts[x] \in {0, 1} /\ (laPosts[x] = 1 => laLocked = {x})

\* The agent page waits in its last step; a complete quick form has a choice.
AdWaits == laPage = "agent" =>
    /\ \A x \in LaItem : laPosts[x] = 1 => laStep = "dispatch" /\ laOutcome = "none"
    /\ laOutcome # "none" => laStep = "dispatch"
    /\ laStep = "dispatch" /\ laOutcome = "none" => \E x \in LaItem : laPosts[x] = 1
QdChosen == laPage = "quick" /\ laForm = "complete" => laChosen \in LaItem

\* The phone keeps the sheet of what it sends open, and what a sheet is open
\* for was not dispatched yet.
RmSheet == laPage = "phone" =>
    /\ laStep \in {"none", "sheet", "picker"}
    /\ laStep # "none" => laChosen \in LaItem \ laHidden
    /\ \A x \in LaItem : laPosts[x] > 0 =>
         laPosts[x] = 1 /\ laChosen = x /\ laStep = "sheet" /\ laLocked = {x}
    /\ \A x \in LaItem : laTimes[x] = IF x \in laHidden THEN 1 ELSE 0
NotPhone == laPage # "phone" => \A x \in LaItem : laTimes[x] = 0

LaInv == LaShape /\ TeLocks /\ OneLocks /\ AdWaits /\ QdChosen /\ RmSheet /\ NotPhone

\* Every page opens with nothing sent.
LEMMA LaStarts == LaInit => LaInv
BY LaAssumption DEF LaInit, LaInv, LaShape, LaPages, TeLocks, OneLocks, AdWaits,
     QdChosen, RmSheet, NotPhone

\* No step of the assessments page breaks them.
LEMMA AsStays == LaInv /\ [AsNext]_laVars => LaInv'
<1> SUFFICES ASSUME LaInv, [AsNext]_laVars PROVE LaInv'
  OBVIOUS
<1> USE LaAssumption DEF LaInv, LaShape, LaPages, TeLocks, OneLocks, AdWaits,
      QdChosen, RmSheet, NotPhone, laRest, Send, Settle
<1>1. CASE AsPick
  BY <1>1 DEF AsPick
<1>2. CASE AsAsk
  BY <1>2 DEF AsAsk
<1>3. CASE AsDispatch
  BY <1>3 DEF AsDispatch
<1>4. CASE AsDispatched
  BY <1>4 DEF AsDispatched
<1>5. CASE UNCHANGED laVars
  BY <1>5 DEF laVars
<1> QED BY <1>1, <1>2, <1>3, <1>4, <1>5 DEF AsNext

\* No step of the tests page breaks them.
LEMMA TeStays == LaInv /\ [TeNext]_laVars => LaInv'
<1> SUFFICES ASSUME LaInv, [TeNext]_laVars PROVE LaInv'
  OBVIOUS
<1> USE LaAssumption DEF LaInv, LaShape, LaPages, TeLocks, OneLocks, AdWaits,
      QdChosen, RmSheet, NotPhone, laRest, Send, Settle
<1>1. CASE TeSend
  BY <1>1 DEF TeSend, TeOffered
<1>2. CASE TeSent
  BY <1>2 DEF TeSent
<1>3. CASE UNCHANGED laVars
  BY <1>3 DEF laVars
<1> QED BY <1>1, <1>2, <1>3 DEF TeNext

\* No step of the agent dispatch breaks them: it waits for posts that are out.
LEMMA AdStays == LaInv /\ [AdNext]_laVars => LaInv'
<1> SUFFICES ASSUME LaInv, [AdNext]_laVars PROVE LaInv'
  OBVIOUS
<1> USE LaAssumption DEF LaInv, LaShape, LaPages, TeLocks, OneLocks, AdWaits,
      QdChosen, RmSheet, NotPhone, laRest, Send, Settle
<1>1. CASE AdProvider
  BY <1>1 DEF AdProvider, AdOffered
<1>2. CASE AdRun
  BY <1>2 DEF AdRun, AdOffered
<1>3. CASE AdReview
  BY <1>3 DEF AdReview, AdOffered
<1>4. CASE AdBack
  BY <1>4 DEF AdBack, AdOffered
<1>5. CASE AdConfirm
  BY <1>5 DEF AdConfirm, AdOffered
<1>6. CASE AdAnswer
  <2>1. PICK run \in LaItem, ok \in BOOLEAN :
          /\ laPage = "agent" /\ laPosts[run] > 0
          /\ laPosts' = [laPosts EXCEPT ![run] = @ - 1]
          /\ laOutcome' = IF ok THEN "ok" ELSE "error"
          /\ laLocked' = {}
          /\ UNCHANGED <<laRest, laChosen, laStep, laForm>>
    BY <1>6, Zenon DEF AdAnswer
  <2>2. laPosts[run] = 1 /\ laLocked = {run}
    BY <2>1
  <2>3. \A x \in LaItem : laPosts'[x] = 0
    BY <2>1, <2>2
  <2>4. laStep = "dispatch"
    BY <2>1, <2>2
  <2>5. LaShape'
    BY <2>1, <2>2
  <2> QED BY <2>1, <2>3, <2>4, <2>5
<1>7. CASE AdNew
  BY <1>7 DEF AdNew, AdOffered
<1>8. CASE UNCHANGED laVars
  BY <1>8 DEF laVars
<1> QED BY <1>1, <1>2, <1>3, <1>4, <1>5, <1>6, <1>7, <1>8 DEF AdNext

\* No step of the quick dispatch breaks them: its model is its provider's.
LEMMA QdStays == LaInv /\ [QdNext]_laVars => LaInv'
<1> SUFFICES ASSUME LaInv, [QdNext]_laVars PROVE LaInv'
  OBVIOUS
<1> USE LaAssumption DEF LaInv, LaShape, LaPages, TeLocks, OneLocks, AdWaits,
      QdChosen, RmSheet, NotPhone, laRest, Send, Settle
<1>1. CASE QdToggle
  BY <1>1 DEF QdToggle
<1>2. CASE QdFill
  BY <1>2 DEF QdFill
<1>3. CASE QdDispatch
  <2>1. laPage = "quick" /\ laLocked = {} /\ \A x \in LaItem : laPosts[x] = 0
    BY <1>3 DEF QdDispatch, QdOffered
  <2>2. CASE laForm # "complete"
    BY <1>3, <2>1, <2>2 DEF QdDispatch
  <2>3. CASE laForm = "complete"
    <3>1. laChosen \in LaItem
      BY <2>1, <2>3
    <3> QED BY <1>3, <2>1, <2>3, <3>1 DEF QdDispatch
  <2> QED BY <2>2, <2>3
<1>4. CASE QdDispatched
  BY <1>4 DEF QdDispatched
<1>5. CASE QdTimeout
  BY <1>5 DEF QdTimeout
<1>6. CASE UNCHANGED laVars
  BY <1>6 DEF laVars
<1> QED BY <1>1, <1>2, <1>3, <1>4, <1>5, <1>6 DEF QdNext

\* No step of the phone's remediation breaks them: an item is sent once.
LEMMA RmStays == LaInv /\ [RmNext]_laVars => LaInv'
<1> SUFFICES ASSUME LaInv, [RmNext]_laVars PROVE LaInv'
  OBVIOUS
<1> USE LaAssumption DEF LaInv, LaShape, LaPages, TeLocks, OneLocks, AdWaits,
      QdChosen, RmSheet, NotPhone, laRest, Send, Settle
<1>1. CASE RmLoaded
  BY <1>1 DEF RmLoaded
<1>2. CASE RmTap
  BY <1>2 DEF RmTap, RmRuns
<1>3. CASE RmPick
  BY <1>3 DEF RmPick, RmOffered
<1>4. CASE RmClose
  BY <1>4 DEF RmClose, RmOffered
<1>5. CASE RmDispatch
  BY <1>5 DEF RmDispatch, RmOffered
<1>6. CASE RmDispatched
  BY <1>6 DEF RmDispatched
<1>7. CASE UNCHANGED laVars
  BY <1>7 DEF laVars
<1> QED BY <1>1, <1>2, <1>3, <1>4, <1>5, <1>6, <1>7 DEF RmNext

\* No step of the page mounted breaks them.
LEMMA LaStays == LaInv /\ [LaNext]_laVars => LaInv'
BY AsStays, TeStays, AdStays, QdStays, RmStays DEF LaNext

\* What the invariant says of each page, as the properties have it.
LEMMA LaHolds == LaInv => LaOneDispatch /\ AdStepTrue /\ RmNotTwice
<1> SUFFICES ASSUME LaInv PROVE LaOneDispatch /\ AdStepTrue /\ RmNotTwice
  OBVIOUS
<1> USE DEF LaInv, LaShape
<1>1. RmNotTwice
  BY DEF RmSheet, NotPhone, RmNotTwice
<1>2. AdStepTrue
  BY DEF AdWaits, OneLocks, AdStepTrue, LaPosted
<1>3. laPage \in {"tests", "phone"} => \A x \in LaItem : laPosts[x] <= 1
  BY DEF TeLocks, RmSheet
<1>4. ASSUME laPage \in {"agent", "quick"}
      PROVE  Cardinality(LaPosted) <= 1 /\ \A x \in LaItem : laPosts[x] <= 1
  <2>1. \A x \in LaItem : laPosts[x] <= 1
    BY <1>4 DEF OneLocks
  <2>2. \A x \in LaPosted : laLocked = {x}
    BY <1>4 DEF OneLocks, LaPosted
  <2>3. CASE LaPosted = {}
    BY <2>1, <2>3, FS_EmptySet
  <2>4. CASE LaPosted # {}
    <3>1. PICK x : x \in LaPosted
      BY <2>4
    <3>2. LaPosted = {x}
      BY <2>2, <3>1
    <3>3. Cardinality({x}) = 1
      BY FS_Singleton
    <3> QED BY <2>1, <3>2, <3>3
  <2> QED BY <2>3, <2>4
<1> QED BY <1>1, <1>2, <1>3, <1>4 DEF LaOneDispatch

(***************************************************************************)
(* The offline queue.                                                      *)
(***************************************************************************)
\* A tab that has an answer in hand has the server's word for it: the entry it
\* is about to remove was run, or refused.  What a drain took may be gone from
\* the database by then, so nothing is said about it.
AnswersMeanIt == \A t \in MqTab :
  mqPhase[t] = "answered" /\ First(t).id \in Entry =>
    /\ mqStatus[t] = "done" => mqRuns[First(t).id] > 0
    /\ mqStatus[t] = "refused" => First(t).id \in mqRefused

\* The shape the step needs of the state.
QueueShape ==
  /\ mqNext \in 0 .. MqMax
  /\ mqStore \subseteq 1 .. mqNext
  /\ DOMAIN mqTodo = MqTab /\ DOMAIN mqPhase = MqTab /\ DOMAIN mqStatus = MqTab
  /\ mqRuns \in [Entry -> Nat]

QueueInv == QueueShape /\ AnswersMeanIt /\ NoMutationLost

\* A new queue has nothing to lose.
LEMMA QueueStarts == MqInit => QueueInv
<1> SUFFICES ASSUME MqInit PROVE QueueInv
  OBVIOUS
<1>1. /\ mqNext = 0 /\ mqStore = {}
      /\ DOMAIN mqTodo = MqTab /\ DOMAIN mqPhase = MqTab /\ DOMAIN mqStatus = MqTab
      /\ \A t \in MqTab : mqPhase[t] = "idle"
      /\ mqRuns = [e \in Entry |-> 0]
  BY Zenon DEF MqInit
<1>2. QueueShape
  BY <1>1, MqAssumption DEF QueueShape
<1>3. AnswersMeanIt
  BY <1>1 DEF AnswersMeanIt
<1>4. NoMutationLost
  BY <1>1 DEF NoMutationLost
<1> QED BY <1>2, <1>3, <1>4 DEF QueueInv

\* To run a mutation once more runs none of them less often.
LEMMA OneMoreRun ==
  ASSUME NEW e, NEW runs \in [Entry -> Nat]
  PROVE  /\ [runs EXCEPT ![e] = @ + 1] \in [Entry -> Nat]
         /\ \A x \in Entry : [runs EXCEPT ![e] = @ + 1][x] >= runs[x]
<1> DEFINE more == [x \in Entry |-> IF x = e THEN runs[x] + 1 ELSE runs[x]]
<1>1. [runs EXCEPT ![e] = @ + 1] = more
  OBVIOUS
<1>2. \A x \in Entry : more[x] \in Nat /\ more[x] >= runs[x]
  OBVIOUS
<1>3. more \in [Entry -> Nat]
  BY <1>2
<1> QED BY <1>1, <1>2, <1>3

\* The same entry is the next while a tab's list does not change.
LEMMA SameFirst == ASSUME NEW t, mqTodo'[t] = mqTodo[t] PROVE First(t)' = First(t)
BY Zenon DEF First

\* A step that neither gives an answer nor takes back a run leaves the answers
\* in hand true.
LEMMA AnswersKept ==
  ASSUME AnswersMeanIt, UNCHANGED <<mqRuns, mqRefused>>,
         \A t \in MqTab : mqPhase'[t] = "answered" =>
           mqPhase[t] = "answered" /\ mqTodo'[t] = mqTodo[t]
             /\ mqStatus'[t] = mqStatus[t]
  PROVE  AnswersMeanIt'
<1> SUFFICES ASSUME NEW t \in MqTab, mqPhase'[t] = "answered", First(t)'.id \in Entry
             PROVE  /\ mqStatus'[t] = "done" => mqRuns'[First(t)'.id] > 0
                    /\ mqStatus'[t] = "refused" => First(t)'.id \in mqRefused'
  BY DEF AnswersMeanIt
<1>1. First(t)' = First(t)
  BY SameFirst
<1> QED BY <1>1 DEF AnswersMeanIt

\* No step of the browser, a tab or the server loses a mutation.
LEMMA QueueStays == QueueInv /\ [MqNext]_mqVars => QueueInv'
<1> SUFFICES ASSUME QueueInv, [MqNext]_mqVars PROVE QueueInv'
  OBVIOUS
<1> USE MqAssumption DEF QueueInv, QueueShape, NoMutationLost, Entry
<1>1. CASE Enqueue
  <2>1. mqNext \in Nat /\ mqNext < MqMax /\ mqNext' = mqNext + 1
    BY <1>1 DEF Enqueue
  <2>2. mqStore' = mqStore \cup {mqNext + 1}
    BY <1>1 DEF Enqueue
  <2>3. UNCHANGED <<mqTodo, mqPhase, mqStatus, mqRuns, mqRefused>>
    BY <1>1 DEF Enqueue
  <2>4. \A e \in 1 .. mqNext' : e \in 1 .. mqNext \/ e = mqNext + 1
    BY <2>1
  <2>5. QueueShape'
    BY <2>1, <2>2, <2>3
  <2>6. AnswersMeanIt'
    BY <2>3, AnswersKept
  <2>7. NoMutationLost'
    BY <2>2, <2>3, <2>4
  <2> QED BY <2>5, <2>6, <2>7
<1>2. CASE Aging
  <2>1. QueueShape' /\ NoMutationLost'
    BY <1>2 DEF Aging, mqTabVars
  <2>2. AnswersMeanIt'
    BY <1>2, AnswersKept DEF Aging, mqTabVars
  <2> QED BY <2>1, <2>2
<1>3. CASE ComesOnline
  <2>1. QueueShape' /\ NoMutationLost'
    BY <1>3 DEF ComesOnline
  <2>2. AnswersMeanIt'
    BY <1>3, AnswersKept DEF ComesOnline
  <2> QED BY <2>1, <2>2
<1>4. CASE GoesOffline
  <2>1. QueueShape' /\ NoMutationLost'
    BY <1>4 DEF GoesOffline, mqTabVars
  <2>2. AnswersMeanIt'
    BY <1>4, AnswersKept DEF GoesOffline, mqTabVars
  <2> QED BY <2>1, <2>2
<1>5. CASE Reopen
  <2>1. QueueShape' /\ NoMutationLost'
    BY <1>5 DEF Reopen
  <2>2. AnswersMeanIt'
    BY <1>5, AnswersKept DEF Reopen
  <2> QED BY <2>1, <2>2
<1>6. ASSUME NEW t \in MqTab, Take(t) PROVE QueueInv'
  <2>1. QueueShape' /\ NoMutationLost'
    BY <1>6 DEF Take, Idle
  <2>2. AnswersMeanIt'
    BY <1>6, AnswersKept DEF Take, Idle
  <2> QED BY <2>1, <2>2
<1>7. ASSUME NEW t \in MqTab, Prompt(t) PROVE QueueInv'
  <2>1. QueueShape' /\ NoMutationLost'
    BY <1>7 DEF Prompt, Skip
  <2>2. AnswersMeanIt'
    BY <1>7, AnswersKept DEF Prompt, Skip
  <2> QED BY <2>1, <2>2
<1>8. ASSUME NEW t \in MqTab, Serve(t) PROVE QueueInv'
  <2> DEFINE e == First(t).id
  <2>1. PICK status \in MqStatuses, ran \in BOOLEAN :
          /\ status = "done" => ran
          /\ mqRuns' = IF ran THEN [mqRuns EXCEPT ![e] = @ + 1] ELSE mqRuns
          /\ mqRefused' = IF status = "refused" THEN mqRefused \cup {e}
                          ELSE mqRefused
          /\ mqStatus' = [mqStatus EXCEPT ![t] = status]
          /\ mqPhase' = [mqPhase EXCEPT ![t] = "answered"]
          /\ UNCHANGED <<mqNext, mqStore, mqTodo>>
    BY <1>8, Zenon DEF Serve
  <2>3. mqRuns' \in [Entry -> Nat] /\ \A x \in Entry : mqRuns'[x] >= mqRuns[x]
    <3>1. CASE ~ran
      BY <2>1, <3>1
    <3>2. CASE ran
      BY <2>1, <3>2, OneMoreRun
    <3> QED BY <3>1, <3>2
  <2>2. QueueShape'
    BY <2>1, <2>3
  <2>4. mqRefused \subseteq mqRefused'
    BY <2>1
  <2>5. NoMutationLost'
    BY <2>1, <2>2, <2>3, <2>4
  <2>6. AnswersMeanIt'
    <3> SUFFICES ASSUME NEW u \in MqTab, mqPhase'[u] = "answered",
                        First(u).id \in Entry
                 PROVE  /\ mqStatus'[u] = "done" =>
                             mqRuns'[First(u).id] > 0
                        /\ mqStatus'[u] = "refused" =>
                             First(u).id \in mqRefused'
      BY <2>1, SameFirst DEF AnswersMeanIt
    <3>1. CASE u = t
      <4>1. mqStatus'[u] = status
        BY <2>1, <3>1
      <4>2. ran => mqRuns'[e] = mqRuns[e] + 1
        BY <2>1, <3>1
      <4> QED BY <2>1, <3>1, <4>1, <4>2
    <3>2. CASE u # t
      BY <2>1, <2>3, <2>4, <3>2 DEF AnswersMeanIt
    <3> QED BY <3>1, <3>2
  <2> QED BY <2>2, <2>5, <2>6
<1>9. ASSUME NEW t \in MqTab, Handle(t) PROVE QueueInv'
  <2> DEFINE e == First(t).id
  <2>1. /\ mqPhase[t] = "answered"
        /\ mqStore' = IF mqStatus[t] \in {"done", "refused"}
                      THEN mqStore \ {e} ELSE mqStore
        /\ UNCHANGED <<mqNext, mqRuns, mqRefused>>
    BY <1>9 DEF Handle
  <2>2. \E todo, phase :
          /\ mqTodo' = [mqTodo EXCEPT ![t] = todo]
          /\ mqPhase' = [mqPhase EXCEPT ![t] = phase]
          /\ phase \in {"idle", "next"}
          /\ mqStatus' = [mqStatus EXCEPT ![t] = "unasked"]
    BY <1>9, Zenon DEF Handle, Idle, Skip
  <2>3. QueueShape'
    BY <2>1, <2>2
  <2>4. AnswersMeanIt'
    BY <2>1, <2>2, AnswersKept
  <2>5. NoMutationLost'
    BY <2>1, <2>3 DEF AnswersMeanIt
  <2> QED BY <2>3, <2>4, <2>5
<1>10. CASE UNCHANGED mqVars
  <2>1. QueueShape' /\ NoMutationLost'
    BY <1>10 DEF mqVars, mqTabVars
  <2>2. AnswersMeanIt'
    BY <1>10, AnswersKept DEF mqVars, mqTabVars
  <2> QED BY <2>1, <2>2
<1> QED BY <1>1, <1>2, <1>3, <1>4, <1>5, <1>6, <1>7, <1>8, <1>9, <1>10
        DEF MqNext, MqStep

\* What a drain takes; it is on an entry, in another phase than before and
\* after it, only while it has one in hand.
Taken(n) == [id : 1..n, old : BOOLEAN]
MqKinds ==
  /\ mqOnline \in BOOLEAN
  /\ mqTodo \in [MqTab -> SUBSET Taken(mqNext)]
MqInHand ==
  /\ mqOld \cup mqRefused \subseteq 1..mqNext
  /\ mqPhase \in [MqTab -> {"idle", "next", "asking", "sent", "answered"}]
  /\ mqStatus \in [MqTab -> MqStatuses]
  /\ mqCount \in [MqTab -> 0..MqMax]
  /\ mqRuns \in [Entry -> 0..MqMax * 2]
  /\ \A t \in MqTab : mqPhase[t] \in {"asking", "sent"} => mqTodo[t] # {}
MqTyped == MqKinds /\ MqInHand

\* What was typed when fewer mutations were queued is typed still.
LEMMA TakenGrows ==
  ASSUME NEW m \in Nat, NEW n \in Nat, m <= n
  PROVE  SUBSET Taken(m) \subseteq SUBSET Taken(n)
<1>1. 1..m \subseteq 1..n
  OBVIOUS
<1> QED BY <1>1, Zenon DEF Taken

\* What a drain takes are entries of the database.
LEMMA SnapshotTyped == QueueInv => Snapshot \in SUBSET Taken(mqNext)
<1> SUFFICES ASSUME QueueInv, NEW e \in mqStore
             PROVE  [id |-> e, old |-> e \in mqOld] \in Taken(mqNext)
  BY Zenon DEF Snapshot
<1>1. e \in 1..mqNext
  BY DEF QueueInv, QueueShape
<1>2. (e \in mqOld) = TRUE \/ (e \in mqOld) = FALSE
  OBVIOUS
<1> QED BY <1>1, <1>2, Zenon DEF Taken

\* The next entry is one of those taken.
LEMMA FirstTaken ==
  ASSUME QueueInv, MqTyped, NEW t \in MqTab, mqTodo[t] # {}
  PROVE  First(t) \in mqTodo[t] /\ First(t).id \in 1..mqNext
<1> DEFINE ids == {m.id : m \in mqTodo[t]}
<1>1. \A m \in mqTodo[t] : m \in Taken(mqNext)
  BY Zenon DEF MqTyped, MqKinds
<1>2. \A m \in Taken(mqNext) : m.id \in 1..mqNext
  BY Zenon DEF Taken
<1>3. ids \in SUBSET Nat /\ ids # {}
  BY <1>1, <1>2
<1>4. \E x \in ids : \A y \in ids : x <= y
  BY <1>3, Least
<1>5. \E m \in mqTodo[t] : \A n \in mqTodo[t] : m.id <= n.id
  BY <1>4
<1>6. First(t) \in mqTodo[t]
  BY <1>5, Zenon DEF First
<1> QED BY <1>1, <1>2, <1>6

\* No count of what waits exceeds what was ever queued.
LEMMA CountFits ==
  ASSUME NEW S \in SUBSET Entry PROVE Cardinality(S) \in 0..MqMax
<1>1. IsFiniteSet(Entry) /\ Cardinality(Entry) = MqMax
  BY MqAssumption, FS_Interval DEF Entry
<1>2. IsFiniteSet(S) /\ Cardinality(S) <= MqMax
  BY <1>1, FS_Subset
<1>3. Cardinality(S) \in Nat
  BY <1>2, FS_CardinalityType
<1> QED BY <1>2, <1>3, MqAssumption

\* The other conjuncts of the type invariant are typed without Booleans.
LEMMA MqTypedStarts == MqInit => MqTyped
<1>1. MqInit => MqKinds
  BY Zenon DEF MqInit, MqKinds
<1>2. MqInit => MqInHand
  BY MqAssumption DEF MqInit, MqInHand, MqStatuses, Entry
<1> QED BY <1>1, <1>2 DEF MqTyped

\* No step of any tab breaks them.
LEMMA MqKindsStay == QueueInv /\ MqKinds /\ [MqNext]_mqVars => MqKinds'
<1> SUFFICES ASSUME QueueInv, MqKinds, [MqNext]_mqVars PROVE MqKinds'
  OBVIOUS
<1>1. mqOnline' \in BOOLEAN
  BY Zenon DEF MqKinds, MqNext, MqStep, Enqueue, Aging, ComesOnline, GoesOffline,
     Reopen, Take, Prompt, Serve, Handle, mqVars
<1>2. SUBSET Taken(mqNext) \subseteq SUBSET Taken(mqNext')
  <2>1. mqNext \in Nat /\ mqNext' \in Nat /\ mqNext <= mqNext'
    <3>1. mqNext' = mqNext \/ mqNext' = mqNext + 1
      BY Zenon DEF MqNext, MqStep, Enqueue, Aging, ComesOnline, GoesOffline,
         Reopen, Take, Prompt, Serve, Handle, mqVars
    <3> QED BY <3>1, MqAssumption DEF QueueInv, QueueShape
  <2> QED BY <2>1, TakenGrows
<1> HIDE DEF Taken
<1>3. {} \in SUBSET Taken(mqNext) /\ Snapshot \in SUBSET Taken(mqNext)
  BY SnapshotTyped
<1>4. mqTodo' \in [MqTab -> SUBSET Taken(mqNext)]
  <2> USE DEF MqKinds
  <2>1. CASE UNCHANGED mqTodo
    BY <2>1
  <2>2. CASE ComesOnline
    BY <1>3, <2>2 DEF ComesOnline
  <2>3. CASE Reopen
    BY <1>3, <2>3 DEF Reopen
  <2>4. ASSUME NEW t \in MqTab, Idle(t) \/ Skip(t)
        PROVE  mqTodo' \in [MqTab -> SUBSET Taken(mqNext)]
    BY <1>3, <2>4 DEF Idle, Skip
  <2> QED BY <2>1, <2>2, <2>3, <2>4 DEF MqNext, MqStep, Enqueue, Aging,
             GoesOffline, Take, Prompt, Serve, Handle, mqVars, mqTabVars
<1>5. mqTodo' \in [MqTab -> SUBSET Taken(mqNext')]
  BY <1>2, <1>4
<1> QED BY <1>1, <1>5, Zenon DEF MqKinds

\* No step of any tab leaves another waiting with nothing in hand.
LEMMA MqInHandStays == QueueInv /\ MqTyped /\ [MqNext]_mqVars => MqInHand'
<1> SUFFICES ASSUME QueueInv, MqTyped, [MqNext]_mqVars PROVE MqInHand'
  OBVIOUS
<1>a. QueueInv'
  BY QueueStays
<1>b. MqInHand /\ QueueShape /\ QueueShape'
  BY <1>a DEF MqTyped, QueueInv
<1>c. DOMAIN mqTodo = MqTab
  BY <1>b DEF QueueShape
<1>d. Cardinality(mqStore) \in 0..MqMax /\ Cardinality(mqStore') \in 0..MqMax
  <2>1. mqStore \in SUBSET Entry /\ mqStore' \in SUBSET Entry
    BY <1>b, MqAssumption DEF QueueShape, Entry
  <2> QED BY <2>1, CountFits
<1> USE <1>b, <1>c, <1>d, MqAssumption DEF MqInHand, QueueShape, MqStatuses, Entry
<1>1. CASE Enqueue
  BY <1>1 DEF Enqueue
<1>2. CASE Aging
  BY <1>2 DEF Aging, mqTabVars
<1>3. CASE ComesOnline
  BY <1>3 DEF ComesOnline
<1>4. CASE GoesOffline
  BY <1>4 DEF GoesOffline, mqTabVars
<1>5. CASE Reopen
  BY <1>5 DEF Reopen
<1>6. ASSUME NEW t \in MqTab, Take(t) PROVE MqInHand'
  BY <1>6 DEF Take, Idle
<1>7. ASSUME NEW t \in MqTab, Prompt(t) PROVE MqInHand'
  BY <1>7 DEF Prompt, Skip
<1>8. ASSUME NEW t \in MqTab, Serve(t) PROVE MqInHand'
  <2> DEFINE e == First(t).id
  <2>1. PICK status \in MqStatuses \ {"unasked"}, ran \in BOOLEAN :
          /\ mqPhase[t] = "sent"
          /\ ran => mqRuns[e] < MqMax * 2
          /\ mqRuns' = IF ran THEN [mqRuns EXCEPT ![e] = @ + 1] ELSE mqRuns
          /\ mqRefused' = IF status = "refused" THEN mqRefused \cup {e}
                          ELSE mqRefused
          /\ mqStatus' = [mqStatus EXCEPT ![t] = status]
          /\ mqPhase' = [mqPhase EXCEPT ![t] = "answered"]
          /\ UNCHANGED <<mqNext, mqStore, mqOld, mqOnline, mqTodo, mqCount>>
    BY <1>8, Zenon DEF Serve
  <2>2. e \in 1..mqNext
    BY <2>1, FirstTaken
  <2> HIDE DEF e
  <2>3. mqRuns' \in [Entry -> 0..MqMax * 2]
    <3>1. e \in Entry /\ mqRuns[e] \in 0..MqMax * 2
      BY <2>2
    <3>2. CASE ran
      BY <2>1, <3>1, <3>2
    <3>3. CASE ~ran
      BY <2>1, <3>3
    <3> QED BY <3>2, <3>3
  <2>4. mqOld' \cup mqRefused' \subseteq 1..mqNext'
    BY <2>1, <2>2
  <2>5. \A u \in MqTab : mqPhase'[u] \in {"asking", "sent"} => mqTodo'[u] # {}
    BY <2>1
  <2>6. /\ mqPhase' \in [MqTab -> {"idle", "next", "asking", "sent", "answered"}]
        /\ mqStatus' \in [MqTab -> MqStatuses]
        /\ mqCount' \in [MqTab -> 0..MqMax]
    BY <2>1
  <2> QED BY <2>3, <2>4, <2>5, <2>6
<1>9. ASSUME NEW t \in MqTab, Handle(t) PROVE MqInHand'
  BY <1>9 DEF Handle, Idle, Skip
<1>10. CASE UNCHANGED mqVars
  BY <1>10 DEF mqVars, mqTabVars
<1> QED BY <1>1, <1>2, <1>3, <1>4, <1>5, <1>6, <1>7, <1>8, <1>9, <1>10
        DEF MqNext, MqStep

(***************************************************************************)
(* The toaster.                                                            *)
(***************************************************************************)
TsShape ==
    /\ tsNext \in 0..TsIds
    /\ \A m \in tsToasts : m.id \in 1..tsNext
    /\ tsTimers \cup tsWaits \subseteq 1..tsNext
    /\ DOMAIN tsAnswers \subseteq 1..tsNext
TsFew == IsFiniteSet(tsToasts) /\ Cardinality(tsToasts) <= TsMaxVisible

\* No two messages share an id, and a message that is not to stay has its timer.
OneEachId == \A m, n \in tsToasts : m.id = n.id => m = n
TsInv == TsShape /\ TsFew /\ OneEachId /\ TimersMatchToasts

\* Nothing is shown at first.
LEMMA TsStarts == TsInit => TsInv
BY TsAssumption, FS_EmptySet
DEF TsInit, TsInv, TsShape, TsFew, OneEachId, TimersMatchToasts

\* The oldest of some messages is one of them, with an id none is below.
LEMMA OldestIsLeast ==
  ASSUME NEW toasts, toasts # {}, \A m \in toasts : m.id \in Nat
  PROVE  /\ \E m \in toasts : m.id = Oldest(toasts)
         /\ \A m \in toasts : Oldest(toasts) <= m.id
<1> DEFINE ids == {m.id : m \in toasts}
<1>1. ids \in SUBSET Nat /\ ids # {}
  OBVIOUS
<1>2. \E x \in ids : \A y \in ids : x <= y
  BY <1>1, Least
<1>3. \E x \in ids : \A m \in toasts : x <= m.id
  BY <1>2
<1>4. Oldest(toasts) \in ids /\ \A m \in toasts : Oldest(toasts) <= m.id
  BY <1>3, Zenon DEF Oldest
<1> QED BY <1>4

\* A new message is shown, whatever makes room for it, and enough does.
LEMMA NewestStays ==
  ASSUME TsInv, NEW m, m.id = tsNext + 1
  PROVE  /\ m.id \notin Evicted(tsToasts \cup {m})
         /\ LET next == Without(tsToasts \cup {m}, Evicted(tsToasts \cup {m}))
            IN  IsFiniteSet(next) /\ Cardinality(next) <= TsMaxVisible
<1> DEFINE all == tsToasts \cup {m}
           next == Without(all, Evicted(all))
<1> USE TsAssumption DEF TsInv, TsShape, TsFew
<1>1. /\ IsFiniteSet(all) /\ Cardinality(all) \in Nat
      /\ Cardinality(all) <= TsMaxVisible + 1
  <2>1. /\ IsFiniteSet(all)
        /\ Cardinality(all) = IF m \in tsToasts THEN Cardinality(tsToasts)
                              ELSE Cardinality(tsToasts) + 1
    BY FS_AddElement
  <2>2. Cardinality(tsToasts) \in Nat /\ Cardinality(all) \in Nat
    BY <2>1, FS_CardinalityType
  <2> QED BY <2>1, <2>2
<1>2. next \subseteq all
  BY DEF Without
<1>3. IsFiniteSet(next) /\ Cardinality(next) <= Cardinality(all)
  BY <1>1, <1>2, FS_Subset
<1>4. Cardinality(next) \in Nat
  BY <1>3, FS_CardinalityType
<1>5. CASE ~(Cardinality(all) > TsMaxVisible)
  BY <1>1, <1>3, <1>4, <1>5 DEF Evicted
<1>6. CASE Cardinality(all) > TsMaxVisible
  <2>1. Evicted(all) = {Oldest(all)}
    BY <1>6 DEF Evicted
  <2>2. tsToasts # {}
    <3> SUFFICES ASSUME tsToasts = {} PROVE FALSE
      OBVIOUS
    <3>1. all = {m}
      OBVIOUS
    <3>2. Cardinality(all) = 1
      BY <3>1, FS_Singleton
    <3> QED BY <3>2, <1>6
  <2>3. PICK old \in tsToasts : old.id \in 1..tsNext
    BY <2>2
  <2>4. PICK o \in all : o.id = Oldest(all)
    BY OldestIsLeast
  <2>5. Oldest(all) <= old.id
    BY OldestIsLeast
  <2>6. m.id # Oldest(all)
    BY <2>3, <2>5
  <2>7. next \subseteq all \ {o}
    BY <2>1, <2>4 DEF Without
  <2>8. IsFiniteSet(all \ {o}) /\ Cardinality(all \ {o}) = Cardinality(all) - 1
    BY <1>1, <2>4, FS_RemoveElement
  <2>9. Cardinality(next) <= Cardinality(all \ {o})
    BY <2>7, <2>8, FS_Subset
  <2>10. Cardinality(next) <= TsMaxVisible
    BY <1>1, <1>4, <2>8, <2>9
  <2> QED BY <1>3, <2>1, <2>6, <2>10
<1> QED BY <1>5, <1>6

\* To dismiss a message takes its timer along.
LEMMA DismissedStays ==
  ASSUME TsInv, NEW id, Dismissed(id), tsNext' = tsNext,
         tsWaits' \subseteq 1..tsNext, DOMAIN tsAnswers' \subseteq 1..tsNext
  PROVE  TsInv'
<1> USE TsAssumption DEF TsInv
<1>1. tsToasts' = Without(tsToasts, {id}) /\ tsTimers' = tsTimers \ {id}
  BY DEF Dismissed
<1>2. tsToasts' \subseteq tsToasts
  BY <1>1 DEF Without
<1>3. TsFew'
  <2>1. IsFiniteSet(tsToasts') /\ Cardinality(tsToasts') <= Cardinality(tsToasts)
    BY <1>2, FS_Subset DEF TsFew
  <2>2. Cardinality(tsToasts') \in Nat /\ Cardinality(tsToasts) \in Nat
    BY <2>1, FS_CardinalityType DEF TsFew
  <2> QED BY <2>1, <2>2 DEF TsFew
<1>4. TsShape'
  BY <1>1, <1>2 DEF TsShape
<1>5. OneEachId'
  BY <1>2 DEF OneEachId
<1>6. TimersMatchToasts'
  BY <1>1 DEF TimersMatchToasts, Without
<1> QED BY <1>3, <1>4, <1>5, <1>6

\* A caller is told once.
LEMMA FinishStays ==
  ASSUME TsInv, NEW id, NEW word, Finish(id, word)
  PROVE  tsNext' = tsNext /\ tsWaits' \subseteq 1..tsNext
         /\ DOMAIN tsAnswers' \subseteq 1..tsNext
BY DEF TsInv, TsShape, Finish

\* No message, timer, button or caller breaks them.
LEMMA TsStays == TsInv /\ [TsNext]_tsVars => TsInv'
<1> SUFFICES ASSUME TsInv, [TsNext]_tsVars PROVE TsInv'
  OBVIOUS
<1> USE TsAssumption
<1>1. CASE ShowToast
  <2>1. PICK stays, asks \in BOOLEAN :
          LET m == [id |-> tsNext', stays |-> stays, asks |-> asks]
              all == tsToasts \cup {m}
          IN /\ tsNext < TsIds /\ tsNext' = tsNext + 1
             /\ tsToasts' = Without(all, Evicted(all))
             /\ tsTimers' = (tsTimers \ Evicted(all))
                              \cup (IF stays THEN {} ELSE {tsNext'})
             /\ tsWaits' = IF asks THEN tsWaits \cup {tsNext'} ELSE tsWaits
             /\ UNCHANGED tsAnswers
    BY <1>1, Zenon DEF ShowToast
  <2> DEFINE m == [id |-> tsNext', stays |-> stays, asks |-> asks]
             all == tsToasts \cup {m}
  <2>2. m.id = tsNext + 1 /\ m.stays = stays
    BY <2>1
  <2>3. m.id \notin Evicted(all) /\ TsFew'
    BY <2>1, <2>2, NewestStays DEF TsFew
  <2> HIDE DEF m
  <2>4. TsShape'
    BY <2>1, <2>2 DEF TsInv, TsShape, Without, all
  <2>5. OneEachId'
    BY <2>1, <2>2 DEF TsInv, TsShape, OneEachId, Without
  <2>6. TimersMatchToasts'
    <3> DEFINE gone == Evicted(all)
    <3>1. /\ tsTimers' = (tsTimers \ gone) \cup (IF stays THEN {} ELSE {tsNext'})
          /\ tsToasts' = {n \in tsToasts \cup {m} : n.id \notin gone}
      BY <2>1, Zenon DEF Without, m
    <3>2. m.id = tsNext' /\ m.id \notin gone /\ m.stays = stays
      BY <2>1, <2>2, <2>3
    <3> HIDE DEF all, gone
    <3>3. tsTimers = {n.id : n \in {o \in tsToasts : ~o.stays}}
      BY DEF TsInv, TimersMatchToasts
    <3>4. CASE stays
      BY <3>1, <3>3, <3>2, <3>4 DEF TimersMatchToasts
    <3>5. CASE ~stays
      BY <3>1, <3>3, <3>2, <3>5 DEF TimersMatchToasts
    <3> QED BY <3>4, <3>5
  <2> QED BY <2>3, <2>4, <2>5, <2>6 DEF TsInv
<1>2. CASE TsTimeout
  BY <1>2, DismissedStays DEF TsTimeout, TsInv, TsShape
<1>3. CASE TsDismiss
  BY <1>3, DismissedStays DEF TsDismiss, TsInv, TsShape
<1>4. CASE TsAction
  BY <1>4, DismissedStays, FinishStays DEF TsAction
<1>5. CASE TsGiveUp
  BY <1>5, DismissedStays, FinishStays DEF TsGiveUp, GivenUp
<1>6. CASE UNCHANGED tsVars
  BY <1>6 DEF tsVars, TsInv, TsShape, TsFew, OneEachId, TimersMatchToasts
<1> QED BY <1>1, <1>2, <1>3, <1>4, <1>5, <1>6 DEF TsNext

\* What a message is, and how many were ever shown.
Toast(n) == [id : 1..n, stays : BOOLEAN, asks : BOOLEAN]
TsKinds == tsToasts \subseteq Toast(tsNext)

\* They stay so, as a message is shown under a new id.
LEMMA TsKindsStay ==
  /\ TsInit => TsKinds
  /\ TsInv /\ TsKinds /\ [TsNext]_tsVars => TsKinds'
<1>1. TsInit => TsKinds
  BY DEF TsInit, TsKinds
<1>2. ASSUME TsInv, TsKinds, ShowToast PROVE TsKinds'
  <2>1. PICK stays, asks \in BOOLEAN :
          LET all == tsToasts \cup {[id |-> tsNext', stays |-> stays, asks |-> asks]}
          IN tsNext' = tsNext + 1 /\ tsToasts' = Without(all, Evicted(all))
    BY <1>2, Zenon DEF ShowToast
  <2>2. tsNext' \in 1..tsNext' /\ 1..tsNext \subseteq 1..tsNext'
    BY <1>2, <2>1, TsAssumption DEF TsInv, TsShape
  <2>3. [id |-> tsNext', stays |-> stays, asks |-> asks] \in Toast(tsNext')
    BY <2>2, Zenon DEF Toast
  <2>4. Toast(tsNext) \subseteq Toast(tsNext')
    BY <2>2, Zenon DEF Toast
  <2> HIDE DEF Toast
  <2> QED BY <1>2, <2>1, <2>3, <2>4, Zenon DEF TsKinds, Without
<1>3. ASSUME TsKinds, TsNext \/ UNCHANGED tsVars, ~ShowToast PROVE TsKinds'
  <2>1. tsNext' = tsNext /\ tsToasts' \subseteq tsToasts
    BY <1>3, Zenon DEF TsNext, TsTimeout, TsDismiss, TsAction, TsGiveUp, GivenUp,
       Finish, Dismissed, Without, tsVars
  <2> QED BY <1>3, <2>1, Zenon DEF TsKinds
<1> QED BY <1>1, <1>2, <1>3

(***************************************************************************)
(* Controls of the fleet.                                                  *)
(***************************************************************************)
FleetCommands == [runners : SUBSET Runner, to : {"up", "down"}]

\* While a command is out, and until the timer that drops the lock fires, the
\* lock is on.
FtShape ==
    /\ ftHost \in {"native", "legacy"}
    /\ ftServer \subseteq Runner /\ ftShown \subseteq Runner
    /\ ftLoads \in Seq(SUBSET Runner) /\ Len(ftLoads) <= FtLoads
    /\ ftPosts \in Seq(FleetCommands) /\ Len(ftPosts) <= 1
    /\ ftFilter \in Filters
FtInv == FtShape /\ (ftPosts # <<>> => ftAction)
         /\ (ftUnlock => ftAction /\ ftPosts = <<>>)

\* The page opens with its first load out.
LEMMA FtStarts == FtInit => FtInv
<1> SUFFICES ASSUME FtInit PROVE FtInv
  OBVIOUS
<1>1. ftLoads \in Seq(SUBSET Runner) /\ Len(ftLoads) = 1
  BY Single DEF FtInit
<1>2. ftPosts = <<>> /\ ~ftUnlock
  BY DEF FtInit
<1> QED BY <1>1, <1>2, FtAssumption DEF FtInit, FtInv, FtShape, Filters

\* No click, answer or timer breaks them.
LEMMA FtStays == FtInv /\ [FtNext]_ftVars => FtInv'
<1> SUFFICES ASSUME FtInv, [FtNext]_ftVars PROVE FtInv'
  OBVIOUS
<1> USE FtAssumption DEF FtInv, FtShape, Filters, ftTimers, ftView
<1>1. CASE FtControl
  <2>1. PICK c \in FleetCommand \cup RunnerCommand :
          /\ ~Busy /\ ftAction' = TRUE /\ ftPosts' = Append(ftPosts, c)
          /\ UNCHANGED <<ftHost, ftServer, ftShown, ftLoading, ftError, ftLoads,
                         ftTimers, ftView>>
    BY <1>1 DEF FtControl
  <2>2. c \in FleetCommands
    BY DEF FleetCommand, RunnerCommand, Listed, FleetCommands
  <2>3. ~ftAction /\ ftPosts = <<>>
    BY <2>1 DEF Busy
  <2>4. ftPosts' \in Seq(FleetCommands) /\ Len(ftPosts') = 1
    BY <2>1, <2>2, <2>3
  <2> QED BY <2>1, <2>3, <2>4
<1>2. CASE NativeSettles
  <2>1. PICK ok \in BOOLEAN, done \in BOOLEAN :
          /\ ftHost = "native" /\ ftPosts # <<>> /\ ftPosts' = <<>>
          /\ ftServer' = IF done THEN Obeyed(Head(ftPosts)) ELSE ftServer
          /\ IF ok THEN /\ Len(ftLoads) < FtLoads
                        /\ ftLoads' = Append(ftLoads, ftServer')
                   ELSE UNCHANGED ftLoads
          /\ UNCHANGED <<ftHost, ftShown, ftTimers, ftView>>
    BY <1>2, Zenon DEF NativeSettles
  <2>2. ftServer' \subseteq Runner
    <3>1. Head(ftPosts) \in FleetCommands
      BY <2>1, HeadTailProperties
    <3> QED BY <2>1, <3>1 DEF Obeyed, FleetCommands
  <2>3. ~ftUnlock
    BY <2>1
  <2>4. ftLoads' \in Seq(SUBSET Runner) /\ Len(ftLoads') <= FtLoads
    <3>1. CASE ok
      <4>1. ftServer' \in SUBSET Runner /\ ftLoads' = Append(ftLoads, ftServer')
        BY <2>1, <2>2, <3>1
      <4> QED BY <2>1, <3>1, <4>1
    <3>2. CASE ~ok
      BY <2>1, <3>2
    <3> QED BY <3>1, <3>2
  <2> QED BY <2>1, <2>2, <2>3, <2>4
<1>3. CASE LegacySettles
  <2>1. PICK done \in BOOLEAN :
          /\ ftPosts # <<>> /\ ftPosts' = <<>>
          /\ ftServer' = IF done THEN Obeyed(Head(ftPosts)) ELSE ftServer
          /\ UNCHANGED <<ftHost, ftShown, ftAction, ftLoads, ftView>>
    BY <1>3, Zenon DEF LegacySettles
  <2>2. ftServer' \subseteq Runner
    <3>1. Head(ftPosts) \in FleetCommands
      BY <2>1, HeadTailProperties
    <3> QED BY <2>1, <3>1 DEF Obeyed, FleetCommands
  <2> QED BY <2>1, <2>2
<1>4. CASE FtRefetch
  BY <1>4 DEF FtRefetch, Load
<1>5. CASE FtUnlock
  BY <1>5 DEF FtUnlock
<1>6. CASE FtReload
  BY <1>6 DEF FtReload, Load
<1>7. CASE FtLoaded
  <2>1. PICK n \in 1..Len(ftLoads), ok \in BOOLEAN :
          /\ ftLoads' = RemoveAt(ftLoads, n)
          /\ ftShown' = IF ok THEN ftLoads[n] ELSE ftShown
          /\ UNCHANGED <<ftHost, ftServer, ftAction, ftPosts, ftTimers, ftView>>
    BY <1>7, Zenon DEF FtLoaded
  <2>2. ftLoads[n] \subseteq Runner
    OBVIOUS
  <2>3. ftLoads' \in Seq(SUBSET Runner) /\ Len(ftLoads') <= FtLoads
    BY <2>1, Removed
  <2> QED BY <2>1, <2>2, <2>3
<1>8. CASE FtFilter
  BY <1>8 DEF FtFilter
<1>9. CASE FtToggle
  BY <1>9 DEF FtToggle
<1>10. CASE FtDrift
  BY <1>10 DEF FtDrift
<1>11. CASE UNCHANGED ftVars
  BY <1>11 DEF ftVars
<1> QED BY <1>1, <1>2, <1>3, <1>4, <1>5, <1>6, <1>7, <1>8, <1>9, <1>10, <1>11
        DEF FtNext, FtSettles

\* Its flags are Booleans.
FtFlags == {ftLoading, ftAction, ftError, ftRefetch, ftUnlock, ftCollapsed}
    \subseteq BOOLEAN

\* They stay so.
LEMMA FtFlagsStay == (FtInit => FtFlags) /\ (FtFlags /\ [FtNext]_ftVars => FtFlags')
<1> USE DEF FtFlags, ftTimers, ftView
<1>1. FtInit => FtFlags
  BY Zenon DEF FtInit
<1>2. ASSUME FtFlags, FtControl PROVE FtFlags'
  BY <1>2, Zenon DEF FtControl
<1>3. ASSUME FtFlags, NativeSettles PROVE FtFlags'
  BY <1>3, Zenon DEF NativeSettles
<1>4. ASSUME FtFlags, LegacySettles PROVE FtFlags'
  BY <1>4, Zenon DEF LegacySettles
<1>5. ASSUME FtFlags, FtRefetch PROVE FtFlags'
  BY <1>5, Zenon DEF FtRefetch, Load
<1>6. ASSUME FtFlags, FtUnlock PROVE FtFlags'
  BY <1>6, Zenon DEF FtUnlock
<1>7. ASSUME FtFlags, FtReload PROVE FtFlags'
  BY <1>7, Zenon DEF FtReload, Load
<1>8. ASSUME FtFlags, FtLoaded PROVE FtFlags'
  BY <1>8, Zenon DEF FtLoaded
<1>9. ASSUME FtFlags, FtFilter PROVE FtFlags'
  BY <1>9, Zenon DEF FtFilter
<1>10. ASSUME FtFlags, FtToggle PROVE FtFlags'
  BY <1>10, Zenon DEF FtToggle
<1>11. ASSUME FtFlags, FtDrift PROVE FtFlags'
  BY <1>11, Zenon DEF FtDrift
<1>12. ASSUME FtFlags, UNCHANGED ftVars PROVE FtFlags'
  BY <1>12, Zenon DEF ftVars
<1> QED BY <1>1, <1>2, <1>3, <1>4, <1>5, <1>6, <1>7, <1>8, <1>9, <1>10,
  <1>11, <1>12 DEF FtNext, FtSettles

(***************************************************************************)
(* Principals.                                                             *)
(***************************************************************************)
PnShape ==
    /\ pnMade \in 0..PnTokens
    /\ pnServer \cup pnShown \cup pnAnswers \subseteq 1..pnMade
    /\ {pnLoads, pnListed} \subseteq 0..PnFlights
    /\ {pnQuota, pnMint} \subseteq PnOne
    /\ pnValue \in 0..pnMade
    /\ pnPosts \in [PnKinds -> 0..PnFlights]
PnInv == PnShape

\* The page opens with its first load out.
LEMMA PnStarts == PnInit => PnInv
BY PnAssumption DEF PnInit, PnInv, PnShape, PnOne, PnKinds

\* No click or answer breaks them.
LEMMA PnStays == PnInv /\ [PnNext]_pnVars => PnInv'
<1> SUFFICES ASSUME PnInv, [PnNext]_pnVars PROVE PnInv'
  OBVIOUS
<1> USE PnAssumption DEF PnInv, PnShape, PnOne, PnKinds, pnListVars,
      pnDialogVars
<1>1. CASE PnTokensCome
  BY <1>1 DEF PnTokensCome
<1>2. CASE PnPrincipalsCome
  BY <1>2 DEF PnPrincipalsCome
<1>3. CASE PnOpen
  BY <1>3 DEF PnOpen, PnRows
<1>4. CASE PnCancel
  BY <1>4 DEF PnCancel
<1>5. CASE PnSaveQuota
  BY <1>5 DEF PnSaveQuota, PnSend
<1>6. CASE DoMintToken
  BY <1>6 DEF DoMintToken, PnSend
<1>7. CASE RevokeToken
  BY <1>7 DEF RevokeToken, PnSend
<1>8. CASE PnServe
  BY <1>8 DEF PnServe
<1>9. CASE PnMinted
  BY <1>9 DEF PnMinted, PnLoad
<1>10. CASE PnQuotaSaved
  BY <1>10 DEF PnQuotaSaved, PnLoad
<1>11. CASE PnRevoked
  BY <1>11 DEF PnRevoked, PnLoad
<1>12. CASE UNCHANGED pnVars
  BY <1>12 DEF pnVars
<1> QED BY <1>1, <1>2, <1>3, <1>4, <1>5, <1>6, <1>7, <1>8, <1>9, <1>10, <1>11,
        <1>12 DEF PnNext

\* Its flags are Booleans.
PnFlags == {pnNamed, pnError} \subseteq BOOLEAN

\* They stay so.
LEMMA PnFlagsStay == (PnInit => PnFlags) /\ (PnFlags /\ [PnNext]_pnVars => PnFlags')
<1> USE DEF PnFlags, pnListVars, pnDialogVars
<1>1. PnInit => PnFlags
  BY Zenon DEF PnInit
<1>2. ASSUME PnFlags, PnTokensCome PROVE PnFlags'
  BY <1>2, Zenon DEF PnTokensCome
<1>3. ASSUME PnFlags, PnPrincipalsCome PROVE PnFlags'
  BY <1>3, Zenon DEF PnPrincipalsCome
<1>4. ASSUME PnFlags, PnOpen PROVE PnFlags'
  BY <1>4, Zenon DEF PnOpen
<1>5. ASSUME PnFlags, PnCancel PROVE PnFlags'
  BY <1>5, Zenon DEF PnCancel
<1>6. ASSUME PnFlags, PnSaveQuota PROVE PnFlags'
  BY <1>6, Zenon DEF PnSaveQuota, PnSend
<1>7. ASSUME PnFlags, DoMintToken PROVE PnFlags'
  BY <1>7, Zenon DEF DoMintToken, PnSend
<1>8. ASSUME PnFlags, RevokeToken PROVE PnFlags'
  BY <1>8, Zenon DEF RevokeToken, PnSend
<1>9. ASSUME PnFlags, PnServe PROVE PnFlags'
  BY <1>9, Zenon DEF PnServe
<1>10. ASSUME PnFlags, PnMinted PROVE PnFlags'
  BY <1>10, Zenon DEF PnMinted
<1>11. ASSUME PnFlags, PnQuotaSaved PROVE PnFlags'
  BY <1>11, Zenon DEF PnQuotaSaved
<1>12. ASSUME PnFlags, PnRevoked PROVE PnFlags'
  BY <1>12, Zenon DEF PnRevoked
<1>13. ASSUME PnFlags, UNCHANGED pnVars PROVE PnFlags'
  BY <1>13, Zenon DEF pnVars
<1> QED BY <1>1, <1>2, <1>3, <1>4, <1>5, <1>6, <1>7, <1>8, <1>9, <1>10,
  <1>11, <1>12, <1>13 DEF PnNext

(***************************************************************************)
(* Feature requests.                                                       *)
(***************************************************************************)
FrShape ==
    /\ {frSaved, frHeld, frEditing} \subseteq FrNotes \cup {FrEmpty}
    /\ {frFlight, frPosts, frTemplatePosts, frTimers} \subseteq 0..FrFlights
    /\ {frDispatch, frTemplate, frNotes} \subseteq {"none", "out", "ok", "error"}
    /\ frNotePosts \subseteq FrNotes \cup {FrEmpty}
FrInv == FrShape /\ FrSpinner /\ FrMessageEnds /\ FrEditorFollows

\* The editor opens with nothing saved or sent.
LEMMA FrStarts == FrInit => FrInv
BY FrAssumption DEF FrInit, FrInv, FrShape, FrSpinner, FrMessageEnds,
     FrEditorFollows

\* No click, answer or timer breaks them.
LEMMA FrStays == FrInv /\ [FrNext]_frVars => FrInv'
<1> SUFFICES ASSUME FrInv, [FrNext]_frVars PROVE FrInv'
  OBVIOUS
<1> USE FrAssumption DEF FrInv, FrShape, FrSpinner, FrMessageEnds,
      FrEditorFollows, frFormVars, frNoteVars
<1>1. CASE FrLoaded
  <2>1. PICK ok \in BOOLEAN :
          /\ frFlight > 0 /\ frFlight' = frFlight - 1 /\ ~frLoading'
          /\ frHeld' = (IF ok THEN frSaved ELSE FrEmpty)
          /\ frEditing' = (IF frHeld' = frHeld THEN frEditing ELSE frHeld')
          /\ UNCHANGED <<frSaved, frFormVars, frPosts, frNoteVars>>
    BY <1>1 DEF FrLoaded
  <2>2. frHeld' \in FrNotes \cup {FrEmpty} /\ frEditing' \in FrNotes \cup {FrEmpty}
    BY <2>1
  <2>3. FrEditorFollows'
    <3>1. CASE frHeld' = frHeld
      BY <1>1, <3>1, <2>1 DEF FrLoaded
    <3>2. CASE frHeld' # frHeld
      BY <3>2, <2>1
    <3> QED BY <3>1, <3>2
  <2> QED BY <2>1, <2>2, <2>3
<1>2. CASE FrFill
  BY <1>2 DEF FrFill
<1>3. CASE FrDispatch
  BY <1>3 DEF FrDispatch
<1>4. CASE FrDispatched
  BY <1>4 DEF FrDispatched, FrAsk
<1>5. CASE FrKeep
  BY <1>5 DEF FrKeep
<1>6. CASE FrKept
  BY <1>6 DEF FrKept, FrAsk
<1>7. CASE FrEdit
  BY <1>7 DEF FrEdit
<1>8. CASE FrSaveNotes
  BY <1>8 DEF FrSaveNotes
<1>9. CASE FrNotesSaved
  BY <1>9 DEF FrNotesSaved
<1>10. CASE FrTimer
  BY <1>10 DEF FrTimer
<1>11. CASE UNCHANGED frVars
  BY <1>11 DEF frVars
<1> QED BY <1>1, <1>2, <1>3, <1>4, <1>5, <1>6, <1>7, <1>8, <1>9, <1>10, <1>11
        DEF FrNext

\* Its flags are Booleans.
FrFlags == {frLoading, frReady, frNamed, frEdited} \subseteq BOOLEAN

\* They stay so.
LEMMA FrFlagsStay == (FrInit => FrFlags) /\ (FrFlags /\ [FrNext]_frVars => FrFlags')
<1> USE DEF FrFlags, frFormVars, frNoteVars
<1>1. FrInit => FrFlags
  BY Zenon DEF FrInit
<1>2. ASSUME FrFlags, FrLoaded PROVE FrFlags'
  BY <1>2, Zenon DEF FrLoaded
<1>3. ASSUME FrFlags, FrFill PROVE FrFlags'
  BY <1>3, Zenon DEF FrFill
<1>4. ASSUME FrFlags, FrDispatch PROVE FrFlags'
  BY <1>4, Zenon DEF FrDispatch
<1>5. ASSUME FrFlags, FrDispatched PROVE FrFlags'
  BY <1>5, Zenon DEF FrDispatched, FrAsk
<1>6. ASSUME FrFlags, FrKeep PROVE FrFlags'
  BY <1>6, Zenon DEF FrKeep
<1>7. ASSUME FrFlags, FrKept PROVE FrFlags'
  BY <1>7, Zenon DEF FrKept, FrAsk
<1>8. ASSUME FrFlags, FrEdit PROVE FrFlags'
  BY <1>8, Zenon DEF FrEdit
<1>9. ASSUME FrFlags, FrSaveNotes PROVE FrFlags'
  BY <1>9, Zenon DEF FrSaveNotes
<1>10. ASSUME FrFlags, FrNotesSaved PROVE FrFlags'
  BY <1>10, Zenon DEF FrNotesSaved
<1>11. ASSUME FrFlags, FrTimer PROVE FrFlags'
  BY <1>11, Zenon DEF FrTimer
<1>12. ASSUME FrFlags, UNCHANGED frVars PROVE FrFlags'
  BY <1>12, Zenon DEF frVars
<1> QED BY <1>1, <1>2, <1>3, <1>4, <1>5, <1>6, <1>7, <1>8, <1>9, <1>10,
  <1>11, <1>12 DEF FrNext

(***************************************************************************)
(* The parts side by side.                                                 *)
(***************************************************************************)
CommandInv ==
    /\ RrInv
    /\ IsInv
    /\ PrInv
    /\ QuInv
    /\ ScInv
    /\ QmInv
    /\ WfInv
    /\ FoInv
    /\ LaInv
    /\ QueueInv
    /\ TsInv
    /\ FtInv
    /\ PnInv
    /\ FrInv

\* A step of the page is a step of one part and none of the others.
LEMMA PartsStep ==
  ASSUME [Next]_vars
  PROVE  /\ [RrNext]_rrVars
         /\ [IsNext]_isVars
         /\ [PrNext]_prVars
         /\ [QuNext]_quVars
         /\ [ScNext]_scVars
         /\ [QmNext]_qmVars
         /\ [WfNext]_wfVars
         /\ [FoNext]_foVars
         /\ [LaNext]_laVars
         /\ [MqNext]_mqVars
         /\ [TsNext]_tsVars
         /\ [FtNext]_ftVars
         /\ [PnNext]_pnVars
         /\ [FrNext]_frVars
<1>1. [RrNext]_rrVars
  BY Zenon DEF Next, Rest, vars
<1>2. [IsNext]_isVars
  BY Zenon DEF Next, Rest, vars
<1>3. [PrNext]_prVars
  BY Zenon DEF Next, Rest, vars
<1>4. [QuNext]_quVars
  BY Zenon DEF Next, Rest, vars
<1>5. [ScNext]_scVars
  BY Zenon DEF Next, Rest, vars
<1>6. [QmNext]_qmVars
  BY Zenon DEF Next, Rest, vars
<1>7. [WfNext]_wfVars
  BY Zenon DEF Next, Rest, vars
<1>8. [FoNext]_foVars
  BY Zenon DEF Next, Rest, vars
<1>9. [LaNext]_laVars
  BY Zenon DEF Next, Rest, vars
<1>10. [MqNext]_mqVars
  BY Zenon DEF Next, Rest, vars
<1>11. [TsNext]_tsVars
  BY Zenon DEF Next, Rest, vars
<1>12. [FtNext]_ftVars
  BY Zenon DEF Next, Rest, vars
<1>13. [PnNext]_pnVars
  BY Zenon DEF Next, Rest, vars
<1>14. [FrNext]_frVars
  BY Zenon DEF Next, Rest, vars
<1> QED BY <1>1, <1>2, <1>3, <1>4, <1>5, <1>6, <1>7, <1>8, <1>9, <1>10,
   <1>11, <1>12, <1>13, <1>14

\* Every part starts within its invariant.
LEMMA CommandsStart == Init => CommandInv
BY RrStarts, IsStarts, PrStarts, QuStarts, ScStarts, QmStarts, WfStarts,
   FoStarts, LaStarts, QueueStarts, TsStarts, FtStarts, PnStarts, FrStarts
   DEF Init, CommandInv

\* Every part keeps its invariant, as the steps of the others leave it alone.
LEMMA CommandsStay == CommandInv /\ [Next]_vars => CommandInv'
<1> SUFFICES ASSUME CommandInv, [Next]_vars PROVE CommandInv'
  OBVIOUS
<1>1. RrInv'
  BY PartsStep, RrStays DEF CommandInv
<1>2. IsInv'
  BY PartsStep, IsStays DEF CommandInv
<1>3. PrInv'
  BY PartsStep, PrStays DEF CommandInv
<1>4. QuInv'
  BY PartsStep, QuStays DEF CommandInv
<1>5. ScInv'
  BY PartsStep, ScStays DEF CommandInv
<1>6. QmInv'
  BY PartsStep, QmStays DEF CommandInv
<1>7. WfInv'
  BY PartsStep, WfStays DEF CommandInv
<1>8. FoInv'
  BY PartsStep, FoStays DEF CommandInv
<1>9. LaInv'
  BY PartsStep, LaStays DEF CommandInv
<1>10. QueueInv'
  BY PartsStep, QueueStays DEF CommandInv
<1>11. TsInv'
  BY PartsStep, TsStays DEF CommandInv
<1>12. FtInv'
  BY PartsStep, FtStays DEF CommandInv
<1>13. PnInv'
  BY PartsStep, PnStays DEF CommandInv
<1>14. FrInv'
  BY PartsStep, FrStays DEF CommandInv
<1> QED BY <1>1, <1>2, <1>3, <1>4, <1>5, <1>6, <1>7, <1>8, <1>9, <1>10,
   <1>11, <1>12, <1>13, <1>14 DEF CommandInv

\* The inductive invariants hold of every part at once.
LEMMA CommandsHold == Spec => []CommandInv
BY CommandsStart, CommandsStay, PTL DEF Spec

\* No page waits for nothing: a spinner, or the step that waits for a
\* dispatch, is shown only while the request that ends it is out, for any
\* number of requests out at once that end in any order.
THEOREM SpinnersEnd == Spec => []Spinners
<1>1. CommandInv => Spinners
  BY LaHolds DEF CommandInv, RrInv, IsInv, QmInv, FoInv, FrInv, Spinners
<1> QED BY <1>1, CommandsHold, PTL

\* No second command of a kind leaves a page that disables its button while
\* one is out.
THEOREM SentOnce == Spec => []SingleSubmission
<1>1. FtInv => ControlLocked
  BY DEF FtInv, ControlLocked, Busy
<1>2. CommandInv => SingleSubmission
  BY <1>1, LaHolds DEF CommandInv, PrInv, QuInv, ScInv, QmInv, WfInv, FoInv,
     SingleSubmission
<1> QED BY <1>2, CommandsHold, PTL

\* What is shown for a while has its timer pending.
THEOREM ArmsEnd == Spec => []ArmedEnds
<1>1. CommandInv => ArmedEnds
  BY DEF CommandInv, QuInv, ScInv, QmInv, PrInv, FrInv, TsInv, ArmedEnds
<1> QED BY <1>1, CommandsHold, PTL

\* Nothing that a page shows for a while is left standing: neither a spinner
\* nor an armed button, a message or a toast.
THEOREM AllComesDown == Spec => []NothingStaysUp
BY SpinnersEnd, ArmsEnd, PTL DEF NothingStaysUp

\* What overrides a policy was ticked, and a workflow that asks for it was
\* confirmed, in the dialog the command is sent from.
THEOREM Consented == Spec => []ConsentFirst
<1>1. CommandInv => ConsentFirst
  BY DEF CommandInv, IsInv, WfInv, ConsentFirst
<1> QED BY <1>1, CommandsHold, PTL

\* A mutation leaves the database only when the server ran or refused it.
THEOREM NothingLost == Spec => []NoMutationLost
<1>1. CommandInv => NoMutationLost
  BY DEF CommandInv, QueueInv
<1> QED BY <1>1, CommandsHold, PTL

\* At most so many messages are on show as the toaster has room for, each
\* under an id of its own.
THEOREM FewToasts == Spec => [](TsFew /\ OneEachId)
<1>1. CommandInv => TsFew /\ OneEachId
  BY DEF CommandInv, TsInv
<1> QED BY <1>1, CommandsHold, PTL

\* The lock of the legacy shell falls only when its control was answered and
\* the reload that follows it was sent.
LEMMA OnlyUnlockUnlocks ==
  FtInv /\ [FtNext]_ftVars =>
    (ftHost = "legacy" /\ ftAction /\ ~ftAction' => ftPosts = <<>> /\ ~ftRefetch)
<1> SUFFICES ASSUME FtInv, FtNext, ftHost = "legacy", ftAction, ~ftAction'
             PROVE  ftPosts = <<>> /\ ~ftRefetch
  BY DEF ftVars
<1>1. CASE FtUnlock
  BY <1>1 DEF FtUnlock, FtInv
<1>2. CASE FtControl
  BY <1>2 DEF FtControl, Busy
<1>3. CASE FtSettles
  BY <1>3 DEF FtSettles, NativeSettles, LegacySettles
<1>4. CASE FtRefetch \/ FtReload \/ FtLoaded \/ FtFilter \/ FtToggle \/ FtDrift
  BY <1>4 DEF FtRefetch, FtReload, FtLoaded, FtFilter, FtToggle, FtDrift, ftTimers
<1> QED BY <1>1, <1>2, <1>3, <1>4 DEF FtNext

\* The legacy shell unlocks only with nothing left to do for the control.
THEOREM UnlocksLast == Spec => LegacyUnlocksLast
<1>1. CommandInv /\ [Next]_vars =>
        [ftHost = "legacy" /\ ftAction /\ ~ftAction' =>
           ftPosts = <<>> /\ ~ftRefetch]_ftVars
  BY OnlyUnlockUnlocks, PartsStep DEF CommandInv
<1> QED BY <1>1, CommandsHold, PTL DEF Spec, LegacyUnlocksLast

\* What the types add to the invariants: flags are Booleans, and what is said
\* of plans, messages and the drains of the tabs.
CommandKinds ==
    /\ scene \in Scenes
    /\ RrPlanned
    /\ TsKinds
    /\ MqTyped
    /\ RrFlags
    /\ IsFlags
    /\ PrFlags
    /\ QuFlags
    /\ ScFlags
    /\ QmFlags
    /\ WfFlags
    /\ FoFlags
    /\ FtFlags
    /\ PnFlags
    /\ FrFlags

\* The types hold at first and stay, where the invariants hold before and
\* after a step.
LEMMA KindsHold ==
  /\ Init => CommandKinds
  /\ CommandInv /\ CommandKinds /\ [Next]_vars => CommandKinds'
<1>1. ASSUME Init PROVE CommandKinds
  BY <1>1, RrPlanStays, TsKindsStay, MqTypedStarts, RrFlagsStay,
     IsFlagsStay, PrFlagsStay, QuFlagsStay, ScFlagsStay, QmFlagsStay,
     WfFlagsStay, FoFlagsStay, FtFlagsStay, PnFlagsStay, FrFlagsStay DEF
     Init, CommandKinds
<1>2. ASSUME CommandInv, CommandKinds, [Next]_vars PROVE CommandKinds'
  <2>1. RrPlanned'
    BY <1>2, PartsStep, RrPlanStays DEF CommandInv, CommandKinds
  <2>2. TsKinds'
    BY <1>2, PartsStep, TsKindsStay DEF CommandInv, CommandKinds
  <2>3. MqTyped'
    BY <1>2, PartsStep, MqKindsStay, MqInHandStays
    DEF CommandInv, CommandKinds, MqTyped
  <2>4. scene' \in Scenes
    BY <1>2, Zenon DEF CommandKinds, Next, Rest, vars
  <2>5. RrFlags'
    BY <1>2, PartsStep, RrFlagsStay DEF CommandKinds
  <2>6. IsFlags'
    BY <1>2, PartsStep, IsFlagsStay DEF CommandKinds
  <2>7. PrFlags'
    BY <1>2, PartsStep, PrFlagsStay DEF CommandKinds
  <2>8. QuFlags'
    BY <1>2, PartsStep, QuFlagsStay DEF CommandKinds
  <2>9. ScFlags'
    BY <1>2, PartsStep, ScFlagsStay DEF CommandKinds
  <2>10. QmFlags'
    BY <1>2, PartsStep, QmFlagsStay DEF CommandKinds
  <2>11. WfFlags'
    BY <1>2, PartsStep, WfFlagsStay DEF CommandKinds
  <2>12. FoFlags'
    BY <1>2, PartsStep, FoFlagsStay DEF CommandKinds
  <2>13. FtFlags'
    BY <1>2, PartsStep, FtFlagsStay DEF CommandKinds
  <2>14. PnFlags'
    BY <1>2, PartsStep, PnFlagsStay DEF CommandKinds
  <2>15. FrFlags'
    BY <1>2, PartsStep, FrFlagsStay DEF CommandKinds
  <2> QED BY <2>1, <2>2, <2>3, <2>4, <2>5, <2>6, <2>7, <2>8, <2>9, <2>10,
     <2>11, <2>12, <2>13, <2>14, <2>15 DEF CommandKinds
<1> QED BY <1>1, <1>2

\* The states of the parts that send commands have their types, for any number
\* of runs, issues, pull requests, workflows, machines, tabs and messages.
THEOREM CommandsTyped == Spec => []CommandTypeOK
<1>1. CommandInv /\ CommandKinds => CommandTypeOK
  <2> SUFFICES ASSUME CommandInv, CommandKinds PROVE CommandTypeOK
    OBVIOUS
  <2> USE DEF CommandInv, CommandKinds
  <2>1. RrTypeOK
    BY RrAssumption DEF RrInv, RrShape, RrFlags, RrPlanned, RrTypeOK
  <2>2. IsTypeOK
    BY IsAssumption DEF IsInv, IsShape, IsFlags, IsTypeOK
  <2>3. PrTypeOK
    BY PrAssumption DEF PrInv, PrShape, PrFlags, PrTypeOK
  <2>4. QuTypeOK
    BY QuAssumption DEF QuInv, QuShape, QuFlags, QuTypeOK
  <2>5. ScTypeOK
    BY ScAssumption DEF ScInv, ScShape, ScFlags, ScTypeOK
  <2>6. QmTypeOK
    BY QmAssumption DEF QmInv, QmShape, QmFlags, QmTypeOK
  <2>7. WfTypeOK
    BY WfAssumption DEF WfInv, WfShape, WfFlags, WfTypeOK
  <2>8. FoTypeOK
    BY FoAssumption DEF FoInv, FoShape, FoFlags, FoTypeOK
  <2>9. LaTypeOK
    BY LaAssumption DEF LaInv, LaShape, LaTypeOK
  <2>10. MqTypeOK
    BY MqAssumption DEF QueueInv, QueueShape, MqTyped, MqKinds, MqInHand, Taken, MqTypeOK
  <2>11. TsTypeOK
    BY TsAssumption DEF TsInv, TsShape, TsFew, TsKinds, Toast, TsTypeOK
  <2>12. FtTypeOK
    BY FtAssumption DEF FtInv, FtShape, FtFlags, FtTypeOK
  <2>13. PnTypeOK
    BY PnAssumption DEF PnInv, PnShape, PnFlags, PnTypeOK
  <2>14. FrTypeOK
    BY FrAssumption DEF FrInv, FrShape, FrFlags, FrTypeOK
  <2> QED BY <2>1, <2>2, <2>3, <2>4, <2>5, <2>6, <2>7, <2>8, <2>9, <2>10,
     <2>11, <2>12, <2>13, <2>14 DEF CommandTypeOK
<1> QED BY <1>1, KindsHold, CommandsStart, CommandsStay, PTL DEF Spec
==============================================================================

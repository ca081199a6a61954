-------------------------- MODULE SessionStoreProofs --------------------------
(***************************************************************************)
(* What the session file keeps of what was stored in it, whatever requests *)
(* overwrite each other's records and wherever a worker is killed.  The    *)
(* invariant says the same of every list of records there is: the one in   *)
(* the file and those that threads are about to save.                      *)
(***************************************************************************)
EXTENDS SessionStore, FiniteSetTheorems, TLAPS

\* The sessions of who in L that count.
Mine(L, who) == {i \in DOMAIN L : Live(L, i) /\ L[i].who = who}

\* A list that any thread may save: its ids were generated, no principal has too
\* many, and nobody in it is back from the dead.
Sound(L, ids, used, gone) ==
  /\ L \in SsLists /\ DOMAIN L \subseteq 1 .. ids
  /\ Capped(L)
  /\ \A i \in DOMAIN L : ~L[i].revoked => i \notin gone /\ L[i].seen <= used[i]

\* What a thread that does not save has in its hands, and the types.
SsShape ==
  /\ ssFile \in SsLists /\ ssWritten \in BOOLEAN
  /\ ssTodo \in [SsProc -> Seq(SsOp)]
  /\ ssPhase \in [SsProc -> {"load", "open", "write"}]
  /\ ssMine \in [SsProc -> SsLists]
  /\ ssIds \in 0 .. SsMaxIds /\ ssCookies \subseteq SsCookie
  /\ ssNow \in 0 .. SsMaxTime
  /\ ssUsed \in [SsId -> 0 .. SsMaxTime]
  /\ \A i \in SsId : ssUsed[i] <= ssNow
  /\ \A p \in SsProc : IF ssPhase[p] = "load" THEN ssMine[p] = NoSessions
                                              ELSE ssTodo[p] # <<>>

SsInv ==
  /\ SsShape
  /\ ssGone \subseteq 1 .. ssIds
  /\ Sound(ssFile, ssIds, ssUsed, ssGone)
  /\ \A p \in SsProc : Sound(ssMine[p], ssIds, ssUsed, ssGone)
-----------------------------------------------------------------------------
\* A list is a function of records on some of the ids, of which there are finitely
\* many.
LEMMA Lists ==
  ASSUME NEW L \in SsLists
  PROVE  /\ L = [i \in DOMAIN L |-> L[i]]
         /\ DOMAIN L \subseteq SsId /\ IsFiniteSet(DOMAIN L)
         /\ \A i \in DOMAIN L : L[i] \in SsRecord
<1>1. PICK S \in SUBSET SsId : L \in [S -> SsRecord]
  BY DEF SsLists
<1>2. IsFiniteSet(SsId)
  BY FS_Interval, SsBoundsAssumption DEF SsId
<1>3. IsFiniteSet(S)
  BY <1>2, FS_Subset
<1> QED
  BY <1>1, <1>3

\* A function of records on some ids is a list.
LEMMA IsList ==
  ASSUME NEW S \in SUBSET SsId, NEW L \in [S -> SsRecord]
  PROVE  L \in SsLists
BY DEF SsLists

\* A list with less in it keeps to the cap.
LEMMA CapOfFewer ==
  ASSUME NEW L \in SsLists, NEW M \in SsLists, Capped(L),
         \A who \in SsPrincipal : Mine(M, who) \subseteq Mine(L, who)
  PROVE  Capped(M)
<1> SUFFICES ASSUME NEW who \in SsPrincipal
             PROVE  Cardinality(Mine(M, who)) <= SsCap
  BY DEF Capped, Mine
<1>1. IsFiniteSet(Mine(L, who))
  BY Lists, FS_Subset DEF Mine
<1>2. /\ Cardinality(Mine(M, who)) <= Cardinality(Mine(L, who))
      /\ IsFiniteSet(Mine(M, who))
  BY <1>1, FS_Subset
<1>3. Cardinality(Mine(L, who)) <= SsCap
  BY DEF Capped, Mine
<1>4. Cardinality(Mine(L, who)) \in Nat /\ Cardinality(Mine(M, who)) \in Nat
  BY <1>1, <1>2, FS_CardinalityType
<1> QED
  BY <1>2, <1>3, <1>4, SsCapAssumption

\* What an eviction leaves is less than the cap.
LEMMA EvictionMakesRoom ==
  ASSUME NEW L \in SsLists, NEW who \in SsPrincipal, NEW E \in Evictions(L, who)
  PROVE  LET left == {i \in DOMAIN L \ E : L[i].who = who}
         IN  IsFiniteSet(left) /\ Cardinality(left) < SsCap
<1> DEFINE own == {i \in DOMAIN L : L[i].who = who}
           left == {i \in DOMAIN L \ E : L[i].who = who}
<1>1. IsFiniteSet(own) /\ Cardinality(own) \in Nat
  BY Lists, FS_Subset, FS_CardinalityType
<1>2. /\ E \in SUBSET own
      /\ Cardinality(E) = IF Cardinality(own) >= SsCap
                            THEN Cardinality(own) - SsCap + 1 ELSE 0
  BY DEF Evictions
<1>3. left = own \ E /\ own \cap E = E
  BY <1>2
<1>4. /\ IsFiniteSet(own \ E)
      /\ Cardinality(own \ E) = Cardinality(own) - Cardinality(E)
  BY <1>1, <1>3, FS_Difference
<1>5. IsFiniteSet(left)
  BY <1>3, <1>4
<1>6. Cardinality(left) = Cardinality(own) - Cardinality(E)
  BY <1>3, <1>4
<1> HIDE DEF own, left
<1>7. Cardinality(left) < SsCap
  BY <1>1, <1>2, <1>6, SsCapAssumption
<1> QED
  BY <1>5, <1>7 DEF left
-----------------------------------------------------------------------------
\* A file without sessions is sound.
LEMMA NothingIsSound ==
  ASSUME NEW ids \in Nat, NEW used, NEW gone
  PROVE  Sound(NoSessions, ids, used, gone)
<1>1. NoSessions \in [{} -> SsRecord] /\ DOMAIN NoSessions = {}
  BY DEF NoSessions
<1>2. NoSessions \in SsLists
  BY <1>1, IsList
<1>3. \A who : {i \in DOMAIN NoSessions : Live(NoSessions, i) /\ NoSessions[i].who = who} = {}
  BY <1>1
<1>4. Capped(NoSessions)
  BY <1>3, FS_EmptySet, SsCapAssumption DEF Capped
<1> QED
  BY <1>1, <1>2, <1>4 DEF Sound

\* A sound list stays sound while ids are generated, sessions used and ids lost
\* that are not live in it.
LEMMA SoundStays ==
  ASSUME NEW L, NEW ids \in 0 .. SsMaxIds, NEW ids2 \in 0 .. SsMaxIds,
         NEW used \in [SsId -> 0 .. SsMaxTime], NEW used2 \in [SsId -> 0 .. SsMaxTime],
         NEW gone, NEW gone2,
         Sound(L, ids, used, gone), ids <= ids2,
         \A i \in DOMAIN L : used[i] <= used2[i],
         \A i \in gone2 \ gone : ~Live(L, i)
  PROVE  Sound(L, ids2, used2, gone2)
<1>1. /\ L \in SsLists /\ DOMAIN L \subseteq 1 .. ids /\ Capped(L)
      /\ \A i \in DOMAIN L : ~L[i].revoked => i \notin gone /\ L[i].seen <= used[i]
  BY DEF Sound
<1>2. DOMAIN L \subseteq 1 .. ids2
  BY <1>1, SsBoundsAssumption
<1>3. ASSUME NEW i \in DOMAIN L, ~L[i].revoked
      PROVE  i \notin gone2 /\ L[i].seen <= used2[i]
  <2>1. i \notin gone2
    BY <1>1, <1>3 DEF Live
  <2>2. i \in SsId /\ L[i].seen \in 0 .. SsMaxTime
    BY <1>1, Lists DEF SsRecord
  <2>3. used[i] \in 0 .. SsMaxTime /\ used2[i] \in 0 .. SsMaxTime
    BY <2>2
  <2> QED
    BY <1>1, <1>3, <2>1, <2>2, <2>3, SsBoundsAssumption
<1> QED
  BY <1>1, <1>2, <1>3 DEF Sound

\* What the operations save of a sound list is sound.
LEMMA PrunedIsSound ==
  ASSUME NEW L, NEW ids, NEW used, NEW gone, Sound(L, ids, used, gone)
  PROVE  /\ Sound(Pruned(L), ids, used, gone)
         /\ DOMAIN Pruned(L) = Active(L)
         /\ \A i \in Active(L) : Pruned(L)[i] = L[i] /\ Live(L, i)
<1>1. L \in SsLists
  BY DEF Sound
<1>2. Active(L) \subseteq DOMAIN L
  BY DEF Active
<1>3. Pruned(L) \in [Active(L) -> SsRecord]
  BY <1>1, <1>2, Lists DEF Pruned
<1>4. Pruned(L) \in SsLists
  BY <1>1, <1>2, <1>3, Lists, IsList
<1>5. DOMAIN Pruned(L) = Active(L) /\ \A i \in Active(L) : Pruned(L)[i] = L[i]
  BY DEF Pruned
<1>6. \A i \in Active(L) : Live(L, i)
  BY DEF Active, Live
<1>7. ASSUME NEW who \in SsPrincipal, NEW i \in Mine(Pruned(L), who)
      PROVE  i \in Mine(L, who)
  <2>1. i \in Active(L) /\ Pruned(L)[i].who = who
    BY <1>5 DEF Mine
  <2>2. i \in DOMAIN L /\ Live(L, i) /\ L[i].who = who
    BY <1>5, <1>6, <2>1 DEF Live
  <2> QED
    BY <2>2 DEF Mine
<1>8. Capped(Pruned(L))
  BY <1>1, <1>4, <1>7, CapOfFewer DEF Sound
<1> QED
  BY <1>2, <1>4, <1>5, <1>6, <1>8 DEF Sound

\* A record that is marked revoked is one.
LEMMA RevokedRecord ==
  ASSUME NEW r \in SsRecord
  PROVE  LET s == [r EXCEPT !.revoked = TRUE]
         IN  s \in SsRecord /\ s.revoked = TRUE
BY DEF SsRecord

\* Revoking only takes away.
LEMMA RevokedIsSound ==
  ASSUME NEW L, NEW hits, NEW ids, NEW used, NEW gone, Sound(L, ids, used, gone)
  PROVE  Sound(Revoked(L, hits), ids, used, gone)
<1>1. L \in SsLists
  BY DEF Sound
<1>2. /\ DOMAIN Revoked(L, hits) = DOMAIN L
      /\ \A i \in DOMAIN L :
           Revoked(L, hits)[i] = IF i \in hits THEN [L[i] EXCEPT !.revoked = TRUE] ELSE L[i]
  BY DEF Revoked
<1>3. \A i \in DOMAIN L : [L[i] EXCEPT !.revoked = TRUE] \in SsRecord
  BY <1>1, Lists, RevokedRecord
<1>4. Revoked(L, hits) \in [DOMAIN L -> SsRecord]
  BY <1>1, <1>3, Lists DEF Revoked
<1>5. Revoked(L, hits) \in SsLists
  BY <1>1, <1>4, Lists, IsList
<1>6. \A i \in DOMAIN L : ~Revoked(L, hits)[i].revoked => Revoked(L, hits)[i] = L[i]
  BY <1>1, <1>2, Lists, RevokedRecord
<1>7. \A who \in SsPrincipal : Mine(Revoked(L, hits), who) \subseteq Mine(L, who)
  BY <1>2, <1>6 DEF Mine, Live
<1>8. Capped(Revoked(L, hits))
  BY <1>1, <1>5, <1>7, CapOfFewer DEF Sound
<1> QED
  BY <1>2, <1>5, <1>6, <1>8 DEF Sound

\* A touch changes when a session was seen, to when it is used.
LEMMA TouchedIsSound ==
  ASSUME NEW L, NEW id \in DOMAIN L, NEW ids \in Nat,
         NEW used \in [SsId -> 0 .. SsMaxTime], NEW gone,
         Sound(L, ids, used, gone), Live(L, id), ssNow \in 0 .. SsMaxTime,
         \A i \in SsId : used[i] <= ssNow
  PROVE  Sound(Touched(L, id), ids, [used EXCEPT ![id] = ssNow], gone)
<1> DEFINE M == Touched(L, id)
           now == [used EXCEPT ![id] = ssNow]
<1>1. L \in SsLists /\ DOMAIN L \subseteq SsId
  BY Lists DEF Sound
<1>2. DOMAIN M = DOMAIN L
  BY DEF Touched
<1>3. \A i \in DOMAIN L \ {id} : M[i] = L[i]
  BY DEF Touched
<1>4. L[id] \in SsRecord
  BY <1>1, Lists
<1>5. M[id] = [L[id] EXCEPT !.seen = ssNow]
  BY DEF Touched
<1>6. M[id] \in SsRecord /\ M[id].who = L[id].who /\ M[id].seen = ssNow
      /\ M[id].revoked = L[id].revoked
  BY <1>4, <1>5 DEF SsRecord
<1>7. M \in [DOMAIN L -> SsRecord]
  <2>1. M = [i \in DOMAIN L |-> M[i]]
    BY DEF Touched
  <2> QED
    BY <1>1, <1>3, <1>6, <2>1, Lists
<1>8. M \in SsLists
  BY <1>1, <1>7, IsList
<1>9. \A who \in SsPrincipal : Mine(M, who) \subseteq Mine(L, who)
  BY <1>2, <1>3, <1>6 DEF Mine, Live
<1>10. Capped(M)
  BY <1>1, <1>8, <1>9, CapOfFewer DEF Sound
<1>11. ASSUME NEW i \in DOMAIN M, ~M[i].revoked
       PROVE  i \notin gone /\ M[i].seen <= now[i]
  <2>1. CASE i = id
    BY <1>1, <1>6, <2>1, SsBoundsAssumption DEF Sound, Live
  <2>2. CASE i # id
    BY <1>1, <1>2, <1>3, <1>11, <2>2 DEF Sound
  <2> QED
    BY <2>1, <2>2
<1> HIDE DEF M, now
<1>12. DOMAIN M \subseteq 1 .. ids
  BY <1>2 DEF Sound
<1>13. Sound(M, ids, now, gone)
  BY <1>8, <1>10, <1>11, <1>12 DEF Sound
<1> QED
  BY <1>13 DEF M, now

\* A login keeps to the cap, and its id is a new one.
LEMMA RegisteredIsSound ==
  ASSUME NEW L, NEW ids \in 0 .. SsMaxIds, ids < SsMaxIds,
         NEW used \in [SsId -> 0 .. SsMaxTime], NEW gone \in SUBSET (1 .. ids),
         NEW who \in SsPrincipal, NEW E \in Evictions(L, who),
         Sound(L, ids, used, gone), ssNow \in 0 .. SsMaxTime
  PROVE  Sound(Registered(L, E, ids + 1, who), ids + 1,
               [used EXCEPT ![ids + 1] = ssNow], gone)
<1> DEFINE id == ids + 1
           M == Registered(L, E, id, who)
           rec == [who |-> who, seen |-> ssNow, revoked |-> FALSE]
           now == [used EXCEPT ![id] = ssNow]
<1>1. /\ L \in SsLists /\ DOMAIN L \subseteq 1 .. ids
      /\ \A i \in DOMAIN L : L[i] \in SsRecord
  BY Lists DEF Sound
<1>2. id \in SsId /\ id \notin 1 .. ids /\ 1 .. ids \subseteq SsId /\ 1 .. ids \subseteq 1 .. id
  BY SsBoundsAssumption DEF SsId
<1>3. rec \in SsRecord
  BY DEF SsRecord
<1> HIDE DEF id
<1>4. /\ DOMAIN M = (DOMAIN L \ E) \cup {id}
      /\ M[id] = rec
      /\ \A i \in DOMAIN L \ E : M[i] = L[i]
  BY <1>1, <1>2 DEF Registered
<1>5. M \in [(DOMAIN L \ E) \cup {id} -> SsRecord]
  BY <1>1, <1>3, <1>4 DEF Registered
<1>6. M \in SsLists
  BY <1>1, <1>2, <1>5, IsList
<1>7. ASSUME NEW q \in SsPrincipal
      PROVE  Cardinality(Mine(M, q)) <= SsCap
  <2>1. CASE q = who
    <3> DEFINE left == {i \in DOMAIN L \ E : L[i].who = who}
    <3>1. IsFiniteSet(left) /\ Cardinality(left) < SsCap
      BY <1>1, EvictionMakesRoom
    <3>2. Mine(M, q) \subseteq left \cup {id}
      BY <1>4, <2>1 DEF Mine
    <3> HIDE DEF left
    <3>3. Cardinality(left) \in Nat
      BY <3>1, FS_CardinalityType
    <3>4. /\ IsFiniteSet(left \cup {id})
          /\ Cardinality(left \cup {id}) =
               IF id \in left THEN Cardinality(left) ELSE Cardinality(left) + 1
      BY <3>1, FS_AddElement
    <3>5. /\ IsFiniteSet(left \cup {id})
          /\ Cardinality(left \cup {id}) <= Cardinality(left) + 1
          /\ Cardinality(left) \in Nat
      BY <3>3, <3>4
    <3>6. /\ Cardinality(Mine(M, q)) <= Cardinality(left \cup {id})
          /\ IsFiniteSet(Mine(M, q))
      BY <3>2, <3>5, FS_Subset
    <3>7. Cardinality(Mine(M, q)) \in Nat /\ Cardinality(left \cup {id}) \in Nat
      BY <3>5, <3>6, FS_CardinalityType
    <3> QED
      BY <3>1, <3>5, <3>6, <3>7, SsCapAssumption
  <2>2. CASE q # who
    <3>1. Mine(M, q) \subseteq Mine(L, q)
      BY <1>3, <1>4, <2>2 DEF Mine, Live
    <3>2. IsFiniteSet(Mine(L, q))
      BY <1>1, Lists, FS_Subset DEF Mine
    <3>3. /\ Cardinality(Mine(M, q)) <= Cardinality(Mine(L, q))
          /\ IsFiniteSet(Mine(M, q))
      BY <3>1, <3>2, FS_Subset
    <3>4. Cardinality(Mine(L, q)) <= SsCap
      BY DEF Sound, Capped, Mine
    <3>5. Cardinality(Mine(M, q)) \in Nat /\ Cardinality(Mine(L, q)) \in Nat
      BY <3>2, <3>3, FS_CardinalityType
    <3> QED
      BY <3>3, <3>4, <3>5, SsCapAssumption
  <2> QED
    BY <2>1, <2>2
<1>8. Capped(M)
  BY <1>7 DEF Capped, Mine
<1>9. ASSUME NEW i \in DOMAIN M, ~M[i].revoked
      PROVE  i \notin gone /\ M[i].seen <= now[i]
  <2>1. CASE i = id
    <3>1. i \notin gone
      BY <1>2, <2>1
    <3>2. M[i].seen = ssNow /\ now[i] = ssNow
      BY <1>2, <1>4, <2>1
    <3> QED
      BY <3>1, <3>2, SsBoundsAssumption
  <2>2. CASE i # id
    BY <1>1, <1>2, <1>4, <1>9, <2>2 DEF Sound
  <2> QED
    BY <2>1, <2>2
<1>10. DOMAIN M \subseteq 1 .. id
  BY <1>1, <1>2, <1>4 DEF id
<1> HIDE DEF M, now
<1>11. Sound(M, id, now, gone)
  BY <1>6, <1>8, <1>9, <1>10 DEF Sound
<1> QED
  BY <1>11 DEF M, now, id
-----------------------------------------------------------------------------
\* A step leaves sound lists, of what was lost before it.
StepSound ==
  /\ SsShape'
  /\ ssIds <= ssIds'
  /\ Sound(ssFile', ssIds', ssUsed', ssGone)
  /\ \A p \in SsProc : Sound(ssMine'[p], ssIds', ssUsed', ssGone)

\* The steps that only change one list in a thread's hands.
LEMMA OneListChanges ==
  ASSUME SsInv, NEW p \in SsProc, NEW L,
         ssIds <= ssIds', ssIds' \in 0 .. SsMaxIds,
         ssUsed' \in [SsId -> 0 .. SsMaxTime],
         \A i \in 1 .. ssIds : ssUsed[i] <= ssUsed'[i],
         ssFile' = ssFile, ssMine' = [ssMine EXCEPT ![p] = L],
         Sound(L, ssIds', ssUsed', ssGone)
  PROVE  /\ Sound(ssFile', ssIds', ssUsed', ssGone)
         /\ ssMine' \in [SsProc -> SsLists]
         /\ \A q \in SsProc : Sound(ssMine'[q], ssIds', ssUsed', ssGone)
<1>1. ASSUME NEW M, Sound(M, ssIds, ssUsed, ssGone)
      PROVE  Sound(M, ssIds', ssUsed', ssGone)
  <2>1. \A i \in DOMAIN M : ssUsed[i] <= ssUsed'[i]
    BY <1>1 DEF Sound
  <2> QED
    BY <1>1, <2>1, SoundStays DEF SsInv, SsShape
<1>2. L \in SsLists
  BY DEF Sound
<1> QED
  BY <1>1, <1>2 DEF SsInv, SsShape

\* The lists stay and so does what they are measured by.
LEMMA ListsStay ==
  ASSUME SsInv, SsShape', ssFile' = ssFile, ssMine' = ssMine, ssIds' = ssIds,
         ssUsed' = ssUsed
  PROVE  StepSound
BY DEF SsInv, SsShape, StepSound

\* The operations of a request are operations.
LEMMA OperationsTyped ==
  ASSUME NEW c \in SsCookie, ssCookies \subseteq SsCookie, NEW r \in OperationsOf(c)
  PROVE  r \in Seq(SsOp)
<1>1. \A d \in SsCookie : d.id \in SsId /\ d.who \in SsPrincipal
  BY DEF SsCookie
<1>2. \A i \in SsId, w \in SsPrincipal :
        /\ Op("touch", i, w) \in SsOp /\ Op("find", i, w) \in SsOp
        /\ Op("revoke", i, w) \in SsOp
  BY DEF Op, SsOp
<1>3. \A i \in 0 .. SsMaxIds, w \in SsPrincipal : Op("all", i, w) \in SsOp
  BY DEF Op, SsOp
<1>4. c.id \in 0 .. SsMaxIds /\ 0 \in 0 .. SsMaxIds
  BY <1>1, SsBoundsAssumption DEF SsId
<1>5. CASE r \in {<<Op("touch", c.id, c.who)>>, <<Op("revoke", c.id, c.who)>>}
  <2>1. \A o \in SsOp : <<o>> \in Seq(SsOp)
    OBVIOUS
  <2> QED
    BY <1>1, <1>2, <1>5, <2>1
<1>6. CASE \E i \in {0, c.id} : r = <<Op("touch", c.id, c.who), Op("all", i, c.who)>>
  BY <1>1, <1>2, <1>3, <1>4, <1>6
<1>7. CASE \E d \in ssCookies :
             r = <<Op("touch", c.id, c.who), Op("find", d.id, c.who),
                   Op("revoke", d.id, c.who)>>
  BY <1>1, <1>2, <1>7
<1> QED
  BY <1>5, <1>6, <1>7 DEF OperationsOf

\* A request that arrives, and the steps of its operations, leave sound lists.
LEMMA AskStep ==
  ASSUME SsInv, NEW p \in SsProc, Ask(p)
  PROVE  StepSound
<1>1. PICK c \in ssCookies : \E r \in OperationsOf(c) : ssTodo' = [ssTodo EXCEPT ![p] = r]
  BY DEF Ask
<1>2. PICK r \in OperationsOf(c) : ssTodo' = [ssTodo EXCEPT ![p] = r]
  BY <1>1
<1>3. r \in Seq(SsOp)
  BY OperationsTyped DEF SsInv, SsShape
<1>4. SsShape'
  BY <1>2, <1>3 DEF SsInv, SsShape, Ask, SsIdle
<1> QED
  BY <1>4, ListsStay DEF Ask

\* register_session, up to the save.
LEMMA LoginStep ==
  ASSUME SsInv, NEW p \in SsProc, Login(p)
  PROVE  StepSound
<1>1. PICK who \in SsPrincipal :
        /\ ssTodo' = [ssTodo EXCEPT ![p] = <<Op("register", ssIds', who)>>]
        /\ \E E \in Evictions(Pruned(ssFile), who) :
             ToSave(p, Registered(Pruned(ssFile), E, ssIds', who))
  BY DEF Login
<1>2. PICK E \in Evictions(Pruned(ssFile), who) :
        ToSave(p, Registered(Pruned(ssFile), E, ssIds', who))
  BY <1>1
<1> DEFINE M == Registered(Pruned(ssFile), E, ssIds', who)
<1>3. /\ ssIds \in 0 .. SsMaxIds /\ ssIds < SsMaxIds /\ ssIds' = ssIds + 1
      /\ ssUsed' = [ssUsed EXCEPT ![ssIds + 1] = ssNow] /\ ssNow' = ssNow
      /\ ssUsed \in [SsId -> 0 .. SsMaxTime] /\ ssNow \in 0 .. SsMaxTime
      /\ ssGone \in SUBSET (1 .. ssIds)
  BY DEF Login, SsInv, SsShape
<1>4. Sound(Pruned(ssFile), ssIds, ssUsed, ssGone)
  BY PrunedIsSound DEF SsInv
<1>5. Sound(M, ssIds', ssUsed', ssGone)
  BY <1>3, <1>4, RegisteredIsSound
<1>6. ssIds' \in SsId /\ ssIds' \in 0 .. SsMaxIds /\ ssIds <= ssIds' /\ ssIds' \notin 1 .. ssIds
  BY <1>3, SsBoundsAssumption DEF SsId
<1>7. /\ ssUsed' \in [SsId -> 0 .. SsMaxTime]
      /\ \A i \in 1 .. ssIds : ssUsed[i] <= ssUsed'[i]
  <2>1. 1 .. ssIds \subseteq SsId
    BY <1>3, SsBoundsAssumption DEF SsId
  <2>2. \A i \in 1 .. ssIds : ssUsed'[i] = ssUsed[i] /\ ssUsed[i] \in 0 .. SsMaxTime
    BY <1>3, <1>6, <2>1
  <2>3. ssUsed' \in [SsId -> 0 .. SsMaxTime]
    BY <1>3
  <2>4. \A i \in 1 .. ssIds : ssUsed[i] <= ssUsed'[i]
    BY <2>2, SsBoundsAssumption
  <2> QED
    BY <2>3, <2>4
<1>8. ssMine' = [ssMine EXCEPT ![p] = M] /\ ssPhase' = [ssPhase EXCEPT ![p] = "open"]
  BY <1>2 DEF ToSave
<1> HIDE DEF M
<1>9. /\ Sound(ssFile', ssIds', ssUsed', ssGone)
      /\ ssMine' \in [SsProc -> SsLists]
      /\ \A q \in SsProc : Sound(ssMine'[q], ssIds', ssUsed', ssGone)
  BY <1>5, <1>6, <1>7, <1>8, OneListChanges DEF Login
<1>10. <<Op("register", ssIds', who)>> \in Seq(SsOp) /\ <<Op("register", ssIds', who)>> # <<>>
  <2>1. Op("register", ssIds', who) \in SsOp
    BY <1>6 DEF Op, SsOp
  <2> QED
    BY <2>1
<1>11. \A i \in SsId : ssUsed'[i] <= ssNow'
  BY <1>3 DEF SsInv, SsShape
<1>12. SsShape'
  BY <1>1, <1>6, <1>7, <1>8, <1>9, <1>10, <1>11 DEF SsInv, SsShape, Login
<1> QED
  BY <1>6, <1>9, <1>12 DEF StepSound

\* A request under way has a first operation.
LEMMA HeadOfWork ==
  ASSUME SsInv, NEW p \in SsProc, ssTodo[p] # <<>>
  PROVE  Head(ssTodo[p]) \in SsOp /\ Tail(ssTodo[p]) \in Seq(SsOp)
<1>1. ssTodo[p] \in Seq(SsOp)
  BY DEF SsInv, SsShape
<1> QED
  BY <1>1

\* An operation gives up before it saves.
LEMMA WorkEnds ==
  ASSUME SsInv, NEW p \in SsProc, NEW r \in Seq(SsOp), ssPhase[p] = "load",
         ssTodo' = [ssTodo EXCEPT ![p] = r],
         UNCHANGED <<ssFile, ssWritten, ssPhase, ssMine, ssIds, ssCookies, ssNow,
                     ssUsed>>
  PROVE  StepSound
<1>1. SsShape'
  BY DEF SsInv, SsShape
<1> QED
  BY <1>1, ListsStay

\* touch_session, up to the save or the 401.
LEMMA TouchStep ==
  ASSUME SsInv, NEW p \in SsProc, Touch(p)
  PROVE  StepSound
<1> DEFINE id == Head(ssTodo[p]).id
           M == Touched(Pruned(ssFile), id)
<1>1. ssTodo[p] # <<>> /\ ssPhase[p] = "load"
  BY DEF Touch, AtLoad, SsIdle
<1>2. CASE id \notin Active(ssFile)
  <2>1. <<>> \in Seq(SsOp)
    OBVIOUS
  <2> QED
    BY <1>1, <1>2, <2>1, WorkEnds DEF Touch
<1>3. CASE id \in Active(ssFile)
  <2>1. /\ Sound(Pruned(ssFile), ssIds, ssUsed, ssGone)
        /\ id \in DOMAIN Pruned(ssFile) /\ Live(Pruned(ssFile), id)
    <3>1. Sound(ssFile, ssIds, ssUsed, ssGone)
      BY DEF SsInv
    <3>2. /\ Sound(Pruned(ssFile), ssIds, ssUsed, ssGone)
          /\ DOMAIN Pruned(ssFile) = Active(ssFile)
          /\ \A i \in Active(ssFile) : Pruned(ssFile)[i] = ssFile[i] /\ Live(ssFile, i)
      BY <3>1, PrunedIsSound
    <3> QED
      BY <1>3, <3>2 DEF Live
  <2>2. ssUsed' = [ssUsed EXCEPT ![id] = ssNow] /\ ToSave(p, M) /\ ssTodo' = ssTodo
    BY <1>3 DEF Touch
  <2>3. /\ ssUsed \in [SsId -> 0 .. SsMaxTime] /\ ssNow \in 0 .. SsMaxTime
        /\ \A i \in SsId : ssUsed[i] <= ssNow
        /\ ssIds \in 0 .. SsMaxIds /\ ssIds' = ssIds
    BY DEF Touch, SsInv, SsShape
  <2>4. Sound(M, ssIds', ssUsed', ssGone)
    <3>1. ssIds \in Nat
      BY <2>3, SsBoundsAssumption
    <3> HIDE DEF id
    <3>2. Sound(Touched(Pruned(ssFile), id), ssIds, [ssUsed EXCEPT ![id] = ssNow], ssGone)
      BY <2>1, <2>3, <3>1, TouchedIsSound
    <3> QED
      BY <2>2, <2>3, <3>2
  <2>5. /\ ssUsed' \in [SsId -> 0 .. SsMaxTime]
        /\ \A i \in SsId : ssUsed[i] <= ssUsed'[i] /\ ssUsed'[i] <= ssNow
    <3>1. \A i \in SsId : ssUsed'[i] = IF i = id THEN ssNow ELSE ssUsed[i]
      BY <2>2, <2>3
    <3>2. \A i \in SsId : ssUsed[i] \in 0 .. SsMaxTime
      BY <2>3
    <3> QED
      <4>1. ssUsed' \in [SsId -> 0 .. SsMaxTime]
        BY <2>2, <2>3
      <4>2. \A i \in SsId : ssUsed[i] <= ssUsed'[i] /\ ssUsed'[i] <= ssNow
        BY <2>3, <3>1, <3>2, SsBoundsAssumption
      <4> QED
        BY <4>1, <4>2
  <2>6. \A i \in 1 .. ssIds : ssUsed[i] <= ssUsed'[i]
    BY <2>3, <2>5, SsBoundsAssumption DEF SsId
  <2>7. ssMine' = [ssMine EXCEPT ![p] = M] /\ ssPhase' = [ssPhase EXCEPT ![p] = "open"]
    BY <2>2 DEF ToSave
  <2> HIDE DEF M
  <2>8. /\ Sound(ssFile', ssIds', ssUsed', ssGone)
        /\ ssMine' \in [SsProc -> SsLists]
        /\ \A q \in SsProc : Sound(ssMine'[q], ssIds', ssUsed', ssGone)
    <3> HIDE DEF id
    <3>1. ssFile' = ssFile /\ ssIds <= ssIds' /\ ssIds' \in 0 .. SsMaxIds
      BY <2>3, SsBoundsAssumption DEF Touch
    <3> QED
      BY <2>4, <2>5, <2>6, <2>7, <3>1, OneListChanges
  <2>9. SsShape'
    BY <1>1, <2>2, <2>3, <2>5, <2>7, <2>8 DEF SsInv, SsShape, Touch
  <2> QED
    BY <2>3, <2>8, <2>9 DEF StepSound
<1> QED
  BY <1>2, <1>3

\* The search of revoke_session_by_hash.
LEMMA FindStep ==
  ASSUME SsInv, NEW p \in SsProc, Find(p)
  PROVE  StepSound
<1> DEFINE o == Head(ssTodo[p])
           r == IF o.id \in Active(ssFile) /\ ssFile[o.id].who = o.who
                  THEN Tail(ssTodo[p]) ELSE <<>>
<1>1. ssTodo[p] # <<>> /\ ssPhase[p] = "load"
  BY DEF Find, AtLoad, SsIdle
<1>2. r \in Seq(SsOp)
  BY <1>1, HeadOfWork
<1>3. ssTodo' = [ssTodo EXCEPT ![p] = r]
  BY DEF Find
<1> QED
  BY <1>1, <1>2, <1>3, WorkEnds DEF Find

\* revoke_session and revoke_all_sessions_for_principal, up to the save.
LEMMA RevokeStep ==
  ASSUME SsInv, NEW p \in SsProc, Revoke(p)
  PROVE  StepSound
<1> DEFINE hits == Hits(ssFile, Head(ssTodo[p]))
           M == Revoked(ssFile, hits)
<1>1. ssTodo[p] # <<>> /\ ssPhase[p] = "load"
  BY DEF Revoke, AtLoad, SsIdle
<1>2. CASE hits = {}
  <2>1. <<>> \in Seq(SsOp)
    OBVIOUS
  <2> QED
    BY <1>1, <1>2, <2>1, WorkEnds DEF Revoke
<1>3. CASE hits # {}
  <2>1. ToSave(p, M) /\ ssTodo' = ssTodo
    BY <1>3 DEF Revoke
  <2>2. Sound(M, ssIds, ssUsed, ssGone)
    BY RevokedIsSound DEF SsInv
  <2>3. /\ ssUsed \in [SsId -> 0 .. SsMaxTime] /\ ssIds \in 0 .. SsMaxIds
        /\ ssUsed' = ssUsed /\ ssIds' = ssIds /\ ssIds <= ssIds
        /\ \A i \in 1 .. ssIds : ssUsed[i] <= ssUsed[i]
    <3>1. \A i \in 1 .. ssIds : i \in SsId
      BY SsBoundsAssumption DEF SsInv, SsShape, SsId
    <3> QED
      BY <3>1 DEF SsInv, SsShape, Revoke
  <2>4. ssMine' = [ssMine EXCEPT ![p] = M] /\ ssPhase' = [ssPhase EXCEPT ![p] = "open"]
    BY <2>1 DEF ToSave
  <2> HIDE DEF M
  <2>5. /\ Sound(ssFile', ssIds', ssUsed', ssGone)
        /\ ssMine' \in [SsProc -> SsLists]
        /\ \A q \in SsProc : Sound(ssMine'[q], ssIds', ssUsed', ssGone)
    BY <2>2, <2>3, <2>4, OneListChanges DEF Revoke
  <2>6. SsShape'
    BY <1>1, <2>1, <2>4, <2>5 DEF SsInv, SsShape, Revoke
  <2> QED
    BY <2>3, <2>5, <2>6 DEF StepSound
<1> QED
  BY <1>2, <1>3

\* _save_sessions opens the file: an empty one is sound.
LEMMA TruncateStep ==
  ASSUME SsInv, NEW p \in SsProc, Truncate(p)
  PROVE  StepSound
<1>1. ssIds \in Nat
  BY SsBoundsAssumption DEF SsInv, SsShape
<1>2. Sound(NoSessions, ssIds, ssUsed, ssGone)
  BY <1>1, NothingIsSound
<1>3. NoSessions \in SsLists
  BY <1>2 DEF Sound
<1>4. SsShape'
  BY <1>3 DEF SsInv, SsShape, Truncate
<1> QED
  BY <1>1, <1>2, <1>4 DEF SsInv, StepSound, Truncate

\* A thread puts its list down, on the file or not.
LEMMA PutDown ==
  ASSUME SsInv, NEW p \in SsProc, ssMine' = [ssMine EXCEPT ![p] = NoSessions],
         ssPhase' = [ssPhase EXCEPT ![p] = "load"],
         NEW r \in Seq(SsOp), ssTodo' = [ssTodo EXCEPT ![p] = r],
         ssFile' \in {ssFile, ssMine[p], NoSessions}, ssWritten' \in BOOLEAN,
         ssCookies' \subseteq SsCookie, UNCHANGED <<ssIds, ssNow, ssUsed>>
  PROVE  StepSound
<1>1. ssIds \in Nat
  BY SsBoundsAssumption DEF SsInv, SsShape
<1>2. Sound(NoSessions, ssIds, ssUsed, ssGone)
  BY <1>1, NothingIsSound
<1>3. NoSessions \in SsLists
  BY <1>2 DEF Sound
<1>4. Sound(ssFile', ssIds', ssUsed', ssGone) /\ ssFile' \in SsLists
  BY <1>2, <1>3 DEF SsInv, SsShape
<1>5. \A q \in SsProc : ssMine'[q] = IF q = p THEN NoSessions ELSE ssMine[q]
  BY DEF SsInv, SsShape
<1>6. \A q \in SsProc : Sound(ssMine'[q], ssIds', ssUsed', ssGone)
  BY <1>2, <1>5 DEF SsInv
<1>7. SsShape'
  BY <1>3, <1>4, <1>5 DEF SsInv, SsShape
<1> QED
  BY <1>1, <1>4, <1>6, <1>7 DEF StepSound

\* _save_sessions writes: what was in hand is sound.
LEMMA SaveStep ==
  ASSUME SsInv, NEW p \in SsProc, Save(p)
  PROVE  StepSound
<1>1. ssTodo[p] # <<>>
  BY DEF SsInv, SsShape, Save
<1>2. Head(ssTodo[p]) \in SsOp /\ Tail(ssTodo[p]) \in Seq(SsOp)
  BY <1>1, HeadOfWork
<1> DEFINE o == Head(ssTodo[p])
<1>3. o.op = "register" => [id |-> o.id, who |-> o.who] \in SsCookie
  BY <1>2 DEF SsOp, SsCookie
<1>4. ssCookies' \subseteq SsCookie
  BY <1>3 DEF Save, SsInv, SsShape
<1>5. ssTodo' = [ssTodo EXCEPT ![p] = Tail(ssTodo[p])]
  BY DEF Save
<1>6. ssFile' \in {ssFile, ssMine[p], NoSessions}
  BY DEF Save
<1> QED
  BY <1>2, <1>4, <1>5, <1>6, PutDown DEF Save

\* A worker is killed: the file is as it was.
LEMMA DieStep ==
  ASSUME SsInv, NEW p \in SsProc, Die(p)
  PROVE  StepSound
<1>1. <<>> \in Seq(SsOp)
  OBVIOUS
<1>2. ssCookies' \subseteq SsCookie /\ ssWritten' \in BOOLEAN
  BY DEF Die, SsInv, SsShape
<1> QED
  BY <1>1, <1>2, PutDown DEF Die

\* Time goes on: no use is later than now.
LEMMA TickStep ==
  ASSUME SsInv, SsTick
  PROVE  StepSound
<1>1. ssNow' \in 0 .. SsMaxTime
  BY SsBoundsAssumption DEF SsInv, SsShape, SsTick
<1>2. \A i \in SsId : ssUsed'[i] <= ssNow'
  <2>1. \A i \in SsId : ssUsed[i] \in 0 .. SsMaxTime /\ ssUsed[i] <= ssNow
    BY DEF SsInv, SsShape
  <2>2. ssNow \in 0 .. SsMaxTime
    BY DEF SsInv, SsShape
  <2> QED
    BY <2>1, <2>2, SsBoundsAssumption DEF SsTick
<1>3. SsShape'
  BY <1>1, <1>2 DEF SsInv, SsShape, SsTick
<1> QED
  BY <1>3, ListsStay DEF SsTick

\* What the history then adds is live in no list: nobody has one in its hands.
LEMMA Settling ==
  ASSUME SsInv, StepSound, SsSettled
  PROVE  SsInv'
<1> DEFINE more == IF \A p \in SsProc : ssPhase'[p] = "load"
                     THEN {i \in 1 .. ssIds' : ~Live(ssFile', i)} ELSE {}
<1>1. ssGone' = ssGone \cup more
  BY DEF SsSettled
<1>2. \A i \in more : ~Live(ssFile', i)
  OBVIOUS
<1>3. \A p \in SsProc : \A i \in more : ~Live(ssMine'[p], i)
  <2>1. \A p \in SsProc : more # {} => ssMine'[p] = NoSessions
    BY DEF StepSound, SsShape
  <2> QED
    BY <2>1 DEF Live, NoSessions
<1>4. more \subseteq 1 .. ssIds'
  OBVIOUS
<1>5. ssIds \in 0 .. SsMaxIds /\ ssIds' \in 0 .. SsMaxIds /\ ssIds <= ssIds'
      /\ ssUsed' \in [SsId -> 0 .. SsMaxTime]
  BY DEF StepSound, SsInv, SsShape
<1> HIDE DEF more
<1>6. ssGone' \subseteq 1 .. ssIds'
  <2>1. 1 .. ssIds \subseteq 1 .. ssIds'
    BY <1>5, SsBoundsAssumption
  <2> QED
    BY <1>1, <1>4, <2>1 DEF SsInv
<1>7. ASSUME NEW L, Sound(L, ssIds', ssUsed', ssGone), \A i \in more : ~Live(L, i)
      PROVE  Sound(L, ssIds', ssUsed', ssGone')
  BY <1>1, <1>7 DEF Sound, Live
<1>8. /\ Sound(ssFile', ssIds', ssUsed', ssGone')
      /\ \A p \in SsProc : Sound(ssMine'[p], ssIds', ssUsed', ssGone')
  BY <1>2, <1>3, <1>7 DEF StepSound
<1> QED
  BY <1>6, <1>8 DEF StepSound, SsInv

\* SsInv holds: every list that is or will be in the file is sound.
THEOREM ListsAreSound == SsSpec => []SsInv
<1>1. SsInit => SsInv
  <2> SUFFICES ASSUME SsInit PROVE SsInv
    OBVIOUS
  <2>1. Sound(NoSessions, 0, ssUsed, {})
    BY NothingIsSound
  <2>2. NoSessions \in SsLists
    BY <2>1 DEF Sound
  <2>3. SsShape
    BY <2>2, SsBoundsAssumption DEF SsInit, SsShape
  <2> QED
    BY <2>1, <2>3 DEF SsInit, SsInv
<1>2. SsInv /\ [SsNext]_ssVars => SsInv'
  <2> SUFFICES ASSUME SsInv, [SsNext]_ssVars PROVE SsInv'
    OBVIOUS
  <2>1. CASE UNCHANGED ssVars
    BY <2>1 DEF ssVars, SsInv, SsShape
  <2>2. CASE SsNext
    <3>1. ASSUME NEW p \in SsProc, SsStep(p)
          PROVE  StepSound
      BY <3>1, AskStep, LoginStep, TouchStep, FindStep, RevokeStep, TruncateStep,
         SaveStep, DieStep DEF SsStep
    <3>2. StepSound
      BY <2>2, <3>1, TickStep DEF SsNext
    <3> QED
      BY <2>2, <3>2, Settling DEF SsNext
  <2> QED
    BY <2>1, <2>2
<1> QED
  BY <1>1, <1>2, PTL DEF SsSpec

\* The file and the requests have their types, register_session to logout_all.
THEOREM SessionTypes == SsSpec => []SsTypeOK
<1>1. SsInv => SsTypeOK
  <2> SUFFICES ASSUME SsInv PROVE SsTypeOK
    OBVIOUS
  <2>1. 1 .. ssIds \subseteq SsId
    BY SsBoundsAssumption DEF SsInv, SsShape, SsId
  <2> QED
    BY <2>1 DEF SsInv, SsShape, SsTypeOK
<1> QED
  BY <1>1, ListsAreSound, PTL

\* No principal has more sessions than register_session allows, whatever logins,
\* touches and revocations overwrite each other.
THEOREM CapIsKept == SsSpec => []CapHolds
<1>1. SsInv => CapHolds
  BY DEF SsInv, Sound, CapHolds
<1> QED
  BY <1>1, ListsAreSound, PTL

\* A session that was not live while nobody was saving is never live again, and
\* no list brings back a later use than the session had.
THEOREM EndedForGood == SsSpec => []EndedStaysEnded
<1>1. SsInv => EndedStaysEnded
  BY DEF SsInv, Sound, EndedStaysEnded
<1> QED
  BY <1>1, ListsAreSound, PTL
=============================================================================

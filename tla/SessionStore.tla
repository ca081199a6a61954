----------------------------- MODULE SessionStore -----------------------------
(***************************************************************************)
(* The sessions of the dashboard, backend/session_management.py, and the   *)
(* requests that use them (identity.py, routers/auth.py).  All of them are *)
(* in one file that each operation reads, changes and rewrites in place    *)
(* without a lock, while requests run in the threads of several workers.   *)
(***************************************************************************)
EXTENDS Naturals, Sequences, FiniteSets

CONSTANTS
  SsProc,       \* threads that serve requests, of any worker
  SsPrincipal,
  SsCap,        \* _MAX_SESSIONS_PER_PRINCIPAL
  SsTTL,        \* _SESSION_TTL_SECONDS, in ticks
  SsMaxIds,     \* bound: logins
  SsMaxTime     \* bound: ticks

ASSUME SsCapAssumption == SsCap \in Nat \ {0}
ASSUME SsTTLAssumption == SsTTL \in Nat
ASSUME SsBoundsAssumption == SsMaxIds \in Nat /\ SsMaxTime \in Nat

VARIABLES
  ssFile,       \* what _load_sessions returns: the records by session id
  ssWritten,    \* a text is in the file: it is not just truncated
  ssTodo,       \* the operations a request has still to do
  ssPhase,      \* load, open or write: the next step of the first of them
  ssMine,       \* the records it is about to save
  ssIds,        \* ids generated so far, in the order of created_at
  ssCookies,    \* the signed cookies the browsers were given
  ssNow,
  ssUsed,       \* history: when a session was last used
  ssGone        \* history: ids that were not live while nobody was saving

ssVars == <<ssFile, ssWritten, ssTodo, ssPhase, ssMine, ssIds, ssCookies,
            ssNow, ssUsed, ssGone>>

SsId == 1 .. SsMaxIds
SsRecord == [who : SsPrincipal, seen : 0 .. SsMaxTime, revoked : BOOLEAN]
SsLists == UNION {[S -> SsRecord] : S \in SUBSET SsId}
SsCookie == [id : SsId, who : SsPrincipal]
SsOp ==
  [op : {"touch", "find", "revoke", "register"}, id : SsId, who : SsPrincipal]
  \cup [op : {"all"}, id : 0 .. SsMaxIds, who : SsPrincipal]

\* What a missing, empty or unreadable file is read as.
NoSessions == [i \in {} |-> 0]
Op(op, id, who) == [op |-> op, id |-> id, who |-> who]

\* The ids that _prune_expired_sessions keeps, and what it returns.
Active(L) ==
  {i \in DOMAIN L : ~L[i].revoked /\ L[i].seen + SsTTL > ssNow}
Pruned(L) == [i \in Active(L) |-> L[i]]

\* Wrong: lets in one more.
EvictionsLate(L, who) ==
  LET own == {i \in DOMAIN L : L[i].who = who}
  IN  {E \in SUBSET own :
         /\ Cardinality(E) = IF Cardinality(own) > SsCap THEN 1 ELSE 0
         /\ \A i \in E, j \in own \ E : i < j}

\* What a login of who evicts so that its own session fits in: the oldest ones.
Evictions(L, who) ==
  LET own == {i \in DOMAIN L : L[i].who = who}
      count == Cardinality(own)
  IN  {E \in SUBSET own :
         /\ Cardinality(E) = IF count >= SsCap THEN count - SsCap + 1 ELSE 0
         /\ \A i \in E, j \in own \ E : i < j}

Registered(L, E, id, who) ==
  [i \in (DOMAIN L \ E) \cup {id} |->
     IF i = id THEN [who |-> who, seen |-> ssNow, revoked |-> FALSE]
               ELSE L[i]]

Touched(L, id) == [L EXCEPT ![id].seen = ssNow]

Hits(L, o) ==
  {i \in DOMAIN L :
     /\ ~L[i].revoked
     /\ IF o.op = "revoke" THEN i = o.id ELSE L[i].who = o.who /\ i # o.id}
Revoked(L, ids) ==
  [i \in DOMAIN L |-> IF i \in ids THEN [L[i] EXCEPT !.revoked = TRUE] ELSE L[i]]
-----------------------------------------------------------------------------
SsInit ==
  /\ ssFile = NoSessions /\ ssWritten = TRUE
  /\ ssTodo = [p \in SsProc |-> <<>>]
  /\ ssPhase = [p \in SsProc |-> "load"]
  /\ ssMine = [p \in SsProc |-> NoSessions]
  /\ ssIds = 0 /\ ssCookies = {} /\ ssNow = 0
  /\ ssUsed = [i \in SsId |-> 0] /\ ssGone = {}

SsIdle(p) == ssTodo[p] = <<>>

\* What the operations of a request with cookie c are: require_principal
\* touches the session, then the handler runs; a logout only revokes.
OperationsOf(c) ==
  LET touch == Op("touch", c.id, c.who)
  IN  {<<touch>>, <<Op("revoke", c.id, c.who)>>}
      \cup {<<touch, Op("all", i, c.who)>> : i \in {0, c.id}}
      \cup {<<touch, Op("find", d.id, c.who), Op("revoke", d.id, c.who)>> :
              d \in ssCookies}

Ask(p) ==
  /\ SsIdle(p)
  /\ \E c \in ssCookies : \E r \in OperationsOf(c) : ssTodo' = [ssTodo EXCEPT ![p] = r]
  /\ UNCHANGED <<ssFile, ssWritten, ssPhase, ssMine, ssIds, ssCookies, ssNow,
                 ssUsed>>

\* p is about to save L.
ToSave(p, L) ==
  /\ ssMine' = [ssMine EXCEPT ![p] = L]
  /\ ssPhase' = [ssPhase EXCEPT ![p] = "open"]

\* register_session up to the save.
Login(p) ==
  /\ SsIdle(p) /\ ssIds < SsMaxIds
  /\ ssIds' = ssIds + 1
  /\ \E who \in SsPrincipal :
       /\ ssTodo' = [ssTodo EXCEPT ![p] = <<Op("register", ssIds', who)>>]
       /\ \E E \in Evictions(Pruned(ssFile), who) :
            ToSave(p, Registered(Pruned(ssFile), E, ssIds', who))
  /\ ssUsed' = [ssUsed EXCEPT ![ssIds'] = ssNow]
  /\ UNCHANGED <<ssFile, ssWritten, ssCookies, ssNow>>

AtLoad(p) == ~SsIdle(p) /\ ssPhase[p] = "load"

\* Wrong: the session is registered anew when the list lacks it.
TouchAnyway(p) ==
  /\ AtLoad(p) /\ Head(ssTodo[p]).op = "touch"
  /\ LET o == Head(ssTodo[p])
     IN  /\ \E E \in Evictions(Pruned(ssFile), o.who) :
              ToSave(p, Registered(Pruned(ssFile), E, o.id, o.who))
         /\ ssUsed' = [ssUsed EXCEPT ![o.id] = ssNow]
  /\ UNCHANGED <<ssTodo, ssFile, ssWritten, ssIds, ssCookies, ssNow>>

\* touch_session up to the save; without the session the request gets a 401.
Touch(p) ==
  /\ AtLoad(p) /\ Head(ssTodo[p]).op = "touch"
  /\ LET id == Head(ssTodo[p]).id
     IN  IF id \in Active(ssFile)
           THEN /\ ToSave(p, Touched(Pruned(ssFile), id))
                /\ ssUsed' = [ssUsed EXCEPT ![id] = ssNow]
                /\ UNCHANGED ssTodo
           ELSE /\ ssTodo' = [ssTodo EXCEPT ![p] = <<>>]
                /\ UNCHANGED <<ssMine, ssPhase, ssUsed>>
  /\ UNCHANGED <<ssFile, ssWritten, ssIds, ssCookies, ssNow>>

\* revoke_session_by_hash looks for the session among those it lists.
Find(p) ==
  /\ AtLoad(p) /\ Head(ssTodo[p]).op = "find"
  /\ LET o == Head(ssTodo[p])
     IN  ssTodo' = [ssTodo EXCEPT ![p] =
           IF o.id \in Active(ssFile) /\ ssFile[o.id].who = o.who
             THEN Tail(@) ELSE <<>>]
  /\ UNCHANGED <<ssFile, ssWritten, ssPhase, ssMine, ssIds, ssCookies, ssNow,
                 ssUsed>>

\* revoke_session and revoke_all_sessions_for_principal up to the save.
Revoke(p) ==
  /\ AtLoad(p) /\ Head(ssTodo[p]).op \in {"revoke", "all"}
  /\ LET hits == Hits(ssFile, Head(ssTodo[p]))
     IN  IF hits # {}
           THEN ToSave(p, Revoked(ssFile, hits)) /\ UNCHANGED ssTodo
           ELSE /\ ssTodo' = [ssTodo EXCEPT ![p] = <<>>]
                /\ UNCHANGED <<ssMine, ssPhase>>
  /\ UNCHANGED <<ssFile, ssWritten, ssIds, ssCookies, ssNow, ssUsed>>

\* path.write_text opens the file, which empties it: it reads as no sessions.
Truncate(p) ==
  /\ ssPhase[p] = "open"
  /\ ssFile' = NoSessions /\ ssWritten' = FALSE
  /\ ssPhase' = [ssPhase EXCEPT ![p] = "write"]
  /\ UNCHANGED <<ssTodo, ssMine, ssIds, ssCookies, ssNow, ssUsed>>

\* ... and writes the text.  Over the text of another save that came between, a
\* shorter one leaves a tail: the file does not parse and reads as no sessions.
\* A login hands out its cookie.
Save(p) ==
  /\ ssPhase[p] = "write"
  /\ ssFile' \in {ssMine[p]} \cup (IF ssWritten THEN {NoSessions} ELSE {})
  /\ ssWritten' = TRUE
  /\ ssMine' = [ssMine EXCEPT ![p] = NoSessions]
  /\ ssPhase' = [ssPhase EXCEPT ![p] = "load"]
  /\ ssTodo' = [ssTodo EXCEPT ![p] = Tail(@)]
  /\ LET o == Head(ssTodo[p])
     IN  ssCookies' = ssCookies \cup
           IF o.op = "register" THEN {[id |-> o.id, who |-> o.who]} ELSE {}
  /\ UNCHANGED <<ssIds, ssNow, ssUsed>>

\* The thread of p is killed with its worker; what it had truncated stays empty.
Die(p) ==
  /\ ~SsIdle(p)
  /\ ssTodo' = [ssTodo EXCEPT ![p] = <<>>]
  /\ ssPhase' = [ssPhase EXCEPT ![p] = "load"]
  /\ ssMine' = [ssMine EXCEPT ![p] = NoSessions]
  /\ UNCHANGED <<ssFile, ssWritten, ssIds, ssCookies, ssNow, ssUsed>>

SsTick ==
  /\ ssNow < SsMaxTime
  /\ ssNow' = ssNow + 1
  /\ UNCHANGED <<ssFile, ssWritten, ssTodo, ssPhase, ssMine, ssIds, ssCookies,
                 ssUsed>>

SsStep(p) ==
  \/ Ask(p) \/ Login(p) \/ Touch(p) \/ Find(p) \/ Revoke(p)
  \/ Truncate(p) \/ Save(p) \/ Die(p)

Live(L, i) == i \in DOMAIN L /\ ~L[i].revoked

\* The history: nobody has records to save, so what is not live is so for good.
SsSettled ==
  ssGone' = ssGone \cup
    IF \A p \in SsProc : ssPhase'[p] = "load"
      THEN {i \in 1 .. ssIds' : ~Live(ssFile', i)} ELSE {}

SsNext == ((\E p \in SsProc : SsStep(p)) \/ SsTick) /\ SsSettled

SsSpec == SsInit /\ [][SsNext]_ssVars
-----------------------------------------------------------------------------
\* The shape of the file, of the requests and of what they are about to save.
SsTypeOK ==
  /\ ssFile \in SsLists /\ ssWritten \in BOOLEAN
  /\ ssTodo \in [SsProc -> Seq(SsOp)]
  /\ ssPhase \in [SsProc -> {"load", "open", "write"}]
  /\ ssMine \in [SsProc -> SsLists]
  /\ ssIds \in 0 .. SsMaxIds /\ ssCookies \subseteq SsCookie
  /\ ssNow \in 0 .. SsMaxTime
  /\ ssUsed \in [SsId -> 0 .. SsMaxTime] /\ ssGone \subseteq SsId

Capped(L) ==
  \A who \in SsPrincipal :
    Cardinality({i \in DOMAIN L : Live(L, i) /\ L[i].who = who}) <= SsCap

\* register_session keeps a principal to the cap, also when logins, touches and
\* revocations that have loaded different lists save them in any order.
CapHolds == Capped(ssFile)

\* A session that is revoked, evicted, expired or lost, and that nobody who is about
\* to save still has, never comes back, and no stale list lets a session live
\* longer than from its last use.  (A thread that loaded the list before the
\* revocation and saves it after does bring it back: nothing orders the two.)
EndedStaysEnded ==
  \A i \in DOMAIN ssFile :
    ~ssFile[i].revoked => i \notin ssGone /\ ssFile[i].seen <= ssUsed[i]
=============================================================================

----------------------------- MODULE Credentials -----------------------------
(*****************************************************************************)
(* The two pages that keep the keys of the providers: the tab of the wide    *)
(* screen and the page of the phone. They share no state.                    *)
(*****************************************************************************)
EXTENDS Naturals, Sequences

(***************************************************************************)
(* The credentials tab, hosted by its own page or by the legacy shell.     *)
(* The legacy shell locks it on a phone: a minute after it was unlocked,   *)
(* and when the page is hidden.                                            *)
(***************************************************************************)

CONSTANTS
    CtProbe, CtNone,     \* providers that take a key, and none
    CtFlights            \* bound: requests in flight of one kind

ASSUME CtAssumption == CtFlights \in Nat \ {0}

VARIABLES
    ctHost,              \* "page" or "legacy"
    ctMobile,            \* the legacy shell runs on a phone
    ctHeld, ctLoading, ctFlight, ctError,
    ctUnlocked, ctTimer, ctHidden,
    ctAsserts,           \* assertions under way
    ctConfirm,           \* the provider of the confirmation sheet
    ctPrompt,            \* the provider whose key is being asked for
    ctPosts,             \* keys being saved
    ctPressed            \* the provider whose key change was last confirmed

ctListVars == <<ctHeld, ctLoading, ctFlight, ctError>>
ctLockVars == <<ctUnlocked, ctTimer, ctHidden, ctAsserts, ctConfirm>>
ctVars == <<ctHost, ctMobile, ctListVars, ctLockVars, ctPrompt, ctPosts,
            ctPressed>>
------------------------------------------------------------------------------
CtTypeOK ==
    /\ ctHost \in {"page", "legacy"} /\ ctMobile => ctHost = "legacy"
    /\ ctHeld \subseteq CtProbe
    /\ {ctLoading, ctError, ctUnlocked, ctTimer, ctHidden, ctMobile}
         \subseteq BOOLEAN
    /\ {ctFlight, ctAsserts, ctPosts} \subseteq 0..CtFlights
    /\ {ctConfirm, ctPrompt, ctPressed} \subseteq CtProbe \cup {CtNone}

CtInit ==
    /\ ctHost \in {"page", "legacy"} /\ ctMobile \in BOOLEAN
    /\ ctMobile => ctHost = "legacy"
    /\ ctHeld = {} /\ ctLoading = TRUE /\ ctFlight = 1 /\ ctError = FALSE
    /\ ctUnlocked = FALSE /\ ctTimer = FALSE /\ ctHidden = FALSE
    /\ ctAsserts = 0 /\ ctConfirm = CtNone /\ ctPrompt = CtNone
    /\ ctPosts = 0 /\ ctPressed = CtNone

CtShown == ~ctMobile \/ ctUnlocked
CtModal == ctPrompt # CtNone     \* window.prompt stops the page

CtAsk == /\ ctFlight < CtFlights /\ ctFlight' = ctFlight + 1
         /\ ctLoading' = TRUE
         /\ ctError' = IF ctHost = "page" THEN FALSE ELSE ctError
CtRefresh ==
    /\ CtShown /\ ~ctLoading /\ ~CtModal /\ CtAsk
    /\ UNCHANGED <<ctHost, ctMobile, ctHeld, ctLockVars, ctPrompt, ctPosts,
                   ctPressed>>

\* The legacy shell takes a refusal in JSON for an empty list.
CtAnswer == \E kind \in {"list", "refused", "failed"}, list \in SUBSET CtProbe :
    /\ ctFlight > 0 /\ ~CtModal /\ ctFlight' = ctFlight - 1
    /\ ctLoading' = FALSE
    /\ LET taken == kind = "list" \/ (kind = "refused" /\ ctHost = "legacy")
       IN /\ ctHeld' = IF ~taken THEN ctHeld
                       ELSE IF kind = "list" THEN list ELSE {}
          /\ ctError' = IF ~taken THEN TRUE
                        ELSE IF ctHost = "legacy" THEN FALSE ELSE ctError
    /\ UNCHANGED <<ctHost, ctMobile, ctLockVars, ctPrompt, ctPosts, ctPressed>>

\* The lock: the button asks for an assertion each time it is pressed.
CtUnlock ==
    /\ ctMobile /\ ~ctUnlocked
    /\ ctAsserts < CtFlights /\ ctAsserts' = ctAsserts + 1
    /\ UNCHANGED <<ctHost, ctMobile, ctListVars, ctUnlocked, ctTimer, ctHidden,
                   ctConfirm, ctPrompt, ctPosts, ctPressed>>
CtAsserted ==
    /\ ctAsserts > 0 /\ ~CtModal /\ ctAsserts' = ctAsserts - 1
    /\ ctUnlocked' = TRUE /\ ctTimer' = TRUE /\ CtAsk
    /\ UNCHANGED <<ctHost, ctMobile, ctHeld, ctHidden, ctConfirm, ctPrompt,
                   ctPosts, ctPressed>>

\* Wrong: the sheet outlives the lock.
CtLockOnly == /\ ctUnlocked' = FALSE /\ ctTimer' = FALSE
              /\ UNCHANGED <<ctHost, ctMobile, ctListVars, ctConfirm, ctPrompt,
                             ctPosts, ctPressed>>

CtLock == /\ ctUnlocked' = FALSE /\ ctTimer' = FALSE /\ ctConfirm' = CtNone
          /\ UNCHANGED <<ctHost, ctMobile, ctListVars, ctPrompt, ctPosts,
                         ctPressed>>
CtDenied == /\ ctAsserts > 0 /\ ~CtModal /\ ctAsserts' = ctAsserts - 1
            /\ CtLock /\ UNCHANGED ctHidden
CtTimeout == /\ ctTimer /\ ~CtModal
             /\ CtLock /\ UNCHANGED <<ctHidden, ctAsserts>>
CtHide == /\ ctMobile /\ ~ctHidden /\ ctHidden' = TRUE /\ UNCHANGED ctAsserts
          /\ IF ctUnlocked THEN CtLock
             ELSE UNCHANGED <<ctHost, ctMobile, ctListVars, ctUnlocked, ctTimer,
                              ctConfirm, ctPrompt, ctPosts, ctPressed>>
CtShow == /\ ctHidden /\ ctHidden' = FALSE
          /\ UNCHANGED <<ctHost, ctMobile, ctListVars, ctUnlocked, ctTimer,
                         ctAsserts, ctConfirm, ctPrompt, ctPosts, ctPressed>>

\* The page asks for the key; the legacy shell is given none and returns.
SetCredentialKey(p) ==
    /\ ctPressed' = p
    /\ ctPrompt' = IF ctHost = "page" THEN p ELSE CtNone

\* On a phone the button opens a sheet whose Confirm sets the key.
CtKeyButton == \E p \in ctHeld :
    /\ CtShown /\ ~CtModal /\ ctConfirm = CtNone
    /\ IF ctMobile THEN ctConfirm' = p /\ UNCHANGED <<ctPrompt, ctPressed>>
                   ELSE SetCredentialKey(p) /\ UNCHANGED ctConfirm
    /\ UNCHANGED <<ctHost, ctMobile, ctListVars, ctUnlocked, ctTimer, ctHidden,
                   ctAsserts, ctPosts>>
CtSheet == \E confirmed \in BOOLEAN :
    /\ ctConfirm # CtNone /\ ctConfirm' = CtNone
    /\ IF confirmed THEN SetCredentialKey(ctConfirm)
                    ELSE UNCHANGED <<ctPrompt, ctPressed>>
    /\ UNCHANGED <<ctHost, ctMobile, ctListVars, ctUnlocked, ctTimer, ctHidden,
                   ctAsserts, ctPosts>>

CtTyped == \E given \in BOOLEAN :
    /\ CtModal /\ ctPrompt' = CtNone
    /\ given => ctPosts < CtFlights
    /\ ctPosts' = IF given THEN ctPosts + 1 ELSE ctPosts
    /\ UNCHANGED <<ctHost, ctMobile, ctListVars, ctLockVars, ctPressed>>
CtSaved == \E ok \in BOOLEAN :
    /\ ctPosts > 0 /\ ~CtModal /\ ctPosts' = ctPosts - 1
    /\ IF ok THEN CtAsk
             ELSE ctError' = TRUE /\ UNCHANGED <<ctFlight, ctLoading>>
    /\ UNCHANGED <<ctHost, ctMobile, ctHeld, ctLockVars, ctPrompt, ctPressed>>

CtNext == \/ CtRefresh \/ CtAnswer \/ CtUnlock \/ CtAsserted \/ CtDenied
          \/ CtTimeout \/ CtHide \/ CtShow \/ CtKeyButton \/ CtSheet
          \/ CtTyped \/ CtSaved
CtSpec == CtInit /\ [][CtNext]_ctVars
------------------------------------------------------------------------------
\* An unlocked page has a timer that locks it, and a locked one has neither
\* a timer nor a sheet that could change a key, whatever assertions were
\* still under way when it was hidden or refused.
CtLockHolds == /\ ctUnlocked <=> ctTimer
               /\ ctMobile /\ ~ctUnlocked => ctConfirm = CtNone

CtSpinner == ctLoading => ctFlight > 0

\* "This will open the server-side key update flow": a provider whose change
\* was confirmed is asked for its key. It does not hold in the legacy host, see
\* the README. No run checks it.
ConfirmOpensKeyFlow == [][ctPressed' # ctPressed => ctPrompt' = ctPressed']_ctVars

------------------------------------------------------------------------------
(***************************************************************************)
(* The credentials page of the phone: locked until the device vouches for  *)
(* its user, locked again after a minute without a touch or when the page  *)
(* loses the focus, with a sheet that sets and clears a provider's key.    *)
(***************************************************************************)

CONSTANTS
    CrProbe, CrNone,    \* providers, and none
    CrReady,            \* those with a key already: Clear is offered
    CrFlights           \* bound: requests in flight of one kind

ASSUME CrAssumption == CrFlights \in Nat

VARIABLES
    crLock,        \* lockState
    crAsserts,     \* handleUnlock waiting for the device and the server
    crTimer,       \* the inactivity timer is pending
    crHeld,        \* probes held
    crLoading, crRefreshing, crError,
    crFlight,      \* lists in flight, by what awaits them
    crSheet,       \* selectedProbe
    crMode, crKey, crSubmitting, crDone, crFailed,   \* the sheet
    crPosts        \* key changes in flight, by provider

crSheetVars == <<crMode, crKey, crSubmitting, crDone, crFailed>>
crListVars == <<crHeld, crLoading, crRefreshing, crError, crFlight>>
crVars == <<crLock, crAsserts, crTimer, crListVars, crSheet, crSheetVars, crPosts>>
------------------------------------------------------------------------------
CrTypeOK ==
    /\ crLock \in {"locked", "unlocking", "unlocked", "error"}
    /\ crAsserts \in 0..CrFlights
    /\ {crTimer, crLoading, crRefreshing, crError, crKey, crSubmitting, crDone,
        crFailed} \subseteq BOOLEAN
    /\ crHeld \subseteq CrProbe
    /\ crFlight \in Seq({"unlock", "key", "refresh"}) /\ Len(crFlight) <= CrFlights
    /\ crSheet \in CrProbe \cup {CrNone}
    /\ crMode \in {"actions", "set-key"}
    /\ crPosts \in Seq(CrProbe) /\ Len(crPosts) <= CrFlights

CrInit ==
    /\ crLock = "locked" /\ crAsserts = 0 /\ crTimer = FALSE
    /\ crHeld = {} /\ crLoading = FALSE /\ crRefreshing = FALSE
    /\ crError = FALSE /\ crFlight = <<>> /\ crSheet = CrNone
    /\ crMode = "actions" /\ crKey = FALSE /\ crSubmitting = FALSE
    /\ crDone = FALSE /\ crFailed = FALSE /\ crPosts = <<>>

Open == crLock = "unlocked"

\* A probe coming into the sheet empties it; leaving keeps what was there.
SheetShows(probe) ==
    /\ crSheet' = probe
    /\ IF probe = CrNone \/ probe = crSheet THEN UNCHANGED crSheetVars
       ELSE /\ crMode' = "actions" /\ crKey' = FALSE /\ crSubmitting' = FALSE
            /\ crDone' = FALSE /\ crFailed' = FALSE

\* The sheet goes with the page, and so does its state.
LockNow ==
    /\ crLock' = "locked" /\ crTimer' = FALSE
    /\ crHeld' = {} /\ crSheet' = CrNone
    /\ crMode' = "actions" /\ crKey' = FALSE /\ crSubmitting' = FALSE
    /\ crDone' = FALSE /\ crFailed' = FALSE
    /\ UNCHANGED <<crAsserts, crLoading, crRefreshing, crError, crFlight, crPosts>>

\* The Lock button, the timer, and the page losing the focus while open.
CrLockButton == Open /\ LockNow
CrTimeout == crTimer /\ LockNow
CrBlur == Open /\ LockNow

\* The lock screen's button rests while an assertion is out.
CrUnlock ==
    /\ crLock \in {"locked", "error"}
    /\ crAsserts < CrFlights /\ crAsserts' = crAsserts + 1
    /\ crLock' = "unlocking"
    /\ UNCHANGED <<crTimer, crListVars, crSheet, crSheetVars, crPosts>>

\* The page opens when the device vouches, or cannot; the timer starts only
\* once the first list came.  A device that answers nothing changes nothing.
CrAsserted == \E outcome \in {"granted", "cancelled", "none"} :
    /\ crAsserts > 0 /\ crAsserts' = crAsserts - 1
    /\ IF outcome = "granted"
         THEN /\ Len(crFlight) < CrFlights
              /\ crLock' = "unlocked" /\ crLoading' = TRUE /\ crError' = FALSE
              /\ crFlight' = Append(crFlight, "unlock")
         ELSE /\ crLock' = IF outcome = "cancelled" THEN "error" ELSE crLock
              /\ UNCHANGED <<crLoading, crError, crFlight>>
    /\ UNCHANGED <<crTimer, crHeld, crRefreshing, crSheet, crSheetVars, crPosts>>

\* Lists answer in any order, also to a page locked meanwhile; a list asked
\* for by the unlocking or by a refresh starts the timer.
CrAnswer == \E i \in 1..Len(crFlight), ok \in BOOLEAN, list \in SUBSET CrProbe :
    /\ crFlight' = [j \in 1..Len(crFlight) - 1 |->
                      IF j < i THEN crFlight[j] ELSE crFlight[j + 1]]
    /\ crHeld' = IF ok THEN list ELSE crHeld
    /\ crError' = IF ok THEN crError ELSE TRUE
    /\ crLoading' = FALSE /\ crRefreshing' = FALSE
    /\ crTimer' = (crTimer \/ crFlight[i] # "key")
    /\ UNCHANGED <<crLock, crAsserts, crSheet, crSheetVars, crPosts>>

\* A touch anywhere on the open page starts the minute anew.
CrTouch ==
    /\ Open /\ crTimer' = TRUE
    /\ UNCHANGED <<crLock, crAsserts, crListVars, crSheet, crSheetVars, crPosts>>
CrRefresh ==
    /\ Open /\ ~crLoading /\ ~crRefreshing /\ Len(crFlight) < CrFlights
    /\ crTimer' = TRUE      \* the pull touches the page
    /\ crRefreshing' = TRUE /\ crError' = FALSE
    /\ crFlight' = Append(crFlight, "refresh")
    /\ UNCHANGED <<crLock, crAsserts, crHeld, crLoading, crSheet, crSheetVars,
                   crPosts>>

CrCard == \E p \in crHeld :
    /\ Open /\ ~crLoading /\ crSheet = CrNone
    /\ SheetShows(p) /\ crTimer' = TRUE
    /\ UNCHANGED <<crLock, crAsserts, crListVars, crPosts>>
CrSheetClose ==
    /\ crSheet # CrNone
    /\ SheetShows(CrNone) /\ crTimer' = TRUE
    /\ UNCHANGED <<crLock, crAsserts, crListVars, crPosts>>

\* What the sheet offers; its buttons rest while it submits.
SheetOffers ==
    IF crSheet = CrNone \/ crSubmitting THEN {}
    ELSE IF crMode = "set-key" THEN {"back", "type"} \cup {k \in {"save"} : crKey}
    ELSE {"form"} \cup {k \in {"clear"} : crSheet \in CrReady}

CrForm ==
    /\ crMode' = IF crMode = "actions" THEN "set-key" ELSE "actions"
    /\ (IF crMode = "actions" THEN "form" ELSE "back") \in SheetOffers
    /\ crTimer' = TRUE
    /\ UNCHANGED <<crLock, crAsserts, crListVars, crSheet, crKey, crSubmitting,
                   crDone, crFailed, crPosts>>
CrType ==
    /\ "type" \in SheetOffers
    /\ crKey' = TRUE /\ crTimer' = TRUE
    /\ UNCHANGED <<crLock, crAsserts, crListVars, crSheet, crMode, crSubmitting,
                   crDone, crFailed, crPosts>>
CrSubmit ==
    /\ SheetOffers \cap {"save", "clear"} # {}
    /\ Len(crPosts) < CrFlights
    /\ crPosts' = Append(crPosts, crSheet)
    /\ crSubmitting' = TRUE /\ crFailed' = FALSE /\ crTimer' = TRUE
    /\ UNCHANGED <<crLock, crAsserts, crListVars, crSheet, crMode, crKey, crDone>>

\* A change that ends tells the sheet that is open by then, whatever it
\* shows; a success starts the timer and asks for the list.
CrChanged == \E ok \in BOOLEAN :
    /\ crPosts # <<>> /\ crPosts' = Tail(crPosts)
    /\ IF ok
         THEN /\ Len(crFlight) < CrFlights
              /\ crFlight' = Append(crFlight, "key") /\ crError' = FALSE
              /\ crTimer' = TRUE
         ELSE UNCHANGED <<crFlight, crError, crTimer>>
    /\ IF Open
         THEN /\ crDone' = (crDone \/ ok) /\ crFailed' = (crFailed \/ ~ok)
              /\ crKey' = (crKey /\ ~ok) /\ crSubmitting' = FALSE
         ELSE UNCHANGED <<crDone, crFailed, crKey, crSubmitting>>
    /\ UNCHANGED <<crLock, crAsserts, crHeld, crLoading, crRefreshing, crSheet,
                   crMode>>

CrNext == \/ CrLockButton \/ CrTimeout \/ CrBlur \/ CrUnlock \/ CrAsserted
          \/ CrAnswer \/ CrTouch \/ CrRefresh \/ CrCard \/ CrSheetClose
          \/ CrForm \/ CrType \/ CrSubmit \/ CrChanged
CrSpec == CrInit /\ [][CrNext]_crVars
------------------------------------------------------------------------------
\* "Re-locks after 60 seconds of inactivity": an open page has its timer
\* pending, or the list its unlocking asked for is still to come and will
\* start it, whatever was locked, unlocked and answered meanwhile.
CrIdleLocks == Open => crTimer \/ \E i \in DOMAIN crFlight :
                                      crFlight[i] = "unlock"

\* A list that is waited for has a request out.
CrSpinner == (crLoading \/ crRefreshing) => crFlight # <<>>
==============================================================================

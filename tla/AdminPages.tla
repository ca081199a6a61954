----------------------------- MODULE AdminPages ------------------------------
(*****************************************************************************)
(* Two pages of the dashboard's own records: its principals and tokens, and  *)
(* the feature requests with their notes. They share no state.               *)
(*****************************************************************************)
EXTENDS Naturals

(***************************************************************************)
(* The principals page: who may use the dashboard, their quotas and their  *)
(* service tokens.  A token's value is in the answer that made it and      *)
(* nowhere else.                                                           *)
(***************************************************************************)

CONSTANTS
    PnBot,          \* principals that may hold tokens
    PnNone,
    PnTokens,       \* bound: tokens ever made
    PnFlights       \* bound: requests in flight of one kind

ASSUME PnAssumption == PnTokens \in Nat /\ PnFlights \in Nat \ {0}

VARIABLES
    pnServer,       \* tokens valid on the server
    pnMade,         \* tokens made so far
    pnShown,        \* tokens listed
    pnNamed,        \* the principals came
    pnError,
    pnLoads, pnListed,   \* loads in flight: of the tokens, of the principals
    pnQuota, pnMint,     \* the principal of either dialog
    pnValue,        \* the token whose value is on show
    pnPosts,        \* requests in flight, by kind
    pnAnswers       \* tokens made whose answer is on its way

pnListVars == <<pnShown, pnNamed, pnLoads, pnListed>>
pnDialogVars == <<pnQuota, pnMint, pnValue>>
pnVars == <<pnServer, pnMade, pnListVars, pnError, pnDialogVars, pnPosts,
            pnAnswers>>

PnOne == PnBot \cup {PnNone}
PnKinds == {"quota", "mint", "revoke"}
------------------------------------------------------------------------------
PnTypeOK ==
    /\ pnMade \in 0..PnTokens
    /\ pnServer \cup pnShown \cup pnAnswers \subseteq 1..pnMade
    /\ {pnNamed, pnError} \subseteq BOOLEAN
    /\ {pnLoads, pnListed} \subseteq 0..PnFlights
    /\ {pnQuota, pnMint} \subseteq PnOne
    /\ pnValue \in 0..pnMade
    /\ pnPosts \in [PnKinds -> 0..PnFlights]

PnInit ==
    /\ pnServer = {} /\ pnMade = 0 /\ pnShown = {} /\ pnNamed = FALSE
    /\ pnError = FALSE /\ pnLoads = 1 /\ pnListed = 1
    /\ pnQuota = PnNone /\ pnMint = PnNone /\ pnValue = 0
    /\ pnPosts = [k \in PnKinds |-> 0] /\ pnAnswers = {}

\* Both lists are asked for at once and answered apart; an error stays.
PnLoad == /\ pnLoads < PnFlights /\ pnLoads' = pnLoads + 1
          /\ pnListed < PnFlights /\ pnListed' = pnListed + 1
PnTokensCome == \E ok \in BOOLEAN :
    /\ pnLoads > 0 /\ pnLoads' = pnLoads - 1
    /\ pnShown' = IF ok THEN pnServer ELSE pnShown
    /\ pnError' = (pnError \/ ~ok)
    /\ UNCHANGED <<pnServer, pnMade, pnNamed, pnListed, pnDialogVars, pnPosts,
                   pnAnswers>>
PnPrincipalsCome == \E ok \in BOOLEAN :
    /\ pnListed > 0 /\ pnListed' = pnListed - 1
    /\ pnNamed' = (pnNamed \/ ok) /\ pnError' = (pnError \/ ~ok)
    /\ UNCHANGED <<pnServer, pnMade, pnShown, pnLoads, pnDialogVars, pnPosts,
                   pnAnswers>>

\* The dialogs cover the page; their forms can be sent again before the
\* answer.
PnCovered == pnQuota # PnNone \/ pnMint # PnNone
PnRows == IF pnNamed /\ ~PnCovered THEN PnBot ELSE {}
PnOpen == \E p \in PnRows :
    /\ \/ pnQuota' = p /\ UNCHANGED pnMint
       \/ pnMint' = p /\ UNCHANGED pnQuota
    /\ UNCHANGED <<pnServer, pnMade, pnListVars, pnError, pnValue,
                   pnPosts, pnAnswers>>
PnCancel ==
    /\ \/ pnQuota # PnNone /\ pnQuota' = PnNone /\ UNCHANGED <<pnMint, pnValue>>
       \/ pnMint # PnNone /\ pnMint' = PnNone /\ UNCHANGED <<pnQuota, pnValue>>
       \/ pnValue # 0 /\ ~PnCovered /\ pnValue' = 0 /\ UNCHANGED <<pnQuota, pnMint>>
    /\ UNCHANGED <<pnServer, pnMade, pnListVars, pnError, pnPosts, pnAnswers>>
PnSend(kind) ==
    /\ pnPosts[kind] < PnFlights
    /\ pnPosts' = [pnPosts EXCEPT ![kind] = @ + 1]
    /\ UNCHANGED <<pnServer, pnMade, pnListVars, pnError, pnDialogVars, pnAnswers>>
PnSaveQuota == pnQuota # PnNone /\ PnSend("quota")
DoMintToken == pnMint # PnNone /\ PnSend("mint")
\* Revoking asks once more; a row stays until the list comes anew.
RevokeToken == pnShown # {} /\ ~PnCovered /\ PnSend("revoke")

\* The server; a token it makes comes back in one answer.
PnServe ==
    \/ /\ pnPosts["mint"] > 0 /\ pnMade < PnTokens
       /\ pnMade' = pnMade + 1 /\ pnServer' = pnServer \cup {pnMade'}
       /\ pnAnswers' = pnAnswers \cup {pnMade'}
       /\ pnPosts' = [pnPosts EXCEPT !["mint"] = @ - 1]
       /\ UNCHANGED <<pnListVars, pnError, pnDialogVars>>
    \/ \E kind \in PnKinds :        \* refused, or lost on the way
       /\ pnPosts[kind] > 0 /\ pnPosts' = [pnPosts EXCEPT ![kind] = @ - 1]
       /\ pnError' = TRUE
       /\ UNCHANGED <<pnServer, pnMade, pnListVars, pnDialogVars, pnAnswers>>
PnMinted == \E t \in pnAnswers, arrives \in BOOLEAN :
    /\ pnAnswers' = pnAnswers \ {t}
    /\ IF arrives THEN pnMint' = PnNone /\ pnValue' = t /\ PnLoad
                  ELSE UNCHANGED <<pnMint, pnValue, pnLoads, pnListed>>
    /\ pnError' = (pnError \/ ~arrives)
    /\ UNCHANGED <<pnServer, pnMade, pnShown, pnNamed, pnQuota, pnPosts>>
PnQuotaSaved ==
    /\ pnPosts["quota"] > 0 /\ pnPosts' = [pnPosts EXCEPT !["quota"] = @ - 1]
    /\ pnQuota' = PnNone /\ PnLoad
    /\ UNCHANGED <<pnServer, pnMade, pnShown, pnNamed, pnError, pnMint, pnValue,
                   pnAnswers>>
PnRevoked == \E t \in pnShown :
    /\ pnPosts["revoke"] > 0 /\ pnPosts' = [pnPosts EXCEPT !["revoke"] = @ - 1]
    /\ pnServer' = pnServer \ {t} /\ PnLoad
    /\ UNCHANGED <<pnMade, pnShown, pnNamed, pnError, pnDialogVars, pnAnswers>>

PnNext == \/ PnTokensCome \/ PnPrincipalsCome \/ PnOpen \/ PnCancel
          \/ PnSaveQuota \/ DoMintToken \/ RevokeToken \/ PnServe \/ PnMinted
          \/ PnQuotaSaved \/ PnRevoked
PnSpec == PnInit /\ [][PnNext]_pnVars

------------------------------------------------------------------------------
(***************************************************************************)
(* The feature-requests page: a form that dispatches a prompt, prompts     *)
(* saved as templates, and notes kept on the server that are added to      *)
(* every prompt.                                                           *)
(***************************************************************************)

CONSTANTS
    FrNotes,       \* contents of the notes
    FrEmpty,       \* no notes
    FrFlights      \* bound: requests in flight of one kind

ASSUME FrAssumption == FrFlights \in Nat \ {0}

VARIABLES
    frSaved,       \* the notes on the server
    frHeld,        \* the notes the page holds
    frEditing,     \* the editor
    frLoading, frFlight,
    frReady,       \* the form has a repository and a prompt
    frNamed,       \* a name for the template
    frDispatch, frPosts,          \* status, and dispatches in flight
    frTemplate, frTemplatePosts,  \* the same of the templates
    frNotes, frNotePosts,         \* the same of the notes, by content
    frTimers,      \* timers that will clear the notes' message
    frEdited       \* history: typed into the editor since it was last set

frFormVars == <<frReady, frNamed, frDispatch, frTemplate, frTemplatePosts>>
frNoteVars == <<frNotes, frNotePosts, frTimers>>
frVars == <<frSaved, frHeld, frEditing, frLoading, frFlight, frFormVars, frPosts,
            frNoteVars, frEdited>>
------------------------------------------------------------------------------
FrTypeOK ==
    /\ {frSaved, frHeld, frEditing} \subseteq FrNotes \cup {FrEmpty}
    /\ {frLoading, frReady, frNamed, frEdited} \subseteq BOOLEAN
    /\ {frFlight, frPosts, frTemplatePosts, frTimers} \subseteq 0..FrFlights
    /\ {frDispatch, frTemplate, frNotes} \subseteq {"none", "out", "ok", "error"}
    /\ frNotePosts \subseteq FrNotes \cup {FrEmpty}

FrInit ==
    /\ frSaved \in FrNotes \cup {FrEmpty}
    /\ frHeld = FrEmpty /\ frEditing = FrEmpty
    /\ frLoading = TRUE /\ frFlight = 1
    /\ frReady = FALSE /\ frNamed = FALSE
    /\ frDispatch = "none" /\ frPosts = 0
    /\ frTemplate = "none" /\ frTemplatePosts = 0
    /\ frNotes = "none" /\ frNotePosts = {} /\ frTimers = 0
    /\ frEdited = FALSE

FrAsk == frFlight < FrFlights /\ frFlight' = frFlight + 1 /\ frLoading' = TRUE

\* Three lists come together, each of them empty if it failed; the editor is
\* set whenever the notes held are others than before.
FrLoaded == \E ok \in BOOLEAN :
    /\ frFlight > 0 /\ frFlight' = frFlight - 1 /\ frLoading' = FALSE
    /\ frHeld' = IF ok THEN frSaved ELSE FrEmpty
    /\ frEditing' = IF frHeld' = frHeld THEN frEditing ELSE frHeld'
    /\ frEdited' = (frEdited /\ frHeld' = frHeld)
    /\ UNCHANGED <<frSaved, frFormVars, frPosts, frNoteVars>>

FrFill == \E form \in BOOLEAN, name \in BOOLEAN :
    /\ frReady' = form /\ frNamed' = name
    /\ UNCHANGED <<frSaved, frHeld, frEditing, frLoading, frFlight, frDispatch,
                   frTemplate, frTemplatePosts, frPosts, frNoteVars, frEdited>>

\* The button does not wait for a dispatch that is out.
FrDispatch ==
    /\ frReady /\ frPosts < FrFlights
    /\ frDispatch' = "out" /\ frPosts' = frPosts + 1
    /\ UNCHANGED <<frSaved, frHeld, frEditing, frLoading, frFlight, frReady,
                   frNamed, frTemplate, frTemplatePosts, frNoteVars, frEdited>>
FrDispatched == \E ok \in BOOLEAN :
    /\ frPosts > 0 /\ frPosts' = frPosts - 1
    /\ frDispatch' = IF ok THEN "ok" ELSE "error"
    /\ IF ok THEN FrAsk ELSE UNCHANGED <<frFlight, frLoading>>
    /\ UNCHANGED <<frSaved, frHeld, frEditing, frReady, frNamed, frTemplate,
                   frTemplatePosts, frNoteVars, frEdited>>

FrKeep ==
    /\ frReady /\ frNamed /\ frTemplatePosts < FrFlights
    /\ frTemplate' = "out" /\ frTemplatePosts' = frTemplatePosts + 1
    /\ UNCHANGED <<frSaved, frHeld, frEditing, frLoading, frFlight, frReady,
                   frNamed, frDispatch, frPosts, frNoteVars, frEdited>>
FrKept == \E ok \in BOOLEAN :
    /\ frTemplatePosts > 0 /\ frTemplatePosts' = frTemplatePosts - 1
    /\ frTemplate' = IF ok THEN "ok" ELSE "error"
    /\ IF ok THEN FrAsk ELSE UNCHANGED <<frFlight, frLoading>>
    /\ UNCHANGED <<frSaved, frHeld, frEditing, frReady, frNamed, frDispatch,
                   frPosts, frNoteVars, frEdited>>

\* The notes are saved as the editor shows them; the page keeps holding what
\* it loaded.
FrEdit == \E n \in FrNotes \cup {FrEmpty} :
    /\ frEditing' = n /\ frEdited' = TRUE
    /\ UNCHANGED <<frSaved, frHeld, frLoading, frFlight, frFormVars, frPosts,
                   frNoteVars>>
FrSaveNotes ==
    /\ frNotes' = "out" /\ frNotePosts' = frNotePosts \cup {frEditing}
    /\ UNCHANGED <<frSaved, frHeld, frEditing, frLoading, frFlight, frFormVars,
                   frPosts, frTimers, frEdited>>
FrNotesSaved == \E n \in frNotePosts, ok \in BOOLEAN :
    /\ frNotePosts' = frNotePosts \ {n}
    /\ frSaved' = IF ok THEN n ELSE frSaved
    /\ frNotes' = IF ok THEN "ok" ELSE "error"
    /\ ok => frTimers < FrFlights
    /\ frTimers' = IF ok THEN frTimers + 1 ELSE frTimers
    /\ UNCHANGED <<frHeld, frEditing, frLoading, frFlight, frFormVars, frPosts,
                   frEdited>>
FrTimer ==
    /\ frTimers > 0 /\ frTimers' = frTimers - 1 /\ frNotes' = "none"
    /\ UNCHANGED <<frSaved, frHeld, frEditing, frLoading, frFlight, frFormVars,
                   frPosts, frNotePosts, frEdited>>

FrNext == \/ FrLoaded \/ FrFill \/ FrDispatch \/ FrDispatched \/ FrKeep
          \/ FrKept \/ FrEdit \/ FrSaveNotes \/ FrNotesSaved \/ FrTimer
FrSpec == FrInit /\ [][FrNext]_frVars
------------------------------------------------------------------------------
\* The editor shows the notes the page holds unless the operator typed
\* something since they came.
FrEditorFollows == frEditing = frHeld \/ frEdited

FrSpinner == frLoading => frFlight > 0

\* "ok" under the notes is always cleared in the end.
FrMessageEnds == frNotes = "ok" => frTimers > 0
==============================================================================

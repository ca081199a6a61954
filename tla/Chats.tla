-------------------------------- MODULE Chats --------------------------------
(***************************************************************************)
(* The chats: the Maxwell page of the desktop and of the phone, which      *)
(* stream their answers and share one stored history, the codebase chat of *)
(* the help dialog, which stores nothing, and the assistant sidebar of     *)
(* every open browser tab, whose transcript is stored only on request.     *)
(***************************************************************************)
EXTENDS Naturals, Sequences

CONSTANTS
    ChTab,          \* browser tabs with an assistant sidebar
    ChKept,         \* messages a stored history keeps
    ChMax           \* bound: messages of a chat

ASSUME ChAssumption == ChKept \in Nat /\ ChMax \in Nat

VARIABLES
    mxView,         \* the chat mounted: "desktop", "phone" or "help"
    mxStatus,       \* the daemon as the page knows it
    mxLoading, mxError, mxLoads,
    mxChat,         \* the messages on screen
    mxOld,          \* how many of them were restored when it was mounted
    mxStored,       \* the stored history
    mxStream,       \* the message whose answer is out, 0 for none
    mxReady,        \* the codebase chat has a repository
    mxSheet,        \* the phone's sheet of controls is open
    mxControl,      \* a control posted and not answered
    atTalk,         \* by tab: the transcript of the sidebar
    atSave,         \* by tab: it saves its history
    atOut,          \* by tab: an answer is awaited
    atStored,       \* the stored transcript
    atSetting       \* the stored setting, read by a tab that loads

mxStatusVars == <<mxStatus, mxLoading, mxError, mxLoads>>
mxChatVars == <<mxChat, mxOld, mxStored, mxStream>>
mxVars == <<mxView, mxStatusVars, mxChatVars, mxReady, mxSheet, mxControl>>
atVars == <<atTalk, atSave, atOut, atStored, atSetting>>
chVars == <<mxVars, atVars>>

Down == [up |-> FALSE, running |-> FALSE]
Kept(messages) == SubSeq(messages, IF Len(messages) > ChKept
                           THEN Len(messages) - ChKept + 1 ELSE 1, Len(messages))
Message(by, text, live) == [by |-> by, text |-> text, live |-> live]
Messages == [by: {"operator", "maxwell"}, live: BOOLEAN,
             text: {"asked", "empty", "part", "full", "failed"}]
------------------------------------------------------------------------------
ChTypeOK ==
    /\ mxView \in {"desktop", "phone", "help"}
    /\ mxStatus \in [up: BOOLEAN, running: BOOLEAN]
    /\ {mxLoading, mxError, mxReady, mxSheet, mxControl} \subseteq BOOLEAN
    /\ mxLoads \in 0..2
    /\ mxChat \in Seq(Messages) /\ mxStored \in Seq(Messages)
    /\ Len(mxStored) <= ChKept
    /\ mxOld \in 0..Len(mxChat) /\ mxStream \in 0..Len(mxChat)
    /\ atTalk \in [ChTab -> Seq({"user", "assistant"})]
    /\ {atSave, atOut} \subseteq [ChTab -> BOOLEAN]
    /\ atStored \in Seq({"user", "assistant"})
    /\ atSetting \in BOOLEAN

\* A page mounted restores the stored history and asks for the status.
Mount(view, stored) ==
    /\ mxView' = view
    /\ mxStatus' = Down /\ mxError' = FALSE
    /\ mxLoading' = (view # "help")
    /\ mxLoads' = IF view = "help" THEN 0 ELSE 1
    /\ mxChat' = IF view = "help" THEN <<>> ELSE stored
    /\ mxOld' = Len(mxChat')
    /\ mxStored' = stored
    /\ mxStream' = 0
    /\ mxReady' = FALSE /\ mxSheet' = FALSE /\ mxControl' = FALSE

ChInit ==
    /\ mxView \in {"desktop", "phone", "help"}
    /\ mxStatus = Down /\ mxError = FALSE
    /\ mxLoading = (mxView # "help")
    /\ mxLoads = IF mxView = "help" THEN 0 ELSE 1
    /\ mxChat = <<>> /\ mxOld = 0 /\ mxStored = <<>> /\ mxStream = 0
    /\ mxReady = FALSE /\ mxSheet = FALSE /\ mxControl = FALSE
    /\ atTalk = [t \in ChTab |-> <<>>]
    /\ atSave = [t \in ChTab |-> FALSE]
    /\ atOut = [t \in ChTab |-> FALSE]
    /\ atStored = <<>> /\ atSetting = FALSE
------------------------------------------------------------------------------
(* The daemon.  A refusal is a status of the desktop, whose fields are     *)
(* blank, and an error of the phone.                                       *)
MxAsk ==
    /\ mxView # "help" /\ mxLoads < 2
    /\ mxView = "desktop" => ~mxLoading \/ ~mxStatus.up    \* Refresh, Retry
    /\ mxView = "phone" => ~mxLoading
    /\ mxLoads' = mxLoads + 1
    /\ mxLoading' = (mxLoading \/ mxView = "desktop")
    /\ UNCHANGED <<mxView, mxStatus, mxError, mxChatVars, mxReady, mxSheet,
                   mxControl, atVars>>
MxAnswer == \E kind \in {"ok", "refused", "lost"},
               status \in [up: BOOLEAN, running: BOOLEAN] :
    /\ mxLoads > 0
    /\ mxLoads' = mxLoads - 1
    /\ mxLoading' = FALSE
    /\ mxStatus' = CASE kind = "ok" -> status
                     [] kind = "refused" /\ mxView = "desktop" -> Down
                     [] OTHER -> mxStatus
    /\ mxError' = (kind = "lost" \/ (kind = "refused" /\ mxView = "phone"))
    /\ UNCHANGED <<mxView, mxChatVars, mxReady, mxSheet, mxControl, atVars>>

\* The buttons of the desktop; the phone's are in the sheet, and drawn once
\* the first status came.
DesktopControls ==
    IF mxControl THEN {}
    ELSE IF mxStatus.running THEN {"stop", "restart"} ELSE {"start"}
SheetControls ==
    IF mxControl \/ ~mxSheet THEN {}
    ELSE {"restart"} \cup (IF mxStatus.running THEN {"stop"} ELSE {"start"})
MxPost ==
    /\ (IF mxView = "desktop" THEN DesktopControls
        ELSE IF mxView = "phone" /\ ~mxLoading THEN SheetControls ELSE {}) # {}
    /\ mxControl' = TRUE
    /\ UNCHANGED <<mxView, mxStatusVars, mxChatVars, mxReady, mxSheet, atVars>>
\* A control accepted asks for the status a second later.
MxPosted == \E ok \in BOOLEAN :
    /\ mxControl
    /\ mxControl' = FALSE
    /\ ok => mxLoads < 2
    /\ mxLoads' = IF ok THEN mxLoads + 1 ELSE mxLoads
    /\ mxLoading' = (mxLoading \/ (ok /\ mxView = "desktop"))
    /\ UNCHANGED <<mxView, mxStatus, mxError, mxChatVars, mxReady, mxSheet,
                   atVars>>
MxSheet ==
    /\ mxView = "phone" /\ ~mxLoading
    /\ ~mxControl \/ ~mxSheet           \* it stays while a control is out
    /\ mxSheet' = ~mxSheet
    /\ UNCHANGED <<mxView, mxStatusVars, mxChatVars, mxReady, mxControl, atVars>>
------------------------------------------------------------------------------
(* The chat.  One question at a time; its answer fills the message added   *)
(* with it, part by part.  An effect stores what was rendered, so a page    *)
(* that is left or loaded again first loses the changes since.  The        *)
(* codebase chat stores nothing.                                           *)
ChatIs(messages, stream) ==
    /\ mxChat' = messages
    /\ mxStream' = stream
    /\ UNCHANGED <<mxView, mxStatusVars, mxOld, mxStored, mxReady, mxSheet,
                   mxControl, atVars>>
MxStore ==
    /\ mxView # "help" /\ mxStored # Kept(mxChat)
    /\ mxStored' = Kept(mxChat)
    /\ UNCHANGED <<mxView, mxStatusVars, mxChat, mxOld, mxStream, mxReady,
                   mxSheet, mxControl, atVars>>

\* The box needs the daemon, the chips only that nothing is being sent; the
\* codebase chat needs a repository for both.
MxOffered ==
    IF mxStream # 0 \/ (mxView = "help" /\ ~mxReady) THEN {}
    ELSE IF mxView = "help" \/ mxStatus.up THEN {"box", "chips"}
    ELSE {"chips", "retry"}
MxReady ==
    /\ mxView = "help"
    /\ mxReady' = ~mxReady
    /\ UNCHANGED <<mxView, mxStatusVars, mxChatVars, mxSheet, mxControl, atVars>>
MxSend ==
    /\ {"box", "chips"} \cap MxOffered # {}
    /\ mxView = "phone" => ~mxLoading
    /\ Len(mxChat) + 2 <= ChMax
    /\ ChatIs(mxChat \o <<Message("operator", "asked", FALSE),
                          Message("maxwell", "empty", TRUE)>>, Len(mxChat) + 2)
Answered(text, live) ==
    [mxChat EXCEPT ![mxStream] = Message("maxwell", text, live)]
MxPart ==
    /\ mxStream # 0 /\ mxChat[mxStream].text = "empty"
    /\ ChatIs(Answered("part", TRUE), mxStream)
MxDone == \E text \in {"full", "failed"} :
    /\ mxStream # 0
    /\ ChatIs(Answered(text, FALSE), 0)

\* Another view is opened, or the same one again: what the old one still
\* awaited never reaches the screen.
MxLeave == \E view \in {"desktop", "phone", "help"} :
    /\ Mount(view, mxStored)
    /\ UNCHANGED atVars
------------------------------------------------------------------------------
(* The assistant.  Every change of a tab's transcript stores it, when the  *)
(* tab saves its history, and removes what is stored when it does not.     *)
TalkIs(tab, talk, save) ==
    /\ atTalk' = [atTalk EXCEPT ![tab] = talk]
    /\ atSave' = [atSave EXCEPT ![tab] = save]
    /\ atStored' = IF save THEN Kept(talk) ELSE <<>>
    /\ UNCHANGED mxVars

AtSend == \E tab \in ChTab :
    /\ ~atOut[tab] /\ Len(atTalk[tab]) + 2 <= ChMax
    /\ TalkIs(tab, Append(atTalk[tab], "user"), atSave[tab])
    /\ atOut' = [atOut EXCEPT ![tab] = TRUE]
    /\ UNCHANGED atSetting
\* A failed request answers with its error; the transcript may have been
\* cleared since the question.
AtAnswer == \E tab \in ChTab :
    /\ atOut[tab]
    /\ TalkIs(tab, Append(atTalk[tab], "assistant"), atSave[tab])
    /\ atOut' = [atOut EXCEPT ![tab] = FALSE]
    /\ UNCHANGED atSetting
AtSettings == \E tab \in ChTab, save \in BOOLEAN :
    /\ atSave[tab] # save
    /\ TalkIs(tab, IF save THEN atTalk[tab] ELSE <<>>, save)
    /\ atSetting' = save
    /\ UNCHANGED atOut
\* "Clear chat history" empties a saving tab's history, stored as empty.
AtClear == \E tab \in ChTab :
    /\ TalkIs(tab, <<>>, atSave[tab])
    /\ UNCHANGED <<atOut, atSetting>>
\* A tab loaded again restores the transcript if the setting says it saves,
\* unless the transcript expired, and stores it again.
AtReload == \E tab \in ChTab, expired \in BOOLEAN :
    /\ TalkIs(tab, IF atSetting /\ ~expired THEN atStored ELSE <<>>, atSetting)
    /\ atOut' = [atOut EXCEPT ![tab] = FALSE]
    /\ UNCHANGED atSetting
------------------------------------------------------------------------------
ChNext == \/ MxAsk \/ MxAnswer \/ MxPost \/ MxPosted \/ MxSheet
          \/ MxReady \/ MxSend \/ MxPart \/ MxDone \/ MxStore \/ MxLeave
          \/ AtSend \/ AtAnswer \/ AtSettings \/ AtClear \/ AtReload
ChSpec == ChInit /\ [][ChNext]_chVars
------------------------------------------------------------------------------
\* Of the messages written since the page was opened exactly the one whose
\* answer is out says it is streaming.  Messages restored are no part of this:
\* one whose page was left in the middle of its answer streams for ever.
OnlyStreamIsLive ==
    \A k \in (mxOld + 1)..Len(mxChat) : mxChat[k].live <=> k = mxStream

\* When no sidebar of any tab saves its history none of it is stored, however
\* the switches and the answers that were out interleave.
NothingKeptUnasked == (\A tab \in ChTab : ~atSave[tab]) => atStored = <<>>
==============================================================================

------------------------------ MODULE Overlays ------------------------------
(*****************************************************************************)
(* What is drawn over a page and where the keyboard's focus goes: the Help   *)
(* panel and the More menu of the desktop shell, the sheets of the phone's   *)
(* pages, the tooltip of the Help button, and the command palette.           *)
(*****************************************************************************)
EXTENDS Integers, Sequences, SequencesExt, FiniteSetsExt

CONSTANTS
    OvParts         \* bound: what can be focused in a dialog, items of the menu

ASSUME OvAssumption == OvParts \in Nat \ {0, 1}

VARIABLES
    ovHost,         \* the surface: the desktop shell, or a page of the phone
    ovOpen,         \* the dialog or sheet that is open
    ovFocus,        \* the element that has the focus
    ovTrigger,      \* what each dialog remembers to return the focus to
    ovMenu, ovActive,    \* the More menu: open, and its active item
    ovRow,          \* the page still draws the row that opens a sheet
    ovTimer, ovTip, ovHover,  \* the Help button's tooltip; the pointer on it
    ovHeld, ovLoading, ovOut, ovAsked,  \* the version: held, awaited, asked
    ovFrom, ovPointed    \* recorded: the focus before, the pointer used since

ovTipVars == <<ovTimer, ovTip>>
ovVersionVars == <<ovHeld, ovLoading, ovOut, ovAsked>>
ovVars == <<ovHost, ovOpen, ovFocus, ovTrigger, ovMenu, ovActive, ovRow,
            ovTipVars, ovHover, ovVersionVars, ovFrom, ovPointed>>

\* The agent picker of a remediation row takes the place of its action sheet;
\* each host's dialogs are listed in the order their effects run.
Hosted == [desktop |-> <<"help">>, queue |-> <<"detail">>,
           remediation |-> <<"actions", "agents">>]
Dialogs == {"help", "detail", "actions", "agents"}

\* Part 0 of a dialog is its panel, which a press on its text gives the focus.
Body == <<"body", 0>>
Row == <<"page", 1>>
Field == <<"page", 2>>
HelpButton == <<"shell", 1>>
MoreButton == <<"shell", 2>>
Item(i) == <<"menu", i>>
Items == {Item(i) : i \in 1..OvParts}
Panel(d) == {d} \X (0..OvParts)
Drawn(open, menu, row) ==
    {Body, Field} \cup UNION {Panel(d) : d \in open}
    \cup (IF menu THEN Items ELSE {}) \cup (IF row THEN {Row} ELSE {})
    \cup (IF ovHost = "desktop" THEN {HelpButton, MoreButton} ELSE {})
Elements == {Body, Field, Row, HelpButton, MoreButton} \cup Items
            \cup UNION {Panel(d) : d \in Dialogs}
------------------------------------------------------------------------------
OvTypeOK ==
    /\ ovHost \in DOMAIN Hosted
    /\ \E d \in Dialogs : ovOpen \subseteq {d}
    /\ ovFocus \in Drawn(ovOpen, ovMenu, ovRow)
    /\ ovTrigger \in [Dialogs -> Elements]
    /\ ovActive \in 1..OvParts
    /\ {ovMenu, ovRow, ovTimer, ovTip, ovHover, ovHeld, ovLoading, ovPointed}
          \subseteq BOOLEAN
    /\ {ovOut, ovAsked} \subseteq 0..2
    /\ ovFrom \in Elements

OvInit ==
    /\ ovHost \in DOMAIN Hosted
    /\ ovOpen = {} /\ ovFocus = Body /\ ovTrigger = [d \in Dialogs |-> Body]
    /\ ovMenu = FALSE /\ ovActive = 1 /\ ovRow = TRUE
    /\ ovTimer = FALSE /\ ovTip = FALSE /\ ovHover = FALSE
    /\ ovHeld = FALSE /\ ovLoading = FALSE /\ ovOut = 0 /\ ovAsked = 0
    /\ ovFrom = Body /\ ovPointed = FALSE

\* Wrong: the focus is taken before it is remembered.
SettleLate(open, drawn, s, d) ==
    IF d \in open \ ovOpen THEN
        [focus |-> <<d, 1>>, trigger |-> [s.trigger EXCEPT ![d] = <<d, 1>>]]
    ELSE IF d \in ovOpen \ open THEN
        [focus |-> IF s.trigger[d] \in drawn \ {Body} THEN s.trigger[d] ELSE s.focus,
         trigger |-> [s.trigger EXCEPT ![d] = Body]]
    ELSE s

\* A dialog that opens remembers the focus, then takes it; one that closes
\* gives it back, if what had it is still drawn. The action sheet is taken
\* off the page when it closes, and gives nothing back.
Settle(open, drawn, s, d) ==
    LET leaves == d \in ovOpen \ open
        gone == d = "actions" /\ open = {}
        back == s.trigger[d] \in drawn \ {Body}
    IN IF d \in open \ ovOpen THEN
           [focus |-> <<d, 1>>, trigger |-> [s.trigger EXCEPT ![d] = s.focus]]
       ELSE [focus |-> IF leaves /\ ~gone /\ back THEN s.trigger[d] ELSE s.focus,
             trigger |-> IF leaves THEN [s.trigger EXCEPT ![d] = Body]
                         ELSE s.trigger]

\* The version is asked for while the panel is open, none is held and none is
\* awaited: again, as soon as an answer was a failure.
AskVersion(open, held, loading, out) ==
    LET asks == "help" \in open /\ ~held /\ ~loading
    IN /\ ovHeld' = held /\ ovLoading' = (loading \/ asks)
       /\ ovOut' = IF asks THEN out + 1 ELSE out
       /\ ovAsked' = IF asks /\ ovAsked < 2 THEN ovAsked + 1 ELSE ovAsked

\* The tooltip is due when the Help button gets the focus, gone when it loses
\* it; its timer goes with it.
TipMoves(focus) ==
    IF focus = HelpButton /\ ovFocus # HelpButton THEN
        ovTimer' = TRUE /\ UNCHANGED ovTip
    ELSE IF ovFocus = HelpButton /\ focus # HelpButton THEN
        ovTimer' = FALSE /\ ovTip' = FALSE
    ELSE UNCHANGED ovTipVars

\* What the page draws next, the focus being on focus as it does: what is no
\* longer drawn loses it, and then the dialogs' effects run.
Render(open, menu, row, focus) ==
    LET drawn == Drawn(open, menu, row)
        start == [focus |-> IF focus \in drawn THEN focus ELSE Body,
                  trigger |-> ovTrigger]
        end == FoldLeft(LAMBDA s, d : Settle(open, drawn, s, d), start, Hosted[ovHost])
    IN /\ ovOpen' = open /\ ovMenu' = menu /\ ovRow' = row
       /\ ovFocus' = end.focus /\ ovTrigger' = end.trigger
       /\ AskVersion(open, ovHeld, ovLoading, ovOut)
       /\ TipMoves(end.focus)
       /\ ovFrom' = IF ovOpen = {} /\ open # {} THEN start.focus ELSE ovFrom
       /\ UNCHANGED <<ovHost, ovHover>>
Keyboard == ovPointed' = (ovPointed /\ ovOpen # {})
Pointer == ovPointed' = (ovOpen # {})
------------------------------------------------------------------------------
\* The Help button is pressed, or "?" typed anywhere but in a text field, the
\* open menu included; a row of the list opens its sheet.
OvOpens ==
    /\ ovOpen = {} /\ ovFocus # Field
    /\ \/ ovHost = "desktop"
       \/ ovHost # "desktop" /\ ovRow /\ ovFocus \in {Row, Body}
    /\ Render({Hosted[ovHost][1]}, ovMenu, ovRow, ovFocus)
    /\ Keyboard /\ UNCHANGED ovActive

\* The action sheet gives way to the agent picker.
OvPick ==
    /\ ovOpen = {"actions"}
    /\ Render({"agents"}, ovMenu, ovRow, ovFocus)
    /\ Keyboard /\ UNCHANGED ovActive

\* Its Close button, the backdrop or, from the Help panel, a link to another
\* tab: what is open closes, or the picker gives way to the action sheet.
Beneath == IF ovOpen = {"agents"} THEN {"actions"} ELSE {}
OvClose == \E row \in IF ovOpen = {"help"} THEN BOOLEAN ELSE {ovRow} :
    /\ ovOpen # {}
    /\ Render(Beneath, ovMenu, row, ovFocus)
    /\ Keyboard /\ UNCHANGED ovActive

\* An open dialog hears Escape first and alone; else the menu that has the
\* focus does, or the Help button's tooltip.
EscapeTop(inMenu) ==
    IF ovOpen # {} THEN Render(Beneath, ovMenu, ovRow, ovFocus)
    ELSE inMenu /\ Render(ovOpen, FALSE, ovRow, MoreButton)
OvEscape ==
    /\ \/ EscapeTop(ovFocus \in Items)
       \/ /\ ovOpen = {} /\ ovFocus = HelpButton
          /\ ovTimer' = FALSE /\ ovTip' = FALSE
          /\ UNCHANGED <<ovHost, ovOpen, ovFocus, ovTrigger, ovMenu, ovRow,
                         ovHover, ovVersionVars, ovFrom>>
    /\ Keyboard /\ UNCHANGED ovActive

\* Tab in a dialog goes round from its last part to its first, and back; from
\* its panel it goes back to whatever is before the dialog on the page. The
\* menu closes as Tab leaves it.
Around(d, n) == {<<d, IF n = OvParts THEN 1 ELSE n + 1>>}
BackAround(d, n) == IF n = 1 THEN {<<d, OvParts>>}
                    ELSE IF n = 0 THEN Drawn({}, ovMenu, ovRow) \ {Body}
                    ELSE {<<d, n - 1>>}
OvTab == \E back \in BOOLEAN :
    LET d == ovFocus[1]
        n == ovFocus[2]
        menu == ovMenu /\ ovFocus \notin Items
    IN /\ \E next \in IF d \in ovOpen
                      THEN IF back THEN BackAround(d, n) ELSE Around(d, n)
                      ELSE Drawn(ovOpen, menu, ovRow) :
             Render(ovOpen, menu, ovRow, next)
       /\ Keyboard /\ UNCHANGED ovActive

\* The mouse button goes down on an element, or on none: of the page, only
\* what no dialog covers. The menu is drawn over the Help panel.
Reached == Drawn(ovOpen, ovMenu, ovRow) \ IF ovOpen = {} THEN {}
                                          ELSE {Row, Field, HelpButton, MoreButton}
OvPoint == \E e \in Reached :
    /\ Render(ovOpen, ovMenu /\ e \in Items \cup {MoreButton}, ovRow, e)
    /\ ovActive' = IF e \in Items THEN e[2] ELSE ovActive
    /\ Pointer

\* The menu opens on its first item, and the focus goes along with what is
\* active: an arrow, Home, End, or the pointer over an item.
Activate(i, menu) ==
    /\ ovActive' = i
    /\ Render(ovOpen, TRUE, ovRow,
              IF menu /\ ovActive = i THEN ovFocus ELSE Item(i))
OvMenuOpens ==
    /\ ovHost = "desktop" /\ (ovFocus = MoreButton \/ (ovFocus = Body /\ ovOpen = {}))
    /\ Activate(1, ovMenu) /\ Keyboard
OvMenuMoves ==
    /\ ovMenu /\ ovFocus \in Items
    /\ \E i \in {1, OvParts, (ovActive % OvParts) + 1,
                 ((ovActive + OvParts - 2) % OvParts) + 1} : Activate(i, TRUE)
    /\ Keyboard
OvMenuHover == ovMenu /\ (\E i \in 1..OvParts : Activate(i, TRUE)) /\ Pointer

\* An item is chosen, and another tab shown; or the More button is pressed.
OvMenuEnds == \E row \in BOOLEAN :
    /\ ovMenu /\ ovFocus \in Items \cup {MoreButton}
    /\ ovFocus = MoreButton => row = ovRow
    /\ Render(ovOpen, FALSE, row, MoreButton)
    /\ Keyboard /\ UNCHANGED ovActive

\* The page draws itself anew, with the row or without.
OvPage == /\ Render(ovOpen, ovMenu, ~ovRow, ovFocus)
          /\ UNCHANGED <<ovActive, ovPointed>>

\* The pointer comes to the Help button or leaves it; the timer runs out.
TipLeaves == ovTimer' = FALSE /\ ovTip' = FALSE
OvTooltip ==
    /\ ovHost = "desktop"
    /\ \/ /\ ovHover' = ~ovHover /\ (ovHover \/ ovOpen = {})
          /\ IF ovHover THEN TipLeaves ELSE ovTimer' = TRUE /\ UNCHANGED ovTip
       \/ ovTimer /\ ovTimer' = FALSE /\ ovTip' = TRUE /\ UNCHANGED ovHover
    /\ UNCHANGED <<ovHost, ovOpen, ovFocus, ovTrigger, ovMenu, ovActive, ovRow,
                   ovVersionVars, ovFrom, ovPointed>>

\* The version comes, or the request fails.
OvVersion == \E ok \in BOOLEAN :
    /\ ovOut > 0
    /\ AskVersion(ovOpen, ovHeld \/ ok, FALSE, ovOut - 1)
    /\ UNCHANGED <<ovHost, ovOpen, ovFocus, ovTrigger, ovMenu, ovActive, ovRow,
                   ovTipVars, ovHover, ovFrom, ovPointed>>

OvNext ==
    \/ OvOpens \/ OvPick \/ OvClose \/ OvEscape \/ OvTab \/ OvPoint
    \/ OvMenuOpens \/ OvMenuMoves \/ OvMenuHover \/ OvMenuEnds
    \/ OvPage \/ OvTooltip \/ OvVersion
------------------------------------------------------------------------------
(***************************************************************************)
(* The command palette, which Help offers and no page draws yet: commands  *)
(* are numbered in the order of the list, and the ones a query leaves keep *)
(* that order.                                                             *)
(***************************************************************************)

CONSTANTS
    CpCommands,     \* bound: commands
    CpMax           \* MAX_RECENT: commands remembered

ASSUME CpAssumption == {CpCommands, CpMax} \subseteq Nat \ {0}

VARIABLES
    cpOpen, cpFrames,    \* the palette is open; its input is to be focused
    cpFocus, cpPrev,     \* what has the focus, and what had it before
    cpFiltered, cpActive,     \* the commands listed, and the highlighted place
    cpRecent        \* localStorage: the last commands run, newest first

cpVars == <<cpOpen, cpFrames, cpFocus, cpPrev, cpFiltered, cpActive, cpRecent>>

CpPlaces == 0..(Cardinality(cpFiltered) - 1)
Nth(i) == CHOOSE c \in cpFiltered : Cardinality({d \in cpFiltered : d < c}) = i
------------------------------------------------------------------------------
CpTypeOK ==
    /\ {cpOpen, cpFrames} \subseteq BOOLEAN
    /\ {cpFocus, cpPrev} \subseteq {"page", "input", "body"}
    /\ cpFiltered \subseteq 1..CpCommands
    /\ cpActive \in -1..(CpCommands - 1)
    /\ cpRecent \in SeqOf(1..CpCommands, CpMax)

CpInit ==
    /\ cpOpen = FALSE /\ cpFrames = FALSE /\ cpFocus = "page"
    /\ cpPrev = "body" /\ cpFiltered = 1..CpCommands /\ cpActive = 0
    /\ cpRecent = <<>>

\* Ctrl+K, also while the palette is open: it then returns to its own input.
CpKey ==
    /\ cpPrev' = cpFocus /\ cpOpen' = TRUE
    /\ cpFrames' = (cpFrames \/ ~cpOpen)
    /\ cpFiltered' = 1..CpCommands /\ cpActive' = 0
    /\ UNCHANGED <<cpFocus, cpRecent>>

\* The input gets the focus in the next frame, if it is drawn by then.
CpFrame ==
    /\ cpFrames /\ cpFrames' = FALSE
    /\ cpFocus' = IF cpOpen THEN "input" ELSE cpFocus
    /\ UNCHANGED <<cpOpen, cpPrev, cpFiltered, cpActive, cpRecent>>

\* What had the focus gets it back, the page's body if it is not drawn.
CpShut ==
    /\ cpOpen /\ cpOpen' = FALSE
    /\ cpFocus' = IF cpPrev = "input" THEN "body" ELSE cpPrev
    /\ UNCHANGED <<cpFrames, cpPrev, cpFiltered, cpActive>>
CpClose == CpShut /\ UNCHANGED cpRecent

\* A query leaves some commands, and highlights the first.
CpType == \E left \in SUBSET (1..CpCommands) :
    /\ cpOpen /\ cpFocus = "input" /\ cpFiltered' = left /\ cpActive' = 0
    /\ UNCHANGED <<cpOpen, cpFrames, cpFocus, cpPrev, cpRecent>>

\* The arrows, which count the places from nothing when nothing is listed,
\* and the pointer over a command.
CpMove ==
    /\ cpOpen
    /\ \/ /\ cpFocus = "input"
          /\ \/ cpActive' = Min({cpActive + 1, Cardinality(cpFiltered) - 1})
             \/ cpActive' = Max({cpActive - 1, 0})
       \/ cpActive' \in CpPlaces
    /\ UNCHANGED <<cpOpen, cpFrames, cpFocus, cpPrev, cpFiltered, cpRecent>>

\* Enter, or a press on a command: it is remembered, if the browser lets the
\* page, and run.
Remembered(c) ==
    LET others == SelectSeq(cpRecent, LAMBDA r : r # c)
    IN SubSeq(<<c>> \o others, 1, Min({Len(others) + 1, CpMax}))
CpRun == \E i \in CpPlaces, kept \in BOOLEAN :
    /\ CpShut
    /\ cpRecent' = IF kept THEN Remembered(Nth(i)) ELSE cpRecent

CpNext == CpKey \/ CpFrame \/ CpClose \/ CpType \/ CpMove \/ CpRun
------------------------------------------------------------------------------
\* However the Help panel or a run's sheet is closed, and whatever was focused
\* in between, the focus goes back to where it was when it opened, unless that
\* is no longer drawn (Dialog, BottomSheet).
FocusReturns ==
    [][(/\ ovOpen \in {{"help"}, {"detail"}} /\ ovOpen' = {}
        /\ ovFrom \in Drawn({}, ovMenu', ovRow') \ {Body})
       => ovFocus' = ovFrom]_ovVars

\* From the keyboard alone there is no way out of a panel or sheet but closing
\* it: as long as the pointer was not used, the focus is inside (Dialog's
\* handleKeyDown, with a menu, a redrawn page or a late answer behind it).
TrapHolds ==
    ovOpen \in {{"help"}, {"detail"}} /\ ~ovPointed => ovFocus[1] \in ovOpen

\* Nothing that closes the Help panel closes the menu beneath it as well: the
\* Escape it hears ends there (Dialog's capturing handler).
EscapeEndsThere ==
    [][(ovOpen = {"help"} /\ ovOpen' = {} /\ ovMenu) => ovMenu']_ovVars

\* However often the Help panel is opened and closed while answers are late,
\* one question for the version is out at a time, and the panel says it is
\* checking exactly as long (HelpAbout).
OneVersionOut == ovOut = IF ovLoading THEN 1 ELSE 0

\* No tooltip stays, or comes by a timer left running, once neither the pointer
\* nor the focus is on its button (Tooltip).
TipTrue == ovTip \/ ovTimer => ovHover \/ ovFocus = HelpButton

\* "Fetch the version once": the comment of HelpAbout, which the code breaks
\* when the request fails, see the README. No run checks it.
HelpAsksOnce == ovAsked <= 1

\* "Focus moves to first interactive element on open": the comment of
\* BottomSheet, which the code breaks when the picker gives way to the action
\* sheet: the picker returns the focus after the sheet has taken it, see the
\* README. No run checks it.
OpenedHasFocus ==
    [][ovOpen' \notin {{}, ovOpen} => ovFocus'[1] \in ovOpen']_ovVars

\* Enter runs a command that is listed whenever one is: the highlight is on a
\* place of the list, however it was filtered, moved along and left empty; and
\* no command is remembered twice (CommandPalette).
PaletteTrue ==
    /\ cpOpen /\ cpFiltered # {} => cpActive \in CpPlaces
    /\ IsInjective(cpRecent)
=============================================================================

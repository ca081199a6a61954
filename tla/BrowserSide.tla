---------------------------- MODULE BrowserSide ----------------------------
(*****************************************************************************)
(* What a page keeps with the browser it runs in: the recognisers that       *)
(* listen at its microphone, the provider and model chosen for the shell,    *)
(* the theme, the service worker with its caches, and the subscription to    *)
(* push notifications.  The five share no state.                             *)
(*****************************************************************************)
EXTENDS Integers, SequencesExt

(***************************************************************************)
(* Voice input: the hook of Maxwell's chat (useVoiceInput) and the button  *)
(* of the assistant's sidebar (VoiceInputButton).  A recogniser is the     *)
(* browser's: it starts and is told to stop, but ends when it likes.       *)
(***************************************************************************)

CONSTANT VcMax      \* bound: recognisers made

ASSUME VcAssumption == VcMax \in Nat

VARIABLES
    vcPage,         \* the page that has the microphone
    vcMounted,      \* it is still drawn
    vcRef,          \* the recogniser it holds, 0 for none
    vcRecording,    \* what it shows
    vcState         \* the recognisers made: idle, live, told to stop, over

vcVars == <<vcPage, vcMounted, vcRef, vcRecording, vcState>>

VcMade == DOMAIN vcState
------------------------------------------------------------------------------
VcTypeOK ==
    /\ vcPage \in {"hook", "button"}
    /\ {vcMounted, vcRecording} \subseteq BOOLEAN
    /\ Len(vcState) <= VcMax /\ vcRef \in {0} \cup VcMade
    /\ \A r \in VcMade : vcState[r] \in {"idle", "live", "told", "over"}

\* The button makes a recogniser as it is drawn, the hook when it starts.
VcInit ==
    /\ vcPage \in {"hook", "button"}
    /\ vcMounted = TRUE /\ vcRecording = FALSE
    /\ vcState = IF vcPage = "button" THEN <<"idle">> ELSE <<>>
    /\ vcRef = Len(vcState)

Told == IF vcState[vcRef] = "live" THEN [vcState EXCEPT ![vcRef] = "told"]
        ELSE vcState

\* The hook: a new recogniser is started if none is held; the one held is
\* told to stop and let go.
VcStart ==
    /\ vcPage = "hook" /\ vcMounted /\ ~vcRecording /\ vcRef = 0
    /\ Len(vcState) < VcMax
    /\ vcState' = Append(vcState, "live") /\ vcRef' = Len(vcState')
    /\ vcRecording' = TRUE
    /\ UNCHANGED <<vcPage, vcMounted>>
VcStop ==
    /\ vcPage = "hook" /\ vcMounted /\ vcRecording
    /\ vcState' = IF vcRef = 0 THEN vcState ELSE Told
    /\ vcRef' = 0 /\ vcRecording' = FALSE
    /\ UNCHANGED <<vcPage, vcMounted>>

\* The button: its one recogniser is started, unless it still runs, or told to
\* stop. Every time the sidebar is drawn anew, as a phrase heard or a letter
\* typed has it drawn, another takes its place and it is left as it is.
VcToggle ==
    /\ vcPage = "button" /\ vcMounted
    /\ IF vcRecording THEN vcState' = Told /\ vcRecording' = FALSE
       ELSE /\ vcRecording' = (vcState[vcRef] \in {"idle", "over"})
            /\ vcState' = IF vcRecording' THEN [vcState EXCEPT ![vcRef] = "live"]
                          ELSE vcState
    /\ UNCHANGED <<vcPage, vcMounted, vcRef>>
VcDrawn ==
    /\ vcPage = "button" /\ vcMounted /\ Len(vcState) < VcMax
    /\ vcState' = Append(vcState, "idle") /\ vcRef' = Len(vcState')
    /\ UNCHANGED <<vcPage, vcMounted, vcRecording>>

\* A recogniser ends, told to or not, or by an error: whichever it is, the
\* page takes it for the one it holds.
VcEnds == \E r \in VcMade :
    /\ vcState[r] \in {"live", "told"} /\ vcState' = [vcState EXCEPT ![r] = "over"]
    /\ vcRef' = IF vcPage = "hook" THEN 0 ELSE vcRef
    /\ vcRecording' = FALSE
    /\ UNCHANGED <<vcPage, vcMounted>>

\* The page is left: the hook tells the recogniser it holds to stop.
VcLeave ==
    /\ vcMounted /\ vcMounted' = FALSE
    /\ IF vcPage = "hook" /\ vcRef # 0 THEN vcState' = Told /\ vcRef' = 0
       ELSE UNCHANGED <<vcState, vcRef>>
    /\ UNCHANGED <<vcPage, vcRecording>>

VcNext == VcStart \/ VcStop \/ VcToggle \/ VcDrawn \/ VcEnds \/ VcLeave
------------------------------------------------------------------------------
(***************************************************************************)
(* The active provider and model of the shell (useActiveProvider), chosen  *)
(* from the registry each tab asks for once, stored under two keys that    *)
(* all tabs share and read when they are drawn.                            *)
(***************************************************************************)

CONSTANTS
    ApTab,
    ApNone,
    ApOld, ApNew    \* what the registry offers, before and after an edit of
                    \* the server's configuration: each provider's models

ApModels(offers) == UNION {Range(offers[p]) : p \in DOMAIN offers}
ApChoice == [provider : DOMAIN ApOld \cup DOMAIN ApNew \cup {ApNone},
             model : ApModels(ApOld) \cup ApModels(ApNew) \cup {ApNone}]
ApEmpty == [provider |-> ApNone, model |-> ApNone]

VARIABLES
    apServer,       \* what the server's registry offers
    apRegistry,     \* what each tab was told; "asked", "failed" or "closed"
    apOpen,         \* tabs whose selector is open
    apActive,       \* the choice each tab shows
    apStored,       \* localStorage: the two keys
    apFailed        \* recorded: a write to it failed

apVars == <<apServer, apRegistry, apOpen, apActive, apStored, apFailed>>

ApTold(t) == apRegistry[t].told = "yes"
ApOffers(t) == apRegistry[t].offers
ApAnswer(told, offers) == [told |-> told, offers |-> offers]
------------------------------------------------------------------------------
ApTypeOK ==
    /\ apServer \in {ApOld, ApNew}
    /\ \A t \in ApTab : /\ apRegistry[t].told \in {"asked", "yes", "failed", "closed"}
                        /\ apRegistry[t].offers \in {ApOld, ApNew}
    /\ apOpen \subseteq ApTab
    /\ apActive \in [ApTab -> ApChoice] /\ apStored \in ApChoice
    /\ apFailed \in BOOLEAN

ApInit ==
    /\ apServer = ApOld
    /\ apRegistry = [t \in ApTab |-> ApAnswer("closed", ApOld)]
    /\ apOpen = {} /\ apActive = [t \in ApTab |-> ApEmpty]
    /\ apStored = ApEmpty /\ apFailed = FALSE

\* A tab is opened, or loaded anew: it reads the two keys and asks once; what
\* it asked before is cancelled.
ApLoad == \E t \in ApTab :
    /\ apRegistry' = [apRegistry EXCEPT ![t] = ApAnswer("asked", ApOld)]
    /\ apActive' = [apActive EXCEPT ![t] = apStored]
    /\ apOpen' = apOpen \ {t}
    /\ UNCHANGED <<apServer, apStored, apFailed>>
ApAsked == \E t \in ApTab, ok \in BOOLEAN :
    /\ apRegistry[t].told = "asked"
    /\ apRegistry' = [apRegistry EXCEPT ![t] =
                        IF ok THEN ApAnswer("yes", apServer) ELSE ApAnswer("failed", ApOld)]
    /\ UNCHANGED <<apServer, apOpen, apActive, apStored, apFailed>>
ApEdit == /\ apServer' = ApNew
          /\ UNCHANGED <<apRegistry, apOpen, apActive, apStored, apFailed>>

\* The control is drawn once the registry came; the selector opens and closes.
ApToggle == \E t \in ApTab :
    /\ ApTold(t)
    /\ apOpen' = IF t \in apOpen THEN apOpen \ {t} ELSE apOpen \cup {t}
    /\ UNCHANGED <<apServer, apRegistry, apActive, apStored, apFailed>>

\* The provider the tab resolves its choice to, if the registry still has it.
Resolved(t) == IF apActive[t].provider \in DOMAIN ApOffers(t)
               THEN apActive[t].provider ELSE ApNone
ModelsOf(t) == IF Resolved(t) = ApNone THEN {} ELSE Range(ApOffers(t)[Resolved(t)])

\* A choice is stored under the two keys, of which either write may fail.
Store(s, ok, okModel) ==
    [provider |-> IF ok THEN s.provider ELSE apStored.provider,
     model |-> IF okModel THEN s.model ELSE apStored.model]

Choose(t, s) == \E ok, okModel \in BOOLEAN :
    /\ apActive' = [apActive EXCEPT ![t] = s]
    /\ apStored' = Store(s, ok, okModel)
    /\ apFailed' = (apFailed \/ ~ok \/ ~okModel)
    /\ UNCHANGED <<apServer, apRegistry, apOpen>>

\* A provider is chosen with the first of its models, if it has any, or none
\* is; or a model of the provider that is shown.
SelectionForProvider(t, p) ==
    [provider |-> p,
     model |-> IF ApOffers(t)[p] = <<>> THEN ApNone ELSE Head(ApOffers(t)[p])]
ApProvide == \E t \in apOpen :
    \E s \in {ApEmpty} \cup {SelectionForProvider(t, p) : p \in DOMAIN ApOffers(t)} :
       Choose(t, s)
ApModel == \E t \in apOpen :
    \E m \in ModelsOf(t) : Choose(t, [provider |-> Resolved(t), model |-> m])

ApNext == ApLoad \/ ApAsked \/ ApEdit \/ ApToggle \/ ApProvide \/ ApModel
------------------------------------------------------------------------------
(***************************************************************************)
(* The theme (useTheme): what the operator chose, what the document shows, *)
(* key by key, and what localStorage holds for the next visit.             *)
(***************************************************************************)

CONSTANTS
    ThTheme,        \* the fleet's themes, "light" and "dark" among them
    ThAccent,       \* accent presets
    ThNone

ThKeys == {"accent", "other"}     \* ACCENT_VAR_KEYS, and the rest

VARIABLES
    thMode, thSystem,    \* what was chosen, and what the system prefers
    thAccent,
    thOpen,         \* the selector is open
    thShown,        \* the document: the value of each key, and from what theme
    thStored        \* localStorage

thVars == <<thMode, thSystem, thAccent, thOpen, thShown, thStored>>

ThModes == ThTheme \cup {"system"}
ThStored == [mode : ThModes, accent : ThAccent \cup {ThNone}]
------------------------------------------------------------------------------
ThTypeOK ==
    /\ thMode \in ThModes /\ thSystem \in {"light", "dark"}
    /\ thAccent \in ThAccent \cup {ThNone}
    /\ thOpen \in BOOLEAN
    /\ thShown \in [ThKeys -> ThTheme \cup ThAccent \cup {ThNone}]
    /\ thStored \in ThStored

\* Every theme sets every key; an accent is laid over the keys of its own.
ApplyFleetCssVars(theme, accent) ==
    thShown' = [k \in ThKeys |-> IF k = "accent" /\ accent # ThNone THEN accent ELSE theme]
ResolvedTheme(mode, system) == IF mode = "system" THEN system ELSE mode

ThInit ==
    /\ thMode = "system" /\ thSystem \in {"light", "dark"} /\ thAccent = ThNone
    /\ thOpen = FALSE /\ thShown = [k \in ThKeys |-> thSystem]
    /\ thStored = [mode |-> "system", accent |-> ThNone]

\* A theme is chosen in the open selector, an accent among the presets; the
\* browser may refuse to store either.
ThSetMode == \E mode \in ThModes, kept \in BOOLEAN :
    /\ thOpen /\ thOpen' = FALSE /\ thMode' = mode
    /\ ApplyFleetCssVars(ResolvedTheme(mode, thSystem), thAccent)
    /\ thStored' = IF kept THEN [thStored EXCEPT !.mode = mode] ELSE thStored
    /\ UNCHANGED <<thSystem, thAccent>>
ThSetAccent == \E accent \in ThAccent \cup {ThNone}, kept \in BOOLEAN :
    /\ thAccent' = accent
    /\ ApplyFleetCssVars(ResolvedTheme(thMode, thSystem), accent)
    /\ thStored' = IF kept THEN [thStored EXCEPT !.accent = accent] ELSE thStored
    /\ thOpen' = FALSE    \* a press outside the selector
    /\ UNCHANGED <<thMode, thSystem>>
ThToggle == thOpen' = ~thOpen /\ UNCHANGED <<thMode, thSystem, thAccent, thShown, thStored>>

\* The system prefers the other; the page is loaded anew; another tab stores
\* its own choice, which this one sees when it is loaded.
ThSystem ==
    /\ thSystem' = IF thSystem = "light" THEN "dark" ELSE "light"
    /\ ApplyFleetCssVars(ResolvedTheme(thMode, thSystem'), thAccent)
    /\ UNCHANGED <<thMode, thAccent, thOpen, thStored>>
ThReload ==
    /\ thMode' = thStored.mode /\ thAccent' = thStored.accent /\ thOpen' = FALSE
    /\ ApplyFleetCssVars(ResolvedTheme(thMode', thSystem), thAccent')
    /\ UNCHANGED <<thSystem, thStored>>
ThOtherTab == /\ thStored' \in ThStored
              /\ UNCHANGED <<thMode, thSystem, thAccent, thOpen, thShown>>

ThNext == ThSetMode \/ ThSetAccent \/ ThToggle \/ ThSystem \/ ThReload \/ ThOtherTab
------------------------------------------------------------------------------
(***************************************************************************)
(* The service worker (public/sw.js): a worker and a cache for every build *)
(* a page was loaded from.  One installs at a time; it takes over at once, *)
(* and deletes the caches of the others.                                   *)
(***************************************************************************)

CONSTANT SwBuilds   \* bound: builds deployed

ASSUME SwAssumption == SwBuilds \in Nat \ {0}

VARIABLES
    swServed, swOnline,     \* the build the server serves, if it is reached
    swPage,         \* the build the page was loaded from, 0 for none
    swAsked,        \* builds a page that was loaded registers
    swInstalling, swWaiting, swActive,  \* the worker of each state, 0 for none
    swCleaning,     \* the active one still deletes caches
    swCaches,       \* the cache of each build: none, some of it, the shell
    swLate,         \* builds whose worker still writes an asset it fetched
    swKept,         \* recorded: builds whose install cached the shell, with no
                    \* other worker deleting caches meanwhile
    swOffer         \* the page says that an update is ready

swWorkers == <<swInstalling, swWaiting, swActive, swCleaning>>
swVars == <<swServed, swOnline, swPage, swAsked, swWorkers, swCaches, swLate,
            swKept, swOffer>>

SwBuild == 1..SwBuilds
------------------------------------------------------------------------------
SwTypeOK ==
    /\ swServed \in SwBuild
    /\ {swOnline, swCleaning, swOffer} \subseteq BOOLEAN
    /\ {swPage, swInstalling, swWaiting, swActive} \subseteq SwBuild \cup {0}
    /\ {swAsked, swLate, swKept} \subseteq SUBSET SwBuild
    /\ swCaches \in [SwBuild -> {"none", "part", "shell"}]

SwInit ==
    /\ swServed = 1 /\ swOnline = TRUE /\ swPage = 0 /\ swAsked = {}
    /\ swInstalling = 0 /\ swWaiting = 0 /\ swActive = 0 /\ swCleaning = FALSE
    /\ swCaches = [b \in SwBuild |-> "none"]
    /\ swLate = {} /\ swKept = {} /\ swOffer = FALSE

SwDeploy ==
    /\ swServed < SwBuilds /\ swServed' = swServed + 1
    /\ UNCHANGED <<swOnline, swPage, swAsked, swWorkers, swCaches, swLate, swKept,
                   swOffer>>
SwNetwork ==
    /\ swOnline' = ~swOnline
    /\ UNCHANGED <<swServed, swPage, swAsked, swWorkers, swCaches, swLate, swKept,
                   swOffer>>

\* A page is loaded from the network, and registers the worker of its build;
\* without network it is the offline page, or the browser's error.
SwLoad ==
    /\ swPage' = IF swOnline THEN swServed ELSE 0
    /\ swAsked' = IF swOnline THEN swAsked \cup {swServed} ELSE swAsked
    /\ swOffer' = FALSE
    /\ UNCHANGED <<swServed, swOnline, swWorkers, swCaches, swLate, swKept>>

Opened(b) == [swCaches EXCEPT ![b] = IF @ = "none" THEN "part" ELSE @]

\* The worker of a build is fetched, unless it is the active one; it opens its
\* cache.
SwInstall == \E b \in swAsked :
    /\ swInstalling = 0 /\ swAsked' = swAsked \ {b}
    /\ IF swOnline /\ b \notin {swActive, swWaiting}
         THEN /\ swInstalling' = b /\ swCaches' = Opened(b)
              /\ swKept' = IF swCleaning THEN swKept \ {b} ELSE swKept \cup {b}
         ELSE UNCHANGED <<swInstalling, swCaches, swKept>>
    /\ UNCHANGED <<swServed, swOnline, swPage, swWaiting, swActive, swCleaning,
                   swLate, swOffer>>

\* All of the shell is cached, in the cache that was opened if it was not
\* deleted since, or none is; either way the worker takes over.
SwInstalled == \E ok \in BOOLEAN :
    /\ swInstalling # 0 /\ swInstalling' = 0 /\ swWaiting' = swInstalling
    /\ swCaches' = [swCaches EXCEPT ![swInstalling] =
                      IF ok /\ @ # "none" THEN "shell" ELSE @]
    /\ swKept' = IF ok THEN swKept ELSE swKept \ {swInstalling}
    /\ UNCHANGED <<swServed, swOnline, swPage, swAsked, swActive, swCleaning,
                   swLate, swOffer>>
SwActivate ==
    /\ swWaiting # 0 /\ ~swCleaning
    /\ swActive' = swWaiting /\ swWaiting' = 0 /\ swCleaning' = TRUE
    /\ swKept' = IF swInstalling = 0 THEN swKept ELSE swKept \ {swInstalling}
    /\ UNCHANGED <<swServed, swOnline, swPage, swAsked, swInstalling, swCaches,
                   swLate, swOffer>>

\* The page has another worker in charge, and offers to reload.
ControllerChange == swOffer' = (swOffer \/ swPage # 0)

\* The caches of all other builds are deleted; then the worker claims the page:
\* the first one, too.
SwClean ==
    /\ swCleaning /\ swCleaning' = FALSE
    /\ swCaches' = [b \in SwBuild |-> IF b = swActive THEN swCaches[b] ELSE "none"]
    /\ ControllerChange
    /\ UNCHANGED <<swServed, swOnline, swPage, swAsked, swInstalling, swWaiting,
                   swActive, swLate, swKept>>

\* An asset that was not cached comes from the network, and is written later;
\* by a worker that was replaced meanwhile, into a cache opened anew.
SwAsset ==
    /\ swActive # 0 /\ ~swCleaning /\ swOnline /\ swPage # 0
    /\ swLate' = swLate \cup {swActive}
    /\ UNCHANGED <<swServed, swOnline, swPage, swAsked, swWorkers, swCaches, swKept,
                   swOffer>>
SwPut == \E b \in swLate :
    /\ swLate' = swLate \ {b} /\ swCaches' = Opened(b)
    /\ UNCHANGED <<swServed, swOnline, swPage, swAsked, swWorkers, swKept, swOffer>>

SwNext == \/ SwDeploy \/ SwNetwork \/ SwLoad \/ SwInstall \/ SwInstalled
          \/ SwActivate \/ SwClean \/ SwAsset \/ SwPut
------------------------------------------------------------------------------
(***************************************************************************)
(* Push notifications (PushSettings): the subscription is the browser's,   *)
(* is made first and then told to the server.                              *)
(***************************************************************************)

CONSTANTS
    PsTopic,        \* PUSH_TOPICS
    PsFlights       \* bound: presses in flight

ASSUME PsAssumption == PsFlights \in Nat \ {0}

VARIABLES
    psKey,          \* the server's key: "asked", "known", "none", "unconfigured"
    psSubscribed, psTopics,     \* what the page shows
    psFlight,       \* presses in flight: whether of this visit, and the step due
    psBrowser,      \* the browser holds a subscription
    psTold,         \* recorded: the server was told of one
    psOverlap       \* recorded: two presses were in flight in this visit

psPage == <<psKey, psSubscribed, psTopics>>
psVars == <<psPage, psFlight, psBrowser, psTold, psOverlap>>
------------------------------------------------------------------------------
PsTypeOK ==
    /\ psKey \in {"asked", "known", "none", "unconfigured"}
    /\ {psSubscribed, psBrowser, psTold, psOverlap} \subseteq BOOLEAN
    /\ psTopics \subseteq PsTopic
    /\ psFlight \in SeqOf([here : BOOLEAN, step : {"subscribe", "post", "unsubscribe"}],
                          PsFlights)

\* A browser may hold a subscription from before.
PsInit ==
    /\ psKey = "asked" /\ psSubscribed = FALSE /\ psTopics = {}
    /\ psFlight = <<>> /\ psBrowser \in BOOLEAN /\ psTold = psBrowser
    /\ psOverlap = FALSE

\* The page is opened anew: what is in flight goes on without it.
PsOpen ==
    /\ psKey' = "asked" /\ psSubscribed' = FALSE /\ psTopics' = {}
    /\ psFlight' = [i \in DOMAIN psFlight |-> [psFlight[i] EXCEPT !.here = FALSE]]
    /\ psOverlap' = FALSE
    /\ UNCHANGED <<psBrowser, psTold>>
PsKeyComes ==
    /\ psKey = "asked" /\ psKey' \in {"known", "none", "unconfigured"}
    /\ UNCHANGED <<psSubscribed, psTopics, psFlight, psBrowser, psTold, psOverlap>>
PsTick == \E t \in PsTopic :
    /\ psKey # "unconfigured" /\ ~psSubscribed
    /\ psTopics' = IF t \in psTopics THEN psTopics \ {t} ELSE psTopics \cup {t}
    /\ UNCHANGED <<psKey, psSubscribed, psFlight, psBrowser, psTold, psOverlap>>

\* One button is shown; neither is locked while its press is in flight.
Press(step) ==
    /\ psKey # "unconfigured" /\ Len(psFlight) < PsFlights
    /\ psFlight' = Append(psFlight, [here |-> TRUE, step |-> step])
    /\ psOverlap' = (psOverlap \/ psFlight # <<>>)
    /\ UNCHANGED <<psPage, psBrowser, psTold>>
PsSubscribe == ~psSubscribed /\ psKey = "known" /\ Press("subscribe")
PsUnsubscribe == psSubscribed /\ Press("unsubscribe")

\* The browser subscribes, or refuses to.
PsGranted == \E i \in DOMAIN psFlight, ok \in BOOLEAN :
    /\ psFlight[i].step = "subscribe"
    /\ psBrowser' = (psBrowser \/ ok)
    /\ psFlight' = IF ok THEN [psFlight EXCEPT ![i].step = "post"]
                   ELSE RemoveAt(psFlight, i)
    /\ UNCHANGED <<psPage, psTold, psOverlap>>

\* Only an accepted subscription is shown; of a lost answer the server knows.
PsPosted == \E i \in DOMAIN psFlight, ok, reached \in BOOLEAN :
    /\ psFlight[i].step = "post" /\ (ok => reached)
    /\ psTold' = (psTold \/ reached)
    /\ psSubscribed' = (psSubscribed \/ (ok /\ psFlight[i].here))
    /\ psFlight' = RemoveAt(psFlight, i)
    /\ UNCHANGED <<psKey, psTopics, psBrowser, psOverlap>>

\* The server is not told of the end.
PsEnded == \E i \in DOMAIN psFlight, ok \in BOOLEAN :
    /\ psFlight[i].step = "unsubscribe"
    /\ psBrowser' = (psBrowser /\ ~ok)
    /\ IF ok /\ psFlight[i].here THEN psSubscribed' = FALSE /\ psTopics' = {}
       ELSE UNCHANGED <<psSubscribed, psTopics>>
    /\ psFlight' = RemoveAt(psFlight, i)
    /\ UNCHANGED <<psKey, psTold, psOverlap>>

PsNext == \/ PsOpen \/ PsKeyComes \/ PsTick \/ PsSubscribe \/ PsUnsubscribe
          \/ PsGranted \/ PsPosted \/ PsEnded
------------------------------------------------------------------------------
\* The page shows that it records only while the recogniser it holds does, or,
\* of the button's, one it made and was not told to stop: however late another
\* ends.
RecordingTrue ==
    vcRecording /\ vcMounted =>
        \E r \in VcMade : vcState[r] = "live" /\ (vcPage = "hook" => r = vcRef)

\* "Clean up on unmount": the comment of useVoiceInput, which the code breaks
\* when a recogniser told to stop ends after another was started: the page
\* lets go of the other, and leaves it to listen, see the README. No run
\* checks it.
SilentOnceLeft ==
    vcPage = "hook" /\ ~vcMounted => \A r \in VcMade : vcState[r] # "live"

\* A choice is shown, and stored, with its provider: never the model of one
\* provider under the name of another, whatever tabs wrote and whatever became
\* of the registry, unless the browser refused one of the two keys.
Anchored(s) == s = ApEmpty \/ \E offers \in {ApOld, ApNew} :
    /\ s.provider \in DOMAIN offers
    /\ s.model \in IF offers[s.provider] = <<>> THEN {ApNone} ELSE Range(offers[s.provider])
ChoiceAnchored ==
    ~apFailed => Anchored(apStored) /\ \A t \in ApTab : Anchored(apActive[t])

\* The document shows one theme, the one that was chosen or that the system
\* prefers, under the accent chosen, if any: no key is left over from a theme
\* or an accent shown before (applyFleetCssVars).
ThemeDrawn ==
    LET theme == ResolvedTheme(thMode, thSystem)
    IN /\ thShown["other"] = theme
       /\ thShown["accent"] = IF thAccent = ThNone THEN theme ELSE thAccent

\* A page that is loaded without network shows the offline page: the worker in
\* charge has its shell, whatever builds were installed and deleted after one
\* another and however late an older worker writes, if its install cached it
\* and no other worker deleted caches meanwhile (sw.js). The worker that could
\* not cache it takes over all the same, see the README.
OfflineShellKept ==
    swActive \in swKept => swCaches[swActive] = "shell"

\* The page says it is subscribed only if the browser is, and the server was
\* told, however requests fail and whatever was in flight when the page was
\* opened, unless two presses were in flight in one visit: neither button is
\* locked (PushSettings).
PushTrue == psSubscribed /\ ~psOverlap => psBrowser /\ psTold
=============================================================================

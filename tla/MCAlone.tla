------------------------------ MODULE MCAlone ------------------------------
(***************************************************************************)
(* What acts alone, for TLC: the one worker that the server is documented  *)
(* to run (WORKERS = 1), on its lease store; the one job of the panel      *)
(* review that GitHub runs at a time; and what a user has over the pages   *)
(* and keeps with the browser.  They share no state, so one run checks     *)
(* them one at a time: scene names the one that runs, and every other      *)
(* rests in one of its initial states.                                     *)
(***************************************************************************)
EXTENDS MCLeaseStore, PanelReview, Overlays, BrowserSide

VARIABLE scene     \* the part that runs

CONSTANTS a, b, None

MCOld == [p \in {"claude", "jules"} |-> IF p = "claude" THEN <<"opus", "haiku">> ELSE <<>>]
MCNew == [p \in {"claude", "codex"} |-> IF p = "claude" THEN <<"sonnet">> ELSE <<"gpt">>]
MCSays == [by : {a, b}, stance : {"support", "oppose"}] \cup [by : {b}, stance : {"modify"}]
MCThemes == {"light", "dark", "nord"}

Rest ==
  /\ IF scene = "store" THEN TRUE ELSE UNCHANGED vars
  /\ IF scene = "panel" THEN TRUE ELSE UNCHANGED pvVars
  /\ IF scene = "overlays" THEN TRUE ELSE UNCHANGED ovVars
  /\ IF scene = "palette" THEN TRUE ELSE UNCHANGED cpVars
  /\ IF scene = "voice" THEN TRUE ELSE UNCHANGED vcVars
  /\ IF scene = "provider" THEN TRUE ELSE UNCHANGED apVars
  /\ IF scene = "theme" THEN TRUE ELSE UNCHANGED thVars
  /\ IF scene = "worker" THEN TRUE ELSE UNCHANGED swVars
  /\ IF scene = "push" THEN TRUE ELSE UNCHANGED psVars
  /\ UNCHANGED scene

AloneInit ==
  /\ scene \in {"store", "panel", "overlays", "palette", "voice", "provider",
               "theme", "worker", "push"}
  /\ Init /\ PvInit
  /\ OvInit /\ (scene = "overlays" \/ ovHost = "desktop")
  /\ CpInit
  /\ VcInit /\ (scene = "voice" \/ vcPage = "hook")
  /\ ApInit
  /\ ThInit /\ (scene = "theme" \/ thSystem = "light")
  /\ SwInit
  /\ PsInit /\ (scene = "push" \/ ~psBrowser)

AloneNext ==
  \/ scene = "store" /\ Next /\ Rest
  \/ scene = "panel" /\ PvNext /\ Rest
  \/ scene = "overlays" /\ OvNext /\ Rest
  \/ scene = "palette" /\ CpNext /\ Rest
  \/ scene = "voice" /\ VcNext /\ Rest
  \/ scene = "provider" /\ ApNext /\ Rest
  \/ scene = "theme" /\ ThNext /\ Rest
  \/ scene = "worker" /\ SwNext /\ Rest
  \/ scene = "push" /\ PsNext /\ Rest

aloneVars == <<scene, vars, pvVars, ovVars, cpVars, vcVars, apVars, thVars,
               swVars, psVars>>

\* PvFairness of the panel review, if that is what runs.
AloneSpec ==
  /\ AloneInit /\ [][AloneNext]_aloneVars
  /\ WF_pvVars(scene = "panel" /\ PvCron)
  /\ WF_pvVars(scene = "panel" /\ PvGoesOn)
-----------------------------------------------------------------------------
\* The states of the parts have their types.
AloneTypeOK ==
  /\ TypeOK
  /\ PanelTypeOK
  /\ OvTypeOK /\ CpTypeOK
  /\ VcTypeOK /\ ApTypeOK /\ ThTypeOK /\ SwTypeOK /\ PsTypeOK

\* What is drawn over the pages gives the focus back and is not left by the
\* keyboard, Escape ends at the topmost, nothing is left shown, recording or
\* half chosen, the offline page stays and a subscription shown is one,
\* whatever is pressed, ends late or was refused meanwhile.
WidgetsHold ==
  /\ FocusReturns /\ EscapeEndsThere
  /\ [](TrapHolds /\ OneVersionOut /\ TipTrue /\ PaletteTrue)
  /\ [](RecordingTrue /\ ChoiceAnchored /\ ThemeDrawn)
  /\ [](OfflineShellKept /\ PushTrue)

\* Every issue that can be commented on is briefed.
PanelBriefs == scene = "panel" => BriefComes
=============================================================================

------------------------------ MODULE PrivacySeal ------------------------------
(***************************************************************************)
(* What covers the content of the tabs of one browser: the seal, put on    *)
(* when a capture is attempted and taken off by a click on the screen that *)
(* LockContext then shows; the blackout of a tab that is not in front; and *)
(* the guard of the signed-in pages, for a held Shift, three fingers, and  *)
(* pages not in front.  An entry of localStorage tells the other tabs of   *)
(* each seal and unlock.  What PIN the PIN screen takes is AppLock's.      *)
(*                                                                         *)
(* The page is black when its root is hidden; a screen of LockContext is   *)
(* above that.  The "away" screen does not occur: setAwayCb has no caller. *)
(***************************************************************************)
EXTENDS Sequences, Naturals

CONSTANTS Tabs, MaxTurns    \* MaxTurns: bound on what the user and the PIN do

ASSUME PrivacySealAssumption == MaxTurns \in Nat

VARIABLES
  view,                     \* each tab
  guard,                    \* the second layer of each tab
  unlockedKey,              \* "_nxgu" of localStorage is "1"
  mirrors,                  \* storage events on their way to each tab
  odd,                      \* tabs that CoverKept excepts
  turns

sealVars == <<view, guard, unlockedKey, mirrors, odd, turns>>

\* sealed: SHIELD_CLASS and requiresExplicitUnlock, which change together;
\* dark: root hidden; armed: awayArmed.  "legal" stands for the pages outside
\* AppShell that are not for guests, "leaving" for focus about to move.
Opened(path) ==
  [path |-> path, where |-> "here", lockScreen |-> "active",
   sealed |-> FALSE, dark |-> FALSE, armed |-> FALSE]
NoGuard == [shown |-> FALSE, hiding |-> FALSE, held |-> {}, cancelled |-> FALSE]

\* The tabs have been in front, and the window is now minimised.
SealInit ==
  /\ view = [t \in Tabs |-> [Opened("app") EXCEPT !.where = "hidden", !.armed = TRUE, !.dark = TRUE]]
  /\ guard = [t \in Tabs |-> [NoGuard EXCEPT !.shown = TRUE]]
  /\ unlockedKey = FALSE
  /\ mirrors = [t \in Tabs |-> << >>]
  /\ odd = {}
  /\ turns = 0

Turn == turns < MaxTurns /\ turns' = turns + 1
Unprompted == UNCHANGED turns
View(t, v) == view' = [view EXCEPT ![t] = v]
InFront(v) == v.where \in {"here", "leaving"}

\* setItem or removeItem: an event for the other tabs when the value changes.
SetKey(t, on) ==
  /\ unlockedKey' = on
  /\ mirrors' = IF on = unlockedKey THEN mirrors
                ELSE [u \in Tabs |-> IF u = t THEN mirrors[u] ELSE Append(mirrors[u], on)]
KeepKey == UNCHANGED <<unlockedKey, mirrors>>

-------------------------------------------------------------------------------
(* The functions of privacySeal.ts, on what they change of a tab.          *)

sealContent(v) == IF v.path = "guest" THEN v ELSE [v EXCEPT !.sealed = TRUE, !.dark = TRUE]
Uncovered(v) == [v EXCEPT !.sealed = FALSE, !.dark = FALSE]
tryUnsealContent(v) ==
  IF v.path # "guest" /\ v.sealed THEN sealContent(v) ELSE Uncovered(v)
armAwayBlackout(v) ==
  IF v.path = "guest" \/ v.sealed THEN v ELSE [v EXCEPT !.armed = TRUE, !.dark = TRUE]
\* Slip: without the return for a lock that took over meanwhile.
revealed(v) == [v EXCEPT !.armed = FALSE, !.dark = IF v.armed THEN FALSE ELSE v.dark]
\* dispatchAway is never handled.
onReturnFromAway(v) ==
  [v EXCEPT !.armed = FALSE, !.dark = IF v.armed /\ ~v.sealed THEN FALSE ELSE v.dark]

\* tryUnsealContent on a guest page removes the key (releaseGuestAuthShield).
Synced(t, v) ==
  /\ View(t, tryUnsealContent(v))
  /\ IF v.path = "guest" THEN SetKey(t, FALSE) ELSE KeepKey

-------------------------------------------------------------------------------
(* Captures, the screens of LockContext.                                   *)

Screen(v, screen) == IF v.path = "guest" THEN v ELSE [v EXCEPT !.lockScreen = screen]

\* PrintScreen and its kin, and printing: immediateBlackout, sealContent(15 s),
\* which tells no other tab, and dispatchScreenshot.
Capture(t) ==
  /\ Turn
  /\ InFront(view[t])
  /\ View(t, Screen(sealContent([view[t] EXCEPT !.dark = TRUE]), "screenshot_blocked"))
  /\ KeepKey
  /\ UNCHANGED <<guard, odd>>

\* Under AppShell the guard's own listener swallows the event.
CopyOutsideAppShell(t) ==
  /\ Turn
  /\ InFront(view[t]) /\ view[t].path = "legal"
  /\ View(t, Screen(sealContent(view[t]), "screenshot_blocked"))
  /\ IF view[t].sealed THEN KeepKey ELSE SetKey(t, FALSE)
  /\ UNCHANGED <<guard, odd>>

\* unlock, explicitUnlock
ClickToUnlock(t) ==
  /\ Turn
  /\ view[t].where = "here"
  /\ view[t].path # "guest" /\ view[t].lockScreen = "screenshot_blocked"
  /\ View(t, [Uncovered(view[t]) EXCEPT !.lockScreen = "active"])
  /\ SetKey(t, TRUE)
  /\ odd' = odd \ {t}
  /\ UNCHANGED guard

\* Inactivity, a lock from another device, an answer of the server.
AskPin(t) ==
  /\ Turn
  /\ view[t].path # "guest"
  /\ View(t, [view[t] EXCEPT !.lockScreen = "pin_required"])
  /\ KeepKey
  /\ UNCHANGED <<guard, odd>>

\* onPinVerify, onBiometricUnlock; explicitUnlock is not called.
EnterPin(t) ==
  /\ Turn
  /\ view[t].where = "here"
  /\ view[t].path # "guest" /\ view[t].lockScreen = "pin_required"
  /\ View(t, [view[t] EXCEPT !.lockScreen = "active"])
  /\ odd' = IF view[t].sealed THEN odd \union {t} ELSE odd
  /\ KeepKey
  /\ UNCHANGED guard

-------------------------------------------------------------------------------
(* Focus and visibility, which both layers listen to.                      *)

ShowGuard(t) == guard' = [guard EXCEPT ![t].shown = view[t].path = "app", ![t].hiding = FALSE]
HideGuard(t) == guard' = [guard EXCEPT ![t].hiding = view[t].path = "app"]

\* The seal acts on the keystroke, before any blur.
PressFocusKey(t) ==
  /\ Turn
  /\ view[t].where = "here"
  /\ View(t, [armAwayBlackout(view[t]) EXCEPT !.where = "leaving"])
  /\ KeepKey
  /\ UNCHANGED <<guard, odd>>

GoAway(t, where) ==
  /\ Turn
  /\ InFront(view[t]) \/ (view[t].where = "blurred" /\ where = "hidden")
  /\ View(t, [armAwayBlackout(view[t]) EXCEPT !.where = where])
  /\ ShowGuard(t)
  /\ KeepKey
  /\ UNCHANGED odd

\* visibilitychange when the tab was hidden, then focus.
ComeBack(t) ==
  /\ Unprompted
  /\ ~InFront(view[t])
  /\ View(t, [onReturnFromAway(view[t]) EXCEPT
                !.where = IF @ = "hidden" THEN "blurred" ELSE "here"])
  /\ HideGuard(t)
  /\ odd' = IF view[t].sealed THEN odd ELSE odd \ {t}
  /\ KeepKey

\* syncSealState, every 80 ms
Poll(t) ==
  LET v == view[t] IN
  /\ Unprompted
  /\ v.armed => v.sealed /\ v.path # "guest"
  /\ Synced(t, v)
  /\ UNCHANGED <<guard, odd>>

\* Outside the app or within; PrivacyRouteSync.  The tab may be in the background.
Navigate(t, path) ==
  LET v == [view[t] EXCEPT !.path = path] IN
  /\ Turn
  /\ path # view[t].path
  /\ Synced(t, v)
  /\ guard' = [guard EXCEPT ![t] = NoGuard]
  /\ odd' = CASE path = "guest" -> odd \ {t}
              [] v.armed \/ ~InFront(v) -> odd \union {t}
              [] OTHER -> odd

ReloadTab(t) ==
  /\ Turn
  /\ view[t].where = "here"
  /\ Synced(t, Opened(view[t].path))
  /\ guard' = [guard EXCEPT ![t] = NoGuard]
  /\ odd' = odd \ {t}

\* The storage event.  The seal it puts on has no screen.
Mirror(t) ==
  LET v == view[t]
      on == Head(mirrors[t])
      rest == [mirrors EXCEPT ![t] = Tail(@)]
      changes == unlockedKey /\ (IF on THEN v.path = "guest" ELSE v.path # "guest" /\ ~v.sealed) IN
  /\ Unprompted
  /\ mirrors[t] # << >>
  /\ View(t, IF on THEN tryUnsealContent(v) ELSE sealContent(v))
  /\ unlockedKey' = (unlockedKey /\ ~changes)
  /\ mirrors' = IF changes THEN [u \in Tabs |-> IF u = t THEN rest[u] ELSE Append(rest[u], FALSE)]
                ELSE rest
  /\ odd' = IF ~v.sealed /\ v.path # "guest" /\ (IF on THEN v.armed ELSE v.lockScreen = "active")
            THEN odd \union {t} ELSE odd
  /\ UNCHANGED guard

-------------------------------------------------------------------------------
(* The guard: useScreenshotPrevention.                                     *)

\* Shift is pressed, or a third finger put down.
Hold(t, what) ==
  /\ Turn
  /\ InFront(view[t]) /\ view[t].path = "app" /\ what \notin guard[t].held
  /\ guard' = [guard EXCEPT ![t].shown = TRUE, ![t].hiding = FALSE, ![t].held = @ \union {what}]
  /\ KeepKey
  /\ UNCHANGED <<view, odd>>

\* What is let go while another window has the focus is not heard of.
LetGoOf(t, what) ==
  /\ Unprompted
  /\ what \in guard[t].held
  /\ guard' = [guard EXCEPT ![t].hiding = @ \/ InFront(view[t]), ![t].held = @ \ {what}]
  /\ KeepKey
  /\ UNCHANGED <<view, odd>>

\* touchcancel has no listener.
TouchTaken(t) ==
  /\ Turn
  /\ "fingers" \in guard[t].held
  /\ guard' = [guard EXCEPT ![t].held = @ \ {"fingers"}, ![t].cancelled = TRUE]
  /\ KeepKey
  /\ UNCHANGED <<view, odd>>

\* 200 to 700 ms later
GuardTimer(t) ==
  /\ Unprompted
  /\ guard[t].hiding
  /\ guard' = [guard EXCEPT ![t].shown = FALSE, ![t].hiding = FALSE, ![t].cancelled = FALSE]
  /\ KeepKey
  /\ UNCHANGED <<view, odd>>

SealNext ==
  \E t \in Tabs :
    \/ Capture(t) \/ CopyOutsideAppShell(t) \/ ClickToUnlock(t) \/ AskPin(t) \/ EnterPin(t)
    \/ PressFocusKey(t) \/ (\E where \in {"blurred", "hidden"} : GoAway(t, where))
    \/ ComeBack(t) \/ Poll(t) \/ ReloadTab(t) \/ Mirror(t)
    \/ \E path \in {"guest", "app", "legal"} : Navigate(t, path)
    \/ (\E what \in {"shift", "fingers"} : Hold(t, what) \/ LetGoOf(t, what))
    \/ TouchTaken(t) \/ GuardTimer(t)

SealSpec == SealInit /\ [][SealNext]_sealVars

-------------------------------------------------------------------------------
(* Properties.                                                             *)

\* A hidden page is black; a page in front is black only with a screen that a
\* click or the PIN removes, and the guard only over a held key, touch or timer.
\* Excepted: a seal mirrored from another tab, a PIN entered while sealed, a tab
\* uncovered in the background, a touch that the system took over.
CoverKept ==
  \A t \in Tabs :
    LET v == view[t]
        g == guard[t] IN
    v.path # "guest" /\ t \notin odd =>
      /\ v.dark = (v.sealed \/ v.armed)
      /\ v.where = "hidden" => v.dark /\ (v.path = "app" => g.shown)
      /\ v.where = "here" => ~v.armed /\ (v.sealed => v.lockScreen # "active")
      /\ g.shown /\ ~g.cancelled => g.hiding \/ g.held # {} \/ ~InFront(v)

\* Coming back to a tab never leaves it black with nothing to click or fill in.
\* The comment on onReturnFromAway says so.
ReturnsRecoverable ==
  [][\A t \in Tabs :
       view[t].where = "blurred" /\ view'[t].where = "here" /\ view[t].path # "guest"
       => ~view'[t].dark \/ view'[t].lockScreen # "active"]_sealVars
===============================================================================

------------------------------ MODULE Overlay -------------------------------
(***************************************************************************)
(* OverlayWindow: the always-on-top window that shows the phase of a       *)
(* recording, and the timer that hides it FADE_MS after the end.           *)
(***************************************************************************)
OverlayType == [window: {"none", "hidden", "visible"}, hideTimer: BOOLEAN]

NoOverlay == [window |-> "none", hideTimer |-> FALSE]

\* ensureWindow(): the window is created hidden, once.
EnsureWindow(o) == IF o.window = "none" THEN [o EXCEPT !.window = "hidden"] ELSE o

\* (mutant) a pending hide is left to fire.
ShownStillHiding(o) == [o EXCEPT !.window = "visible"]
\* show(): a pending hide is cancelled, the window is created when needed.
Shown(o) == [EnsureWindow(o) EXCEPT !.window = "visible", !.hideTimer = FALSE]

\* updateState(): only the error phase changes what is visible: it hides the
\* window at once.
StateSent(o, phase) ==
    IF phase = "error" /\ o.window # "none" THEN [window |-> "hidden", hideTimer |-> FALSE] ELSE o

\* scheduleHide() (re)starts the timer; its callback hides the window.
HideScheduled(o) == [o EXCEPT !.hideTimer = TRUE]
HideFired(o) ==
    [window |-> IF o.window = "none" THEN "none" ELSE "hidden", hideTimer |-> FALSE]
=============================================================================

-------------------------------- MODULE Panel -------------------------------
(***************************************************************************)
(* ede-panel: the panel's place on the screen, the button that slides it   *)
(* away and back by timeouts (Hider), and the system tray, whose icons are *)
(* windows of other programs and make the panel lay its applets out again. *)
(*                                                                         *)
(* Lengths are pixels; the heights, the other applets and what the panel   *)
(* reads from and writes to its configuration are left out.  The X server  *)
(* reports the death of an icon and the size of the screen by events; the  *)
(* handler of an event and of a timeout is one action.                     *)
(***************************************************************************)
EXTENDS Integers, Sequences, FiniteSets, SequencesExt

CONSTANTS Screens,      \* the widths the screen may get
          Percents,     \* the configured widths of the panel, in percent
          Windows,      \* the windows that may become icons
          MaxTimers     \* no click while this many timeouts are pending

VARIABLE pan            \* the panel, as one record

PANEL_ANIM_SPEED == 50
INITIAL_SPACING == 5
HiderW == 10
BoxDx == 2

PanelW(s) == (s.perc * s.screen) \div 100
Home(s) == IF s.perc < 100 THEN s.screen \div 2 - PanelW(s) \div 2 ELSE 0

(* do_layout(): the hider is the rightmost one, wherever it was.           *)
DoLayout(s) == [s EXCEPT !.hx = PanelW(s) - INITIAL_SPACING - HiderW]

UpdateSizeAndPos(s) == [DoLayout(s) EXCEPT !.px = Home(s)]

(* apply_struts(): what windows leave free, only for a full-width panel.   *)
ApplyStruts(s, apply) ==
    [s EXCEPT !.strut = IF s.perc < 100 THEN @ ELSE IF apply THEN "panel" ELSE "line"]

(* show()                                                                  *)
Init ==
    \E screen \in Screens, perc \in Percents :
        LET s == [ screen |-> screen, perc |-> perc,
                   px |-> 0, hx |-> 0,          \* x() of the panel, of the hider in it
                   hidden |-> FALSE,            \* is_hidden
                   kids |-> TRUE,               \* the applets are shown
                   strut |-> "none",
                   timers |-> 0,                \* animate_cb timeouts pending
                   stop |-> 0, oldpx |-> 0, oldhx |-> 0,   \* stop_x, old_px, old_x
                   icons |-> <<>>,              \* win_list
                   alive |-> Windows,           \* windows that exist
                   reports |-> <<>>,            \* DestroyNotify events unread
                   twice |-> {},                \* windows that asked to be docked again
                   lost |-> {},                 \* windows that died while being docked
                   late |-> FALSE,              \* clicked while the panel slid away
                   resized |-> FALSE,           \* new screen size while not at home
                   redone |-> FALSE ]           \* laid out while hidden
        IN  pan = ApplyStruts(UpdateSizeAndPos(s), TRUE)

----------------------------------------------------------------------------
(* The hider.                                                              *)

OnScreen(x, s) == x >= 0 /\ x < s.screen
HiderX(s) == s.px + s.hx

(* Mutant: the place to come back to is not kept.                          *)
PanelHideForgets(s) ==
    [s EXCEPT !.stop = s.screen - HiderW, !.timers = @ + 1, !.late = @ \/ s.px # Home(s)]

PanelHide(s) ==
    [s EXCEPT !.stop = s.screen - HiderW, !.oldpx = s.px, !.timers = @ + 1,
              !.late = @ \/ s.px # Home(s)]

PanelShow(s) == [s EXCEPT !.timers = @ + 1]

(* hide_cb(): the button can be clicked where it is seen.                  *)
Click ==
    /\ pan.timers < MaxTimers
    /\ OnScreen(HiderX(pan), pan)
    /\ pan' = IF pan.hidden THEN PanelShow(pan) ELSE PanelHide(pan)

PostHide(s) ==
    [ApplyStruts(s, FALSE) EXCEPT
        !.px = s.stop, !.kids = FALSE, !.oldhx = s.hx, !.hx = BoxDx,
        !.hidden = TRUE, !.timers = @ - 1]

PostShow(s) ==
    [ApplyStruts(s, TRUE) EXCEPT
        !.px = s.oldpx, !.kids = TRUE, !.hx = s.oldhx,
        !.hidden = FALSE, !.timers = @ - 1, !.redone = FALSE]

(* animate_cb(): a step, with the timeout repeated, or the end.            *)
Animate ==
    /\ pan.timers > 0
    /\ \/ ~ pan.hidden /\ pan.px < pan.stop
          /\ pan' = [pan EXCEPT !.px = @ + PANEL_ANIM_SPEED]
       \/ ~ pan.hidden /\ pan.px >= pan.stop /\ pan' = PostHide(pan)
       \/ pan.hidden /\ pan.px > pan.stop
          /\ pan' = [pan EXCEPT !.px = @ - PANEL_ANIM_SPEED]
       \/ pan.hidden /\ pan.px <= pan.stop /\ pan' = PostShow(pan)

(* x_events(): the root window has another size; the struts stay.          *)
Resize ==
    \E screen \in Screens \ {pan.screen} :
        pan' = UpdateSizeAndPos([pan EXCEPT !.screen = screen,
                                   !.resized = @ \/ pan.hidden \/ pan.timers > 0])

----------------------------------------------------------------------------
(* The tray.  An icon that dies is reported to the window it is in, the    *)
(* one that was made for it last.                                          *)

Relayout(s) == [DoLayout(s) EXCEPT !.redone = @ \/ s.hidden]

(* embed_window(), unless validate_drawable() finds no such window: the    *)
(* window may die after that, before it is in the tray.                    *)
Dock(w) ==
    /\ w \in pan.alive
    /\ Len(SelectSeq(pan.icons, LAMBDA v : v = w)) < 2
    /\ LET s == Relayout([pan EXCEPT !.icons = Append(@, w),
                             !.twice = IF w \in ToSet(pan.icons) THEN @ \cup {w} ELSE @])
       IN  \/ pan' = s
           \/ pan' = [s EXCEPT !.alive = @ \ {w}, !.lost = @ \cup {w}]

Dies(w) ==
    /\ w \in pan.alive
    /\ pan' = [pan EXCEPT !.alive = @ \ {w},
                          !.reports = IF w \in ToSet(pan.icons) THEN Append(@, w) ELSE @]

(* unembed_window(): the first icon of that window goes.                   *)
Report ==
    /\ pan.reports # <<>>
    /\ LET w == Head(pan.reports)
           s == [pan EXCEPT !.reports = Tail(@)]
       IN  pan' = IF w \in ToSet(s.icons)
                  THEN Relayout([s EXCEPT !.icons = RemoveFirst(@, w)])
                  ELSE s

Next ==
    \/ Click \/ Animate \/ Resize \/ Report
    \/ \E w \in Windows : Dock(w) \/ Dies(w)

Spec == Init /\ [][Next]_pan

----------------------------------------------------------------------------
(* When no timeout is pending the panel is either shown, where it belongs, *)
(* with its applets, the hider at its right end and its strut, or hidden,  *)
(* with nothing but the hider on the screen: also after a second click     *)
(* before the panel has begun to move, or before it came back - but not    *)
(* after a click while it slid away, nor when the screen changed or icons  *)
(* came and went while it was hidden or moving.                            *)
PanelSettled ==
    pan.timers = 0 /\ ~ pan.late /\ ~ pan.resized =>
        IF pan.hidden
        THEN /\ ~ pan.kids /\ pan.px = pan.screen - HiderW
             /\ ~ pan.redone => OnScreen(HiderX(pan), pan)
             /\ pan.perc = 100 => pan.strut = "line"
        ELSE /\ pan.kids /\ pan.px = Home(pan)
             /\ HiderX(pan) = Home(pan) + PanelW(pan) - INITIAL_SPACING - HiderW
             /\ pan.perc = 100 => pan.strut = "panel"

(* The tray shows no dead icon, but for those whose death is still to be   *)
(* read, that were docked twice or that died while they were docked; and   *)
(* it shows no window twice that asked once.                               *)
TrayAlive ==
    \A w \in ToSet(pan.icons) :
        \/ w \in pan.alive \/ w \in ToSet(pan.reports)
        \/ w \in pan.twice \cup pan.lost

(* The user can always bring the panel back.  This is not so: an icon that *)
(* comes or goes while the panel is hidden moves the hider off the screen, *)
(* and so does a screen that shrinks while the panel slides away.          *)
HiderReachable == pan.timers = 0 => OnScreen(HiderX(pan), pan)
=============================================================================

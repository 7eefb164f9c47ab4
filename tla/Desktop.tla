------------------------------ MODULE Desktop ------------------------------
(***************************************************************************)
(* ede-desktop: the icons on the desktop, the selection, the rubber band   *)
(* and the dragging of icons (Desktop::handle() and what it calls), the    *)
(* menus of the desktop and of an icon, and the dialog that edits an icon. *)
(*                                                                         *)
(* FLTK delivers the events: `below' is Fl::belowmouse(), which does not   *)
(* follow the pointer while a button is held; `held' the buttons that are  *)
(* down; `pushed' says that a press awaits its release, which turns motion *)
(* into FL_DRAG.  A menu or a dialog keeps every event until it is done,   *)
(* the releases too, and leaves no button held.  Pixels are left out: a    *)
(* rubber band may cover any set of icons, and an icon's place is not      *)
(* kept.                                                                   *)
(***************************************************************************)
EXTENDS Naturals, Sequences, FiniteSets, SequencesExt, Sieve

CONSTANTS Icons,     \* the icons there may be, those created later too
          MaxSel     \* the bound on the length of selectionbuf

VARIABLE desk        \* the desktop, as one record

Background == "background"     \* the desktop itself, the wallpaper or dmenu

Init ==
    \E kids \in {<<>>} \cup (Icons \X Icons) :
        /\ IsInjective(kids)
        /\ desk = [ kids   |-> kids,          \* the icons among the children, bottom first
                    sel    |-> <<>>,          \* selectionbuf
                    lit    |-> {},            \* the icons with focused set
                    ghost  |-> {},            \* the icons with a MovableIcon window
                    moving |-> FALSE,
                    armed  |-> FALSE,         \* selbox->x or selbox->y is not 0
                    band   |-> FALSE,         \* selbox->show
                    below  |-> Background, held |-> {}, pushed |-> FALSE,
                    lost   |-> {},            \* the icons removed so far
                    crash  |-> FALSE,         \* parent() of a removed icon was used
                    odd    |-> FALSE,         \* a second button went down during a press
                    edit   |-> "no" ]         \* the icon in the open dialog

OnDesk == ToSet(desk.kids)
Usable == ~ desk.crash /\ desk.edit = "no"     \* the dialog is modal

----------------------------------------------------------------------------
(* The selection.                                                          *)

Select(s, i) ==
    IF i \in ToSet(s.sel) THEN s
    ELSE [s EXCEPT !.sel = Append(@, i), !.lit = @ \cup {i}]

(* unfocus_all() reaches the children alone.                               *)
UnfocusAll(s) == [s EXCEPT !.lit = @ \ ToSet(s.kids)]

(* Mutant: the icons selected before stay focused.                         *)
SelectOnlyAdds(s, i) == [s EXCEPT !.sel = <<i>>, !.lit = @ \cup {i}]

SelectOnly(s, i) ==
    [UnfocusAll(s) EXCEPT !.sel = <<i>>, !.lit = @ \cup {i}]

ClearSelection(s) ==
    IF s.sel = <<>> THEN s ELSE [UnfocusAll(s) EXCEPT !.sel = <<>>]

(* insert(ic, children()): the icon goes to the top, and is a child again  *)
(* when it was removed.                                                    *)
ToTop(s, i) == [s EXCEPT !.kids = Append(Sieve(@, Icons \ {i}), i)]

(* move_selection(): every selected icon is dragged, each with a window of *)
(* its own, which goes away with apply; fix_position() uses parent().      *)
MoveSelection(s, apply) ==
    IF s.sel = <<>> THEN s
    ELSE IF apply /\ ~ ToSet(s.sel) \subseteq ToSet(s.kids)
         THEN [s EXCEPT !.crash = TRUE]
         ELSE ToTop([s EXCEPT !.ghost = IF apply THEN @ \ ToSet(s.sel)
                                                 ELSE @ \cup ToSet(s.sel)],
                    Last(s.sel))

(* remove_icon(), with the file's removal done: the icon leaves the        *)
(* children and nothing else.                                              *)
RemoveIcon(s, i) ==
    [s EXCEPT !.kids = Sieve(@, Icons \ {i}), !.lost = @ \cup {i}]

----------------------------------------------------------------------------
(* FL_PUSH.  A second press of another button has the first one's target.  *)

(* A menu was open: its events went to it.                                 *)
AfterMenu(s) == [s EXCEPT !.held = {}, !.pushed = FALSE, !.below = Background]

Down(s, b, t) ==
    [s EXCEPT !.held = @ \cup {b}, !.below = t, !.pushed = TRUE,
              !.odd = @ \/ s.held # {}]

Fresh == Icons \ (OnDesk \cup ToSet(desk.sel) \cup desk.lost)

(* What the desktop's menu does: nothing here, or create_folder().         *)
DesktopMenu(s) ==
    {AfterMenu(s)} \cup
    {AfterMenu([s EXCEPT !.kids = Append(@, i)]) : i \in Fresh}

PressBackground(b, s) ==
    IF b = 3 THEN DesktopMenu(ClearSelection(s))
    ELSE {[ClearSelection(s) EXCEPT !.armed = @ \/ b = 1]}

(* What an icon's menu does: nothing here, delete_cb(), edit_cb().         *)
IconMenu(s, i) ==
    {AfterMenu(s), AfterMenu(RemoveIcon(s, i)), AfterMenu([s EXCEPT !.edit = i])}

Selected(s, b, i) ==
    IF (b = 1 /\ i \in ToSet(s.sel)) \/ b = 2 THEN s ELSE SelectOnly(s, i)

PressIcon(b, shift, s, i) ==
    IF b = 1 /\ shift THEN {Select(s, i)}
    ELSE IF b = 3 /\ ~ s.moving THEN IconMenu(Selected(s, b, i), i)
         ELSE {Selected(s, b, i)}

Push(b, t, shift) ==
    /\ Usable
    /\ b \notin desk.held
    /\ desk.held = {} \/ t = desk.below
    /\ LET s == Down(desk, b, t)
       IN  \/ t = Background /\ ~ shift /\ desk' \in PressBackground(b, s)
           \/ t \in OnDesk /\ (shift => b = 1 /\ Len(desk.sel) < MaxSel)
              /\ desk' \in PressIcon(b, shift, s, t)

----------------------------------------------------------------------------
(* FL_DRAG and FL_RELEASE.                                                 *)

(* select_in_area(): exactly the icons in the band are focused.            *)
InArea(s, area) == [s EXCEPT !.band = TRUE, !.lit = (@ \ ToSet(s.kids)) \cup area]

Drag ==
    /\ Usable /\ desk.pushed
    /\ LET s == [desk EXCEPT !.moving = TRUE]
       IN  IF s.sel # <<>> THEN desk' = MoveSelection(s, FALSE)
           ELSE IF s.armed THEN \E area \in SUBSET OnDesk : desk' = InArea(s, area)
           ELSE desk' = s

(* The band goes away and the focused icons become the selection; moving   *)
(* stays as it is.                                                         *)
EndBand(s) ==
    [s EXCEPT !.band = FALSE, !.armed = FALSE,
              !.sel = Sieve(s.kids, s.lit)]

EndMove(s) ==
    [(IF s.moving THEN MoveSelection(s, TRUE) ELSE s) EXCEPT !.moving = FALSE]

Release(b) ==
    /\ Usable /\ b \in desk.held
    /\ LET s == [desk EXCEPT !.held = @ \ {b}, !.pushed = FALSE]
       IN  desk' = IF s.band THEN EndBand(s) ELSE EndMove(s)

----------------------------------------------------------------------------
(* The dialog of icon_dialog_icon_edit(): ok_cb() removes the old icon and *)
(* reads the file it has written as a new one; cancel_cb().                *)
EditOk ==
    /\ ~ desk.crash /\ desk.edit # "no"
    /\ LET s == [RemoveIcon(desk, desk.edit) EXCEPT !.edit = "no"]
       IN  \/ \E i \in Fresh : desk' = [s EXCEPT !.kids = Append(@, i)]
           \/ desk' = s                        \* the file could not be written

EditCancel == ~ desk.crash /\ desk.edit # "no" /\ desk' = [desk EXCEPT !.edit = "no"]

Next ==
    \/ \E b \in 1..3, t \in Icons \cup {Background}, shift \in BOOLEAN : Push(b, t, shift)
    \/ Drag
    \/ \E b \in 1..3 : Release(b)
    \/ EditOk
    \/ EditCancel

Spec == Init /\ [][Next]_desk

----------------------------------------------------------------------------
(* No removed icon is in the selection: delete_cb() and ok_cb() leave it   *)
(* there, and the next press on something else takes it out again.         *)
SelectionAlive == ToSet(desk.sel) \cap desk.lost = {}

(* Outside a rubber band the icons drawn as focused are the selected ones: *)
(* what a click, a drag and a band do to the selection and to the focus    *)
(* flags agrees ("Only focused are in selectionbuf", Desktop.cpp:749).     *)
SelectionShown == ~ desk.band => desk.lit \cap OnDesk = ToSet(desk.sel) \cap OnDesk

(* No window of a dragged icon is left behind when no button is held, and  *)
(* every icon that follows the pointer is on the desktop - until a second  *)
(* button has gone down during a press or an icon has been removed.        *)
DragEnds ==
    ~ desk.odd /\ desk.lost = {} =>
        /\ desk.held = {} => desk.ghost = {}
        /\ desk.ghost \subseteq OnDesk /\ ~ desk.crash
=============================================================================

-------------------------------- MODULE Menus --------------------------------
(***************************************************************************)
(* pekwm's menus: a root menu, its submenus, and the entries that a        *)
(* command prints each time a menu is mapped (Dynamic), which may be       *)
(* submenus that live as long as the menu stays mapped.  Mouse and keys    *)
(* select entries, open and close submenus and run actions (PMenu,         *)
(* ActionMenu, and what ActionHandler does with a menu).                   *)
(*                                                                         *)
(* The keys go to the object that had the last FocusIn: a menu that was    *)
(* unmapped still gets those typed ahead, until its UnmapNotify is read.   *)
(* Places on the screen, titles, icons and the reading of the menu file    *)
(* are left out, and so is its reading again while the menus are used.     *)
(***************************************************************************)
EXTENDS Naturals, Sequences, FiniteSets, SequencesExt

CONSTANTS Tree,       \* the menus of the file: a sequence of items each
          Root, Parent, None,
          Outputs,    \* what the command of a Dynamic entry may print
          Configs     \* the events on which to select, to enter and to run

VARIABLE mn           \* the menus, as one record

Motions == {"motion", "motion pressed"}
Events  == Motions \cup {"press", "release", "double"}

(* A Dynamic entry is a hidden item.                                       *)
IsNormal(i) == i.type = "normal"

(* buildMenuCalculate(): the items that can be seen, or none.              *)
SizeOf(items) ==
    IF SelectSeq(items, IsNormal) = <<>> THEN 0
    ELSE Len(SelectSeq(items, LAMBDA i : i.type # "hidden"))

Menus == DOMAIN Parent

Init ==
    \E c \in Configs :
        mn = [ config |-> c,
               items |-> [m \in Menus |-> IF m \in DOMAIN Tree THEN Tree[m] ELSE <<>>],
               size |-> [m \in Menus |-> IF m \in DOMAIN Tree THEN SizeOf(Tree[m]) ELSE 0],
               alive |-> DOMAIN Tree, mapped |-> {},
               curr |-> [m \in Menus |-> 0],        \* _item_curr; 0 is the end
               sticky |-> FALSE,                    \* of the root menu
               focus |-> None,                      \* the focused object, if a menu
               ahead |-> FALSE,                     \* an unmapped menu got a key
               broken |-> FALSE ]                   \* see Exec and SelectStep

----------------------------------------------------------------------------
(* Mapping.                                                                *)

Submenus(items) == {i.menu : i \in ToSet(items)} \ {None}

(* removeDynamic(): what the Dynamic entries made is deleted.              *)
RemoveDynamic(s, m) ==
    LET gone == Submenus(SelectSeq(s.items[m], LAMBDA i : i.dynamic))
    IN  [s EXCEPT !.items = [n \in Menus |->
                     IF n \in gone THEN <<>>
                     ELSE IF n = m THEN SelectSeq(@[n], LAMBDA i : ~ i.dynamic) ELSE @[n]],
                  !.size = [n \in Menus |-> IF n \in gone THEN 0 ELSE @[n]],
                  !.curr = [n \in Menus |-> IF n \in gone THEN 0 ELSE @[n]],
                  !.alive = @ \ gone, !.mapped = @ \ gone,
                  !.focus = IF @ \in gone THEN None ELSE @]

UnmapWindow(s, m) ==
    IF m \notin s.mapped THEN s
    ELSE [RemoveDynamic(s, m) EXCEPT
             !.curr[m] = 0, !.mapped = @ \ {m}, !.sticky = @ /\ m # Root]

(* Mutant: the submenus of a submenu stay.                                 *)
UnmapSubmenusOnce(s, m) ==
    FoldLeft(LAMBDA t, i : IF i.menu = None THEN t ELSE UnmapWindow(t, i.menu), s, s.items[m])

RECURSIVE UnmapSubmenus(_, _)
UnmapSubmenus(s, m) ==
    FoldLeft(LAMBDA t, i : IF i.menu = None THEN t
                           ELSE UnmapWindow(UnmapSubmenus(t, i.menu), i.menu),
             s, s.items[m])

UnmapAll(s) == UnmapWindow(UnmapSubmenus(s, Root), Root)

(* rebuildDynamic(): the output goes behind its entry.                     *)
Rebuilt(items, out) ==
    FlattenSeq([k \in DOMAIN items |-> IF items[k].type = "hidden" THEN <<items[k]>> \o out
                                       ELSE <<items[k]>>])

(* mapWindow(): the menu is built again when its length has changed - from *)
(* that without any output, not from that it was last built with.          *)
MapWindow(s, m, out) ==
    LET items == Rebuilt(s.items[m], out)
        new == Submenus(items) \ Submenus(s.items[m])
        inside == << [type |-> "normal", menu |-> None, dynamic |-> FALSE, hides |-> FALSE] >>
    IN  IF m \in s.mapped THEN s
        ELSE [s EXCEPT
                 !.items = [n \in Menus |-> IF n = m THEN items
                                            ELSE IF n \in new THEN inside ELSE @[n]],
                 !.size = [n \in Menus |->
                     IF n \in new THEN SizeOf(inside)
                     ELSE IF n = m /\ Len(items) # Len(s.items[m]) THEN SizeOf(items)
                     ELSE @[n]],
                 !.alive = @ \cup new, !.mapped = @ \cup {m}]

----------------------------------------------------------------------------
(* The selection.                                                          *)

Deselect(s, m, unmap) ==
    LET child == s.items[m][s.curr[m]].menu
    IN  IF s.curr[m] = 0 \/ ~ unmap THEN s
        ELSE IF child = None THEN s
        ELSE UnmapWindow(UnmapSubmenus(s, child), child)

SelectItem(s, m, i, unmap) ==
    IF s.curr[m] = i THEN s ELSE [Deselect(s, m, unmap) EXCEPT !.curr[m] = i]

(* selectItemNum(0): the first item, whatever it is.                       *)
SelectFirst(s, m) == IF s.items[m] = <<>> THEN s ELSE SelectItem(s, m, 1, TRUE)

(* The next item and the previous one wrap; 0 is before and behind both.   *)
Beside(s, m, forward) ==
    IF forward THEN IF s.curr[m] = Len(s.items[m]) THEN 1 ELSE s.curr[m] + 1
    ELSE IF s.curr[m] <= 1 THEN Len(s.items[m]) ELSE s.curr[m] - 1

RECURSIVE Walk(_, _, _, _)
Walk(s, m, forward, i) ==
    IF IsNormal(s.items[m][i]) THEN SelectItem(s, m, i, TRUE)
    ELSE LET t == [Deselect(s, m, TRUE) EXCEPT !.curr[m] = i]
         IN  Walk(t, m, forward, Beside(t, m, forward))

(* selectNextItem(), selectPrevItem(): by a size that is no longer true    *)
(* they look for ever for an item, or behind the end of an empty list.     *)
SelectStep(s, m, forward) ==
    IF s.size[m] = 0 THEN s
    ELSE IF SelectSeq(s.items[m], IsNormal) = <<>> THEN [s EXCEPT !.broken = TRUE]
    ELSE Walk(s, m, forward, Beside(s, m, forward))

(* mapSubmenu()                                                            *)
MapSubmenu(s, child, focus, out) ==
    IF focus THEN SelectFirst(MapWindow(s, child, out), child)
    ELSE MapWindow(s, child, out)

(* exec(): the actions of an item are read while they run, also when one   *)
(* of them hides the menus and so deletes the item.                        *)
Close(s) == IF s.sticky THEN s ELSE UnmapAll(s)

Exec(s, hides, deleted) ==
    Close(IF hides THEN [UnmapAll(s) EXCEPT !.broken = deleted] ELSE s)

Deleted(s, m, i) == m \notin DOMAIN Tree \/ s.items[m][i].dynamic

ExecItem(s, m, i) == Exec(s, s.items[m][i].hides, Deleted(s, m, i))

----------------------------------------------------------------------------
(* handleItemEvent()                                                       *)

OnSelect(s, m, i, e) ==
    IF s.curr[m] # i /\ e \in s.config.select THEN SelectItem(s, m, i, e \in s.config.enter)
    ELSE s

OnEnter(s, m, child, e, out) ==
    IF e \notin s.config.enter \/ child = None THEN s
    ELSE IF child \notin s.mapped THEN MapSubmenu(UnmapSubmenus(s, m), child, FALSE, out)
    ELSE IF e \in Motions THEN s
    ELSE UnmapWindow(UnmapSubmenus(s, child), child)

OnExec(s, m, i, e) ==
    IF e \in s.config.exec /\ s.items[m][i].menu = None THEN ExecItem(s, m, i) ELSE s

Mouse(m, i, e) ==
    /\ m \in mn.mapped /\ i \in DOMAIN mn.items[m] /\ IsNormal(mn.items[m][i])
    /\ \E out \in Outputs :
          mn' = OnExec(OnEnter(OnSelect(mn, m, i, e), m, mn.items[m][i].menu, e, out), m, i, e)

----------------------------------------------------------------------------
(* The keys, and actions from elsewhere.                                   *)

(* What the focused menu m makes of a key, in state s.                     *)
Focused == mn.focus # None
Typed == [mn EXCEPT !.ahead = mn.focus \notin mn.mapped]

NextItem == Focused /\ mn' = SelectStep(Typed, mn.focus, TRUE)
PrevItem == Focused /\ mn' = SelectStep(Typed, mn.focus, FALSE)

Select ==
    LET m == mn.focus
    IN  Focused /\ mn' = IF mn.curr[m] = 0 THEN Close(Typed)
                         ELSE ExecItem(Typed, m, mn.curr[m])

EnterSubmenu ==
    /\ Focused /\ mn.curr[mn.focus] # 0
    /\ LET child == mn.items[mn.focus][mn.curr[mn.focus]].menu
       IN  child # None /\ \E out \in Outputs : mn' = MapSubmenu(Typed, child, TRUE, out)

LeaveSubmenu ==
    Focused /\ mn.focus # Root /\ mn' = UnmapSubmenus(Typed, Parent[mn.focus])

CloseMenus == Focused /\ mn' = UnmapAll(Typed)

Stick == mn.focus = Root /\ mn' = [Typed EXCEPT !.sticky = ~ @]

(* actionShowMenu(), by a key or not.                                      *)
ShowMenu ==
    IF Root \in mn.mapped THEN mn' = UnmapAll(mn)
    ELSE \E out \in Outputs, stick, key \in BOOLEAN :
            LET s == [MapWindow(mn, Root, out) EXCEPT !.sticky = stick]
            IN  mn' = IF key THEN SelectFirst(s, Root) ELSE s

HideAllMenus == mn' = UnmapAll(mn)

(* FocusIn, by giveInputFocus() or under the mouse, or UnmapNotify.        *)
FocusIn == \E m \in mn.mapped \cup {None} : mn' = [mn EXCEPT !.focus = m]

Next ==
    /\ ~ mn.ahead /\ ~ mn.broken
    /\ \/ NextItem \/ PrevItem \/ Select \/ EnterSubmenu \/ LeaveSubmenu
       \/ CloseMenus \/ Stick \/ ShowMenu \/ HideAllMenus \/ FocusIn
       \/ \E m \in Menus, e \in Events : \E i \in DOMAIN mn.items[m] : Mouse(m, i, e)

Spec == Init /\ [][Next]_mn

----------------------------------------------------------------------------
(* A submenu is on the screen only with the menu it was opened from, and   *)
(* is not one that was deleted: closing the root menu closes everything.   *)
(* What is selected is an item of the list, and nothing is selected in a   *)
(* menu that is not mapped.  (Until a menu gets a key after it was         *)
(* unmapped, which can open a submenu that only its own keys close.)       *)
Rooted ==
    ~ mn.ahead /\ ~ mn.broken =>
        /\ \A m \in mn.mapped : m \in mn.alive /\ (m = Root \/ Parent[m] \in mn.mapped)
        /\ \A m \in Menus : mn.curr[m] <= Len(mn.items[m])
                            /\ (m \notin mn.mapped => mn.curr[m] = 0)

(* When entries are selected and entered by the same events, the submenu   *)
(* that is open is that of the selected entry, so that no two submenus of  *)
(* one menu are open.                                                      *)
OpenIsSelected ==
    mn.config.select = mn.config.enter /\ ~ mn.ahead /\ ~ mn.broken =>
        \A m \in mn.mapped : \A i \in DOMAIN mn.items[m] :
            mn.items[m][i].menu \in mn.mapped => mn.curr[m] = i

(* The same for every configuration.  This is not so, by the configuration *)
(* that is installed least of all: the pointer selects without closing     *)
(* what is open, and the key then opens a second one.                      *)
OneOpen ==
    ~ mn.ahead /\ ~ mn.broken =>
        \A m \in mn.mapped :
            Cardinality({i \in DOMAIN mn.items[m] : mn.items[m][i].menu \in mn.mapped}) <= 1

(* No deleted item is used, and no search for an item goes on for ever.    *)
(* Neither is so: see Exec and SelectStep.                                 *)
Sound == ~ mn.broken
=============================================================================

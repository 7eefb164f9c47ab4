------------------------------ MODULE StartMenu -----------------------------
(***************************************************************************)
(* ede-panel's start menu applet: when the menu that XdgMenu builds is     *)
(* loaded again and when it is put in the place of the old one.            *)
(*                                                                         *)
(* What is loaded is the version of the menu's files that the disk has     *)
(* then; no version is a menu that cannot be loaded.  Time passes in       *)
(* seconds; a timeout fires at its second or later, in an open menu too,   *)
(* since popup() runs the event loop until the user has chosen.            *)
(***************************************************************************)
EXTENDS Integers, Sequences, FiniteSets

CONSTANTS MaxTime, MaxVersion     \* bounds: seconds, changes of the files

MENU_UPDATE_TIMEOUT == 5
MENU_UPDATE_DIFF == 5
NULL == <<>>
Empty == 0           \* the version without a menu

VARIABLE sm          \* the applet, as one record

(* xdg_menu_load(): an object of its own with the files as they are.       *)
Load(s) == IF s.disk = Empty THEN NULL ELSE [version |-> s.disk, nr |-> s.loads]

Loaded(s) == [s EXCEPT !.loads = @ + 1]

(* setup_menu()                                                            *)
Setup(s, m) == [s EXCEPT !.mcontent = m, !.menu = m]

(* The applet before its menu was loaded.                                  *)
Started(disk) ==
    [ disk |-> disk, changes |-> 0,   \* the files, their changes
      loads |-> 0,                    \* the loads so far
      mcontent |-> NULL, pending |-> NULL,
      menu |-> NULL,                  \* what setup_menu() set
      freed |-> {},                   \* the contents deleted
      opened |-> FALSE,
      shown |-> NULL,                 \* the menu that popup() has opened
      now |-> MENU_UPDATE_DIFF, last |-> 0,   \* the time, last_reload
      timers |-> {},                  \* when the timeouts are due
      unseen |-> FALSE,               \* a change that no update will follow
      unswapped |-> FALSE ]           \* a load failed while the menu was open

Init ==
    \E disk \in {Empty, 1} :
        sm = Loaded(Setup(Started(disk), Load(Started(disk))))

Delete(s, m) == [s EXCEPT !.freed = @ \cup ({m} \ {NULL})]

(* A file changes: folder_changed_cb().  Heeded is the report of a file    *)
(* whose name ends with ".desktop", when it is not one of a rename; every  *)
(* report that is heeded, not every update, sets last_reload               *)
(* (can_reload()).                                                         *)
FolderChanged ==
    /\ sm.changes < MaxVersion
    /\ \E disk \in {sm.changes + 2, Empty}, heeded \in BOOLEAN :
         LET reload == heeded /\ sm.now - sm.last >= MENU_UPDATE_DIFF
         IN  sm' = [sm EXCEPT
                !.disk = disk, !.changes = @ + 1,
                !.last = IF heeded THEN sm.now ELSE @,
                !.timers = IF reload THEN @ \cup {sm.now + MENU_UPDATE_TIMEOUT} ELSE @,
                !.unseen = ~ reload /\ sm.timers = {}]

(* Mutant: an open menu is replaced at once.                               *)
ReloadMenuAtOnce ==
    \E t \in sm.timers :
        /\ t <= sm.now
        /\ LET s == Loaded([sm EXCEPT !.timers = @ \ {t}, !.unseen = FALSE])
           IN  sm' = [Setup(Delete(s, s.mcontent), Load(sm)) EXCEPT !.unswapped = FALSE]

(* menu_update_cb(): an open menu stays, and the new one waits, in the     *)
(* place of one that waits already.                                        *)
ReloadMenu ==
    \E t \in sm.timers :
        /\ t <= sm.now
        /\ LET s == Loaded([sm EXCEPT !.timers = @ \ {t}, !.unseen = FALSE])
           IN  sm' = IF s.opened
                     THEN [s EXCEPT !.pending = Load(sm), !.unswapped = Load(sm) = NULL]
                     ELSE [Setup(Delete(s, s.mcontent), Load(sm)) EXCEPT !.unswapped = FALSE]

(* popup(), which an applet without a menu does not get to.                *)
Popup ==
    /\ ~ sm.opened /\ sm.menu # NULL
    /\ sm' = [sm EXCEPT !.opened = TRUE, !.shown = sm.menu]

(* The user chooses, or not: the waiting menu takes the place.             *)
Picked ==
    /\ sm.opened
    /\ LET s == [sm EXCEPT !.opened = FALSE, !.shown = NULL]
       IN  sm' = IF s.pending = NULL THEN s
                 ELSE [Setup(Delete(s, s.mcontent), s.pending) EXCEPT !.pending = NULL]

Tick == sm.now < MaxTime /\ sm' = [sm EXCEPT !.now = @ + 1]

Next == FolderChanged \/ ReloadMenu \/ Popup \/ Picked \/ Tick

Spec == Init /\ [][Next]_sm

----------------------------------------------------------------------------
(* The menu that the applet would open is the one that is kept, and that   *)
(* which is open is not deleted by an update.  When it is closed, no       *)
(* update is due and none failed while it was open, it is the menu of the  *)
(* files on the disk - but for a change that no update followed: with none *)
(* due, a file was renamed, or one whose name does not end with            *)
(* ".desktop" was changed, or one that does within five seconds of the     *)
(* last report.                                                            *)
MenuFresh ==
    /\ sm.menu = sm.mcontent /\ {sm.mcontent, sm.shown} \cap sm.freed = {}
    /\ ~ sm.opened /\ sm.timers = {} /\ ~ sm.unswapped /\ ~ sm.unseen =>
           IF sm.disk = Empty THEN sm.menu = NULL
           ELSE sm.menu # NULL /\ sm.menu.version = sm.disk

(* Every change of the files is followed by an update.  This is not so:    *)
(* FolderChanged may come after the reload that its burst had scheduled,   *)
(* and a file put in the place of another by a rename is not heeded.       *)
NothingUnseen == ~ sm.unseen
=============================================================================

---------------------------- MODULE NotifyDaemon ----------------------------
(***************************************************************************)
(* ede-notify-daemon: the D-Bus call Notify (ede-notify-daemon.cpp) and    *)
(* the windows it shows, with their timers (NotifyWindow.cpp).             *)
(*                                                                         *)
(* The daemon deletes no window, but nothing reads one again once it is    *)
(* hidden (the search for an id sees those on the screen only) and its     *)
(* timer is gone, so the model uses its number for a new window then.      *)
(* Where a window is put on the screen is left out, and so is its text.    *)
(***************************************************************************)
EXTENDS Integers, FiniteSets

CONSTANTS
    Clients,
    None,         \* "no window"
    Windows,      \* bound on the windows there are at a time
    UIntMax       \* UINT_MAX

ASSUME DaemonAssumption == UIntMax \in Nat \ {0, 1} /\ Clients # {} /\ None \notin Windows

Ids == 1..(UIntMax - 1)

(* expire_timeout: -1 is left to the daemon, 0 is never.                   *)
DefaultExpire == 2000
Timeouts == {-1, 0, DefaultExpire}

VARIABLES
    notify_id,  \* the last id given to a new notification
    popups,      \* the windows on the screen
    id, exp, timer_set,  \* the fields of each window
    timers,     \* the windows FLTK holds a timeout_cb for
    over,       \* the window under the pointer
    owner,      \* history: the client each window was last shown for
    given,      \* history: the ids each client was given
    clean,      \* history: no id was reused, or replaced by a stranger
    touched     \* history: windows replaced, or shown when the pointer
                \*   entered another one

past == <<owner, given, clean, touched>>
daemonVars == <<notify_id, popups, id, exp, timer_set, timers, over, past>>

DaemonTypeOK ==
    /\ notify_id \in 0..(UIntMax - 1)
    /\ popups \subseteq Windows /\ timers \subseteq Windows
    /\ id \in [Windows -> Ids \cup {0}]
    /\ exp \in [Windows -> Timeouts]
    /\ timer_set \in [Windows -> BOOLEAN]
    /\ over \in popups \cup {None}
    /\ owner \in [Windows -> Clients]
    /\ given \in [Clients -> SUBSET Ids]
    /\ clean \in BOOLEAN
    /\ touched \subseteq popups

DaemonInit ==
    /\ notify_id = 0
    /\ popups = {} /\ timers = {}
    /\ id = [w \in Windows |-> 0]
    /\ exp = [w \in Windows |-> 0]
    /\ timer_set = [w \in Windows |-> FALSE]
    /\ over = None
    /\ owner = [w \in Windows |-> CHOOSE c \in Clients : TRUE]
    /\ given = [c \in Clients |-> {}]
    /\ clean = TRUE
    /\ touched = {}

-----------------------------------------------------------------------------
(* Notify                                                                  *)

(* NotifyWindow::show() starts a timer unless the timeout is 0;            *)
(* add_timeout() turns -1 into the default.                                *)
ShowNew(i, t, c) ==
    \E w \in Windows \ (popups \cup timers) :
        /\ popups' = popups \cup {w}
        /\ id' = [id EXCEPT ![w] = i]
        /\ exp' = [exp EXCEPT ![w] = IF t = -1 THEN DefaultExpire ELSE t]
        /\ timer_set' = [timer_set EXCEPT ![w] = t # 0]
        /\ timers' = IF t # 0 THEN timers \cup {w} ELSE timers
        /\ owner' = [owner EXCEPT ![w] = c]
        /\ UNCHANGED <<over, touched>>

(* A shown window gets new contents and a new timeout; its timer stays as  *)
(* it is (set_expire).                                                     *)
Update(w, t, c) ==
    /\ exp' = [exp EXCEPT ![w] = t]
    /\ owner' = [owner EXCEPT ![w] = c]
    /\ touched' = touched \cup {w}
    /\ UNCHANGED <<popups, id, timer_set, timers, over>>

(* Mutant: the counter starts over one id too late.                        *)
NextIdLate == notify_id + 1

(* if(++notify_id == UINT_MAX) notify_id = 1                               *)
NextId == IF notify_id + 1 = UIntMax THEN 1 ELSE notify_id + 1

(* replaces_id is 0.                                                       *)
NotifyNew(c, t) ==
    /\ notify_id' = NextId
    /\ ShowNew(NextId, t, c)
    /\ given' = [given EXCEPT ![c] = @ \cup {NextId}]
    /\ clean' = (clean /\ NextId > notify_id)

(* Mutant: the id is not compared.                                         *)
WithIdAny(r) == popups

WithId(r) == {w \in popups : id[w] = r}

(* Mutant: the window found is left on the screen and a new one is made.   *)
ReplaceAdds(c, r, t) ==
    /\ ShowNew(r, t, c)
    /\ clean' = (clean /\ r \in given[c])
    /\ UNCHANGED <<notify_id, given>>

(* replaces_id is r: the window with that id, or a new one with that id.   *)
Replace(c, r, t) ==
    /\ IF WithId(r) = {} THEN ShowNew(r, t, c) ELSE \E w \in WithId(r) : Update(w, t, c)
    /\ clean' = (clean /\ r \in given[c])
    /\ UNCHANGED <<notify_id, given>>

-----------------------------------------------------------------------------
(* NotifyWindow                                                            *)

Hide(w) ==
    /\ popups' = popups \ {w}
    /\ over' = IF over = w THEN None ELSE over
    /\ id' = [id EXCEPT ![w] = 0]
    /\ exp' = [exp EXCEPT ![w] = 0]
    /\ timer_set' = [timer_set EXCEPT ![w] = FALSE]
    /\ touched' = touched \ {w}

(* timeout_cb; a window that is hidden already stays hidden.               *)
TimerFires(w) ==
    /\ w \in timers
    /\ timers' = timers \ {w}
    /\ Hide(w)
    /\ UNCHANGED <<notify_id, owner, given, clean>>

(* FL_ENTER.  Fl::remove_timeout(timeout_cb), without an argument, removes *)
(* the timers of all windows.                                              *)
Enter(w) ==
    /\ over = None
    /\ w \in popups
    /\ over' = w
    /\ timers' = IF timer_set[w] THEN {} ELSE timers
    /\ timer_set' = [timer_set EXCEPT ![w] = FALSE]
    /\ touched' = touched \cup (popups \ {w})
    /\ UNCHANGED <<notify_id, popups, id, exp, owner, given, clean>>

(* Mutant: the timer is not started again.                                 *)
LeaveForgets ==
    /\ over # None
    /\ over' = None
    /\ UNCHANGED <<notify_id, popups, id, exp, timer_set, timers, past>>

(* FL_LEAVE: add_timeout(), whatever the timeout is.                       *)
Leave ==
    /\ over # None
    /\ over' = None
    /\ timers' = IF timer_set[over] THEN timers ELSE timers \cup {over}
    /\ exp' = IF ~timer_set[over] /\ exp[over] = -1
              THEN [exp EXCEPT ![over] = DefaultExpire] ELSE exp
    /\ timer_set' = [timer_set EXCEPT ![over] = TRUE]
    /\ UNCHANGED <<notify_id, popups, id, past>>

(* close_cb                                                                *)
Close ==
    /\ over # None
    /\ Hide(over)
    /\ UNCHANGED <<notify_id, timers, owner, given, clean>>

-----------------------------------------------------------------------------

DaemonNext ==
    \/ \E c \in Clients, t \in Timeouts :
         NotifyNew(c, t) \/ \E r \in Ids : Replace(c, r, t)
    \/ \E w \in Windows : TimerFires(w) \/ Enter(w)
    \/ Leave \/ Close

DaemonSpec == DaemonInit /\ [][DaemonNext]_daemonVars

(* A timer that is set fires.                                              *)
FairDaemonSpec == DaemonSpec /\ \A w \in Windows : WF_daemonVars(TimerFires(w))

-----------------------------------------------------------------------------
(* Properties                                                              *)

(* As long as the counter has not started over and every client replaces   *)
(* only ids it was given, no two windows on the screen have the same id    *)
(* (handle_notify and show_or_update_window: also when the window replaced *)
(* has been closed meanwhile and is made again).                           *)
IdsDistinct ==
    clean => \A v, w \in popups : id[v] = id[w] => v = w

(* ... and no client's call changes what another client shows.             *)
UpdatesOwn ==
    [][clean' => \A w \in popups : owner'[w] = owner[w]]_daemonVars

(* A notification with a timeout goes away, also after the pointer was     *)
(* over it, unless it was replaced or the pointer was over another         *)
(* (add_timeout and remove_timeout keep timer_set and the timer in step).  *)
Expires ==
    \A w \in Windows :
        <>[](over # w) =>
            (w \in popups /\ exp[w] # 0 /\ w \notin touched
               ~> w \notin popups \/ w \in touched)

(* NotifyWindow.h:53: "if is 0, then window will not be closed": such a    *)
(* window has no timer.                                                    *)
NeverMeansNever == \A w \in popups : exp[w] = 0 => w \notin timers
=============================================================================

---------------------------- MODULE EvokeSession ----------------------------
(***************************************************************************)
(* The end of an EDE session: the main loop of evoke (evoke/evoke.cpp),    *)
(* EvokeService::handle, the logout dialog (evoke/Logout.cpp) and          *)
(* x_shutdown (evoke/Xshutdown.cpp).                                       *)
(*                                                                         *)
(* evoke has one thread, but the dialogs it opens run the event loop       *)
(* again, inside the handler of an event.  The variable "frames" is the    *)
(* stack of the activations of handle() that are under way; the dialog     *)
(* keeps its window and its result in variables all activations share.     *)
(* A signal may come at any step.                                          *)
(***************************************************************************)
EXTENDS Integers, Sequences, FiniteSets, SequencesExt

CONSTANTS
    Programs,      \* the user's programs
    MaxRequests,   \* bound on how often ede-shutdown is run
    MaxQueue,      \* bound on the X events that wait
    Mishaps        \* see AllMishaps

(* "nested": ede-shutdown is run again while a dialog of evoke is open;    *)
(* "iconify": programs are minimized; "late": programs start while evoke   *)
(* waits for the others; "refuse": the system bus is down or says no;      *)
(* "signal": evoke gets a SIGTERM.                                         *)
AllMishaps == {"nested", "iconify", "late", "refuse", "signal"}

ASSUME SessionAssumption ==
    /\ MaxRequests \in Nat /\ MaxQueue \in Nat
    /\ Mishaps \subseteq AllMishaps

Options == {"logout", "restart", "shutdown"}
Windows == 1..MaxRequests
MainPlaces == {"armed", "check", "waiting", "over", "killed"}
Activities == {"dialog", "act", "ask", "command", "closing", "alert"}

VARIABLES
    pc,        \* where main() is
    running,   \* is_running
    woken,     \* Fl::wait() of main() has something to return for
    queue,     \* property events of the root window not yet read
    frames,    \* the activations of handle() on a shutdown request
    made,      \* how many dialogs were made
    win,       \* the dialog the variable "win" points to
    dialogs,     \* the dialogs on the screen
    choice,    \* what each dialog shows as the chosen option
    ret,       \* ret_option
    prog,      \* state of the user's programs
    listed,    \* the windows x_shutdown() found
    machine,   \* what the computer was told to do
    told,      \* the D-Bus signal Shutdown was sent
    requests,  \* history: how often ede-shutdown was run
    answer,    \* history: the user's last answer
    overlap,   \* history: a request was handled inside the handler of another
    stopped    \* history: an X event or a finished logout called stop()

ui == <<made, win, dialogs, choice, ret>>
world == <<prog, listed, machine, told, requests>>
sessionVars == <<pc, running, woken, queue, frames, ui, world, answer, overlap, stopped>>

SessionTypeOK ==
    /\ pc \in MainPlaces
    /\ running \in BOOLEAN /\ woken \in BOOLEAN /\ told \in BOOLEAN
    /\ stopped \in BOOLEAN /\ overlap \in BOOLEAN
    /\ Len(queue) <= MaxQueue /\ Range(queue) \subseteq {"quit", "shutdown"}
    /\ Range(frames) \subseteq [at : Activities, ret : Options \cup {"none"}]
    /\ made \in 0..MaxRequests /\ requests \in 0..MaxRequests
    /\ win \in 0..made /\ dialogs \subseteq 1..made
    /\ choice \in [Windows -> Options]
    /\ ret \in Options \cup {"cancel"}
    /\ prog \in [Programs -> {"none", "viewable", "iconic", "closed"}]
    /\ listed \subseteq Programs
    /\ machine \in {"up", "restart", "shutdown"}
    /\ answer \in Options \cup {"none", "cancel", "used"}

SessionInit ==
    /\ pc = "armed"
    /\ running = FALSE
    /\ woken = FALSE
    /\ queue = <<>>
    /\ frames = <<>>
    /\ made = 0
    /\ win = 0
    /\ dialogs = {}
    /\ choice = [w \in Windows |-> "logout"]
    /\ ret = "logout"
    /\ prog \in [Programs -> {"none", "viewable"}]
    /\ listed = {}
    /\ machine = "up"
    /\ told = FALSE
    /\ requests = 0
    /\ answer = "none"
    /\ overlap = FALSE
    /\ stopped = FALSE

-----------------------------------------------------------------------------
(* main()                                                                  *)

Start ==
    /\ pc = "armed"
    /\ running' = TRUE
    /\ pc' = "check"
    /\ UNCHANGED <<woken, queue, frames, ui, world, answer, overlap, stopped>>

(* while(service->running()) Fl::wait(FOREVER)                             *)
Check ==
    /\ pc = "check"
    /\ pc' = IF running THEN "waiting" ELSE "over"
    /\ woken' = FALSE
    /\ UNCHANGED <<running, queue, frames, ui, world, answer, overlap, stopped>>

WaitReturns ==
    /\ pc = "waiting"
    /\ frames = <<>>
    /\ woken
    /\ pc' = "check"
    /\ UNCHANGED <<running, woken, queue, frames, ui, world, answer, overlap, stopped>>

-----------------------------------------------------------------------------
(* EvokeService::handle                                                    *)

Top == IF frames = <<>> THEN [at |-> "nothing", ret |-> "none"] ELSE Last(frames)
At(a) == pc = "waiting" /\ Top.at = a
GoTo(a) == frames' = [frames EXCEPT ![Len(frames)].at = a]

(* handle() returns: what called it goes on.                               *)
Return ==
    /\ frames' = Front(frames)
    /\ woken' = TRUE

(* while(win->shown()) Fl::wait(): once the window is hidden the loop of a *)
(* dialog handles no further event, whichever dialog's loop it is.  (Each  *)
(* call of Fl::wait() is taken to handle one event.)                       *)
LoopGoesOn == Top.at = "dialog" => win \in dialogs

(* The event loop is running: main()'s, a dialog's, or a message box's.    *)
Waiting ==
    /\ pc = "waiting"
    /\ Top.at \in {"nothing", "dialog", "ask", "alert"}
    /\ LoopGoesOn

HandleQuit ==
    /\ Waiting
    /\ queue # <<>> /\ Head(queue) = "quit"
    /\ queue' = Tail(queue)
    /\ running' = FALSE
    /\ stopped' = TRUE
    /\ woken' = TRUE
    /\ UNCHANGED <<pc, frames, ui, world, answer, overlap>>

(* Mutant: the result of the last dialog is kept.                          *)
HandleShutdownStale ==
    /\ Waiting
    /\ frames # <<>> => "nested" \in Mishaps
    /\ queue # <<>> /\ Head(queue) = "shutdown"
    /\ queue' = Tail(queue)
    /\ made' = made + 1
    /\ win' = made'
    /\ dialogs' = dialogs \cup {made'}
    /\ frames' = Append(frames, [at |-> "dialog", ret |-> "none"])
    /\ answer' = "none"
    /\ overlap' = (overlap \/ frames # <<>>)
    /\ UNCHANGED <<pc, running, woken, choice, ret, world, stopped>>

(* logout_dialog_show(): a new window that shows "Logout"; the variables   *)
(* win and ret_option are those of every dialog.                           *)
HandleShutdown ==
    /\ Waiting
    /\ frames # <<>> => "nested" \in Mishaps
    /\ queue # <<>> /\ Head(queue) = "shutdown"
    /\ queue' = Tail(queue)
    /\ made' = made + 1
    /\ win' = made'
    /\ dialogs' = dialogs \cup {made'}
    /\ ret' = "logout"
    /\ frames' = Append(frames, [at |-> "dialog", ret |-> "none"])
    /\ answer' = "none"
    /\ overlap' = (overlap \/ frames # <<>>)
    /\ UNCHANGED <<pc, running, woken, choice, world, stopped>>

(* A message box is modal: nothing else can be clicked.                    *)
Clickable(w) ==
    /\ w \in dialogs
    /\ pc = "waiting" /\ Top.at \in {"nothing", "dialog"} /\ LoopGoesOn

(* option_cb                                                               *)
Choose(w, o) ==
    /\ Clickable(w)
    /\ choice' = [choice EXCEPT ![w] = o]
    /\ ret' = o
    /\ UNCHANGED <<pc, running, woken, queue, frames, made, win, dialogs, world,
                   answer, overlap, stopped>>

(* ok_cb and cancel_cb hide the window "win" points to, whichever was      *)
(* clicked.                                                                *)
Ok(w) ==
    /\ Clickable(w)
    /\ dialogs' = dialogs \ {win}
    /\ answer' = choice[w]
    /\ UNCHANGED <<pc, running, woken, queue, frames, made, win, choice, ret,
                   world, overlap, stopped>>

Cancel(w) ==
    /\ Clickable(w)
    /\ ret' = "cancel"
    /\ dialogs' = dialogs \ {win}
    /\ answer' = "cancel"
    /\ UNCHANGED <<pc, running, woken, queue, frames, made, win, choice, world,
                   overlap, stopped>>

Open(p) == prog[p] \in {"viewable", "iconic"}

DialogCancelled ==
    /\ At("dialog") /\ win \notin dialogs
    /\ ret = "cancel"
    /\ Return
    /\ UNCHANGED <<pc, running, queue, ui, world, answer, overlap, stopped>>

(* send_dbus_ede_quit(), which does nothing without a session bus.         *)
DialogConfirmed ==
    /\ At("dialog") /\ win \notin dialogs
    /\ ret # "cancel"
    /\ told' \in {told, TRUE}
    /\ frames' = [frames EXCEPT ![Len(frames)] = [at |-> "act", ret |-> ret]]
    /\ answer' = "used"
    /\ UNCHANGED <<pc, running, woken, queue, ui, prog, listed, machine,
                   requests, overlap, stopped>>

-----------------------------------------------------------------------------
(* do_shutdown_or_restart and x_shutdown                                   *)

(* ConsoleKit allows it, or it is a mere logout: x_shutdown() lists the    *)
(* windows on the screen, asks each to close, and sleeps.                  *)
BeginClosing ==
    /\ At("act")
    /\ listed' = {p \in Programs : prog[p] = "viewable"}
    /\ GoTo("closing")
    /\ UNCHANGED <<pc, running, woken, queue, ui, prog, machine, told, requests,
                   answer, overlap, stopped>>

(* Mutant: stop() is forgotten.                                            *)
ReturnOnly ==
    /\ UNCHANGED running
    /\ stopped' = TRUE
    /\ Return

(* stop() is called and handle() returns.                                  *)
StopAndReturn ==
    /\ running' = FALSE
    /\ stopped' = TRUE
    /\ Return

(* Then the clients still there are killed, and the action is requested.   *)
KillRemaining ==
    /\ At("closing")
    /\ dialogs = {}
    /\ prog' = [p \in Programs |-> IF p \in listed THEN "closed" ELSE prog[p]]
    /\ machine' = IF Top.ret = "logout" THEN machine ELSE Top.ret
    /\ StopAndReturn
    /\ UNCHANGED <<pc, queue, ui, listed, told, requests, answer,
                   overlap>>

(* A dialog of evoke itself is among the windows: killing its client ends  *)
(* evoke, after some of the other windows.                                 *)
KillOneself ==
    /\ At("closing")
    /\ dialogs # {}
    /\ \E before \in SUBSET listed :
         prog' = [p \in Programs |-> IF p \in before THEN "closed" ELSE prog[p]]
    /\ pc' = "killed"
    /\ UNCHANGED <<running, woken, queue, frames, ui, listed, machine, told,
                   requests, answer, overlap, stopped>>

(* No connection, no answer or a malformed one: alert(), return false.     *)
BusFails ==
    /\ "refuse" \in Mishaps
    /\ At("act") /\ Top.ret # "logout"
    /\ GoTo("alert")
    /\ UNCHANGED <<pc, running, woken, queue, ui, world, answer, overlap, stopped>>

Refused ==
    /\ "refuse" \in Mishaps
    /\ At("act") /\ Top.ret # "logout"
    /\ GoTo("ask")
    /\ UNCHANGED <<pc, running, woken, queue, ui, world, answer, overlap, stopped>>

AskYes ==
    /\ At("ask")
    /\ GoTo("command")
    /\ UNCHANGED <<pc, running, woken, queue, ui, world, answer, overlap, stopped>>

(* Both return false, and the session goes on.                             *)
AskNoOrAlertDismissed ==
    /\ At("ask") \/ At("alert")
    /\ Return
    /\ UNCHANGED <<pc, running, queue, ui, world, answer, overlap, stopped>>

(* run_sync(POWEROFF_CMD or REBOOT_CMD): x_shutdown() is not called.       *)
CommandRuns ==
    /\ At("command")
    /\ machine' = Top.ret
    /\ StopAndReturn
    /\ UNCHANGED <<pc, queue, ui, prog, listed, told, requests, answer,
                   overlap>>

CommandFails ==
    /\ At("command")
    /\ GoTo("alert")
    /\ UNCHANGED <<pc, running, woken, queue, ui, world, answer, overlap, stopped>>

-----------------------------------------------------------------------------
(* The surroundings                                                        *)

Alive == pc \in {"armed", "check", "waiting"}

(* ede-shutdown sets the property on the root window.                      *)
RunEdeShutdown ==
    /\ Alive
    /\ requests < MaxRequests /\ Len(queue) < MaxQueue
    /\ requests' = requests + 1
    /\ queue' = Append(queue, "shutdown")
    /\ UNCHANGED <<pc, running, woken, frames, ui, prog, listed, machine, told,
                   answer, overlap, stopped>>

RequestQuit ==
    /\ Alive
    /\ "quit" \notin Range(queue) /\ Len(queue) < MaxQueue
    /\ queue' = Append(queue, "quit")
    /\ UNCHANGED <<pc, running, woken, frames, ui, world, answer, overlap, stopped>>

(* quit_signal; it interrupts a wait that has begun.                       *)
Signal ==
    /\ "signal" \in Mishaps
    /\ Alive
    /\ running' = FALSE
    /\ woken' = (woken \/ pc = "waiting")
    /\ UNCHANGED <<pc, queue, frames, ui, world, answer, overlap, stopped>>

(* Any other X event makes Fl::wait() return.                              *)
OtherEvent ==
    /\ pc = "waiting" /\ frames = <<>>
    /\ woken' = TRUE
    /\ UNCHANGED <<pc, running, queue, frames, ui, world, answer, overlap, stopped>>

(* A program is minimized or restored, quits, or starts.                   *)
ProgramChanges(p) ==
    /\ Alive
    /\ \/ /\ "iconify" \in Mishaps
          /\ prog[p] \in {"viewable", "iconic"}
          /\ prog' = [prog EXCEPT ![p] = IF @ = "iconic" THEN "viewable" ELSE "iconic"]
       \/ /\ Open(p)
          /\ prog' = [prog EXCEPT ![p] = "closed"]
       \/ /\ "late" \in Mishaps
          /\ prog[p] = "none"
          /\ prog' = [prog EXCEPT ![p] = "viewable"]
    /\ UNCHANGED <<pc, running, woken, queue, frames, ui, listed, machine, told,
                   requests, answer, overlap, stopped>>

Handler ==
    \/ HandleQuit \/ HandleShutdown \/ DialogCancelled \/ DialogConfirmed
    \/ BeginClosing \/ KillRemaining \/ KillOneself \/ BusFails \/ Refused
    \/ CommandRuns \/ CommandFails

User ==
    \/ \E w \in Windows : Ok(w) \/ Cancel(w) \/ \E o \in Options : Choose(w, o)
    \/ AskYes \/ AskNoOrAlertDismissed
    \/ RunEdeShutdown \/ RequestQuit
    \/ \E p \in Programs : ProgramChanges(p)

SessionNext == Start \/ Check \/ WaitReturns \/ Handler \/ User \/ Signal \/ OtherEvent

SessionSpec == SessionInit /\ [][SessionNext]_sessionVars

(* The program takes its own steps; the user and the other clients of the  *)
(* X server owe it nothing.                                                *)
Fairness ==
    /\ WF_sessionVars(Start) /\ WF_sessionVars(Check)
    /\ WF_sessionVars(WaitReturns) /\ WF_sessionVars(Handler)
FairSession == SessionSpec /\ Fairness

-----------------------------------------------------------------------------
(* Properties                                                              *)

Accepted == At("dialog") /\ Top'.at = "act"

(* evoke acts on a dialog only after an OK, once for each, and does what   *)
(* the dialog showed when OK was pressed, over any sequence of dialogs,    *)
(* refusals and quits - as long as no dialog was opened inside another     *)
(* (handle, logout_dialog_show and its callbacks).                         *)
OnlyOnAnswer == [][Accepted /\ ~overlap => Top'.ret = answer]_sessionVars

(* Once stop() was called by a handler, the session ends, as long as no    *)
(* dialog is left open for ever: main() does not sleep through it.         *)
StopEnds == []<>(frames = <<>>) => (stopped ~> pc \in {"over", "killed"})

(* What the dialog shows beside its second option, Logout.cpp:30: "This    *)
(* option will restart the computer closing all running programs".  OK in  *)
(* a dialog that shows it does nothing else.                               *)
RestartRestarts ==
    [][Accepted /\ answer = "restart" => Top'.ret = "restart"]_sessionVars
=============================================================================

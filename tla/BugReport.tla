----------------------------- MODULE BugReport -----------------------------
(***************************************************************************)
(* Sending a report: ede-bug-report.cpp (send_cb), BugzillaSender.cpp and  *)
(* the calls of Bugzilla.cpp it makes.                                     *)
(*                                                                         *)
(* Each attempt starts one worker thread.  The worker and the window share *)
(* the pipe, the Bugzilla client (bdata) and the flag cancel_sending, all  *)
(* of them static, so an attempt made while an earlier worker still runs   *)
(* shares them with that worker too.                                       *)
(***************************************************************************)
EXTENDS Integers, Sequences, SequencesExt

CONSTANTS
    MaxSends,   \* bound on the attempts to send
    Disturb     \* {"close"}: the user closes the progress window

ASSUME SendAssumption == MaxSends \in Nat \ {0} /\ Disturb \subseteq {"close"}

Attempts == 1..MaxSends
Replies == {"progress", "FAILED", "CANCELED", "DONE"}
GuiPlaces == {"form", "nothread", "loop", "closing", "halfclosed", "freeing", "exit"}
WorkerPlaces == {"none", "new", "login", "check", "sleep", "tosubmit", "submit",
                 "tologout", "logout", "over"}

VARIABLES
    gui,        \* where the main thread is
    attempt,    \* number of the attempt under way
    shown,      \* the progress window is on the screen
    boxes,      \* the message boxes over it, each in an event loop of its own
    pipe,       \* report_pipe
    messages,   \* lines in the pipe
    bdata,      \* the client bdata points to, by the attempt that made it
    alive,      \* the clients not freed
    cancel_sending, data_submitted,
    worker,     \* where each worker is
    should_cancel,
    uses,       \* the client each worker's call under way works with
    received,   \* how often Bugzilla stored the report of each attempt
    pressed,    \* history: where the worker was when Cancel was first pressed
    closed      \* history: a progress window was closed under its thread

window == <<shown, boxes>>
clients == <<bdata, alive>>
threads == <<worker, should_cancel, uses, received>>
history == <<pressed, closed>>
vars == <<gui, attempt, window, pipe, messages, clients, cancel_sending,
          data_submitted, threads, history>>

TypeOK ==
    /\ gui \in GuiPlaces
    /\ attempt \in 0..MaxSends
    /\ shown \in BOOLEAN
    /\ boxes \in Seq({"alert", "message"})
    /\ pipe \in {"open", "halfclosed", "closed"}
    /\ messages \in Seq(Replies)
    /\ bdata \in 0..MaxSends /\ alive \subseteq Attempts
    /\ cancel_sending \in BOOLEAN /\ data_submitted \in BOOLEAN
    /\ worker \in [Attempts -> WorkerPlaces]
    /\ should_cancel \in [Attempts -> BOOLEAN]
    /\ uses \in [Attempts -> 0..MaxSends]
    /\ received \in [Attempts -> 0..1]
    /\ pressed \in [Attempts -> WorkerPlaces]
    /\ closed \in BOOLEAN

Init ==
    /\ gui = "form"
    /\ attempt = 0
    /\ shown = FALSE
    /\ boxes = <<>>
    /\ pipe = "closed"
    /\ messages = <<>>
    /\ bdata = 0
    /\ alive = {}
    /\ cancel_sending = FALSE /\ data_submitted = FALSE
    /\ worker = [n \in Attempts |-> "none"]
    /\ should_cancel = [n \in Attempts |-> FALSE]
    /\ uses = [n \in Attempts |-> 0]
    /\ received = [n \in Attempts |-> 0]
    /\ pressed = [n \in Attempts |-> "none"]
    /\ closed = FALSE

-----------------------------------------------------------------------------
(* bugzilla_send_with_progress: the beginning                              *)

(* Mutant: cancel_sending keeps the answer to the last attempt.            *)
BeginKeepsCancel ==
    /\ gui = "form" /\ boxes = <<>>
    /\ attempt < MaxSends
    /\ attempt' = attempt + 1
    /\ data_submitted' = FALSE /\ UNCHANGED cancel_sending

(* send_cb() with an acceptable form.                                      *)
Begin ==
    /\ gui = "form" /\ boxes = <<>>
    /\ attempt < MaxSends
    /\ attempt' = attempt + 1
    /\ data_submitted' = FALSE /\ cancel_sending' = FALSE

NoPipe ==
    /\ Begin
    /\ boxes' = <<"alert">>
    /\ UNCHANGED <<gui, shown, pipe, messages, clients, threads, history>>

NoClient ==
    /\ Begin
    /\ pipe' = "open" /\ messages' = <<>>
    /\ bdata' = 0
    /\ boxes' = <<"alert">>
    /\ gui' = "closing"
    /\ UNCHANGED <<shown, alive, threads, history>>

OpenWindow ==
    /\ Begin
    /\ pipe' = "open" /\ messages' = <<>>
    /\ bdata' = attempt' /\ alive' = alive \cup {attempt'}
    /\ shown' = TRUE
    /\ UNCHANGED <<should_cancel, uses, received, history>>

(* perform_send() when pthread_create() fails: the window is hidden once   *)
(* the alert is dismissed.                                                 *)
NoThread ==
    /\ OpenWindow
    /\ boxes' = <<"alert">>
    /\ gui' = "nothread"
    /\ UNCHANGED worker

StartThread ==
    /\ OpenWindow
    /\ worker' = [worker EXCEPT ![attempt'] = "new"]
    /\ gui' = "loop"
    /\ UNCHANGED boxes

-----------------------------------------------------------------------------
(* thread_worker                                                           *)

Alive == gui # "exit"

Goes(n, from, to) ==
    /\ Alive
    /\ worker[n] = from
    /\ worker' = [worker EXCEPT ![n] = to]

(* write_string() and write_string_fail().  The reader waits for the end   *)
(* of the line.  A write between the two close() calls raises SIGPIPE.     *)
Write(m) ==
    /\ messages' = IF pipe = "open" THEN Append(messages, m) ELSE messages
    /\ gui' = IF pipe = "halfclosed" THEN "exit" ELSE gui
    /\ UNCHANGED <<attempt, window, pipe, clients, cancel_sending,
                   data_submitted, history>>

Quietly == UNCHANGED <<gui, attempt, window, pipe, messages, clients,
                       cancel_sending, data_submitted, history>>

(* A remote call reads bdata when it is made, and works with that client   *)
(* until it returns.                                                       *)
Call(n, from, to) ==
    /\ Goes(n, from, to)
    /\ uses' = [uses EXCEPT ![n] = bdata]
    /\ UNCHANGED <<should_cancel, received>>
    /\ Quietly

Login(n) == Call(n, "new", "login")
Submit(n) == Call(n, "tosubmit", "submit")
Logout(n) == Call(n, "tologout", "logout")

LoginOk(n) ==
    /\ Goes(n, "login", "check")
    /\ uses' = [uses EXCEPT ![n] = 0]
    /\ UNCHANGED <<should_cancel, received>>
    /\ Quietly

LoginFails(n) ==
    /\ Goes(n, "login", "over")
    /\ uses' = [uses EXCEPT ![n] = 0]
    /\ UNCHANGED <<should_cancel, received>>
    /\ Write("FAILED")

(* The flag is read before sleep(1), and not again.                        *)
ReadFlag(n) ==
    /\ Goes(n, "check", "sleep")
    /\ should_cancel' = [should_cancel EXCEPT ![n] = cancel_sending]
    /\ UNCHANGED <<uses, received>>
    /\ Quietly

(* Mutant: the thread ends without a word.                                 *)
WakeCanceledSilently(n) ==
    /\ should_cancel[n]
    /\ Goes(n, "sleep", "over")
    /\ UNCHANGED <<should_cancel, uses, received>>
    /\ Quietly

WakeCanceled(n) ==
    /\ should_cancel[n]
    /\ Goes(n, "sleep", "over")
    /\ UNCHANGED <<should_cancel, uses, received>>
    /\ Write("CANCELED")

WakeSubmits(n) ==
    /\ ~should_cancel[n]
    /\ Goes(n, "sleep", "tosubmit")
    /\ UNCHANGED <<should_cancel, uses, received>>
    /\ Write("progress")

(* Mutant: the result is not looked at.                                    *)
SubmitUnchecked(n) ==
    /\ Goes(n, "submit", "tologout")
    /\ uses' = [uses EXCEPT ![n] = 0]
    /\ UNCHANGED <<should_cancel, received>>
    /\ Write("progress")

SubmitOk(n) ==
    /\ Goes(n, "submit", "tologout")
    /\ uses' = [uses EXCEPT ![n] = 0]
    /\ received' = [received EXCEPT ![n] = @ + 1]
    /\ UNCHANGED should_cancel
    /\ Write("progress")

(* bugzilla_submit_bug() returns -1: the call failed, or the report was    *)
(* stored and the answer was lost or without an id.                        *)
SubmitFails(n) ==
    /\ Goes(n, "submit", "over")
    /\ uses' = [uses EXCEPT ![n] = 0]
    /\ \/ UNCHANGED received
       \/ received' = [received EXCEPT ![n] = @ + 1]
    /\ UNCHANGED should_cancel
    /\ Write("FAILED")

(* Whether the logout succeeded does not matter.                           *)
LogoutReturns(n) ==
    /\ Goes(n, "logout", "over")
    /\ uses' = [uses EXCEPT ![n] = 0]
    /\ UNCHANGED <<should_cancel, received>>
    /\ Write("DONE")

CallReturns(n) ==
    LoginOk(n) \/ LoginFails(n) \/ SubmitOk(n) \/ SubmitFails(n) \/ LogoutReturns(n)

WorkerStep(n) ==
    \/ Login(n) \/ ReadFlag(n) \/ WakeCanceled(n) \/ WakeSubmits(n)
    \/ Submit(n) \/ Logout(n)

-----------------------------------------------------------------------------
(* The window                                                              *)

(* report_pipe_cb is called from whatever event loop runs, a message box's *)
(* too, as long as the descriptor is registered.                           *)
Registered == gui \in {"nothread", "loop"} \/ (gui = "closing" /\ boxes # <<>>)

ReadPipe ==
    /\ Registered
    /\ messages # <<>>
    /\ messages' = Tail(messages)
    /\ shown' = (shown /\ Head(messages) = "progress")
    /\ boxes' = CASE Head(messages) = "FAILED" -> Append(boxes, "alert")
                  [] Head(messages) = "DONE" -> Append(boxes, "message")
                  [] OTHER -> boxes
    /\ UNCHANGED <<gui, attempt, pipe, clients, cancel_sending, data_submitted,
                   threads, history>>

(* The box on top is dismissed and what opened it goes on.                 *)
Dismiss ==
    /\ Alive
    /\ boxes # <<>>
    /\ boxes' = Front(boxes)
    /\ data_submitted' = (data_submitted \/ Last(boxes) = "message")
    /\ IF gui = "nothread" /\ Len(boxes) = 1
       THEN shown' = FALSE /\ gui' = "loop"
       ELSE UNCHANGED <<shown, gui>>
    /\ UNCHANGED <<attempt, pipe, messages, clients, cancel_sending, threads,
                   history>>

Clickable == gui = "loop" /\ shown /\ boxes = <<>>

Press ==
    /\ pressed' = [pressed EXCEPT ![attempt] = IF @ = "none" THEN worker[attempt] ELSE @]
    /\ UNCHANGED closed

(* Mutant: the window is hidden at once, which the comment in cancel_cb    *)
(* warns of.                                                               *)
CancelHides ==
    /\ Clickable
    /\ cancel_sending' = TRUE
    /\ shown' = FALSE
    /\ Press
    /\ UNCHANGED <<gui, attempt, boxes, pipe, messages, clients, data_submitted,
                   threads>>

(* cancel_cb                                                               *)
Cancel ==
    /\ Clickable
    /\ cancel_sending' = TRUE
    /\ Press
    /\ UNCHANGED <<gui, attempt, window, pipe, messages, clients,
                   data_submitted, threads>>

(* Escape or the window manager's close button: the window has no callback *)
(* of its own, and FLTK's hides it.                                        *)
CloseWindow ==
    /\ "close" \in Disturb
    /\ Clickable
    /\ shown' = FALSE
    /\ closed' = TRUE
    /\ UNCHANGED <<gui, attempt, boxes, pipe, messages, clients, cancel_sending,
                   data_submitted, threads, pressed>>

(* The loop ends; the mutex is destroyed and the callback removed.         *)
LoopEnds ==
    /\ gui = "loop"
    /\ ~shown /\ boxes = <<>>
    /\ gui' = "closing"
    /\ UNCHANGED <<attempt, window, pipe, messages, clients, cancel_sending,
                   data_submitted, threads, history>>

CloseReadEnd ==
    /\ gui = "closing" /\ boxes = <<>>
    /\ pipe' = "halfclosed" /\ messages' = <<>>
    /\ gui' = "halfclosed"
    /\ UNCHANGED <<attempt, window, clients, cancel_sending, data_submitted,
                   threads, history>>

CloseWriteEnd ==
    /\ gui = "halfclosed"
    /\ pipe' = "closed"
    /\ gui' = "freeing"
    /\ UNCHANGED <<attempt, window, messages, clients, cancel_sending,
                   data_submitted, threads, history>>

(* bugzilla_free() and return.  If the report was sent, send_cb() closes   *)
(* the form, which ends the program; else the user may try again.          *)
FreeAndReturn ==
    /\ gui = "freeing"
    /\ alive' = alive \ {bdata}
    /\ gui' = IF data_submitted THEN "exit" ELSE "form"
    /\ UNCHANGED <<attempt, window, pipe, messages, bdata, cancel_sending,
                   data_submitted, threads, history>>

CloseForm ==
    /\ gui = "form" /\ boxes = <<>>
    /\ gui' = "exit"
    /\ UNCHANGED <<attempt, window, pipe, messages, clients, cancel_sending,
                   data_submitted, threads, history>>

-----------------------------------------------------------------------------

GuiStep == ReadPipe \/ LoopEnds \/ CloseReadEnd \/ CloseWriteEnd \/ FreeAndReturn
User == NoPipe \/ NoClient \/ NoThread \/ StartThread \/ Cancel \/ CloseWindow \/ CloseForm
Next == GuiStep \/ User \/ Dismiss \/ \E n \in Attempts : WorkerStep(n) \/ CallReturns(n)

Spec == Init /\ [][Next]_vars

(* The event loop and the threads run; remote calls, for which no time     *)
(* limit is set, and the user owe nothing.                                 *)
Fairness ==
    /\ WF_vars(GuiStep)
    /\ \A n \in Attempts : WF_vars(WorkerStep(n))
FairSpec == Spec /\ Fairness

-----------------------------------------------------------------------------
(* Properties                                                              *)

(* As long as no progress window is closed under its thread:               *)

(* bugzilla_send_with_progress() returns true only if Bugzilla has the     *)
(* report of this attempt, whatever became of the earlier ones.            *)
ThanksMeanReceived == ~closed /\ data_submitted => received[attempt] = 1

(* The pipe, the mutex and the strings of the report are given up only     *)
(* when no thread that uses them is left, though no thread is joined; and  *)
(* no remote call works with a client bugzilla_free() has destroyed (the   *)
(* assertion of xmlrpc-c that the comment in cancel_cb, :113-116, wants to *)
(* prevent).                                                               *)
NothingPulledAway ==
    ~closed =>
        \A n \in Attempts :
            /\ gui \in {"closing", "halfclosed", "freeing", "form"}
                  => worker[n] \in {"none", "over"}
            /\ uses[n] # 0 => uses[n] \in alive

(* A cancel pressed before the thread looks at the flag keeps the report   *)
(* from being sent, and a report is given up as cancelled only if this     *)
(* attempt was cancelled.                                                  *)
CancelHonoured ==
    ~closed =>
        \A n \in Attempts :
            /\ pressed[n] \in {"new", "login", "check"} => received[n] = 0
            /\ should_cancel[n] => pressed[n] # "none"

(* Every attempt comes to an end, whatever fails and when, as long as no   *)
(* remote call hangs and no message box is left open for ever.             *)
SendEnds ==
    []<>(boxes = <<>>) /\ (\A n \in Attempts : []<>(uses[n] = 0)) =>
        (gui \in {"nothread", "loop"} ~> gui \in {"form", "exit"})

(* BugzillaSender.cpp:116: the thread is to "catch it before               *)
(* bugzilla_submit_bug() is called": a cancel pressed before that call     *)
(* keeps the report from being sent.                                       *)
CancelBeforeSubmit ==
    \A n \in Attempts :
        pressed[n] \in {"new", "login", "check", "sleep", "tosubmit"} => received[n] = 0

(* BugzillaSender.cpp:159: what the thread's DONE sets is "the only case   *)
(* when data was submitted correctly": also after an attempt was closed.   *)
DoneMeansReceived == data_submitted => received[attempt] = 1
=============================================================================

--------------------------- MODULE ProgramProofs ----------------------------
(***************************************************************************)
(* Three parts of the desktop that share nothing.  ede-bug-report: what    *)
(* holds of a report for any number of attempts, as long as the user does  *)
(* not close a progress window under its thread.  ede-notify-daemon: for   *)
(* any number of clients, windows and ids, the ids on the screen are       *)
(* distinct and no client changes what another shows, as long as the       *)
(* counter has not started over and clients replace only their own ids.    *)
(* The states of a pekwm frame: that the flags of a frame and of the       *)
(* window in front stay together, that a shaded frame has a part left and  *)
(* that the window in front fills its frame, for any number of tabs,       *)
(* whatever they arrive with.                                              *)
(***************************************************************************)
EXTENDS BugReport, NotifyDaemon, FrameState, SequenceTheorems, TLAPS

-----------------------------------------------------------------------------
(* ede-bug-report.                                                         *)

Idle(n) == worker[n] \in {"none", "over"}
Unsent == {"none", "new", "login", "check", "sleep", "tosubmit", "submit"}
Early == {"new", "login", "check"}

(* Whether Bugzilla has a report follows from where its worker is; of one  *)
(* that is over nothing can be said.                                       *)
Stored ==
    \A n \in Attempts :
        /\ worker[n] \in Unsent => received[n] = 0
        /\ worker[n] \in {"tologout", "logout"} => received[n] = 1
        /\ n > attempt => worker[n] = "none" /\ pressed[n] = "none"

(* One worker at most runs, that of the attempt under way, with the client *)
(* of this attempt.                                                        *)
Single ==
    \A n \in Attempts :
        /\ n # attempt => Idle(n)
        /\ uses[n] # 0 => worker[n] \in {"login", "submit", "logout"} /\ uses[n] = attempt

(* While it runs the window waits for it.                                  *)
Waits ==
    /\ \A n \in Attempts : ~ Idle(n) => gui = "loop" /\ shown
    /\ gui \in {"nothread", "loop"} => attempt \in Attempts /\ bdata = attempt /\ attempt \in alive
    /\ gui \in {"nothread", "loop", "closing"} => pipe = "open"
    /\ gui = "loop" /\ shown => worker[attempt] # "none"

(* What ends the attempt is written last, and nothing is left in the pipe  *)
(* for the next one.                                                       *)
Says(s, v) == \E i \in 1..Len(s) : s[i] = v
Ended == \E v \in Replies \ {"progress"} : Says(messages, v)
Done == Says(messages, "DONE") \/ Says(boxes, "message") \/ data_submitted
Lines ==
    /\ gui \in {"form", "halfclosed", "freeing"} => messages = <<>>
    /\ Ended => \A n \in Attempts : Idle(n)
    /\ Done => attempt \in Attempts /\ received[attempt] = 1

(* A cancel in time is still seen, or was seen, by the worker.             *)
Cancels ==
    /\ cancel_sending => attempt \in Attempts /\ pressed[attempt] # "none"
    /\ \A n \in Attempts :
        /\ should_cancel[n] => pressed[n] # "none"
        /\ pressed[n] \in Early =>
               /\ received[n] = 0
               /\ worker[n] \in Early => cancel_sending
               /\ worker[n] = "sleep" => should_cancel[n]
               /\ worker[n] \notin {"tosubmit", "submit", "tologout", "logout"}

Undisturbed == Single /\ Waits /\ Lines /\ Cancels

IInv == TypeOK /\ Stored /\ (~ closed => Undisturbed)

(* Front() drops the last box and keeps the others.                        *)
LEMMA FrontKeeps ==
    ASSUME NEW S, NEW s \in Seq(S), s # <<>>
    PROVE  /\ Front(s) \in Seq(S) /\ Last(s) = s[Len(s)] /\ Len(s) > 0
           /\ Len(Front(s)) = Len(s) - 1
           /\ \A i \in 1..Len(Front(s)) : Front(s)[i] = s[i]
  <1>1. Len(s) \in Nat /\ Len(s) > 0 /\ \A i \in 1..Len(s) - 1 : s[i] \in S
    OBVIOUS
  <1> DEFINE n == Len(s) - 1
  <1>2. n \in Nat /\ n - 1 + 1 = n /\ (IF 1 <= n THEN n - 1 + 1 ELSE 0) = n
        /\ \A i \in 1..n : 1 + i - 1 = i
    <2>1. n \in Nat
      BY <1>1
    <2> HIDE DEF n
    <2> QED BY <2>1
  <1>3. /\ SubSeq(s, 1, n) \in Seq(S)
        /\ Len(SubSeq(s, 1, n)) = (IF 1 <= n THEN n - 1 + 1 ELSE 0)
        /\ \A i \in 1..n - 1 + 1 : SubSeq(s, 1, n)[i] = s[1 + i - 1]
    <2> HIDE DEF n
    <2>1. 1 \in Int /\ n \in Int /\ \A i \in 1..n : s[i] \in S
      BY <1>1, <1>2 DEF n
    <2> QED BY <2>1, SubSeqProperties
  <1>4. Front(s) = SubSeq(s, 1, n) /\ Last(s) = s[Len(s)]
    BY DEF Front, Last
  <1> HIDE DEF n
  <1>5. n = Len(s) - 1
    BY DEF n
  <1> QED BY <1>1, <1>2, <1>3, <1>4, <1>5

(* A sequence says one thing more when it is appended.                     *)
LEMMA SaysAppend ==
    ASSUME NEW S, NEW s \in Seq(S), NEW m \in S, NEW v
    PROVE  Says(Append(s, m), v) <=> Says(s, v) \/ m = v
  <1>1. /\ Len(s) \in Nat /\ Len(Append(s, m)) = Len(s) + 1
        /\ Append(s, m)[Len(s) + 1] = m
        /\ \A i \in 1..Len(s) : Append(s, m)[i] = s[i]
    OBVIOUS
  <1>2. \A i \in 1..Len(s) + 1 : i \in 1..Len(s) \/ i = Len(s) + 1
    BY <1>1
  <1>3. \A i \in 1..Len(s) : i \in 1..Len(s) + 1
    BY <1>1
  <1>4. Len(s) + 1 \in 1..Len(s) + 1
    BY <1>1
  <1> QED BY <1>1, <1>2, <1>3, <1>4, Zenon DEF Says

(* Reading a line adds none.                                               *)
LEMMA SaysTail ==
    ASSUME NEW S, NEW s \in Seq(S), s # <<>>, NEW v
    PROVE  /\ Says(Tail(s), v) => Says(s, v)
           /\ Says(s, Head(s)) /\ Head(s) \in S
  <1>1. /\ Len(s) \in Nat \ {0} /\ Head(s) = s[1] /\ s[1] \in S
        /\ Len(Tail(s)) = Len(s) - 1
        /\ \A i \in 1..Len(s) - 1 : Tail(s)[i] = s[i + 1]
    OBVIOUS
  <1>2. 1 \in 1..Len(s) /\ \A i \in 1..Len(s) - 1 : i + 1 \in 1..Len(s)
    BY <1>1
  <1> QED BY <1>1, <1>2, Zenon DEF Says

(* Dismissing a box adds none.                                             *)
LEMMA SaysFront ==
    ASSUME NEW S, NEW s \in Seq(S), s # <<>>, NEW v
    PROVE  (Says(Front(s), v) => Says(s, v)) /\ Says(s, Last(s))
  <1>1. Len(s) \in 1..Len(s) /\ \A i \in 1..Len(s) - 1 : i \in 1..Len(s)
    BY FrontKeeps
  <1> QED BY <1>1, FrontKeeps DEF Says

(* A pipe just made has no line, and an alert is not the thanks.           *)
LEMMA SaysNothing == (\A v : ~ Says(<<>>, v)) /\ ~ Says(<<"alert">>, "message")
  BY DEF Says

(* Every step keeps the types; the report of an attempt is not stored a    *)
(* second time, since its worker submits once.                             *)
LEMMA TypeStep == TypeOK /\ Stored /\ [Next]_vars => TypeOK'
  <1> SUFFICES ASSUME TypeOK, Stored, [Next]_vars PROVE TypeOK'
    OBVIOUS
  <1> USE SendAssumption DEF Attempts, Replies, GuiPlaces, WorkerPlaces
  <1>a. /\ <<"alert">> \in Seq({"alert", "message"}) /\ <<>> \in Seq(Replies)
        /\ attempt < MaxSends => attempt + 1 \in 1..MaxSends
    BY DEF TypeOK
  <1>1. CASE NoPipe
    <2>1. attempt' \in Attempts /\ attempt' \in 0..MaxSends
      BY <1>1, <1>a DEF NoPipe, Begin, TypeOK
    <2>2. boxes' \in Seq({"alert", "message"}) /\ messages' \in Seq(Replies)
      BY <1>1, <1>a DEF NoPipe, Begin, TypeOK, window, clients, threads, history
    <2>3. /\ gui' \in GuiPlaces /\ shown' \in BOOLEAN /\ pipe' \in {"open", "halfclosed", "closed"}
          /\ bdata' \in 0..MaxSends /\ alive' \subseteq Attempts
          /\ cancel_sending' \in BOOLEAN /\ data_submitted' \in BOOLEAN
      BY <1>1, <2>1 DEF NoPipe, Begin, TypeOK, window, clients, threads, history
    <2>4. /\ worker' \in [Attempts -> WorkerPlaces] /\ should_cancel' \in [Attempts -> BOOLEAN]
          /\ uses' \in [Attempts -> 0..MaxSends] /\ received' \in [Attempts -> 0..1]
          /\ pressed' \in [Attempts -> WorkerPlaces] /\ closed' \in BOOLEAN
      BY <1>1, <2>1 DEF NoPipe, Begin, TypeOK, window, clients, threads, history
    <2> QED BY <2>1, <2>2, <2>3, <2>4 DEF TypeOK
  <1>2. CASE NoClient
    <2>1. attempt' \in Attempts /\ attempt' \in 0..MaxSends
      BY <1>2, <1>a DEF NoClient, Begin, TypeOK
    <2>2. boxes' \in Seq({"alert", "message"}) /\ messages' \in Seq(Replies)
      BY <1>2, <1>a DEF NoClient, Begin, TypeOK, window, clients, threads, history
    <2>3. /\ gui' \in GuiPlaces /\ shown' \in BOOLEAN /\ pipe' \in {"open", "halfclosed", "closed"}
          /\ bdata' \in 0..MaxSends /\ alive' \subseteq Attempts
          /\ cancel_sending' \in BOOLEAN /\ data_submitted' \in BOOLEAN
      <3>1. bdata' = 0 /\ alive' = alive /\ shown' = shown
        BY <1>2 DEF NoClient
      <3>2. gui' = "closing" /\ pipe' = "open" /\ cancel_sending' = FALSE /\ data_submitted' = FALSE
        BY <1>2 DEF NoClient, Begin
      <3>3. gui' \in GuiPlaces /\ pipe' \in {"open", "halfclosed", "closed"} /\ bdata' \in 0..MaxSends
        BY <3>1, <3>2
      <3>4. shown' \in BOOLEAN /\ alive' \subseteq Attempts
        BY <3>1 DEF TypeOK
      <3>5. cancel_sending' \in BOOLEAN /\ data_submitted' \in BOOLEAN
        BY <3>2
      <3> QED BY <3>3, <3>4, <3>5
    <2>4. /\ worker' \in [Attempts -> WorkerPlaces] /\ should_cancel' \in [Attempts -> BOOLEAN]
          /\ uses' \in [Attempts -> 0..MaxSends] /\ received' \in [Attempts -> 0..1]
          /\ pressed' \in [Attempts -> WorkerPlaces] /\ closed' \in BOOLEAN
      BY <1>2, <2>1 DEF NoClient, Begin, TypeOK, window, clients, threads, history
    <2> QED BY <2>1, <2>2, <2>3, <2>4 DEF TypeOK
  <1>3. CASE NoThread
    <2>1. attempt' \in Attempts /\ attempt' \in 0..MaxSends
      BY <1>3, <1>a DEF NoThread, OpenWindow, Begin, TypeOK
    <2>2. boxes' \in Seq({"alert", "message"}) /\ messages' \in Seq(Replies)
      BY <1>3, <1>a DEF NoThread, OpenWindow, Begin, TypeOK, window, clients, threads,
         history
    <2>3. /\ gui' \in GuiPlaces /\ shown' \in BOOLEAN /\ pipe' \in {"open", "halfclosed", "closed"}
          /\ bdata' \in 0..MaxSends /\ alive' \subseteq Attempts
          /\ cancel_sending' \in BOOLEAN /\ data_submitted' \in BOOLEAN
      BY <1>3, <2>1 DEF NoThread, OpenWindow, Begin, TypeOK, window, clients, threads,
         history
    <2>4. /\ worker' \in [Attempts -> WorkerPlaces] /\ should_cancel' \in [Attempts -> BOOLEAN]
          /\ uses' \in [Attempts -> 0..MaxSends] /\ received' \in [Attempts -> 0..1]
          /\ pressed' \in [Attempts -> WorkerPlaces] /\ closed' \in BOOLEAN
      BY <1>3, <2>1 DEF NoThread, OpenWindow, Begin, TypeOK, window, clients, threads,
         history
    <2> QED BY <2>1, <2>2, <2>3, <2>4 DEF TypeOK
  <1>4. CASE StartThread
    <2>1. attempt' \in Attempts /\ attempt' \in 0..MaxSends
      BY <1>4, <1>a DEF StartThread, OpenWindow, Begin, TypeOK
    <2>2. boxes' \in Seq({"alert", "message"}) /\ messages' \in Seq(Replies)
      BY <1>4, <1>a DEF StartThread, OpenWindow, Begin, TypeOK, window, clients,
         threads, history
    <2>3. /\ gui' \in GuiPlaces /\ shown' \in BOOLEAN /\ pipe' \in {"open", "halfclosed", "closed"}
          /\ bdata' \in 0..MaxSends /\ alive' \subseteq Attempts
          /\ cancel_sending' \in BOOLEAN /\ data_submitted' \in BOOLEAN
      BY <1>4, <2>1 DEF StartThread, OpenWindow, Begin, TypeOK, window, clients,
         threads, history
    <2>4. /\ worker' \in [Attempts -> WorkerPlaces] /\ should_cancel' \in [Attempts -> BOOLEAN]
          /\ uses' \in [Attempts -> 0..MaxSends] /\ received' \in [Attempts -> 0..1]
          /\ pressed' \in [Attempts -> WorkerPlaces] /\ closed' \in BOOLEAN
      BY <1>4, <2>1 DEF StartThread, OpenWindow, Begin, TypeOK, window, clients,
         threads, history
    <2> QED BY <2>1, <2>2, <2>3, <2>4 DEF TypeOK
  <1>5. CASE ReadPipe
    BY <1>5 DEF ReadPipe, Registered, TypeOK, window, clients, threads, history
  <1>6. CASE Dismiss
    <2>1. boxes' \in Seq({"alert", "message"}) /\ data_submitted' \in BOOLEAN
      BY <1>6, FrontKeeps DEF Dismiss, TypeOK
    <2> QED BY <1>6, <2>1 DEF Dismiss, TypeOK, window, clients, threads, history
  <1>7. CASE Cancel
    BY <1>7 DEF Cancel, Clickable, Press, TypeOK, window, clients, threads, history
  <1>8. CASE CloseWindow
    BY <1>8 DEF CloseWindow, Clickable, TypeOK, window, clients, threads, history
  <1>9. CASE LoopEnds
    BY <1>9 DEF LoopEnds, TypeOK, window, clients, threads, history
  <1>10. CASE CloseReadEnd
    BY <1>10 DEF CloseReadEnd, TypeOK, window, clients, threads, history
  <1>11. CASE CloseWriteEnd
    BY <1>11 DEF CloseWriteEnd, TypeOK, window, clients, threads, history
  <1>12. CASE FreeAndReturn
    BY <1>12 DEF FreeAndReturn, TypeOK, window, clients, threads, history
  <1>13. CASE CloseForm
    BY <1>13 DEF CloseForm, TypeOK, window, clients, threads, history
  <1>14. ASSUME NEW n \in Attempts, Login(n) PROVE TypeOK'
    BY <1>14 DEF Login, Goes, Alive, Call, Quietly, TypeOK, window, clients, threads,
       history
  <1>15. ASSUME NEW n \in Attempts, ReadFlag(n) PROVE TypeOK'
    BY <1>15 DEF ReadFlag, Goes, Alive, Quietly, TypeOK, window, clients, threads,
       history
  <1>16. ASSUME NEW n \in Attempts, WakeCanceled(n) PROVE TypeOK'
    BY <1>16 DEF WakeCanceled, Goes, Alive, Write, TypeOK, window, clients, threads,
       history
  <1>17. ASSUME NEW n \in Attempts, WakeSubmits(n) PROVE TypeOK'
    BY <1>17 DEF WakeSubmits, Goes, Alive, Write, TypeOK, window, clients, threads,
       history
  <1>18. ASSUME NEW n \in Attempts, Submit(n) PROVE TypeOK'
    BY <1>18 DEF Submit, Goes, Alive, Call, Quietly, TypeOK, window, clients, threads,
       history
  <1>19. ASSUME NEW n \in Attempts, Logout(n) PROVE TypeOK'
    BY <1>19 DEF Logout, Goes, Alive, Call, Quietly, TypeOK, window, clients, threads,
       history
  <1>20. ASSUME NEW n \in Attempts, LoginOk(n) PROVE TypeOK'
    BY <1>20 DEF LoginOk, Goes, Alive, Quietly, TypeOK, window, clients, threads,
       history
  <1>21. ASSUME NEW n \in Attempts, LoginFails(n) PROVE TypeOK'
    BY <1>21 DEF LoginFails, Goes, Alive, Write, TypeOK, window, clients, threads,
       history
  <1>22. ASSUME NEW n \in Attempts, SubmitOk(n) PROVE TypeOK'
    BY <1>22 DEF SubmitOk, Goes, Alive, Write, TypeOK, Stored, Unsent, window, clients,
       threads, history
  <1>23. ASSUME NEW n \in Attempts, SubmitFails(n) PROVE TypeOK'
    BY <1>23 DEF SubmitFails, Goes, Alive, Write, TypeOK, Stored, Unsent, window,
       clients, threads, history
  <1>24. ASSUME NEW n \in Attempts, LogoutReturns(n) PROVE TypeOK'
    BY <1>24 DEF LogoutReturns, Goes, Alive, Write, TypeOK, window, clients, threads,
       history
  <1>25. CASE UNCHANGED vars
    BY <1>25 DEF vars, TypeOK, window, clients, threads, history
  <1> QED BY <1>1, <1>2, <1>3, <1>4, <1>5, <1>6, <1>7, <1>8, <1>9, <1>10, <1>11, <1>12,
             <1>13, <1>14, <1>15, <1>16, <1>17, <1>18, <1>19, <1>20, <1>21, <1>22,
             <1>23, <1>24, <1>25 DEF Next, GuiStep, User, WorkerStep, CallReturns

(* Every step, also after a window was closed, keeps what the place of a   *)
(* worker says of its report.                                              *)
LEMMA StoredStep == TypeOK /\ Stored /\ [Next]_vars => Stored'
  <1> SUFFICES ASSUME TypeOK, Stored, [Next]_vars PROVE Stored'
    OBVIOUS
  <1> USE SendAssumption DEF Attempts, Unsent
  <1>1. CASE NoPipe
    BY <1>1 DEF NoPipe, Begin, TypeOK, Stored, window, clients, threads, history
  <1>2. CASE NoClient
    BY <1>2 DEF NoClient, Begin, TypeOK, Stored, window, clients, threads, history
  <1>3. CASE NoThread
    BY <1>3 DEF NoThread, OpenWindow, Begin, TypeOK, Stored, window, clients, threads,
       history
  <1>4. CASE StartThread
    BY <1>4 DEF StartThread, OpenWindow, Begin, TypeOK, Stored, window, clients,
       threads, history
  <1>5. CASE ReadPipe
    BY <1>5 DEF ReadPipe, Registered, TypeOK, Stored, window, clients, threads, history
  <1>6. CASE Dismiss
    BY <1>6 DEF Dismiss, Alive, TypeOK, Stored, window, clients, threads, history
  <1>7. CASE Cancel
    BY <1>7 DEF Cancel, Clickable, Press, TypeOK, Stored, window, clients, threads,
       history
  <1>8. CASE CloseWindow
    BY <1>8 DEF CloseWindow, Clickable, TypeOK, Stored, window, clients, threads,
       history
  <1>9. CASE LoopEnds
    BY <1>9 DEF LoopEnds, TypeOK, Stored, window, clients, threads, history
  <1>10. CASE CloseReadEnd
    BY <1>10 DEF CloseReadEnd, TypeOK, Stored, window, clients, threads, history
  <1>11. CASE CloseWriteEnd
    BY <1>11 DEF CloseWriteEnd, TypeOK, Stored, window, clients, threads, history
  <1>12. CASE FreeAndReturn
    BY <1>12 DEF FreeAndReturn, TypeOK, Stored, window, clients, threads, history
  <1>13. CASE CloseForm
    BY <1>13 DEF CloseForm, TypeOK, Stored, window, clients, threads, history
  <1>14. ASSUME NEW n \in Attempts, Login(n) PROVE Stored'
    BY <1>14 DEF Login, Goes, Alive, Call, Quietly, TypeOK, Stored, window, clients,
       threads, history
  <1>15. ASSUME NEW n \in Attempts, ReadFlag(n) PROVE Stored'
    BY <1>15 DEF ReadFlag, Goes, Alive, Quietly, TypeOK, Stored, window, clients,
       threads, history
  <1>16. ASSUME NEW n \in Attempts, WakeCanceled(n) PROVE Stored'
    BY <1>16 DEF WakeCanceled, Goes, Alive, Write, TypeOK, Stored, window, clients,
       threads, history
  <1>17. ASSUME NEW n \in Attempts, WakeSubmits(n) PROVE Stored'
    BY <1>17 DEF WakeSubmits, Goes, Alive, Write, TypeOK, Stored, window, clients,
       threads, history
  <1>18. ASSUME NEW n \in Attempts, Submit(n) PROVE Stored'
    BY <1>18 DEF Submit, Goes, Alive, Call, Quietly, TypeOK, Stored, window, clients,
       threads, history
  <1>19. ASSUME NEW n \in Attempts, Logout(n) PROVE Stored'
    BY <1>19 DEF Logout, Goes, Alive, Call, Quietly, TypeOK, Stored, window, clients,
       threads, history
  <1>20. ASSUME NEW n \in Attempts, LoginOk(n) PROVE Stored'
    BY <1>20 DEF LoginOk, Goes, Alive, Quietly, TypeOK, Stored, window, clients,
       threads, history
  <1>21. ASSUME NEW n \in Attempts, LoginFails(n) PROVE Stored'
    BY <1>21 DEF LoginFails, Goes, Alive, Write, TypeOK, Stored, window, clients,
       threads, history
  <1>22. ASSUME NEW n \in Attempts, SubmitOk(n) PROVE Stored'
    BY <1>22 DEF SubmitOk, Goes, Alive, Write, TypeOK, Stored, window, clients, threads,
       history
  <1>23. ASSUME NEW n \in Attempts, SubmitFails(n) PROVE Stored'
    BY <1>23 DEF SubmitFails, Goes, Alive, Write, TypeOK, Stored, window, clients,
       threads, history
  <1>24. ASSUME NEW n \in Attempts, LogoutReturns(n) PROVE Stored'
    BY <1>24 DEF LogoutReturns, Goes, Alive, Write, TypeOK, Stored, window, clients,
       threads, history
  <1>25. CASE UNCHANGED vars
    BY <1>25 DEF vars, TypeOK, Stored, window, clients, threads, history
  <1> QED BY <1>1, <1>2, <1>3, <1>4, <1>5, <1>6, <1>7, <1>8, <1>9, <1>10, <1>11, <1>12,
             <1>13, <1>14, <1>15, <1>16, <1>17, <1>18, <1>19, <1>20, <1>21, <1>22,
             <1>23, <1>24, <1>25 DEF Next, GuiStep, User, WorkerStep, CallReturns

(* A new attempt begins from the form, where no worker is left, so there   *)
(* is one worker still.                                                    *)
LEMMA SingleStep ==
    ASSUME TypeOK, Stored, Undisturbed, [Next]_vars, ~ closed'
    PROVE  Single'
  <1> USE SendAssumption DEF Attempts, Idle, Undisturbed
  <1>1. CASE NoPipe
    BY <1>1 DEF NoPipe, Begin, TypeOK, Stored, Single, Waits, window, clients, threads,
       history
  <1>2. CASE NoClient
    BY <1>2 DEF NoClient, Begin, TypeOK, Stored, Single, Waits, window, clients,
       threads, history
  <1>3. CASE NoThread
    BY <1>3 DEF NoThread, OpenWindow, Begin, TypeOK, Stored, Single, Waits, window,
       clients, threads, history
  <1>4. CASE StartThread
    BY <1>4 DEF StartThread, OpenWindow, Begin, TypeOK, Stored, Single, Waits, window,
       clients, threads, history
  <1>5. CASE ReadPipe
    BY <1>5 DEF ReadPipe, Registered, TypeOK, Stored, Single, Waits, window, clients,
       threads, history
  <1>6. CASE Dismiss
    BY <1>6 DEF Dismiss, Alive, TypeOK, Stored, Single, Waits, window, clients, threads,
       history
  <1>7. CASE Cancel
    BY <1>7 DEF Cancel, Clickable, Press, TypeOK, Stored, Single, Waits, window,
       clients, threads, history
  <1>8. CASE CloseWindow
    BY <1>8 DEF CloseWindow, Clickable, TypeOK, Stored, Single, Waits, window, clients,
       threads, history
  <1>9. CASE LoopEnds
    BY <1>9 DEF LoopEnds, TypeOK, Stored, Single, Waits, window, clients, threads,
       history
  <1>10. CASE CloseReadEnd
    BY <1>10 DEF CloseReadEnd, TypeOK, Stored, Single, Waits, window, clients, threads,
       history
  <1>11. CASE CloseWriteEnd
    BY <1>11 DEF CloseWriteEnd, TypeOK, Stored, Single, Waits, window, clients, threads,
       history
  <1>12. CASE FreeAndReturn
    BY <1>12 DEF FreeAndReturn, TypeOK, Stored, Single, Waits, window, clients, threads,
       history
  <1>13. CASE CloseForm
    BY <1>13 DEF CloseForm, TypeOK, Stored, Single, Waits, window, clients, threads,
       history
  <1>14. ASSUME NEW n \in Attempts, Login(n) PROVE Single'
    BY <1>14 DEF Login, Goes, Alive, Call, Quietly, TypeOK, Stored, Single, Waits,
       window, clients, threads, history
  <1>15. ASSUME NEW n \in Attempts, ReadFlag(n) PROVE Single'
    BY <1>15 DEF ReadFlag, Goes, Alive, Quietly, TypeOK, Stored, Single, Waits, window,
       clients, threads, history
  <1>16. ASSUME NEW n \in Attempts, WakeCanceled(n) PROVE Single'
    BY <1>16 DEF WakeCanceled, Goes, Alive, Write, TypeOK, Stored, Single, Waits,
       window, clients, threads, history
  <1>17. ASSUME NEW n \in Attempts, WakeSubmits(n) PROVE Single'
    BY <1>17 DEF WakeSubmits, Goes, Alive, Write, TypeOK, Stored, Single, Waits, window,
       clients, threads, history
  <1>18. ASSUME NEW n \in Attempts, Submit(n) PROVE Single'
    BY <1>18 DEF Submit, Goes, Alive, Call, Quietly, TypeOK, Stored, Single, Waits,
       window, clients, threads, history
  <1>19. ASSUME NEW n \in Attempts, Logout(n) PROVE Single'
    BY <1>19 DEF Logout, Goes, Alive, Call, Quietly, TypeOK, Stored, Single, Waits,
       window, clients, threads, history
  <1>20. ASSUME NEW n \in Attempts, LoginOk(n) PROVE Single'
    BY <1>20 DEF LoginOk, Goes, Alive, Quietly, TypeOK, Stored, Single, Waits, window,
       clients, threads, history
  <1>21. ASSUME NEW n \in Attempts, LoginFails(n) PROVE Single'
    BY <1>21 DEF LoginFails, Goes, Alive, Write, TypeOK, Stored, Single, Waits, window,
       clients, threads, history
  <1>22. ASSUME NEW n \in Attempts, SubmitOk(n) PROVE Single'
    BY <1>22 DEF SubmitOk, Goes, Alive, Write, TypeOK, Stored, Single, Waits, window,
       clients, threads, history
  <1>23. ASSUME NEW n \in Attempts, SubmitFails(n) PROVE Single'
    BY <1>23 DEF SubmitFails, Goes, Alive, Write, TypeOK, Stored, Single, Waits, window,
       clients, threads, history
  <1>24. ASSUME NEW n \in Attempts, LogoutReturns(n) PROVE Single'
    BY <1>24 DEF LogoutReturns, Goes, Alive, Write, TypeOK, Stored, Single, Waits,
       window, clients, threads, history
  <1>25. CASE UNCHANGED vars
    BY <1>25 DEF vars, TypeOK, Stored, Single, Waits, window, clients, threads, history
  <1> QED BY <1>1, <1>2, <1>3, <1>4, <1>5, <1>6, <1>7, <1>8, <1>9, <1>10, <1>11, <1>12,
             <1>13, <1>14, <1>15, <1>16, <1>17, <1>18, <1>19, <1>20, <1>21, <1>22,
             <1>23, <1>24, <1>25 DEF Next, GuiStep, User, WorkerStep, CallReturns

(* The window is hidden by the last line of its worker only, so while one  *)
(* runs the pipe, the client and the window stay.                          *)
LEMMA WaitsStep ==
    ASSUME TypeOK, Stored, Undisturbed, [Next]_vars, ~ closed'
    PROVE  Waits'
  <1> USE SendAssumption DEF Attempts, Idle, Undisturbed
  <1>1. CASE NoPipe
    BY <1>1 DEF NoPipe, Begin, TypeOK, Stored, Single, Waits, Lines, Ended, window,
       clients, threads, history
  <1>2. CASE NoClient
    BY <1>2 DEF NoClient, Begin, TypeOK, Stored, Single, Waits, Lines, Ended, window,
       clients, threads, history
  <1>3. CASE NoThread
    BY <1>3 DEF NoThread, OpenWindow, Begin, TypeOK, Stored, Single, Waits, Lines,
       Ended, window, clients, threads, history
  <1>4. CASE StartThread
    BY <1>4 DEF StartThread, OpenWindow, Begin, TypeOK, Stored, Single, Waits, Lines,
       Ended, window, clients, threads, history
  <1>5. CASE ReadPipe
    <2>1. \/ \A n \in Attempts : Idle(n)
          \/ Head(messages) = "progress"
      BY <1>5, SaysTail DEF ReadPipe, TypeOK, Lines, Ended
    <2>2. /\ UNCHANGED <<gui, attempt, pipe, worker, bdata, alive>>
          /\ shown' => shown
          /\ Head(messages) = "progress" => shown' = shown
      BY <1>5 DEF ReadPipe, clients, threads, TypeOK
    <2> QED BY <2>1, <2>2 DEF Waits, TypeOK
  <1>6. CASE Dismiss
    BY <1>6 DEF Dismiss, Alive, TypeOK, Stored, Single, Waits, Lines, Ended, window,
       clients, threads, history
  <1>7. CASE Cancel
    BY <1>7 DEF Cancel, Clickable, Press, TypeOK, Stored, Single, Waits, Lines, Ended,
       window, clients, threads, history
  <1>8. CASE CloseWindow
    BY <1>8 DEF CloseWindow, Clickable, TypeOK, Stored, Single, Waits, Lines, Ended,
       window, clients, threads, history
  <1>9. CASE LoopEnds
    BY <1>9 DEF LoopEnds, TypeOK, Stored, Single, Waits, Lines, Ended, window, clients,
       threads, history
  <1>10. CASE CloseReadEnd
    BY <1>10 DEF CloseReadEnd, TypeOK, Stored, Single, Waits, Lines, Ended, window,
       clients, threads, history
  <1>11. CASE CloseWriteEnd
    BY <1>11 DEF CloseWriteEnd, TypeOK, Stored, Single, Waits, Lines, Ended, window,
       clients, threads, history
  <1>12. CASE FreeAndReturn
    BY <1>12 DEF FreeAndReturn, TypeOK, Stored, Single, Waits, Lines, Ended, window,
       clients, threads, history
  <1>13. CASE CloseForm
    BY <1>13 DEF CloseForm, TypeOK, Stored, Single, Waits, Lines, Ended, window,
       clients, threads, history
  <1>14. ASSUME NEW n \in Attempts, Login(n) PROVE Waits'
    BY <1>14 DEF Login, Goes, Alive, Call, Quietly, TypeOK, Stored, Single, Waits,
       Lines, Ended, window, clients, threads, history
  <1>15. ASSUME NEW n \in Attempts, ReadFlag(n) PROVE Waits'
    BY <1>15 DEF ReadFlag, Goes, Alive, Quietly, TypeOK, Stored, Single, Waits, Lines,
       Ended, window, clients, threads, history
  <1>16. ASSUME NEW n \in Attempts, WakeCanceled(n) PROVE Waits'
    BY <1>16 DEF WakeCanceled, Goes, Alive, Write, TypeOK, Stored, Single, Waits, Lines,
       Ended, window, clients, threads, history
  <1>17. ASSUME NEW n \in Attempts, WakeSubmits(n) PROVE Waits'
    BY <1>17 DEF WakeSubmits, Goes, Alive, Write, TypeOK, Stored, Single, Waits, Lines,
       Ended, window, clients, threads, history
  <1>18. ASSUME NEW n \in Attempts, Submit(n) PROVE Waits'
    BY <1>18 DEF Submit, Goes, Alive, Call, Quietly, TypeOK, Stored, Single, Waits,
       Lines, Ended, window, clients, threads, history
  <1>19. ASSUME NEW n \in Attempts, Logout(n) PROVE Waits'
    BY <1>19 DEF Logout, Goes, Alive, Call, Quietly, TypeOK, Stored, Single, Waits,
       Lines, Ended, window, clients, threads, history
  <1>20. ASSUME NEW n \in Attempts, LoginOk(n) PROVE Waits'
    BY <1>20 DEF LoginOk, Goes, Alive, Quietly, TypeOK, Stored, Single, Waits, Lines,
       Ended, window, clients, threads, history
  <1>21. ASSUME NEW n \in Attempts, LoginFails(n) PROVE Waits'
    BY <1>21 DEF LoginFails, Goes, Alive, Write, TypeOK, Stored, Single, Waits, Lines,
       Ended, window, clients, threads, history
  <1>22. ASSUME NEW n \in Attempts, SubmitOk(n) PROVE Waits'
    BY <1>22 DEF SubmitOk, Goes, Alive, Write, TypeOK, Stored, Single, Waits, Lines,
       Ended, window, clients, threads, history
  <1>23. ASSUME NEW n \in Attempts, SubmitFails(n) PROVE Waits'
    BY <1>23 DEF SubmitFails, Goes, Alive, Write, TypeOK, Stored, Single, Waits, Lines,
       Ended, window, clients, threads, history
  <1>24. ASSUME NEW n \in Attempts, LogoutReturns(n) PROVE Waits'
    BY <1>24 DEF LogoutReturns, Goes, Alive, Write, TypeOK, Stored, Single, Waits,
       Lines, Ended, window, clients, threads, history
  <1>25. CASE UNCHANGED vars
    BY <1>25 DEF vars, TypeOK, Stored, Single, Waits, Lines, Ended, window, clients,
       threads, history
  <1> QED BY <1>1, <1>2, <1>3, <1>4, <1>5, <1>6, <1>7, <1>8, <1>9, <1>10, <1>11, <1>12,
             <1>13, <1>14, <1>15, <1>16, <1>17, <1>18, <1>19, <1>20, <1>21, <1>22,
             <1>23, <1>24, <1>25 DEF Next, GuiStep, User, WorkerStep, CallReturns

(* A cancel pressed before the flag is read makes the worker stop;         *)
(* cancel_sending is cleared for the next attempt, of which nothing was    *)
(* pressed.                                                                *)
LEMMA CancelsStep ==
    ASSUME TypeOK, Stored, Undisturbed, [Next]_vars, ~ closed'
    PROVE  Cancels'
  <1> USE SendAssumption DEF Attempts, Idle, Undisturbed, Early, Unsent
  <1>1. CASE NoPipe
    BY <1>1 DEF NoPipe, Begin, TypeOK, Stored, Single, Waits, Cancels, window, clients,
       threads, history
  <1>2. CASE NoClient
    BY <1>2 DEF NoClient, Begin, TypeOK, Stored, Single, Waits, Cancels, window,
       clients, threads, history
  <1>3. CASE NoThread
    BY <1>3 DEF NoThread, OpenWindow, Begin, TypeOK, Stored, Single, Waits, Cancels,
       window, clients, threads, history
  <1>4. CASE StartThread
    <2>1. /\ cancel_sending' = FALSE /\ attempt' > attempt /\ attempt' \in Attempts
          /\ UNCHANGED <<should_cancel, received, pressed>>
          /\ \A n \in Attempts : n # attempt' => worker'[n] = worker[n]
      BY <1>4 DEF StartThread, OpenWindow, Begin, TypeOK, history
    <2>2. pressed[attempt'] = "none"
      BY <2>1 DEF Stored
    <2>3. \A n \in Attempts : worker[n] \in Early => gui = "loop"
      BY DEF Waits
    <2>4. gui = "form"
      BY <1>4 DEF StartThread, OpenWindow, Begin
    <2> QED BY <2>1, <2>2, <2>3, <2>4 DEF Cancels
  <1>5. CASE ReadPipe
    BY <1>5 DEF ReadPipe, Registered, TypeOK, Stored, Single, Waits, Cancels, window,
       clients, threads, history
  <1>6. CASE Dismiss
    BY <1>6 DEF Dismiss, Alive, TypeOK, Stored, Single, Waits, Cancels, window, clients,
       threads, history
  <1>7. CASE Cancel
    BY <1>7 DEF Cancel, Clickable, Press, TypeOK, Stored, Single, Waits, Cancels,
       window, clients, threads, history
  <1>8. CASE CloseWindow
    BY <1>8 DEF CloseWindow, Clickable, TypeOK, Stored, Single, Waits, Cancels, window,
       clients, threads, history
  <1>9. CASE LoopEnds
    BY <1>9 DEF LoopEnds, TypeOK, Stored, Single, Waits, Cancels, window, clients,
       threads, history
  <1>10. CASE CloseReadEnd
    BY <1>10 DEF CloseReadEnd, TypeOK, Stored, Single, Waits, Cancels, window, clients,
       threads, history
  <1>11. CASE CloseWriteEnd
    BY <1>11 DEF CloseWriteEnd, TypeOK, Stored, Single, Waits, Cancels, window, clients,
       threads, history
  <1>12. CASE FreeAndReturn
    BY <1>12 DEF FreeAndReturn, TypeOK, Stored, Single, Waits, Cancels, window, clients,
       threads, history
  <1>13. CASE CloseForm
    BY <1>13 DEF CloseForm, TypeOK, Stored, Single, Waits, Cancels, window, clients,
       threads, history
  <1>14. ASSUME NEW n \in Attempts, Login(n) PROVE Cancels'
    BY <1>14 DEF Login, Goes, Alive, Call, Quietly, TypeOK, Stored, Single, Waits,
       Cancels, window, clients, threads, history
  <1>15. ASSUME NEW n \in Attempts, ReadFlag(n) PROVE Cancels'
    BY <1>15 DEF ReadFlag, Goes, Alive, Quietly, TypeOK, Stored, Single, Waits, Cancels,
       window, clients, threads, history
  <1>16. ASSUME NEW n \in Attempts, WakeCanceled(n) PROVE Cancels'
    BY <1>16 DEF WakeCanceled, Goes, Alive, Write, TypeOK, Stored, Single, Waits,
       Cancels, window, clients, threads, history
  <1>17. ASSUME NEW n \in Attempts, WakeSubmits(n) PROVE Cancels'
    BY <1>17 DEF WakeSubmits, Goes, Alive, Write, TypeOK, Stored, Single, Waits,
       Cancels, window, clients, threads, history
  <1>18. ASSUME NEW n \in Attempts, Submit(n) PROVE Cancels'
    BY <1>18 DEF Submit, Goes, Alive, Call, Quietly, TypeOK, Stored, Single, Waits,
       Cancels, window, clients, threads, history
  <1>19. ASSUME NEW n \in Attempts, Logout(n) PROVE Cancels'
    BY <1>19 DEF Logout, Goes, Alive, Call, Quietly, TypeOK, Stored, Single, Waits,
       Cancels, window, clients, threads, history
  <1>20. ASSUME NEW n \in Attempts, LoginOk(n) PROVE Cancels'
    BY <1>20 DEF LoginOk, Goes, Alive, Quietly, TypeOK, Stored, Single, Waits, Cancels,
       window, clients, threads, history
  <1>21. ASSUME NEW n \in Attempts, LoginFails(n) PROVE Cancels'
    BY <1>21 DEF LoginFails, Goes, Alive, Write, TypeOK, Stored, Single, Waits, Cancels,
       window, clients, threads, history
  <1>22. ASSUME NEW n \in Attempts, SubmitOk(n) PROVE Cancels'
    BY <1>22 DEF SubmitOk, Goes, Alive, Write, TypeOK, Stored, Single, Waits, Cancels,
       window, clients, threads, history
  <1>23. ASSUME NEW n \in Attempts, SubmitFails(n) PROVE Cancels'
    BY <1>23 DEF SubmitFails, Goes, Alive, Write, TypeOK, Stored, Single, Waits,
       Cancels, window, clients, threads, history
  <1>24. ASSUME NEW n \in Attempts, LogoutReturns(n) PROVE Cancels'
    BY <1>24 DEF LogoutReturns, Goes, Alive, Write, TypeOK, Stored, Single, Waits,
       Cancels, window, clients, threads, history
  <1>25. CASE UNCHANGED vars
    BY <1>25 DEF vars, TypeOK, Stored, Single, Waits, Cancels, window, clients, threads,
       history
  <1> QED BY <1>1, <1>2, <1>3, <1>4, <1>5, <1>6, <1>7, <1>8, <1>9, <1>10, <1>11, <1>12,
             <1>13, <1>14, <1>15, <1>16, <1>17, <1>18, <1>19, <1>20, <1>21, <1>22,
             <1>23, <1>24, <1>25 DEF Next, GuiStep, User, WorkerStep, CallReturns

(* Only logging out writes DONE, after the report was stored, and the      *)
(* lines and boxes of an attempt are gone when the next one begins.        *)
LEMMA LinesStep ==
    ASSUME TypeOK, Stored, Undisturbed, [Next]_vars, ~ closed'
    PROVE  Lines'
  <1> USE SendAssumption DEF Attempts, Idle, Undisturbed, Unsent
  <1>1. CASE NoPipe
    BY <1>1, SaysNothing DEF NoPipe, Begin, TypeOK, Stored, Single, Waits, Lines, Ended,
       Done, window, clients, threads, history
  <1>2. CASE NoClient
    BY <1>2, SaysNothing DEF NoClient, Begin, TypeOK, Stored, Single, Waits, Lines,
       Ended, Done, window, clients, threads, history
  <1>3. CASE NoThread
    BY <1>3, SaysNothing DEF NoThread, OpenWindow, Begin, TypeOK, Stored, Single, Waits,
       Lines, Ended, Done, window, clients, threads, history
  <1>4. CASE StartThread
    BY <1>4, SaysNothing DEF StartThread, OpenWindow, Begin, TypeOK, Stored, Single,
       Waits, Lines, Ended, Done, window, clients, threads, history
  <1>5. CASE ReadPipe
    <2>1. /\ UNCHANGED <<gui, attempt, worker, received, data_submitted>>
          /\ messages # <<>> /\ messages' = Tail(messages)
          /\ boxes' \in {boxes, Append(boxes, "alert"), Append(boxes, "message")}
          /\ boxes' = Append(boxes, "message") => boxes' = boxes \/ Head(messages) = "DONE"
      <3>1. Head(messages) \in Replies
        BY <1>5, SaysTail DEF ReadPipe, TypeOK
      <3> QED BY <1>5, <3>1 DEF ReadPipe, threads, TypeOK, Replies
    <2>2. /\ Ended' => Ended
          /\ Says(messages', "DONE") => Says(messages, "DONE")
          /\ Says(messages, Head(messages))
      BY <2>1, SaysTail DEF Ended, TypeOK
    <2>3. Says(boxes', "message") => Says(boxes, "message") \/ Head(messages) = "DONE"
      <3>1. boxes \in Seq({"alert", "message"})
        BY DEF TypeOK
      <3>2. /\ Says(Append(boxes, "alert"), "message") => Says(boxes, "message") \/ "alert" = "message"
            /\ Append(boxes, "message") # boxes
        BY <3>1, SaysAppend
      <3> QED BY <2>1, <3>2
    <2> QED BY <1>5, <2>1, <2>2, <2>3 DEF ReadPipe, Registered, Lines, Done
  <1>6. CASE Dismiss
    <2>1. /\ UNCHANGED <<attempt, messages, worker, received>>
          /\ boxes # <<>> /\ boxes' = Front(boxes)
          /\ data_submitted' => data_submitted \/ Last(boxes) = "message"
          /\ gui' \in {"loop", gui}
      BY <1>6 DEF Dismiss, threads
    <2>2. /\ Says(boxes', "message") => Says(boxes, "message")
          /\ Says(boxes, Last(boxes))
      BY <2>1, SaysFront DEF TypeOK
    <2>3. Ended' = Ended
      BY <2>1 DEF Ended
    <2> QED BY <2>1, <2>2, <2>3 DEF Lines, Done
  <1>7. CASE Cancel
    BY <1>7 DEF Cancel, Clickable, Press, TypeOK, Stored, Single, Waits, Lines, Ended,
       Done, window, clients, threads, history
  <1>8. CASE CloseWindow
    BY <1>8 DEF CloseWindow, Clickable, TypeOK, Stored, Single, Waits, Lines, Ended,
       Done, window, clients, threads, history
  <1>9. CASE LoopEnds
    BY <1>9 DEF LoopEnds, TypeOK, Stored, Single, Waits, Lines, Ended, Done, window,
       clients, threads, history
  <1>10. CASE CloseReadEnd
    BY <1>10, SaysNothing DEF CloseReadEnd, TypeOK, Stored, Single, Waits, Lines, Ended,
       Done, window, clients, threads, history
  <1>11. CASE CloseWriteEnd
    BY <1>11 DEF CloseWriteEnd, TypeOK, Stored, Single, Waits, Lines, Ended, Done,
       window, clients, threads, history
  <1>12. CASE FreeAndReturn
    BY <1>12 DEF FreeAndReturn, TypeOK, Stored, Single, Waits, Lines, Ended, Done,
       window, clients, threads, history
  <1>13. CASE CloseForm
    BY <1>13 DEF CloseForm, TypeOK, Stored, Single, Waits, Lines, Ended, Done, window,
       clients, threads, history
  <1>14. ASSUME NEW n \in Attempts, Login(n) PROVE Lines'
    BY <1>14 DEF Login, Goes, Alive, Call, Quietly, TypeOK, Stored, Single, Waits,
       Lines, Ended, Done, window, clients, threads, history
  <1>15. ASSUME NEW n \in Attempts, ReadFlag(n) PROVE Lines'
    BY <1>15 DEF ReadFlag, Goes, Alive, Quietly, TypeOK, Stored, Single, Waits, Lines,
       Ended, Done, window, clients, threads, history
  <1>16. ASSUME NEW n \in Attempts, WakeCanceled(n) PROVE Lines'
    <2>1. /\ ~ Idle(n) /\ n = attempt /\ gui = "loop" /\ pipe = "open" /\ ~ Ended
      BY <1>16 DEF WakeCanceled, Goes, Single, Waits, Lines
    <2>2. /\ messages' = Append(messages, "CANCELED") /\ gui' = gui
          /\ UNCHANGED <<attempt, boxes, data_submitted>>
          /\ worker' = [worker EXCEPT ![n] = "over"]
      BY <1>16, <2>1 DEF WakeCanceled, Goes, Write, window
    <2>3. /\ Ended' => worker'[n] = "over"
          /\ Says(messages', "DONE") => Says(messages, "DONE")
      <3>1. messages \in Seq(Replies) /\ "CANCELED" \in Replies
        BY DEF TypeOK, Replies
      <3>2. \A v : Says(messages', v) <=> Says(messages, v) \/ "CANCELED" = v
        BY <2>2, <3>1, SaysAppend
      <3>3. worker'[n] = "over"
        BY <2>2 DEF TypeOK
      <3> QED BY <2>1, <3>2, <3>3 DEF Ended
    <2>4. \A k \in Attempts : k # n => Idle(k)
      BY <2>1 DEF Single
    <2>5. received'[n] \in {received[n], 1}
      BY <1>16 DEF WakeCanceled, Goes, Stored, Unsent, TypeOK
    <2> QED BY <2>1, <2>2, <2>3, <2>4, <2>5 DEF Lines, Done, TypeOK
  <1>17. ASSUME NEW n \in Attempts, WakeSubmits(n) PROVE Lines'
    <2>1. /\ ~ Idle(n) /\ n = attempt /\ gui = "loop" /\ pipe = "open" /\ ~ Ended
      BY <1>17 DEF WakeSubmits, Goes, Single, Waits, Lines
    <2>2. /\ messages' = Append(messages, "progress") /\ gui' = gui
          /\ UNCHANGED <<attempt, boxes, data_submitted>>
          /\ worker' = [worker EXCEPT ![n] = "tosubmit"]
      BY <1>17, <2>1 DEF WakeSubmits, Goes, Write, window
    <2>3. /\ Ended' => FALSE
          /\ Says(messages', "DONE") => Says(messages, "DONE")
      <3>1. messages \in Seq(Replies) /\ "progress" \in Replies
        BY DEF TypeOK, Replies
      <3>2. \A v : Says(messages', v) <=> Says(messages, v) \/ "progress" = v
        BY <2>2, <3>1, SaysAppend
      <3>3. worker'[n] = "tosubmit"
        BY <2>2 DEF TypeOK
      <3> QED BY <2>1, <3>2, <3>3 DEF Ended
    <2>4. \A k \in Attempts : k # n => Idle(k)
      BY <2>1 DEF Single
    <2>5. received'[n] \in {received[n], 1}
      BY <1>17 DEF WakeSubmits, Goes, Stored, Unsent, TypeOK
    <2> QED BY <2>1, <2>2, <2>3, <2>4, <2>5 DEF Lines, Done, TypeOK
  <1>18. ASSUME NEW n \in Attempts, Submit(n) PROVE Lines'
    BY <1>18 DEF Submit, Goes, Alive, Call, Quietly, TypeOK, Stored, Single, Waits,
       Lines, Ended, Done, window, clients, threads, history
  <1>19. ASSUME NEW n \in Attempts, Logout(n) PROVE Lines'
    BY <1>19 DEF Logout, Goes, Alive, Call, Quietly, TypeOK, Stored, Single, Waits,
       Lines, Ended, Done, window, clients, threads, history
  <1>20. ASSUME NEW n \in Attempts, LoginOk(n) PROVE Lines'
    BY <1>20 DEF LoginOk, Goes, Alive, Quietly, TypeOK, Stored, Single, Waits, Lines,
       Ended, Done, window, clients, threads, history
  <1>21. ASSUME NEW n \in Attempts, LoginFails(n) PROVE Lines'
    <2>1. /\ ~ Idle(n) /\ n = attempt /\ gui = "loop" /\ pipe = "open" /\ ~ Ended
      BY <1>21 DEF LoginFails, Goes, Single, Waits, Lines
    <2>2. /\ messages' = Append(messages, "FAILED") /\ gui' = gui
          /\ UNCHANGED <<attempt, boxes, data_submitted>>
          /\ worker' = [worker EXCEPT ![n] = "over"]
      BY <1>21, <2>1 DEF LoginFails, Goes, Write, window
    <2>3. /\ Ended' => worker'[n] = "over"
          /\ Says(messages', "DONE") => Says(messages, "DONE")
      <3>1. messages \in Seq(Replies) /\ "FAILED" \in Replies
        BY DEF TypeOK, Replies
      <3>2. \A v : Says(messages', v) <=> Says(messages, v) \/ "FAILED" = v
        BY <2>2, <3>1, SaysAppend
      <3>3. worker'[n] = "over"
        BY <2>2 DEF TypeOK
      <3> QED BY <2>1, <3>2, <3>3 DEF Ended
    <2>4. \A k \in Attempts : k # n => Idle(k)
      BY <2>1 DEF Single
    <2>5. received'[n] \in {received[n], 1}
      BY <1>21 DEF LoginFails, Goes, Stored, Unsent, TypeOK
    <2> QED BY <2>1, <2>2, <2>3, <2>4, <2>5 DEF Lines, Done, TypeOK
  <1>22. ASSUME NEW n \in Attempts, SubmitOk(n) PROVE Lines'
    <2>1. /\ ~ Idle(n) /\ n = attempt /\ gui = "loop" /\ pipe = "open" /\ ~ Ended
      BY <1>22 DEF SubmitOk, Goes, Single, Waits, Lines
    <2>2. /\ messages' = Append(messages, "progress") /\ gui' = gui
          /\ UNCHANGED <<attempt, boxes, data_submitted>>
          /\ worker' = [worker EXCEPT ![n] = "tologout"]
      BY <1>22, <2>1 DEF SubmitOk, Goes, Write, window
    <2>3. /\ Ended' => FALSE
          /\ Says(messages', "DONE") => Says(messages, "DONE")
      <3>1. messages \in Seq(Replies) /\ "progress" \in Replies
        BY DEF TypeOK, Replies
      <3>2. \A v : Says(messages', v) <=> Says(messages, v) \/ "progress" = v
        BY <2>2, <3>1, SaysAppend
      <3>3. worker'[n] = "tologout"
        BY <2>2 DEF TypeOK
      <3> QED BY <2>1, <3>2, <3>3 DEF Ended
    <2>4. \A k \in Attempts : k # n => Idle(k)
      BY <2>1 DEF Single
    <2>5. received'[n] \in {received[n], 1}
      BY <1>22 DEF SubmitOk, Goes, Stored, Unsent, TypeOK
    <2> QED BY <2>1, <2>2, <2>3, <2>4, <2>5 DEF Lines, Done, TypeOK
  <1>23. ASSUME NEW n \in Attempts, SubmitFails(n) PROVE Lines'
    <2>1. /\ ~ Idle(n) /\ n = attempt /\ gui = "loop" /\ pipe = "open" /\ ~ Ended
      BY <1>23 DEF SubmitFails, Goes, Single, Waits, Lines
    <2>2. /\ messages' = Append(messages, "FAILED") /\ gui' = gui
          /\ UNCHANGED <<attempt, boxes, data_submitted>>
          /\ worker' = [worker EXCEPT ![n] = "over"]
      BY <1>23, <2>1 DEF SubmitFails, Goes, Write, window
    <2>3. /\ Ended' => worker'[n] = "over"
          /\ Says(messages', "DONE") => Says(messages, "DONE")
      <3>1. messages \in Seq(Replies) /\ "FAILED" \in Replies
        BY DEF TypeOK, Replies
      <3>2. \A v : Says(messages', v) <=> Says(messages, v) \/ "FAILED" = v
        BY <2>2, <3>1, SaysAppend
      <3>3. worker'[n] = "over"
        BY <2>2 DEF TypeOK
      <3> QED BY <2>1, <3>2, <3>3 DEF Ended
    <2>4. \A k \in Attempts : k # n => Idle(k)
      BY <2>1 DEF Single
    <2>5. received'[n] \in {received[n], 1}
      BY <1>23 DEF SubmitFails, Goes, Stored, Unsent, TypeOK
    <2> QED BY <2>1, <2>2, <2>3, <2>4, <2>5 DEF Lines, Done, TypeOK
  <1>24. ASSUME NEW n \in Attempts, LogoutReturns(n) PROVE Lines'
    <2>1. /\ ~ Idle(n) /\ n = attempt /\ gui = "loop" /\ pipe = "open" /\ ~ Ended
      BY <1>24 DEF LogoutReturns, Goes, Single, Waits, Lines
    <2>2. /\ messages' = Append(messages, "DONE") /\ gui' = gui
          /\ UNCHANGED <<attempt, boxes, data_submitted>>
          /\ worker' = [worker EXCEPT ![n] = "over"]
      BY <1>24, <2>1 DEF LogoutReturns, Goes, Write, window
    <2>3. /\ Ended' => worker'[n] = "over"
          /\ Says(messages', "DONE") => TRUE
      <3>1. messages \in Seq(Replies) /\ "DONE" \in Replies
        BY DEF TypeOK, Replies
      <3>2. \A v : Says(messages', v) <=> Says(messages, v) \/ "DONE" = v
        BY <2>2, <3>1, SaysAppend
      <3>3. worker'[n] = "over"
        BY <2>2 DEF TypeOK
      <3> QED BY <2>1, <3>2, <3>3 DEF Ended
    <2>4. \A k \in Attempts : k # n => Idle(k)
      BY <2>1 DEF Single
    <2>5. received'[n] = 1
      BY <1>24 DEF LogoutReturns, Goes, Stored, Unsent, TypeOK
    <2> QED BY <2>1, <2>2, <2>3, <2>4, <2>5 DEF Lines, Done, TypeOK
  <1>25. CASE UNCHANGED vars
    BY <1>25 DEF vars, TypeOK, Stored, Single, Waits, Lines, Ended, Done, window,
       clients, threads, history
  <1> QED BY <1>1, <1>2, <1>3, <1>4, <1>5, <1>6, <1>7, <1>8, <1>9, <1>10, <1>11, <1>12,
             <1>13, <1>14, <1>15, <1>16, <1>17, <1>18, <1>19, <1>20, <1>21, <1>22,
             <1>23, <1>24, <1>25 DEF Next, GuiStep, User, WorkerStep, CallReturns

(* The form as it is opened: no attempt, no worker.                        *)
LEMMA InitIInv == Init => IInv
  <1> SUFFICES ASSUME Init PROVE IInv
    OBVIOUS
  <1> USE SendAssumption DEF Init, Attempts
  <1>1. TypeOK
    <2>1. boxes \in Seq({"alert", "message"}) /\ messages \in Seq(Replies)
      OBVIOUS
    <2>2. /\ gui \in GuiPlaces /\ attempt \in 0..MaxSends /\ bdata \in 0..MaxSends
          /\ pipe \in {"open", "halfclosed", "closed"} /\ alive \subseteq Attempts
      BY DEF GuiPlaces
    <2>3. shown \in BOOLEAN /\ cancel_sending \in BOOLEAN /\ data_submitted \in BOOLEAN
          /\ closed \in BOOLEAN
      OBVIOUS
    <2>4. /\ worker \in [Attempts -> WorkerPlaces] /\ should_cancel \in [Attempts -> BOOLEAN]
          /\ uses \in [Attempts -> 0..MaxSends] /\ received \in [Attempts -> 0..1]
          /\ pressed \in [Attempts -> WorkerPlaces]
      BY DEF WorkerPlaces
    <2> QED BY <2>1, <2>2, <2>3, <2>4 DEF TypeOK
  <1>2. Stored
    BY DEF Stored, Unsent
  <1>3. Single /\ Waits /\ Cancels
    BY DEF Single, Waits, Cancels, Idle, Early
  <1>4. Lines
    BY SaysNothing DEF Lines, Ended, Done, Idle
  <1> QED BY <1>1, <1>2, <1>3, <1>4 DEF IInv, Undisturbed

(* A closed window stays on record, so before every step without one all   *)
(* the parts hold.                                                         *)
LEMMA StepIInv == IInv /\ [Next]_vars => IInv'
  <1> SUFFICES ASSUME IInv, [Next]_vars PROVE IInv'
    OBVIOUS
  <1>1. TypeOK' /\ Stored'
    BY TypeStep, StoredStep DEF IInv
  <1>2. ASSUME ~ closed' PROVE Undisturbed'
    <2>1. TypeOK /\ Stored
      BY DEF IInv
    <2>2. closed => closed'
      BY DEF Next, GuiStep, User, WorkerStep, CallReturns, NoPipe, NoClient, NoThread,
         StartThread,
             OpenWindow, ReadPipe, Dismiss, Cancel, Press, CloseWindow, LoopEnds, CloseReadEnd,
             CloseWriteEnd, FreeAndReturn, CloseForm, Login, ReadFlag, WakeCanceled, WakeSubmits,
             Submit, Logout, LoginOk, LoginFails, SubmitOk, SubmitFails, LogoutReturns, Call,
             Quietly, Write, history, vars
    <2>3. Undisturbed
      BY <1>2, <2>2 DEF IInv
    <2> QED BY <1>2, <2>1, <2>3, SingleStep, WaitsStep, LinesStep, CancelsStep DEF
               Undisturbed
  <1> QED BY <1>1, <1>2 DEF IInv

(* The invariant holds in every state, for any number of attempts.         *)
LEMMA Invariant == Spec => []IInv
  BY InitIInv, StepIInv, PTL DEF Spec

(* For any number of attempts BugReport is type-correct; among this, no    *)
(* attempt is stored twice.                                                *)
THEOREM TypeCorrect == Spec => []TypeOK
  <1>1. IInv => TypeOK
    BY DEF IInv
  <1> QED BY <1>1, Invariant, PTL

(* For any number of attempts: bugzilla_send_with_progress() says the      *)
(* report was sent only if it was stored.                                  *)
THEOREM ThanksTrue == Spec => []ThanksMeanReceived
  <1>1. IInv => ThanksMeanReceived
    BY DEF IInv, Undisturbed, Lines, Done, ThanksMeanReceived
  <1> QED BY <1>1, Invariant, PTL

(* For any number of attempts: the pipe, the window and the client are     *)
(* given up when no worker uses them.                                      *)
THEOREM NothingLost == Spec => []NothingPulledAway
  <1>1. IInv => NothingPulledAway
    <2> SUFFICES ASSUME IInv, ~ closed, NEW n \in Attempts
                 PROVE  /\ gui \in {"closing", "halfclosed", "freeing", "form"}
                              => worker[n] \in {"none", "over"}
                        /\ uses[n] # 0 => uses[n] \in alive
      BY DEF NothingPulledAway
    <2> QED BY DEF IInv, Undisturbed, Single, Waits, Idle
  <1> QED BY <1>1, Invariant, PTL

(* For any number of attempts: a cancel in time keeps the report from      *)
(* being sent, and no other is given up as cancelled.                      *)
THEOREM CancelSeen == Spec => []CancelHonoured
  <1>1. IInv => CancelHonoured
    BY DEF IInv, Undisturbed, Cancels, Early, CancelHonoured
  <1> QED BY <1>1, Invariant, PTL

-----------------------------------------------------------------------------
(* ede-notify-daemon.                                                      *)

(* Showing a window keeps the types of what it changes.                    *)
LEMMA ShowNewTypes ==
  ASSUME DaemonTypeOK, NEW c \in Clients, NEW t \in Timeouts, NEW i \in Ids, ShowNew(i, t, c)
  PROVE  /\ popups' \subseteq Windows /\ timers' \subseteq Windows
         /\ id' \in [Windows -> Ids \cup {0}]
         /\ exp' \in [Windows -> Timeouts]
         /\ timer_set' \in [Windows -> BOOLEAN]
         /\ over' \in popups' \cup {None}
         /\ owner' \in [Windows -> Clients]
         /\ touched' \subseteq popups'
  BY DEF ShowNew, DaemonTypeOK, Timeouts, DefaultExpire

(* The typing of NotifyDaemon is inductive by itself.                      *)
LEMMA DaemonTypeStep == DaemonTypeOK /\ [DaemonNext]_daemonVars => DaemonTypeOK'
<1> SUFFICES ASSUME DaemonTypeOK, [DaemonNext]_daemonVars PROVE DaemonTypeOK'
  OBVIOUS
<1> USE DaemonAssumption DEF DaemonTypeOK, Ids, Timeouts, DefaultExpire
<1>1. ASSUME NEW c \in Clients, NEW t \in Timeouts, NotifyNew(c, t)
      PROVE  DaemonTypeOK'
  <2>1. NextId \in Ids
    BY DEF NextId
  <2>2. ShowNew(NextId, t, c)
    BY <1>1 DEF NotifyNew
  <2>3. notify_id' = NextId /\ given' = [given EXCEPT ![c] = @ \cup {NextId}]
    BY <1>1 DEF NotifyNew
  <2>4. clean' \in BOOLEAN
    BY <1>1 DEF NotifyNew
  <2> QED
    BY <2>1, <2>2, <2>3, <2>4, ShowNewTypes
<1>2. ASSUME NEW c \in Clients, NEW t \in Timeouts, NEW r \in Ids, Replace(c, r, t)
      PROVE  DaemonTypeOK'
  <2>1. notify_id' = notify_id /\ given' = given /\ clean' \in BOOLEAN
    BY <1>2 DEF Replace
  <2>2. CASE WithId(r) = {}
    <3>1. ShowNew(r, t, c)
      BY <1>2, <2>2 DEF Replace
    <3> QED
      BY <2>1, <3>1, ShowNewTypes
  <2>3. CASE WithId(r) # {}
    <3>1. PICK w \in popups : Update(w, t, c)
      BY <1>2, <2>3 DEF Replace, WithId
    <3> QED
      BY <2>1, <3>1 DEF Update
  <2> QED
    BY <2>2, <2>3
<1>3. ASSUME NEW w \in Windows, TimerFires(w)
      PROVE  DaemonTypeOK'
  BY <1>3 DEF TimerFires, Hide
<1>4. ASSUME NEW w \in Windows, Enter(w)
      PROVE  DaemonTypeOK'
  BY <1>4 DEF Enter
<1>5. CASE Leave
  BY <1>5 DEF Leave, past
<1>6. CASE Close
  BY <1>6 DEF Close, Hide
<1>7. CASE UNCHANGED daemonVars
  BY <1>7 DEF daemonVars, past
<1> QED
  BY <1>1, <1>2, <1>3, <1>4, <1>5, <1>6, <1>7 DEF DaemonNext

(* NotifyDaemon is type-correct.                                           *)
THEOREM DaemonTypeCorrect == DaemonSpec => []DaemonTypeOK
<1>1. DaemonInit => DaemonTypeOK
  BY DaemonAssumption DEF DaemonInit, DaemonTypeOK, Ids, Timeouts, DefaultExpire
<1> QED
  BY <1>1, DaemonTypeStep, PTL DEF DaemonSpec

-----------------------------------------------------------------------------

(* A window shows an id its owner was given; an id is given to one client  *)
(* only, and none is given that the counter has not reached.               *)
GivenOnce ==
    /\ \A w \in popups : id[w] \in given[owner[w]]
    /\ \A c, d \in Clients : c # d => given[c] \cap given[d] = {}
    /\ \A c \in Clients : \A i \in given[c] : i <= notify_id

Unique == \A v, w \in popups : id[v] = id[w] => v = w

IdInv == clean => GivenOnce /\ Unique

(* A new window with an id of its owner's that is not on the screen.       *)
LEMMA ShowNewKeeps ==
  ASSUME DaemonTypeOK, NEW c \in Clients, NEW t, NEW i \in Ids, ShowNew(i, t, c),
         Unique,
         \A w \in popups : id[w] # i,
         \A w \in popups : id[w] \in given'[owner[w]],
         i \in given'[c]
  PROVE  /\ \A w \in popups' : id'[w] \in given'[owner'[w]]
         /\ Unique'
<1>1. PICK n \in Windows \ (popups \cup timers) :
        /\ popups' = popups \cup {n}
        /\ id' = [id EXCEPT ![n] = i]
        /\ owner' = [owner EXCEPT ![n] = c]
  BY DEF ShowNew
<1>2. id'[n] = i /\ owner'[n] = c
  BY <1>1 DEF DaemonTypeOK
<1>3. \A w \in popups : id'[w] = id[w] /\ owner'[w] = owner[w]
  BY <1>1 DEF DaemonTypeOK
<1> QED
  BY <1>1, <1>2, <1>3 DEF Unique

(* GivenOnce and Unique are inductive together, as long as clean holds.    *)
LEMMA IdStep == DaemonTypeOK /\ IdInv /\ [DaemonNext]_daemonVars => IdInv'
<1> SUFFICES ASSUME DaemonTypeOK, IdInv, [DaemonNext]_daemonVars, clean'
             PROVE  GivenOnce' /\ Unique'
  BY DEF IdInv
<1> USE DaemonAssumption
<1>1. ASSUME NEW c \in Clients, NEW t \in Timeouts, NotifyNew(c, t)
      PROVE  GivenOnce' /\ Unique'
  <2>1. /\ notify_id' = NextId /\ NextId > notify_id /\ NextId \in Ids
        /\ given' = [given EXCEPT ![c] = @ \cup {NextId}]
        /\ ShowNew(NextId, t, c)
        /\ clean
    <3>1. clean' = (clean /\ NextId > notify_id)
      BY <1>1 DEF NotifyNew
    <3>2. clean /\ NextId > notify_id
      BY <3>1
    <3>3. NextId \in Ids
      BY DEF NextId, Ids, DaemonTypeOK
    <3> QED
      BY <1>1, <3>2, <3>3 DEF NotifyNew
  <2>2. GivenOnce /\ Unique
    BY <2>1 DEF IdInv
  <2>3. /\ \A d \in Clients : given'[d] = given[d] \cup (IF d = c THEN {NextId} ELSE {})
        /\ notify_id \in Nat /\ NextId \in Nat
        /\ \A d \in Clients : \A i \in given[d] : i \in Nat
        /\ \A w \in popups : owner[w] \in Clients
    BY <2>1 DEF DaemonTypeOK, Ids
  <2>4. \A d \in Clients : NextId \notin given[d]
    BY <2>1, <2>2, <2>3 DEF GivenOnce
  <2>5. \A d \in Clients : \A i \in given'[d] : i <= notify_id'
    BY <2>1, <2>2, <2>3 DEF GivenOnce
  <2>6. \A d, e \in Clients : d # e => given'[d] \cap given'[e] = {}
    BY <2>2, <2>3, <2>4 DEF GivenOnce
  <2>7. /\ \A w \in popups : id[w] # NextId
        /\ \A w \in popups : id[w] \in given'[owner[w]]
        /\ NextId \in given'[c]
    BY <2>2, <2>3, <2>4 DEF GivenOnce
  <2> QED
    BY <2>1, <2>2, <2>5, <2>6, <2>7, ShowNewKeeps DEF GivenOnce
<1>2. ASSUME NEW c \in Clients, NEW t \in Timeouts, NEW r \in Ids, Replace(c, r, t)
      PROVE  GivenOnce' /\ Unique'
  <2>1. notify_id' = notify_id /\ given' = given /\ clean /\ r \in given[c]
    <3>1. clean' = (clean /\ r \in given[c])
      BY <1>2 DEF Replace
    <3>2. clean /\ r \in given[c]
      BY <3>1
    <3> QED
      BY <1>2, <3>2 DEF Replace
  <2>2. GivenOnce /\ Unique
    BY <2>1 DEF IdInv
  <2>3. CASE WithId(r) = {}
    <3>1. ShowNew(r, t, c) /\ \A w \in popups : id[w] # r
      BY <1>2, <2>3 DEF Replace, WithId
    <3> QED
      BY <2>1, <2>2, <3>1, ShowNewKeeps DEF GivenOnce
  <2>4. CASE WithId(r) # {}
    <3>1. PICK n \in popups : id[n] = r /\ Update(n, t, c)
      BY <1>2, <2>4 DEF Replace, WithId
    <3>2. \A w \in popups : owner'[w] = IF w = n THEN c ELSE owner[w]
      BY <3>1 DEF Update, DaemonTypeOK
    <3> QED
      BY <2>1, <2>2, <3>1, <3>2 DEF Update, GivenOnce, Unique
  <2> QED
    BY <2>3, <2>4
<1>3. ASSUME /\ UNCHANGED <<notify_id, owner, given, clean>>
             /\ popups' \subseteq popups
             /\ \A w \in popups' : id'[w] = id[w]
      PROVE  GivenOnce' /\ Unique'
  BY <1>3 DEF IdInv, GivenOnce, Unique
<1>4. ASSUME NEW w \in Windows, Hide(w), UNCHANGED <<notify_id, owner, given, clean>>
      PROVE  GivenOnce' /\ Unique'
  <2>1. /\ UNCHANGED <<notify_id, owner, given, clean>>
        /\ popups' = popups \ {w}
        /\ id' = [id EXCEPT ![w] = 0]
    BY <1>4 DEF Hide
  <2>2. \A v \in popups' : id'[v] = id[v]
    BY <2>1 DEF DaemonTypeOK
  <2> QED
    BY <1>3, <2>1, <2>2
<1>5. ASSUME NEW w \in Windows, Enter(w)
      PROVE  GivenOnce' /\ Unique'
  BY <1>3, <1>5 DEF Enter
<1>6. CASE Leave
  BY <1>3, <1>6 DEF Leave, past
<1>7. CASE UNCHANGED daemonVars
  BY <1>3, <1>7 DEF daemonVars, past
<1>8. CASE Close
  BY <1>4, <1>8 DEF Close, DaemonTypeOK
<1>9. ASSUME NEW w \in Windows, TimerFires(w)
      PROVE  GivenOnce' /\ Unique'
  BY <1>4, <1>9 DEF TimerFires
<1> QED
  BY <1>1, <1>2, <1>5, <1>6, <1>7, <1>8, <1>9 DEF DaemonNext

(* So they hold in every reachable state.                                  *)
LEMMA IdInvariant == DaemonSpec => []IdInv
<1>1. DaemonInit => IdInv
  BY DEF DaemonInit, IdInv, GivenOnce, Unique
<1> QED
  BY <1>1, IdStep, DaemonTypeCorrect, PTL DEF DaemonSpec

(* No two windows on the screen have the same id, whichever notifications  *)
(* were replaced, closed and shown again (handle_notify).                  *)
THEOREM Distinct == DaemonSpec => []IdsDistinct
<1>1. IdInv => IdsDistinct
  BY DEF IdInv, IdsDistinct, Unique
<1> QED
  BY <1>1, IdInvariant, PTL

(* A call of Notify changes no window another client's call has shown.     *)
THEOREM OwnOnly == DaemonSpec => UpdatesOwn
<1>1. ASSUME DaemonTypeOK, IdInv, [DaemonNext]_daemonVars, clean', NEW w \in popups
      PROVE  owner'[w] = owner[w]
  <2> USE <1>1
  <2>1. ASSUME NEW c \in Clients, NEW t, NEW i \in Ids, ShowNew(i, t, c)
        PROVE  owner'[w] = owner[w]
    BY <2>1 DEF ShowNew, DaemonTypeOK
  <2>2. ASSUME NEW c \in Clients, NEW t \in Timeouts, NotifyNew(c, t)
        PROVE  owner'[w] = owner[w]
    <3>1. NextId \in Ids
      BY DaemonAssumption DEF NextId, Ids, DaemonTypeOK
    <3>2. ShowNew(NextId, t, c)
      BY <2>2 DEF NotifyNew
    <3> QED
      BY <2>1, <3>1, <3>2
  <2>3. ASSUME NEW c \in Clients, NEW t \in Timeouts, NEW r \in Ids, Replace(c, r, t)
        PROVE  owner'[w] = owner[w]
    <3>1. CASE WithId(r) = {}
      BY <2>1, <2>3, <3>1 DEF Replace
    <3>2. CASE WithId(r) # {}
      <4>1. PICK n \in popups : id[n] = r /\ Update(n, t, c)
        BY <2>3, <3>2 DEF Replace, WithId
      <4>2. clean' = (clean /\ r \in given[c])
        BY <2>3 DEF Replace
      <4>3. clean /\ r \in given[c]
        BY <4>2
      <4>4. owner[n] \in Clients
        BY <4>1 DEF DaemonTypeOK
      <4>5. owner[n] = c
        BY <4>1, <4>3, <4>4 DEF IdInv, GivenOnce
      <4> QED
        BY <4>1, <4>5 DEF Update, DaemonTypeOK
    <3> QED
      BY <3>1, <3>2
  <2>4. ASSUME NEW v \in Windows, TimerFires(v) \/ Enter(v)
        PROVE  owner'[w] = owner[w]
    BY <2>4 DEF TimerFires, Enter
  <2>5. CASE Leave \/ Close \/ UNCHANGED daemonVars
    BY <2>5 DEF Leave, Close, daemonVars, past
  <2> QED
    BY <2>2, <2>3, <2>4, <2>5 DEF DaemonNext
<1>2. DaemonTypeOK /\ IdInv /\ [DaemonNext]_daemonVars
        => [clean' => \A w \in popups : owner'[w] = owner[w]]_daemonVars
  BY <1>1
<1> QED
  BY <1>2, DaemonTypeCorrect, IdInvariant, PTL DEF DaemonSpec, UpdatesOwn

-----------------------------------------------------------------------------
(* The states of a pekwm frame.                                            *)

FrameStates ==
    [ border : BOOLEAN, titlebar : BOOLEAN, shaded : BOOLEAN, full : BOOLEAN,
      maxh : BOOLEAN, maxv : BOOLEAN, layer : Int, name : BOOLEAN \X BOOLEAN,
      height : Int, real : Int, old : Int,
      nfborder : BOOLEAN, nftitlebar : BOOLEAN, nflayer : Int ]
ClientStates ==
    [ border : BOOLEAN, titlebar : BOOLEAN, shaded : BOOLEAN, full : BOOLEAN,
      maxh : BOOLEAN, maxv : BOOLEAN, layer : Int, height : Int ]
States == [frame : FrameStates, client : ClientStates]

HasPart(s) == s.frame.titlebar \/ s.frame.border

(* What t has in common with s after an operation that is about something  *)
(* else than shading and maximizing.  Where fullscreen does not raise the  *)
(* frame, its layer stays that of the window.                              *)
Keeps(s, t) ==
    /\ t \in States
    /\ t.frame.shaded = s.frame.shaded /\ t.client.shaded = s.client.shaded
    /\ t.frame.maxh = s.frame.maxh /\ t.client.maxh = s.client.maxh
    /\ t.frame.maxv = s.frame.maxv /\ t.client.maxv = s.client.maxv
    /\ s.frame.shaded /\ HasPart(s) => HasPart(t)
    /\ ~ config.above /\ s.client.layer = s.frame.layer => t.client.layer = t.frame.layer

(* What two operations keep, one after the other keep.                     *)
LEMMA KeepsOn ==
    ASSUME NEW s, NEW t, NEW u, Keeps(s, t), Keeps(t, u)
    PROVE  Keeps(s, u)
  BY DEF Keeps

(* Doing nothing keeps everything.                                         *)
LEMMA KeepsSelf ==
    ASSUME NEW s \in States
    PROVE  Keeps(s, s)
  BY DEF Keeps

(* The sizes of the parts are numbers.                                     *)
LEMMA Heights ==
    ASSUME NEW f \in FrameStates, NEW h \in Int
    PROVE  /\ TitleHeight(f) \in Int /\ BorderHeight(f) \in Int /\ DecorHeight(f) \in Int
           /\ RealHeight(f) \in Int /\ ChildHeight(f) \in Int /\ Bar(f) \in Int
           /\ h + DecorHeight(f) \in Int
  <1>1. f.height \in Int /\ f.real \in Int
    BY DEF FrameStates
  <1>2. TitleHeight(f) \in Int /\ BorderHeight(f) \in Int
    BY DEF TitleHeight, BorderHeight, TITLE, BORDER
  <1>3. DecorHeight(f) \in Int /\ Bar(f) \in Int
    BY <1>2 DEF DecorHeight, Bar
  <1>4. RealHeight(f) \in Int
    BY <1>1 DEF RealHeight
  <1> QED BY <1>2, <1>3, <1>4 DEF ChildHeight

(* PDecor::resize is about sizes only.                                     *)
LEMMA ResizeKeeps ==
    ASSUME NEW s \in States, NEW h \in Int
    PROVE  Keeps(s, Resize(s, h))
  <1> DEFINE bar == Bar(s.frame)
             f == IF s.frame.shaded THEN [s.frame EXCEPT !.real = h, !.height = bar]
                                    ELSE [s.frame EXCEPT !.height = h]
             k == ChildHeight(f)
  <1>1. s.frame \in FrameStates /\ s.client \in ClientStates
    BY DEF States
  <1>2. bar \in Int
    BY <1>1, Heights
  <1>3. f \in FrameStates /\ f.shaded = s.frame.shaded /\ f.maxh = s.frame.maxh
        /\ f.maxv = s.frame.maxv /\ f.titlebar = s.frame.titlebar /\ f.border = s.frame.border
        /\ f.layer = s.frame.layer
    <2> HIDE DEF bar
    <2>1. CASE s.frame.shaded
      BY <1>1, <1>2, <2>1 DEF FrameStates
    <2>2. CASE ~ s.frame.shaded
      BY <1>1, <2>2 DEF FrameStates
    <2> QED BY <2>1, <2>2
  <1>4. k \in Int
    <2> HIDE DEF f
    <2> QED BY <1>3, Heights
  <1>5. Resize(s, h) = [frame |-> f, client |-> [s.client EXCEPT !.height = k]]
    BY DEF Resize
  <1> HIDE DEF f, k
  <1> QED BY <1>1, <1>3, <1>4, <1>5 DEF Keeps, States, ClientStates, HasPart

(* And so is PDecor::resizeChild.                                          *)
LEMMA ResizeChildKeeps ==
    ASSUME NEW s \in States, NEW h \in Int
    PROVE  Keeps(s, ResizeChild(s, h))
  <1>1. h + DecorHeight(s.frame) \in Int
    BY Heights DEF States
  <1> QED BY <1>1, ResizeKeeps DEF ResizeChild

-----------------------------------------------------------------------------
(* Decoration and fullscreen keep the flags                                *)

(* Loading the default decor changes the name and the size.                *)
LEMMA SetDecorKeeps ==
    ASSUME NEW s \in States
    PROVE  Keeps(s, SetDecor(s, DEFAULT))
  <1> DEFINE t == [s EXCEPT !.frame.name = DEFAULT]
  <1>1. DEFAULT \in BOOLEAN \X BOOLEAN
    BY DEF DEFAULT
  <1>2. Keeps(s, t)
    BY <1>1 DEF Keeps, States, FrameStates, HasPart
  <1>3. s.client.height \in Int /\ t \in States
    BY <1>2 DEF States, ClientStates, Keeps
  <1>4. SetDecor(s, DEFAULT) = IF s.frame.name = DEFAULT THEN s
                               ELSE ResizeChild(t, s.client.height)
    BY DEF SetDecor
  <1> HIDE DEF t
  <1>5. Keeps(s, ResizeChild(t, s.client.height))
    BY <1>2, <1>3, ResizeChildKeeps, KeepsOn
  <1> QED BY <1>4, <1>5, KeepsSelf

(* As does loading the decor for the parts there are.                      *)
LEMMA UpdateDecorKeeps ==
    ASSUME NEW s \in States
    PROVE  Keeps(s, UpdateDecor(s))
  <1> DEFINE n == <<s.frame.border, s.frame.titlebar>>
             t == [s EXCEPT !.frame.name = n]
  <1>1. n \in BOOLEAN \X BOOLEAN
    BY DEF States, FrameStates
  <1>2. UpdateDecor(s) = ResizeChild(t, s.client.height)
    BY DEF UpdateDecor
  <1> HIDE DEF n
  <1>3. Keeps(s, t)
    BY <1>1 DEF Keeps, States, FrameStates, HasPart
  <1>4. s.client.height \in Int /\ t \in States
    BY <1>3 DEF States, ClientStates, Keeps
  <1> HIDE DEF t
  <1> QED BY <1>2, <1>3, <1>4, ResizeChildKeeps, KeepsOn

(* The last part of a shaded frame stays.                                  *)
LEMMA SetBorderKeeps ==
    ASSUME NEW s \in States, NEW sa
    PROVE  Keeps(s, SetBorder(s, sa))
  <1> DEFINE keep == s.frame.border /\ s.frame.shaded /\ ~ s.frame.titlebar
             b == ~ s.frame.border \/ keep
             t == [s EXCEPT !.frame.border = b]
  <1>1. SetBorder(s, sa) = IF ~ NeedToggle(sa, s.frame.border) THEN s ELSE UpdateDecor(t)
    BY DEF SetBorder
  <1>2. b \in BOOLEAN /\ (s.frame.shaded /\ HasPart(s) => b \/ s.frame.titlebar)
    BY DEF HasPart
  <1> HIDE DEF b
  <1>3. Keeps(s, t)
    BY <1>2 DEF Keeps, States, FrameStates, HasPart
  <1> HIDE DEF t
  <1>4. t \in States
    BY <1>3 DEF Keeps
  <1> QED BY <1>1, <1>3, <1>4, UpdateDecorKeeps, KeepsOn, KeepsSelf

(* The last part of a shaded frame stays, be it the titlebar.              *)
LEMMA SetTitlebarKeeps ==
    ASSUME NEW s \in States, NEW sa
    PROVE  Keeps(s, SetTitlebar(s, sa))
  <1> DEFINE keep == s.frame.titlebar /\ s.frame.shaded /\ ~ s.frame.border
             b == ~ s.frame.titlebar \/ keep
             t == [s EXCEPT !.frame.titlebar = b]
  <1>1. SetTitlebar(s, sa) = IF ~ NeedToggle(sa, s.frame.titlebar) THEN s ELSE UpdateDecor(t)
    BY DEF SetTitlebar
  <1>2. b \in BOOLEAN /\ (s.frame.shaded /\ HasPart(s) => b \/ s.frame.border)
    BY DEF HasPart
  <1> HIDE DEF b
  <1>3. Keeps(s, t)
    BY <1>2 DEF Keeps, States, FrameStates, HasPart
  <1> HIDE DEF t
  <1>4. t \in States
    BY <1>3 DEF Keeps
  <1> QED BY <1>1, <1>3, <1>4, UpdateDecorKeeps, KeepsOn, KeepsSelf

(* The requests for border and titlebar keep the flags.                    *)
LEMMA BorderKeeps ==
    ASSUME NEW s \in States, NEW sa
    PROVE  Keeps(s, SetStateDecorBorder(s, sa)) /\ Keeps(s, SetStateDecorTitlebar(s, sa))
  <1> DEFINE t == SetBorder(s, sa)
             u == SetTitlebar(s, sa)
  <1>1. Keeps(s, t) /\ Keeps(s, u) /\ t \in States /\ u \in States
    BY SetBorderKeeps, SetTitlebarKeeps DEF Keeps
  <1>2. /\ SetStateDecorBorder(s, sa)
              = IF t.frame.border = s.frame.border THEN t
                ELSE [t EXCEPT !.client.border = t.frame.border]
        /\ SetStateDecorTitlebar(s, sa)
              = IF u.frame.titlebar = s.frame.titlebar THEN u
                ELSE [u EXCEPT !.client.titlebar = u.frame.titlebar]
    BY DEF SetStateDecorBorder, SetStateDecorTitlebar
  <1> HIDE DEF t, u
  <1>3. /\ Keeps(t, [t EXCEPT !.client.border = t.frame.border])
        /\ Keeps(u, [u EXCEPT !.client.titlebar = u.frame.titlebar])
    BY <1>1 DEF Keeps, States, FrameStates, ClientStates, HasPart
  <1> QED BY <1>1, <1>2, <1>3, KeepsOn

(* A window gets its size back.                                            *)
LEMMA SizeKeeps ==
    ASSUME NEW s \in States, NEW h \in Int
    PROVE  Keeps(s, [s EXCEPT !.frame.full = FALSE, !.client.full = FALSE, !.frame.height = h,
                              !.frame.nfborder = FALSE, !.frame.nftitlebar = FALSE])
  <1> DEFINE t == [s EXCEPT !.frame.full = FALSE, !.client.full = FALSE]
             u == [t EXCEPT !.frame.height = h, !.frame.nfborder = FALSE,
                            !.frame.nftitlebar = FALSE]
  <1>1. Keeps(s, t)
    BY DEF Keeps, States, FrameStates, ClientStates, HasPart
  <1>2. t \in States
    BY <1>1 DEF Keeps
  <1>3. [s EXCEPT !.frame.full = FALSE, !.client.full = FALSE, !.frame.height = h,
                  !.frame.nfborder = FALSE, !.frame.nftitlebar = FALSE] = u
    OBVIOUS
  <1> HIDE DEF t
  <1>4. Keeps(t, u)
    BY <1>2 DEF Keeps, States, FrameStates, ClientStates, HasPart
  <1> HIDE DEF u
  <1> QED BY <1>1, <1>3, <1>4, KeepsOn

(* A window that is not fullscreen anymore is shaded as it was.            *)
LEMMA RestoreKeeps ==
    ASSUME NEW s \in States
    PROVE  Keeps(s, Restore(s))
  <1> DEFINE t == RestoreBorder(s)
             u == RestoreTitlebar(t)
             o == u.frame.old
             v == [u EXCEPT !.frame.full = FALSE, !.client.full = FALSE,
                            !.frame.height = o,
                            !.frame.nfborder = FALSE, !.frame.nftitlebar = FALSE]
  <1>1. Keeps(s, t)
    BY SetBorderKeeps, KeepsSelf DEF RestoreBorder
  <1>2. t \in States
    BY <1>1 DEF Keeps
  <1>3. Restore(s) = Resize(v, o)
    BY DEF Restore, RestoreSize
  <1> HIDE DEF t
  <1>4. Keeps(t, u)
    BY <1>2, SetTitlebarKeeps, KeepsSelf DEF RestoreTitlebar
  <1>5. u \in States
    BY <1>4 DEF Keeps
  <1> HIDE DEF u
  <1>6. o \in Int
    BY <1>5 DEF States, FrameStates
  <1> HIDE DEF o
  <1>7. Keeps(u, v)
    BY <1>5, <1>6, SizeKeeps
  <1>8. v \in States
    BY <1>7 DEF Keeps
  <1> HIDE DEF v
  <1> QED BY <1>1, <1>3, <1>4, <1>6, <1>7, <1>8, ResizeKeeps, KeepsOn

(* And so is one that has become fullscreen.                               *)
LEMMA CoverKeeps ==
    ASSUME NEW s \in States
    PROVE  Keeps(s, Cover(s))
  <1> DEFINE t == Remember(s)
             u == SetBorder(t, "unset")
             v == SetTitlebar(u, "unset")
             w == [v EXCEPT !.frame.full = TRUE, !.client.full = TRUE, !.frame.height = HEAD]
  <1>1. Cover(s) = Resize(w, HEAD) /\ HEAD \in Int
    BY DEF Cover, CoverHead, HEAD
  <1>2. Keeps(s, t)
    BY DEF Remember, Keeps, States, FrameStates, ClientStates, HasPart
  <1>3. t \in States
    BY <1>2 DEF Keeps
  <1> HIDE DEF t
  <1>4. Keeps(t, u)
    BY <1>3, SetBorderKeeps
  <1>5. u \in States
    BY <1>4 DEF Keeps
  <1> HIDE DEF u
  <1>6. Keeps(u, v)
    BY <1>5, SetTitlebarKeeps
  <1>7. v \in States
    BY <1>6 DEF Keeps
  <1> HIDE DEF v
  <1>8. Keeps(v, w)
    BY <1>1, <1>7 DEF Keeps, States, FrameStates, ClientStates, HasPart
  <1>9. w \in States
    BY <1>8 DEF Keeps
  <1> HIDE DEF w
  <1> QED BY <1>1, <1>2, <1>4, <1>6, <1>8, <1>9, ResizeKeeps, KeepsOn

(* setStateFullscreen does one or the other.                               *)
LEMMA FullscreenKeeps ==
    ASSUME NEW s \in States, NEW sa
    PROVE  Keeps(s, SetStateFullscreen(s, sa))
  <1> DEFINE t == IF s.frame.full THEN Restore(s) ELSE Cover(s)
             l == IF t.frame.full THEN ABOVE_DOCK ELSE t.frame.nflayer
  <1>1. Keeps(s, t)
    BY RestoreKeeps, CoverKeeps
  <1>2. t \in States
    BY <1>1 DEF Keeps
  <1>3. SetStateFullscreen(s, sa) = IF ~ NeedToggle(sa, s.frame.full) THEN s ELSE Above(t)
    BY DEF SetStateFullscreen
  <1> HIDE DEF t
  <1>4. Above(t) = IF ~ config.above THEN t ELSE [t EXCEPT !.frame.layer = l]
    BY DEF Above
  <1>5. l \in Int
    BY <1>2 DEF ABOVE_DOCK, States, FrameStates
  <1> HIDE DEF l
  <1>6. config.above => Keeps(t, [t EXCEPT !.frame.layer = l])
    BY <1>2, <1>5 DEF Keeps, States, FrameStates, HasPart
  <1> QED BY <1>1, <1>2, <1>3, <1>4, <1>6, KeepsOn, KeepsSelf

(* Layers have nothing to do with the flags.                               *)
LEMMA LayerKeeps ==
    ASSUME NEW s \in States, NEW sa
    PROVE  Keeps(s, SetStateAlwaysOnTop(s, sa)) /\ Keeps(s, SetStateAlwaysBelow(s, sa))
  <1>1. ASSUME NEW l \in Int
        PROVE  Keeps(s, [s EXCEPT !.frame.layer = l, !.client.layer = l])
    BY DEF Keeps, States, FrameStates, ClientStates, HasPart
  <1>2. ONTOP \in Int /\ NORMAL \in Int /\ BELOW \in Int
    BY DEF ONTOP, NORMAL, BELOW
  <1> QED BY <1>1, <1>2, KeepsSelf DEF SetStateAlwaysOnTop, SetStateAlwaysBelow

-----------------------------------------------------------------------------
(* Shading and maximizing change the flags of both                         *)

(* What holds of a frame and the window in front, b telling whether it is  *)
(* one that was opened for a window it could not be shaded for.            *)
Sound(s, b) ==
    /\ s \in States
    /\ s.client.maxh = s.frame.maxh /\ s.client.maxv = s.frame.maxv
    /\ s.frame.shaded => HasPart(s) /\ s.client.shaded
    /\ ~ b => s.client.shaded = s.frame.shaded
    /\ ~ config.above => s.client.layer = s.frame.layer

(* What is about something else leaves a frame sound.                      *)
LEMMA SoundKept ==
    ASSUME NEW s, NEW t, NEW b, Sound(s, b), Keeps(s, t)
    PROVE  Sound(t, b)
  BY DEF Sound, Keeps

(* The frame and the window in front before and after something that does  *)
(* not touch what is seen of a frame.                                      *)
SameParts(s, t) ==
    /\ t \in States
    /\ t.frame.border = s.frame.border /\ t.frame.titlebar = s.frame.titlebar
    /\ t.frame.shaded = s.frame.shaded /\ t.frame.full = s.frame.full
    /\ t.client.shaded = s.client.shaded
    /\ t.frame.layer = s.frame.layer /\ t.client.layer = s.client.layer

(* A frame is moved and sized with all its parts.                          *)
LEMMA ResizeParts ==
    ASSUME NEW s \in States, NEW h \in Int
    PROVE  SameParts(s, Resize(s, h))
  <1> DEFINE bar == Bar(s.frame)
             f == IF s.frame.shaded THEN [s.frame EXCEPT !.real = h, !.height = bar]
                                    ELSE [s.frame EXCEPT !.height = h]
             k == ChildHeight(f)
  <1>1. s.frame \in FrameStates /\ s.client \in ClientStates
    BY DEF States
  <1>2. f.border = s.frame.border /\ f.titlebar = s.frame.titlebar
        /\ f.shaded = s.frame.shaded /\ f.full = s.frame.full /\ f.layer = s.frame.layer
    <2> HIDE DEF bar
    <2>1. CASE s.frame.shaded
      BY <1>1, <2>1 DEF FrameStates
    <2>2. CASE ~ s.frame.shaded
      BY <1>1, <2>2 DEF FrameStates
    <2> QED BY <2>1, <2>2
  <1>3. Resize(s, h) = [frame |-> f, client |-> [s.client EXCEPT !.height = k]]
    BY DEF Resize
  <1>4. Resize(s, h) \in States
    BY ResizeKeeps DEF Keeps
  <1> HIDE DEF f, k
  <1> QED BY <1>1, <1>2, <1>3, <1>4 DEF SameParts, ClientStates

(* A frame that is shown again has the parts it had.                       *)
LEMMA Unshaded ==
    ASSUME NEW f \in FrameStates, NEW h \in Int, NEW r \in Int
    PROVE  LET g == [f EXCEPT !.height = h, !.real = r, !.shaded = FALSE]
           IN  /\ g \in FrameStates /\ g.maxh = f.maxh /\ g.maxv = f.maxv /\ g.layer = f.layer
               /\ g.titlebar = f.titlebar /\ g.border = f.border /\ ~ g.shaded
  BY DEF FrameStates

(* Both flags are set when a frame is shaded, or neither.                  *)
LEMMA SetShadedSound ==
    ASSUME NEW s, NEW b, Sound(s, b), NEW sa
    PROVE  Sound(SetShaded(s, sa), b)
  <1> DEFINE f == Shade(s.frame)
             on == f.shaded
             cl == [s.client EXCEPT !.shaded = on]
             t == [frame |-> f, client |-> IF f.shaded = s.frame.shaded THEN s.client ELSE cl]
             bar == Bar(s.frame)
             up == s.frame.real
             h == s.frame.height
  <1>1. s \in States /\ s.frame \in FrameStates /\ s.client \in ClientStates
    BY DEF Sound, States
  <1>2. bar \in Int /\ up \in Int /\ h \in Int
    BY <1>1, Heights DEF FrameStates
  <1>3. f = IF s.frame.shaded
            THEN [s.frame EXCEPT !.height = up, !.real = 0, !.shaded = FALSE]
            ELSE IF Shadeable(s.frame)
                 THEN [s.frame EXCEPT !.real = h, !.height = bar, !.shaded = TRUE]
                 ELSE s.frame
    BY DEF Shade
  <1>4. SetShaded(s, sa) = IF ~ NeedToggle(sa, s.frame.shaded) THEN s ELSE t
    BY DEF SetShaded
  <1>5. Shadeable(s.frame) => s.frame.titlebar \/ s.frame.border
    BY DEF Shadeable
  <1> HIDE DEF f, bar, up, h
  <1>6. /\ f \in FrameStates /\ f.maxh = s.frame.maxh /\ f.maxv = s.frame.maxv
        /\ f.titlebar = s.frame.titlebar /\ f.border = s.frame.border
        /\ f.layer = s.frame.layer
        /\ f.shaded # s.frame.shaded /\ f.shaded => Shadeable(s.frame)
    <2>1. CASE s.frame.shaded
      <3> DEFINE e == s.frame
                 r == 0
                 g == [e EXCEPT !.height = up, !.real = r, !.shaded = FALSE]
      <3>1. f = g
        BY <1>3, <2>1
      <3>2. e \in FrameStates /\ r \in Int
        BY <1>1
      <3> HIDE DEF e, r
      <3>3. /\ g \in FrameStates /\ g.maxh = e.maxh /\ g.maxv = e.maxv /\ g.layer = e.layer
            /\ g.titlebar = e.titlebar /\ g.border = e.border /\ ~ g.shaded
        <4> HIDE <1>1, <1>3, <1>4, <1>5
        <4> QED BY <1>2, <3>2, Unshaded
      <3> HIDE DEF g
      <3> QED BY <3>1, <3>3 DEF e
    <2>2. CASE ~ s.frame.shaded /\ Shadeable(s.frame)
      BY <1>1, <1>2, <1>3, <2>2 DEF FrameStates
    <2>3. CASE ~ s.frame.shaded /\ ~ Shadeable(s.frame)
      BY <1>1, <1>3, <2>3
    <2> QED BY <2>1, <2>2, <2>3
  <1>7. on \in BOOLEAN
    BY <1>6 DEF FrameStates
  <1>8. cl \in ClientStates /\ cl.shaded = on /\ cl.maxh = s.client.maxh /\ cl.maxv = s.client.maxv
        /\ cl.layer = s.client.layer
    <2> HIDE DEF on
    <2> QED BY <1>1, <1>7 DEF ClientStates
  <1> HIDE DEF cl
  <1>9. CASE f.shaded = s.frame.shaded
    <2>1. t = [frame |-> f, client |-> s.client]
      BY <1>9
    <2> QED BY <1>1, <1>4, <1>6, <1>9, <2>1 DEF Sound, States, HasPart
  <1>10. CASE f.shaded # s.frame.shaded
    <2>1. t = [frame |-> f, client |-> cl]
      BY <1>10
    <2> QED BY <1>1, <1>4, <1>5, <1>6, <1>8, <1>10, <2>1 DEF Sound, States, HasPart
  <1> QED BY <1>9, <1>10

(* Sideways, the two flags are set to the same value.                      *)
LEMMA HorzAgrees ==
    ASSUME NEW s \in States, NEW fill
    PROVE  LET t == MaximizeHorz(s, fill)
           IN  /\ SameParts(s, t) /\ t.client.maxh = t.frame.maxh
               /\ t.frame.maxv = s.frame.maxv /\ t.client.maxv = s.client.maxv
  <1> DEFINE m == ~ fill /\ ~ s.frame.maxh
  <1>1. m \in BOOLEAN /\ s.frame \in FrameStates /\ s.client \in ClientStates
    BY DEF States
  <1>2. MaximizeHorz(s, fill)
        = [frame |-> [s.frame EXCEPT !.maxh = m], client |-> [s.client EXCEPT !.maxh = m]]
    BY DEF MaximizeHorz
  <1> HIDE DEF m
  <1> QED BY <1>1, <1>2 DEF SameParts, States, FrameStates, ClientStates

(* And so they are upwards.                                                *)
LEMMA VertAgrees ==
    ASSUME NEW s \in States, NEW sa, NEW fill
    PROVE  LET t == MaximizeVert(s, sa, fill)
           IN  /\ SameParts(s, t) /\ t.client.maxv = t.frame.maxv
               /\ t.frame.maxh = s.frame.maxh /\ t.client.maxh = s.client.maxh
  <1> DEFINE f == s.frame
             on == sa = "set" \/ (sa = "toggle" /\ ~ f.maxv)
             h == f.height
             o == f.old
             g == IF on /\ fill THEN [f EXCEPT !.height = FILL]
                  ELSE IF on THEN [f EXCEPT !.old = h, !.height = EDGE]
                  ELSE [f EXCEPT !.height = o]
             m == ~ fill /\ ~ f.maxv
  <1>1. m \in BOOLEAN /\ f \in FrameStates /\ s.client \in ClientStates /\ h \in Int /\ o \in Int
    BY DEF States, FrameStates
  <1>2. MaximizeVert(s, sa, fill)
        = [frame |-> [g EXCEPT !.maxv = m], client |-> [s.client EXCEPT !.maxv = m]]
    BY DEF MaximizeVert
  <1> HIDE DEF m, h, o, on
  <1>3. FILL \in Int /\ EDGE \in Int
    BY DEF FILL, EDGE
  <1>4. /\ g \in FrameStates /\ g.border = f.border /\ g.titlebar = f.titlebar
        /\ g.shaded = f.shaded /\ g.full = f.full /\ g.maxh = f.maxh /\ g.layer = f.layer
    <2>1. CASE on /\ fill
      BY <1>1, <1>3, <2>1 DEF FrameStates
    <2>2. CASE on /\ ~ fill
      BY <1>1, <1>3, <2>2 DEF FrameStates
    <2>3. CASE ~ on
      BY <1>1, <2>3 DEF FrameStates
    <2> QED BY <2>1, <2>2, <2>3
  <1> HIDE DEF g
  <1>5. /\ [g EXCEPT !.maxv = m] \in FrameStates /\ [s.client EXCEPT !.maxv = m] \in ClientStates
    BY <1>1, <1>4 DEF FrameStates, ClientStates
  <1> QED BY <1>1, <1>2, <1>4, <1>5 DEF SameParts, States, FrameStates, ClientStates

(* Whichever directions are maximized, the flags that agreed do still.     *)
LEMMA EndedAgrees ==
    ASSUME NEW s \in States, NEW sa, NEW horz, NEW vert, NEW fill
    PROVE  LET t == MaximizeEnded(s, sa, horz, vert, fill)
           IN  /\ SameParts(s, t)
               /\ s.client.maxh = s.frame.maxh => t.client.maxh = t.frame.maxh
               /\ s.client.maxv = s.frame.maxv => t.client.maxv = t.frame.maxv
  <1> DEFINE sync == horz = vert /\ sa = "toggle" /\ s.frame.maxh # s.frame.maxv
             h == IF sync THEN ~ s.frame.maxh ELSE horz
             v == IF sync THEN ~ s.frame.maxv ELSE vert
             u == IF h THEN MaximizeHorz(s, fill) ELSE s
             a == IF fill THEN "set" ELSE sa
             w == MaximizeVert(u, a, fill)
  <1>1. MaximizeEnded(s, sa, horz, vert, fill) = IF v THEN w ELSE u
    BY DEF MaximizeEnded
  <1> HIDE DEF h, v, a
  <1>2. /\ SameParts(s, u)
        /\ s.client.maxh = s.frame.maxh => u.client.maxh = u.frame.maxh
        /\ s.client.maxv = s.frame.maxv => u.client.maxv = u.frame.maxv
    BY HorzAgrees DEF SameParts
  <1>3. u \in States
    BY <1>2 DEF SameParts
  <1> HIDE DEF u
  <1>4. /\ SameParts(u, w) /\ w.client.maxv = w.frame.maxv
        /\ w.frame.maxh = u.frame.maxh /\ w.client.maxh = u.client.maxh
    BY <1>3, VertAgrees
  <1> HIDE DEF w
  <1> QED BY <1>1, <1>2, <1>4 DEF SameParts

(* What is maximized is made to fit the head.                              *)
LEMMA FitEdgeKeeps ==
    ASSUME NEW s \in States
    PROVE  Keeps(s, FitEdge(s)) /\ SameParts(s, FitEdge(s))
  <1> DEFINE h == IF s.frame.height > EDGE THEN EDGE ELSE s.frame.height
  <1>1. h \in Int
    BY DEF EDGE, States, FrameStates
  <1>2. FitEdge(s) = Resize(s, h)
    BY DEF FitEdge
  <1> HIDE DEF h
  <1> QED BY <1>1, <1>2, ResizeKeeps, ResizeParts

(* setStateMaximized leaves a sound frame sound.                           *)
LEMMA MaximizedSound ==
    ASSUME NEW s, NEW b, Sound(s, b), NEW sa, NEW horz, NEW vert, NEW fill
    PROVE  Sound(SetStateMaximized(s, sa, horz, vert, fill), b)
  <1> DEFINE r == SetShaded(s, "unset")
             t == SetStateFullscreen(r, "unset")
             u == MaximizeEnded(t, sa, horz, vert, fill)
  <1>1. SetStateMaximized(s, sa, horz, vert, fill) = FitEdge(u)
    BY DEF SetStateMaximized, EndOthers
  <1>2. Sound(r, b) /\ r \in States
    BY SetShadedSound DEF Sound
  <1> HIDE DEF r
  <1>3. Sound(t, b) /\ t \in States
    BY <1>2, FullscreenKeeps, SoundKept DEF Sound
  <1> HIDE DEF t
  <1>4. SameParts(t, u) /\ u.client.maxh = u.frame.maxh /\ u.client.maxv = u.frame.maxv
    BY <1>3, EndedAgrees DEF Sound
  <1> HIDE DEF u
  <1>5. Sound(u, b) /\ u \in States
    BY <1>3, <1>4 DEF Sound, SameParts, HasPart
  <1> QED BY <1>1, <1>5, FitEdgeKeeps, SoundKept

-----------------------------------------------------------------------------
(* The frame of a new window                                               *)

(* A frame that is being opened for the window cl: not yet shaded, nor     *)
(* fullscreen, and with the parts cl asks for.                             *)
Opens(cl, s) ==
    /\ s \in States
    /\ ~ s.frame.shaded /\ ~ s.frame.full
    /\ s.frame.border = cl.border /\ s.frame.titlebar = cl.titlebar
    /\ s.client.shaded = cl.shaded /\ s.client.layer = s.frame.layer

(* Its decor is loaded first.                                              *)
LEMMA SetDecorOpens ==
    ASSUME NEW cl, NEW s, Opens(cl, s)
    PROVE  Opens(cl, SetDecor(s, DEFAULT))
  <1> DEFINE t == [s EXCEPT !.frame.name = DEFAULT]
             h == s.client.height + DecorHeight(t.frame)
  <1>1. DEFAULT \in BOOLEAN \X BOOLEAN
    BY DEF DEFAULT
  <1>2. SameParts(s, t)
    BY <1>1 DEF SameParts, Opens, States, FrameStates
  <1>3. t \in States
    BY <1>2 DEF SameParts
  <1>4. SetDecor(s, DEFAULT) = IF s.frame.name = DEFAULT THEN s ELSE Resize(t, h)
    BY DEF SetDecor, ResizeChild
  <1> HIDE DEF t
  <1>5. h \in Int
    BY <1>3, Heights DEF States, ClientStates, Opens
  <1> HIDE DEF h
  <1>6. SameParts(t, Resize(t, h))
    BY <1>3, <1>5, ResizeParts
  <1> QED BY <1>2, <1>4, <1>6 DEF SameParts, Opens

(* Maximizing has nothing to end in such a frame.                          *)
LEMMA OpensMaximized ==
    ASSUME NEW cl, NEW s, Opens(cl, s), NEW sa, NEW horz, NEW vert, NEW fill
    PROVE  SetStateMaximized(s, sa, horz, vert, fill)
           = FitEdge(MaximizeEnded(s, sa, horz, vert, fill))
  <1>1. ~ NeedToggle("unset", FALSE)
    BY DEF NeedToggle
  <1>2. SetShaded(s, "unset") = s
    BY <1>1 DEF SetShaded, Opens, States, FrameStates
  <1>3. SetStateFullscreen(s, "unset") = s
    BY <1>1 DEF SetStateFullscreen, Opens, States, FrameStates
  <1> QED BY <1>2, <1>3 DEF SetStateMaximized, EndOthers

(* The window's wish to be maximized sideways is fulfilled.                *)
LEMMA OpensHorz ==
    ASSUME NEW cl, NEW s, Opens(cl, s)
    PROVE  LET t == MatchMaxHorz(s) IN Opens(cl, t) /\ t.client.maxh = t.frame.maxh
  <1> DEFINE u == MaximizeHorz(s, FALSE)
  <1>1. MaximizeEnded(s, "toggle", TRUE, FALSE, FALSE) = u
    BY DEF MaximizeEnded
  <1>2. MatchMaxHorz(s) = IF s.frame.maxh = s.client.maxh THEN s ELSE FitEdge(u)
    BY <1>1, OpensMaximized DEF MatchMaxHorz
  <1>3. SameParts(s, u) /\ u.client.maxh = u.frame.maxh /\ u \in States
    BY HorzAgrees DEF Opens, SameParts
  <1> HIDE DEF u
  <1>4. Keeps(u, FitEdge(u)) /\ SameParts(u, FitEdge(u))
    BY <1>3, FitEdgeKeeps
  <1> QED BY <1>2, <1>3, <1>4 DEF Keeps, SameParts, Opens

(* And the one to be maximized upwards.                                    *)
LEMMA OpensVert ==
    ASSUME NEW cl, NEW s, Opens(cl, s), s.client.maxh = s.frame.maxh
    PROVE  LET t == MatchMaxVert(s)
           IN  Opens(cl, t) /\ t.client.maxh = t.frame.maxh /\ t.client.maxv = t.frame.maxv
  <1> DEFINE u == MaximizeVert(s, "toggle", FALSE)
  <1>1. MaximizeEnded(s, "toggle", FALSE, TRUE, FALSE) = u
    BY DEF MaximizeEnded
  <1>2. MatchMaxVert(s) = IF s.frame.maxv = s.client.maxv THEN s ELSE FitEdge(u)
    BY <1>1, OpensMaximized DEF MatchMaxVert
  <1>3. /\ SameParts(s, u) /\ u.client.maxv = u.frame.maxv /\ u \in States
        /\ u.client.maxh = u.frame.maxh
    <2>1. s \in States
      BY DEF Opens
    <2>2. /\ SameParts(s, u) /\ u.client.maxv = u.frame.maxv
          /\ u.frame.maxh = s.frame.maxh /\ u.client.maxh = s.client.maxh
      BY <2>1, VertAgrees
    <2> HIDE DEF u
    <2> QED BY <2>2 DEF SameParts
  <1> HIDE DEF u
  <1>4. Keeps(u, FitEdge(u)) /\ SameParts(u, FitEdge(u))
    BY <1>3, FitEdgeKeeps
  <1> QED BY <1>2, <1>3, <1>4 DEF Keeps, SameParts, Opens

(* A frame is shaded for its window when there is a part to be shaded to.  *)
LEMMA OpensShaded ==
    ASSUME NEW cl, NEW s, Opens(cl, s),
           s.client.maxh = s.frame.maxh, s.client.maxv = s.frame.maxv
    PROVE  Sound(MatchShaded(s), cl.shaded /\ ~ Shadeable(cl))
  <1> DEFINE b == cl.shaded /\ ~ Shadeable(cl)
             f == Shade(s.frame)
             t == SetShaded(s, "toggle")
  <1>1. MatchShaded(s) = IF s.frame.shaded = s.client.shaded THEN s ELSE t
    BY DEF MatchShaded
  <1>2. ~ s.frame.shaded /\ s.client.shaded = cl.shaded /\ s \in States
        /\ s.client.layer = s.frame.layer
        /\ Shadeable(s.frame) = Shadeable(cl)
    BY DEF Opens, Shadeable
  <1>3. CASE ~ s.client.shaded
    BY <1>1, <1>2, <1>3 DEF Sound, States, FrameStates, ClientStates
  <1>4. CASE s.client.shaded /\ ~ Shadeable(cl)
    <2>1. b
      BY <1>2, <1>4
    <2>2. Sound(s, b)
      <3> HIDE DEF b
      <3> QED BY <1>2, <2>1 DEF Sound
    <2> HIDE DEF b
    <2>3. Sound(MatchShaded(s), b)
      BY <1>1, <2>2, SetShadedSound
    <2> QED BY <2>3 DEF b
  <1>5. CASE s.client.shaded /\ Shadeable(cl)
    <2>1. Sound(s, TRUE)
      BY <1>2 DEF Sound
    <2>2. Sound(t, TRUE)
      BY <2>1, SetShadedSound
    <2>3. t.frame.shaded
      <3>1. NeedToggle("toggle", s.frame.shaded)
        BY DEF NeedToggle
      <3>2. t.frame = f
        BY <3>1 DEF SetShaded
      <3>3. f = [s.frame EXCEPT !.real = s.frame.height, !.height = Bar(s.frame), !.shaded = TRUE]
        BY <1>2, <1>5 DEF Shade
      <3>4. s.frame \in FrameStates
        BY <1>2 DEF States
      <3> HIDE DEF f, t
      <3>5. f.shaded
        BY <3>3, <3>4 DEF FrameStates
      <3> QED BY <3>2, <3>5
    <2> HIDE DEF t, b
    <2>4. Sound(t, b)
      BY <2>2, <2>3 DEF Sound, States, FrameStates, ClientStates
    <2>5. MatchShaded(s) = t
      BY <1>1, <1>2, <1>5
    <2> QED BY <2>4, <2>5 DEF b
  <1> QED BY <1>3, <1>4, <1>5

(* What remains of getState is about other things than these flags.        *)
LEMMA RestKeeps ==
    ASSUME NEW s \in States
    PROVE  /\ Keeps(s, MatchLayer(s)) /\ Keeps(s, MatchBorder(s)) /\ Keeps(s, MatchTitlebar(s))
           /\ Keeps(s, MatchFullscreen(s)) /\ Keeps(s, FixGeometry(s))
  <1>1. Keeps(s, MatchLayer(s))
    BY DEF MatchLayer, Keeps, States, FrameStates, ClientStates, HasPart
  <1>2. Keeps(s, MatchBorder(s)) /\ Keeps(s, MatchTitlebar(s))
    BY SetBorderKeeps, SetTitlebarKeeps, KeepsSelf DEF MatchBorder, MatchTitlebar
  <1>3. Keeps(s, MatchFullscreen(s))
    BY FullscreenKeeps, KeepsSelf DEF MatchFullscreen
  <1>4. Keeps(s, FixGeometry(s))
    <2> DEFINE t == [s EXCEPT !.frame.height = EDGE]
    <2>1. EDGE \in Int
      BY DEF EDGE
    <2>2. Keeps(s, t)
      BY <2>1 DEF Keeps, States, FrameStates, HasPart
    <2>3. t \in States
      BY <2>2 DEF Keeps
    <2>4. FixGeometry(s) = IF s.frame.height > EDGE THEN Resize(t, EDGE) ELSE s
      BY DEF FixGeometry
    <2> HIDE DEF t
    <2> QED BY <2>1, <2>2, <2>3, <2>4, ResizeKeeps, KeepsOn, KeepsSelf
  <1> QED BY <1>1, <1>2, <1>3, <1>4

(* A new frame is sound.                                                   *)
LEMMA NewFrameSound ==
    ASSUME NEW cl \in ClientStates
    PROVE  Sound(NewFrame(cl), cl.shaded /\ ~ Shadeable(cl))
  <1> DEFINE b == cl.shaded /\ ~ Shadeable(cl)
             h == cl.height + DecorHeight(cl)
             n == <<cl.border, cl.titlebar>>
             f == [border |-> cl.border, titlebar |-> cl.titlebar, shaded |-> FALSE,
                   full |-> FALSE, maxh |-> FALSE, maxv |-> FALSE, layer |-> cl.layer,
                   name |-> n, height |-> h, real |-> 0,
                   old |-> h, nfborder |-> FALSE, nftitlebar |-> FALSE, nflayer |-> cl.layer]
             s == [frame |-> f, client |-> cl]
             t == SetDecor(s, DEFAULT)
             u == MatchMaxHorz(t)
             v == MatchMaxVert(u)
             w == MatchShaded(v)
             x1 == MatchLayer(w)
             x2 == MatchBorder(x1)
             x3 == MatchTitlebar(x2)
             x4 == MatchFullscreen(x3)
  <1>1. NewFrame(cl) = FixGeometry(x4)
    BY DEF NewFrame, GetState
  <1>2. h \in Int
    BY DEF DecorHeight, TitleHeight, BorderHeight, TITLE, BORDER, ClientStates
  <1>3. n \in BOOLEAN \X BOOLEAN
    BY DEF ClientStates
  <1> HIDE DEF h, n
  <1>4. f \in FrameStates /\ ~ f.shaded /\ ~ f.full /\ f.border = cl.border /\ f.titlebar = cl.titlebar
        /\ f.layer = cl.layer
    BY <1>2, <1>3 DEF FrameStates, ClientStates
  <1> HIDE DEF f
  <1>5. Opens(cl, s)
    BY <1>4 DEF Opens, States
  <1> HIDE DEF s
  <1>6. Opens(cl, t)
    BY <1>5, SetDecorOpens
  <1> HIDE DEF t
  <1>7. Opens(cl, u) /\ u.client.maxh = u.frame.maxh
    BY <1>6, OpensHorz
  <1> HIDE DEF u
  <1>8. Opens(cl, v) /\ v.client.maxh = v.frame.maxh /\ v.client.maxv = v.frame.maxv
    BY <1>7, OpensVert
  <1> HIDE DEF v
  <1>9. Sound(w, b)
    BY <1>8, OpensShaded
  <1> HIDE DEF w, b
  <1>10. Sound(x1, b)
    BY <1>9, RestKeeps, SoundKept DEF Sound
  <1> HIDE DEF x1
  <1>11. Sound(x2, b)
    BY <1>10, RestKeeps, SoundKept DEF Sound
  <1> HIDE DEF x2
  <1>12. Sound(x3, b)
    BY <1>11, RestKeeps, SoundKept DEF Sound
  <1> HIDE DEF x3
  <1>13. Sound(x4, b)
    BY <1>12, RestKeeps, SoundKept DEF Sound
  <1> HIDE DEF x4
  <1>14. Sound(FixGeometry(x4), b)
    BY <1>13, RestKeeps, SoundKept DEF Sound
  <1> QED BY <1>1, <1>14 DEF b

-----------------------------------------------------------------------------
(* The invariant                                                           *)

(* What is sound, together with the type of what is kept of the other tabs.*)
FrameInv ==
    /\ Sound(State, bare)
    /\ bare \in BOOLEAN
    /\ \A c \in DOMAIN behind : behind[c] \in BOOLEAN

(* The window of Arriving is one of this proof.                            *)
LEMMA Arrived ==
    ASSUME NEW cl \in Arriving
    PROVE  cl \in ClientStates /\ cl.full \in BOOLEAN /\ cl.height > 0
  BY FrameAssumption DEF ClientStates

(* A new frame satisfies the invariant.                                    *)
LEMMA InitSound == FrameInit => FrameInv
  <1> SUFFICES ASSUME FrameInit PROVE FrameInv
    OBVIOUS
  <1>1. PICK cl \in Arriving :
            /\ frame = NewFrame(cl).frame /\ client = NewFrame(cl).client
            /\ bare = (cl.shaded /\ ~ Shadeable(cl))
    BY DEF FrameInit
  <1>2. Sound(NewFrame(cl), cl.shaded /\ ~ Shadeable(cl))
    BY Arrived, NewFrameSound
  <1>3. NewFrame(cl) \in States
    BY <1>2 DEF Sound
  <1>4. State = NewFrame(cl)
    BY <1>1, <1>3 DEF State, States
  <1>5. Sound(State, bare)
    BY <1>1, <1>2, <1>4
  <1>6. bare \in BOOLEAN
    BY <1>1
  <1>7. \A c \in DOMAIN behind : behind[c] \in BOOLEAN
    BY DEF FrameInit
  <1> QED BY <1>5, <1>6, <1>7 DEF FrameInv

(* A step is one that becomes a sound frame.                               *)
LEMMA BecomesSound ==
    ASSUME NEW s, Sound(s, bare), bare \in BOOLEAN, frame' = s.frame, client' = s.client,
           Remains
    PROVE  Sound(State, bare)' /\ bare' \in BOOLEAN
  <1>1. s \in States
    BY DEF Sound
  <1>2. State' = s
    BY <1>1 DEF State, States
  <1>3. bare' = (bare /\ s.client.shaded # s.frame.shaded)
    BY DEF Remains
  <1>4. bare' \in BOOLEAN
    BY <1>3
  <1>5. ~ bare' => s.client.shaded = s.frame.shaded
    BY <1>3 DEF Sound
  <1>6. Sound(s, bare')
    BY <1>5 DEF Sound
  <1> QED BY <1>2, <1>4, <1>6 DEF Sound, Remains

(* The tab put in front takes the states of the frame.                     *)
LEMMA ActivatedSound ==
    ASSUME FrameInv, Remains, NEW c, NEW full \in BOOLEAN, ActivateChild(c, full)
    PROVE  Sound(State, bare)' /\ bare' \in BOOLEAN
  <1> DEFINE k == ChildHeight(frame)
             cl == [maxh |-> frame.maxh, maxv |-> frame.maxv, shaded |-> frame.shaded,
                    layer |-> frame.layer, border |-> frame.border,
                    titlebar |-> frame.titlebar, full |-> full, height |-> k]
             s == [frame |-> frame, client |-> cl]
             t == SetDecor(s, DEFAULT)
  <1>1. frame \in FrameStates /\ (frame.shaded => HasPart(State))
    BY DEF FrameInv, Sound, State, States
  <1>2. k \in Int
    BY <1>1, Heights
  <1>3. frame' = t.frame /\ client' = t.client
    BY DEF ActivateChild, ApplyState
  <1> HIDE DEF k
  <1>4. cl \in ClientStates /\ cl.shaded = frame.shaded /\ cl.maxh = frame.maxh /\ cl.maxv = frame.maxv
        /\ cl.layer = frame.layer
    BY <1>1, <1>2 DEF FrameStates, ClientStates
  <1> HIDE DEF cl
  <1>5. Sound(s, bare) /\ s \in States
    BY <1>1, <1>4 DEF Sound, States, HasPart, State
  <1> HIDE DEF s
  <1>6. Sound(t, bare)
    BY <1>5, SetDecorKeeps, SoundKept
  <1> HIDE DEF t
  <1> QED BY <1>3, <1>6, BecomesSound DEF FrameInv

(* Every request and every change of tabs keeps it.                        *)
LEMMA NextSound == FrameInv /\ [FrameNext]_frameVars => FrameInv'
  <1> SUFFICES ASSUME FrameInv, [FrameNext]_frameVars PROVE FrameInv'
    OBVIOUS
  <1>0. State \in States /\ Sound(State, bare) /\ bare \in BOOLEAN
        /\ \A c \in DOMAIN behind : behind[c] \in BOOLEAN
    BY DEF FrameInv, Sound
  <1>a. ASSUME NEW s, Becomes(s), Sound(s, bare)
        PROVE  FrameInv'
    BY <1>0, <1>a, BecomesSound DEF Becomes, FrameInv
  <1>b. ASSUME NEW s, Becomes(s), Keeps(State, s)
        PROVE  FrameInv'
    BY <1>0, <1>a, <1>b, SoundKept
  <1>1. CASE \E sa \in Actions : Fullscreen(sa)
    BY <1>0, <1>1, <1>b, FullscreenKeeps DEF Fullscreen
  <1>2. CASE \E sa \in Actions : ToggleShade(sa)
    BY <1>0, <1>2, <1>a, SetShadedSound DEF ToggleShade
  <1>3. CASE \E sa \in Actions : Border(sa) \/ Titlebar(sa)
    BY <1>0, <1>3, <1>b, BorderKeeps DEF Border, Titlebar
  <1>4. CASE \E sa \in Actions : OnTop(sa) \/ Below(sa)
    BY <1>0, <1>4, <1>b, LayerKeeps DEF OnTop, Below
  <1>5. CASE \E sa \in Actions : \E horz, vert \in BOOLEAN : Maximize(sa, horz, vert)
    BY <1>0, <1>5, <1>a, MaximizedSound DEF Maximize
  <1>6. CASE \E horz, vert \in BOOLEAN : MaxFill(horz, vert)
    BY <1>0, <1>6, <1>a, MaximizedSound DEF MaxFill
  <1>7. CASE \E h \in Requests : Configure(h)
    <2> PICK h \in Requests : Configure(h)
      BY <1>7
    <2>1. h \in Int
      BY FrameAssumption
    <2> DEFINE s == ResizeChild(State, h)
    <2>2. Keeps(State, State) /\ Keeps(State, SetStateFullscreen(State, "set"))
      BY <1>0, KeepsSelf, FullscreenKeeps
    <2>3. Keeps(State, s)
      BY <1>0, <2>1, ResizeChildKeeps
    <2>4. s \in States
      BY <2>3 DEF Keeps
    <2>5. Configure(h) => \/ Becomes(State) \/ Becomes(SetStateFullscreen(State, "set"))
                          \/ Becomes(s) \/ Becomes(SetStateFullscreen(s, "unset"))
      BY DEF Configure
    <2> HIDE DEF s
    <2>6. Keeps(State, SetStateFullscreen(s, "unset"))
      BY <2>3, <2>4, FullscreenKeeps, KeepsOn
    <2> QED BY <1>b, <2>2, <2>3, <2>5, <2>6
  <1>8. CASE ActivateAgain
    <2> DEFINE k == ChildHeight(frame)
               s == [State EXCEPT !.client.height = k]
               t == SetDecor(s, DEFAULT)
    <2>1. k \in Int
      BY <1>0, Heights DEF State, States
    <2>2. Becomes(t)
      BY <1>8 DEF ActivateAgain, Becomes
    <2> HIDE DEF k
    <2>3. Keeps(State, s)
      BY <1>0, <2>1 DEF Keeps, States, ClientStates, HasPart
    <2>4. s \in States
      BY <2>3 DEF Keeps
    <2> HIDE DEF s
    <2>5. Keeps(State, t)
      BY <2>3, <2>4, SetDecorKeeps, KeepsOn
    <2> HIDE DEF t
    <2> QED BY <1>b, <2>2, <2>5
  <1>9. client.full \in BOOLEAN
    BY <1>0 DEF State, States, ClientStates
  <1>10. CASE \E c \in Children : Activate(c)
    <2> PICK c \in Children : Activate(c)
      BY <1>10
    <2>1. Sound(State, bare)' /\ bare' \in BOOLEAN
      BY <1>0, ActivatedSound DEF Activate
    <2>2. \A d \in DOMAIN behind' : behind'[d] \in BOOLEAN
      BY <1>0, <1>9 DEF Activate, Restrict, Put
    <2> QED BY <2>1, <2>2 DEF FrameInv
  <1>11. CASE \E c \in Children : Join(c)
    <2> PICK c \in Children : Join(c)
      BY <1>11
    <2>1. Remains
      BY DEF Join
    <2> PICK cl \in Arriving :
         \/ /\ behind' = Put(behind, c, cl.full)
            /\ UNCHANGED <<frame, client, front>>
         \/ ActivateChild(c, cl.full) /\ behind' = Put(behind, front, client.full)
      BY DEF Join
    <2>2. cl.full \in BOOLEAN
      BY Arrived
    <2>3. CASE behind' = Put(behind, c, cl.full) /\ UNCHANGED <<frame, client, front>>
      <3>1. frame' = State.frame /\ client' = State.client
        BY <2>3 DEF State
      <3>2. Sound(State, bare)' /\ bare' \in BOOLEAN
        BY <1>0, <2>1, <3>1, BecomesSound
      <3>3. \A d \in DOMAIN behind' : behind'[d] \in BOOLEAN
        BY <1>0, <2>2, <2>3 DEF Put
      <3> QED BY <3>2, <3>3 DEF FrameInv
    <2>4. CASE ActivateChild(c, cl.full) /\ behind' = Put(behind, front, client.full)
      <3>1. Sound(State, bare)' /\ bare' \in BOOLEAN
        BY <2>1, <2>2, <2>4, ActivatedSound
      <3>2. \A d \in DOMAIN behind' : behind'[d] \in BOOLEAN
        BY <1>0, <1>9, <2>4 DEF Put
      <3> QED BY <3>1, <3>2 DEF FrameInv
    <2> QED BY <2>3, <2>4
  <1>12. CASE \E c \in Children : RemoveChild(c)
    <2> PICK c \in Children : RemoveChild(c)
      BY <1>12
    <2>1. Remains
      BY DEF RemoveChild
    <2>2. CASE c = front
      <3> PICK d \in DOMAIN behind :
              ActivateChild(d, behind[d]) /\ behind' = Restrict(behind, DOMAIN behind \ {d})
        BY <2>2 DEF RemoveChild
      <3>1. Sound(State, bare)' /\ bare' \in BOOLEAN
        BY <1>0, <2>1, ActivatedSound
      <3>2. \A e \in DOMAIN behind' : behind'[e] \in BOOLEAN
        BY <1>0 DEF Restrict
      <3> QED BY <3>1, <3>2 DEF FrameInv
    <2>3. CASE c # front
      <3>1. frame' = State.frame /\ client' = State.client
            /\ behind' = Restrict(behind, DOMAIN behind \ {c})
        BY <2>3 DEF State, RemoveChild
      <3>2. Sound(State, bare)' /\ bare' \in BOOLEAN
        BY <1>0, <2>1, <3>1, BecomesSound
      <3>3. \A d \in DOMAIN behind' : behind'[d] \in BOOLEAN
        BY <1>0, <3>1 DEF Restrict
      <3> QED BY <3>2, <3>3 DEF FrameInv
    <2> QED BY <2>2, <2>3
  <1>13. CASE UNCHANGED frameVars
    BY <1>13 DEF frameVars, FrameInv, State, Sound, HasPart, States
  <1> QED BY <1>1, <1>2, <1>3, <1>4, <1>5, <1>6, <1>7, <1>8, <1>10, <1>11, <1>12, <1>13 DEF FrameNext

(* The invariant holds always.                                             *)
LEMMA AlwaysSound == FrameSpec => []FrameInv
  BY InitSound, NextSound, PTL DEF FrameSpec

(* What is published as shaded and maximized is what the frame is: the two *)
(* are set apart (Frame.cc, PDecor.cc) and for every order of requests and *)
(* tabs the same, but for a window that could not be shaded when it came.  *)
(* So are the layers, unless fullscreen raises the frame alone.            *)
THEOREM FlagsTogether == FrameSpec => []FlagsAgree
  <1>1. FrameInv => FlagsAgree
    BY DEF FrameInv, Sound, State, FlagsAgree
  <1> QED BY <1>1, AlwaysSound, PTL

(* A shaded frame has a titlebar or a border left, whatever is taken from  *)
(* it and whichever tab it shows (PDecor::setBorder and setTitlebar).      *)
THEOREM PartLeft == FrameSpec => []SomethingLeft
  <1>1. FrameInv => SomethingLeft
    BY DEF FrameInv, Sound, State, HasPart, SomethingLeft
  <1> QED BY <1>1, AlwaysSound, PTL

-----------------------------------------------------------------------------
(* The window in front fills its frame                                     *)

Fits(s) == s.client.height = ChildHeight(s.frame)

(* Whatever is resized fits.                                               *)
LEMMA ResizeFits ==
    ASSUME NEW s \in States, NEW h
    PROVE  Fits(Resize(s, h)) /\ Fits(ResizeChild(s, h))
  <1>1. ASSUME NEW g
        PROVE  Fits(Resize(s, g))
    <2> DEFINE f == IF s.frame.shaded
                    THEN [s.frame EXCEPT !.real = g, !.height = Bar(s.frame)]
                    ELSE [s.frame EXCEPT !.height = g]
               k == ChildHeight(f)
    <2>1. Resize(s, g) = [frame |-> f, client |-> [s.client EXCEPT !.height = k]]
      BY DEF Resize
    <2>2. k = ChildHeight(f)
      OBVIOUS
    <2> HIDE DEF f, k
    <2> QED BY <2>1, <2>2 DEF Fits, States, ClientStates
  <1> QED BY <1>1 DEF ResizeChild

(* Two frames with the same parts and the same real height have windows of *)
(* the same height.                                                        *)
LEMMA SameFits ==
    ASSUME NEW s, NEW t, Fits(s), t.client.height = s.client.height,
           t.frame.titlebar = s.frame.titlebar, t.frame.border = s.frame.border,
           RealHeight(t.frame) = RealHeight(s.frame)
    PROVE  Fits(t)
  BY DEF Fits, ChildHeight, DecorHeight, TitleHeight, BorderHeight

(* A decor that is loaded sizes the window, one that is not changes        *)
(* nothing.                                                                *)
LEMMA DecorFits ==
    ASSUME NEW s \in States, Fits(s), NEW sa
    PROVE  /\ Fits(SetDecor(s, DEFAULT))
           /\ Fits(SetBorder(s, sa)) /\ Fits(SetTitlebar(s, sa))
  <1>1. ASSUME NEW t \in States, NEW n \in BOOLEAN \X BOOLEAN
        PROVE  Fits(ResizeChild([t EXCEPT !.frame.name = n], t.client.height))
    <2>1. [t EXCEPT !.frame.name = n] \in States
      BY <1>1 DEF States, FrameStates
    <2> QED BY <2>1, ResizeFits
  <1>2. Fits(SetDecor(s, DEFAULT))
    BY <1>1 DEF SetDecor, DEFAULT
  <1>3. ASSUME NEW t \in States
        PROVE  Fits(UpdateDecor(t))
    <2>1. <<t.frame.border, t.frame.titlebar>> \in BOOLEAN \X BOOLEAN
      BY <1>3 DEF States, FrameStates
    <2> QED BY <1>1, <1>3, <2>1 DEF UpdateDecor
  <1>4. ASSUME NEW b \in BOOLEAN
        PROVE  [s EXCEPT !.frame.border = b] \in States
               /\ [s EXCEPT !.frame.titlebar = b] \in States
    BY <1>4 DEF States, FrameStates
  <1>5. Fits(SetBorder(s, sa))
    <2> DEFINE b == ~ s.frame.border \/ (s.frame.border /\ s.frame.shaded /\ ~ s.frame.titlebar)
    <2>1. SetBorder(s, sa) = IF ~ NeedToggle(sa, s.frame.border) THEN s
                             ELSE UpdateDecor([s EXCEPT !.frame.border = b])
      BY DEF SetBorder
    <2>2. b \in BOOLEAN
      OBVIOUS
    <2> HIDE DEF b
    <2> QED BY <1>3, <1>4, <2>1, <2>2
  <1>6. Fits(SetTitlebar(s, sa))
    <2> DEFINE b == ~ s.frame.titlebar \/ (s.frame.titlebar /\ s.frame.shaded /\ ~ s.frame.border)
    <2>1. SetTitlebar(s, sa) = IF ~ NeedToggle(sa, s.frame.titlebar) THEN s
                               ELSE UpdateDecor([s EXCEPT !.frame.titlebar = b])
      BY DEF SetTitlebar
    <2>2. b \in BOOLEAN
      OBVIOUS
    <2> HIDE DEF b
    <2> QED BY <1>3, <1>4, <2>1, <2>2
  <1> QED BY <1>2, <1>5, <1>6

(* The flags that are published with border and titlebar have no size.     *)
LEMMA StateDecorFits ==
    ASSUME NEW s \in States, Fits(s), NEW sa
    PROVE  Fits(SetStateDecorBorder(s, sa)) /\ Fits(SetStateDecorTitlebar(s, sa))
  <1> DEFINE t == SetBorder(s, sa)
             u == SetTitlebar(s, sa)
  <1>1. Fits(t) /\ Fits(u) /\ t \in States /\ u \in States
    BY DecorFits, SetBorderKeeps, SetTitlebarKeeps DEF Keeps
  <1>2. /\ SetStateDecorBorder(s, sa)
              = IF t.frame.border = s.frame.border THEN t
                ELSE [t EXCEPT !.client.border = t.frame.border]
        /\ SetStateDecorTitlebar(s, sa)
              = IF u.frame.titlebar = s.frame.titlebar THEN u
                ELSE [u EXCEPT !.client.titlebar = u.frame.titlebar]
    BY DEF SetStateDecorBorder, SetStateDecorTitlebar
  <1> HIDE DEF t, u
  <1> QED BY <1>1, <1>2 DEF Fits, States, ClientStates

(* The window of a shaded frame keeps its size: what counts is the height  *)
(* the frame will have again.                                              *)
LEMMA SetShadedFits ==
    ASSUME NEW s \in States, Fits(s), NEW sa
    PROVE  Fits(SetShaded(s, sa))
  <1> DEFINE f == s.frame
             g == Shade(f)
             cl == [s.client EXCEPT !.shaded = g.shaded]
             bar == Bar(f)
             zero == 0
             t == [frame |-> g, client |-> IF g.shaded = f.shaded THEN s.client ELSE cl]
  <1>1. SetShaded(s, sa) = IF ~ NeedToggle(sa, f.shaded) THEN s ELSE t
    BY DEF SetShaded
  <1>2. f \in FrameStates /\ s.client \in ClientStates
    BY DEF States
  <1>3. RealHeight(g) = RealHeight(f) /\ g.titlebar = f.titlebar /\ g.border = f.border
    <2>1. g = IF f.shaded THEN [f EXCEPT !.height = f.real, !.real = zero, !.shaded = FALSE]
              ELSE IF Shadeable(f)
                   THEN [f EXCEPT !.real = f.height, !.height = bar, !.shaded = TRUE]
                   ELSE f
      BY DEF Shade
    <2> HIDE DEF f, g, bar, zero
    <2>2. CASE f.shaded
      BY <1>2, <2>1, <2>2 DEF FrameStates, RealHeight
    <2>3. CASE ~ f.shaded /\ Shadeable(f)
      BY <1>2, <2>1, <2>3 DEF FrameStates, RealHeight
    <2>4. CASE ~ f.shaded /\ ~ Shadeable(f)
      BY <2>1, <2>4
    <2> QED BY <2>2, <2>3, <2>4
  <1>4. t.client.height = s.client.height /\ t.frame = g
    <2> HIDE DEF g
    <2> QED BY <1>2 DEF ClientStates
  <1> HIDE DEF g, t, cl
  <1>5. Fits(t)
    BY <1>3, <1>4, SameFits
  <1> QED BY <1>1, <1>5

(* Fullscreen and back, and maximized, end with a resize.                  *)
LEMMA FullscreenFits ==
    ASSUME NEW s \in States, Fits(s), NEW sa
    PROVE  Fits(SetStateFullscreen(s, sa))
  <1>1. Fits(Restore(s))
    <2> DEFINE t == RestoreBorder(s)
               u == RestoreTitlebar(t)
               o == u.frame.old
               v == [u EXCEPT !.frame.full = FALSE, !.client.full = FALSE,
                              !.frame.height = o,
                              !.frame.nfborder = FALSE, !.frame.nftitlebar = FALSE]
    <2>1. Restore(s) = Resize(v, o)
      BY DEF Restore, RestoreSize
    <2>2. t \in States
      BY SetBorderKeeps DEF RestoreBorder, Keeps
    <2> HIDE DEF t
    <2>3. u \in States
      BY <2>2, SetTitlebarKeeps DEF RestoreTitlebar, Keeps
    <2> HIDE DEF u
    <2>4. o \in Int
      BY <2>3 DEF States, FrameStates
    <2> HIDE DEF o
    <2>5. v \in States
      BY <2>3, <2>4, SizeKeeps DEF Keeps
    <2> HIDE DEF v
    <2> QED BY <2>1, <2>5, ResizeFits
  <1>2. Fits(Cover(s))
    <2> DEFINE t == Remember(s)
               u == SetBorder(t, "unset")
               v == SetTitlebar(u, "unset")
               w == [v EXCEPT !.frame.full = TRUE, !.client.full = TRUE, !.frame.height = HEAD]
    <2>1. Cover(s) = Resize(w, HEAD) /\ HEAD \in Int
      BY DEF Cover, CoverHead, HEAD
    <2>2. t \in States
      BY DEF Remember, States, FrameStates, ClientStates
    <2> HIDE DEF t
    <2>3. u \in States
      BY <2>2, SetBorderKeeps DEF Keeps
    <2> HIDE DEF u
    <2>4. v \in States
      BY <2>3, SetTitlebarKeeps DEF Keeps
    <2> HIDE DEF v
    <2>5. w \in States
      BY <2>1, <2>4 DEF States, FrameStates, ClientStates
    <2> HIDE DEF w
    <2> QED BY <2>1, <2>5, ResizeFits
  <1> DEFINE t == IF s.frame.full THEN Restore(s) ELSE Cover(s)
             l == IF t.frame.full THEN ABOVE_DOCK ELSE t.frame.nflayer
  <1>3. Fits(t) /\ t \in States
    BY <1>1, <1>2, RestoreKeeps, CoverKeeps DEF Keeps
  <1>4. SetStateFullscreen(s, sa) = IF ~ NeedToggle(sa, s.frame.full) THEN s ELSE Above(t)
    BY DEF SetStateFullscreen
  <1> HIDE DEF t
  <1>5. Above(t) = IF ~ config.above THEN t ELSE [t EXCEPT !.frame.layer = l]
    BY DEF Above
  <1> HIDE DEF l
  <1> DEFINE u == [t EXCEPT !.frame.layer = l]
  <1>6. /\ u.client = t.client /\ u.frame.titlebar = t.frame.titlebar
        /\ u.frame.border = t.frame.border /\ RealHeight(u.frame) = RealHeight(t.frame)
    BY <1>3 DEF States, FrameStates, RealHeight
  <1> HIDE DEF u
  <1>7. Fits(u)
    BY <1>3, <1>6, SameFits
  <1> QED BY <1>3, <1>4, <1>5, <1>7 DEF u

(* What is maximized is resized to fit the head.                           *)
LEMMA FitEdgeFits ==
    ASSUME NEW s \in States
    PROVE  Fits(FitEdge(s))
  <1> DEFINE h == IF s.frame.height > EDGE THEN EDGE ELSE s.frame.height
  <1>1. FitEdge(s) = Resize(s, h)
    BY DEF FitEdge
  <1> HIDE DEF h
  <1> QED BY <1>1, ResizeFits

(* So does a frame that was shaded or fullscreen before.                   *)
LEMMA MaximizedFits ==
    ASSUME NEW s, NEW b, Sound(s, b), NEW sa, NEW horz, NEW vert, NEW fill
    PROVE  Fits(SetStateMaximized(s, sa, horz, vert, fill))
  <1> DEFINE r == SetShaded(s, "unset")
             t == SetStateFullscreen(r, "unset")
             u == MaximizeEnded(t, sa, horz, vert, fill)
  <1>1. SetStateMaximized(s, sa, horz, vert, fill) = FitEdge(u)
    BY DEF SetStateMaximized, EndOthers
  <1>2. r \in States
    BY SetShadedSound DEF Sound
  <1> HIDE DEF r
  <1>3. t \in States
    BY <1>2, FullscreenKeeps DEF Keeps
  <1> HIDE DEF t
  <1>4. u \in States
    BY <1>3, EndedAgrees DEF SameParts
  <1> HIDE DEF u
  <1> QED BY <1>1, <1>4, FitEdgeFits

(* The frame of a new window is maximized as the window asks for.          *)
LEMMA OpensFits ==
    ASSUME NEW cl, NEW s, Opens(cl, s), Fits(s)
    PROVE  Fits(MatchMaxHorz(s)) /\ Fits(MatchMaxVert(s))
  <1> DEFINE u == MaximizeEnded(s, "toggle", TRUE, FALSE, FALSE)
             v == MaximizeEnded(s, "toggle", FALSE, TRUE, FALSE)
  <1>1. u \in States /\ v \in States
    BY EndedAgrees DEF Opens, SameParts
  <1>2. /\ MatchMaxHorz(s) = IF s.frame.maxh = s.client.maxh THEN s ELSE FitEdge(u)
        /\ MatchMaxVert(s) = IF s.frame.maxv = s.client.maxv THEN s ELSE FitEdge(v)
    BY OpensMaximized DEF MatchMaxHorz, MatchMaxVert
  <1> HIDE DEF u, v
  <1> QED BY <1>1, <1>2, FitEdgeFits

(* And so do the other states it asks for.                                 *)
LEMMA RestFits ==
    ASSUME NEW s \in States, Fits(s)
    PROVE  /\ Fits(MatchShaded(s)) /\ Fits(MatchLayer(s)) /\ Fits(MatchBorder(s))
           /\ Fits(MatchTitlebar(s)) /\ Fits(MatchFullscreen(s)) /\ Fits(FixGeometry(s))
  <1>1. Fits(MatchShaded(s))
    BY SetShadedFits DEF MatchShaded
  <1>2. Fits(MatchLayer(s))
    <2> DEFINE t == MatchLayer(s)
    <2>1. /\ t.client = s.client /\ t.frame.titlebar = s.frame.titlebar
          /\ t.frame.border = s.frame.border /\ RealHeight(t.frame) = RealHeight(s.frame)
      BY DEF MatchLayer, States, FrameStates, RealHeight
    <2> HIDE DEF t
    <2>2. Fits(t)
      BY <2>1, SameFits
    <2> QED BY <2>2 DEF t
  <1>3. Fits(MatchBorder(s)) /\ Fits(MatchTitlebar(s))
    BY DecorFits DEF MatchBorder, MatchTitlebar
  <1>4. Fits(MatchFullscreen(s))
    BY FullscreenFits DEF MatchFullscreen
  <1>5. Fits(FixGeometry(s))
    <2>1. EDGE \in Int
      BY DEF EDGE
    <2>2. [s EXCEPT !.frame.height = EDGE] \in States
      BY <2>1 DEF States, FrameStates
    <2> QED BY <2>2, ResizeFits DEF FixGeometry
  <1> QED BY <1>1, <1>2, <1>3, <1>4, <1>5

(* A frame is made as high as its window and its parts together.           *)
LEMMA NewFrameFits ==
    ASSUME NEW cl \in ClientStates, cl.height > 0
    PROVE  Fits(NewFrame(cl))
  <1> DEFINE b == cl.shaded /\ ~ Shadeable(cl)
             h == cl.height + DecorHeight(cl)
             n == <<cl.border, cl.titlebar>>
             f == [border |-> cl.border, titlebar |-> cl.titlebar, shaded |-> FALSE,
                   full |-> FALSE, maxh |-> FALSE, maxv |-> FALSE, layer |-> cl.layer,
                   name |-> n, height |-> h, real |-> 0,
                   old |-> h, nfborder |-> FALSE, nftitlebar |-> FALSE, nflayer |-> cl.layer]
             s == [frame |-> f, client |-> cl]
             t == SetDecor(s, DEFAULT)
             u == MatchMaxHorz(t)
             v == MatchMaxVert(u)
             w == MatchShaded(v)
             x1 == MatchLayer(w)
             x2 == MatchBorder(x1)
             x3 == MatchTitlebar(x2)
             x4 == MatchFullscreen(x3)
  <1>1. NewFrame(cl) = FixGeometry(x4)
    BY DEF NewFrame, GetState
  <1>2. h \in Int /\ h > DecorHeight(cl) /\ h - DecorHeight(cl) = cl.height
    BY DEF DecorHeight, TitleHeight, BorderHeight, TITLE, BORDER, ClientStates
  <1>3. n \in BOOLEAN \X BOOLEAN
    BY DEF ClientStates
  <1> HIDE DEF h, n
  <1>4. f \in FrameStates /\ ~ f.shaded /\ ~ f.full /\ f.border = cl.border
        /\ f.titlebar = cl.titlebar /\ f.height = h /\ f.layer = cl.layer
    BY <1>2, <1>3 DEF FrameStates, ClientStates
  <1> HIDE DEF f
  <1>5. Opens(cl, s)
    BY <1>4 DEF Opens, States
  <1>6. RealHeight(f) = h /\ DecorHeight(f) = DecorHeight(cl) /\ DecorHeight(cl) \in Int
    BY <1>4 DEF RealHeight, DecorHeight, TitleHeight, BorderHeight, TITLE, BORDER
  <1>7. ChildHeight(f) = cl.height
    BY <1>2, <1>6 DEF ChildHeight
  <1>8. Fits(s)
    BY <1>7 DEF Fits
  <1> HIDE DEF s
  <1>9. Opens(cl, t) /\ Fits(t)
    BY <1>5, <1>8, SetDecorOpens, DecorFits DEF Opens
  <1> HIDE DEF t
  <1>10. Opens(cl, u) /\ u.client.maxh = u.frame.maxh /\ Fits(u)
    BY <1>9, OpensHorz, OpensFits
  <1> HIDE DEF u
  <1>11. Opens(cl, v) /\ v.client.maxh = v.frame.maxh /\ v.client.maxv = v.frame.maxv /\ Fits(v)
    BY <1>10, OpensVert, OpensFits
  <1> HIDE DEF v
  <1>12. w \in States /\ Fits(w)
    BY <1>11, OpensShaded, RestFits DEF Opens, Sound
  <1> HIDE DEF w
  <1>13. x1 \in States /\ Fits(x1)
    BY <1>12, RestKeeps, RestFits DEF Keeps
  <1> HIDE DEF x1
  <1>14. x2 \in States /\ Fits(x2)
    BY <1>13, RestKeeps, RestFits DEF Keeps
  <1> HIDE DEF x2
  <1>15. x3 \in States /\ Fits(x3)
    BY <1>14, RestKeeps, RestFits DEF Keeps
  <1> HIDE DEF x3
  <1>16. x4 \in States /\ Fits(x4)
    BY <1>15, RestKeeps, RestFits DEF Keeps
  <1> HIDE DEF x4
  <1> QED BY <1>1, <1>16, RestFits

(* The tab put in front is sized for its frame.                            *)
LEMMA ActivatedFits ==
    ASSUME FrameInv, NEW c, NEW full \in BOOLEAN, ActivateChild(c, full)
    PROVE  Fits(State)'
  <1> DEFINE k == ChildHeight(frame)
             cl == [maxh |-> frame.maxh, maxv |-> frame.maxv, shaded |-> frame.shaded,
                    layer |-> frame.layer, border |-> frame.border,
                    titlebar |-> frame.titlebar, full |-> full, height |-> k]
             s == [frame |-> frame, client |-> cl]
             t == SetDecor(s, DEFAULT)
  <1>1. frame \in FrameStates
    BY DEF FrameInv, Sound, State, States
  <1>2. k \in Int
    BY <1>1, Heights
  <1>3. frame' = t.frame /\ client' = t.client
    BY DEF ActivateChild, ApplyState
  <1>4. s.client.height = ChildHeight(s.frame)
    OBVIOUS
  <1> HIDE DEF k
  <1>5. cl \in ClientStates
    BY <1>1, <1>2 DEF FrameStates, ClientStates
  <1> HIDE DEF cl
  <1>6. s \in States
    BY <1>1, <1>5 DEF States
  <1> HIDE DEF s
  <1>7. Fits(t)
    BY <1>4, <1>6, DecorFits DEF Fits
  <1> HIDE DEF t
  <1> QED BY <1>3, <1>7 DEF Fits, State, ChildHeight, DecorHeight, TitleHeight, BorderHeight, RealHeight

(* A layer that is set.                                                    *)
InLayer(s, l) == [s EXCEPT !.frame.layer = l, !.client.layer = l]

(* Layers have no size.                                                    *)
LEMMA LayerFits ==
    ASSUME NEW s \in States, Fits(s), NEW sa
    PROVE  Fits(SetStateAlwaysOnTop(s, sa)) /\ Fits(SetStateAlwaysBelow(s, sa))
  <1>1. ASSUME NEW l \in Int
        PROVE  Fits(InLayer(s, l))
    <2>1. /\ InLayer(s, l).client.height = s.client.height
          /\ InLayer(s, l).frame.titlebar = s.frame.titlebar
          /\ InLayer(s, l).frame.border = s.frame.border
          /\ RealHeight(InLayer(s, l).frame) = RealHeight(s.frame)
      BY DEF InLayer, States, FrameStates, ClientStates, RealHeight
    <2> QED BY <2>1, SameFits
  <1> DEFINE l == IF s.frame.layer < ONTOP THEN ONTOP ELSE NORMAL
             m == IF s.frame.layer > BELOW THEN BELOW ELSE NORMAL
  <1>2. l \in Int /\ m \in Int
    BY DEF ONTOP, NORMAL, BELOW
  <1>3. /\ SetStateAlwaysOnTop(s, sa)
           = IF ~ NeedToggle(sa, s.frame.layer = ONTOP) THEN s ELSE InLayer(s, l)
        /\ SetStateAlwaysBelow(s, sa)
           = IF ~ NeedToggle(sa, s.frame.layer = BELOW) THEN s ELSE InLayer(s, m)
    BY DEF SetStateAlwaysOnTop, SetStateAlwaysBelow, InLayer
  <1> HIDE DEF l, m
  <1> QED BY <1>1, <1>2, <1>3

(* Every request and every change of tabs leaves it so.                    *)
LEMMA NextFits == FrameInv /\ Fits(State) /\ [FrameNext]_frameVars => Fits(State)'
  <1> SUFFICES ASSUME FrameInv, Fits(State), [FrameNext]_frameVars PROVE Fits(State)'
    OBVIOUS
  <1>0. State \in States /\ Sound(State, bare) /\ client.full \in BOOLEAN
        /\ \A c \in DOMAIN behind : behind[c] \in BOOLEAN
    BY DEF FrameInv, Sound, State, States, ClientStates
  <1>a. ASSUME NEW s, frame' = s.frame, client' = s.client, Fits(s)
        PROVE  Fits(State)'
    BY <1>a DEF Fits, State, ChildHeight, DecorHeight, TitleHeight, BorderHeight, RealHeight
  <1>b. ASSUME NEW s, Becomes(s), Fits(s)
        PROVE  Fits(State)'
    BY <1>a, <1>b DEF Becomes
  <1>c. frame = State.frame /\ client = State.client
    BY DEF State
  <1>d. UNCHANGED <<frame, client>> => Fits(State)'
    BY <1>a, <1>c
  <1>1. CASE \E sa \in Actions : Fullscreen(sa)
    BY <1>0, <1>1, <1>b, FullscreenFits DEF Fullscreen
  <1>2. CASE \E sa \in Actions : ToggleShade(sa)
    BY <1>0, <1>2, <1>b, SetShadedFits DEF ToggleShade
  <1>3. CASE \E sa \in Actions : Border(sa) \/ Titlebar(sa)
    BY <1>0, <1>3, <1>b, StateDecorFits DEF Border, Titlebar
  <1>4. CASE \E sa \in Actions : OnTop(sa) \/ Below(sa)
    BY <1>0, <1>4, <1>b, LayerFits DEF OnTop, Below
  <1>5. CASE \E sa \in Actions : \E horz, vert \in BOOLEAN : Maximize(sa, horz, vert)
    BY <1>0, <1>5, <1>b, MaximizedFits DEF Maximize
  <1>6. CASE \E horz, vert \in BOOLEAN : MaxFill(horz, vert)
    BY <1>0, <1>6, <1>b, MaximizedFits DEF MaxFill
  <1>7. CASE \E h \in Requests : Configure(h)
    <2> PICK h \in Requests : Configure(h)
      BY <1>7
    <2>1. h \in Int
      BY FrameAssumption
    <2> DEFINE s == ResizeChild(State, h)
    <2>2. s \in States /\ Fits(s)
      BY <1>0, <2>1, ResizeFits, ResizeChildKeeps DEF Keeps
    <2>3. Configure(h) => \/ Becomes(State) \/ Becomes(SetStateFullscreen(State, "set"))
                          \/ Becomes(s) \/ Becomes(SetStateFullscreen(s, "unset"))
      BY DEF Configure
    <2> HIDE DEF s
    <2> QED BY <1>0, <1>b, <2>2, <2>3, FullscreenFits
  <1>8. CASE ActivateAgain
    <2> DEFINE k == ChildHeight(frame)
               s == [State EXCEPT !.client.height = k]
               t == SetDecor(s, DEFAULT)
    <2>1. k \in Int
      BY <1>0, Heights DEF State, States
    <2>2. Becomes(t)
      BY <1>8 DEF ActivateAgain, Becomes
    <2>3. s \in States
      <3> HIDE DEF k
      <3> QED BY <1>0, <2>1 DEF States, ClientStates
    <2>4. Fits(s)
      BY <1>0, <1>c DEF Fits, States, ClientStates
    <2> HIDE DEF s
    <2>5. Fits(t)
      BY <2>3, <2>4, DecorFits
    <2> HIDE DEF t
    <2> QED BY <1>b, <2>2, <2>5
  <1>9. CASE \E c \in Children : Activate(c)
    BY <1>0, <1>9, ActivatedFits DEF Activate
  <1>10. CASE \E c \in Children : Join(c)
    BY <1>10, <1>d, Arrived, ActivatedFits DEF Join
  <1>11. CASE \E c \in Children : RemoveChild(c)
    BY <1>0, <1>11, <1>d, ActivatedFits DEF RemoveChild
  <1>12. CASE UNCHANGED frameVars
    BY <1>12, <1>d DEF frameVars
  <1> QED BY <1>1, <1>2, <1>3, <1>4, <1>5, <1>6, <1>7, <1>8, <1>9, <1>10, <1>11, <1>12 DEF FrameNext

(* The window in front fills its frame, whatever states were set and unset *)
(* in which order and whichever tab is shown: every way through Frame.cc   *)
(* and PDecor.cc ends with the size of the child set to that of its frame. *)
THEOREM WindowFits == FrameSpec => []ChildFits
  <1>1. FrameInit => Fits(State)
    <2> SUFFICES ASSUME FrameInit PROVE Fits(State)
      OBVIOUS
    <2> PICK cl \in Arriving : frame = NewFrame(cl).frame /\ client = NewFrame(cl).client
      BY DEF FrameInit
    <2>1. Fits(NewFrame(cl))
      BY Arrived, NewFrameFits
    <2> QED BY <2>1 DEF Fits, State
  <1>2. Fits(State) => ChildFits
    BY DEF Fits, State, ChildFits
  <1> QED BY <1>1, <1>2, NextFits, AlwaysSound, PTL DEF FrameSpec
=============================================================================

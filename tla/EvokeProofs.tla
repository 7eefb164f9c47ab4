------------------------------ MODULE EvokeProofs ------------------------------
(***************************************************************************)
(* What is proved of evoke.  Its startup: for any processes and items, the *)
(* items are started in order, each once, and the lock file guards the     *)
(* process that runs.  Its end: evoke acts on a shutdown request only as   *)
(* it was answered, for any number of requests, of programs and of events  *)
(* that wait.                                                              *)
(***************************************************************************)
EXTENDS EvokeStartup, EvokeSession, FiniteSetTheorems, SequenceTheorems, TLAPS

----------------------------------------------------------------------------
(* The startup.                                                            *)

Early == {"new", "reading", "starting", "splash"}

(* All a process can start.                                                *)
Startable == {FoundNames[i] : i \in Nat}

Types ==
    /\ at \in [Procs -> Places]
    /\ mode \in [Procs -> Modes]
    /\ items \in [Procs -> {<<>>, FoundNames}]
    /\ counter \in [Procs -> Nat]
    /\ timer \in [Procs -> BOOLEAN]
    /\ log \in [Procs -> Seq(Startable)]

(* What a process has started is counted while it can start more; before,  *)
(* it has started nothing and its timer is not scheduled.                  *)
Counted(p) ==
    /\ at[p] \in {"new", "reading"} => log[p] = <<>> /\ counter[p] = 0
    /\ at[p] \in {"new", "reading", "starting"} => ~timer[p]
    /\ at[p] \in {"starting", "splash"} => items[p] = FoundNames
    /\ at[p] = "starting" \/ (at[p] = "splash" /\ timer[p]) =>
         /\ counter[p] <= Len(FoundNames)
         /\ Len(log[p]) = IF mode[p].dryrun THEN 0 ELSE counter[p]

StartInv == Types /\ \A p \in Procs : Counted(p)

Over == [p \in Procs |-> at[p] \notin Early]

(* The list of items has a length.                                         *)
LEMMA FoundLength == Len(FoundNames) \in Nat
  BY StartupAssumption DEF FoundNames

(* One more item, for the plain loop and the timer alike.                  *)
LEMMA NextClientFacts ==
  ASSUME Types, NEW p \in Procs, items[p] = FoundNames, NextClient(p)
  PROVE  /\ counter' \in [Procs -> Nat] /\ log' \in [Procs -> Seq(Startable)]
         /\ counter'[p] = counter[p] + 1
         /\ log'[p] = IF mode[p].dryrun THEN log[p]
                      ELSE Append(log[p], FoundNames[counter[p] + 1])
         /\ Len(log'[p]) = IF mode[p].dryrun THEN Len(log[p]) ELSE Len(log[p]) + 1
         /\ \A q \in Procs \ {p} : log'[q] = log[q] /\ counter'[q] = counter[q]
<1>1. counter[p] + 1 \in Nat /\ FoundNames[counter[p] + 1] \in Startable
  BY DEF Types, Startable
<1>2. CASE mode[p].dryrun
  BY <1>1, <1>2 DEF NextClient, Types
<1>3. CASE ~mode[p].dryrun
  BY <1>1, <1>3 DEF NextClient, Types
<1> QED
  BY <1>2, <1>3

(* A step of p leaves the other processes' bookkeeping alone.              *)
LEMMA OthersCounted ==
  ASSUME NEW p \in Procs, \A q \in Procs : Counted(q), Counted(p)',
         \A q \in Procs \ {p} :
           /\ at'[q] = at[q] /\ mode'[q] = mode[q] /\ items'[q] = items[q]
           /\ counter'[q] = counter[q] /\ timer'[q] = timer[q] /\ log'[q] = log[q]
  PROVE  \A q \in Procs : Counted(q)'
  BY DEF Counted

(* StartInv is inductive.                                                  *)
LEMMA StartStep == StartInv /\ [Next]_vars => StartInv'
<1> SUFFICES ASSUME StartInv, [Next]_vars PROVE StartInv'
  OBVIOUS
<1>a. Types /\ (\A q \in Procs : Counted(q)) /\ Len(FoundNames) \in Nat /\ Len(<<>>) = 0
  BY FoundLength DEF StartInv
<1> USE <1>a DEF splash, locks, Places, Goto
<1>1. ASSUME NEW p \in Procs, Begin(p) PROVE StartInv'
  <2>1. Types' /\ Counted(p)'
    BY <1>1 DEF Begin, Types, Counted, AfterStartup
  <2> QED
    BY <1>1, <2>1, OthersCounted DEF Begin, Types, StartInv
<1>2. ASSUME NEW p \in Procs, Read(p) PROVE StartInv'
  <2>1. Types' /\ Counted(p)'
    BY <1>2 DEF Read, Types, Counted
  <2> QED
    BY <1>2, <2>1, OthersCounted DEF Read, Types, StartInv
<1>3. ASSUME NEW p \in Procs, StartPlain(p) PROVE StartInv'
  <2>1. items[p] = FoundNames /\ NextClient(p) /\ counter[p] < Len(FoundNames)
    BY <1>3 DEF StartPlain, Counted, NoMore, Types
  <2>2. Types'
    BY <1>3, <2>1, NextClientFacts DEF StartPlain, Types
  <2>3. Counted(p)'
    BY <1>3, <2>1, NextClientFacts DEF StartPlain, Types, Counted
  <2> QED
    BY <1>3, <2>1, <2>2, <2>3, NextClientFacts, OthersCounted DEF StartPlain, StartInv
<1>4. ASSUME NEW p \in Procs, Runner(p) PROVE StartInv'
  <2>1. CASE NoMore(p)
    <3>1. /\ timer' = [timer EXCEPT ![p] = FALSE]
          /\ counter' = [counter EXCEPT ![p] = 0]
          /\ UNCHANGED <<at, mode, items, log>> /\ at[p] = "splash"
      BY <1>4, <2>1 DEF Runner
    <3>2. Types'
      BY <3>1 DEF Types
    <3>3. Counted(p)'
      BY <3>1 DEF Types, Counted
    <3> QED
      BY <3>1, <3>2, <3>3, OthersCounted DEF Types, StartInv
  <2>2. CASE ~NoMore(p)
    <3>1. items[p] = FoundNames /\ NextClient(p) /\ counter[p] < Len(FoundNames)
      BY <1>4, <2>2 DEF Runner, Counted, NoMore, Types
    <3>2. Types'
      BY <1>4, <2>2, <3>1, NextClientFacts DEF Runner, Types
    <3>3. Counted(p)'
      BY <1>4, <2>2, <3>1, NextClientFacts DEF Runner, Types, Counted
    <3> QED
      BY <1>4, <2>2, <3>1, <3>2, <3>3, NextClientFacts, OthersCounted DEF Runner, StartInv
  <2> QED
    BY <2>1, <2>2
<1>5. ASSUME NEW p \in Procs, EndStartup(p), UNCHANGED <<mode, log>>,
             timer' \in [Procs -> BOOLEAN],
             \A q \in Procs \ {p} : timer'[q] = timer[q]
      PROVE  StartInv'
  <2>1. Types' /\ Counted(p)'
    BY <1>5 DEF EndStartup, Types, Counted, AfterStartup
  <2> QED
    BY <1>5, <2>1, OthersCounted DEF EndStartup, Types, StartInv
<1>6. ASSUME NEW p \in Procs, EndPlain(p) \/ NoTheme(p) PROVE StartInv'
  BY <1>5, <1>6 DEF EndPlain, NoTheme, Types
<1>7. ASSUME NEW p \in Procs, OpenSplash(p) PROVE StartInv'
  <2>1. Types' /\ Counted(p)'
    BY <1>7 DEF OpenSplash, Types, Counted
  <2> QED
    BY <1>7, <2>1, OthersCounted DEF OpenSplash, Types, StartInv
<1>8. ASSUME NEW p \in Procs, SplashReturns(p) PROVE StartInv'
  BY <1>5, <1>8 DEF SplashReturns, Types
<1>9. ASSUME NEW p \in Procs, NEW place \in Places \ Early, Goto(p, place),
             UNCHANGED <<mode, items, counter, log>>,
             timer' \in [Procs -> BOOLEAN],
             \A q \in Procs \ {p} : timer'[q] = timer[q]
      PROVE  StartInv'
  <2>1. Types' /\ Counted(p)'
    BY <1>9 DEF Types, Counted, Early
  <2> QED
    BY <1>9, <2>1, OthersCounted DEF Types, StartInv
<1>10. ASSUME NEW p \in Procs,
              TestLock(p) \/ CreateLock(p) \/ RemoveLock(p) \/ Leave(p) \/ Crash(p)
       PROVE  StartInv'
  <2>1. \E place \in Places \ Early : Goto(p, place)
    BY <1>10 DEF TestLock, CreateLock, RemoveLock, Leave, Crash, Early
  <2>2. /\ UNCHANGED <<mode, items, counter, log>>
        /\ timer' \in [Procs -> BOOLEAN]
        /\ \A q \in Procs \ {p} : timer'[q] = timer[q]
    BY <1>10 DEF TestLock, CreateLock, RemoveLock, Leave, Crash, Types
  <2> QED
    BY <1>9, <2>1, <2>2
<1>11. ASSUME UNCHANGED <<at, mode, items, counter, timer, log>> PROVE StartInv'
  BY <1>11 DEF StartInv, Types, Counted
<1>12. ASSUME NEW p \in Procs, CloseSplash(p) PROVE StartInv'
  BY <1>11, <1>12 DEF CloseSplash
<1>13. CASE RemoveStaleLock \/ UNCHANGED vars
  BY <1>11, <1>13 DEF RemoveStaleLock, vars
<1> QED
  BY <1>1, <1>2, <1>3, <1>4, <1>6, <1>7, <1>8, <1>10, <1>12, <1>13 DEF Next, Step

(* So it holds in every reachable state.                                   *)
LEMMA StartInvariant == Spec => []StartInv
<1>1. Init => StartInv
  BY FoundLength DEF Init, StartInv, Types, Counted, Places, Modes
<1> QED
  BY <1>1, StartStep, PTL DEF Spec

(* Every step of the processes is a step of StartupOrder, or none of its   *)
(* business: the plain loop and the timer of the splash start the items in *)
(* their order, each once.                                                 *)
THEOREM Refinement == Spec => StartsInOrder
<1>1. Init => Promise!Init
  BY DEF Init, Promise!Init
<1>2. StartInv /\ [Next]_vars => [Promise!Next]_<<log, Over>>
  <2> SUFFICES ASSUME StartInv, [Next]_vars
               PROVE  Promise!Next \/ UNCHANGED <<log, Over>>
    OBVIOUS
  <2>a. Types /\ (\A q \in Procs : Counted(q)) /\ Len(FoundNames) \in Nat
    BY FoundLength DEF StartInv
  <2>1. ASSUME NEW p \in Procs, NEW place \in Places \ Early, Goto(p, place), UNCHANGED log
        PROVE  Promise!Next
    <3>1. Over' = [Over EXCEPT ![p] = TRUE]
      BY <2>a, <2>1 DEF Over, Goto, Types
    <3> QED
      BY <2>1, <3>1 DEF Promise!Next, Promise!GiveUp, Over, Early
  <2>2. ASSUME NEW p \in Procs, NEW place \in Early, at[p] \in Early, Goto(p, place), UNCHANGED log
        PROVE  UNCHANGED <<log, Over>>
    BY <2>a, <2>2 DEF Over, Goto, Types
  <2>3. ASSUME NEW p \in Procs, items[p] = FoundNames, NextClient(p), UNCHANGED at, ~NoMore(p),
               at[p] = "starting" \/ (at[p] = "splash" /\ timer[p])
        PROVE  Promise!Next \/ UNCHANGED <<log, Over>>
    <3>1. UNCHANGED Over
      BY <2>3 DEF Over
    <3>2. CASE mode[p].dryrun
      BY <2>3, <3>1, <3>2 DEF NextClient
    <3>3. CASE ~mode[p].dryrun
      <4>1. counter[p] = Len(log[p]) /\ Len(log[p]) < Len(FoundNames)
        BY <2>a, <2>3, <3>3 DEF Counted, NoMore, Types
      <4>2. log' = [log EXCEPT ![p] = Append(@, FoundNames[Len(@) + 1])]
        BY <2>3, <3>3, <4>1 DEF NextClient
      <4>3. ~Over[p]
        BY <2>3 DEF Over, Early
      <4> QED
        BY <3>1, <4>1, <4>2, <4>3 DEF Promise!Next, Promise!StartItem, Over, Early
    <3> QED
      BY <3>2, <3>3
  <2>4. ASSUME NEW p \in Procs, EndStartup(p), UNCHANGED log
        PROVE  Promise!Next
    BY <2>1, <2>4 DEF EndStartup, AfterStartup, Places, Early
  <2>5. ASSUME NEW p \in Procs, Step(p) \/ CloseSplash(p) \/ Leave(p) \/ Crash(p)
        PROVE  Promise!Next \/ UNCHANGED <<log, Over>>
    <3>1. CASE Begin(p)
      <4>1. CASE mode[p].startup
        BY <2>2, <3>1, <4>1 DEF Begin, Early
      <4>2. CASE ~mode[p].startup
        BY <2>1, <3>1, <4>2 DEF Begin, AfterStartup, Places, Early
      <4> QED
        BY <4>1, <4>2
    <3>2. CASE Read(p) \/ OpenSplash(p)
      BY <2>2, <3>2 DEF Read, OpenSplash, Early
    <3>3. CASE StartPlain(p)
      BY <2>a, <2>3, <3>3 DEF StartPlain, Counted
    <3>4. CASE Runner(p)
      <4>1. CASE NoMore(p)
        BY <3>4, <4>1 DEF Runner, Over
      <4>2. CASE ~NoMore(p)
        BY <2>a, <2>3, <3>4, <4>2 DEF Runner, Counted
      <4> QED
        BY <4>1, <4>2
    <3>5. CASE EndPlain(p) \/ NoTheme(p) \/ SplashReturns(p)
      BY <2>4, <3>5 DEF EndPlain, NoTheme, SplashReturns
    <3>6. CASE TestLock(p) \/ CreateLock(p) \/ RemoveLock(p) \/ Leave(p) \/ Crash(p)
      <4>1. \E place \in Places \ Early : Goto(p, place)
        BY <3>6 DEF TestLock, CreateLock, RemoveLock, Leave, Crash, Places, Early
      <4>2. UNCHANGED log
        BY <3>6 DEF TestLock, CreateLock, RemoveLock, Leave, Crash
      <4> QED
        BY <2>1, <4>1, <4>2
    <3>7. CASE CloseSplash(p)
      BY <3>7 DEF CloseSplash, Over
    <3> QED
      BY <2>5, <3>1, <3>2, <3>3, <3>4, <3>5, <3>6, <3>7 DEF Step
  <2>6. CASE RemoveStaleLock \/ UNCHANGED vars
    BY <2>6 DEF RemoveStaleLock, vars, Over
  <2> QED
    BY <2>5, <2>6 DEF Next
<1>3. Over = [p \in Procs |-> at[p] \notin {"new", "reading", "starting", "splash"}]
  BY DEF Over, Early
<1> QED
  BY <1>1, <1>2, StartInvariant, PTL DEF Spec, StartsInOrder, Promise!Spec, Over, Early

-----------------------------------------------------------------------------

(* A process runs, or is about to end, with the lock in hand; one holds it *)
(* at most; and one that is about to create the file is alone, and the     *)
(* file is not there.                                                      *)
LockInv ==
    /\ at \in [Procs -> Places] /\ lockfile \in BOOLEAN /\ holds \subseteq Procs
    /\ \A p \in Procs : at[p] \in {"running", "leaving"} <=> p \in holds
    /\ holds # {} => lockfile
    /\ \A p, q \in holds : p = q
    /\ \A p, q \in Procs : at[p] = "creating" /\ at[q] = "creating" => p = q
    /\ \A p \in Procs : at[p] = "creating" => ~lockfile

(* LockInv is inductive where processes do not race for the lock.          *)
LEMMA LockStep ==
  ASSUME "race" \notin Disturb, LockInv, [Next]_vars
  PROVE  LockInv'
<1> USE DEF LockInv, Goto, locks, Places
<1>1. ASSUME NEW p \in Procs, NEW place \in Places \ {"running", "leaving", "creating"},
             at[p] \notin {"running", "leaving"}, Goto(p, place), UNCHANGED locks
      PROVE  LockInv'
  BY <1>1
<1>2. ASSUME UNCHANGED <<at, locks>> PROVE LockInv'
  BY <1>2
<1>3. ASSUME NEW p \in Procs, Begin(p) \/ Read(p) \/ EndPlain(p) \/ NoTheme(p)
                               \/ OpenSplash(p) \/ SplashReturns(p)
      PROVE  LockInv'
  BY <1>1, <1>3 DEF Begin, Read, EndPlain, NoTheme, OpenSplash, SplashReturns, EndStartup, AfterStartup
<1>4. ASSUME NEW p \in Procs, StartPlain(p) \/ Runner(p) \/ CloseSplash(p)
      PROVE  LockInv'
  BY <1>2, <1>4 DEF StartPlain, Runner, CloseSplash
<1>5. ASSUME NEW p \in Procs, TestLock(p) PROVE LockInv'
  <2>1. CASE lockfile
    BY <1>1, <1>5, <2>1 DEF TestLock
  <2>2. CASE ~lockfile
    <3>1. at' = [at EXCEPT ![p] = "creating"] /\ UNCHANGED locks /\ at[p] = "locking"
      BY <1>5, <2>2 DEF TestLock
    <3>2. \A q \in Procs : at[q] # "creating"
      BY <1>5 DEF TestLock
    <3> QED
      BY <2>2, <3>1, <3>2
  <2> QED
    BY <2>1, <2>2
<1>6. ASSUME NEW p \in Procs, CreateLock(p) PROVE LockInv'
  <2>1. at[p] = "creating" /\ at' = [at EXCEPT ![p] = "running"]
        /\ lockfile' = TRUE /\ holds' = holds \cup {p}
    BY <1>6 DEF CreateLock
  <2>2. ~lockfile /\ holds = {}
    BY <2>1
  <2>3. \A q \in Procs \ {p} : at[q] # "creating"
    BY <2>1
  <2> QED
    BY <2>1, <2>2, <2>3
<1>7. ASSUME NEW p \in Procs, Leave(p) PROVE LockInv'
  BY <1>7 DEF Leave
<1>8. ASSUME NEW p \in Procs, RemoveLock(p) PROVE LockInv'
  <2>1. /\ at[p] \in {"leaving", "over"} /\ at' = [at EXCEPT ![p] = "dead"]
        /\ holds' = holds \ {p}
    BY <1>8 DEF RemoveLock
  <2>2. CASE p \in holds
    <3>1. lockfile' = FALSE /\ holds' = {}
      BY <1>8, <2>1, <2>2 DEF RemoveLock
    <3> QED
      BY <2>1, <2>2, <3>1
  <2>3. CASE p \notin holds
    <3>1. lockfile' = lockfile /\ holds' = holds
      BY <1>8, <2>1, <2>3 DEF RemoveLock
    <3> QED
      BY <2>1, <2>3, <3>1
  <2> QED
    BY <2>2, <2>3
<1>9. ASSUME NEW p \in Procs, Crash(p) PROVE LockInv'
  <2>1. /\ at' = [at EXCEPT ![p] = "dead"] /\ holds' = holds \ {p}
        /\ lockfile' = lockfile
    BY <1>9 DEF Crash
  <2> QED
    BY <2>1
<1>10. CASE RemoveStaleLock
  BY <1>10 DEF RemoveStaleLock
<1>11. CASE UNCHANGED vars
  BY <1>2, <1>11 DEF vars
<1> QED
  BY <1>3, <1>4, <1>5, <1>6, <1>7, <1>8, <1>9, <1>10, <1>11 DEF Next, Step

(* Where the lock file is tested and created by one process at a time, one *)
(* process runs at most, under the lock file (setup_lock, remove_lock).    *)
THEOREM LockGuards ==
  ASSUME "race" \notin Disturb
  PROVE  Spec => []LockGuardsRunning
<1>1. Init => LockInv
  BY DEF Init, LockInv, Places
<1>2. LockInv /\ [Next]_vars => LockInv'
  BY LockStep
<1>3. LockInv => LockGuardsRunning
  <2> SUFFICES ASSUME LockInv PROVE LockGuardsRunning
    OBVIOUS
  <2> DEFINE R == {p \in Procs : at[p] = "running"}
  <2>1. Cardinality(R) <= 1
    <3>1. CASE R = {}
      BY <3>1, FS_EmptySet
    <3>2. CASE R # {}
      <4>1. PICK p \in R : TRUE
        BY <3>2
      <4>2. R = {p}
        BY <4>1 DEF LockInv
      <4> QED
        BY <4>2, FS_Singleton
    <3> QED
      BY <3>1, <3>2
  <2> QED
    BY <2>1 DEF LockInv, LockGuardsRunning
<1> QED
  BY <1>1, <1>2, <1>3, PTL DEF Spec

----------------------------------------------------------------------------
(* The end of the session.                                                 *)

Frame == [at : Activities, ret : Options \cup {"none"}]

SessionTypes ==
    /\ frames \in Seq(Frame)
    /\ made \in Nat /\ win \in Nat
    /\ dialogs \subseteq 1..made
    /\ choice \in [Windows -> Options] /\ ret \in Options \cup {"cancel"}

(* A dialog not made yet shows "Logout".                                   *)
Unasked == \A w \in Windows : w > made => choice[w] = "logout"

(* Without a dialog inside another there is one activation at most, and    *)
(* one dialog on the screen at most, that of this activation.  While it is *)
(* on the screen ret_option is what it shows, then it is the answer.       *)
OneDialog ==
    /\ Len(frames) <= 1
    /\ dialogs \subseteq {win}
    /\ Top.at # "dialog" => dialogs = {}
    /\ Top.at = "dialog" => IF win \in dialogs
                            THEN win \in Windows => ret = choice[win]
                            ELSE ret = answer

SessionInv == SessionTypes /\ Unasked /\ (~ overlap => OneDialog)

-----------------------------------------------------------------------------

(* The last activation, for each change of the stack.                      *)
LEMMA TopNone == frames = <<>> => Top.at = "nothing"
  BY DEF Top

(* A handler that is somewhere has an activation.                          *)
LEMMA AtSome ==
    ASSUME NEW a, At(a), a # "nothing"
    PROVE  frames # <<>> /\ Top = frames[Len(frames)]
  BY DEF At, Top, Last

(* A request opens a dialog on top of the stack.                           *)
LEMMA TopAppend ==
    ASSUME NEW f \in Frame, frames \in Seq(Frame), frames' = Append(frames, f)
    PROVE  frames' \in Seq(Frame) /\ Top' = f /\ Len(frames') = Len(frames) + 1
  <1>1. frames' \in Seq(Frame) /\ frames' # <<>> /\ Len(frames') = Len(frames) + 1
        /\ frames'[Len(frames) + 1] = f
    OBVIOUS
  <1> QED BY <1>1 DEF Top, Last

(* An activation goes on within handle().                                  *)
LEMMA TopGoesTo ==
    ASSUME NEW a \in Activities, frames \in Seq(Frame), frames # <<>>, GoTo(a)
    PROVE  frames' \in Seq(Frame) /\ Top'.at = a /\ Len(frames') = Len(frames)
  <1> DEFINE n == Len(frames)
             f == [frames[n] EXCEPT !.at = a]
  <1>1. n \in 1..Len(frames) /\ frames[n] \in Frame
    OBVIOUS
  <1>2. f \in Frame /\ f.at = a
    BY <1>1 DEF Frame
  <1>3. frames' = [frames EXCEPT ![n] = f]
    BY DEF GoTo
  <1> HIDE DEF n, f
  <1>4. frames' \in Seq(Frame) /\ Len(frames') = Len(frames) /\ frames'[n] = f
    BY <1>1, <1>2, <1>3
  <1>5. frames' # <<>> /\ n = Len(frames)
    BY <1>1, <1>4 DEF n
  <1> QED BY <1>2, <1>4, <1>5 DEF Top, Last

(* handle() returns.                                                       *)
LEMMA TopReturns ==
    ASSUME frames \in Seq(Frame), frames # <<>>, Return
    PROVE  /\ frames' \in Seq(Frame) /\ Len(frames') = Len(frames) - 1
           /\ Len(frames) <= 1 => Top'.at = "nothing"
  <1>1. frames' = SubSeq(frames, 1, Len(frames) - 1) /\ Len(frames) \in Nat /\ Len(frames) > 0
    BY DEF Return, Front
  <1> DEFINE n == Len(frames) - 1
  <1>2. n \in Int /\ 1 \in Int /\ (IF 1 <= n THEN n - 1 + 1 ELSE 0) = n
        /\ \A i \in 1..n : frames[i] \in Frame
    <2>1. n \in Nat /\ \A i \in 1..n : frames[i] \in Frame
      BY <1>1
    <2> HIDE DEF n
    <2> QED BY <2>1
  <1>3. SubSeq(frames, 1, n) \in Seq(Frame) /\ Len(SubSeq(frames, 1, n)) = n
    <2> HIDE DEF n
    <2> QED BY <1>2, SubSeqProperties
  <1>4. frames' \in Seq(Frame) /\ Len(frames') = Len(frames) - 1
    BY <1>1, <1>3
  <1>5. Len(frames) <= 1 => frames' = <<>>
    BY <1>1, <1>4
  <1> QED BY <1>4, <1>5 DEF Top

-----------------------------------------------------------------------------

(* Steps that neither concern a dialog nor the stack.                      *)
LEMMA Elsewhere ==
    ASSUME SessionInv, UNCHANGED <<frames, ui, answer, overlap>>
    PROVE  SessionInv'
  <1>1. UNCHANGED <<frames, made, win, dialogs, choice, ret, answer, overlap>>
    BY DEF ui
  <1>2. Top' = Top
    BY <1>1 DEF Top
  <1> QED BY <1>1, <1>2 DEF SessionInv, SessionTypes, Unasked, OneDialog

(* Steps of an activation whose dialog is over.                            *)
LEMMA Onwards ==
    ASSUME SessionInv, UNCHANGED <<ui, answer, overlap>>, NEW a \in Activities \ {"dialog"}, At(a),
           Return \/ \E b \in Activities \ {"dialog"} : GoTo(b)
    PROVE  SessionInv'
  <1>1. UNCHANGED <<made, win, dialogs, choice, ret, answer, overlap>> /\ Top.at = a
    BY DEF ui, At
  <1>2. frames # <<>> /\ frames \in Seq(Frame)
    BY AtSome DEF Activities, SessionInv, SessionTypes
  <1>3. /\ frames' \in Seq(Frame) /\ Len(frames') <= Len(frames)
        /\ Len(frames) <= 1 => Top'.at # "dialog"
    BY <1>2, TopGoesTo, TopReturns
  <1>4. Len(frames) \in Nat /\ Len(frames') \in Nat
    BY <1>2, <1>3
  <1> QED BY <1>1, <1>2, <1>3, <1>4 DEF SessionInv, SessionTypes, Unasked, OneDialog

(* A dialog opens, inside no other unless this is recorded.                *)
LEMMA Opens == SessionInv /\ HandleShutdown => SessionInv'
  <1> SUFFICES ASSUME SessionInv, HandleShutdown PROVE SessionInv'
    OBVIOUS
  <1> DEFINE f == [at |-> "dialog", ret |-> "none"]
  <1>1. f \in Frame /\ frames \in Seq(Frame) /\ frames' = Append(frames, f) /\ f.at = "dialog"
    BY DEF Frame, Activities, SessionInv, SessionTypes, HandleShutdown
  <1> HIDE DEF f
  <1>2. frames' \in Seq(Frame) /\ Top'.at = "dialog" /\ Len(frames') = Len(frames) + 1
    BY <1>1, TopAppend
  <1>3. /\ made' = made + 1 /\ win' = made + 1 /\ dialogs' = dialogs \cup {made + 1}
        /\ ret' = "logout" /\ choice' = choice /\ overlap' = (overlap \/ frames # <<>>)
    BY DEF HandleShutdown
  <1>4. SessionTypes'
    BY <1>2, <1>3 DEF SessionInv, SessionTypes, Options
  <1>5. Unasked'
    BY <1>3 DEF SessionInv, SessionTypes, Unasked, Windows
  <1>6. ASSUME ~ overlap' PROVE OneDialog'
    <2>1. frames = <<>> /\ ~ overlap
      BY <1>3, <1>6
    <2>2. dialogs = {} /\ Len(frames) = 0
      BY <2>1, TopNone DEF SessionInv, OneDialog
    <2>3. made + 1 \in Windows => choice[made + 1] = "logout"
      BY DEF SessionInv, SessionTypes, Unasked, Windows
    <2> QED BY <1>2, <1>3, <2>2, <2>3 DEF OneDialog
  <1> QED BY <1>4, <1>5, <1>6 DEF SessionInv

(* The buttons of the dialog.                                              *)
LEMMA Clicks ==
    ASSUME SessionInv, NEW w \in Windows,
           Ok(w) \/ Cancel(w) \/ \E o \in Options : Choose(w, o)
    PROVE  SessionInv'
  <1>1. frames' = frames /\ made' = made /\ win' = win /\ overlap' = overlap
    BY DEF Ok, Cancel, Choose
  <1>2. Top' = Top
    BY <1>1 DEF Top
  <1>3. w \in dialogs
    BY DEF Ok, Cancel, Choose, Clickable
  <1>4. w <= made
    BY <1>3 DEF SessionInv, SessionTypes
  <1>5. CASE Ok(w)
    BY <1>1, <1>2, <1>3, <1>5 DEF Ok, SessionInv, SessionTypes, Unasked, OneDialog
  <1>6. CASE Cancel(w)
    BY <1>1, <1>2, <1>3, <1>6 DEF Cancel, SessionInv, SessionTypes, Unasked, OneDialog
  <1>7. ASSUME NEW o \in Options, Choose(w, o) PROVE SessionInv'
    <2>1. choice' = [choice EXCEPT ![w] = o] /\ ret' = o /\ dialogs' = dialogs /\ answer' = answer
      BY <1>7 DEF Choose
    <2>2. choice' \in [Windows -> Options] /\ choice'[w] = o
          /\ \A v \in Windows : v > made => choice'[v] = choice[v]
      BY <2>1, <1>4 DEF SessionInv, SessionTypes, Windows
    <2> QED BY <1>1, <1>2, <1>3, <2>1, <2>2 DEF SessionInv, SessionTypes, Unasked, OneDialog
  <1> QED BY <1>5, <1>6, <1>7

(* What the last activation is after send_dbus_ede_quit().                 *)
LEMMA TopConfirmed ==
    ASSUME SessionInv, DialogConfirmed
    PROVE  /\ frames' \in Seq(Frame) /\ Len(frames') = Len(frames)
           /\ Top'.at = "act" /\ Top'.ret = ret
  <1> DEFINE n == Len(frames)
             f == [at |-> "act", ret |-> ret]
  <1>1. f \in Frame /\ f.at = "act" /\ f.ret = ret /\ frames' = [frames EXCEPT ![n] = f]
    BY DEF SessionInv, SessionTypes, DialogConfirmed, Frame, Activities
  <1>2. frames \in Seq(Frame) /\ frames # <<>>
    BY AtSome DEF SessionInv, SessionTypes, DialogConfirmed
  <1>3. n \in 1..Len(frames)
    BY <1>2
  <1> HIDE DEF n, f
  <1>4. frames' \in Seq(Frame) /\ Len(frames') = Len(frames) /\ frames'[n] = f
    BY <1>1, <1>2, <1>3
  <1>5. frames' # <<>> /\ n = Len(frames)
    BY <1>3, <1>4 DEF n
  <1> QED BY <1>1, <1>4, <1>5 DEF Top, Last

(* The dialog is over once it is confirmed.                                *)
LEMMA Confirms == SessionInv /\ DialogConfirmed => SessionInv'
  <1> SUFFICES ASSUME SessionInv, DialogConfirmed PROVE SessionInv'
    OBVIOUS
  <1>1. UNCHANGED <<made, win, dialogs, choice, ret, overlap>> /\ win \notin dialogs
    BY DEF DialogConfirmed, ui
  <1>2. frames' \in Seq(Frame) /\ Len(frames') = Len(frames) /\ Top'.at = "act"
    BY TopConfirmed
  <1> QED BY <1>1, <1>2 DEF SessionInv, SessionTypes, Unasked, OneDialog

(* So it is when it is cancelled, but for the stack.                       *)
LEMMA Cancelled == SessionInv /\ DialogCancelled => SessionInv'
  <1> SUFFICES ASSUME SessionInv, DialogCancelled PROVE SessionInv'
    OBVIOUS
  <1>1. UNCHANGED <<made, win, dialogs, choice, ret, answer, overlap>> /\ win \notin dialogs
    BY DEF DialogCancelled, ui
  <1>2. frames # <<>> /\ frames \in Seq(Frame) /\ Return
    BY AtSome DEF DialogCancelled, SessionInv, SessionTypes
  <1>3. /\ frames' \in Seq(Frame) /\ Len(frames') = Len(frames) - 1
        /\ Len(frames) <= 1 => Top'.at = "nothing"
    BY <1>2, TopReturns
  <1>4. Len(frames) \in Nat
    BY <1>2
  <1> QED BY <1>1, <1>3, <1>4 DEF SessionInv, SessionTypes, Unasked, OneDialog

-----------------------------------------------------------------------------

(* evoke starts without a dialog.                                          *)
LEMMA SessionInitInv == SessionInit => SessionInv
  <1> SUFFICES ASSUME SessionInit PROVE SessionInv
    OBVIOUS
  <1>1. SessionTypes /\ Unasked /\ Len(frames) = 0
    BY DEF SessionInit, SessionTypes, Unasked, Options
  <1>2. Top.at = "nothing"
    BY TopNone DEF SessionInit
  <1> QED BY <1>1, <1>2 DEF SessionInit, SessionInv, OneDialog

(* The steps of handle() and of the dialogs, one by one; all others leave  *)
(* the dialogs alone.                                                      *)
LEMMA SessionStepInv == SessionInv /\ [SessionNext]_sessionVars => SessionInv'
  <1> SUFFICES ASSUME SessionInv, [SessionNext]_sessionVars PROVE SessionInv'
    OBVIOUS
  <1>1. CASE Start \/ Check \/ WaitReturns \/ Signal \/ OtherEvent \/ UNCHANGED sessionVars
    BY <1>1, Elsewhere DEF Start, Check, WaitReturns, Signal, OtherEvent, sessionVars
  <1>2. CASE HandleQuit \/ KillOneself \/ RunEdeShutdown \/ RequestQuit
    BY <1>2, Elsewhere DEF HandleQuit, KillOneself, RunEdeShutdown, RequestQuit
  <1>3. ASSUME NEW p \in Programs, ProgramChanges(p) PROVE SessionInv'
    BY <1>3, Elsewhere DEF ProgramChanges
  <1>4. CASE BeginClosing \/ BusFails \/ Refused
    <2>1. At("act") /\ \E b \in Activities \ {"dialog"} : GoTo(b)
      BY <1>4 DEF BeginClosing, BusFails, Refused, Activities
    <2>2. UNCHANGED <<ui, answer, overlap>>
      BY <1>4 DEF BeginClosing, BusFails, Refused
    <2> QED BY <2>1, <2>2, Onwards DEF Activities
  <1>5. CASE AskYes \/ AskNoOrAlertDismissed \/ CommandFails
    <2>1. /\ \E a \in Activities \ {"dialog"} : At(a)
          /\ Return \/ \E b \in Activities \ {"dialog"} : GoTo(b)
      BY <1>5 DEF AskYes, AskNoOrAlertDismissed, CommandFails, Activities
    <2>2. UNCHANGED <<ui, answer, overlap>>
      BY <1>5 DEF AskYes, AskNoOrAlertDismissed, CommandFails
    <2> QED BY <2>1, <2>2, Onwards
  <1>6. CASE KillRemaining \/ CommandRuns
    <2>1. (\E a \in Activities \ {"dialog"} : At(a)) /\ Return
      BY <1>6 DEF KillRemaining, CommandRuns, StopAndReturn, Activities
    <2>2. UNCHANGED <<ui, answer, overlap>>
      BY <1>6 DEF KillRemaining, CommandRuns
    <2> QED BY <2>1, <2>2, Onwards
  <1>7. CASE HandleShutdown
    BY <1>7, Opens
  <1>8. CASE DialogConfirmed \/ DialogCancelled
    BY <1>8, Confirms, Cancelled
  <1>9. ASSUME NEW w \in Windows, Ok(w) \/ Cancel(w) \/ \E o \in Options : Choose(w, o)
        PROVE  SessionInv'
    BY <1>9, Clicks
  <1> QED BY <1>1, <1>2, <1>3, <1>4, <1>5, <1>6, <1>7, <1>8, <1>9 DEF SessionNext, Handler, User

(* No other step than the confirmation makes of a dialog a request that is *)
(* acted on.                                                               *)
LEMMA OnlyConfirmed ==
    ASSUME SessionInv, [SessionNext]_sessionVars, Accepted, ~ overlap
    PROVE  DialogConfirmed
  <1>1. /\ Top.at = "dialog" /\ Top'.at = "act" /\ frames # <<>> /\ frames \in Seq(Frame)
        /\ Len(frames) <= 1
    BY AtSome DEF Accepted, At, SessionInv, SessionTypes, OneDialog
  <1>2. frames' # frames
    BY <1>1 DEF Top
  <1>3. ~ Return
    BY <1>1, TopReturns
  <1>4. ASSUME HandleShutdown PROVE FALSE
    <2> DEFINE f == [at |-> "dialog", ret |-> "none"]
    <2>1. f \in Frame /\ frames' = Append(frames, f) /\ f.at = "dialog"
      BY <1>4 DEF Frame, Activities, HandleShutdown
    <2> HIDE DEF f
    <2> QED BY <1>1, <2>1, TopAppend
  <1>5. ~ At("act") /\ ~ At("ask") /\ ~ At("alert") /\ ~ At("command") /\ ~ At("closing")
    BY <1>1 DEF At
  <1> QED BY <1>2, <1>3, <1>4, <1>5
          DEF SessionNext, Handler, User, Start, Check, WaitReturns, Signal, OtherEvent, sessionVars, HandleQuit,
              DialogCancelled, BeginClosing, KillRemaining, KillOneself, BusFails, Refused,
              CommandRuns, CommandFails, AskYes, AskNoOrAlertDismissed, RunEdeShutdown,
              RequestQuit, ProgramChanges, Ok, Cancel, Choose

(* For any number of requests and programs: what evoke does is what the    *)
(* dialog showed when OK was pressed, unless a dialog was opened inside    *)
(* another.                                                                *)
THEOREM ActsAsAnswered == SessionSpec => OnlyOnAnswer
  <1>1. SessionInv /\ [SessionNext]_sessionVars => [Accepted /\ ~ overlap => Top'.ret = answer]_sessionVars
    <2> SUFFICES ASSUME SessionInv, [SessionNext]_sessionVars, Accepted, ~ overlap
                 PROVE  Top'.ret = answer
      OBVIOUS
    <2>1. DialogConfirmed
      BY OnlyConfirmed
    <2>2. Top'.ret = ret /\ win \notin dialogs /\ Top.at = "dialog"
      BY <2>1, TopConfirmed DEF DialogConfirmed, At
    <2> QED BY <2>2 DEF SessionInv, OneDialog
  <1> QED BY <1>1, SessionInitInv, SessionStepInv, PTL DEF SessionSpec, OnlyOnAnswer
================================================================================

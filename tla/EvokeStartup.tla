---------------------------- MODULE EvokeStartup ----------------------------
(***************************************************************************)
(* Several evoke processes on one display: main() (evoke/evoke.cpp), the   *)
(* reading of ede-startup.conf, the lock file (evoke/EvokeService.cpp) and *)
(* the splash window that starts the items from a timer (Splash.cpp).      *)
(***************************************************************************)
EXTENDS Integers, Sequences, FiniteSets, SequencesExt

CONSTANTS
    Procs,      \* the processes
    Order,      \* start_order: a sequence of [name, spaced, exec]
    Disturb     \* see Disturbances

(* "race": two processes are between the test and the creation of the      *)
(* lock file at once; "close": the splash window is closed or hit by       *)
(* Escape; "notheme": the theme of the splash is not installed; "crash".   *)
Disturbances == {"race", "close", "notheme", "crash"}

Names == {Order[i].name : i \in DOMAIN Order}

(* An entry of start_order has its name, whether it is written with a      *)
(* space after the comma, and whether its section has an "exec" key.       *)
ASSUME StartupAssumption ==
    /\ Order \in Seq([name : Names, spaced : BOOLEAN, exec : BOOLEAN])
    /\ Disturb \subseteq Disturbances

Modes == [startup : BOOLEAN, dryrun : BOOLEAN, splash : BOOLEAN]
Places == {"new", "reading", "starting", "splash", "locking", "creating",
           "running", "leaving", "over", "dead"}

VARIABLES
    at,        \* where each process is
    mode,      \* its command line
    items,     \* startup_items
    counter,   \* of the Splash: how many items it started
    timer,     \* runner_cb is scheduled
    shown,     \* the splash window is on the screen
    lockfile,  \* the lock file exists
    holds,     \* the processes with a lock_name
    log        \* history: what each process started

splash == <<counter, timer, shown>>
locks == <<lockfile, holds>>
vars == <<at, mode, items, splash, locks, log>>

TypeOK ==
    /\ at \in [Procs -> Places]
    /\ mode \in [Procs -> Modes]
    /\ \A p \in Procs :
         /\ Range(items[p]) \subseteq Names /\ Range(log[p]) \subseteq Names
         /\ counter[p] \in 0..Len(items[p])
    /\ timer \in [Procs -> BOOLEAN] /\ shown \in [Procs -> BOOLEAN]
    /\ lockfile \in BOOLEAN /\ holds \subseteq Procs

Init ==
    /\ at = [p \in Procs |-> "new"]
    /\ mode \in [Procs -> Modes]
    /\ items = [p \in Procs |-> <<>>]
    /\ counter = [p \in Procs |-> 0]
    /\ timer = [p \in Procs |-> FALSE]
    /\ shown = [p \in Procs |-> FALSE]
    /\ lockfile = FALSE
    /\ holds = {}
    /\ log = [p \in Procs |-> <<>>]

Goto(p, place) == at' = [at EXCEPT ![p] = place]

(* Where main() goes once the startup is behind it.                        *)
AfterStartup(p) == IF mode[p].dryrun THEN "over" ELSE "locking"

-----------------------------------------------------------------------------
(* The items                                                               *)

Begin(p) ==
    /\ at[p] = "new"
    /\ Goto(p, IF mode[p].startup THEN "reading" ELSE AfterStartup(p))
    /\ UNCHANGED <<mode, items, splash, locks, log>>

(* str_trim() is applied to another buffer than the name, so that a name   *)
(* written with a space finds no section.                                  *)
Found(e) == e.exec /\ ~e.spaced

FoundNames ==
    LET entries == SelectSeq(Order, Found)
    IN  [i \in DOMAIN entries |-> entries[i].name]

(* read_startup()                                                          *)
Read(p) ==
    /\ at[p] = "reading"
    /\ items' = [items EXCEPT ![p] = FoundNames]
    /\ Goto(p, "starting")
    /\ UNCHANGED <<mode, splash, locks, log>>

NoMore(p) == counter[p] = Len(items[p])

(* Mutant: the iterator is not advanced.                                   *)
NextClientStuck(p) ==
    /\ log' = IF mode[p].dryrun THEN log
              ELSE [log EXCEPT ![p] = Append(@, items[p][1])]
    /\ counter' = [counter EXCEPT ![p] = @ + 1]

(* next_client() and next_client_nosplash() start the next item.           *)
NextClient(p) ==
    /\ log' = IF mode[p].dryrun THEN log
              ELSE [log EXCEPT ![p] = Append(@, items[p][counter[p] + 1])]
    /\ counter' = [counter EXCEPT ![p] = @ + 1]

(* The startup is over: clear_startup_items().                             *)
EndStartup(p) ==
    /\ items' = [items EXCEPT ![p] = <<>>]
    /\ counter' = [counter EXCEPT ![p] = 0]
    /\ Goto(p, AfterStartup(p))

(* No items, or Splash::run() without a splash: a loop over the items.     *)
StartPlain(p) ==
    /\ at[p] = "starting"
    /\ ~mode[p].splash
    /\ ~NoMore(p)
    /\ NextClient(p)
    /\ UNCHANGED <<at, mode, items, timer, shown, locks>>

EndPlain(p) ==
    /\ at[p] = "starting"
    /\ NoMore(p)
    /\ EndStartup(p)
    /\ UNCHANGED <<mode, timer, shown, locks, log>>

(* Splash::run() returns before anything is started.                       *)
NoTheme(p) ==
    /\ "notheme" \in Disturb
    /\ at[p] = "starting"
    /\ mode[p].splash /\ items[p] # <<>>
    /\ EndStartup(p)
    /\ UNCHANGED <<mode, timer, shown, locks, log>>

OpenSplash(p) ==
    /\ at[p] = "starting"
    /\ mode[p].splash /\ items[p] # <<>>
    /\ shown' = [shown EXCEPT ![p] = TRUE]
    /\ timer' = [timer EXCEPT ![p] = TRUE]
    /\ Goto(p, "splash")
    /\ UNCHANGED <<mode, items, counter, locks, log>>

(* Mutant: the window is not hidden after the last item.                   *)
RunnerKeepsWindow(p) ==
    /\ at[p] = "splash" /\ timer[p]
    /\ IF NoMore(p)
         THEN /\ timer' = [timer EXCEPT ![p] = FALSE]
              /\ counter' = [counter EXCEPT ![p] = 0]
              /\ UNCHANGED log
         ELSE NextClient(p) /\ UNCHANGED timer
    /\ UNCHANGED <<at, mode, items, shown, locks>>

(* runner_cb: one more item and the timer again, or the window is hidden.  *)
Runner(p) ==
    /\ at[p] = "splash" /\ timer[p]
    /\ IF NoMore(p)
         THEN /\ timer' = [timer EXCEPT ![p] = FALSE]
              /\ shown' = [shown EXCEPT ![p] = FALSE]
              /\ counter' = [counter EXCEPT ![p] = 0]
              /\ UNCHANGED log
         ELSE NextClient(p) /\ UNCHANGED <<timer, shown>>
    /\ UNCHANGED <<at, mode, items, locks>>

(* The user closes the window; the timer is still scheduled.               *)
CloseSplash(p) ==
    /\ "close" \in Disturb
    /\ at[p] = "splash" /\ shown[p]
    /\ shown' = [shown EXCEPT ![p] = FALSE]
    /\ UNCHANGED <<at, mode, items, counter, timer, locks, log>>

(* "while(shown()) Fl::wait()" ends; ~Splash removes the timer.            *)
SplashReturns(p) ==
    /\ at[p] = "splash" /\ ~shown[p]
    /\ timer' = [timer EXCEPT ![p] = FALSE]
    /\ EndStartup(p)
    /\ UNCHANGED <<mode, shown, locks, log>>

-----------------------------------------------------------------------------
(* The lock                                                                *)

(* setup_lock(): file_test() ...                                           *)
TestLock(p) ==
    /\ at[p] = "locking"
    /\ "race" \in Disturb \/ \A q \in Procs : at[q] # "creating"
    /\ Goto(p, IF lockfile THEN "over" ELSE "creating")
    /\ UNCHANGED <<mode, items, splash, locks, log>>

(* ... and then fopen(.., "w").                                            *)
CreateLock(p) ==
    /\ at[p] = "creating"
    /\ lockfile' = TRUE
    /\ holds' = holds \cup {p}
    /\ Goto(p, "running")
    /\ UNCHANGED <<mode, items, splash, log>>

Leave(p) ==
    /\ at[p] = "running"
    /\ Goto(p, "leaving")
    /\ UNCHANGED <<mode, items, splash, locks, log>>

(* Mutant: the file is removed whether this process made it or not.        *)
RefusedRemoves(p) ==
    /\ at[p] \in {"leaving", "over"}
    /\ lockfile' = FALSE
    /\ holds' = holds \ {p}
    /\ Goto(p, "dead")
    /\ UNCHANGED <<mode, items, splash, log>>

(* remove_lock(), from the destructor of the service, which every process  *)
(* runs; it does nothing without a lock_name.                              *)
RemoveLock(p) ==
    /\ at[p] \in {"leaving", "over"}
    /\ lockfile' = (lockfile /\ p \notin holds)
    /\ holds' = holds \ {p}
    /\ Goto(p, "dead")
    /\ UNCHANGED <<mode, items, splash, log>>

Crash(p) ==
    /\ "crash" \in Disturb
    /\ at[p] \notin {"new", "dead"}
    /\ timer' = [timer EXCEPT ![p] = FALSE]
    /\ shown' = [shown EXCEPT ![p] = FALSE]
    /\ holds' = holds \ {p}
    /\ Goto(p, "dead")
    /\ UNCHANGED <<mode, items, counter, lockfile, log>>

(* "If program abnormaly crashed before, just remove" the file.            *)
RemoveStaleLock ==
    /\ lockfile
    /\ \A p \in Procs : at[p] \in {"new", "dead"}
    /\ lockfile' = FALSE
    /\ UNCHANGED <<at, mode, items, splash, holds, log>>

Step(p) ==
    \/ Begin(p) \/ Read(p) \/ StartPlain(p) \/ EndPlain(p) \/ NoTheme(p)
    \/ OpenSplash(p) \/ Runner(p) \/ SplashReturns(p)
    \/ TestLock(p) \/ CreateLock(p) \/ RemoveLock(p)

Next ==
    \/ \E p \in Procs : Step(p) \/ CloseSplash(p) \/ Leave(p) \/ Crash(p)
    \/ RemoveStaleLock

Spec == Init /\ [][Next]_vars

(* Every process is scheduled, and its timer expires; nobody has to start  *)
(* a process, end it or close its splash.                                  *)
FairSpec == Spec /\ \A p \in Procs : WF_vars(Step(p) /\ at[p] # "new")

-----------------------------------------------------------------------------
(* Properties                                                              *)


Promise == INSTANCE StartupOrder WITH
    Wanted <- FoundNames,
    over <- [p \in Procs |-> at[p] \notin {"new", "reading", "starting", "splash"}]

(* The splash and the plain loop both start the items found in order,      *)
(* each once, whenever the splash is closed (Splash::run and its timer).   *)
StartsInOrder == Promise!Spec

(* A startup comes to an end: the process runs, or is refused, or has gone *)
(* (the loop in Splash::run ends although only the timer can end it).      *)
StartupEnds ==
    \A p \in Procs :
        at[p] = "reading" ~> at[p] \in {"running", "leaving", "over", "dead"}

(* Of processes that do not start at the very same moment one runs at      *)
(* most, and the lock file is there as long as it runs - whichever others  *)
(* were refused, ended or crashed meanwhile.                               *)
LockGuardsRunning ==
    /\ Cardinality({p \in Procs : at[p] = "running"}) <= 1
    /\ \A p \in Procs : at[p] = "running" => lockfile

(* evoke.txt:12: evoke "will allow only one instance of itself to be       *)
(* running".                                                               *)
OneInstance == Cardinality({p \in Procs : at[p] = "running"}) <= 1
=============================================================================

# Verification of the Equinox Desktop Environment

TLA+ models of the programs of EDE, TLC configurations that check them on small
instances, and proofs checked by TLAPS.

## The system

EDE is a set of programs that share an X server and a D-Bus session bus.

| part | state it keeps | operations | interacts with |
| --- | --- | --- | --- |
| evoke, startup (`evoke.cpp`, `EvokeService.cpp`, `Splash.cpp`) | list of startup items and its iterator, `/tmp/.evoke.lock`, splash window | read the list, start items one by one, take and remove the lock | starts all other programs |
| evoke, XSETTINGS (`Xsm.cpp`) | settings list, X property, `ede-settings.xml`, `~/.Xdefaults` and its backup | start, Set, Remove, Flush, quit | X clients read the property; D-Bus clients change it |
| evoke, session end (`EvokeService.cpp`, `Logout.cpp`, `Xshutdown.cpp`) | main loop flag, the logout dialog's static window and result | property events, the dialog, ConsoleKit, closing programs, commands | ede-shutdown, every X client |
| ede-bug-report (`BugzillaSender.cpp`, `Bugzilla.cpp`) | pipe, client, cancel flag, one thread per attempt | send, cancel, try again | the Bugzilla server |
| ede-autostart, ede-launch | none that lasts | run the autostart files, run one program | evoke starts the first, everything calls the second |
| ede-notify-daemon | list of windows, ids, timers | Notify, CloseNotification, expiry | D-Bus clients |
| ede-panel and its applets | geometry, struts, windows, docked icons, menu | X property changes, clicks, timers | window manager, X clients |
| ede-desktop | icons, selection, wallpaper | mouse events, directory notifications | ede-launch, ede-desktop-conf |
| ede-calc | operands, operators and brackets that are pending | keys | none |
| pekwm, the window manager | clients, frames, workspaces, focus, stacking order, harbour, menus, dialogs | X events, key and mouse actions, requests of programs | the X server, every X client |
| ede-*-conf, ede-timedate and other dialogs | a form each | edit and save | the programs above re-read the files |

`pekwm/` is a project of its own that EDE carries and ships as its window manager;
`ede-bug-report/xmlrpc-c/` is a vendored library.
PROJECT.json lists every component with its status.

What is hard here: event loops that run inside handlers of events (dialogs, message
boxes), files replaced in several steps, processes and threads that share static
variables, timers that outlive what they work on, and X properties read after the
state they describe has changed.

### Components, and what makes each correct

- **evoke, XSETTINGS.** State: the list of settings in memory, the X property the
  clients read, four files. The manager borrows `~/.Xdefaults`: it must give it back,
  lose nothing the user wrote if it dies on the way, and save what it served.
- **evoke, startup.** Each item is started once and in order, however the splash window
  ends; one evoke runs at a time, and its lock file is there as long as it runs.
- **evoke, session end.** Nothing is done that the user did not confirm in the dialog
  he saw; once the loop was told to stop the session does end.
- **ede-bug-report.** "Sent" means that Bugzilla has the report; nothing is freed under
  the thread; a cancel is honoured; each attempt ends.
- **ede-notify-daemon.** Ids are distinct, clients touch their own notifications only,
  and a notification with a timeout goes away.
- **Taskbar.** One button for each window, in the user's order, visible on the right
  workspace, whatever order the X server's events arrive in.
- **ede-autostart, ede-launch.** Each autostart file runs at most once, the home
  directory's before the system's; the program that was asked for is run, and its
  output and exit status arrive.
- **Panel, hider, tray.** The panel slides away and comes back to its place whatever
  happens while it moves; the button that brings it back can be reached; its struts
  fit; the tray holds no dead icon.
- **Start menu.** The menu shown is the one of the files on the disk and is not freed
  while it is open; each menu holds the entries its rules say; the array handed to FLTK
  is well nested and no longer than what was counted.
- **ede-desktop.** The icons selected are those drawn as selected; a removed icon is in
  no list; a drag leaves nothing behind.
- **Calculator.** The value shown is that of the line typed; what is pending is bounded by
  the priorities and brackets there are, and should fit the arrays.
- **pekwm, clients and frames.** A client is a tab of one frame; the tab in front is one
  of its frame's; no list holds a deleted frame.
- **pekwm, focus and workspaces.** The manager's picture of the focus agrees with the X
  server's once all events are read; what belongs on the screen is mapped and nothing else;
  the manager does not answer its own answers for ever.
- **pekwm, states of a frame.** Shaded, maximized, fullscreen and decoration can be set and
  unset in any order: frame and client agree, and something is left to click on.
- **pekwm, stacking.** Manager, X server and published list have one order, by layers, with
  dialogs above their owners.
- **pekwm, menus.** Submenus are open with their menu only, one at a time; no entry is used
  after it was deleted.
- **pekwm, harbour.** Dock apps do not overlap and are on the head; the strut fits them.
- **pekwm, command dialog.** The cursor is in the text; completion replaces the word at it.

## Modules

| module | models | state to code |
| --- | --- | --- |
| `Xsm` | `evoke/Xsm.cpp`, and `start_`/`stop_xsettings_manager` | `settings` is `manager_data->settings`, `prop` the property `_XSETTINGS_SETTINGS`, `xdefaults`, `saved`, `tmp` and `conf` the files, `pc` the place in `init`, `xresource_replace`, `save_serialized`, `xresource_undo`. One system call on a file is one step |
| `EvokeSession` | `evoke.cpp` (main loop), `EvokeService::handle`, `Logout.cpp`, `x_shutdown` | `frames` is the stack of activations of `handle()`, since dialogs run the event loop inside it; `win` and `ret` are the static variables of `Logout.cpp`; `running` is `is_running` |
| `StartupOrder` | | abstract: each process starts the wanted items in order, or gives up |
| `EvokeStartup` | `evoke.cpp` (command line), `read_startup`, `setup_lock`, `remove_lock`, `Splash.cpp` | one process per element of `Procs`; `items` is `startup_items`, `counter` the splash's counter (and the iterator, which always agrees with it), `timer` the FLTK timeout, `holds` the processes with a `lock_name`. Implements `StartupOrder` |
| `BugReport` | `ede-bug-report.cpp` (`send_cb`), `BugzillaSender.cpp`, the calls into `Bugzilla.cpp` | `gui` is the place of the main thread, `worker[n]` that of the thread of attempt n; pipe, `bdata` and `cancel_sending` are shared because they are static |
| `NotifyDaemon` | `handle_notify`, `show_or_update_window`, `NotifyWindow.cpp` | `notify_id` is the counter, `id`, `exp` and `timer_set` the fields of a window, `timers` what FLTK holds |
| `Taskbar` | `Taskbar.cpp` | `children`, `curr_active`, `prev_active` and `current_workspace` are the fields of that name; `clients`, `desktop`, `iconic`, `active` and `current` are what the X server holds, `events` the property events not yet handled |
| `Sieve` | | an operator: the elements of a sequence that are in a set, in their order, which is how a loop that erases from a list is written; a recursive function, so that it can be proved about |
| `Tabs` | pekwm: `PDecor` (children of a decoration), `Frame` | operators only, on a record of `kids` (`_child_list`), `child` (`_child`) and `parent` |
| `FrameTree` | pekwm: what its callers do with `Tabs` | abstract: the grouping of windows into frames and nothing else |
| `Wm` | pekwm: `Client`, `Frame`, `PDecor`, `Workspaces`, `WindowManager`, `ActionHandler` | one record `s`: mapped, iconified, sticky and workspace of each client and frame, `_focused_wo`, the last focused window of each workspace, `_mru_list`, `_wo_list`, the X server's input focus and the events pekwm has not read. One action is one pass of the event loop. Mapping, unmapping and iconifying call one another through dialogs and their owners: a function's body returns the state and the calls it goes on with, and `RunCalls` makes them in the code's order, at most `MaxCalls` of them, a bound that a chain of calls does not reach, since a frame that is mapped or iconified already returns at once; `InTurn` is a loop over `_wo_list`. Implements `FrameTree` |
| `FrameState` | pekwm: states of one `Frame` | the flags of frame and client, heights, and what is kept to be given back (`_real_height`, `_old_gm`, `_non_fullscreen_...`) |
| `Stacking` | pekwm: `Workspaces::insert`, `raise`, `lower`, `stackAbove`, layers of `Frame`, dialogs | `list` is `_wo_list`, `x` the server's order, `hint` the published list, `kids` the observers of an owner |
| `Menus` | pekwm: `PMenu`, `ActionMenu`, actions on menus | items, size, mapped and selected of each menu; `focus` is who gets the keys |
| `Harbour` | pekwm: `Harbour.cc` | `list` is `_da_list`, `at` and `len` an app's place and length along the edge, `size` is `_size`. The search for a place moves on by at least one unit each time, so it is a function of the steps left up to `LastPlace` |
| `Prompt` | pekwm: `InputDialog`, `CmdDialog`, `Completer` | `buf`, `pos`, `off`, history and iterator, what is kept between two completions |
| `Desktop` | `Desktop.cpp`, `DesktopIcon.cpp`, `IconDialog.cpp` | `sel` is `selectionbuf`, `lit` the icons with `focused`, `band` `selbox`, `ghost` the windows of dragged icons; `below`, `held`, `pushed` are FLTK's |
| `Panel` | `Panel.cpp`, `Hider.cpp`, `Tray.cpp` | the places of panel and hider, `timers` pending, `old_px`, `old_x`, `stop_x`, the strut, `win_list` |
| `StartMenu` | `StartMenu.cpp` | `mcontent`, `mcontent_pending`, the menu that is shown, `last_reload`, the timeouts |
| `XdgMenu` | `XdgMenuReader.cpp`, `MenuRules.cpp`, `DesktopEntry.cpp` | a document with a submenu, the files, and the menu built of them in one action |
| `Calc` | `SciCalc.cpp` | `value`, `oper`, `startbrkt` as sequences; a value is the expression it stands for |
| `Shell` | | composes `Desktop`, `Panel`, `StartMenu`, `Prompt`, `Calc` and `Harbour`: `which` is the program a behaviour is of and `s` its state; the program never changes, each has its own initial states |

The proofs are in `HarbourProofs` (harbour, calculator, XSETTINGS manager), `EvokeProofs`
(startup and session end), `ProgramProofs` (bug report, notifications and the states of a
frame), `FrameTreeProofs`, `WmProofs` and `WmShownProofs` (grouping, visibility and focus in
pekwm), `ShellProofs` (desktop, panel, start menu, command dialog, taskbar) and, for what
they share, `SequenceLemmas`.

The `MC` modules hold the values of constants that a cfg cannot write, the symmetry, state
constraints, and, in `MCWmAll`, a counter of events handled. `MCShell` extends `Shell`
by three more parts that share no state with the rest, `XdgMenu`, `Stacking` and `Menus`: a
state is that of one of nine parts, chosen at the start, and the run checks each from all
its initial states.
Each action stands for a whole handler, or for the part of it up to the next system call,
lock or nested event loop: where another actor can come in, a new action begins. In pekwm
a handler is a chain of calls, so it is written as operators from state to state.
Variables marked *history* in their comments, and the fields of the records that say so,
are read by properties only. `PROJECT.json` maps every definition to the lines it was
translated from.

Composition: the parts of evoke share `main()` but no state except the lock file, which
`Xsm` takes (`TakeLock`) in the one-process form that `EvokeStartup` justifies. `Wm`
composes clients, frames, workspaces and focus of pekwm with the X server; its states
(`FrameState`), order (`Stacking`), menus and dock apps only read what it decides and are
modules of their own. The programs of the session talk through the X server, which appears
in each module as actions of its own (property events, D-Bus calls, other clients).

## Runs

| run | module | shows |
| --- | --- | --- |
| `xsm` | `MCXsm` | any sequence of sessions, calls, crashes, edits, flushes and failed saves: an undisturbed session gives `~/.Xdefaults` back (`RestoredAfterQuit`), its settings are on disk (`Durable`), no single mishap loses the user's lines (`TextSurvives`) |
| `session` | `EvokeSession` | without overlapping dialogs nothing is done but what was answered (`OnlyOnAnswer`); a stop ends the session (`StopEnds`) |
| `session_nested` | `EvokeSession` | *violation*: a second request inside the first dialog resets the result, and OK in the first, which shows Restart, logs out |
| `startup` | `MCEvokeStartup` | `EvokeStartup` implements `StartupOrder` (`StartsInOrder`), startups end, one process runs under its lock |
| `bugreport` | `BugReport` | deserved thanks, nothing freed under a thread or a call, cancels honoured, attempts end |
| `notify` | `NotifyDaemon` | ids, owners and timeouts |
| `taskbar` | `MCTaskbar` | the buttons follow the list of windows although the removal loop skips some (`ButtonsFollow`); order, workspaces and the window activated in place of a minimized one |
| `wm` | `MCWm` | with an event of the server still unread when the next request comes: focus (`InputAgrees`, `NoFalseFocus`), what is shown (`Visible`), tabs move with their frame (`TabsFollow`), and `Wm` implements `FrameTree` |
| `wm_all` | `MCWmAll` | all requests there are, with a dialog, each when the events of the one before are read: no deleted frame in a list (`ListsAgree`), a request is over after five events (`Settles`) |
| `wm_focus` | `MCWm` | *violation*: a workspace was left with the focus on a window that is then iconified; it is entered again with the focus on the root window, although another window is shown |
| `frame` | `MCFrameState` | a shaded frame keeps a part to click on (`SomethingLeft`), frame and client agree on shaded, maximized and, without `FullscreenAbove`, the layer (`FlagsAgree`), the window fills the frame (`ChildFits`) |
| `shell` | `MCShell` | `DesktopRight`: the selection is what is drawn, drags leave nothing behind. `CalcRight`: the value of the line by any priorities, and a bound of what is pending by priorities and brackets. `PanelRight`: the panel comes to rest where it belongs, no dead icon. `StartMenuRight`: the menu is that of the disk and not freed while open. `XdgMenuRight`: entries by the rules, array well nested. `PromptRight`: cursor in the text, completion of the last word. `StackingRight`: one order for manager, server and pagers. `MenusRight`: open submenus hang together. `HarbourRight`: placed apps do not overlap, strut |

A *violation* run checks one property that quotes the repository (see "findings" in
`PROJECT.json`); TLC finds it broken by what the code does. In the passing runs such
steps are either left in and marked by a history variable that the property excludes by
name (`marks`, `overlap`, `closed`, `clean`, `late`, `sib`, `odd`, `bare`, `lost`, `unseen`, ...), or left out by
`Disturb` or `Ops`, so that what the property does not cover can be read off its text or
its cfg.

### Statements that do not hold

These are defined beside the properties, with the reason in their comments, and were found
violated by TLC on the instances of the runs (`FitsArray` on a larger one); they show where a property that holds had to
be stated more narrowly.

| module | statement | what the code does |
| --- | --- | --- |
| `Xsm` | `FileRestored` ("After evoke quits, file is restored", `Xsm.cpp:396`) | Flush runs the undo in mid-session, and the undo at exit then deletes `~/.Xdefaults` |
| `EvokeStartup` | `OneInstance` | two processes at once both find no lock file |
| `BugReport` | `CancelBeforeSubmit` (`BugzillaSender.cpp:116`) | a cancel during the thread's `sleep(1)` is not seen |
| `BugReport` | `DoneMeansReceived` (`:159`) | the thread of a closed attempt reports into the next attempt's pipe |
| `NotifyDaemon` | `NeverMeansNever` (`NotifyWindow.h:53`) | a notification that never expires gets a timer when the pointer leaves it |
| `Desktop` | `SelectionAlive` | an icon removed by its menu or by the dialog stays in `selectionbuf` |
| `Panel` | `HiderReachable` | a tray icon that comes or goes while the panel is hidden lays it out again, which moves the hider off the screen |
| `StartMenu` | `NothingUnseen` | renames and files whose names do not end with `.desktop` are dropped; a report less than five seconds after another schedules nothing, also when the update of the earlier one is done |
| `Taskbar` | `AllShownAreHere` | a new window's workspace is read (`Taskbar.cpp:194`) before its events are selected (`:205`): a move in between is not noticed |
| `Calc` | `FitsArray` (`SciCalc.h:17`) | the arrays have room for three operators in each bracket, which is so with three priorities; nothing sets the priorities, and with four operators of different ones (no bracket) four are pending |
| `XdgMenu` | `NoDuplicates`, `MenusSorted` (`XdgMenuReader.cpp:677`, `:723`) | duplicates are compared with their neighbours in a list that is not sorted by id alone; without unallocated entries nothing is sorted |
| `Prompt` | `CompletesWordAtCursor` (`CmdDialog.cc:116`) | the second completion looks for the word in the old text at the cursor of the new one |
| `Stacking` | `SameOrder` (`Workspaces.cc:476`) | above a sibling asks the server for the place right below it |
| `Menus` | `OneOpen`, `Sound` | under the installed configuration two submenus can be open; a Dynamic entry may be deleted while its actions run, and a menu whose command printed nothing keeps its old size |
| `Harbour` | `AllApart` | an exact fit is not taken, sorting does not look at the end of the head, backwards along a horizontal edge it goes the wrong way |
| `FrameState` | `BarLeft` (`PDecor.cc:1038`) | the bar of a shaded frame with narrow titles may get no height |
| `FrameState` | `DecorAgrees`, `FullscreenAgrees`, `LayerAgrees` | leaving fullscreen toggles what the frame had of border and titlebar, also where it is there already, and in the frame alone; a tab put in front keeps its own fullscreen flag; `FullscreenAbove` raises the frame and not the window |
| `FrameState` | `ShadedTogether` (`Frame.cc:173`) | a window that asks to be shaded and has no decoration is published as shaded, its frame is not |

### Bounds

- `xsm`: two names, one of them a colour in `resource_map`; three values: a colour, a
  plain string, one that needs XML quoting; two texts of the user's. Two texts are needed
  to tell an old backup from the present file, and a third would not meet more than two
  files. Sessions and mishaps are unbounded; `mishaps` is a counter that stops at 2.
- `session`: `MaxRequests` = 2 dialogs (one inside or after another; a third repeats
  what the second does to the shared variables), `MaxQueue` = 2 property events, one
  program besides evoke.
- `startup`: two processes, which is what a race needs, and four entries: a plain one,
  one without `exec`, another plain one, and one written with a space.
- `bugreport`: `MaxSends` = 2, an attempt and the one that meets its thread.
- `notify`: `UIntMax` = 3, so that two ids are in use and the counter starts over; two
  clients and two windows at a time.
- `taskbar`: three windows, two workspaces, `MaxEvents` = 2 events on their way, which is
  what makes the removal loop skip a button. The constraint `Bound` keeps three windows
  together on one workspace with none minimized; every pair of them has no such limit. While
  a window is marked as moved unnoticed (`lost`), there is one other at most, none is minimized,
  `prev_active` is empty and `curr_active` no deleted button.
  Windows and workspaces are symmetric (all properties of the run are safety properties).
- `wm`, `wm_all`: two windows, two frames, two workspaces; `MaxPending` = 1 lets a request
  come while one event is unread, for the requests without their own exceptions. `wm_all` has
  all requests, made when no event is unread, and one window may be a dialog of the other;
  after a window is detached or a frame made sticky `MaxAfter` = 1 more request follows, since
  their workspaces may then be any and multiply the states. Two windows
  are what a wrong focus or a wrong tab takes. Which requests a property of `wm` does not
  survive is listed with the proofs.
- `frame`: two tabs; heights are small numbers with a titlebar of 2, a head of 9 and 8 of it
  free of panels; `MaxHeight` = 8 bounds frames that grow each time a titlebar comes back.
  The requests come in sets: sizes, shading and decoration with and without narrow titles;
  filling; and layers, which share no state with sizes but fullscreen. What arrives is a
  plain window, one without decoration that asks to be shaded, one shaded and fullscreen,
  and one maximized upwards that is kept below.
- `shell`: `Desktop`: three icons, `MaxSel` = 3. `Calc`: three operators on three priorities, all
  assignments of them, two brackets, eight keys: `a + b * c` in a bracket and one more
  operator. `Panel`: two screens, two widths, two icons, `MaxTimers` = 3, that is two clicks
  while the panel moves. `StartMenu`: three changes in seventeen seconds, enough for a burst,
  its update and a change after it. `XdgMenu`: two ids in three directories, two categories,
  seven rules. `Prompt`: one letter and the blank, words of two letters. `Stacking`: three
  windows, an owner, its dialog and that one's, `MaxAsked` = 2 changes of layers. `Menus`: a
  root, two submenus, one of them filled by a command, a submenu in each. `Harbour`: three
  apps of one or two units on a head of three, `MaxLoose` = 2 of them dragged or resized at a
  time. Icons and windows are symmetric.

### Fairness

- `EvokeSession`: the program takes its own steps (`Start`, `Check`, `WaitReturns`,
  `Handler`), since it has one thread that the kernel schedules. The user and other X
  clients owe nothing; `StopEnds` assumes in its text that no dialog is left open for ever.
- `EvokeStartup`: each started process is scheduled and its FLTK timer expires. Nobody
  has to close the splash or start a process.
- `BugReport`: both threads are scheduled. The code sets no time limit on its remote calls,
  so their return is not fair, and neither is the user: `SendEnds` assumes in its text that
  no call hangs and no message box stays open for ever.
- `NotifyDaemon`: a timer that is set fires. Pointer movements are not fair: `Expires`
  assumes that the pointer leaves the window.
- `Wm`: pekwm reads the events that are there (`HandleEvent`), since its loop does nothing
  else. Requests are not fair. That it comes to rest is checked as a bound (`Settles`): five events after any request made
  when it was at rest.
- The other modules state no fairness: their properties are about what a step may do.

## Proofs

All theorems hold for every value of the constants that satisfies the named assumptions,
which TLC evaluates in the runs above: `NamesAssumption` and `MarkerAssumption` (`Xsm`),
`StartupAssumption`, `SessionAssumption`, `SendAssumption`, `DaemonAssumption`,
`TabsAssumption`, `WmAssumption`, `FrameAssumption`, `ShellAssumption` and
`TaskbarAssumption`. They say that marks like `None` are no window, that numbers are
numbers, and: there are finitely many windows and frames, and a frame for each window
(`Wm`, `Taskbar`); no window is empty (`FrameState`) and no dock app is (`Shell`); a dialog's
owner is not itself a dialog, a screen is as wide as the button that hides the panel, and
there are finitely many priorities.

**evoke.**

- `HarbourProofs`, last part: `TypeCorrect`, `Restored` (`RestoredAfterQuit`),
  `SettingsDurable` (`Durable`) and `TextKept` (`TextSurvives`) of `Xsm`. Types alone are not
  inductive: `WriteConf` writes what the property holds, so `PropInv` (the property is set
  wherever the settings file is open) goes with them in `TInv`. `RestoredAfterQuit` speaks of
  the end of a session only; `FilesInv` says where the user's file is at each place on the
  way: in `~/.Xdefaults` until `Backup`, in the backup while the session runs, and back after
  `Undo`. `Durable` needs the same for the settings between the moment the manager is told to
  stop and the save. `TextKept` rests on `SurvivesInv`, over all crash points of
  `xresource_replace` and `xresource_undo`: a first crash between the two renames leaves the
  lines in the backup and no `~/.Xdefaults`, so that the next start has nothing to rename
  over the backup.
- `EvokeProofs`, startup: `Refinement` (`StartsInOrder`) and `LockGuards`
  (`LockGuardsRunning`, assuming no "race"). The refinement needs `Counted`: while a
  process can still start something its log is as long as its counter, so that the item
  the code takes from the list is the one the abstract process is due to start. `LockInv`
  adds to mutual exclusion that the processes with the lock are exactly those running or
  leaving, and that one about to create the file is alone.
- `EvokeProofs`, session end: `ActsAsAnswered` (`OnlyOnAnswer`), for any number of requests,
  programs and waiting events. `OneDialog` says that, as long as no dialog was opened inside
  another, one activation of `handle()` at most is under way, that its dialog is the only one
  on the screen, and that `ret_option` is what this shows while it is there, and the answer
  afterwards. `OnlyConfirmed` excludes that another step leads from a dialog to the action.

**Bug report and notifications** (`ProgramProofs`).

- `TypeCorrect`, `ThanksTrue` (`ThanksMeanReceived`), `NothingLost` (`NothingPulledAway`) and
  `CancelSeen` (`CancelHonoured`), for any number of attempts. They stand on one invariant:
  `Stored` (what the place of a worker says of its report) holds of every attempt, the other
  parts until a progress window is closed under its thread. `Single` says that only the
  attempt under way has a worker, `Waits` that the window stays while it runs, `Lines` that
  what ends an attempt is its last line and is gone before the next one, `Cancels` that a
  cancel in time is in the flag or in the worker's copy of it. Each needs the others: without
  `Lines` an early line could hide the window under its worker, without `Waits` a second
  worker could start.
- `DaemonTypeCorrect`, `Distinct` (`IdsDistinct`) and `OwnOnly` (`UpdatesOwn`). Distinct ids
  alone are not inductive, as a client may show a closed notification again under its old
  id; `GivenOnce` says that an id was given to one client only and that a window shows an id
  of its owner's.

**The panel's programs, the desktop, the command dialog** (`ShellProofs`; each for
`ShellSpec`, from an invariant of its own that its steps keep and the other programs' steps
do not concern).

- `DesktopIsRight` (`DesktopRight`), from `DeskInv`. That a selected icon is drawn so on the
  desktop is not kept by itself: an icon removed from the desktop stays in `selectionbuf`
  and may come back, so `SelSound` has every icon of the selection focused, wherever it is.
  `OneButton` ties the band, the dragged windows and the buttons of the mouse together
  until a second button is used.
- `PanelIsRight` (`PanelRight`), from `PanInv`: `Hidden` and `Shown` say, for any number of
  pending timeouts, what is kept for the way back, and that it is right from the click on;
  `TraySound` that an icon in the tray is alive or its death is reported, or marked.
- `StartMenuIsRight` (`StartMenuRight`), from `MenuInv`. A load must not return a menu that was
  seen before, which `MenuLoads` says by the number of each load (memory that is reused
  after `delete` is a new menu here); `MenuAlive` that what waits is not what is shown;
  `FreshNext` that what will be shown next is what the disk has, unless the last change is
  one that no update followed (`unseen`).
- `PromptIsRight` (`PromptRight`), from `PromptInv`, for texts and dictionaries of any length.
  `Completing` follows a completion over the keys between its calls: only erasing leaves it
  running, so that a text of the same length as the last result is that result, and its
  completions are still those of the text it began with.
- The taskbar: `ButtonsFollowWindows` (`ButtonsFollow`), `ButtonsShown` (`ShownAreHere`),
  `OrderOfButtonsKept` (`OrderKept`) and `NextShown` (`NextIsVisible`), for any number of
  windows, workspaces and events on their way. The loop of `update_task_buttons`
  skips the button after one it deletes, but a pass deletes at least one button without a
  window if there is any (`KeptAre`), and a change of the list makes one more at most
  (`OneMoreAtMost`); that is why `ButtonsFollow` is kept. For `ShownAreHere`, `WorkspaceNoted` and `DesktopsNoted` say that a workspace
  the panel has not noted is that of an event on its way, or that the window is `lost`.

**Harbour and calculator** (`HarbourProofs`).

- `HarbourIsRight` (`HarbourRight`), from `HarbInv`. Without sorting, an app that was found a
  place is apart from all those placed before it (`Free`), which needs that the search moves
  behind what is in its way and stops where nothing is. With it, the list stays ranked by
  position (`Ranked`), and the apps follow one another in that order without overlap
  (`Lined`) where the direction of placing is the right one, which is more than being apart
  and is what an insertion preserves. `StrutNoted` is that `_size` is the widest app's.
- `CalcStackRises`, the second half of `CalcRight`: between two brackets the pending priorities
  rise (`Rising`), so that there are no more operators than priorities between them
  (`RiseIsBounded`: the operators map to distinct priorities), which bounds the stack. Its
  arrays are made for three priorities; for more, see `FitsArray`.

**pekwm.**

- `FrameTreeProofs`: `TypeInvariant` and `TreeInvariant` of `FrameTree`: whatever windows are
  opened, closed, grouped, detached and moved, a client is a tab of its parent only, no tab
  is twice in a frame, and the tab in front is one of its own. The operations of `Tabs` are
  treated one by one in lemmas (`MoveRelTabs`, `RemoveGood`, `MergeGood`, ...) that say what
  each does to a record with these properties, and the actions are combinations of them.
- `WmProofs`: `GroupingImplemented` (`ImplementsFrameTree`: every step of `Wm` is one of
  `FrameTree` or a stutter), `ListsRight` (`ListsAgree`) and `GroupingSound` (`TreeOK` in `Wm`
  itself), for any number of windows, frames, workspaces and unread events. Most handlers
  only map, move and focus windows: `Keeps` says that a function leaves the grouping, the two
  lists of frames and the clients about to leave alone, and is shown for each function from
  those it calls, for `RunCalls` and `InTurn` by induction on the number of calls. What is
  left are the few that change them, each of which `Becomes` a state with the tree that an
  operation of `Tabs` yields. The refinement alone is not inductive: `WmInv` adds that the
  lists hold the frames that exist (a frame that is deleted must be found in them), and
  `Leaving` that the server's word of a window that is gone comes once, so that no
  client is removed twice. The lemmas of `FrameTreeProofs` are used through an instance, on
  the tree inside the manager's record.
- `WmProofs`, nested calls: `TabsFollowFrames` (`TabsFollow`), and `NestedCallsEnd` at the end
  of `WmShownProofs`. What `RunCalls` leaves is known only once its calls are over, so the
  first thing shown is that they end: `MapLeft` and `HideLeft` add up the calls that wait and
  those that could still be made (a window whose frame is not mapped, a frame with an owner
  and not mapped, the tabs of the frame being hidden, the frames and windows not yet
  iconified); each call takes one away at least (`MapLess`, `HideOn`), and a call on a reachable
  state starts with `MaxCalls` at most. On the way, `HideSound` says what each call that waits will still
  put right, and `Tabbed(t, X)` is what is left: a mapped frame exists, is not iconified and
  has its tab in front mapped, and a mapped window is in a mapped frame, but for those in X
  that a function is about to see to. `TabsInv` (`WmInv` and `Tabbed`) is inductive as long as
  no window is detached.
- `WmShownProofs`, what is shown: `FramesVisible` (`Visible`), from `ShownInv`. `Shown(t, X)`
  is `Visible` but for the frames X that a loop over all frames (`HideAll`, `UnhideAll`) has
  not come to. It needs `Located` (workspaces are those that exist) and `Apart` (nothing is
  sticky if windows are iconified, and nothing is iconified if they are not).
- `WmShownProofs`, the focus: `FocusBelieved` (`InputAgrees`) and `NoFrameFalselyFocused`
  (`NoFalseFocus`), for any number of events on their way. Neither speaks of a time when
  events are unread, and the invariant is all about it. `Heard`: the server's focus is on a
  window that is shown, the last FocusIn on its way names it, and no later event says that it
  was unmapped. `Believed`: if no FocusIn is on its way, `focused` is the server's focus, or
  the focus is on the root window and the manager has no focused window, or one that is about
  to leave. `Lit(t, X)`: a frame that is drawn as focused is mapped and holds the window that
  is focused, or the one a FocusIn on its way names, or one that is about to leave. `Minds` is
  what each function keeps of all this, and `Read` what is left when an event was taken from
  the queue and is not yet answered.

  These four properties are theorems for the requests under which they are true. TLC finds,
  with two windows (three for "mark") and in 4 to 15 steps, what the others lead to:

  | Property | Broken by | because |
  | --- | --- | --- |
  | `TabsFollow` | "detach" | the workspace kept for the client is not that of its frame, so the new frame is hidden at once and its window is not |
  | `Visible` | "size" | when the workspace shown is removed, the last one left becomes active and its frames stay hidden |
  | `Visible` | "stick" with "iconify" | when a program maps the window of an iconified sticky frame whose workspace is not shown, the frame is no longer iconified but stays hidden |
  | `Visible` | "restore" with "iconify" | an iconified frame of another workspace is mapped |
  | `Visible`, `InputAgrees`, `NoFalseFocus` | dialogs | a dialog is mapped and hidden with its owner, whatever workspace its frame is on |
  | `InputAgrees`, `NoFalseFocus` | "stick" | a sticky frame stays mapped and has the focus when a change of workspace sets `_focused_wo` to none |
  | `InputAgrees`, `NoFalseFocus` | "restore" with "iconify" | the frame of another workspace that was mapped takes the focus, and `_focused_wo` is set to none when that workspace is entered |
  | `NoFalseFocus` | "detach" | the frame that was hidden at once stays drawn as focused |
  | `NoFalseFocus` | "mark" | the frame a focused window is taken from stays drawn as focused |

  The hypotheses exclude these and no more, except that the two about the focus exclude "size"
  and that about `InputAgrees` "detach" as well. TLC finds nothing that these two break, with
  two windows and two frames, but the proofs go through `Visible` and `TabsFollow`, which are
  broken by them. The requests of the run `wm` satisfy all hypotheses.
- `ProgramProofs`: `FlagsTogether` (`FlagsAgree`), `PartLeft` (`SomethingLeft`) and `WindowFits`
  (`ChildFits`), for any number of tabs and any heights. The operations are nested calls, so
  the proofs follow their structure: `Keeps` says what everything that is not about shading
  or maximizing leaves alone (and that the last part of a shaded frame stays), `Sound` is
  what `setShaded` and `setStateMaximized` preserve, and `Opens` describes a frame under
  construction, whose flags do not agree yet and which `getState` makes sound. `WindowFits` follows the
  same calls once more: whatever they change on the way, each ends with the size of the child
  set to what its frame leaves it. The window a frame is made for must not be empty.

`SequenceLemmas` has what these need of lists: the elements and the order of what `Sieve`,
`RemoveAt`, `InsertAt`, `Tail`, `\o` and `Append` yield, how often an element is in them,
and two forms of induction, as an argument over a set of numbers: `Least` and `Upward` (a
set that has 0 and the successor of each of its members below k has all numbers up to k).
With these a recursive function can be proved about, as long as its claim is written out at
each place, since a theorem that takes the claim as an operator cannot be instantiated.
Operators of the libraries that are folds or choices of sequences (`SelectSeq`, `FoldLeft`,
`SetToSeq`) remain closed to the provers, which is why the models have `Sieve` and functions
of an index instead where a proof goes through them.

Model-checked only:

- all liveness (`StopEnds`, `StartupEnds`, `SendEnds`, `Expires`), which is out of the prover's
  reach;
- `Settles` of `Wm`, which bounds the events that answer events: a function of the server's
  queue and of what the manager does with it later, not of one pass of its loop;
- the first half of `CalcRight` (`EvaluatesLine`): its reference evaluates the line by
  recursion, and `Collapse` is a fold;
- `XdgMenuRight`, `StackingRight` and `MenusRight`: their modules compute with recursion over
  trees and lists whose end is itself a question (a menu under a menu, dialogs of dialogs).


## What is left out

- Sizes, pixels, fonts, icons, texts and their translation, in all modules, but for the
  heights of `FrameState` and the lengths of `Panel` and `Harbour`, which are about them.
- The X server's and the window manager's own rules: what they may do is an action, what
  they must do is not assumed. In `Taskbar` a request to activate a window is followed at once.
- In `Xsm`: the byte format of the property, several screens, priorities of resources.
- In `EvokeSession`: the search for client windows (`mu_try_children`), whose recursion does
  not end for some window trees, since it calls itself with the window it was given.
- In `BugReport`: the form's fields, gdb's output, the XML-RPC library.
- In `NotifyDaemon`: where windows are placed; windows are never deleted in the code, which
  the model abstracts by using the number of a hidden window again.
- In `Taskbar`: the menu of a button, the option `all_desktops`, titles and icons.
- In `Wm`: autoproperties, Enter events of the pointer, windows that refuse the focus. In
  `Menus`: the reading of the menu file again while menus are open (`MenuHandler::reloadMenus`
  goes on with an iterator it has erased, `MenuHandler.cc:205`), and the window lists.

Not modelled:

- ede-launch is one sequence of fork, exec and wait; what could go wrong depends on its
  child. Read, not checked: the pipes of the child are not read while `waitpid` blocks;
  `RETURN_FROM_BOOL` returns 1 on success; exit codes 199 and 13 of a program are taken for
  errors of exec; a failed fork is treated as a program that runs.
- ede-autostart is one pass over directories: a file hides another by its name alone, valid
  or not, and `Hidden` and `OnlyShowIn` are found by a search for text.
- The parsers of pekwm (configuration, themes, key bindings, autoproperties), the drawing
  code, the image loaders and the forms keep no state that a sequence of operations could
  break; they are most of the lines of the repository.
- ede-crasher, ede-timedate, the small applets and the dialogs show a value, or write a
  file, once.

Observed in the code and modelled, but without a run of their own: Flush with no settings
left writes nothing; a signal between the test of the loop and its wait is noticed at the
next X event only; minimized programs, and all programs on the path by system command, are
not closed at logout; closing the splash drops the remaining items; an item written with a
space after the comma is not started; the taskbar's `curr_active` and `prev_active` outlive
their buttons, and after a click `prev_active` is the button clicked, so that nothing is
activated in place of a window minimized by the next click; unsetting "tagged" by way of
another frame tags that one; the next workspace below an incomplete last row is one that
does not exist.

## Plan

1. *Done*: the modules and theorems above, the refinement of `FrameTree` by `Wm`, and
   `ChildFits`.
2. Proofs: `InputAgrees` with "detach" and "size", which needs of `Visible` and `TabsFollow`
   only the parts that these leave; the order of the windows, once the nested calls of
   `Stacking` are a list as in `Wm`.
3. `Menus` while `MenuHandler` reads the menu file again; autoproperties in `Wm`.
4. A composition of evoke, the panel and the notify daemon over a shared X server, where
   a property changes between its event and the reading of it.

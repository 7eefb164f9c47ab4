------------------------------ MODULE Taskbar ------------------------------
(***************************************************************************)
(* The taskbar of ede-panel (Taskbar.cpp): the list of buttons kept in     *)
(* step with the list of windows the window manager publishes, one         *)
(* property event of the X server at a time, and what a click does.        *)
(*                                                                         *)
(* A button stands for its window, so it is named by it; the memory of a   *)
(* deleted button is Freed until a new button may be put there.  Windows   *)
(* that get no button (transient, not manageable) are modelled only in     *)
(* that the list may hold some when it holds none of Windows.  A window    *)
(* that is mapped when its name has no button may be another one than      *)
(* before.  Left out: sizes, titles and icons, the menu of a button (it    *)
(* only asks the window manager), the option all_desktops.                 *)
(***************************************************************************)
EXTENDS Integers, Sequences, FiniteSets, SequencesExt, Sieve

CONSTANTS
    Windows,
    Workspaces,
    None, Freed,  \* no window or button; a button that was deleted
    MaxEvents     \* bound on the events on their way to the panel

AllWorkspaces == "all"

ASSUME TaskbarAssumption ==
    /\ IsFiniteSet(Windows) /\ MaxEvents \in Nat \ {0}
    /\ {AllWorkspaces, None} \cap Workspaces = {}
    /\ None # Freed /\ {None, Freed} \cap Windows = {}

VARIABLES
    clients,   \* the X server: the mapped windows, in the order of mapping,
    desktop,   \*   their workspaces,
    iconic,    \*   those minimized,
    active,    \*   the active window
    current,   \*   and the current workspace
    events,    \* property events the panel has not handled
    children,  \* the buttons, in their order
    wspace,    \* the workspace each button has noted
    visible,   \* the buttons not hidden
    curr_active, prev_active,
    current_workspace,
    missed,    \* history: the last change of workspace met no button
    lost       \* history: the buttons whose windows were moved unnoticed

xserver == <<clients, desktop, iconic, active, current>>
vars == <<xserver, events, children, wspace, visible, curr_active,
          prev_active, current_workspace, missed, lost>>

List == [type |-> "list"]
Active == [type |-> "active"]
Workspace == [type |-> "workspace"]
Desktop(w) == [type |-> "desktop", window |-> w]
Events == {List, Active, Workspace} \cup {Desktop(w) : w \in Windows}

Mapped == ToSet(clients)
Buttons == ToSet(children)

TypeOK ==
    /\ Mapped \subseteq Windows /\ IsInjective(clients)
    /\ desktop \in [Windows -> Workspaces \cup {AllWorkspaces}]
    /\ iconic \subseteq Mapped
    /\ active \in Mapped \cup {None}
    /\ {current, current_workspace} \subseteq Workspaces
    /\ events \in Seq(Events) /\ Len(events) <= MaxEvents
    /\ Buttons \subseteq Windows /\ visible \subseteq Buttons
    /\ wspace \in [Windows -> Workspaces \cup {AllWorkspaces, None}]
    /\ {curr_active, prev_active} \subseteq Buttons \cup {None, Freed}
    /\ missed \in BOOLEAN
    /\ lost \subseteq Buttons

Room == Len(events) < MaxEvents
Post(e) == events' = Append(events, e)
Take(e) == events # <<>> /\ Head(events) = e /\ events' = Tail(events)

-----------------------------------------------------------------------------
(* The other clients and the window manager                                *)

Map(w) ==
    /\ Room /\ w \notin Mapped
    /\ clients' = Append(clients, w)
    /\ Post(List)
    /\ UNCHANGED <<desktop, iconic, active, current>>

(* When w was the active window none is: the event of that is left out, as *)
(* the panel does nothing about it.                                        *)
Unmap(w) ==
    /\ Room /\ w \in Mapped
    /\ clients' = RemoveFirst(clients, w)
    /\ iconic' = iconic \ {w}
    /\ active' = IF active = w THEN None ELSE active
    /\ Post(List)
    /\ UNCHANGED <<desktop, current>>

(* A window becomes active, restored when it was minimized, or none does.  *)
Focus(w) ==
    /\ Room /\ w \in Mapped \cup {None} /\ w # active
    /\ active' = w
    /\ iconic' = iconic \ {w}
    /\ Post(Active)
    /\ UNCHANGED <<clients, desktop, current>>

SwitchWorkspace(d) ==
    /\ Room /\ d # current
    /\ current' = d
    /\ Post(Workspace)
    /\ UNCHANGED <<clients, desktop, iconic, active>>

(* The events of a window go to the panel since it has, or had, a button.  *)
MoveTo(w, d) ==
    /\ Room /\ w \in Mapped /\ d # desktop[w]
    /\ desktop' = [desktop EXCEPT ![w] = d]
    /\ \/ Post(Desktop(w))
       \/ w \notin Buttons /\ UNCHANGED events
    /\ UNCHANGED <<clients, iconic, active, current>>

Desktops ==
    /\ \/ \E w \in Windows : Map(w) \/ Unmap(w)
       \/ \E w \in Windows \cup {None} : Focus(w)
       \/ \E d \in Workspaces : SwitchWorkspace(d)
       \/ \E w \in Windows, d \in Workspaces \cup {AllWorkspaces} : MoveTo(w, d)
    /\ UNCHANGED <<children, wspace, visible, curr_active, prev_active,
                   current_workspace, missed, lost>>

-----------------------------------------------------------------------------
(* net_event_cb                                                            *)

VisibleOn(cw, d) == d \in {AllWorkspaces, cw}

(* update_active_button: the visible button of window w, when there is     *)
(* one; curr_active is otherwise left as it was.                           *)
ActiveButton(w, shown, before) == IF w \in shown THEN w ELSE before

(* Mutant: the loop starts at the second button.                           *)
KeptFromSecond == Sieve(children, Mapped \cup {children[1]})

(* The loop goes on with i + 1 after the button at i was removed, so the   *)
(* button that moved to i is kept unseen.                                  *)
Kept ==
    LET removed[i \in 0..Len(children)] ==
            i > 0 /\ children[i] \notin Mapped /\ ~ removed[i - 1]
    IN  Sieve(children, {children[i] : i \in {j \in DOMAIN children : ~ removed[j]}})

Added == Sieve(clients, Windows \ ToSet(Kept))

(* What a pointer to a button is after those not in kept were deleted and  *)
(* those in added made, perhaps at the same place.                         *)
Pointers(p, kept, added) ==
    IF p \in kept \cup {None} THEN {p} ELSE {Freed} \cup added

(* The workspace of a new window is read before its events are selected:   *)
(* it may be changed in between.                                           *)
MovedUnnoticed(added) ==
    /\ desktop' \in [Windows -> Workspaces \cup {AllWorkspaces}]
    /\ \A w \in Windows \ added : desktop'[w] = desktop[w]

UpdateTaskButtons ==
    LET kept == ToSet(Kept)
        added == ToSet(Added)
        shown == (visible \cap kept)
                    \cup {w \in added : VisibleOn(current_workspace, desktop[w])}
    IN  /\ children' = Kept \o Added
        /\ wspace' = [w \in Windows |-> IF w \in added THEN desktop[w]
                                   ELSE IF w \in kept THEN wspace[w] ELSE None]
        /\ visible' = shown
        /\ \E p \in Pointers(curr_active, kept, added) :
             curr_active' = ActiveButton(active, shown, p)
        /\ prev_active' \in Pointers(prev_active, kept, added)
        /\ MovedUnnoticed(added)
        /\ lost' = (lost \cap kept) \cup {w \in added : desktop'[w] # desktop[w]}

(* No window in the list: clear(), and nothing else.                       *)
ClearTaskButtons ==
    /\ clients = <<>>
    /\ children' = <<>>
    /\ visible' = {}
    /\ wspace' = [w \in Windows |-> None]
    /\ curr_active' \in Pointers(curr_active, {}, {})
    /\ prev_active' \in Pointers(prev_active, {}, {})
    /\ lost' = {}
    /\ UNCHANGED desktop

ListChanged ==
    /\ Take(List)
    /\ UpdateTaskButtons \/ ClearTaskButtons
    /\ UNCHANGED <<clients, iconic, active, current, current_workspace, missed>>

ActiveChanged ==
    /\ Take(Active)
    /\ curr_active' = ActiveButton(active, visible, curr_active)
    /\ UNCHANGED <<xserver, children, wspace, visible, prev_active,
                   current_workspace, missed, lost>>

(* update_workspace_change returns at once when there is no button.        *)
WorkspaceChanged ==
    /\ Take(Workspace)
    /\ IF children = <<>>
       THEN UNCHANGED <<current_workspace, visible>>
       ELSE /\ current_workspace' = current
            /\ visible' = {w \in Buttons : VisibleOn(current, wspace[w])}
    /\ missed' = (children = <<>>)
    /\ UNCHANGED <<xserver, children, wspace, curr_active, prev_active, lost>>

(* Mutant: a button is shown when it is moved here, but never hidden.      *)
DesktopShows(w) ==
    /\ Take(Desktop(w))
    /\ wspace' = IF w \in Buttons THEN [wspace EXCEPT ![w] = desktop[w]] ELSE wspace
    /\ visible' = IF w \in Buttons /\ VisibleOn(current_workspace, desktop[w])
                  THEN visible \cup {w} ELSE visible
    /\ lost' = lost \ {w}
    /\ UNCHANGED <<xserver, children, curr_active, prev_active,
                   current_workspace, missed>>

DesktopChanged(w) ==
    /\ Take(Desktop(w))
    /\ IF w \in Buttons
       THEN /\ wspace' = [wspace EXCEPT ![w] = desktop[w]]
            /\ visible' = IF VisibleOn(current_workspace, desktop[w])
                          THEN visible \cup {w} ELSE visible \ {w}
       ELSE UNCHANGED <<wspace, visible>>
    /\ lost' = lost \ {w}
    /\ UNCHANGED <<xserver, children, curr_active, prev_active,
                   current_workspace, missed>>

-----------------------------------------------------------------------------
(* The mouse                                                               *)

(* netwm_window_set_active, which the window manager follows at once here. *)
Activate(x) ==
    /\ active' = IF x \in Mapped THEN x ELSE active
    /\ iconic' = iconic \ {x}
    /\ prev_active' = ActiveButton(x, visible, curr_active)
    /\ IF active' # active THEN Post(Active) ELSE UNCHANGED events

(* Minimized, a window is not active any more: another one is, or none.    *)
Minimize(w) ==
    /\ iconic' = iconic \cup ({w} \cap Mapped)
    /\ \E a \in (Mapped \ iconic') \cup {None} :
         IF active = w THEN active' = a /\ Post(Active)
                       ELSE UNCHANGED <<active, events>>

(* Mutant: the workspace of the next button is not looked at.              *)
NextAnywhere(b) ==
    /\ prev_active \in Buttons \ (iconic \cup {b})

(* The button to activate in place of b, which is minimized.               *)
NextAfter(b) ==
    /\ prev_active \in Buttons \ (iconic \cup {b})
    /\ wspace[prev_active] = wspace[b]

(* b is minimized and the window x activated.                              *)
InPlaceOf(b, x) ==
    /\ active' = IF x \in Mapped THEN x ELSE None
    /\ iconic' = (iconic \cup ({b} \cap Mapped)) \ {x}
    /\ prev_active' = ActiveButton(x, visible, curr_active)
    /\ Post(Active)

(* The button that is active.  What a deleted prev_active is read as may   *)
(* be anything.                                                            *)
ClickActive(b) ==
    /\ b = curr_active /\ b \notin iconic
    /\ \/ /\ NextAfter(b)
          /\ InPlaceOf(b, prev_active)
          /\ curr_active' = prev_active
       \/ /\ prev_active = Freed
          /\ \E x \in Windows : InPlaceOf(b, x)
          /\ curr_active' = Freed
       \/ /\ ~NextAfter(b)
          /\ Minimize(b)
          /\ UNCHANGED <<curr_active, prev_active>>

ClickOther(b) ==
    /\ b # curr_active \/ b \in iconic
    /\ Activate(b)
    /\ curr_active' = b

Click(b) ==
    /\ Room /\ b \in visible
    /\ ClickActive(b) \/ ClickOther(b)
    /\ UNCHANGED <<clients, desktop, current, children, wspace, visible,
                   current_workspace, missed, lost>>

(* Mutant: the two buttons change places.                                  *)
DropSwaps(b, o) ==
    /\ b \in visible /\ o \in Buttons \ {b}
    /\ children' = [i \in DOMAIN children |->
                      CASE children[i] = b -> o [] children[i] = o -> b
                        [] OTHER -> children[i]]
    /\ UNCHANGED <<xserver, events, wspace, visible, curr_active, prev_active,
                   current_workspace, missed, lost>>

(* try_dnd: b, dropped on o, takes its place.  A hidden button keeps the   *)
(* place it had and may be hit too.                                        *)
Drop(b, o) ==
    /\ b \in visible /\ o \in Buttons \ {b}
    /\ \E i \in DOMAIN children :
         children[i] = o /\ children' = InsertAt(RemoveFirst(children, b), i, b)
    /\ UNCHANGED <<xserver, events, wspace, visible, curr_active, prev_active,
                   current_workspace, missed, lost>>

-----------------------------------------------------------------------------

(* The panel has been started: configure() has called update_task_buttons  *)
(* once more, with the events selected.                                    *)
Init ==
    /\ clients \in SetToAllKPermutations(Windows)
    /\ desktop \in [Windows -> Workspaces]
    /\ iconic = {}
    /\ active = None
    /\ current \in Workspaces
    /\ current_workspace = current
    /\ events = <<>>
    /\ children = clients
    /\ wspace = [w \in Windows |-> IF w \in Mapped THEN desktop[w] ELSE None]
    /\ visible = {w \in Mapped : VisibleOn(current, desktop[w])}
    /\ curr_active = None /\ prev_active = None
    /\ missed = FALSE
    /\ lost = {}

Next ==
    \/ Desktops
    \/ ListChanged \/ ActiveChanged \/ WorkspaceChanged
    \/ \E w \in Windows : DesktopChanged(w) \/ Click(w)
    \/ \E b, o \in Windows : Drop(b, o)

Spec == Init /\ [][Next]_vars

-----------------------------------------------------------------------------
(* Properties                                                              *)

Pending(e) == Cardinality({i \in DOMAIN events : events[i] = e})

(* However many windows go away before the panel looks, and although the   *)
(* removal loop of update_task_buttons skips buttons, there are never more *)
(* buttons without a window than changes of the list not handled yet: none *)
(* is left over once all are.  No window has two buttons, and then none is *)
(* without one (the searches of update_task_buttons).                      *)
ButtonsFollow ==
    /\ Cardinality(Buttons \ Mapped) <= Pending(List)
    /\ IsInjective(children)
    /\ Pending(List) = 0 => Mapped \subseteq Buttons

(* Once everything is handled the buttons shown are those of the windows   *)
(* on the current workspace, unless the last change of workspace met an    *)
(* empty taskbar, and except for a window moved while its button was made  *)
(* and not again since.                                                    *)
ShownAreHere ==
    events = <<>> /\ ~missed =>
        \A w \in Buttons \ lost : w \in visible <=> VisibleOn(current, desktop[w])

(* Not true: for the windows in "lost" as well (update_task_buttons reads  *)
(* the workspace at Taskbar.cpp:194 and selects the events at :205).       *)
AllShownAreHere ==
    events = <<>> /\ ~missed =>
        visible = {w \in Buttons : VisibleOn(current, desktop[w])}

(* Buttons stay in the order the user gave them: only the button that is   *)
(* dragged moves (update_task_buttons, try_dnd).                           *)
Precedes(list, v, w) ==
    \E i, j \in DOMAIN list : i < j /\ list[i] = v /\ list[j] = w

OrderKept ==
    [][\E b \in Windows \cup {None} : \A v, w \in (Buttons \cap ToSet(children')) \ {b} :
         Precedes(children, v, w) => Precedes(children', v, w)]_vars

(* The window activated in place of the one a click minimizes is on the    *)
(* workspace the user sees: its button is visible (activate_window).       *)
NextIsVisible ==
    [][\A b \in visible :
         b \in iconic' \ iconic /\ curr_active' \in Buttons \ {curr_active}
         => curr_active' \in visible]_vars
=============================================================================

--------------------------------- MODULE Wm --------------------------------
(***************************************************************************)
(* pekwm, the window manager of EDE: clients, the frames that hold them,   *)
(* workspaces and the input focus, together with the part of the X server  *)
(* they depend on.  One action is one pass of the event loop: an event     *)
(* from the server, or a request of the user, a pager or a program, with   *)
(* every call its handler makes.  A handler is a chain of calls, so it is  *)
(* written as an operator from state to state, and the whole state is one  *)
(* record s:                                                               *)
(*   kids, child, parent    see Tabs.tla                                   *)
(*   fws, fmapped, ficon, fsticky, ffocused   _workspace, _mapped,         *)
(*           _iconified, _sticky and _focused of each Frame                *)
(*   cws, cmapped, cicon, csticky             the same of each Client      *)
(*   transient   _transient, the client a dialog has found its owner to be *)
(*   focused     _focused_wo: a client, Root or None                       *)
(*   last        _last_focused of each Workspace                           *)
(*   mru, wolist _mru_list and the _wo_list of Workspaces                  *)
(*   active, size   the current workspace and their number                 *)
(*   input       the window that has the input focus in the X server       *)
(*   gone        clients whose programs have withdrawn them                *)
(*   queue       events of the server that pekwm has not read              *)
(* The queue is in the order of the server.  A request is taken as one the *)
(* server sent before the events still in the queue, so it may be handled  *)
(* first; one that arrives later is handled when the queue is shorter.     *)
(*                                                                         *)
(* Left out: menus, dialogs, dock windows, autoproperties, windows that    *)
(* refuse the focus, the pointer and its Enter events, layers (Stacking)   *)
(* and geometry (FrameState).  The owner of a transient is not itself      *)
(* transient.                                                              *)
(***************************************************************************)
EXTENDS Tabs, Sieve, FiniteSets

CONSTANTS
    Root,           \* the root window
    MaxWorkspaces,
    TransientFor,   \* [Clients -> Clients \cup {None}], WM_TRANSIENT_FOR
    Ops,            \* the requests of users and programs that are made
    MaxPending      \* requests come while no more events are queued

Workspaces == 0..(MaxWorkspaces - 1)

ASSUME WmAssumption ==
    /\ Root \notin Clients \cup Frames \cup {None}
    /\ MaxWorkspaces \in Nat \ {0} /\ MaxPending \in Nat
    /\ TransientFor \in [Clients -> Clients \cup {None}]
    /\ \A c \in Clients : TransientFor[c] # None => TransientFor[TransientFor[c]] = None
    /\ IsFiniteSet(Clients) /\ IsFiniteSet(Frames)
    /\ Cardinality(Frames) >= Cardinality(Clients)

VARIABLE s

FocusIn(w) == [type |-> "FocusIn", window |-> w]
Withdrawn(c) == [type |-> "Withdrawn", window |-> c]  \* Unmap of c, reported to c
Unmapped(w) == [type |-> "Unmapped", window |-> w]    \* Unmap of w, reported to
                                                      \* the window w is in
IsManaged(t, c) == t.parent[c] # None
Managed == {c \in Clients : IsManaged(s, c)}
Live == {f \in Frames : Exists(s, f)}

Post(t, e) == [t EXCEPT !.queue = Append(@, e)]
----------------------------------------------------------------------------
(* The X server.  A window that stops being viewable loses the input focus *)
(* (RevertToPointerRoot: the root window, as no other is under the pointer *)
(* here).                                                                  *)
Viewable(t, c) ==
    /\ c \notin t.gone /\ t.cmapped[c]
    /\ IsManaged(t, c) /\ t.fmapped[t.parent[c]]

LoseInput(t, c) ==
    IF t.input = c THEN Post([t EXCEPT !.input = Root], FocusIn(Root)) ELSE t

XSetInputFocus(t, w) ==
    IF t.input # w /\ (w = Root \/ Viewable(t, w))
    THEN Post([t EXCEPT !.input = w], FocusIn(w))
    ELSE t

(* XUnmapWindow and XReparentWindow of a client that is mapped *)
XUnmapWindow(t, c) ==
    IF c \in t.gone THEN t ELSE LoseInput(Post(t, Unmapped(c)), c)

(* PWinObj::reparent *)
Reparent(t, c) == IF t.cmapped[c] THEN XUnmapWindow(t, c) ELSE t
----------------------------------------------------------------------------
(* Focus *)
GiveClientFocus(t, c) == IF t.cmapped[c] THEN XSetInputFocus(t, c) ELSE t

(* PDecor::giveInputFocus *)
GiveFrameFocus(t, f) ==
    IF t.fmapped[f] THEN GiveClientFocus(t, t.child[f]) ELSE XSetInputFocus(t, Root)

(* setFocused of the frame that shows wo *)
SetFocused(t, wo, b) ==
    IF wo \in Clients /\ IsManaged(t, wo)
    THEN [t EXCEPT !.ffocused[t.parent[wo]] = b]
    ELSE t

(* WindowManager::findWOAndFocus *)
FindWOAndFocus(t, search) ==
    LET usable == {f \in Frames : Exists(t, f) /\ t.fmapped[f]}
        recent == Sieve(t.mru, usable)
    IN  IF search \in usable THEN GiveFrameFocus(t, search)
        ELSE IF recent # <<>> THEN GiveFrameFocus(t, recent[Len(recent)])
        ELSE IF t.focused = None THEN XSetInputFocus(t, Root)
        ELSE t
----------------------------------------------------------------------------
(* Mapping.  The windows whose owner is c are mapped and iconified with it *)
(* when they are in front in their frames (Client::mapOrUnmapTransients),  *)
(* so that calls nest to any depth.  A body is what a function does before *)
(* it calls others, and the calls it goes on with; RunCalls makes them in  *)
(* the order of the code.  A frame that is mapped or iconified already     *)
(* returns at once, so there are no more than MaxCalls.                    *)
Call(name, x) == [name |-> name, of |-> x]
ForEach(name, q) == [i \in 1..Len(q) |-> Call(name, q[i])]
Body(t, calls) == [state |-> t, calls |-> calls]

MaxCalls == 4 * Cardinality(Clients) + Cardinality(Frames) + 2

InFront(t, f, d) == t.parent[d] = f /\ t.child[f] = d

FamilyFrames(t, c) ==
    SetToSeq({f \in Frames : \E d \in Clients : InFront(t, f, d) /\ TransientFor[d] = c})

(* Client::mapWindow *)
MapClientBody(t, c) ==
    IF t.cmapped[c] THEN Body(t, <<>>)
    ELSE Body([t EXCEPT !.cicon[c] = FALSE, !.cmapped[c] = TRUE],
              IF t.transient[c] # None THEN <<>>
              ELSE ForEach("MapFrame", FamilyFrames(t, c)))

(* PDecor::mapWindow *)
MapFrameBody(t, f) ==
    IF t.fmapped[f] THEN Body(t, <<>>)
    ELSE Body([t EXCEPT !.fmapped[f] = TRUE, !.ficon[f] = FALSE],
              ForEach("MapClient", t.kids[f]))

(* Client::unmapWindow *)
UnmapClient(t, c) ==
    IF t.cmapped[c] THEN XUnmapWindow([t EXCEPT !.cmapped[c] = FALSE], c) ELSE t

(* Client::iconify *)
IconifyClientBody(t, c) ==
    IF t.cicon[c] THEN Body(t, <<>>)
    ELSE Body([t EXCEPT !.cicon[c] = TRUE],
              (IF t.transient[c] # None THEN <<>>
               ELSE ForEach("IconifyFrame", FamilyFrames(t, c)))
              \o <<Call("UnmapClient", c)>>)

(* PDecor::unmapWindow *)
UnmapFrameBody(t, f) ==
    IF ~ t.fmapped[f] THEN Body(t, <<>>)
    ELSE Body(t, ForEach(IF t.ficon[f] THEN "IconifyClient" ELSE "UnmapClient", t.kids[f])
                 \o <<Call("HideFrame", f)>>)

HideFrame(t, f) ==
    Post([t EXCEPT !.fmapped[f] = FALSE, !.ffocused[f] = FALSE], Unmapped(None))

(* Frame::iconify *)
IconifyFrameBody(t, f) ==
    IF t.ficon[f] THEN Body(t, <<>>)
    ELSE Body([t EXCEPT !.ficon[f] = TRUE], <<Call("UnmapFrame", f)>>)

BodyOf(t, call) ==
    CASE call.name = "MapClient"     -> MapClientBody(t, call.of)
      [] call.name = "MapFrame"      -> MapFrameBody(t, call.of)
      [] call.name = "IconifyClient" -> IconifyClientBody(t, call.of)
      [] call.name = "IconifyFrame"  -> IconifyFrameBody(t, call.of)
      [] call.name = "UnmapFrame"    -> UnmapFrameBody(t, call.of)
      [] call.name = "UnmapClient"   -> Body(UnmapClient(t, call.of), <<>>)
      [] call.name = "HideFrame"     -> Body(HideFrame(t, call.of), <<>>)
      [] call.name = "Reparent"      -> Body(Reparent(t, call.of), <<>>)

Then(b, calls) == Body(b.state, b.calls \o calls)

NextCall(r) ==
    IF r.calls = <<>> THEN r
    ELSE Then(BodyOf(r.state, Head(r.calls)), Tail(r.calls))

RunCalls(t, calls) ==
    LET r[i \in 0..MaxCalls] == IF i = 0 THEN Body(t, calls) ELSE NextCall(r[i - 1])
    IN  r[MaxCalls].state

MapClient(t, c) == RunCalls(t, <<Call("MapClient", c)>>)
MapFrame(t, f) == RunCalls(t, <<Call("MapFrame", f)>>)
UnmapFrame(t, f) == RunCalls(t, <<Call("UnmapFrame", f)>>)
IconifyFrame(t, f) == RunCalls(t, <<Call("IconifyFrame", f)>>)
----------------------------------------------------------------------------
(* Workspaces *)

Clamp(t, n) == IF n < t.size THEN n ELSE t.size - 1

(* MUTANT of SetFrameWorkspace: a frame that comes here stays unmapped. *)
SetFrameWorkspaceHides(t, f, n) ==
    LET w == Clamp(t, n)
        u == [t EXCEPT !.fws[f] = w,
                       !.cws = [c \in Clients |-> IF t.parent[c] = f THEN w ELSE @[c]]]
    IN  IF t.fsticky[f] \/ w = t.active THEN u ELSE UnmapFrame(u, f)

(* PDecor::setWorkspace *)
SetFrameWorkspace(t, f, n) ==
    LET w == Clamp(t, n)
        here == t.fsticky[f] \/ w = t.active
        u == [t EXCEPT !.fws[f] = w,
                       !.cws = [c \in Clients |-> IF t.parent[c] = f THEN w ELSE @[c]]]
    IN  IF ~ u.fmapped[f] /\ ~ u.ficon[f]
        THEN IF here THEN MapFrame(u, f) ELSE u
        ELSE IF here THEN u ELSE UnmapFrame(u, f)

(* The frames in the order of _wo_list, each looked at when it is its turn. *)
Visit(t, purpose, n, f) ==
    CASE purpose = "hide" -> IF ~ t.fsticky[f] /\ t.fws[f] = n THEN UnmapFrame(t, f) ELSE t
      [] purpose = "show" -> IF ~ t.ficon[f] /\ t.fws[f] = n THEN MapFrame(t, f) ELSE t
      [] purpose = "move" -> IF t.fws[f] >= n THEN SetFrameWorkspace(t, f, n - 1) ELSE t

InTurn(t, purpose, n) ==
    LET r[i \in 0..Len(t.wolist)] ==
            IF i = 0 THEN t ELSE Visit(r[i - 1], purpose, n, t.wolist[i])
    IN  r[Len(t.wolist)]

(* Workspaces::hideAll *)
HideAll(t, n) == InTurn(t, "hide", n)

(* The frames of a workspace are mapped.  *)
ShowAll(t, n) == InTurn([t EXCEPT !.active = n], "show", n)

(* The window a workspace gives the focus to when it is entered: the one  *)
(* it was left with, if that still exists, else the top frame; None if it *)
(* is not mapped.                                                         *)
ToFocus(t, n) ==
    LET wo == t.last[n]
        mapped == Sieve(t.wolist, {f \in Frames : t.fmapped[f]})
    IN  IF wo = Root \/ (wo # None /\ IsManaged(t, wo))
        THEN IF wo = Root \/ t.cmapped[wo] THEN wo ELSE None
        ELSE IF mapped = <<>> THEN None ELSE t.child[mapped[Len(mapped)]]

GiveFocus(t, wo) ==
    LET u == [SetFocused(t, wo, TRUE) EXCEPT !.focused = wo]
    IN  IF wo \in Clients /\ t.cmapped[wo] THEN GiveClientFocus(u, wo)
        ELSE XSetInputFocus(u, Root)

Entered(t, n) == GiveFocus(t, ToFocus(t, n))

(* Workspaces::unhideAll *)
UnhideAll(t, n, focus) == IF focus THEN Entered(ShowAll(t, n), n) ELSE ShowAll(t, n)

(* Workspaces::setWorkspace *)
SetWorkspace(t, n, focus) ==
    IF n = t.active \/ n >= t.size THEN t
    ELSE LET u == SetFocused(t, t.focused, FALSE)
             v == [u EXCEPT !.last[t.active] = t.focused, !.focused = None]
         IN  UnhideAll(HideAll(v, t.active), n, focus)

(* Workspaces::setSize *)
SetSize(t, n) ==
    LET u == [t EXCEPT !.size = n, !.active = Clamp([t EXCEPT !.size = n], @)]
        moved == InTurn([u EXCEPT !.size = t.size], "move", n)
    IN  IF n >= t.size THEN [u EXCEPT !.active = t.active]
        ELSE [moved EXCEPT !.size = n,
                !.last = [w \in Workspaces |-> IF w < n THEN @[w] ELSE None]]
----------------------------------------------------------------------------
(* Frames and their clients *)

(* MUTANT of ApplyState: the client comes to the front unmapped. *)
ApplyStateOnly(t, f, c) ==
    [t EXCEPT !.csticky[c] = t.fsticky[f], !.cws[c] = Clamp(t, t.fws[f])]

(* Frame::applyState: a client that comes to the front takes over the state *)
(* of its frame.                                                            *)
ApplyState(t, f, c) ==
    LET u == [t EXCEPT !.csticky[c] = t.fsticky[f], !.cws[c] = Clamp(t, t.fws[f])]
    IN  IF t.fmapped[f] THEN MapClient(u, c) ELSE UnmapClient(u, c)

(* Frame::activateChild *)
ActivateChild(t, f, c) ==
    LET u == PutInFront(IF t.child[f] = c THEN t ELSE ApplyState(t, f, c), f, c)
    IN  IF u.ffocused[f] THEN GiveClientFocus(u, c) ELSE u

(* Frame::raise: the transients of its client follow. *)
Raise(t, f) ==
    LET over == {g \in Frames \ {f} : \E d \in Clients :
                    InFront(t, g, d) /\ t.transient[d] = t.child[f]}
    IN  [t EXCEPT !.wolist = Sieve(@, Frames \ (over \cup {f})) \o <<f>> \o SetToSeq(over)]

(* MUTANT of DeleteFrame: removeFromFrameList is not called. *)
DeleteFrameListed(t, f) ==
    LET u == IF t.fmapped[f] THEN Post(t, Unmapped(None)) ELSE t
    IN  [u EXCEPT !.wolist = Sieve(@, Frames \ {f}), !.child[f] = None,
                  !.fws[f] = 0, !.fmapped[f] = FALSE, !.ficon[f] = FALSE,
                  !.fsticky[f] = FALSE, !.ffocused[f] = FALSE]

(* Frame::~Frame.  What is not the empty frame's any more is reset. *)
DeleteFrame(t, f) ==
    LET u == IF t.fmapped[f] THEN Post(t, Unmapped(None)) ELSE t
        others(q) == Sieve(q, Frames \ {f})
    IN  [u EXCEPT !.wolist = others(@), !.mru = others(@), !.child[f] = None,
                  !.fws[f] = 0, !.fmapped[f] = FALSE, !.ficon[f] = FALSE,
                  !.fsticky[f] = FALSE, !.ffocused[f] = FALSE]

(* MUTANT of RemoveFromFrame: the tab in front stays the removed one. *)
RemoveFromFrameOnly(t, c) ==
    LET f == t.parent[c]
        u == DropChild(Reparent(t, c), c)
    IN  IF Len(t.kids[f]) = 1 THEN DeleteFrame(u, f) ELSE u

(* PDecor::removeChild *)
RemoveFromFrame(t, c) ==
    LET f == t.parent[c]
        q == t.kids[f]
        u == DropChild(Reparent(t, c), c)
    IN  IF Len(q) = 1 THEN DeleteFrame(u, f)
        ELSE IF t.child[f] = c
        THEN ActivateChild(u, f, Neighbour(q, Position(q, c)))
        ELSE u

(* Frame::addChild *)
AddToFrame(t, f, c) == AddChild(Reparent(t, c), f, c)

(* Frame::getState: the frame takes over the state of its first client. *)
GetState(t, f, c) ==
    LET icon == t.cicon[c]
        u == [t EXCEPT !.fsticky[f] = t.csticky[c]]
        v == IF u.fws[f] # u.cws[c] THEN SetFrameWorkspace(u, f, u.cws[c]) ELSE u
    IN  IF icon THEN IconifyFrame(v, f) ELSE v

(* Frame::Frame *)
OpenFrame(t, f, c) ==
    LET u == PutInFront(AddToFrame(t, f, c), f, c)
        v == [u EXCEPT !.mru = <<f>> \o @, !.wolist = Append(@, f)]
        w == GetState(v, f, c)
    IN  SetFrameWorkspace(w, f, w.cws[c])

(* Client::~Client *)
DeleteClient(t, c) ==
    LET f == t.parent[c]
        owner == t.transient[c]
        u == RemoveFromFrame(t, c)
        v == IF t.ffocused[f] /\ owner # None /\ u.child[u.parent[owner]] = owner
             THEN GiveFrameFocus(u, u.parent[owner]) ELSE u
    IN  [v EXCEPT !.focused = IF @ = c THEN None ELSE @,
           !.transient = [d \in Clients |-> IF d = c \/ @[d] = c THEN None ELSE @[d]],
           !.cws[c] = 0, !.cmapped[c] = FALSE, !.cicon[c] = FALSE, !.csticky[c] = FALSE,
           !.gone = @ \ {c}]

----------------------------------------------------------------------------
Init == s =
    [kids |-> [f \in Frames |-> <<>>], child |-> [f \in Frames |-> None],
     parent |-> [c \in Clients |-> None],
     fws |-> [f \in Frames |-> 0], fmapped |-> [f \in Frames |-> FALSE],
     ficon |-> [f \in Frames |-> FALSE], fsticky |-> [f \in Frames |-> FALSE],
     ffocused |-> [f \in Frames |-> FALSE],
     cws |-> [c \in Clients |-> 0], cmapped |-> [c \in Clients |-> FALSE],
     cicon |-> [c \in Clients |-> FALSE], csticky |-> [c \in Clients |-> FALSE],
     transient |-> [c \in Clients |-> None],
     focused |-> Root, last |-> [n \in Workspaces |-> None],
     mru |-> <<>>, wolist |-> <<>>, active |-> 0, size |-> MaxWorkspaces,
     input |-> Root, gone |-> {}, queue |-> <<>>]
----------------------------------------------------------------------------
(* Events *)

(* MUTANT of HandleFocusIn: the window focused last is looked up before  *)
(* the list is changed.                                                   *)
HandleFocusInBack(t, w) ==
    LET f == t.parent[w]
    IN  IF w = Root THEN [SetFocused(t, t.focused, FALSE) EXCEPT !.focused = w]
        ELSE IF ~ IsManaged(t, w) \/ w = t.focused THEN t
        ELSE [FindWOAndFocus([t EXCEPT !.focused = w], None) EXCEPT
                !.mru = Append(Sieve(@, Frames \ {f}), f)]

(* MUTANT of HandleFocusIn: the old window is still drawn as focused. *)
HandleFocusInLit(t, w) ==
    LET f == t.parent[w]
    IN  IF w = Root THEN [t EXCEPT !.focused = w]
        ELSE IF ~ IsManaged(t, w) \/ w = t.focused THEN t
        ELSE IF ~ t.cmapped[w] THEN FindWOAndFocus(t, None)
        ELSE [SetFocused(t, w, TRUE) EXCEPT !.focused = w,
                !.mru = Append(Sieve(@, Frames \ {f}), f)]

(* MUTANT of HandleFocusIn: the root window is not noted. *)
HandleFocusInNoRoot(t, w) ==
    LET f == t.parent[w]
    IN  IF w = Root THEN t
        ELSE IF ~ IsManaged(t, w) \/ w = t.focused \/ ~ t.cmapped[w] THEN t
        ELSE [SetFocused(SetFocused(t, t.focused, FALSE), w, TRUE) EXCEPT !.focused = w,
                !.mru = Append(Sieve(@, Frames \ {f}), f)]

(* WindowManager::handleFocusInEvent *)
HandleFocusIn(t, w) ==
    LET u == [SetFocused(t, t.focused, FALSE) EXCEPT
                !.last[t.active] = IF t.focused = None THEN @ ELSE t.focused,
                !.focused = w]
        f == t.parent[w]
    IN  IF w = Root THEN IF t.focused = Root THEN t ELSE u
        ELSE IF ~ IsManaged(t, w) THEN t
        ELSE IF ~ t.cmapped[w] THEN FindWOAndFocus(t, None)
        ELSE IF w = t.focused THEN t
        ELSE [SetFocused(u, w, TRUE) EXCEPT !.mru = Append(Sieve(@, Frames \ {f}), f)]

FindIfNone(t, search) ==
    IF t.focused # None THEN t ELSE FindWOAndFocus(t, search)

(* WindowManager::handleUnmapEvent: w was unmapped by the manager itself, *)
HandleUnmapped(t, w) ==
    LET client == w \in Clients /\ IsManaged(t, w)
        u == IF client /\ w = t.focused THEN [t EXCEPT !.focused = None] ELSE t
    IN  FindIfNone(u, IF client THEN t.parent[w] ELSE None)

(* or by its program. *)
HandleWithdrawn(t, c) == FindIfNone(DeleteClient(t, c), t.parent[c])

Handled(t, e) ==
    CASE e.type = "FocusIn" -> HandleFocusIn(t, e.window)
      [] e.type = "Unmapped" -> HandleUnmapped(t, e.window)
      [] e.type = "Withdrawn" -> HandleWithdrawn(t, e.window)

HandleEvent ==
    /\ s.queue # <<>>
    /\ s' = Handled([s EXCEPT !.queue = Tail(@)], Head(s.queue))

(* A program takes its window away. *)
Withdraw(c) ==
    /\ c \in Managed \ s.gone
    /\ LET t == Post(s, Withdrawn(c))
           u == IF s.cmapped[c] THEN XUnmapWindow(t, c) ELSE t
       IN  s' = [u EXCEPT !.gone = @ \cup {c}]
----------------------------------------------------------------------------
(* Requests *)

(* Client::findOrCreateFrame: a new frame f, or one found by tag or group, *)
(* f, where the client is put behind or in front.                          *)
FindOrCreateFrame(t, c, f, place) ==
    LET u == AddToFrame(t, f, c)
    IN  CASE place = "new" -> OpenFrame(t, f, c)
          [] place = "behind" -> u
          [] place = "front" -> ActivateChild(u, f, c)

SetMappedStateAndFocus(t, c, focus) ==
    LET f == t.parent[c]
        u == IF t.fmapped[f] /\ ~ t.cicon[c] THEN [t EXCEPT !.cmapped[c] = TRUE] ELSE t
    IN  IF t.fmapped[f] /\ focus THEN GiveFrameFocus(u, f) ELSE u

FindAndRaiseIfTransient(t, c) ==
    IF t.transient[c] # None /\ t.child[t.parent[c]] = c
    THEN Raise(t, t.parent[c]) ELSE t

(* Client::Client.  A last focused window that is long deleted may have    *)
(* had the address of the new client.                                      *)
Manage(t, c, f, place, icon, focus, sameAddress) ==
    LET owner == TransientFor[c]
        u == [t EXCEPT !.cws[c] = t.active, !.cicon[c] = icon,
                !.transient[c] = IF owner # None /\ IsManaged(t, owner)
                                 THEN owner ELSE None,
                !.last = IF sameAddress THEN @
                         ELSE [n \in Workspaces |-> IF @[n] = c THEN None ELSE @[n]]]
        v == FindOrCreateFrame(u, c, f, place)
    IN  FindAndRaiseIfTransient(SetMappedStateAndFocus(v, c, focus), c)

(* The program of a new window asks to map it. *)
MapNew(c) ==
    \E f \in Frames, place \in {"new", "front", "behind"}, icon, focus, same \in BOOLEAN :
        /\ c \notin Managed
        /\ place = "new" <=> f \notin Live
        /\ place = "new" \/ "group" \in Ops
        /\ icon => "iconify" \in Ops
        /\ focus \/ "unfocused" \in Ops
        /\ same \/ \E n \in Workspaces : s.last[n] = c
        /\ s' = Manage(s, c, f, place, icon, focus, same)

(* PDecor::deiconify *)
Deiconify(t, f) ==
    LET u == IF t.fws[f] = t.active THEN MapFrame(t, f) ELSE t
    IN  IF t.ficon[f] THEN [u EXCEPT !.ficon[f] = FALSE] ELSE t

(* Client::handleMapRequest *)
MapAgain(c) ==
    /\ c \in Managed \ s.gone /\ ~ s.cmapped[c]
    /\ s' = Deiconify(s, s.parent[c])

(* _NET_CURRENT_DESKTOP and the action GotoWorkspace *)
Goto(n) == n # s.active /\ n < s.size /\ s' = SetWorkspace(s, n, TRUE)

(* _NET_WM_DESKTOP and the action SendToWorkspace: Frame::setWorkspace *)
SendTo(f, n) ==
    "send" \in Ops /\ f \in Live /\ s' = SetFrameWorkspace(s, f, n)

(* WM_CHANGE_STATE and the action Set Iconified *)
Iconify(f) ==
    "iconify" \in Ops /\ f \in Live /\ ~ s.ficon[f] /\ s' = IconifyFrame(s, f)

(* Frame::setStateIconified, for an iconified frame *)
Restore(f) ==
    "restore" \in Ops /\ f \in Live /\ s.ficon[f] /\ s' = MapFrame(s, f)

(* Frame::stick *)
Stick(f) ==
    /\ "stick" \in Ops /\ f \in Live
    /\ s' = SetFrameWorkspace(
               [s EXCEPT !.csticky[s.child[f]] = ~ s.fsticky[f], !.fsticky[f] = ~ @],
               f, s.active)

(* _NET_ACTIVE_WINDOW: Frame::handleClientMessage *)
Activate(c) ==
    /\ "activate" \in Ops /\ c \in Managed
    /\ LET f == s.parent[c]
           t == IF s.child[f] = c THEN s ELSE ActivateChild(s, f, c)
           u == IF t.fmapped[f] THEN t
                ELSE MapFrame(IF t.fsticky[f] THEN t ELSE SetWorkspace(t, t.fws[f], FALSE), f)
       IN  s' = GiveFrameFocus(Raise(u, f), f)

(* ActionHandler::gotoClient *)
GotoClient(c) ==
    /\ "activate" \in Ops /\ c \in Managed
    /\ LET f == s.parent[c]
           t == IF s.fsticky[f] THEN s ELSE SetWorkspace(s, s.fws[f], FALSE)
           u == ActivateChild(MapFrame(t, f), f, c)
       IN  s' = GiveFrameFocus(Raise(u, f), f)

(* ActionHandler::handleAction, ActivateOrRaise on a tab *)
Click(c) ==
    /\ "click" \in Ops /\ c \in Managed /\ s.fmapped[s.parent[c]]
    /\ LET f == s.parent[c]
           t == ActivateChild(s, f, c)
       IN  s' = IF t.ffocused[f] THEN Raise(t, f) ELSE GiveClientFocus(t, c)

(* ActionHandler::actionFocusToggle, ended on frame f *)
FocusToggle(f, raise) ==
    /\ "toggle" \in Ops /\ f \in Live
    /\ \/ s.fmapped[f]
       \/ s.ficon[f] /\ (s.fsticky[f] \/ s.fws[f] = s.active)
    /\ LET t == [SetFocused(s, s.focused, FALSE) EXCEPT !.ffocused[f] = TRUE]
           u == IF t.ficon[f]
                THEN Raise(MapFrame(SetFrameWorkspace(t, f, t.active), f), f)
                ELSE IF raise THEN Raise(t, f) ELSE t
       IN  s' = GiveFrameFocus(u, f)

(* Frame::detachClient *)
Detach(c, f) ==
    /\ "detach" \in Ops /\ c \in Managed /\ f \notin Live
    /\ LET g == s.parent[c]
           t == OpenFrame(RemoveFromFrame(s, c), f, c)
       IN  /\ Len(s.kids[g]) > 1
           /\ s' = [t EXCEPT !.cws[c] = t.active, !.ffocused[g] = FALSE]

(* WindowManager::attachMarked, with one client marked *)
AttachMarked(c, f) ==
    /\ "mark" \in Ops /\ c \in Managed /\ f \in Live \ {s.parent[c]}
    /\ s.fmapped[f]
    /\ LET t == RemoveFromFrame(s, c)
       IN  s' = AddToFrame([t EXCEPT !.cws[c] = t.fws[f]], f, c)

(* WindowManager::attachInNextPrevFrame: the client, *)
AttachClient(c, f) ==
    /\ "group" \in Ops /\ c \in Managed /\ f \in Live \ {s.parent[c]}
    /\ s.fmapped[f]
    /\ LET t == RemoveFromFrame(SetFocused(s, c, FALSE), c)
       IN  s' = GiveFrameFocus(ActivateChild(AddToFrame(t, f, c), f, c), f)

(* or all of its frame (PDecor::addDecor). *)
AttachFrame(g, f) ==
    /\ "group" \in Ops /\ f \in Live /\ g \in Live \ {f} /\ s.fmapped[f]
    /\ LET t == RunCalls(s, ForEach("Reparent", s.kids[g]))
           u == AddDecor(t, f, g)
       IN  s' = DeleteFrame([u EXCEPT !.cws = [c \in Clients |->
                    IF u.parent[c] = f THEN u.fws[f] ELSE @[c]]], g)

(* Frame::moveChildRel *)
MoveTab(f, off) ==
    "group" \in Ops /\ f \in Live /\ Len(s.kids[f]) > 1 /\ s' = MoveChildRel(s, f, off)

(* _NET_NUMBER_OF_DESKTOPS *)
Resize(n) == "size" \in Ops /\ n # s.size /\ s' = SetSize(s, n)

Request ==
    /\ Len(s.queue) <= MaxPending
    /\ \/ \E c \in Clients :
           \/ MapNew(c) \/ MapAgain(c) \/ Withdraw(c)
           \/ Activate(c) \/ GotoClient(c) \/ Click(c)
           \/ \E f \in Frames : Detach(c, f) \/ AttachMarked(c, f) \/ AttachClient(c, f)
       \/ \E f \in Frames :
           \/ Iconify(f) \/ Restore(f) \/ Stick(f)
           \/ \E raise \in BOOLEAN : FocusToggle(f, raise)
           \/ \E n \in Workspaces : SendTo(f, n)
           \/ \E g \in Frames : AttachFrame(g, f)
           \/ \E off \in {-1, 1} : MoveTab(f, off)
       \/ \E n \in Workspaces : Goto(n) \/ Resize(n + 1)

Next == HandleEvent \/ Request

Spec == Init /\ [][Next]_s /\ WF_s(HandleEvent)
----------------------------------------------------------------------------
(* The type of the state; workspaces stay below the number there are. *)
TypeOK ==
    /\ \A f \in Frames : \A i \in DOMAIN s.kids[f] : s.kids[f][i] \in Clients
    /\ s.child \in [Frames -> Clients \cup {None}]
    /\ s.parent \in [Clients -> Frames \cup {None}]
    /\ s.fws \in [Frames -> 0..(s.size - 1)] /\ s.cws \in [Clients -> Workspaces]
    /\ {s.fmapped, s.ficon, s.fsticky, s.ffocused} \subseteq [Frames -> BOOLEAN]
    /\ {s.cmapped, s.cicon, s.csticky} \subseteq [Clients -> BOOLEAN]
    /\ s.transient \in [Clients -> Clients \cup {None}]
    /\ s.focused \in Clients \cup {Root, None}
    /\ s.last \in [Workspaces -> Clients \cup {Root, None}]
    /\ s.size \in 1..MaxWorkspaces /\ s.active \in 0..(s.size - 1)
    /\ s.input \in Clients \cup {Root} /\ s.gone \subseteq Managed
    /\ \A i \in DOMAIN s.queue : s.queue[i].window \in Clients \cup {Root, None}

(* The grouping into frames: every handler is one of the steps FrameTree  *)
(* allows, or leaves the grouping alone.                                  *)
Grouping == INSTANCE FrameTree WITH
    tree <- [kids |-> s.kids, child |-> s.child, parent |-> s.parent]
ImplementsFrameTree == Grouping!Spec

(* _wo_list and _mru_list hold each frame that exists once, and none that *)
(* is deleted: both are walked without a look at what they point to.      *)
ListsAgree ==
    \A q \in {s.wolist, s.mru} : ToSet(q) = Live /\ Len(q) = Cardinality(Live)

Quiet == s.queue = <<>>

(* What the manager believes to be focused (_focused_wo, also published as *)
(* _NET_ACTIVE_WINDOW) is what the server sends the keys to, once the      *)
(* events are handled.                                                     *)
InputAgrees ==
    Quiet => s.focused = s.input \/ (s.focused = None /\ s.input = Root)

(* A frame drawn as focused holds the focused client: no two frames look  *)
(* focused, and none does while the focus is on the root window.          *)
NoFalseFocus ==
    Quiet => \A f \in Live :
        s.ffocused[f] => s.focused \in Clients /\ s.parent[s.focused] = f

(* A frame is mapped just when it is not iconified and belongs to the      *)
(* workspace shown or to all of them, whatever order windows are opened,   *)
(* sent away, iconified, grouped and workspaces changed in.                *)
Visible ==
    \A f \in Live : s.fmapped[f] <=> (~ s.ficon[f] /\ (s.fsticky[f] \/ s.fws[f] = s.active))

(* The tab in front is mapped with its frame: a frame never shows an empty *)
(* inside, and no window stays mapped in a frame that is hidden.           *)
TabsFollow ==
    \A f \in Live : s.cmapped[s.child[f]] = s.fmapped[f]

(* "Try to focus last focused window and if that fails we get the top-most *)
(* Frame if any and give it focus" (Workspaces.cc:415): when a workspace   *)
(* is entered that was left with the focus on a window, the root window    *)
(* has the focus only when no frame is shown, or events are still to come. *)
(* (One that was left with the focus on the root window gives it back to   *)
(* the root window, which is the last focused one too.)                    *)
EnterFocuses ==
    [][s'.active # s.active /\ s.last[s'.active] \in Clients /\ s'.queue = <<>>
           /\ (\E f \in Frames : s'.fmapped[f])
         => s'.input # Root]_s
============================================================================

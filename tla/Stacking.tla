------------------------------ MODULE Stacking ------------------------------
(***************************************************************************)
(* pekwm: the order of the windows on the screen.  Workspaces keeps it in  *)
(* _wo_list, sorted by layer; every change is sent to the X server as one  *)
(* relative request, so that the server's order has to follow step by      *)
(* step, and is published to panels and pagers as a list of client         *)
(* windows.  A dialog (transient) belongs above its owner.                 *)
(*                                                                         *)
(* A window is a client and its frame, in which it is alone (Wm has the    *)
(* tabs); the dock stands for the windows of the harbour.  A window's      *)
(* owner is the one it finds when it is managed: a WM_TRANSIENT_FOR that   *)
(* changes later is left out, and so are menus and decorations.            *)
(***************************************************************************)
EXTENDS Integers, Sequences, FiniteSets, SequencesExt

CONSTANTS Wins, Dock, None,
          StartLayers,   \* the layers that hints and rules give new windows
          MaxLayer,      \* the bound on the layer of a window that owns a dialog
          MaxAsked       \* the bound on the requests that change a window's layer

VARIABLE st

LAYER_DESKTOP == 0
LAYER_BELOW == 2
LAYER_NORMAL == 4
LAYER_ONTOP == 6
LAYER_DOCK == 8
LAYER_ABOVE_DOCK == 10

Managed(s) == ToSet(s.list) \ {Dock}

Init ==
    \E ontop \in BOOLEAN :
        st = [ list  |-> <<Dock>>,                \* _wo_list, bottom first
               x     |-> <<Dock>>,                \* the X server's order
               layer |-> [w \in Wins \cup {Dock} |->     \* _layer of frames and dock
                              IF ontop /\ w = Dock THEN LAYER_DOCK ELSE LAYER_DESKTOP],
               clayer |-> [w \in Wins |-> LAYER_DESKTOP],   \* _layer of clients
               saved |-> [w \in Wins |-> LAYER_NORMAL],     \* _non_fullscreen_layer
               full  |-> {},                      \* frames with _fullscreen
               owner |-> [w \in Wins |-> None],   \* _transient
               kids  |-> [w \in Wins |-> <<>>],   \* _transient_clients, in order
               hint  |-> <<>>,                    \* _NET_CLIENT_LIST_STACKING
               own   |-> {},                      \* windows whose layer was asked for
               asked |-> 0,                       \* the requests made so far
               sib   |-> FALSE ]                  \* a sibling was named in a request

----------------------------------------------------------------------------
(* The list and the server's order.                                        *)

Without(q, w) == SelectSeq(q, LAMBDA v : v # w)
Place(q, v) == CHOOSE i \in DOMAIN q : q[i] = v

(* XRestackWindows(over, under): `under' goes right below `over'.          *)
StackWinUnderWin(x, over, under) ==
    IF over = under THEN x
    ELSE LET rest == Without(x, under) IN InsertAt(rest, Place(rest, over), under)

(* insert(): raised below the first window of a higher layer, lowered      *)
(* below the first one of its own; without one, to the top.                *)
Insert(s, w, raise) ==
    LET above == {i \in DOMAIN s.list : IF raise THEN s.layer[s.list[i]] > s.layer[w]
                                        ELSE s.layer[w] <= s.layer[s.list[i]]}
        first == CHOOSE i \in above : \A j \in above : i <= j
    IN  IF above = {}
        THEN [s EXCEPT !.list = Append(@, w), !.x = Append(Without(@, w), w)]
        ELSE [s EXCEPT !.list = InsertAt(@, first, w),
                       !.x = StackWinUnderWin(@, s.list[first], w)]

UpdateHint(s) == [s EXCEPT !.hint = Without(s.list, Dock)]

Reinsert(s, w, raise) == Insert([s EXCEPT !.list = Without(@, w)], w, raise)

(* PDecor::lower(), and PDecor::raise() alone.                             *)
Lower(s, w) == UpdateHint(Reinsert(s, w, FALSE))
RaiseOne(s, w) == UpdateHint(Reinsert(s, w, TRUE))

RECURSIVE Raise(_, _)
(* Frame::raise(): the dialogs follow, each with its own.                  *)
Raise(s, w) == FoldLeft(Raise, RaiseOne(s, w), s.kids[w])

(* Mutant: the dialogs are not raised.                                     *)
RECURSIVE SetLayerOnly(_, _, _)
SetLayerOnly(s, w, l) ==
    LET Notify(t, k) == SetLayerOnly([t EXCEPT !.clayer[k] = l + 1], k, l + 1)
    IN  FoldLeft(Notify, [s EXCEPT !.layer[w] = l], Reverse(s.kids[w]))

RECURSIVE SetLayer(_, _, _)
(* Frame::setLayer() notifies the dialogs, the youngest observer first.    *)
SetLayer(s, w, l) ==
    LET Notify(t, k) ==
            Raise(SetLayer([t EXCEPT !.clayer[k] = l + 1], k, l + 1), k)
    IN  FoldLeft(Notify, [s EXCEPT !.layer[w] = l], Reverse(s.kids[w]))

Asked(s, w) == [s EXCEPT !.asked = @ + 1, !.own = @ \cup {w}]

SetOwnLayer(s, w, l) == SetLayer([Asked(s, w) EXCEPT !.clayer[w] = l], w, l)

----------------------------------------------------------------------------
(* setStateFullscreen() as far as it is about layers: on the way back the  *)
(* frame gets the layer that its client had.  What is saved is not read    *)
(* outside of fullscreen: the model then forgets it.                       *)
ToggleFullscreen(s, w) ==
    IF w \in s.full
    THEN Raise(SetLayer([s EXCEPT !.full = @ \ {w}, !.saved[w] = LAYER_NORMAL],
                        w, s.saved[w]), w)
    ELSE Raise(SetLayer([s EXCEPT !.full = @ \cup {w}, !.saved[w] = s.clayer[w]],
                        w, LAYER_ABOVE_DOCK), w)

Fullscreen(w) ==
    /\ w \in Managed(st)
    /\ st' = ToggleFullscreen(Asked(st, w), w)

(* The owner is looked up first; the frame is inserted, published, made    *)
(* fullscreen if the window asks for it, and raised above its owner.       *)
FindOwner(s, w, o) ==
    IF o = None THEN s ELSE [s EXCEPT !.owner[w] = o, !.kids[o] = Append(@, w)]

NewFrame(s, w, l) ==
    UpdateHint(Insert([s EXCEPT !.clayer[w] = l, !.layer[w] = l], w, TRUE))

RaiseIfTransient(s, w) ==
    IF s.owner[w] = None THEN s
    ELSE Raise(SetLayer(s, w, s.layer[s.owner[w]] + 1), w)

Manage(w) ==
    /\ w \notin Managed(st)
    /\ \E o \in {v \in Managed(st) : st.layer[v] < MaxLayer} \cup {None}, l \in StartLayers, full \in BOOLEAN :
         LET s == NewFrame(FindOwner(st, w, o), w, l)
         IN  st' = RaiseIfTransient(IF full THEN ToggleFullscreen(s, w) ELSE s, w)

(* The client is forgotten by its owner and by its dialogs; the model      *)
(* resets what it kept.                                                    *)
Unmanage(w) ==
    /\ w \in Managed(st)
    /\ st' = UpdateHint([st EXCEPT
         !.list = Without(@, w), !.x = Without(@, w),
         !.layer[w] = LAYER_DESKTOP, !.clayer[w] = LAYER_DESKTOP,
         !.saved[w] = LAYER_NORMAL, !.full = @ \ {w}, !.own = @ \ {w},
         !.owner = [v \in Wins |-> IF v = w \/ @[v] = w THEN None ELSE @[v]],
         !.kids = [v \in Wins |-> IF v = w THEN <<>> ELSE Without(@[v], w)]])

RaiseFrame(w) == w \in Managed(st) /\ st' = Raise(st, w)
LowerFrame(w) == w \in Managed(st) /\ st' = Lower(st, w)

(* familyRaiseLower(): the owner, or the window itself, and its dialogs.   *)
Family(w) ==
    /\ w \in Managed(st)
    /\ LET head == IF st.owner[w] = None THEN w ELSE st.owner[w]
           kids == st.kids[head]
       IN  \/ st' = FoldLeft(Raise, st, <<head>> \o kids)
           \/ st' = FoldLeft(Lower, st, Append(kids, head))

OnTop(w) ==
    /\ w \in Managed(st)
    /\ st' = Raise(SetOwnLayer(st, w, IF st.layer[w] < LAYER_ONTOP THEN LAYER_ONTOP
                                      ELSE LAYER_NORMAL), w)

Below(w) ==
    /\ w \in Managed(st)
    /\ st' = Lower(SetOwnLayer(st, w, IF st.layer[w] > LAYER_BELOW THEN LAYER_BELOW
                                      ELSE LAYER_NORMAL), w)

(* readAutoprops(): a rule gives the client a layer, not the frame.        *)
LayerRule(w) ==
    /\ w \in Managed(st)
    /\ \E l \in StartLayers : st' = Raise([st EXCEPT !.clayer[w] = l, !.asked = @ + 1], w)

(* handleConfigureRequest() with a sibling v: stackAbove(), stackBelow().  *)
(* For v = w, an iterator to an element that was erased is used.           *)
Sibling(w, v) ==
    /\ {w, v} \subseteq Managed(st) /\ w # v
    /\ LET rest == Without(st.list, w)
       IN  \/ st' = [st EXCEPT !.sib = TRUE,
                               !.list = InsertAt(rest, Place(rest, v) + 1, w),
                               !.x = StackWinUnderWin(@, v, w)]
           \/ st' = [st EXCEPT !.sib = TRUE,
                               !.list = InsertAt(rest, Place(rest, v), w),
                               !.x = StackWinUnderWin(@, w, v)]

(* Harbour::restack(), after the configuration was changed or not.         *)
Restack(ontop) ==
    LET s == [st EXCEPT !.layer[Dock] = IF ontop THEN LAYER_DOCK ELSE LAYER_DESKTOP]
    IN  st' = Reinsert(s, Dock, ontop)

(* After a sibling was named the orders may differ, and nothing more is    *)
(* followed.                                                               *)
Next ==
    /\ ~ st.sib
    /\ \/ \E w \in Wins :
            \/ Manage(w) \/ Unmanage(w)
            \/ RaiseFrame(w) \/ LowerFrame(w) \/ Family(w)
            \/ st.asked < MaxAsked /\ (OnTop(w) \/ Below(w) \/ Fullscreen(w) \/ LayerRule(w))
            \/ \E v \in Wins : Sibling(w, v)
       \/ \E ontop \in BOOLEAN : Restack(ontop)

Spec == Init /\ [][Next]_st

----------------------------------------------------------------------------
(* Until a program names a sibling in a request: the server's order is the *)
(* manager's, no window lies above one of a higher layer, what is          *)
(* published is that order, and a dialog lies above its owner unless a     *)
(* layer was asked for the dialog itself.                                  *)
Stacked ==
    ~ st.sib =>
        /\ st.x = st.list
        /\ \A i, j \in DOMAIN st.list :
              i <= j => st.layer[st.list[i]] <= st.layer[st.list[j]]
        /\ st.hint = Without(st.list, Dock)
        /\ \A w \in Managed(st) : st.owner[w] # None /\ w \notin st.own =>
              Place(st.list, st.owner[w]) < Place(st.list, w)

(* A window that is placed above a sibling lies above it ("Places the      *)
(* PWinObj above the window win", Workspaces.cc:476).  This is not so: the *)
(* server is asked to put it right below, and the layers are not looked    *)
(* at.                                                                     *)
SameOrder == st.x = st.list
=============================================================================

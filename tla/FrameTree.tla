----------------------------- MODULE FrameTree -----------------------------
(***************************************************************************)
(* What pekwm may do to the grouping of clients into frames: the ways the  *)
(* window manager combines the operations of Tabs.tla, one action for each *)
(* caller.  Wm.tla implements Spec; that TreeOK holds is proved in         *)
(* FrameTreeProofs.tla for any number of clients and frames.               *)
(***************************************************************************)
EXTENDS Tabs

VARIABLE tree

Init == tree = [kids   |-> [f \in Frames |-> <<>>],
                child  |-> [f \in Frames |-> None],
                parent |-> [c \in Clients |-> None]]

Managed == {c \in Clients : tree.parent[c] # None}
Live == {f \in Frames : Exists(tree, f)}

(* Client::Client: a frame of its own, *)
Open(c, f) ==
    /\ c \notin Managed /\ f \notin Live
    /\ tree' = NewFrame(tree, f, c)

(* or a place in one, in front or not. *)
Join(c, f) ==
    /\ c \notin Managed /\ f \in Live
    /\ \/ tree' = AddChild(tree, f, c)
       \/ tree' = PutInFront(AddChild(tree, f, c), f, c)

(* Client::~Client *)
Close(c) == c \in Managed /\ tree' = RemoveChild(tree, c)

Activate(c) == c \in Managed /\ tree' = PutInFront(tree, tree.parent[c], c)

(* Frame::detachClient *)
Detach(c, f) ==
    /\ c \in Managed /\ Len(tree.kids[tree.parent[c]]) > 1 /\ f \notin Live
    /\ tree' = NewFrame(RemoveChild(tree, c), f, c)

(* WindowManager::attachMarked and attachInNextPrevFrame: a client goes   *)
(* to another frame,                                                      *)
Attach(c, f) ==
    /\ c \in Managed /\ f \in Live \ {tree.parent[c]}
    /\ LET t == AddChild(RemoveChild(tree, c), f, c)
       IN  tree' \in {t, PutInFront(t, f, c)}

(* or all the clients of its frame do. *)
Merge(f, g) ==
    /\ f \in Live /\ g \in Live \ {f}
    /\ tree' = AddDecor(tree, f, g)

Reorder(f, off) == f \in Live /\ tree' = MoveChildRel(tree, f, off)

Next ==
    \/ \E c \in Clients :
         \/ Close(c) \/ Activate(c)
         \/ \E f \in Frames : Open(c, f) \/ Join(c, f) \/ Detach(c, f) \/ Attach(c, f)
    \/ \E f, g \in Frames : Merge(f, g)
    \/ \E f \in Frames, off \in {-1, 1} : Reorder(f, off)

Spec == Init /\ [][Next]_tree
----------------------------------------------------------------------------
TypeOK == IsTabs(tree)

(* Clients, frames and tabs agree, in whatever order windows are opened,   *)
(* closed, grouped, detached and moved: the code follows _parent, _client  *)
(* and the iterators of _child_list without looking whether they still     *)
(* point to what they should.                                              *)
TreeOK == ParentHasChild(tree) /\ NoTabTwice(tree) /\ FrontIsATab(tree)
============================================================================

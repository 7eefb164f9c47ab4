------------------------------- MODULE Tabs --------------------------------
(***************************************************************************)
(* pekwm groups the windows it manages: a Frame holds a list of Clients,   *)
(* shown as tabs, of which one is active (PDecor.cc, Frame.cc).  This      *)
(* module is that grouping and nothing else: who sits in which frame, in   *)
(* which order, and which tab is in front, with the operations that        *)
(* PDecor offers.  FrameTree.tla combines them into a specification of the *)
(* grouping alone, Wm.tla uses them on the whole state of the manager.     *)
(*                                                                         *)
(* The operators take and return a record t with the fields                *)
(*   kids    the _child_list of each frame; <<>> for a frame that does not *)
(*           exist                                                         *)
(*   child   its _child (and _client), the tab in front                    *)
(*   parent  the _parent of each client; None for one not managed          *)
(***************************************************************************)
EXTENDS Integers, Sequences, SequencesExt

CONSTANTS Clients, Frames, None

ASSUME TabsAssumption ==
    /\ None \notin Clients /\ None \notin Frames
    /\ Clients \cap Frames = {}

Position(q, c) == CHOOSE i \in 1..Len(q) : q[i] = c

Exists(t, f) == t.kids[f] # <<>>
Free(t) == {f \in Frames : ~ Exists(t, f)}

(* PDecor::addChild: the client becomes the last tab. *)
AddChild(t, f, c) ==
    [t EXCEPT !.kids[f] = Append(@, c), !.parent[c] = f]

(* PDecor::activateChild *)
PutInFront(t, f, c) == [t EXCEPT !.child[f] = c]

(* The tab removeChild() puts in front when the one at i goes: the next,  *)
(* or the one before when there is none.                                  *)
Neighbour(q, i) == IF i < Len(q) THEN q[i + 1] ELSE q[i - 1]

(* The list part of PDecor::removeChild.  A frame that becomes empty is   *)
(* deleted.                                                               *)
DropChild(t, c) ==
    LET f == t.parent[c]
        i == Position(t.kids[f], c)
    IN  [t EXCEPT !.kids[f] = RemoveAt(@, i), !.parent[c] = None]

(* PDecor::removeChild *)
RemoveChild(t, c) ==
    LET f == t.parent[c]
        q == t.kids[f]
        u == DropChild(t, c)
    IN  IF Len(q) = 1 THEN PutInFront(u, f, None)
        ELSE IF t.child[f] = c
        THEN PutInFront(u, f, Neighbour(q, Position(q, c)))
        ELSE u

(* Frame::Frame *)
NewFrame(t, f, c) == PutInFront(AddChild(t, f, c), f, c)

(* PDecor::addDecor: all the tabs of g go to the end of f, g is deleted.  *)
AddDecor(t, f, g) ==
    [t EXCEPT
       !.kids[f] = @ \o t.kids[g],
       !.kids[g] = <<>>,
       !.child[g] = None,
       !.parent = [c \in Clients |-> IF @[c] = g THEN f ELSE @[c]]]

(* PDecor::getChildRel: off tabs away from the one in front, round the    *)
(* end.                                                                   *)
ChildRel(q, c, off) == q[1 + ((Position(q, c) - 1 + off) % Len(q))]

(* PDecor::moveChildRel: the tab in front changes places; past either end *)
(* it comes in at the other.                                              *)
MoveRel(q, c, off) ==
    LET to == ChildRel(q, c, off)
        r == RemoveAt(q, Position(q, c))
        i == Position(r, to)
        after == IF off > 0 THEN c = q[1] \/ to # r[1]
                 ELSE c # q[Len(q)] /\ to = r[Len(r)]
    IN  InsertAt(r, IF after THEN i + 1 ELSE i, c)

MoveChildRel(t, f, off) ==
    LET q == t.kids[f]
    IN  IF Len(q) < 2 \/ ChildRel(q, t.child[f], off) = t.child[f] THEN t
        ELSE [t EXCEPT !.kids[f] = MoveRel(q, t.child[f], off)]
----------------------------------------------------------------------------
IsTabs(t) ==
    t \in [kids   : [Frames -> Seq(Clients)],
          child  : [Frames -> Clients \cup {None}],
          parent : [Clients -> Frames \cup {None}]]

(* A client is a tab of its parent and of no other frame. *)
ParentHasChild(t) ==
    \A c \in Clients, f \in Frames : t.parent[c] = f <=> c \in ToSet(t.kids[f])

(* No client is twice among the tabs of a frame: removing it would leave  *)
(* the second entry, a pointer to a deleted object.                       *)
NoTabTwice(t) == \A f \in Frames : IsInjective(t.kids[f])

(* A frame that exists has a tab in front and it is one of its own.  *)
FrontIsATab(t) ==
    \A f \in Frames : IF Exists(t, f) THEN t.child[f] \in ToSet(t.kids[f])
                      ELSE t.child[f] = None
============================================================================

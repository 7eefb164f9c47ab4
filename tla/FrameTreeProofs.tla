-------------------------- MODULE FrameTreeProofs --------------------------
(***************************************************************************)
(* The grouping of clients into frames stays sound for any number of       *)
(* clients and frames.  The proof is about the operations of Tabs.tla:     *)
(* first what RemoveAt, InsertAt, Append and \o do to the set of tabs of a *)
(* frame and to its freedom of duplicates, then each operation, then each  *)
(* action of FrameTree.tla, which combines them.                           *)
(***************************************************************************)
EXTENDS FrameTree, SequenceLemmas

Sound(t) == IsTabs(t) /\ ParentHasChild(t) /\ NoTabTwice(t)

LEMMA PositionOfTab ==
    ASSUME NEW S, NEW q \in Seq(S), NEW c \in ToSet(q)
    PROVE  Position(q, c) \in 1..Len(q) /\ q[Position(q, c)] = c
  <1>1. \E i \in 1..Len(q) : q[i] = c
    BY LenProperties DEF ToSet
  <1> QED BY <1>1 DEF Position

(* A record of the three fields with one entry of two of them changed. *)
LEMMA TwoChanges ==
    ASSUME NEW K, NEW C, NEW P, NEW t \in [kids : K, child : C, parent : P],
           NEW f, NEW q, NEW c, NEW v,
           [t.kids EXCEPT ![f] = q] \in K, [t.parent EXCEPT ![c] = v] \in P
    PROVE  LET u == [t EXCEPT !.kids[f] = q, !.parent[c] = v]
           IN  /\ u \in [kids : K, child : C, parent : P]
               /\ u.kids = [t.kids EXCEPT ![f] = q] /\ u.child = t.child
               /\ u.parent = [t.parent EXCEPT ![c] = v]
  <1> DEFINE w == [t EXCEPT !.kids[f] = q]
             u == [w EXCEPT !.parent[c] = v]
  <1>1. /\ w \in [kids : K, child : C, parent : P]
        /\ w.kids = [t.kids EXCEPT ![f] = q] /\ w.child = t.child /\ w.parent = t.parent
    BY SMT
  <1>2. u = [t EXCEPT !.kids[f] = q, !.parent[c] = v]
    BY Zenon
  <1> HIDE DEF w
  <1>3. /\ u \in [kids : K, child : C, parent : P]
        /\ u.kids = w.kids /\ u.child = w.child
        /\ u.parent = [w.parent EXCEPT ![c] = v]
    BY <1>1, SMT
  <1> QED BY <1>1, <1>2, <1>3

(* A tab in front changes nothing of the rest. *)
LEMMA FrontSound ==
    ASSUME NEW t, Sound(t), NEW f \in Frames, NEW c \in Clients \cup {None}
    PROVE  /\ Sound(PutInFront(t, f, c))
           /\ PutInFront(t, f, c).kids = t.kids
           /\ PutInFront(t, f, c).parent = t.parent
           /\ PutInFront(t, f, c).child = [t.child EXCEPT ![f] = c]
  <1> DEFINE u == PutInFront(t, f, c)
  <1>1. IsTabs(t)
    BY DEF Sound
  <1>2. u.kids = t.kids /\ u.parent = t.parent /\ u.child = [t.child EXCEPT ![f] = c]
    BY <1>1 DEF IsTabs, PutInFront
  <1>3. IsTabs(u)
    BY <1>1 DEF IsTabs, PutInFront
  <1> HIDE DEF u
  <1>4. Sound(u)
    BY <1>2, <1>3 DEF Sound, ParentHasChild, NoTabTwice
  <1> QED BY <1>2, <1>4 DEF u

(* What addChild makes of t, *)
Added(t, u, f, c) ==
    /\ Sound(u) /\ u.child = t.child /\ u.parent = [t.parent EXCEPT ![c] = f]
    /\ ToSet(u.kids[f]) = ToSet(t.kids[f]) \cup {c} /\ u.kids[f] # <<>>
    /\ \A g \in Frames \ {f} : u.kids[g] = t.kids[g]

LEMMA AddSound ==
    ASSUME NEW t, Sound(t), NEW f \in Frames, NEW c \in Clients, t.parent[c] = None
    PROVE  Added(t, AddChild(t, f, c), f, c)
  <1> DEFINE u == AddChild(t, f, c)
             r == Append(t.kids[f], c)
  <1>1. /\ t.kids \in [Frames -> Seq(Clients)] /\ t.child \in [Frames -> Clients \cup {None}]
        /\ t.parent \in [Clients -> Frames \cup {None}]
    BY DEF Sound, IsTabs
  <1>2. c \notin ToSet(t.kids[f])
    BY <1>1, TabsAssumption DEF Sound, ParentHasChild
  <1>3. /\ r \in Seq(Clients) /\ Len(r) = Len(t.kids[f]) + 1 /\ r # <<>>
        /\ IsInjective(r) /\ ToSet(r) = ToSet(t.kids[f]) \cup {c}
    BY <1>1, <1>2, AppendOne, AppendProperties DEF Sound, NoTabTwice
  <1>4. u = [t EXCEPT !.kids[f] = r, !.parent[c] = f]
    BY DEF AddChild
  <1> HIDE DEF u, r
  <1>5. /\ IsTabs(u) /\ u.kids = [t.kids EXCEPT ![f] = r] /\ u.child = t.child
        /\ u.parent = [t.parent EXCEPT ![c] = f]
    <2>1. /\ [t.kids EXCEPT ![f] = r] \in [Frames -> Seq(Clients)]
          /\ [t.parent EXCEPT ![c] = f] \in [Clients -> Frames \cup {None}]
      BY <1>1, <1>3
    <2> QED BY <2>1, <1>4, TwoChanges DEF Sound, IsTabs
  <1>6. NoTabTwice(u)
    BY <1>1, <1>3, <1>5 DEF NoTabTwice, Sound
  <1>7. ParentHasChild(u)
    <2> SUFFICES ASSUME NEW d \in Clients, NEW g \in Frames
                 PROVE  u.parent[d] = g <=> d \in ToSet(u.kids[g])
      BY DEF ParentHasChild
    <2>1. t.parent[d] = g <=> d \in ToSet(t.kids[g])
      BY DEF Sound, ParentHasChild
    <2>2. g # None
      BY TabsAssumption
    <2> QED BY <1>1, <1>3, <1>5, <2>1, <2>2
  <1> QED BY <1>1, <1>3, <1>5, <1>6, <1>7 DEF Added, Sound, u, r

(* and removeChild before it looks at the tab in front. *)
Dropped(t, u, f, c) ==
    /\ Sound(u) /\ u.child = t.child /\ u.parent = [t.parent EXCEPT ![c] = None]
    /\ ToSet(u.kids[f]) = ToSet(t.kids[f]) \ {c} /\ Len(u.kids[f]) = Len(t.kids[f]) - 1
    /\ \A g \in Frames \ {f} : u.kids[g] = t.kids[g]

LEMMA DropSound ==
    ASSUME NEW t, Sound(t), NEW c \in Clients, NEW f \in Frames, t.parent[c] = f
    PROVE  Dropped(t, DropChild(t, c), f, c)
  <1> DEFINE u == DropChild(t, c)
             i == Position(t.kids[f], c)
             r == RemoveAt(t.kids[f], i)
  <1>1. /\ t.kids \in [Frames -> Seq(Clients)] /\ t.child \in [Frames -> Clients \cup {None}]
        /\ t.parent \in [Clients -> Frames \cup {None}]
    BY DEF Sound, IsTabs
  <1>2. u = [t EXCEPT !.kids[f] = r, !.parent[c] = None]
    BY DEF DropChild
  <1>3. c \in ToSet(t.kids[f])
    BY DEF Sound, ParentHasChild
  <1>4. i \in 1..Len(t.kids[f]) /\ t.kids[f][i] = c
    BY <1>1, <1>3, PositionOfTab
  <1>5. /\ r \in Seq(Clients) /\ Len(r) = Len(t.kids[f]) - 1
        /\ IsInjective(r) /\ ToSet(r) = ToSet(t.kids[f]) \ {c}
    BY <1>1, <1>4, RemoveOne DEF Sound, NoTabTwice
  <1> HIDE DEF u, i, r
  <1>6. /\ IsTabs(u) /\ u.kids = [t.kids EXCEPT ![f] = r] /\ u.child = t.child
        /\ u.parent = [t.parent EXCEPT ![c] = None]
    <2>1. /\ [t.kids EXCEPT ![f] = r] \in [Frames -> Seq(Clients)]
          /\ [t.parent EXCEPT ![c] = None] \in [Clients -> Frames \cup {None}]
      BY <1>1, <1>5
    <2> QED BY <2>1, <1>2, TwoChanges DEF Sound, IsTabs
  <1>7. NoTabTwice(u)
    BY <1>1, <1>5, <1>6 DEF NoTabTwice, Sound
  <1>8. ParentHasChild(u)
    <2> SUFFICES ASSUME NEW d \in Clients, NEW g \in Frames
                 PROVE  u.parent[d] = g <=> d \in ToSet(u.kids[g])
      BY DEF ParentHasChild
    <2>1. t.parent[d] = g <=> d \in ToSet(t.kids[g])
      BY DEF Sound, ParentHasChild
    <2>2. g # None
      BY TabsAssumption
    <2> QED BY <1>1, <1>5, <1>6, <2>1, <2>2
  <1> QED BY <1>1, <1>5, <1>6, <1>7, <1>8 DEF Dropped, Sound, u, i, r
----------------------------------------------------------------------------
(* The inductive invariant, of a grouping: the operations above go through *)
(* states in which the tab in front is the one just removed, so that Sound *)
(* is followed through each of them and FrontIsATab looked at in the end.  *)
Good(t) == Sound(t) /\ FrontIsATab(t)

LEMMA NeighbourStays ==
    ASSUME NEW S, NEW q \in Seq(S), IsInjective(q), NEW i \in 1..Len(q), Len(q) # 1
    PROVE  Neighbour(q, i) \in ToSet(q) \ {q[i]}
  <1>1. Len(q) \in Nat /\ DOMAIN q = 1..Len(q)
    BY LenProperties
  <1>2. CASE i < Len(q)
    <2>1. i + 1 \in 1..Len(q) /\ i + 1 # i /\ Neighbour(q, i) = q[i + 1]
      BY <1>1, <1>2 DEF Neighbour
    <2> QED BY <2>1, <1>1 DEF ToSet, IsInjective
  <1>3. CASE ~ (i < Len(q))
    <2>1. i - 1 \in 1..Len(q) /\ i - 1 # i /\ Neighbour(q, i) = q[i - 1]
      BY <1>1, <1>3 DEF Neighbour
    <2> QED BY <2>1, <1>1 DEF ToSet, IsInjective
  <1> QED BY <1>2, <1>3

(* An empty list, an empty set. *)
LEMMA NoTabs ==
    ASSUME NEW S, NEW q \in Seq(S)
    PROVE  (q = <<>> <=> Len(q) = 0) /\ (q = <<>> <=> ToSet(q) = {})
  <1>1. Len(q) \in Nat /\ DOMAIN q = 1..Len(q) /\ (q = <<>> <=> Len(q) = 0)
    BY LenProperties, EmptySeq
  <1>2. ASSUME q # <<>> PROVE q[1] \in ToSet(q)
    BY <1>1, <1>2 DEF ToSet
  <1>3. ASSUME q = <<>> PROVE ToSet(q) = {}
    BY <1>1, <1>3 DEF ToSet
  <1> QED BY <1>1, <1>2, <1>3

(* PDecor::removeChild leaves another tab in front, or none in a frame    *)
(* that is gone.                                                          *)
Removed(t, u, f, c) ==
    /\ Good(u) /\ u.parent = [t.parent EXCEPT ![c] = None]
    /\ Len(u.kids[f]) = Len(t.kids[f]) - 1
    /\ \A g \in Frames \ {f} : u.kids[g] = t.kids[g]

LEMMA RemoveGood ==
    ASSUME NEW t, Good(t), NEW c \in Clients, NEW f \in Frames, t.parent[c] = f
    PROVE  Removed(t, RemoveChild(t, c), f, c)
  <1> DEFINE q == t.kids[f]
             u == DropChild(t, c)
             n == Neighbour(q, Position(q, c))
             w == RemoveChild(t, c)
  <1>1. /\ Sound(u) /\ u.child = t.child /\ u.parent = [t.parent EXCEPT ![c] = None]
        /\ ToSet(u.kids[f]) = ToSet(q) \ {c} /\ Len(u.kids[f]) = Len(q) - 1
        /\ \A g \in Frames \ {f} : u.kids[g] = t.kids[g]
    <2>1. Dropped(t, u, f, c)
      BY DropSound DEF Good
    <2> HIDE DEF u
    <2> QED BY <2>1 DEF Dropped
  <1>2. /\ q \in Seq(Clients) /\ IsInjective(q) /\ c \in ToSet(q) /\ Len(q) \in Nat
        /\ Position(q, c) \in 1..Len(q) /\ q[Position(q, c)] = c
    <2>1. q \in Seq(Clients) /\ IsInjective(q) /\ c \in ToSet(q)
      BY DEF Good, Sound, IsTabs, NoTabTwice, ParentHasChild
    <2> QED BY <2>1, PositionOfTab, LenProperties
  <1>3. /\ w = IF Len(q) = 1 THEN PutInFront(u, f, None)
               ELSE IF t.child[f] = c THEN PutInFront(u, f, n) ELSE u
    BY DEF RemoveChild
  <1>4. \A g \in Frames : u.kids[g] \in Seq(Clients) /\ t.kids[g] \in Seq(Clients)
    BY <1>1 DEF Sound, IsTabs, Good
  <1>5. t.child \in [Frames -> Clients \cup {None}]
    BY DEF Good, Sound, IsTabs
  <1>6. \A g \in Frames : IF t.kids[g] # <<>> THEN t.child[g] \in ToSet(t.kids[g])
                          ELSE t.child[g] = None
    BY DEF Good, FrontIsATab, Exists
  <1> HIDE DEF u, w, n, q
  <1>7. CASE Len(q) = 1
    <2>1. /\ Sound(w) /\ w.kids = u.kids /\ w.parent = u.parent
          /\ w.child = [u.child EXCEPT ![f] = None]
      BY <1>1, <1>3, <1>7, FrontSound
    <2>2. u.kids[f] = <<>>
      BY <1>1, <1>4, <1>7, NoTabs
    <2>3. FrontIsATab(w)
      BY <2>1, <2>2, <1>1, <1>5, <1>6 DEF FrontIsATab, Exists
    <2> QED BY <2>1, <2>3, <1>1 DEF Good, Removed, w, q
  <1>8. CASE Len(q) # 1
    <2>1. u.kids[f] # <<>> /\ q # <<>>
      <3>1. Len(q) # 0
        BY <1>2
      <3>2. Len(u.kids[f]) # 0
        BY <1>1, <1>2, <1>8
      <3> QED BY <3>1, <3>2, <1>2, <1>4, NoTabs
    <2>2. n \in ToSet(q) \ {c} /\ n \in Clients
      <3>1. n \in ToSet(q) \ {c}
        BY <1>2, <1>8, NeighbourStays DEF n
      <3>2. \A x \in ToSet(q) : x \in Clients
        BY <1>2, LenProperties, ElementOfSeq DEF ToSet
      <3> QED BY <3>1, <3>2
    <2>3. CASE t.child[f] = c
      <3>1. /\ Sound(w) /\ w.kids = u.kids /\ w.parent = u.parent
            /\ w.child = [u.child EXCEPT ![f] = n]
        BY <1>1, <1>3, <1>8, <2>2, <2>3, FrontSound
      <3>2. FrontIsATab(w)
        BY <3>1, <2>1, <2>2, <1>1, <1>5, <1>6 DEF FrontIsATab, Exists
      <3> QED BY <3>1, <3>2, <1>1 DEF Good, Removed, w, q
    <2>4. CASE t.child[f] # c
      <3>1. w = u
        BY <1>3, <1>8, <2>4
      <3>2. FrontIsATab(w)
        BY <3>1, <2>1, <2>4, <1>1, <1>6 DEF FrontIsATab, Exists, q
      <3> QED BY <3>1, <3>2, <1>1 DEF Good, Removed, w, q
    <2> QED BY <2>3, <2>4
  <1> QED BY <1>7, <1>8

(* Frame::Frame *)
LEMMA NewFrameGood ==
    ASSUME NEW t, Good(t), NEW c \in Clients, t.parent[c] = None,
           NEW f \in Frames, ~ Exists(t, f)
    PROVE  Good(NewFrame(t, f, c))
  <1> DEFINE u == AddChild(t, f, c)
             w == NewFrame(t, f, c)
  <1>1. /\ Sound(u) /\ u.child = t.child /\ u.kids[f] # <<>>
        /\ ToSet(u.kids[f]) = ToSet(t.kids[f]) \cup {c}
        /\ \A g \in Frames \ {f} : u.kids[g] = t.kids[g]
    <2>1. Added(t, u, f, c)
      BY AddSound DEF Good
    <2> HIDE DEF u
    <2> QED BY <2>1 DEF Added
  <1>2. w = PutInFront(u, f, c)
    BY DEF NewFrame
  <1>3. t.child \in [Frames -> Clients \cup {None}]
    BY DEF Good, Sound, IsTabs
  <1> HIDE DEF u, w
  <1>4. Sound(w) /\ w.kids = u.kids /\ w.child = [u.child EXCEPT ![f] = c]
    BY <1>1, <1>2, FrontSound
  <1>5. FrontIsATab(w)
    BY <1>1, <1>3, <1>4 DEF Good, FrontIsATab, Exists
  <1> QED BY <1>4, <1>5 DEF Good, w

(* PDecor::addChild, the new tab in front or not *)
LEMMA JoinGood ==
    ASSUME NEW t, Good(t), NEW c \in Clients, t.parent[c] = None,
           NEW f \in Frames, Exists(t, f)
    PROVE  Good(AddChild(t, f, c)) /\ Good(PutInFront(AddChild(t, f, c), f, c))
  <1> DEFINE u == AddChild(t, f, c)
             w == PutInFront(u, f, c)
  <1>1. /\ Sound(u) /\ u.child = t.child /\ u.kids[f] # <<>>
        /\ ToSet(u.kids[f]) = ToSet(t.kids[f]) \cup {c}
        /\ \A g \in Frames \ {f} : u.kids[g] = t.kids[g]
    <2>1. Added(t, u, f, c)
      BY AddSound DEF Good
    <2> HIDE DEF u
    <2> QED BY <2>1 DEF Added
  <1>2. t.child \in [Frames -> Clients \cup {None}]
    BY DEF Good, Sound, IsTabs
  <1> HIDE DEF u
  <1>3. FrontIsATab(u)
    BY <1>1 DEF Good, FrontIsATab, Exists
  <1>4. Sound(w) /\ w.kids = u.kids /\ w.child = [u.child EXCEPT ![f] = c]
    BY <1>1, FrontSound
  <1> HIDE DEF w
  <1>5. FrontIsATab(w)
    BY <1>1, <1>2, <1>3, <1>4 DEF FrontIsATab, Exists
  <1> QED BY <1>1, <1>3, <1>4, <1>5 DEF Good, w, u

(* PDecor::activateChild *)
LEMMA ActivateGood ==
    ASSUME NEW t, Good(t), NEW c \in Clients, NEW f \in Frames, t.parent[c] = f
    PROVE  Good(PutInFront(t, f, c))
  <1> DEFINE w == PutInFront(t, f, c)
  <1>1. Sound(w) /\ w.kids = t.kids /\ w.child = [t.child EXCEPT ![f] = c]
    BY FrontSound DEF Good
  <1>2. c \in ToSet(t.kids[f]) /\ t.kids[f] \in Seq(Clients)
        /\ t.child \in [Frames -> Clients \cup {None}]
    BY DEF Good, Sound, ParentHasChild, IsTabs
  <1>3. t.kids[f] # <<>>
    BY <1>2, NoTabs
  <1> HIDE DEF w
  <1>4. FrontIsATab(w)
    BY <1>1, <1>2, <1>3 DEF Good, FrontIsATab, Exists
  <1> QED BY <1>1, <1>4 DEF Good, w

LEMMA FourChanges ==
    ASSUME NEW K, NEW C, NEW P, NEW t \in [kids : K, child : C, parent : P],
           NEW f, NEW q, NEW g, NEW r, NEW n, NEW p \in P,
           [[t.kids EXCEPT ![f] = q] EXCEPT ![g] = r] \in K, [t.kids EXCEPT ![f] = q] \in K,
           [t.child EXCEPT ![g] = n] \in C
    PROVE  LET u == [t EXCEPT !.kids[f] = q, !.kids[g] = r, !.child[g] = n, !.parent = p]
           IN  /\ u \in [kids : K, child : C, parent : P]
               /\ u.kids = [[t.kids EXCEPT ![f] = q] EXCEPT ![g] = r]
               /\ u.child = [t.child EXCEPT ![g] = n] /\ u.parent = p
  <1> DEFINE v == [t EXCEPT !.kids[f] = q]
             w == [v EXCEPT !.kids[g] = r]
             x == [w EXCEPT !.child[g] = n]
             u == [x EXCEPT !.parent = p]
  <1>1. u = [t EXCEPT !.kids[f] = q, !.kids[g] = r, !.child[g] = n, !.parent = p]
    BY Zenon
  <1>2. /\ v \in [kids : K, child : C, parent : P]
        /\ v.kids = [t.kids EXCEPT ![f] = q] /\ v.child = t.child
    BY SMT
  <1> HIDE DEF v
  <1>3. /\ w \in [kids : K, child : C, parent : P]
        /\ w.kids = [v.kids EXCEPT ![g] = r] /\ w.child = v.child
    BY <1>2, SMT
  <1> HIDE DEF w
  <1>4. /\ x \in [kids : K, child : C, parent : P]
        /\ x.kids = w.kids /\ x.child = [w.child EXCEPT ![g] = n]
    BY <1>2, <1>3, SMT
  <1> HIDE DEF x
  <1>5. /\ u \in [kids : K, child : C, parent : P]
        /\ u.kids = x.kids /\ u.child = x.child /\ u.parent = p
    BY <1>4, SMT
  <1> QED BY <1>1, <1>2, <1>3, <1>4, <1>5

(* PDecor::addDecor *)
Merged(t, u, f, g) ==
    /\ Good(u) /\ u.kids[f] # <<>> /\ u.kids[g] = <<>> /\ u.child[g] = None
    /\ \A h \in Frames \ {f, g} : u.kids[h] = t.kids[h]

LEMMA MergeGood ==
    ASSUME NEW t, Good(t), NEW f \in Frames, NEW g \in Frames, f # g,
           Exists(t, f), Exists(t, g)
    PROVE  Merged(t, AddDecor(t, f, g), f, g)
  <1> DEFINE q == t.kids[f] \o t.kids[g]
             p == [c \in Clients |-> IF t.parent[c] = g THEN f ELSE t.parent[c]]
             u == AddDecor(t, f, g)
  <1>1. /\ t.kids \in [Frames -> Seq(Clients)] /\ t.child \in [Frames -> Clients \cup {None}]
        /\ t.parent \in [Clients -> Frames \cup {None}]
    BY DEF Good, Sound, IsTabs
  <1>2. \A d \in Clients, h \in Frames : t.parent[d] = h <=> d \in ToSet(t.kids[h])
    BY DEF Good, Sound, ParentHasChild
  <1>3. \A h \in Frames : IsInjective(t.kids[h])
    BY DEF Good, Sound, NoTabTwice
  <1>4. \A h \in Frames : \A d \in ToSet(t.kids[h]) : d \in Clients
    BY <1>1, LenProperties, ElementOfSeq DEF ToSet
  <1>5. ToSet(t.kids[f]) \cap ToSet(t.kids[g]) = {}
    BY <1>2, <1>4
  <1>6. /\ q \in Seq(Clients) /\ IsInjective(q)
        /\ ToSet(q) = ToSet(t.kids[f]) \cup ToSet(t.kids[g])
    BY <1>1, <1>3, <1>5, ConcatApart
  <1>7. p \in [Clients -> Frames \cup {None}]
    BY <1>1
  <1>8. u = [t EXCEPT !.kids[f] = q, !.kids[g] = <<>>, !.child[g] = None, !.parent = p]
    BY DEF AddDecor
  <1>9. t.kids[f] # <<>> /\ t.kids[g] # <<>>
    BY DEF Exists
  <1>10. \A c \in Clients : p[c] = IF t.parent[c] = g THEN f ELSE t.parent[c]
    OBVIOUS
  <1>11. <<>> \in Seq(Clients) /\ IsInjective(<<>>) /\ ToSet(<<>>) = {}
    <2>1. <<>> \in Seq(Clients) /\ Len(<<>>) = 0 /\ DOMAIN <<>> = {}
      BY EmptySeq, LenProperties
    <2> QED BY <2>1 DEF IsInjective, ToSet
  <1> HIDE DEF u, q, p
  <1>12. /\ IsTabs(u) /\ u.kids = [[t.kids EXCEPT ![f] = q] EXCEPT ![g] = <<>>]
         /\ u.child = [t.child EXCEPT ![g] = None] /\ u.parent = p
    <2>1. /\ [[t.kids EXCEPT ![f] = q] EXCEPT ![g] = <<>>] \in [Frames -> Seq(Clients)]
          /\ [t.kids EXCEPT ![f] = q] \in [Frames -> Seq(Clients)]
          /\ [t.child EXCEPT ![g] = None] \in [Frames -> Clients \cup {None}]
      BY <1>1, <1>6, <1>11
    <2>2. IsTabs(t)
      BY DEF Good, Sound
    <2> QED BY <2>1, <2>2, <1>7, <1>8, FourChanges DEF IsTabs
  <1>13. /\ u.kids[f] = q /\ u.kids[g] = <<>>
         /\ \A h \in Frames \ {f, g} : u.kids[h] = t.kids[h]
    BY <1>1, <1>12
  <1>14. NoTabTwice(u)
    BY <1>3, <1>6, <1>11, <1>13 DEF NoTabTwice
  <1>15. ParentHasChild(u)
    <2> SUFFICES ASSUME NEW d \in Clients, NEW h \in Frames
                 PROVE  p[d] = h <=> d \in ToSet(u.kids[h])
      BY <1>12 DEF ParentHasChild
    <2>1. CASE h = f
      BY <2>1, <1>2, <1>6, <1>10, <1>13
    <2>2. CASE h = g
      BY <2>2, <1>10, <1>11, <1>13
    <2>3. CASE h \notin {f, g}
      BY <2>3, <1>2, <1>10, <1>13
    <2> QED BY <2>1, <2>2, <2>3
  <1>16. FrontIsATab(u)
    <2> SUFFICES ASSUME NEW h \in Frames
                 PROVE  IF u.kids[h] # <<>> THEN u.child[h] \in ToSet(u.kids[h])
                        ELSE u.child[h] = None
      BY DEF FrontIsATab, Exists
    <2>1. IF t.kids[h] # <<>> THEN t.child[h] \in ToSet(t.kids[h]) ELSE t.child[h] = None
      BY DEF Good, FrontIsATab, Exists
    <2>2. CASE h = f
      <3>1. u.child[f] = t.child[f] /\ t.child[f] \in ToSet(q)
        BY <1>1, <1>6, <1>9, <1>12, <2>1, <2>2
      <3>2. q # <<>>
        BY <3>1, <1>6, NoTabs
      <3> QED BY <2>2, <3>1, <3>2, <1>13
    <2>3. CASE h = g
      BY <2>3, <1>1, <1>12, <1>13
    <2>4. CASE h \notin {f, g}
      BY <2>1, <2>4, <1>1, <1>12, <1>13
    <2> QED BY <2>2, <2>3, <2>4
  <1>17. q # <<>>
    <2>1. t.child[f] \in ToSet(t.kids[f])
      BY <1>9 DEF Good, FrontIsATab, Exists
    <2>2. t.child[f] \in ToSet(q)
      BY <1>6, <2>1
    <2> QED BY <1>6, <2>2, NoTabs
  <1>18. u.child[g] = None
    BY <1>1, <1>12
  <1>19. Good(u)
    BY <1>12, <1>14, <1>15, <1>16 DEF Good, Sound
  <1> QED BY <1>13, <1>17, <1>18, <1>19 DEF Merged, u

(* The tabs are the same after a move, in another order. *)
LEMMA MoveRelTabs ==
    ASSUME NEW q \in Seq(Clients), IsInjective(q), NEW c \in ToSet(q), NEW off \in Int,
           ChildRel(q, c, off) # c
    PROVE  /\ MoveRel(q, c, off) \in Seq(Clients) /\ IsInjective(MoveRel(q, c, off))
           /\ ToSet(MoveRel(q, c, off)) = ToSet(q)
  <1> DEFINE k == Position(q, c)
             to == ChildRel(q, c, off)
             r == RemoveAt(q, k)
             i == Position(r, to)
             after == IF off > 0 THEN c = q[1] \/ to # r[1]
                      ELSE c # q[Len(q)] /\ to = r[Len(r)]
             at == IF after THEN i + 1 ELSE i
  <1>1. k \in 1..Len(q) /\ q[k] = c /\ Len(q) \in Nat /\ DOMAIN q = 1..Len(q)
    BY PositionOfTab, LenProperties
  <1>2. /\ r \in Seq(Clients) /\ IsInjective(r) /\ ToSet(r) = ToSet(q) \ {c}
        /\ Len(r) \in Nat
    BY <1>1, RemoveOne, LenProperties
  <1>3. to \in ToSet(q)
    <2>1. 1 + ((k - 1 + off) % Len(q)) \in 1..Len(q)
      BY <1>1
    <2>2. to = q[1 + ((k - 1 + off) % Len(q))]
      BY DEF ChildRel
    <2> QED BY <2>1, <2>2, <1>1 DEF ToSet
  <1>4. c \in Clients
    BY <1>1, ElementOfSeq
  <1> HIDE DEF k, to, r
  <1>5. i \in 1..Len(r)
    BY <1>2, <1>3, PositionOfTab DEF to
  <1> HIDE DEF i, after
  <1>6. at \in 1..(Len(r) + 1)
    BY <1>2, <1>5
  <1>7. MoveRel(q, c, off) = InsertAt(r, at, c)
    BY DEF MoveRel, k, to, r, i, after
  <1> HIDE DEF at
  <1>8. c \notin ToSet(r)
    BY <1>2
  <1>9. /\ InsertAt(r, at, c) \in Seq(Clients) /\ IsInjective(InsertAt(r, at, c))
        /\ ToSet(InsertAt(r, at, c)) = ToSet(r) \cup {c}
    BY <1>2, <1>4, <1>6, <1>8, InsertOne
  <1> QED BY <1>2, <1>7, <1>9

(* PDecor::moveChildRel *)
Reordered(t, u) == Good(u) /\ \A g \in Frames : u.kids[g] # <<>> <=> t.kids[g] # <<>>

LEMMA ReorderGood ==
    ASSUME NEW t, Good(t), NEW f \in Frames, Exists(t, f), NEW off \in Int
    PROVE  Reordered(t, MoveChildRel(t, f, off))
  <1> DEFINE q == t.kids[f]
             c == t.child[f]
             m == MoveRel(q, c, off)
             u == [t EXCEPT !.kids[f] = m]
  <1>1. IsTabs(t) /\ t.kids \in [Frames -> Seq(Clients)]
    BY DEF Good, Sound, IsTabs
  <1>2. q \in Seq(Clients) /\ IsInjective(q) /\ c \in ToSet(q) /\ q # <<>>
    BY <1>1 DEF Good, Sound, NoTabTwice, FrontIsATab, Exists
  <1>3. CASE MoveChildRel(t, f, off) = t
    BY <1>3 DEF Reordered
  <1>4. CASE ChildRel(q, c, off) # c /\ MoveChildRel(t, f, off) = u
    <2>1. m \in Seq(Clients) /\ IsInjective(m) /\ ToSet(m) = ToSet(q)
      BY <1>2, <1>4, MoveRelTabs
    <2>2. m # <<>>
      BY <2>1, <1>2, NoTabs
    <2> HIDE DEF m
    <2>3. IsTabs(u) /\ u.kids = [t.kids EXCEPT ![f] = m]
          /\ u.child = t.child /\ u.parent = t.parent
      BY <1>1, <2>1 DEF IsTabs
    <2> HIDE DEF u
    <2>4. u.kids[f] = m /\ \A g \in Frames \ {f} : u.kids[g] = t.kids[g]
      BY <1>1, <2>3
    <2>5. \A g \in Frames : /\ ToSet(u.kids[g]) = ToSet(t.kids[g])
                            /\ u.kids[g] # <<>> <=> t.kids[g] # <<>>
      BY <1>2, <2>1, <2>2, <2>4
    <2>6. NoTabTwice(u)
      BY <2>1, <2>4 DEF Good, Sound, NoTabTwice
    <2>7. ParentHasChild(u)
      BY <2>3, <2>5 DEF Good, Sound, ParentHasChild
    <2>8. FrontIsATab(u)
      BY <2>3, <2>5 DEF Good, FrontIsATab, Exists
    <2> QED BY <2>3, <2>5, <2>6, <2>7, <2>8, <1>4 DEF Good, Sound, Reordered
  <1> QED BY <1>3, <1>4 DEF MoveChildRel
----------------------------------------------------------------------------
LEMMA InitGood == Init => Good(tree)
  <1> SUFFICES ASSUME Init PROVE Good(tree)
    OBVIOUS
  <1>1. <<>> \in Seq(Clients) /\ DOMAIN <<>> = {}
    BY EmptySeq, LenProperties
  <1>2. ToSet(<<>>) = {} /\ IsInjective(<<>>)
    BY <1>1 DEF IsInjective, ToSet
  <1>3. IsTabs(tree)
    BY <1>1 DEF Init, IsTabs
  <1>4. /\ \A f \in Frames : tree.kids[f] = <<>> /\ tree.child[f] = None
        /\ \A c \in Clients : tree.parent[c] = None
    BY DEF Init
  <1>5. \A f \in Frames : f # None
    BY TabsAssumption
  <1> QED BY <1>2, <1>3, <1>4, <1>5
          DEF Good, Sound, ParentHasChild, NoTabTwice, FrontIsATab, Exists

(* Any step, the operations of which are the lemmas above. *)
LEMMA NextGood == Good(tree) /\ [Next]_tree => Good(tree')
  <1> SUFFICES ASSUME Good(tree), [Next]_tree PROVE Good(tree')
    OBVIOUS
  <1>1. /\ \A c \in Clients : tree.parent[c] \in Frames \cup {None}
        /\ \A c \in Managed : tree.parent[c] \in Frames /\ c \in Clients
        /\ \A c \in Clients \ Managed : tree.parent[c] = None
        /\ tree.parent \in [Clients -> Frames \cup {None}]
    BY DEF Good, Sound, IsTabs, Managed
  <1>2. \A f \in Frames : f \in Live <=> Exists(tree, f)
    BY DEF Live
  <1>3. ASSUME NEW c \in Clients, NEW f \in Frames, Open(c, f)
        PROVE  Good(tree')
    BY <1>1, <1>2, <1>3, NewFrameGood DEF Open
  <1>4. ASSUME NEW c \in Clients, NEW f \in Frames, Join(c, f)
        PROVE  Good(tree')
    BY <1>1, <1>2, <1>4, JoinGood DEF Join
  <1>5. ASSUME NEW c \in Clients, Close(c)
        PROVE  Good(tree')
    BY <1>1, <1>5, RemoveGood DEF Close, Removed
  <1>6. ASSUME NEW c \in Clients, Activate(c)
        PROVE  Good(tree')
    BY <1>1, <1>6, ActivateGood DEF Activate
  <1>7. ASSUME NEW c \in Clients, NEW f \in Frames, Detach(c, f)
        PROVE  Good(tree')
    <2> DEFINE g == tree.parent[c]
               u == RemoveChild(tree, c)
    <2>1. c \in Managed /\ g \in Frames /\ f \notin Live /\ tree' = NewFrame(u, f, c)
      BY <1>1, <1>7 DEF Detach
    <2>2. Removed(tree, u, g, c)
      BY <2>1, RemoveGood
    <2> HIDE DEF u
    <2>3. Good(u) /\ u.parent[c] = None
      BY <2>2, <1>1 DEF Removed
    <2>4. f # g
      <3>1. Exists(tree, g)
        BY <2>1, NoTabs DEF Good, Sound, ParentHasChild, IsTabs, Exists
      <3> QED BY <3>1, <2>1, <1>2
    <2>5. ~ Exists(u, f)
      BY <2>1, <2>2, <2>4, <1>2 DEF Removed, Exists
    <2> QED BY <2>1, <2>3, <2>5, NewFrameGood
  <1>8. ASSUME NEW c \in Clients, NEW f \in Frames, Attach(c, f)
        PROVE  Good(tree')
    <2> DEFINE g == tree.parent[c]
               u == RemoveChild(tree, c)
    <2>1. /\ c \in Managed /\ g \in Frames /\ f \in Live /\ f # g
          /\ tree' = AddChild(u, f, c) \/ tree' = PutInFront(AddChild(u, f, c), f, c)
      BY <1>1, <1>8 DEF Attach
    <2>2. Removed(tree, u, g, c)
      BY <2>1, RemoveGood
    <2> HIDE DEF u
    <2>3. Good(u) /\ u.parent[c] = None
      BY <2>2, <1>1 DEF Removed
    <2>4. Exists(u, f)
      BY <2>1, <2>2, <1>2 DEF Removed, Exists
    <2> QED BY <2>1, <2>3, <2>4, JoinGood
  <1>9. ASSUME NEW f \in Frames, NEW g \in Frames, Merge(f, g)
        PROVE  Good(tree')
    BY <1>2, <1>9, MergeGood DEF Merge, Merged
  <1>10. ASSUME NEW f \in Frames, NEW off \in {-1, 1}, Reorder(f, off)
         PROVE  Good(tree')
    BY <1>2, <1>10, ReorderGood DEF Reorder, Reordered
  <1>11. CASE UNCHANGED tree
    BY <1>11
  <1> QED BY <1>3, <1>4, <1>5, <1>6, <1>7, <1>8, <1>9, <1>10, <1>11 DEF Next

IInv == Good(tree)

LEMMA Inductive == Spec => []IInv
  <1>1. Init => IInv
    BY InitGood DEF IInv
  <1>2. IInv /\ [Next]_tree => IInv'
    BY NextGood DEF IInv
  <1> QED BY <1>1, <1>2, PTL DEF Spec

(* The types of the lists and pointers: TypeOK in every state. *)
THEOREM TypeInvariant == Spec => []TypeOK
  <1>1. IInv => TypeOK
    BY DEF IInv, Good, Sound, TypeOK
  <1> QED BY <1>1, Inductive, PTL

(* The grouping is sound in every state: a client is a tab of its parent  *)
(* only, no tab is twice in a frame, and the one in front is one of them. *)
THEOREM TreeInvariant == Spec => []TreeOK
  <1>1. IInv => TreeOK
    BY DEF IInv, Good, Sound, TreeOK
  <1> QED BY <1>1, Inductive, PTL
============================================================================

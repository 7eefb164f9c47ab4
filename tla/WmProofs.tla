------------------------------ MODULE WmProofs ------------------------------
(***************************************************************************)
(* What holds of pekwm for any number of windows, frames and workspaces,   *)
(* whatever requests are made and however late the events of the server    *)
(* are read: the grouping of windows is one FrameTree allows, the two      *)
(* lists of frames hold each frame that exists once and no other, and the  *)
(* windows in a frame are seen when the frame is.                          *)
(*                                                                         *)
(* Most handlers only map, move and focus windows.  That they leave the    *)
(* grouping, the lists and the windows that withdraw alone is shown first, *)
(* for each function they call (Keeps); then the few that change these.    *)
(* The second half follows the calls that map and hide to their end: how   *)
(* many there can be (MapLeft, HideLeft), and what they leave of a frame   *)
(* (Tabbed).                                                               *)
(***************************************************************************)
EXTENDS Wm, SequenceLemmas

TreeOf(t) == [kids |-> t.kids, child |-> t.child, parent |-> t.parent]

GP == INSTANCE FrameTreeProofs WITH
    tree <- [kids |-> s.kids, child |-> s.child, parent |-> s.parent]

Fields ==
    {"kids", "child", "parent", "fws", "fmapped", "ficon", "fsticky", "ffocused", "cws",
     "cmapped", "cicon", "csticky", "transient", "focused", "last", "mru", "wolist",
     "active", "size", "input", "gone", "queue"}

Events ==
    [type : {"FocusIn"}, window : Clients \cup {Root}]
    \cup [type : {"Unmapped"}, window : Clients \cup {None}]
    \cup [type : {"Withdrawn"}, window : Clients]

(* A state as far as the functions that map and focus windows look at it.  *)
Formed(t) ==
    /\ DOMAIN t = Fields
    /\ t.kids \in [Frames -> Seq(Clients)]
    /\ t.queue \in Seq(Events)

SameTree(t, u) == u.kids = t.kids /\ u.child = t.child /\ u.parent = t.parent
SameLists(t, u) == u.wolist = t.wolist /\ u.mru = t.mru

(* No client withdraws, none is deleted and no dialog changes its owner.   *)
Stays(t, u) ==
    /\ DOMAIN u = DOMAIN t
    /\ u.transient = t.transient /\ u.gone = t.gone
    /\ u.queue \in Seq(Events)
    /\ \A c \in Clients : Count(u.queue, Withdrawn(c)) = Count(t.queue, Withdrawn(c))

Keeps(t, u) == Stays(t, u) /\ SameTree(t, u) /\ SameLists(t, u)

LEMMA KeepsItself == ASSUME NEW t, Formed(t) PROVE Keeps(t, t)
  BY DEF Formed, Keeps, Stays, SameTree, SameLists

LEMMA KeepsOn ==
    ASSUME NEW t, NEW u, NEW v, Keeps(t, u), Keeps(u, v)
    PROVE  Keeps(t, v)
  BY DEF Keeps, Stays, SameTree, SameLists

LEMMA KeepsForm ==
    ASSUME NEW t, NEW u, Formed(t), Keeps(t, u)
    PROVE  Formed(u) /\ u.kids = t.kids /\ u.child = t.child /\ u.parent = t.parent
  BY DEF Keeps, Stays, SameTree, Formed

----------------------------------------------------------------------------
(* The X server: only a program's own Withdraw posts a Withdrawn.          *)
LEMMA PostKeeps ==
    ASSUME NEW t, Formed(t), NEW e \in Events, e.type # "Withdrawn"
    PROVE  Keeps(t, Post(t, e))
  <1>1. /\ Post(t, e).queue = Append(t.queue, e) /\ DOMAIN Post(t, e) = DOMAIN t
        /\ Post(t, e).transient = t.transient /\ Post(t, e).gone = t.gone
        /\ SameTree(t, Post(t, e)) /\ SameLists(t, Post(t, e))
    BY DEF Formed, Fields, Post, SameTree, SameLists
  <1>2. \A c \in Clients : Count(Append(t.queue, e), Withdrawn(c)) = Count(t.queue, Withdrawn(c))
    <2>1. SUFFICES ASSUME NEW c \in Clients
                   PROVE  Count(Append(t.queue, e), Withdrawn(c)) = Count(t.queue, Withdrawn(c))
      OBVIOUS
    <2>2. e # Withdrawn(c)
      BY DEF Withdrawn
    <2> QED BY <2>2, CountAppend DEF Formed
  <1>3. Append(t.queue, e) \in Seq(Events)
    BY DEF Formed
  <1> QED BY <1>1, <1>2, <1>3 DEF Keeps, Stays

LEMMA EventTypes ==
    /\ \A w \in Clients \cup {Root} : FocusIn(w) \in Events /\ FocusIn(w).type = "FocusIn"
    /\ \A w \in Clients \cup {None} : Unmapped(w) \in Events /\ Unmapped(w).type = "Unmapped"
    /\ \A c \in Clients : Withdrawn(c) \in Events /\ Withdrawn(c).type = "Withdrawn"
  BY DEF Events, FocusIn, Unmapped, Withdrawn

(* The focus of the server and the one a window is drawn with.             *)
LEMMA NoteKeeps ==
    ASSUME NEW t, Formed(t), NEW w
    PROVE  Keeps(t, [t EXCEPT !.input = w])
  BY DEF Formed, Fields, Keeps, Stays, SameTree, SameLists

LEMMA LoseInputKeeps ==
    ASSUME NEW t, Formed(t), NEW c
    PROVE  Keeps(t, LoseInput(t, c))
  <1> DEFINE u == [t EXCEPT !.input = Root]
  <1>1. Keeps(t, u) /\ Formed(u)
    BY NoteKeeps, KeepsForm
  <1> HIDE DEF u
  <1>2. Keeps(u, Post(u, FocusIn(Root)))
    BY <1>1, PostKeeps, EventTypes
  <1>3. Keeps(t, Post(u, FocusIn(Root)))
    BY <1>1, <1>2, KeepsOn
  <1> QED BY <1>3, KeepsItself DEF LoseInput, u

LEMMA XSetInputFocusKeeps ==
    ASSUME NEW t, Formed(t), NEW w \in Clients \cup {Root}
    PROVE  Keeps(t, XSetInputFocus(t, w))
  <1> DEFINE u == [t EXCEPT !.input = w]
  <1>1. Keeps(t, u) /\ Formed(u)
    BY NoteKeeps, KeepsForm
  <1> HIDE DEF u
  <1>2. Keeps(u, Post(u, FocusIn(w)))
    BY <1>1, PostKeeps, EventTypes
  <1>3. Keeps(t, Post(u, FocusIn(w)))
    BY <1>1, <1>2, KeepsOn
  <1> QED BY <1>3, KeepsItself DEF XSetInputFocus, u

LEMMA XUnmapWindowKeeps ==
    ASSUME NEW t, Formed(t), NEW c \in Clients
    PROVE  Keeps(t, XUnmapWindow(t, c))
  <1>1. Keeps(t, Post(t, Unmapped(c)))
    BY PostKeeps, EventTypes
  <1>2. Keeps(t, LoseInput(Post(t, Unmapped(c)), c))
    BY <1>1, LoseInputKeeps, KeepsForm, KeepsOn
  <1> QED BY <1>2, KeepsItself DEF XUnmapWindow

LEMMA ReparentKeeps ==
    ASSUME NEW t, Formed(t), NEW c \in Clients
    PROVE  Keeps(t, Reparent(t, c))
  BY XUnmapWindowKeeps, KeepsItself DEF Reparent

LEMMA GiveClientFocusKeeps ==
    ASSUME NEW t, Formed(t), NEW c \in Clients
    PROVE  Keeps(t, GiveClientFocus(t, c))
  BY XSetInputFocusKeeps, KeepsItself DEF GiveClientFocus

LEMMA GiveFrameFocusKeeps ==
    ASSUME NEW t, Formed(t), NEW f, t.child[f] \in Clients
    PROVE  Keeps(t, GiveFrameFocus(t, f))
  BY GiveClientFocusKeeps, XSetInputFocusKeeps DEF GiveFrameFocus

LEMMA SetFocusedKeeps ==
    ASSUME NEW t, Formed(t), NEW wo, NEW b
    PROVE  Keeps(t, SetFocused(t, wo, b))
  <1>1. Keeps(t, [t EXCEPT !.ffocused[t.parent[wo]] = b])
    BY DEF Formed, Fields, Keeps, Stays, SameTree, SameLists
  <1> QED BY <1>1, KeepsItself DEF SetFocused

(* A frame that exists has a client in front. *)
Fronted(t) == \A f \in Frames : Exists(t, f) => t.child[f] \in Clients

LEMMA FindWOAndFocusKeeps ==
    ASSUME NEW t, Formed(t), Fronted(t), t.mru \in Seq(Frames), NEW search
    PROVE  Keeps(t, FindWOAndFocus(t, search))
  <1> DEFINE usable == {f \in Frames : Exists(t, f) /\ t.fmapped[f]}
             recent == Sieve(t.mru, usable)
  <1>1. recent \in Seq(Frames) /\ ToSet(recent) = ToSet(t.mru) \cap usable
    BY SieveElements
  <1>2. recent # <<>> => recent[Len(recent)] \in usable
    <2> HIDE DEF recent, usable
    <2>1. recent # <<>> => Last(recent) \in ToSet(recent)
      BY <1>1, ToSetOfSeq
    <2> QED BY <1>1, <2>1 DEF Last
  <1>3. \A f \in usable : t.child[f] \in Clients
    BY DEF Fronted
  <1>4. FindWOAndFocus(t, search) =
          IF search \in usable THEN GiveFrameFocus(t, search)
          ELSE IF recent # <<>> THEN GiveFrameFocus(t, recent[Len(recent)])
          ELSE IF t.focused = None THEN XSetInputFocus(t, Root)
          ELSE t
    BY DEF FindWOAndFocus
  <1> HIDE DEF usable, recent
  <1>5. \A f \in usable : Keeps(t, GiveFrameFocus(t, f))
    BY <1>3, GiveFrameFocusKeeps
  <1> QED BY <1>2, <1>4, <1>5, XSetInputFocusKeeps, KeepsItself

----------------------------------------------------------------------------
(* Mapping: the calls that nest.                                           *)
CallNames == {"MapClient", "MapFrame", "IconifyClient", "IconifyFrame", "UnmapFrame",
              "UnmapClient", "HideFrame", "Reparent"}
Calls ==
    [name : {"MapFrame", "IconifyFrame", "UnmapFrame", "HideFrame"}, of : Frames]
    \cup [name : {"MapClient", "IconifyClient", "UnmapClient", "Reparent"}, of : Clients]

LEMMA CallTypes ==
    /\ \A f \in Frames, n \in {"MapFrame", "IconifyFrame", "UnmapFrame", "HideFrame"} :
         Call(n, f) \in Calls
    /\ \A c \in Clients, n \in {"MapClient", "IconifyClient", "UnmapClient", "Reparent"} :
         Call(n, c) \in Calls
  BY DEF Calls, Call

LEMMA ForEachFrame ==
    ASSUME NEW q \in Seq(Frames), NEW n \in {"MapFrame", "IconifyFrame", "UnmapFrame", "HideFrame"}
    PROVE  ForEach(n, q) \in Seq(Calls)
  <1>1. \A i \in 1..Len(q) : Call(n, q[i]) \in Calls
    BY CallTypes
  <1> QED BY <1>1 DEF ForEach

LEMMA ForEachClient ==
    ASSUME NEW q \in Seq(Clients), NEW n \in {"MapClient", "IconifyClient", "UnmapClient", "Reparent"}
    PROVE  ForEach(n, q) \in Seq(Calls)
  <1>1. \A i \in 1..Len(q) : Call(n, q[i]) \in Calls
    BY CallTypes
  <1> QED BY <1>1 DEF ForEach

(* A finite set put in an order: each element is there once.               *)
LEMMA SetInOrder ==
    ASSUME NEW T, IsFiniteSet(T)
    PROVE  /\ SetToSeq(T) \in Seq(T) /\ IsInjective(SetToSeq(T))
           /\ ToSet(SetToSeq(T)) = T
  <1>1. Cardinality(T) \in Nat /\ ExistsBijection(1..Cardinality(T), T)
    BY FS_CardinalityType
  <1>2. PICK f : f \in Bijection(1..Cardinality(T), T)
    BY <1>1 DEF ExistsBijection
  <1>3. f \in [1..Cardinality(T) -> T] /\ IsInjective(f)
    BY <1>2 DEF Bijection, Injection, IsInjective
  <1>4. SetToSeq(T) \in [1..Cardinality(T) -> T] /\ IsInjective(SetToSeq(T))
    BY <1>3 DEF SetToSeq
  <1> DEFINE q == SetToSeq(T)
             n == Cardinality(T)
  <1>5. n \in Nat /\ q \in [1..n -> T] /\ IsInjective(q) /\ IsFiniteSet(1..n) /\ Cardinality(1..n) = n
    BY <1>1, <1>4, FS_Interval
  <1> HIDE DEF q
  <1>6. q \in Injection(1..n, T)
    BY <1>5 DEF Injection, IsInjective
  <1>7. q \in Surjection(1..n, T)
    BY <1>5, <1>6, FS_Injection
  <1>8. q \in Seq(T) /\ DOMAIN q = 1..n
    BY <1>5
  <1>9. ToSet(q) = T
    BY <1>7, <1>8 DEF Surjection, ToSet
  <1> QED BY <1>5, <1>8, <1>9 DEF q

LEMMA FamilyTypes ==
    ASSUME NEW t, NEW c
    PROVE  FamilyFrames(t, c) \in Seq(Frames)
  <1> DEFINE G == {f \in Frames : \E d \in Clients : InFront(t, f, d) /\ TransientFor[d] = c}
  <1>1. IsFiniteSet(G) /\ G \subseteq Frames
    BY FS_Subset, WmAssumption
  <1> HIDE DEF G
  <1>2. SetToSeq(G) \in Seq(G)
    BY <1>1, SetInOrder
  <1>3. SetToSeq(G) \in Seq(Frames)
    BY <1>1, <1>2
  <1> QED BY <1>3 DEF FamilyFrames, G

(* What a body leaves: the state as it was, and calls there are.           *)
Proper(t, b) == Keeps(t, b.state) /\ b.calls \in Seq(Calls)

LEMMA BodyProper ==
    ASSUME NEW t, NEW u, Keeps(t, u), NEW q \in Seq(Calls)
    PROVE  Proper(t, Body(u, q))
  BY DEF Proper, Body

LEMMA NoCalls == <<>> \in Seq(Calls)
  OBVIOUS

LEMMA MapClientProper ==
    ASSUME NEW t, Formed(t), NEW c \in Clients
    PROVE  Proper(t, MapClientBody(t, c))
  <1> DEFINE u == [t EXCEPT !.cicon[c] = FALSE, !.cmapped[c] = TRUE]
  <1>1. Keeps(t, u)
    BY DEF Formed, Fields, Keeps, Stays, SameTree, SameLists
  <1>2. ForEach("MapFrame", FamilyFrames(t, c)) \in Seq(Calls)
    BY FamilyTypes, ForEachFrame
  <1> HIDE DEF u
  <1>3. \A q \in Seq(Calls) : Proper(t, Body(u, q)) /\ Proper(t, Body(t, q))
    BY <1>1, BodyProper, KeepsItself
  <1> QED BY <1>2, <1>3, NoCalls DEF MapClientBody, u

LEMMA MapFrameProper ==
    ASSUME NEW t, Formed(t), NEW f \in Frames
    PROVE  Proper(t, MapFrameBody(t, f))
  <1> DEFINE u == [t EXCEPT !.fmapped[f] = TRUE, !.ficon[f] = FALSE]
  <1>1. Keeps(t, u)
    BY DEF Formed, Fields, Keeps, Stays, SameTree, SameLists
  <1>2. t.kids[f] \in Seq(Clients)
    BY DEF Formed
  <1>3. ForEach("MapClient", t.kids[f]) \in Seq(Calls)
    BY <1>2, ForEachClient
  <1> HIDE DEF u
  <1>4. \A q \in Seq(Calls) : Proper(t, Body(u, q)) /\ Proper(t, Body(t, q))
    BY <1>1, BodyProper, KeepsItself
  <1> QED BY <1>3, <1>4, NoCalls DEF MapFrameBody, u

LEMMA UnmapClientKeeps ==
    ASSUME NEW t, Formed(t), NEW c \in Clients
    PROVE  Keeps(t, UnmapClient(t, c))
  <1> DEFINE u == [t EXCEPT !.cmapped[c] = FALSE]
  <1>1. Keeps(t, u)
    BY DEF Formed, Fields, Keeps, Stays, SameTree, SameLists
  <1> HIDE DEF u
  <1>2. Keeps(t, XUnmapWindow(u, c))
    BY <1>1, KeepsForm, XUnmapWindowKeeps, KeepsOn
  <1> QED BY <1>2, KeepsItself DEF UnmapClient, u

LEMMA IconifyClientProper ==
    ASSUME NEW t, Formed(t), NEW c \in Clients
    PROVE  Proper(t, IconifyClientBody(t, c))
  <1> DEFINE u == [t EXCEPT !.cicon[c] = TRUE]
             last == <<Call("UnmapClient", c)>>
             inner == IF t.transient[c] # None THEN <<>>
                      ELSE ForEach("IconifyFrame", FamilyFrames(t, c))
  <1>1. Keeps(t, u)
    BY DEF Formed, Fields, Keeps, Stays, SameTree, SameLists
  <1>2. ForEach("IconifyFrame", FamilyFrames(t, c)) \in Seq(Calls)
    BY FamilyTypes, ForEachFrame
  <1>3. inner \in Seq(Calls) /\ last \in Seq(Calls)
    BY <1>2, CallTypes
  <1> HIDE DEF u, last, inner
  <1>4. inner \o last \in Seq(Calls)
    BY <1>3
  <1>5. \A q \in Seq(Calls) : Proper(t, Body(u, q)) /\ Proper(t, Body(t, q))
    BY <1>1, BodyProper, KeepsItself
  <1>6. IconifyClientBody(t, c) = IF t.cicon[c] THEN Body(t, <<>>) ELSE Body(u, inner \o last)
    BY DEF IconifyClientBody, u, last, inner
  <1> QED BY <1>4, <1>5, <1>6, NoCalls

LEMMA UnmapFrameProper ==
    ASSUME NEW t, Formed(t), NEW f \in Frames
    PROVE  Proper(t, UnmapFrameBody(t, f))
  <1> DEFINE name == IF t.ficon[f] THEN "IconifyClient" ELSE "UnmapClient"
             inner == ForEach(name, t.kids[f])
             last == <<Call("HideFrame", f)>>
  <1>1. t.kids[f] \in Seq(Clients) /\ name \in {"IconifyClient", "UnmapClient"}
    BY DEF Formed
  <1>2. inner \in Seq(Calls) /\ last \in Seq(Calls)
    BY <1>1, ForEachClient, CallTypes
  <1> HIDE DEF last, inner, name
  <1>3. inner \o last \in Seq(Calls)
    BY <1>2
  <1>4. \A q \in Seq(Calls) : Proper(t, Body(t, q))
    BY BodyProper, KeepsItself
  <1>5. UnmapFrameBody(t, f) = IF ~ t.fmapped[f] THEN Body(t, <<>>) ELSE Body(t, inner \o last)
    BY DEF UnmapFrameBody, last, inner, name
  <1> QED BY <1>3, <1>4, <1>5, NoCalls

LEMMA HideFrameKeeps ==
    ASSUME NEW t, Formed(t), NEW f \in Frames
    PROVE  Keeps(t, HideFrame(t, f))
  <1> DEFINE u == [t EXCEPT !.fmapped[f] = FALSE, !.ffocused[f] = FALSE]
  <1>1. Keeps(t, u)
    BY DEF Formed, Fields, Keeps, Stays, SameTree, SameLists
  <1> HIDE DEF u
  <1>2. Keeps(t, Post(u, Unmapped(None)))
    BY <1>1, KeepsForm, PostKeeps, EventTypes, KeepsOn
  <1> QED BY <1>2 DEF HideFrame, u

LEMMA IconifyFrameProper ==
    ASSUME NEW t, Formed(t), NEW f \in Frames
    PROVE  Proper(t, IconifyFrameBody(t, f))
  <1> DEFINE u == [t EXCEPT !.ficon[f] = TRUE]
             q == <<Call("UnmapFrame", f)>>
  <1>1. Keeps(t, u)
    BY DEF Formed, Fields, Keeps, Stays, SameTree, SameLists
  <1>2. q \in Seq(Calls)
    BY CallTypes
  <1> HIDE DEF u, q
  <1>3. Proper(t, Body(u, q)) /\ Proper(t, Body(t, <<>>))
    BY <1>1, <1>2, NoCalls, BodyProper, KeepsItself
  <1> QED BY <1>3 DEF IconifyFrameBody, u, q

LEMMA EachBodyProper ==
    ASSUME NEW t, Formed(t), NEW e \in Calls
    PROVE  Proper(t, BodyOf(t, e))
  <1>1. \A c \in Clients : Proper(t, Body(UnmapClient(t, c), <<>>)) /\ Proper(t, Body(Reparent(t, c), <<>>))
    BY UnmapClientKeeps, ReparentKeeps, BodyProper, NoCalls
  <1>2. \A f \in Frames : Proper(t, Body(HideFrame(t, f), <<>>))
    BY HideFrameKeeps, BodyProper, NoCalls
  <1>3. \A c \in Clients : Proper(t, MapClientBody(t, c)) /\ Proper(t, IconifyClientBody(t, c))
    BY MapClientProper, IconifyClientProper
  <1>4. \A f \in Frames : /\ Proper(t, MapFrameBody(t, f)) /\ Proper(t, IconifyFrameBody(t, f))
                          /\ Proper(t, UnmapFrameBody(t, f))
    BY MapFrameProper, IconifyFrameProper, UnmapFrameProper
  <1>5. CASE e.name \in {"MapFrame", "IconifyFrame", "UnmapFrame", "HideFrame"} /\ e.of \in Frames
    BY <1>2, <1>4, <1>5 DEF BodyOf
  <1>6. CASE e.name \in {"MapClient", "IconifyClient", "UnmapClient", "Reparent"} /\ e.of \in Clients
    BY <1>1, <1>3, <1>6 DEF BodyOf
  <1> QED BY <1>5, <1>6 DEF Calls

LEMMA NextCallProper ==
    ASSUME NEW t, Formed(t), NEW r, Proper(t, r)
    PROVE  Proper(t, NextCall(r))
  <1>1. r.calls \in Seq(Calls) /\ Formed(r.state) /\ Keeps(t, r.state)
    BY KeepsForm DEF Proper
  <1>2. CASE r.calls # <<>>
    <2> DEFINE b == BodyOf(r.state, Head(r.calls))
    <2>1. Head(r.calls) \in Calls /\ Tail(r.calls) \in Seq(Calls)
      BY <1>1, <1>2
    <2>2. Keeps(r.state, b.state) /\ b.calls \in Seq(Calls)
      BY <1>1, <2>1, EachBodyProper DEF Proper
    <2> HIDE DEF b
    <2>3. Keeps(t, b.state) /\ b.calls \o Tail(r.calls) \in Seq(Calls)
      BY <1>1, <2>1, <2>2, KeepsOn
    <2>4. Proper(t, Body(b.state, b.calls \o Tail(r.calls)))
      BY <2>3, BodyProper
    <2> QED BY <1>2, <2>4 DEF NextCall, Then, b
  <1> QED BY <1>2 DEF NextCall


(* The calls made one after the other, up to the n-th.                     *)
RunStep(g, t, q, i) == IF i = 0 THEN Body(t, q) ELSE NextCall(g[i - 1])

IsRun(g, t, q, n) == g = [i \in 0..n |-> RunStep(g, t, q, i)]

LEMMA MaxCallsNat == MaxCalls \in Nat
  <1>1. Cardinality(Clients) \in Nat /\ Cardinality(Frames) \in Nat
    BY WmAssumption, FS_CardinalityType
  <1> QED BY <1>1 DEF MaxCalls

LEMMA RunExists ==
    ASSUME NEW t, NEW q, NEW k \in Nat
    PROVE  \E g : IsRun(g, t, q, k)
  <1> DEFINE T == {n \in Nat : \E g : IsRun(g, t, q, n)}
  <1>1. 0 \in T
    <2> DEFINE g == [i \in 0..0 |-> Body(t, q)]
    <2>1. IsRun(g, t, q, 0)
      BY DEF IsRun, RunStep
    <2> QED BY <2>1
  <1>2. ASSUME NEW n \in Nat, n \in T
        PROVE  n + 1 \in T
    <2>1. PICK g : IsRun(g, t, q, n)
      BY <1>2
    <2> DEFINE h == [i \in 0..(n + 1) |-> IF i = n + 1 THEN RunStep(g, t, q, i) ELSE g[i]]
    <2>2. \A i \in 0..n : g[i] = RunStep(g, t, q, i)
      BY <2>1 DEF IsRun
    <2>3. \A i \in 0..(n + 1) : i # 0 => h[i - 1] = g[i - 1]
      OBVIOUS
    <2>4. \A i \in 0..(n + 1) : RunStep(h, t, q, i) = RunStep(g, t, q, i)
      <3> HIDE DEF h
      <3> QED BY <2>3 DEF RunStep
    <2>5. \A i \in 0..(n + 1) : h[i] = RunStep(h, t, q, i)
      BY <2>2, <2>4
    <2>6. IsRun(h, t, q, n + 1)
      <3>1. h = [i \in 0..(n + 1) |-> h[i]]
        OBVIOUS
      <3> HIDE DEF h
      <3> QED BY <2>5, <3>1 DEF IsRun
    <2> QED BY <2>6
  <1> HIDE DEF T
  <1>3. \A n \in 0..(k - 1) : n \in T => n + 1 \in T
    BY <1>2
  <1>4. \A n \in 0..k : n \in T
    BY <1>1, <1>3, Upward
  <1>5. k \in T
    BY <1>4
  <1> QED BY <1>5 DEF T

LEMMA RunDefined ==
    ASSUME NEW t, NEW q
    PROVE  \E g : IsRun(g, t, q, MaxCalls) /\ RunCalls(t, q) = g[MaxCalls].state
  <1> DEFINE r == CHOOSE g : g = [i \in 0..MaxCalls |-> IF i = 0 THEN Body(t, q)
                                                        ELSE NextCall(g[i - 1])]
  <1>1. RunCalls(t, q) = r[MaxCalls].state
    BY DEF RunCalls
  <1>2. \E g : g = [i \in 0..MaxCalls |-> IF i = 0 THEN Body(t, q) ELSE NextCall(g[i - 1])]
    <2>1. \E g : IsRun(g, t, q, MaxCalls)
      BY RunExists, MaxCallsNat
    <2> QED BY <2>1 DEF IsRun, RunStep
  <1>3. r = [i \in 0..MaxCalls |-> IF i = 0 THEN Body(t, q) ELSE NextCall(r[i - 1])]
    BY <1>2
  <1> HIDE DEF r
  <1>4. IsRun(r, t, q, MaxCalls)
    BY <1>3 DEF IsRun, RunStep
  <1> QED BY <1>1, <1>4

LEMMA RunCallsKeeps ==
    ASSUME NEW t, Formed(t), NEW q \in Seq(Calls)
    PROVE  Keeps(t, RunCalls(t, q))
  <1>1. PICK g : IsRun(g, t, q, MaxCalls) /\ RunCalls(t, q) = g[MaxCalls].state
    BY RunDefined
  <1> DEFINE T == {n \in 0..MaxCalls : Proper(t, g[n])}
  <1>2. g[0] = Body(t, q) /\ \A n \in 0..(MaxCalls - 1) : g[n + 1] = NextCall(g[n])
    BY <1>1, MaxCallsNat DEF IsRun, RunStep
  <1>3. 0 \in T
    BY <1>2, MaxCallsNat, BodyProper, KeepsItself
  <1>4. \A n \in 0..(MaxCalls - 1) : n \in T => n + 1 \in T
    BY <1>2, MaxCallsNat, NextCallProper
  <1> HIDE DEF T
  <1>5. \A n \in 0..MaxCalls : n \in T
    BY <1>3, <1>4, MaxCallsNat, Upward
  <1>6. Proper(t, g[MaxCalls])
    BY <1>5, MaxCallsNat DEF T
  <1> QED BY <1>1, <1>6 DEF Proper

LEMMA MapClientKeeps ==
    ASSUME NEW t, Formed(t), NEW c \in Clients
    PROVE  Keeps(t, MapClient(t, c))
  <1>1. <<Call("MapClient", c)>> \in Seq(Calls)
    BY CallTypes
  <1> QED BY <1>1, RunCallsKeeps DEF MapClient

LEMMA MapFrameKeeps ==
    ASSUME NEW t, Formed(t), NEW f \in Frames
    PROVE  Keeps(t, MapFrame(t, f))
  <1>1. <<Call("MapFrame", f)>> \in Seq(Calls)
    BY CallTypes
  <1> QED BY <1>1, RunCallsKeeps DEF MapFrame

LEMMA UnmapFrameKeeps ==
    ASSUME NEW t, Formed(t), NEW f \in Frames
    PROVE  Keeps(t, UnmapFrame(t, f))
  <1>1. <<Call("UnmapFrame", f)>> \in Seq(Calls)
    BY CallTypes
  <1> QED BY <1>1, RunCallsKeeps DEF UnmapFrame

LEMMA IconifyFrameKeeps ==
    ASSUME NEW t, Formed(t), NEW f \in Frames
    PROVE  Keeps(t, IconifyFrame(t, f))
  <1>1. <<Call("IconifyFrame", f)>> \in Seq(Calls)
    BY CallTypes
  <1> QED BY <1>1, RunCallsKeeps DEF IconifyFrame

----------------------------------------------------------------------------
(* Workspaces.                                                             *)
LEMMA SetFrameWorkspaceKeeps ==
    ASSUME NEW t, Formed(t), NEW f \in Frames, NEW n
    PROVE  Keeps(t, SetFrameWorkspace(t, f, n))
  <1> DEFINE w == Clamp(t, n)
             here == t.fsticky[f] \/ w = t.active
             m == [c \in Clients |-> IF t.parent[c] = f THEN w ELSE t.cws[c]]
             v == [t EXCEPT !.fws[f] = w]
             u == [v EXCEPT !.cws = m]
  <1>1. [t EXCEPT !.fws[f] = w, !.cws = [c \in Clients |-> IF t.parent[c] = f THEN w ELSE @[c]]] = u
    BY DEF Formed, Fields
  <1>2. SetFrameWorkspace(t, f, n) =
          IF ~ u.fmapped[f] /\ ~ u.ficon[f]
          THEN IF here THEN MapFrame(u, f) ELSE u
          ELSE IF here THEN u ELSE UnmapFrame(u, f)
    BY <1>1 DEF SetFrameWorkspace
  <1> HIDE DEF w, here, m
  <1>3. Keeps(t, u)
    BY DEF Formed, Fields, Keeps, Stays, SameTree, SameLists
  <1> HIDE DEF u
  <1>4. Formed(u)
    BY <1>3, KeepsForm
  <1>5. Keeps(u, MapFrame(u, f)) /\ Keeps(u, UnmapFrame(u, f))
    BY <1>4, MapFrameKeeps, UnmapFrameKeeps
  <1>6. Keeps(t, MapFrame(u, f)) /\ Keeps(t, UnmapFrame(u, f))
    BY <1>3, <1>5, KeepsOn
  <1> QED BY <1>2, <1>3, <1>6


LEMMA VisitKeeps ==
    ASSUME NEW t, Formed(t), NEW f \in Frames, NEW p \in {"hide", "show", "move"}, NEW n
    PROVE  Keeps(t, Visit(t, p, n, f))
  <1>1. /\ Keeps(t, UnmapFrame(t, f)) /\ Keeps(t, MapFrame(t, f))
        /\ Keeps(t, SetFrameWorkspace(t, f, n - 1)) /\ Keeps(t, t)
    BY UnmapFrameKeeps, MapFrameKeeps, SetFrameWorkspaceKeeps, KeepsItself
  <1> QED BY <1>1 DEF Visit

(* The states after each frame, up to the k-th.                            *)
TurnStep(g, t, p, n, i) == IF i = 0 THEN t ELSE Visit(g[i - 1], p, n, t.wolist[i])

IsTurn(g, t, p, n, k) == g = [i \in 0..k |-> TurnStep(g, t, p, n, i)]

LEMMA TurnExists ==
    ASSUME NEW t, NEW p, NEW n, NEW k \in Nat
    PROVE  \E g : IsTurn(g, t, p, n, k)
  <1> DEFINE T == {m \in Nat : \E g : IsTurn(g, t, p, n, m)}
  <1>1. 0 \in T
    <2> DEFINE g == [i \in 0..0 |-> t]
    <2>1. IsTurn(g, t, p, n, 0)
      BY DEF IsTurn, TurnStep
    <2> QED BY <2>1
  <1>2. ASSUME NEW m \in Nat, m \in T
        PROVE  m + 1 \in T
    <2>1. PICK g : IsTurn(g, t, p, n, m)
      BY <1>2
    <2> DEFINE h == [i \in 0..(m + 1) |-> IF i = m + 1 THEN TurnStep(g, t, p, n, i) ELSE g[i]]
    <2>2. \A i \in 0..m : g[i] = TurnStep(g, t, p, n, i)
      BY <2>1 DEF IsTurn
    <2>3. \A i \in 0..(m + 1) : i # 0 => h[i - 1] = g[i - 1]
      OBVIOUS
    <2>4. \A i \in 0..(m + 1) : TurnStep(h, t, p, n, i) = TurnStep(g, t, p, n, i)
      <3> HIDE DEF h
      <3> QED BY <2>3 DEF TurnStep
    <2>5. \A i \in 0..(m + 1) : h[i] = TurnStep(h, t, p, n, i)
      BY <2>2, <2>4
    <2>6. IsTurn(h, t, p, n, m + 1)
      <3>1. h = [i \in 0..(m + 1) |-> h[i]]
        OBVIOUS
      <3> HIDE DEF h
      <3> QED BY <2>5, <3>1 DEF IsTurn
    <2> QED BY <2>6
  <1> HIDE DEF T
  <1>3. \A m \in 0..(k - 1) : m \in T => m + 1 \in T
    BY <1>2
  <1>4. \A m \in 0..k : m \in T
    BY <1>1, <1>3, Upward
  <1>5. k \in T
    BY <1>4
  <1> QED BY <1>5 DEF T

LEMMA TurnDefined ==
    ASSUME NEW t, NEW p, NEW n, Len(t.wolist) \in Nat
    PROVE  \E g : IsTurn(g, t, p, n, Len(t.wolist)) /\ InTurn(t, p, n) = g[Len(t.wolist)]
  <1> DEFINE r == CHOOSE g : g = [i \in 0..Len(t.wolist) |->
                                   IF i = 0 THEN t ELSE Visit(g[i - 1], p, n, t.wolist[i])]
  <1>1. InTurn(t, p, n) = r[Len(t.wolist)]
    BY DEF InTurn
  <1>2. \E g : g = [i \in 0..Len(t.wolist) |->
                     IF i = 0 THEN t ELSE Visit(g[i - 1], p, n, t.wolist[i])]
    <2>1. \E g : IsTurn(g, t, p, n, Len(t.wolist))
      BY TurnExists
    <2> QED BY <2>1 DEF IsTurn, TurnStep
  <1>3. r = [i \in 0..Len(t.wolist) |-> IF i = 0 THEN t ELSE Visit(r[i - 1], p, n, t.wolist[i])]
    BY <1>2
  <1> HIDE DEF r
  <1>4. IsTurn(r, t, p, n, Len(t.wolist))
    BY <1>3 DEF IsTurn, TurnStep
  <1> QED BY <1>1, <1>4

LEMMA InTurnKeeps ==
    ASSUME NEW t, Formed(t), t.wolist \in Seq(Frames), NEW p \in {"hide", "show", "move"}, NEW n
    PROVE  Keeps(t, InTurn(t, p, n))
  <1> DEFINE m == Len(t.wolist)
  <1>1. m \in Nat
    OBVIOUS
  <1>2. PICK g : IsTurn(g, t, p, n, m) /\ InTurn(t, p, n) = g[m]
    BY <1>1, TurnDefined
  <1>3. \A i \in 1..m : t.wolist[i] \in Frames
    OBVIOUS
  <1> HIDE DEF m
  <1> DEFINE T == {i \in 0..m : Keeps(t, g[i])}
  <1>4. g[0] = t /\ \A i \in 0..(m - 1) : g[i + 1] = Visit(g[i], p, n, t.wolist[i + 1])
    BY <1>1, <1>2 DEF IsTurn, TurnStep
  <1>5. 0 \in T
    BY <1>1, <1>4, KeepsItself
  <1>6. \A i \in 0..(m - 1) : i \in T => i + 1 \in T
    <2>1. SUFFICES ASSUME NEW i \in 0..(m - 1), Keeps(t, g[i])
                   PROVE  Keeps(t, g[i + 1])
      BY <1>1
    <2>2. Keeps(g[i], Visit(g[i], p, n, t.wolist[i + 1]))
      BY <1>1, <1>3, <2>1, KeepsForm, VisitKeeps
    <2> QED BY <1>4, <2>1, <2>2, KeepsOn
  <1> HIDE DEF T
  <1>7. \A i \in 0..m : i \in T
    BY <1>1, <1>5, <1>6, Upward
  <1>8. Keeps(t, g[m])
    BY <1>1, <1>7 DEF T
  <1> QED BY <1>2, <1>8

LEMMA ShowAllKeeps ==
    ASSUME NEW t, Formed(t), t.wolist \in Seq(Frames), NEW n
    PROVE  Keeps(t, ShowAll(t, n))
  <1> DEFINE u == [t EXCEPT !.active = n]
  <1>1. Keeps(t, u) /\ u.wolist = t.wolist
    BY DEF Formed, Fields, Keeps, Stays, SameTree, SameLists
  <1> HIDE DEF u
  <1>2. Keeps(u, InTurn(u, "show", n))
    BY <1>1, KeepsForm, InTurnKeeps
  <1> QED BY <1>1, <1>2, KeepsOn DEF ShowAll, u

LEMMA UnhideAllKeeps ==
    ASSUME NEW t, Formed(t), t.wolist \in Seq(Frames), NEW n, NEW b
    PROVE  Keeps(t, UnhideAll(t, n, b))
  <1> DEFINE u == ShowAll(t, n)
             wo == ToFocus(u, n)
             w == SetFocused(u, wo, TRUE)
             v == [w EXCEPT !.focused = wo]
  <1>1. Keeps(t, u) /\ Formed(u)
    BY ShowAllKeeps, KeepsForm
  <1>2. UnhideAll(t, n, b) =
          IF ~ b THEN u
          ELSE IF wo \in Clients /\ u.cmapped[wo] THEN GiveClientFocus(v, wo)
          ELSE XSetInputFocus(v, Root)
    BY DEF UnhideAll, Entered, GiveFocus
  <1> HIDE DEF u, wo
  <1>3. Keeps(u, w) /\ Formed(w)
    BY <1>1, SetFocusedKeeps, KeepsForm
  <1> HIDE DEF w
  <1>4. Keeps(w, v)
    BY <1>3 DEF Formed, Fields, Keeps, Stays, SameTree, SameLists
  <1> HIDE DEF v
  <1>5. Keeps(t, v) /\ Formed(v)
    BY <1>1, <1>3, <1>4, KeepsOn, KeepsForm
  <1>6. Keeps(t, XSetInputFocus(v, Root)) /\ \A c \in Clients : Keeps(t, GiveClientFocus(v, c))
    BY <1>5, XSetInputFocusKeeps, GiveClientFocusKeeps, KeepsOn
  <1> QED BY <1>1, <1>2, <1>6

LEMMA SetWorkspaceKeeps ==
    ASSUME NEW t, Formed(t), t.wolist \in Seq(Frames), NEW n, NEW b
    PROVE  Keeps(t, SetWorkspace(t, n, b))
  <1> DEFINE u == SetFocused(t, t.focused, FALSE)
             v == [u EXCEPT !.last[t.active] = t.focused, !.focused = None]
             w == HideAll(v, t.active)
  <1>1. SetWorkspace(t, n, b) = IF n = t.active \/ n >= t.size THEN t ELSE UnhideAll(w, n, b)
    BY DEF SetWorkspace
  <1>2. Keeps(t, u) /\ Formed(u)
    BY SetFocusedKeeps, KeepsForm
  <1> HIDE DEF u
  <1>3. Keeps(u, v) /\ Formed(v)
    BY <1>2 DEF Formed, Fields, Keeps, Stays, SameTree, SameLists
  <1> HIDE DEF v
  <1>4. Keeps(t, v) /\ v.wolist \in Seq(Frames)
    BY <1>2, <1>3, KeepsOn DEF Keeps, SameLists
  <1>5. Keeps(t, w) /\ Formed(w)
    BY <1>3, <1>4, InTurnKeeps, KeepsOn, KeepsForm DEF HideAll
  <1>6. w.wolist \in Seq(Frames)
    BY <1>5 DEF Keeps, SameLists
  <1> HIDE DEF w
  <1>7. Keeps(t, UnhideAll(w, n, b))
    BY <1>5, <1>6, UnhideAllKeeps, KeepsOn
  <1> QED BY <1>1, <1>7, KeepsItself

LEMMA SetSizeKeeps ==
    ASSUME NEW t, Formed(t), t.wolist \in Seq(Frames), NEW n
    PROVE  Keeps(t, SetSize(t, n))
  <1> DEFINE a == Clamp([t EXCEPT !.size = n], t.active)
             l == t.size
             u == [t EXCEPT !.size = n, !.active = a]
             k == t.active
             v == [u EXCEPT !.size = l]
             x == [u EXCEPT !.active = k]
             w == InTurn(v, "move", n)
             m == [i \in Workspaces |-> IF i < n THEN w.last[i] ELSE None]
             y == [w EXCEPT !.size = n, !.last = m]
  <1>1. SetSize(t, n) = IF n >= t.size THEN x ELSE y
    <2>1. [t EXCEPT !.size = n, !.active = Clamp([t EXCEPT !.size = n], @)] = u
      BY DEF Formed, Fields
    <2>2. [w EXCEPT !.size = n, !.last = [i \in Workspaces |-> IF i < n THEN @[i] ELSE None]] = y
      OBVIOUS
    <2> QED BY <2>1, <2>2 DEF SetSize
  <1> HIDE DEF a, l, k, m
  <1>2. Keeps(t, u) /\ Formed(u)
    BY DEF Formed, Fields, Keeps, Stays, SameTree, SameLists
  <1> HIDE DEF u
  <1>3. Keeps(u, x) /\ Keeps(u, v)
    BY <1>2 DEF Formed, Fields, Keeps, Stays, SameTree, SameLists
  <1> HIDE DEF x, v
  <1>4. Keeps(t, x) /\ Keeps(t, v) /\ Formed(v) /\ v.wolist \in Seq(Frames)
    BY <1>2, <1>3, KeepsOn, KeepsForm DEF Keeps, SameLists
  <1>5. Keeps(t, w) /\ Formed(w)
    BY <1>4, InTurnKeeps, KeepsOn, KeepsForm
  <1> HIDE DEF w
  <1>6. Keeps(w, y)
    BY <1>5 DEF Formed, Fields, Keeps, Stays, SameTree, SameLists
  <1>7. Keeps(t, y)
    BY <1>5, <1>6, KeepsOn
  <1> QED BY <1>1, <1>4, <1>7


----------------------------------------------------------------------------
(* The grouping.  Moved: nothing but the tree changed of what Keeps is     *)
(* about, and it became r.                                                 *)
Moved(t, u, r) == Stays(t, u) /\ SameLists(t, u) /\ TreeOf(u) = r

LEMMA KeptIsMoved ==
    ASSUME NEW t, NEW u, Keeps(t, u)
    PROVE  Moved(t, u, TreeOf(t))
  BY DEF Keeps, Moved, SameTree, TreeOf

LEMMA MovedOn ==
    ASSUME NEW t, NEW u, NEW v, NEW q, NEW r, Moved(t, u, q), Moved(u, v, r)
    PROVE  Moved(t, v, r)
  BY DEF Moved, Stays, SameLists

LEMMA TreeFields ==
    ASSUME NEW t
    PROVE  TreeOf(t).kids = t.kids /\ TreeOf(t).child = t.child /\ TreeOf(t).parent = t.parent
  BY DEF TreeOf

LEMMA MovedForm ==
    ASSUME NEW t, Formed(t), NEW u, Stays(t, u), GP!Sound(TreeOf(u))
    PROVE  Formed(u)
  <1>1. TreeOf(u).kids \in [Frames -> Seq(Clients)]
    BY DEF GP!Sound, GP!IsTabs
  <1> QED BY <1>1 DEF Formed, Stays, TreeOf

LEMMA PutInFrontMoves ==
    ASSUME NEW t, Formed(t), NEW f, NEW c
    PROVE  Moved(t, PutInFront(t, f, c), GP!PutInFront(TreeOf(t), f, c))
  <1> DEFINE u == PutInFront(t, f, c)
  <1>1. Stays(t, u) /\ SameLists(t, u)
    BY DEF Formed, Fields, Stays, SameLists, PutInFront
  <1>2. u.kids = t.kids /\ u.parent = t.parent /\ u.child = [t.child EXCEPT ![f] = c]
    BY DEF Formed, Fields, PutInFront
  <1> HIDE DEF u
  <1>3. TreeOf(u) = GP!PutInFront(TreeOf(t), f, c)
    BY <1>2 DEF TreeOf, GP!PutInFront
  <1> QED BY <1>1, <1>3 DEF Moved, u

(* The tabs of f are q and the parent of c is v now.                       *)
TreeWith(r, f, q, c, v) == [r EXCEPT !.kids[f] = q, !.parent[c] = v]
Relisted(t, u, f, q, c, v) ==
    /\ u.kids = [t.kids EXCEPT ![f] = q] /\ u.child = t.child
    /\ u.parent = [t.parent EXCEPT ![c] = v]

LEMMA TreeChanged ==
    ASSUME NEW t, NEW u, NEW f, NEW q, NEW c, NEW v, Relisted(t, u, f, q, c, v)
    PROVE  TreeOf(u) = TreeWith(TreeOf(t), f, q, c, v)
  <1> DEFINE k == [t.kids EXCEPT ![f] = q]
             p == [t.parent EXCEPT ![c] = v]
             w == [kids |-> k, child |-> t.child, parent |-> t.parent]
             x == [kids |-> k, child |-> t.child, parent |-> p]
  <1>1. [TreeOf(t) EXCEPT !.kids[f] = q] = w
    <2>1. TreeOf(t).kids = t.kids
      BY DEF TreeOf
    <2> HIDE DEF k
    <2>2. [TreeOf(t) EXCEPT !.kids = k] = w
      BY DEF TreeOf
    <2> QED BY <2>1, <2>2 DEF k
  <1>2. [w EXCEPT !.parent[c] = v] = x
    <2>1. w.parent = t.parent
      OBVIOUS
    <2> HIDE DEF k, p
    <2>2. [w EXCEPT !.parent = p] = x
      OBVIOUS
    <2> QED BY <2>1, <2>2 DEF p
  <1>3. TreeOf(u) = x
    BY DEF TreeOf, Relisted
  <1> HIDE DEF w, x, k, p
  <1> QED BY <1>1, <1>2, <1>3 DEF TreeWith

LEMMA AddChildMoves ==
    ASSUME NEW t, Formed(t), NEW f, NEW c
    PROVE  Moved(t, AddChild(t, f, c), GP!AddChild(TreeOf(t), f, c))
  <1> DEFINE u == AddChild(t, f, c)
  <1>1. Stays(t, u) /\ SameLists(t, u)
    BY DEF Formed, Fields, Stays, SameLists, AddChild
  <1>2. /\ u.kids = [t.kids EXCEPT ![f] = Append(@, c)] /\ u.child = t.child
        /\ u.parent = [t.parent EXCEPT ![c] = f]
    BY DEF Formed, Fields, AddChild
  <1> HIDE DEF u
  <1>3. TreeOf(u) = GP!AddChild(TreeOf(t), f, c)
    <2>1. GP!AddChild(TreeOf(t), f, c) = TreeWith(TreeOf(t), f, Append(t.kids[f], c), c, f)
      BY DEF GP!AddChild, TreeOf, TreeWith
    <2>2. Relisted(t, u, f, Append(t.kids[f], c), c, f)
      BY <1>2 DEF Relisted
    <2> QED BY <2>1, <2>2, TreeChanged
  <1> QED BY <1>1, <1>3 DEF Moved, u

LEMMA AddToFrameMoves ==
    ASSUME NEW t, Formed(t), NEW f, NEW c \in Clients
    PROVE  Moved(t, AddToFrame(t, f, c), GP!AddChild(TreeOf(t), f, c))
  <1> DEFINE u == Reparent(t, c)
  <1>1. Keeps(t, u) /\ Formed(u)
    BY ReparentKeeps, KeepsForm
  <1>2. Moved(t, u, TreeOf(t)) /\ TreeOf(u) = TreeOf(t)
    BY <1>1, KeptIsMoved DEF Moved
  <1> HIDE DEF u
  <1>3. Moved(u, AddChild(u, f, c), GP!AddChild(TreeOf(t), f, c))
    BY <1>1, <1>2, AddChildMoves
  <1> QED BY <1>2, <1>3, MovedOn DEF AddToFrame, u

LEMMA DropChildMoves ==
    ASSUME NEW t, Formed(t), NEW c
    PROVE  Moved(t, DropChild(t, c), GP!DropChild(TreeOf(t), c))
  <1> DEFINE u == DropChild(t, c)
             f == t.parent[c]
             q == RemoveAt(t.kids[f], Position(t.kids[f], c))
  <1>1. u = [t EXCEPT !.kids[f] = q, !.parent[c] = None]
    BY DEF DropChild
  <1>2. GP!DropChild(TreeOf(t), c) = TreeWith(TreeOf(t), f, q, c, None)
    BY DEF GP!DropChild, TreeOf, GP!RemoveAt, RemoveAt, GP!Position, Position, TreeWith
  <1> HIDE DEF u, q, f
  <1>3. Stays(t, u) /\ SameLists(t, u)
    BY <1>1 DEF Formed, Fields, Stays, SameLists
  <1>4. Relisted(t, u, f, q, c, None)
    BY <1>1 DEF Formed, Fields, Relisted
  <1>5. TreeOf(u) = TreeWith(TreeOf(t), f, q, c, None)
    BY <1>4, TreeChanged
  <1> QED BY <1>2, <1>3, <1>5 DEF Moved, u

LEMMA ApplyStateKeeps ==
    ASSUME NEW t, Formed(t), NEW f \in Frames, NEW c \in Clients
    PROVE  Keeps(t, ApplyState(t, f, c))
  <1> DEFINE w == Clamp(t, t.fws[f])
             b == t.fsticky[f]
             u == [t EXCEPT !.csticky[c] = b, !.cws[c] = w]
  <1>1. ApplyState(t, f, c) = IF t.fmapped[f] THEN MapClient(u, c) ELSE UnmapClient(u, c)
    BY DEF ApplyState
  <1> HIDE DEF w, b
  <1>2. Keeps(t, u) /\ Formed(u)
    BY DEF Formed, Fields, Keeps, Stays, SameTree, SameLists
  <1> HIDE DEF u
  <1>3. Keeps(t, MapClient(u, c)) /\ Keeps(t, UnmapClient(u, c))
    BY <1>2, MapClientKeeps, UnmapClientKeeps, KeepsOn
  <1> QED BY <1>1, <1>3

LEMMA ActivateChildMoves ==
    ASSUME NEW t, Formed(t), NEW f \in Frames, NEW c \in Clients
    PROVE  Moved(t, ActivateChild(t, f, c), GP!PutInFront(TreeOf(t), f, c))
  <1> DEFINE w == IF t.child[f] = c THEN t ELSE ApplyState(t, f, c)
             u == PutInFront(w, f, c)
  <1>1. Keeps(t, w) /\ Formed(w)
    BY ApplyStateKeeps, KeepsItself, KeepsForm
  <1>2. ActivateChild(t, f, c) = IF u.ffocused[f] THEN GiveClientFocus(u, c) ELSE u
    BY DEF ActivateChild
  <1>3. Moved(t, w, TreeOf(t)) /\ TreeOf(w) = TreeOf(t)
    BY <1>1, KeptIsMoved DEF Moved
  <1> HIDE DEF w
  <1>4. Moved(w, u, GP!PutInFront(TreeOf(t), f, c))
    BY <1>1, <1>3, PutInFrontMoves
  <1>5. Formed(u)
    BY <1>1 DEF Formed, Fields, PutInFront
  <1> HIDE DEF u
  <1>6. Moved(t, u, GP!PutInFront(TreeOf(t), f, c)) /\ TreeOf(u) = GP!PutInFront(TreeOf(t), f, c)
    BY <1>3, <1>4, MovedOn DEF Moved
  <1>7. Moved(u, GiveClientFocus(u, c), TreeOf(u))
    BY <1>5, GiveClientFocusKeeps, KeptIsMoved
  <1>8. Moved(t, GiveClientFocus(u, c), GP!PutInFront(TreeOf(t), f, c))
    BY <1>6, <1>7, MovedOn
  <1> QED BY <1>2, <1>6, <1>8


----------------------------------------------------------------------------
(* The lists of frames.                                                    *)
LiveIn(t) == {f \in Frames : Exists(t, f)}
Lists(q, L) == q \in Seq(Frames) /\ IsInjective(q) /\ ToSet(q) = L
Listed(t) == Lists(t.wolist, LiveIn(t)) /\ Lists(t.mru, LiveIn(t))

LEMMA ListWithout ==
    ASSUME NEW L, NEW q, Lists(q, L), NEW f
    PROVE  Lists(Sieve(q, Frames \ {f}), L \ {f})
  <1>1. q \in Seq(Frames) /\ L \subseteq Frames
    BY ToSetOfSeq DEF Lists
  <1>2. /\ Sieve(q, Frames \ {f}) \in Seq(Frames) /\ IsInjective(Sieve(q, Frames \ {f}))
        /\ ToSet(Sieve(q, Frames \ {f})) = L \cap (Frames \ {f})
    BY <1>1, SieveElements DEF Lists
  <1> QED BY <1>1, <1>2 DEF Lists

LEMMA ListAppended ==
    ASSUME NEW L, NEW q, Lists(q, L), NEW f \in Frames \ L
    PROVE  Lists(Append(q, f), L \cup {f})
  BY AppendOne DEF Lists

LEMMA ListPrefixed ==
    ASSUME NEW L, NEW q, Lists(q, L), NEW f \in Frames \ L
    PROVE  Lists(<<f>> \o q, L \cup {f})
  <1> DEFINE p == <<f>>
  <1>1. p \in Seq(Frames) /\ ToSet(p) = {f} /\ IsInjective(p)
    <2>1. p \in Seq(Frames) /\ DOMAIN p = {1}
      OBVIOUS
    <2>2. ToSet(p) = {f}
      BY <2>1, ToSetOfSeq
    <2>3. IsInjective(p)
      BY <2>1 DEF IsInjective
    <2> QED BY <2>1, <2>2, <2>3
  <1>2. q \in Seq(Frames) /\ IsInjective(q) /\ ToSet(q) = L /\ ToSet(p) \cap ToSet(q) = {}
    BY <1>1 DEF Lists
  <1> HIDE DEF p
  <1>3. p \o q \in Seq(Frames) /\ IsInjective(p \o q) /\ ToSet(p \o q) = ToSet(p) \cup ToSet(q)
    BY <1>1, <1>2, ConcatApart
  <1> QED BY <1>1, <1>2, <1>3 DEF Lists, p

LEMMA KeepsListed ==
    ASSUME NEW t, NEW u, Listed(t), SameLists(t, u), LiveIn(u) = LiveIn(t)
    PROVE  Listed(u)
  BY DEF Listed, SameLists

LEMMA SameLive ==
    ASSUME NEW t, NEW u, u.kids = t.kids
    PROVE  LiveIn(u) = LiveIn(t)
  BY DEF LiveIn, Exists

(* Frame::~Frame: the frame, whose last client is gone, leaves the lists.  *)
LEMMA DeleteFrameMoves ==
    ASSUME NEW t, Formed(t), NEW f \in Frames
    PROVE  LET u == DeleteFrame(t, f)
           IN  /\ Stays(t, u) /\ TreeOf(u) = GP!PutInFront(TreeOf(t), f, None)
               /\ u.wolist = Sieve(t.wolist, Frames \ {f}) /\ u.mru = Sieve(t.mru, Frames \ {f})
  <1> DEFINE v == IF t.fmapped[f] THEN Post(t, Unmapped(None)) ELSE t
             others(q) == Sieve(q, Frames \ {f})
             w == [v EXCEPT !.wolist = others(@), !.mru = others(@), !.child[f] = None]
             no == FALSE
             zero == 0
             u == [w EXCEPT !.fws[f] = zero, !.fmapped[f] = no, !.ficon[f] = no,
                            !.fsticky[f] = no, !.ffocused[f] = no]
  <1>1. DeleteFrame(t, f) = u
    BY DEF DeleteFrame
  <1>2. Keeps(t, v) /\ Formed(v)
    BY PostKeeps, EventTypes, KeepsItself, KeepsForm
  <1> HIDE DEF v
  <1>3. /\ DOMAIN w = Fields /\ Stays(v, w) /\ w.kids = v.kids /\ w.parent = v.parent
        /\ w.child = [v.child EXCEPT ![f] = None]
        /\ w.wolist = others(v.wolist) /\ w.mru = others(v.mru)
    <2> HIDE DEF others
    <2> QED BY <1>2 DEF Formed, Fields, Stays
  <1>4. w.queue \in Seq(Events)
    BY <1>3 DEF Stays
  <1> HIDE DEF w, no, zero
  <1>5. Keeps(w, u)
    BY <1>3, <1>4 DEF Fields, Keeps, Stays, SameTree, SameLists
  <1> HIDE DEF u
  <1>6. /\ Stays(t, u) /\ u.wolist = others(t.wolist) /\ u.mru = others(t.mru)
        /\ u.kids = t.kids /\ u.parent = t.parent /\ u.child = [t.child EXCEPT ![f] = None]
    BY <1>2, <1>3, <1>5 DEF Keeps, Stays, SameTree, SameLists
  <1>7. TreeOf(u) = GP!PutInFront(TreeOf(t), f, None)
    BY <1>6 DEF TreeOf, GP!PutInFront
  <1> QED BY <1>1, <1>6, <1>7

(* PDecor::removeChild: what a client that leaves its frame leaves behind. *)
LEMMA RemoveFromFrameMoves ==
    ASSUME NEW t, Formed(t), GP!Good(TreeOf(t)), Listed(t), NEW c \in Clients, IsManaged(t, c)
    PROVE  LET u == RemoveFromFrame(t, c)
           IN  /\ Stays(t, u) /\ TreeOf(u) = GP!RemoveChild(TreeOf(t), c)
               /\ Listed(u) /\ Formed(u)
  <1> DEFINE f == t.parent[c]
             q == t.kids[f]
             r == Reparent(t, c)
             d == DropChild(r, c)
             n == Neighbour(q, Position(q, c))
             x == GP!DropChild(TreeOf(t), c)
             u == RemoveFromFrame(t, c)
  <1>1. /\ f \in Frames /\ t.kids \in [Frames -> Seq(Clients)] /\ c \in ToSet(q)
        /\ GP!IsInjective(q) /\ q \in Seq(Clients)
    BY DEF GP!Good, GP!Sound, GP!IsTabs, GP!ParentHasChild, GP!NoTabTwice, IsManaged, TreeOf,
           GP!ToSet, ToSet
  <1>2. Moved(t, r, TreeOf(t)) /\ Formed(r) /\ TreeOf(r) = TreeOf(t)
    <2>1. Keeps(t, r)
      BY ReparentKeeps
    <2> QED BY <2>1, KeptIsMoved, KeepsForm DEF Moved
  <1> HIDE DEF r
  <1>3. Moved(t, d, x)
    <2>1. Moved(r, d, x)
      BY <1>2, DropChildMoves
    <2> QED BY <1>2, <2>1, MovedOn
  <1>4. GP!Dropped(TreeOf(t), x, f, c)
    <2> DEFINE r0 == TreeOf(t)
    <2>1. GP!Sound(r0) /\ r0.parent[c] = f
      BY DEF GP!Good, TreeOf
    <2> HIDE DEF r0
    <2>2. GP!Dropped(r0, GP!DropChild(r0, c), f, c)
      BY <1>1, <2>1, TabsAssumption, GP!DropSound
    <2> QED BY <2>2 DEF r0
  <1>5. Formed(d) /\ TreeOf(d) = x
    BY <1>3, <1>4, MovedForm DEF Moved, GP!Dropped
  <1>6. u = IF Len(q) = 1 THEN DeleteFrame(d, f)
            ELSE IF t.child[f] = c THEN ActivateChild(d, f, n) ELSE d
    BY DEF RemoveFromFrame, r
  <1>7. GP!RemoveChild(TreeOf(t), c) =
          IF Len(q) = 1 THEN GP!PutInFront(x, f, None)
          ELSE IF t.child[f] = c THEN GP!PutInFront(x, f, n) ELSE x
    BY DEF GP!RemoveChild, TreeOf, GP!Neighbour, Neighbour, GP!Position, Position
  <1>8. /\ \A g \in Frames \ {f} : d.kids[g] = t.kids[g]
        /\ Len(d.kids[f]) = Len(q) - 1
    BY <1>4, <1>5 DEF GP!Dropped, TreeOf
  <1>9. d.wolist = t.wolist /\ d.mru = t.mru
    BY <1>3 DEF Moved, SameLists
  <1>10. Len(q) # 1 => n \in Clients
    <2>1. Position(q, c) \in 1..Len(q)
      <3>1. \E i \in 1..Len(q) : q[i] = c
        BY <1>1, LenProperties DEF ToSet
      <3> QED BY <3>1 DEF Position
    <2> DEFINE i == Position(q, c)
    <2>2. i \in 1..Len(q) /\ \A j \in 1..Len(q) : q[j] \in Clients
      BY <1>1, <2>1
    <2>3. Neighbour(q, i) = IF i < Len(q) THEN q[i + 1] ELSE q[i - 1]
      BY DEF Neighbour
    <2>4. Len(q) \in Nat
      BY <1>1
    <2> HIDE DEF q, i
    <2>5. /\ i < Len(q) => i + 1 \in 1..Len(q)
          /\ Len(q) # 1 /\ ~ (i < Len(q)) => i - 1 \in 1..Len(q)
      <3> DEFINE m == Len(q)
      <3>1. m \in Nat /\ i \in 1..m
        BY <2>2, <2>4
      <3> HIDE DEF m
      <3>2. /\ i < m => i + 1 \in 1..m
            /\ m # 1 /\ ~ (i < m) => i - 1 \in 1..m
        BY <3>1
      <3> QED BY <3>2 DEF m
    <2> QED BY <2>2, <2>3, <2>5 DEF i
  <1> HIDE DEF d, x, u, n
  <1>11. d.kids \in [Frames -> Seq(Clients)]
    BY <1>5 DEF Formed
  <1>12. CASE Len(q) = 1
    <2>1. /\ Stays(d, u) /\ TreeOf(u) = GP!PutInFront(x, f, None)
          /\ u.wolist = Sieve(d.wolist, Frames \ {f}) /\ u.mru = Sieve(d.mru, Frames \ {f})
      BY <1>1, <1>5, <1>6, <1>12, DeleteFrameMoves
    <2>2. Stays(t, u)
      BY <1>3, <2>1 DEF Moved, Stays
    <2>3. u.kids = d.kids
      <3>1. TreeOf(u).kids = TreeOf(d).kids
        BY <1>5, <2>1 DEF TreeOf, GP!PutInFront
      <3> QED BY <3>1, TreeFields
    <2>4. d.kids[f] = <<>>
      BY <1>1, <1>8, <1>11, <1>12, EmptySeq
    <2>5. LiveIn(u) = LiveIn(t) \ {f}
      BY <1>8, <2>3, <2>4 DEF LiveIn, Exists
    <2>6. Listed(u)
      <3>1. Lists(t.wolist, LiveIn(t)) /\ Lists(t.mru, LiveIn(t))
        BY DEF Listed
      <3>2. /\ Lists(Sieve(t.wolist, Frames \ {f}), LiveIn(t) \ {f})
            /\ Lists(Sieve(t.mru, Frames \ {f}), LiveIn(t) \ {f})
        BY <3>1, ListWithout
      <3> QED BY <1>9, <2>1, <2>5, <3>2 DEF Listed
    <2>7. Formed(u)
      BY <1>5, <2>1, <2>3 DEF Formed, Stays
    <2> QED BY <1>7, <1>12, <2>1, <2>2, <2>6, <2>7 DEF u
  <1>13. CASE Len(q) # 1
    <2>1. Moved(d, u, IF t.child[f] = c THEN GP!PutInFront(x, f, n) ELSE x)
      <3>1. Moved(d, ActivateChild(d, f, n), GP!PutInFront(x, f, n))
        BY <1>1, <1>5, <1>10, <1>13, ActivateChildMoves
      <3>2. Moved(d, d, x)
        BY <1>5, KeepsItself, KeptIsMoved
      <3> QED BY <1>6, <1>13, <3>1, <3>2
    <2>2. Moved(t, u, GP!RemoveChild(TreeOf(t), c))
      BY <1>3, <1>7, <1>13, <2>1, MovedOn
    <2>3. u.kids = d.kids
      <3>1. TreeOf(u).kids = TreeOf(d).kids
        BY <1>5, <2>1 DEF Moved, TreeOf, GP!PutInFront
      <3> QED BY <3>1, TreeFields
    <2>4. d.kids[f] # <<>> /\ q # <<>>
      <3> DEFINE k == d.kids[f]
      <3>1. q \in Seq(Clients) /\ q # <<>> /\ k \in Seq(Clients) /\ Len(k) = Len(q) - 1
        BY <1>1, <1>8, <1>11, ToSetOfSeq
      <3> HIDE DEF k, q
      <3>2. Len(q) \in Nat \ {0} /\ Len(k) # 0
        BY <1>13, <3>1, EmptySeq, LenProperties
      <3>3. k # <<>>
        BY <3>2
      <3> QED BY <3>1, <3>3 DEF k
    <2>5. LiveIn(u) = LiveIn(t)
      BY <1>8, <2>3, <2>4 DEF LiveIn, Exists
    <2>6. Listed(u)
      BY <2>2, <2>5, KeepsListed DEF Moved
    <2>7. Formed(u)
      BY <1>5, <2>1, <2>3 DEF Formed, Moved, Stays
    <2>8. Stays(t, u) /\ TreeOf(u) = GP!RemoveChild(TreeOf(t), c)
      BY <2>2 DEF Moved
    <2> QED BY <2>6, <2>7, <2>8 DEF u
  <1> QED BY <1>12, <1>13


----------------------------------------------------------------------------
(* A state in which the grouping and the lists are right, and how it may   *)
(* go on to another one: with the tree r.                                  *)
Right(t) == Formed(t) /\ GP!Good(TreeOf(t)) /\ Listed(t)
Becomes(t, u, r) == Right(u) /\ Stays(t, u) /\ TreeOf(u) = r

LEMMA RightIs ==
    ASSUME NEW t, Right(t)
    PROVE  /\ Formed(t) /\ Fronted(t) /\ t.mru \in Seq(Frames) /\ t.wolist \in Seq(Frames)
           /\ t.parent \in [Clients -> Frames \cup {None}]
           /\ \A c \in Clients : IsManaged(t, c) => t.parent[c] \in LiveIn(t)
           /\ \A f \in LiveIn(t) : t.child[f] \in Clients
  <1>1. /\ t.kids \in [Frames -> Seq(Clients)] /\ t.parent \in [Clients -> Frames \cup {None}]
        /\ t.child \in [Frames -> Clients \cup {None}]
    BY DEF Right, GP!Good, GP!Sound, GP!IsTabs, TreeOf
  <1>2. \A f \in LiveIn(t) : t.child[f] \in Clients
    <2>1. \A f \in LiveIn(t) : t.child[f] \in GP!ToSet(t.kids[f])
      BY DEF Right, GP!Good, GP!FrontIsATab, GP!Exists, Exists, LiveIn, TreeOf
    <2> QED BY <1>1, <2>1 DEF GP!ToSet, LiveIn
  <1>3. \A c \in Clients : IsManaged(t, c) => t.parent[c] \in LiveIn(t)
    <2>1. SUFFICES ASSUME NEW c \in Clients, IsManaged(t, c) PROVE t.parent[c] \in LiveIn(t)
      OBVIOUS
    <2>2. t.parent[c] \in Frames /\ c \in GP!ToSet(t.kids[t.parent[c]])
      BY <1>1, <2>1 DEF Right, GP!Good, GP!Sound, GP!ParentHasChild, TreeOf, IsManaged
    <2>3. t.kids[t.parent[c]] # <<>>
      BY <2>2 DEF GP!ToSet
    <2> QED BY <2>2, <2>3 DEF LiveIn, Exists
  <1> QED BY <1>1, <1>2, <1>3 DEF Right, Fronted, Listed, Lists, LiveIn

LEMMA RightOn ==
    ASSUME NEW t, Right(t), NEW u, Keeps(t, u)
    PROVE  Becomes(t, u, TreeOf(t))
  <1>1. Formed(u) /\ TreeOf(u) = TreeOf(t)
    BY KeepsForm DEF Right, TreeOf
  <1>2. Listed(u)
    BY KeepsListed, SameLive DEF Right, Keeps, SameTree
  <1> QED BY <1>1, <1>2 DEF Right, Becomes, Keeps

LEMMA BecomesOn ==
    ASSUME NEW t, NEW u, NEW v, NEW q, NEW r, Becomes(t, u, q), Becomes(u, v, r)
    PROVE  Becomes(t, v, r)
  BY DEF Becomes, Stays

LEMMA BecomesKept ==
    ASSUME NEW t, NEW u, NEW v, NEW r, Becomes(t, u, r), Keeps(u, v)
    PROVE  Becomes(t, v, r)
  <1>1. Becomes(u, v, r)
    BY RightOn DEF Becomes
  <1> QED BY <1>1, BecomesOn

LEMMA RemoveFromFrameBecomes ==
    ASSUME NEW t, Right(t), NEW c \in Clients, IsManaged(t, c)
    PROVE  Becomes(t, RemoveFromFrame(t, c), GP!RemoveChild(TreeOf(t), c))
  <1> DEFINE u == RemoveFromFrame(t, c)
             r == TreeOf(t)
             f == t.parent[c]
  <1>1. /\ Stays(t, u) /\ TreeOf(u) = GP!RemoveChild(r, c)
        /\ Listed(u) /\ Formed(u)
    BY RemoveFromFrameMoves DEF Right
  <1>2. GP!Good(r) /\ f \in Frames /\ r.parent[c] = f
    BY RightIs DEF Right, TreeOf, LiveIn
  <1> HIDE DEF u, r, f
  <1>3. GP!Removed(r, GP!RemoveChild(r, c), f, c)
    BY <1>2, TabsAssumption, GP!RemoveGood
  <1> QED BY <1>1, <1>3 DEF Right, Becomes, GP!Removed, u, r

LEMMA ActivateChildBecomes ==
    ASSUME NEW t, Right(t), NEW c \in Clients, IsManaged(t, c)
    PROVE  Becomes(t, ActivateChild(t, t.parent[c], c), GP!PutInFront(TreeOf(t), t.parent[c], c))
  <1> DEFINE f == t.parent[c]
             u == ActivateChild(t, f, c)
             r == TreeOf(t)
  <1>1. GP!Good(r) /\ f \in Frames /\ r.parent[c] = f /\ Formed(t) /\ Listed(t)
    BY RightIs DEF Right, TreeOf, LiveIn
  <1>2. Moved(t, u, GP!PutInFront(r, f, c))
    BY <1>1, ActivateChildMoves
  <1>3. TreeOf(u).kids = r.kids
    BY <1>2 DEF Moved, GP!PutInFront, TreeOf
  <1>4. u.kids = t.kids
    BY <1>3, TreeFields
  <1> HIDE DEF u, r, f
  <1>5. GP!Good(GP!PutInFront(r, f, c))
    BY <1>1, TabsAssumption, GP!ActivateGood
  <1>6. Listed(u)
    BY <1>1, <1>2, <1>4, KeepsListed, SameLive DEF Moved
  <1>7. Formed(u)
    BY <1>1, <1>2, <1>5, MovedForm DEF Moved, GP!Good
  <1> QED BY <1>2, <1>5, <1>6, <1>7 DEF Right, Becomes, Moved, u, r, f

(* Client joins a frame there is. *)
LEMMA AddToFrameBecomes ==
    ASSUME NEW t, Right(t), NEW c \in Clients, ~ IsManaged(t, c), NEW f \in LiveIn(t)
    PROVE  /\ Becomes(t, AddToFrame(t, f, c), GP!AddChild(TreeOf(t), f, c))
           /\ AddToFrame(t, f, c).parent[c] = f
  <1> DEFINE u == AddToFrame(t, f, c)
             r == TreeOf(t)
             x == GP!AddChild(r, f, c)
  <1>1. /\ GP!Good(r) /\ f \in Frames /\ r.parent[c] = None /\ GP!Exists(r, f)
        /\ Formed(t) /\ Listed(t)
    BY DEF Right, TreeOf, LiveIn, IsManaged, GP!Exists, Exists
  <1>2. Moved(t, u, x)
    BY <1>1, AddToFrameMoves
  <1> HIDE DEF u, r, x
  <1>3. GP!Good(x)
    BY <1>1, TabsAssumption, GP!JoinGood DEF x
  <1>4. GP!Added(r, x, f, c)
    BY <1>1, TabsAssumption, GP!AddSound DEF x, GP!Good
  <1>5. TreeOf(u) = x
    BY <1>2 DEF Moved
  <1>6. /\ u.kids[f] # <<>> /\ u.parent = [t.parent EXCEPT ![c] = f]
        /\ \A g \in Frames \ {f} : u.kids[g] = t.kids[g]
    BY <1>4, <1>5, TreeFields DEF GP!Added, r
  <1>7. LiveIn(u) = LiveIn(t)
    BY <1>6 DEF LiveIn, Exists
  <1>8. Listed(u)
    BY <1>1, <1>2, <1>7, KeepsListed DEF Moved
  <1>9. Formed(u)
    BY <1>1, <1>2, <1>3, <1>5, MovedForm DEF Moved, GP!Good
  <1>10. u.parent[c] = f
    BY <1>6, RightIs
  <1> QED BY <1>2, <1>3, <1>5, <1>8, <1>9, <1>10 DEF Right, Becomes, Moved, u, r, x

LEMMA GetStateKeeps ==
    ASSUME NEW t, Formed(t), NEW f \in Frames, NEW c \in Clients
    PROVE  Keeps(t, GetState(t, f, c))
  <1> DEFINE icon == t.cicon[c]
             b == t.csticky[c]
             u == [t EXCEPT !.fsticky[f] = b]
             v == IF u.fws[f] # u.cws[c] THEN SetFrameWorkspace(u, f, u.cws[c]) ELSE u
  <1>1. GetState(t, f, c) = IF icon THEN IconifyFrame(v, f) ELSE v
    BY DEF GetState
  <1> HIDE DEF icon, b
  <1>2. Keeps(t, u) /\ Formed(u)
    BY DEF Formed, Fields, Keeps, Stays, SameTree, SameLists
  <1> HIDE DEF u
  <1>3. Keeps(t, v) /\ Formed(v)
    BY <1>2, SetFrameWorkspaceKeeps, KeepsOn, KeepsForm
  <1> HIDE DEF v
  <1>4. Keeps(t, IconifyFrame(v, f))
    BY <1>3, IconifyFrameKeeps, KeepsOn
  <1> QED BY <1>1, <1>3, <1>4

(* Frame::Frame *)
LEMMA OpenFrameBecomes ==
    ASSUME NEW t, Right(t), NEW c \in Clients, ~ IsManaged(t, c), NEW f \in Frames \ LiveIn(t)
    PROVE  Becomes(t, OpenFrame(t, f, c), GP!NewFrame(TreeOf(t), f, c))
  <1> DEFINE a == AddToFrame(t, f, c)
             u == PutInFront(a, f, c)
             v == [u EXCEPT !.mru = <<f>> \o @, !.wolist = Append(@, f)]
             w == GetState(v, f, c)
             r == TreeOf(t)
             x == GP!AddChild(r, f, c)
             y == GP!NewFrame(r, f, c)
  <1>1. OpenFrame(t, f, c) = SetFrameWorkspace(w, f, w.cws[c])
    BY DEF OpenFrame
  <1>2. /\ GP!Good(r) /\ r.parent[c] = None /\ ~ GP!Exists(r, f)
        /\ Formed(t) /\ Listed(t)
    BY DEF Right, TreeOf, LiveIn, IsManaged, GP!Exists, Exists
  <1>3. Moved(t, a, x)
    BY <1>2, AddToFrameMoves
  <1> HIDE DEF w
  <1> HIDE DEF a, r
  <1>4. GP!Good(y)
    BY <1>2, TabsAssumption, GP!NewFrameGood
  <1>5. GP!Added(r, x, f, c)
    BY <1>2, TabsAssumption, GP!AddSound DEF GP!Good
  <1>6. TreeOf(a) = x /\ Formed(a)
    BY <1>2, <1>3, <1>5, MovedForm DEF Moved, GP!Added
  <1>7. Moved(t, u, y)
    <2>1. Moved(a, u, GP!PutInFront(x, f, c))
      BY <1>6, PutInFrontMoves
    <2>2. y = GP!PutInFront(x, f, c)
      BY DEF GP!NewFrame
    <2> QED BY <1>3, <2>1, <2>2, MovedOn
  <1>8. u.kids = a.kids /\ Formed(u)
    BY <1>6 DEF Formed, Fields, PutInFront
  <1> HIDE DEF u, x, y
  <1>9. LiveIn(u) = LiveIn(t) \cup {f}
    <2>1. x.kids[f] # <<>> /\ \A g \in Frames \ {f} : x.kids[g] = r.kids[g]
      BY <1>5 DEF GP!Added
    <2>2. u.kids[f] # <<>> /\ \A g \in Frames \ {f} : u.kids[g] = t.kids[g]
      BY <1>6, <1>8, <2>1, TreeFields DEF r
    <2> QED BY <2>2 DEF LiveIn, Exists
  <1>10. /\ Stays(u, v) /\ SameTree(u, v) /\ v.mru = <<f>> \o u.mru
         /\ v.wolist = Append(u.wolist, f) /\ Formed(v)
    BY <1>8 DEF Formed, Fields, Stays, SameTree
  <1> HIDE DEF v
  <1>11. LiveIn(v) = LiveIn(t) \cup {f} /\ TreeOf(v) = y
    BY <1>7, <1>9, <1>10 DEF LiveIn, Exists, SameTree, Moved, TreeOf
  <1>12. Listed(v)
    <2>1. Lists(t.wolist, LiveIn(t)) /\ Lists(t.mru, LiveIn(t))
      BY DEF Right, Listed
    <2>2. Lists(Append(t.wolist, f), LiveIn(t) \cup {f}) /\ Lists(<<f>> \o t.mru, LiveIn(t) \cup {f})
      BY <2>1, ListAppended, ListPrefixed
    <2>3. u.wolist = t.wolist /\ u.mru = t.mru
      BY <1>7 DEF Moved, SameLists
    <2> QED BY <1>10, <1>11, <2>2, <2>3 DEF Listed
  <1>13. Becomes(t, v, y)
    BY <1>4, <1>7, <1>10, <1>11, <1>12 DEF Becomes, Right, Moved, Stays
  <1>14. Keeps(v, w) /\ Formed(w)
    BY <1>10, GetStateKeeps, KeepsForm DEF w
  <1>15. Keeps(v, SetFrameWorkspace(w, f, w.cws[c]))
    BY <1>14, SetFrameWorkspaceKeeps, KeepsOn
  <1>16. Becomes(t, SetFrameWorkspace(w, f, w.cws[c]), y)
    BY <1>13, <1>15, BecomesKept
  <1> QED BY <1>1, <1>16 DEF y, r



(* Frame::raise: the frame and its dialogs come last in _wo_list.          *)
LEMMA ListRaised ==
    ASSUME NEW L, NEW q, Lists(q, L), NEW f \in L, NEW T, T \subseteq L \ {f}, IsFiniteSet(T)
    PROVE  Lists(Sieve(q, Frames \ (T \cup {f})) \o <<f>> \o SetToSeq(T), L)
  <1> DEFINE a == Sieve(q, Frames \ (T \cup {f}))
             b == Append(a, f)
             z == SetToSeq(T)
  <1>1. q \in Seq(Frames) /\ IsInjective(q) /\ ToSet(q) = L /\ L \subseteq Frames
    BY ToSetOfSeq DEF Lists
  <1>2. /\ a \in Seq(Frames) /\ IsInjective(a)
        /\ ToSet(a) = L \cap (Frames \ (T \cup {f}))
    BY <1>1, SieveElements
  <1>3. z \in Seq(T) /\ IsInjective(z) /\ ToSet(z) = T
    BY SetInOrder
  <1> HIDE DEF a, z
  <1>4. z \in Seq(Frames) /\ f \in Frames /\ f \notin ToSet(a)
    BY <1>1, <1>2, <1>3
  <1>5. b \in Seq(Frames) /\ IsInjective(b) /\ ToSet(b) = ToSet(a) \cup {f}
    BY <1>2, <1>4, AppendOne
  <1>6. a \o <<f>> = b
    BY <1>2, <1>4
  <1> HIDE DEF b
  <1>7. ToSet(b) \cap ToSet(z) = {}
    BY <1>2, <1>3, <1>5
  <1>8. b \o z \in Seq(Frames) /\ IsInjective(b \o z) /\ ToSet(b \o z) = ToSet(b) \cup ToSet(z)
    BY <1>3, <1>4, <1>5, <1>7, ConcatApart
  <1>9. ToSet(b \o z) = L
    BY <1>1, <1>2, <1>3, <1>5, <1>8
  <1> QED BY <1>6, <1>8, <1>9 DEF Lists, a, z

LEMMA RaiseBecomes ==
    ASSUME NEW t, Right(t), NEW f \in LiveIn(t)
    PROVE  Becomes(t, Raise(t, f), TreeOf(t))
  <1> DEFINE over == {g \in Frames \ {f} : \E d \in Clients :
                        InFront(t, g, d) /\ t.transient[d] = t.child[f]}
             q == Sieve(t.wolist, Frames \ (over \cup {f})) \o <<f>> \o SetToSeq(over)
             u == [t EXCEPT !.wolist = q]
  <1>1. Raise(t, f) = u
    BY DEF Raise
  <1>2. over \subseteq LiveIn(t) \ {f}
    <2>1. SUFFICES ASSUME NEW g \in over PROVE g \in LiveIn(t)
      OBVIOUS
    <2>2. PICK d \in Clients : InFront(t, g, d)
      BY <2>1
    <2>3. t.parent[d] = g /\ g \in Frames
      BY <2>1, <2>2 DEF InFront
    <2>4. IsManaged(t, d)
      BY <2>3, TabsAssumption DEF IsManaged
    <2> QED BY <2>3, <2>4, RightIs
  <1>3. IsFiniteSet(over)
    BY FS_Subset, WmAssumption
  <1> HIDE DEF over
  <1>4. Lists(t.wolist, LiveIn(t)) /\ Formed(t) /\ Lists(t.mru, LiveIn(t))
    BY DEF Right, Listed
  <1>5. Lists(q, LiveIn(t))
    BY <1>2, <1>3, <1>4, ListRaised
  <1> HIDE DEF q
  <1>6. Stays(t, u) /\ SameTree(t, u) /\ u.mru = t.mru /\ u.wolist = q /\ Formed(u)
    BY <1>4 DEF Formed, Fields, Stays, SameTree
  <1> HIDE DEF u
  <1>7. TreeOf(u) = TreeOf(t) /\ LiveIn(u) = LiveIn(t)
    BY <1>6, SameLive DEF SameTree, TreeOf
  <1> QED BY <1>1, <1>4, <1>5, <1>6, <1>7 DEF Right, Listed, Becomes

(* Handlers that only map, move and focus windows.                         *)
LEMMA Refocused ==
    ASSUME NEW t, Right(t)
    PROVE  /\ \A f : Becomes(t, FindWOAndFocus(t, f), TreeOf(t))
           /\ \A f \in LiveIn(t) : Becomes(t, GiveFrameFocus(t, f), TreeOf(t))
           /\ \A n, b : Becomes(t, SetWorkspace(t, n, b), TreeOf(t))
           /\ Becomes(t, t, TreeOf(t))
  <1>1. \A f : Becomes(t, FindWOAndFocus(t, f), TreeOf(t))
    BY RightIs, FindWOAndFocusKeeps, RightOn
  <1>2. \A f \in LiveIn(t) : Becomes(t, GiveFrameFocus(t, f), TreeOf(t))
    BY RightIs, GiveFrameFocusKeeps, RightOn
  <1>3. \A n, b : Becomes(t, SetWorkspace(t, n, b), TreeOf(t))
    BY RightIs, SetWorkspaceKeeps, RightOn
  <1>4. Becomes(t, t, TreeOf(t))
    BY RightIs, KeepsItself, RightOn
  <1> QED BY <1>1, <1>2, <1>3, <1>4


----------------------------------------------------------------------------
(* Events.                                                                 *)
LEMMA FocusInBecomes ==
    ASSUME NEW t, Right(t), NEW w \in Clients \cup {Root}
    PROVE  Becomes(t, HandleFocusIn(t, w), TreeOf(t))
  <1> DEFINE x == SetFocused(t, t.focused, FALSE)
             l == IF t.focused = None THEN x.last[t.active] ELSE t.focused
             u == [x EXCEPT !.last[t.active] = l, !.focused = w]
             f == t.parent[w]
             y == SetFocused(u, w, TRUE)
             v == [y EXCEPT !.mru = Append(Sieve(@, Frames \ {f}), f)]
  <1>1. HandleFocusIn(t, w) =
          IF w = Root THEN IF t.focused = Root THEN t ELSE u
          ELSE IF ~ IsManaged(t, w) THEN t
          ELSE IF ~ t.cmapped[w] THEN FindWOAndFocus(t, None)
          ELSE IF w = t.focused THEN t
          ELSE v
    BY DEF HandleFocusIn
  <1>2. Becomes(t, t, TreeOf(t)) /\ Becomes(t, FindWOAndFocus(t, None), TreeOf(t))
    BY Refocused
  <1>3. Keeps(t, x) /\ Formed(x)
    BY RightIs, SetFocusedKeeps, KeepsForm
  <1> HIDE DEF x, l
  <1>4. Keeps(t, u)
    <2>1. Keeps(x, u)
      BY <1>3 DEF Formed, Fields, Keeps, Stays, SameTree, SameLists
    <2> QED BY <1>3, <2>1, KeepsOn
  <1> HIDE DEF u
  <1>5. Becomes(t, u, TreeOf(t))
    BY <1>4, RightOn
  <1>6. ASSUME w # Root, IsManaged(t, w)
        PROVE  Becomes(t, v, TreeOf(t))
    <2>1. f \in LiveIn(t) /\ w \in Clients
      BY <1>6, RightIs
    <2>2. Keeps(t, y) /\ Formed(y)
      <3>1. Formed(u)
        BY <1>4, RightIs, KeepsForm
      <3> QED BY <1>4, <3>1, SetFocusedKeeps, KeepsOn, KeepsForm
    <2>3. Becomes(t, y, TreeOf(t)) /\ LiveIn(y) = LiveIn(t)
      <3>1. y.kids = t.kids
        BY <2>2 DEF Keeps, SameTree
      <3> QED BY <2>2, <3>1, RightOn, SameLive
    <2> HIDE DEF y, f
    <2>4. Stays(y, v) /\ SameTree(y, v) /\ v.wolist = y.wolist
          /\ v.mru = Append(Sieve(y.mru, Frames \ {f}), f) /\ Formed(v)
      BY <2>2 DEF Formed, Fields, Stays, SameTree
    <2>5. Lists(y.wolist, LiveIn(t)) /\ Lists(y.mru, LiveIn(t))
      BY <2>3 DEF Becomes, Right, Listed
    <2>6. Lists(Sieve(y.mru, Frames \ {f}), LiveIn(t) \ {f}) /\ f \in Frames \ (LiveIn(t) \ {f})
      BY <2>1, <2>5, ListWithout DEF LiveIn
    <2>7. Lists(v.mru, LiveIn(t))
      <3>1. Lists(v.mru, (LiveIn(t) \ {f}) \cup {f})
        BY <2>4, <2>6, ListAppended
      <3>2. (LiveIn(t) \ {f}) \cup {f} = LiveIn(t)
        BY <2>1
      <3> QED BY <3>1, <3>2
    <2> HIDE DEF v
    <2>8. LiveIn(v) = LiveIn(t) /\ TreeOf(v) = TreeOf(y)
      BY <2>3, <2>4, SameLive DEF SameTree, TreeOf
    <2>9. Becomes(y, v, TreeOf(t))
      BY <2>3, <2>4, <2>5, <2>7, <2>8 DEF Becomes, Right, Listed
    <2> QED BY <2>3, <2>9, BecomesOn
  <1> HIDE DEF v, f
  <1> QED BY <1>1, <1>2, <1>5, <1>6

LEMMA UnmappedBecomes ==
    ASSUME NEW t, Right(t), NEW w
    PROVE  Becomes(t, HandleUnmapped(t, w), TreeOf(t))
  <1> DEFINE client == w \in Clients /\ IsManaged(t, w)
             v == [t EXCEPT !.focused = None]
             u == IF client /\ w = t.focused THEN v ELSE t
             k == IF client THEN t.parent[w] ELSE None
  <1>1. HandleUnmapped(t, w) = IF u.focused # None THEN u ELSE FindWOAndFocus(u, k)
    BY DEF HandleUnmapped, FindIfNone
  <1> HIDE DEF client, k
  <1>2. Keeps(t, v)
    BY RightIs DEF Formed, Fields, Keeps, Stays, SameTree, SameLists
  <1> HIDE DEF v
  <1>3. Becomes(t, u, TreeOf(t))
    BY <1>2, RightOn, Refocused
  <1> HIDE DEF u
  <1>4. Becomes(u, FindWOAndFocus(u, k), TreeOf(t))
    BY <1>3, Refocused DEF Becomes
  <1>5. Becomes(t, FindWOAndFocus(u, k), TreeOf(t))
    BY <1>3, <1>4, BecomesOn
  <1> QED BY <1>1, <1>3, <1>5

(* Client::~Client *)
Deleted(t, u, c) ==
    /\ Right(u) /\ TreeOf(u) = GP!RemoveChild(TreeOf(t), c)
    /\ u.gone = t.gone \ {c} /\ u.transient \in [Clients -> Clients \cup {None}]
    /\ \A d \in Clients : Count(u.queue, Withdrawn(d)) = Count(t.queue, Withdrawn(d))

LEMMA DeleteClientDone ==
    ASSUME NEW t, Right(t), t.transient \in [Clients -> Clients \cup {None}],
           NEW c \in Clients, IsManaged(t, c)
    PROVE  Deleted(t, DeleteClient(t, c), c)
  <1> DEFINE f == t.parent[c]
             owner == t.transient[c]
             u == RemoveFromFrame(t, c)
             g == u.parent[owner]
             b == t.ffocused[f] /\ owner # None /\ u.child[g] = owner
             v == IF b THEN GiveFrameFocus(u, g) ELSE u
             a == [d \in Clients |-> IF d = c \/ v.transient[d] = c THEN None ELSE v.transient[d]]
             n == IF v.focused = c THEN None ELSE v.focused
             zero == 0
             no == FALSE
             w == [v EXCEPT !.focused = n, !.transient = a, !.cws[c] = zero, !.cmapped[c] = no]
             x == [w EXCEPT !.cicon[c] = no, !.csticky[c] = no, !.gone = @ \ {c}]
             r == GP!RemoveChild(TreeOf(t), c)
  <1>1. Becomes(t, u, r)
    BY RemoveFromFrameBecomes
  <1>2. owner \in Clients \cup {None}
    OBVIOUS
  <1>4. DeleteClient(t, c) = x
    BY DEF DeleteClient
  <1> HIDE DEF u, owner, f, r
  <1>5. Becomes(t, v, r)
    <2>1. b => Keeps(u, GiveFrameFocus(u, g))
      BY <1>1, <1>2, GiveFrameFocusKeeps DEF Becomes, Right
    <2> HIDE DEF b, g
    <2> QED BY <1>1, <2>1, BecomesKept
  <1> HIDE DEF v
  <1>6. /\ Right(v) /\ v.transient = t.transient /\ v.gone = t.gone /\ TreeOf(v) = r
        /\ \A d \in Clients : Count(v.queue, Withdrawn(d)) = Count(t.queue, Withdrawn(d))
    BY <1>5 DEF Becomes, Stays
  <1>7. a \in [Clients -> Clients \cup {None}]
    BY <1>6
  <1> HIDE DEF a, n, zero, no
  <1>8. /\ Formed(w) /\ SameTree(v, w) /\ SameLists(v, w) /\ w.queue = v.queue
        /\ w.gone = v.gone /\ w.transient = a
    BY <1>6 DEF Right, Formed, Fields, SameTree, SameLists
  <1> HIDE DEF w
  <1>9. /\ Formed(x) /\ SameTree(w, x) /\ SameLists(w, x) /\ x.queue = w.queue
        /\ x.gone = w.gone \ {c} /\ x.transient = w.transient
    BY <1>8 DEF Formed, Fields, SameTree, SameLists
  <1> HIDE DEF x
  <1>10. SameTree(v, x) /\ SameLists(v, x)
    BY <1>8, <1>9 DEF SameTree, SameLists
  <1>11. Right(x) /\ TreeOf(x) = r
    <2>1. TreeOf(x) = TreeOf(v)
      BY <1>10 DEF SameTree, TreeOf
    <2>2. Listed(x)
      BY <1>6, <1>10, KeepsListed, SameLive DEF Right, SameTree
    <2> QED BY <1>6, <1>9, <2>1, <2>2 DEF Right
  <1> QED BY <1>4, <1>6, <1>7, <1>8, <1>9, <1>11 DEF Deleted, r

LEMMA WithdrawnDone ==
    ASSUME NEW t, Right(t), t.transient \in [Clients -> Clients \cup {None}],
           NEW c \in Clients, IsManaged(t, c)
    PROVE  Deleted(t, HandleWithdrawn(t, c), c)
  <1> DEFINE u == DeleteClient(t, c)
             k == t.parent[c]
  <1>1. Deleted(t, u, c)
    BY DeleteClientDone
  <1>2. HandleWithdrawn(t, c) = IF u.focused # None THEN u ELSE FindWOAndFocus(u, k)
    BY DEF HandleWithdrawn, FindIfNone
  <1> HIDE DEF u, k
  <1>3. Becomes(u, FindWOAndFocus(u, k), TreeOf(u))
    BY <1>1, Refocused DEF Deleted
  <1>4. Deleted(t, FindWOAndFocus(u, k), c)
    BY <1>1, <1>3 DEF Deleted, Becomes, Stays
  <1> QED BY <1>1, <1>2, <1>4


----------------------------------------------------------------------------
(* Client::Client                                                          *)
LEMMA ParentOfAdded ==
    ASSUME NEW t, Right(t), NEW c \in Clients, NEW f, NEW u,
           \/ TreeOf(u) = GP!AddChild(TreeOf(t), f, c)
           \/ TreeOf(u) = GP!NewFrame(TreeOf(t), f, c)
           \/ TreeOf(u) = GP!PutInFront(GP!AddChild(TreeOf(t), f, c), f, c)
    PROVE  u.parent[c] = f
  <1> DEFINE r == TreeOf(t)
             x == GP!AddChild(r, f, c)
             y == GP!PutInFront(x, f, c)
  <1>1. c \in DOMAIN r.parent
    BY RightIs, TreeFields
  <1>2. DOMAIN r = {"kids", "child", "parent"}
    BY DEF TreeOf
  <1> HIDE DEF r
  <1>3. x.parent[c] = f
    BY <1>1, <1>2 DEF GP!AddChild
  <1>4. DOMAIN x = {"kids", "child", "parent"}
    BY <1>2 DEF GP!AddChild
  <1>5. GP!NewFrame(r, f, c) = y
    BY DEF GP!NewFrame
  <1> HIDE DEF x
  <1>6. y.parent[c] = f
    BY <1>3, <1>4 DEF GP!PutInFront
  <1> HIDE DEF y
  <1>7. TreeOf(u).parent[c] = f
    BY <1>3, <1>5, <1>6 DEF r, x, y
  <1> QED BY <1>7, TreeFields

(* A place for a client: the one the code or the program chose.            *)
Placed(r, x, f, c, place) ==
    CASE place = "new" -> x = GP!NewFrame(r, f, c)
      [] place = "behind" -> x = GP!AddChild(r, f, c)
      [] place = "front" -> x = GP!PutInFront(GP!AddChild(r, f, c), f, c)

LEMMA FrameFound ==
    ASSUME NEW t, Right(t), NEW c \in Clients, ~ IsManaged(t, c), NEW f \in Frames,
           NEW place \in {"new", "front", "behind"}, place = "new" <=> f \notin LiveIn(t)
    PROVE  LET u == FindOrCreateFrame(t, c, f, place)
           IN  /\ Becomes(t, u, TreeOf(u)) /\ Placed(TreeOf(t), TreeOf(u), f, c, place)
               /\ u.parent[c] = f
  <1> DEFINE a == AddToFrame(t, f, c)
             b == ActivateChild(a, f, c)
             n == OpenFrame(t, f, c)
             r == TreeOf(t)
             u == FindOrCreateFrame(t, c, f, place)
  <1>1. CASE place = "new"
    <2>1. u = n
      BY <1>1 DEF FindOrCreateFrame
    <2>2. Becomes(t, n, GP!NewFrame(r, f, c))
      BY <1>1, OpenFrameBecomes
    <2> HIDE DEF n, r, u
    <2>3. TreeOf(u) = GP!NewFrame(r, f, c) /\ Becomes(t, u, TreeOf(u))
      BY <2>1, <2>2 DEF Becomes
    <2>4. u.parent[c] = f
      BY <2>3, ParentOfAdded DEF r
    <2> QED BY <1>1, <2>3, <2>4 DEF Placed, u, r
  <1>2. CASE place # "new"
    <2>1. Becomes(t, a, GP!AddChild(r, f, c)) /\ a.parent[c] = f
      BY <1>2, AddToFrameBecomes
    <2>2. u = IF place = "front" THEN b ELSE a
      BY <1>2 DEF FindOrCreateFrame
    <2>3. IsManaged(a, c)
      BY <2>1, TabsAssumption DEF IsManaged
    <2> HIDE DEF a, r, u
    <2>4. Becomes(a, b, GP!PutInFront(GP!AddChild(r, f, c), f, c))
      <3>1. Right(a) /\ TreeOf(a) = GP!AddChild(r, f, c)
        BY <2>1 DEF Becomes
      <3>2. Becomes(a, ActivateChild(a, a.parent[c], c), GP!PutInFront(TreeOf(a), a.parent[c], c))
        BY <2>3, <3>1, ActivateChildBecomes
      <3> QED BY <2>1, <3>1, <3>2
    <2> HIDE DEF b
    <2>5. Becomes(t, b, GP!PutInFront(GP!AddChild(r, f, c), f, c))
      BY <2>1, <2>4, BecomesOn
    <2>6. /\ TreeOf(a) = GP!AddChild(r, f, c) /\ Becomes(t, a, TreeOf(a))
          /\ TreeOf(b) = GP!PutInFront(GP!AddChild(r, f, c), f, c) /\ Becomes(t, b, TreeOf(b))
      BY <2>1, <2>5 DEF Becomes
    <2>7. b.parent[c] = f
      BY <2>6, ParentOfAdded DEF r
    <2> QED BY <1>2, <2>1, <2>2, <2>6, <2>7 DEF Placed, u, r
  <1> QED BY <1>1, <1>2

(* Goes: as Becomes, but dialogs may change their owners.                  *)
Goes(t, u, r) ==
    /\ Right(u) /\ TreeOf(u) = r
    /\ u.gone = t.gone /\ u.transient \in [Clients -> Clients \cup {None}]
    /\ \A d \in Clients : Count(u.queue, Withdrawn(d)) = Count(t.queue, Withdrawn(d))

LEMMA BecomesGoes ==
    ASSUME NEW t, NEW u, NEW r, Becomes(t, u, r), t.transient \in [Clients -> Clients \cup {None}]
    PROVE  Goes(t, u, r)
  BY DEF Becomes, Stays, Goes

LEMMA GoesOn ==
    ASSUME NEW t, NEW u, NEW v, NEW q, NEW r, Goes(t, u, q), Becomes(u, v, r)
    PROVE  Goes(t, v, r)
  BY DEF Goes, Becomes, Stays

LEMMA MappedStateKeeps ==
    ASSUME NEW t, Right(t), NEW c \in Clients, IsManaged(t, c), NEW b
    PROVE  Keeps(t, SetMappedStateAndFocus(t, c, b))
  <1> DEFINE f == t.parent[c]
             x == [t EXCEPT !.cmapped[c] = TRUE]
             u == IF t.fmapped[f] /\ ~ t.cicon[c] THEN x ELSE t
  <1>1. SetMappedStateAndFocus(t, c, b) = IF t.fmapped[f] /\ b THEN GiveFrameFocus(u, f) ELSE u
    BY DEF SetMappedStateAndFocus
  <1>2. Keeps(t, x)
    BY RightIs DEF Formed, Fields, Keeps, Stays, SameTree, SameLists
  <1> HIDE DEF x
  <1>3. Keeps(t, u) /\ Formed(u)
    BY <1>2, RightIs, KeepsItself, KeepsForm
  <1>4. u.child[f] \in Clients
    <2>1. f \in LiveIn(t) /\ u.child = t.child
      BY <1>3, RightIs DEF Keeps, SameTree
    <2> HIDE DEF u
    <2> QED BY <2>1, RightIs
  <1> HIDE DEF u
  <1>5. Keeps(t, GiveFrameFocus(u, f))
    BY <1>3, <1>4, GiveFrameFocusKeeps, KeepsOn
  <1> QED BY <1>1, <1>3, <1>5

LEMMA ManageGoes ==
    ASSUME NEW t, Right(t), t.transient \in [Clients -> Clients \cup {None}],
           NEW c \in Clients, ~ IsManaged(t, c), NEW f \in Frames,
           NEW place \in {"new", "front", "behind"}, place = "new" <=> f \notin LiveIn(t),
           NEW icon, NEW focus, NEW same
    PROVE  LET u == Manage(t, c, f, place, icon, focus, same)
           IN  Goes(t, u, TreeOf(u)) /\ Placed(TreeOf(t), TreeOf(u), f, c, place)
  <1> DEFINE owner == TransientFor[c]
             w == IF owner # None /\ IsManaged(t, owner) THEN owner ELSE None
             l == IF same THEN t.last ELSE [n \in Workspaces |-> IF t.last[n] = c THEN None ELSE t.last[n]]
             u == [t EXCEPT !.cws[c] = t.active, !.cicon[c] = icon, !.transient[c] = w, !.last = l]
             v == FindOrCreateFrame(u, c, f, place)
             x == SetMappedStateAndFocus(v, c, focus)
             y == FindAndRaiseIfTransient(x, c)
  <1>1. Manage(t, c, f, place, icon, focus, same) = y
    <2>1. [t EXCEPT !.cws[c] = t.active, !.cicon[c] = icon, !.transient[c] = w,
             !.last = IF same THEN @
                      ELSE [n \in Workspaces |-> IF @[n] = c THEN None ELSE @[n]]] = u
      BY RightIs DEF Formed, Fields
    <2> QED BY <2>1 DEF Manage
  <1>2. w \in Clients \cup {None}
    BY WmAssumption
  <1> HIDE DEF w, l, y
  <1>3. /\ Formed(u) /\ SameTree(t, u) /\ SameLists(t, u) /\ u.queue = t.queue
        /\ u.gone = t.gone /\ u.transient = [t.transient EXCEPT ![c] = w]
    BY RightIs DEF Formed, Fields, SameTree, SameLists
  <1> HIDE DEF u
  <1>4. Goes(t, u, TreeOf(t)) /\ LiveIn(u) = LiveIn(t) /\ ~ IsManaged(u, c)
    <2>1. TreeOf(u) = TreeOf(t) /\ LiveIn(u) = LiveIn(t) /\ ~ IsManaged(u, c)
      BY <1>3, SameLive DEF SameTree, TreeOf, IsManaged
    <2>2. Listed(u)
      BY <1>3, <2>1, KeepsListed DEF Right
    <2>3. u.transient \in [Clients -> Clients \cup {None}]
      BY <1>2, <1>3
    <2> QED BY <1>3, <2>1, <2>2, <2>3 DEF Goes, Right
  <1>5. /\ Becomes(u, v, TreeOf(v)) /\ Placed(TreeOf(t), TreeOf(v), f, c, place)
        /\ v.parent[c] = f
    <2>1. Right(u) /\ TreeOf(u) = TreeOf(t) /\ (place = "new" <=> f \notin LiveIn(u))
      BY <1>4 DEF Goes
    <2> QED BY <1>4, <2>1, FrameFound
  <1> HIDE DEF v
  <1>6. Right(v) /\ IsManaged(v, c)
    BY <1>5, TabsAssumption DEF Becomes, IsManaged
  <1>7. Becomes(v, x, TreeOf(v)) /\ Keeps(v, x)
    BY <1>6, MappedStateKeeps, RightOn
  <1> HIDE DEF x
  <1>8. Becomes(x, y, TreeOf(v))
    <2>1. Right(x) /\ TreeOf(x) = TreeOf(v) /\ IsManaged(x, c)
      BY <1>6, <1>7 DEF Becomes, Keeps, SameTree, IsManaged
    <2>2. Becomes(x, Raise(x, x.parent[c]), TreeOf(x)) /\ Becomes(x, x, TreeOf(x))
      BY <2>1, RightIs, RaiseBecomes, Refocused
    <2> QED BY <2>1, <2>2 DEF FindAndRaiseIfTransient, y
  <1>9. Goes(t, y, TreeOf(v)) /\ TreeOf(y) = TreeOf(v)
    BY <1>4, <1>5, <1>7, <1>8, GoesOn DEF Becomes
  <1> QED BY <1>1, <1>5, <1>9


----------------------------------------------------------------------------
(* Requests about a client or a frame that stays where it is.              *)
LEMMA TreeLive ==
    ASSUME NEW t, NEW u, TreeOf(u).kids = TreeOf(t).kids
    PROVE  LiveIn(u) = LiveIn(t)
  BY TreeFields, SameLive

LEMMA FrontLive ==
    ASSUME NEW t, NEW u, NEW f, NEW c,
           TreeOf(u) = TreeOf(t) \/ TreeOf(u) = GP!PutInFront(TreeOf(t), f, c)
    PROVE  LiveIn(u) = LiveIn(t) /\ u.parent = t.parent
  <1>1. TreeOf(u).kids = TreeOf(t).kids /\ TreeOf(u).parent = TreeOf(t).parent
    BY DEF TreeOf, GP!PutInFront
  <1> QED BY <1>1, TreeLive, TreeFields

LEMMA RaisedAndFocused ==
    ASSUME NEW t, Right(t), NEW f \in LiveIn(t)
    PROVE  Becomes(t, GiveFrameFocus(Raise(t, f), f), TreeOf(t))
  <1> DEFINE u == Raise(t, f)
  <1>1. Becomes(t, u, TreeOf(t))
    BY RaiseBecomes
  <1> HIDE DEF u
  <1>2. Right(u) /\ f \in LiveIn(u)
    BY <1>1, TreeLive DEF Becomes
  <1>3. Keeps(u, GiveFrameFocus(u, f))
    BY <1>2, RightIs, GiveFrameFocusKeeps
  <1> QED BY <1>1, <1>3, BecomesKept DEF u

(* The tab c comes to the front, or is there.                              *)
Fronts(t, u, c) ==
    \/ Becomes(t, u, TreeOf(t))
    \/ Becomes(t, u, GP!PutInFront(TreeOf(t), t.parent[c], c))

LEMMA FrontsOn ==
    ASSUME NEW t, NEW u, NEW v, NEW c, Fronts(t, u, c), Becomes(u, v, TreeOf(u))
    PROVE  Fronts(t, v, c)
  BY BecomesOn DEF Fronts, Becomes

LEMMA ActivateFronts ==
    ASSUME NEW c \in Clients, Right(s), Activate(c)
    PROVE  Fronts(s, s', c)
  <1> DEFINE f == s.parent[c]
             t == IF s.child[f] = c THEN s ELSE ActivateChild(s, f, c)
             w == IF t.fsticky[f] THEN t ELSE SetWorkspace(t, t.fws[f], FALSE)
             u == IF t.fmapped[f] THEN t ELSE MapFrame(w, f)
  <1>1. s' = GiveFrameFocus(Raise(u, f), f) /\ IsManaged(s, c)
    BY DEF Activate, Managed
  <1>2. f \in LiveIn(s) /\ f \in Frames
    BY <1>1, RightIs DEF LiveIn
  <1>3. Fronts(s, t, c)
    BY <1>1, ActivateChildBecomes, Refocused DEF Fronts
  <1> HIDE DEF t
  <1>4. Right(t)
    BY <1>3 DEF Fronts, Becomes
  <1>5. Becomes(t, w, TreeOf(t))
    BY <1>4, Refocused
  <1> HIDE DEF w
  <1>6. Becomes(t, MapFrame(w, f), TreeOf(t))
    BY <1>2, <1>5, RightIs, MapFrameKeeps, BecomesKept DEF Becomes
  <1>7. Becomes(t, u, TreeOf(t))
    BY <1>4, <1>6, Refocused
  <1> HIDE DEF u
  <1>8. Fronts(s, u, c) /\ Right(u)
    BY <1>3, <1>7, FrontsOn DEF Becomes
  <1>9. f \in LiveIn(u)
    BY <1>2, <1>8, FrontLive DEF Fronts, Becomes
  <1> HIDE DEF f
  <1> QED BY <1>1, <1>8, <1>9, RaisedAndFocused, FrontsOn

LEMMA GotoClientFronts ==
    ASSUME NEW c \in Clients, Right(s), GotoClient(c)
    PROVE  Fronts(s, s', c)
  <1> DEFINE f == s.parent[c]
             t == IF s.fsticky[f] THEN s ELSE SetWorkspace(s, s.fws[f], FALSE)
             w == MapFrame(t, f)
             u == ActivateChild(w, f, c)
  <1>1. s' = GiveFrameFocus(Raise(u, f), f) /\ IsManaged(s, c)
    BY DEF GotoClient, Managed
  <1>2. f \in LiveIn(s) /\ f \in Frames
    BY <1>1, RightIs DEF LiveIn
  <1>3. Becomes(s, t, TreeOf(s))
    BY Refocused
  <1> HIDE DEF t
  <1>4. Becomes(s, w, TreeOf(s))
    BY <1>2, <1>3, RightIs, MapFrameKeeps, BecomesKept DEF Becomes
  <1> HIDE DEF w
  <1>5. Right(w) /\ TreeOf(w) = TreeOf(s) /\ w.parent = s.parent
    BY <1>4, TreeFields DEF Becomes
  <1>6. Becomes(w, u, GP!PutInFront(TreeOf(s), f, c))
    <2>1. IsManaged(w, c) /\ w.parent[c] = f
      BY <1>1, <1>5 DEF IsManaged
    <2>2. Becomes(w, ActivateChild(w, w.parent[c], c), GP!PutInFront(TreeOf(w), w.parent[c], c))
      BY <1>5, <2>1, ActivateChildBecomes
    <2> QED BY <1>5, <2>1, <2>2
  <1> HIDE DEF u
  <1>7. Fronts(s, u, c) /\ Right(u)
    <2>1. Becomes(s, u, GP!PutInFront(TreeOf(s), f, c))
      BY <1>4, <1>6, BecomesOn
    <2> QED BY <2>1 DEF Fronts, Becomes
  <1>8. f \in LiveIn(u)
    BY <1>2, <1>7, FrontLive DEF Fronts, Becomes
  <1> HIDE DEF f
  <1> QED BY <1>1, <1>7, <1>8, RaisedAndFocused, FrontsOn

LEMMA ClickFronts ==
    ASSUME NEW c \in Clients, Right(s), Click(c)
    PROVE  Fronts(s, s', c)
  <1> DEFINE f == s.parent[c]
             t == ActivateChild(s, f, c)
  <1>1. s' = (IF t.ffocused[f] THEN Raise(t, f) ELSE GiveClientFocus(t, c)) /\ IsManaged(s, c)
    BY DEF Click, Managed
  <1>2. f \in LiveIn(s)
    BY <1>1, RightIs
  <1>3. Fronts(s, t, c) /\ Right(t)
    BY <1>1, ActivateChildBecomes DEF Fronts, Becomes
  <1> HIDE DEF t
  <1>4. f \in LiveIn(t)
    BY <1>2, <1>3, FrontLive DEF Fronts, Becomes
  <1>5. Becomes(t, Raise(t, f), TreeOf(t))
    BY <1>3, <1>4, RaiseBecomes
  <1>6. Becomes(t, GiveClientFocus(t, c), TreeOf(t))
    BY <1>3, RightIs, GiveClientFocusKeeps, RightOn
  <1> HIDE DEF f
  <1>7. Becomes(t, s', TreeOf(t))
    BY <1>1, <1>5, <1>6
  <1> QED BY <1>3, <1>7, FrontsOn

LEMMA FocusToggleBecomes ==
    ASSUME NEW f \in Frames, NEW raise \in BOOLEAN, Right(s), FocusToggle(f, raise)
    PROVE  Becomes(s, s', TreeOf(s))
  <1> DEFINE x == SetFocused(s, s.focused, FALSE)
             t == [x EXCEPT !.ffocused[f] = TRUE]
             w == MapFrame(SetFrameWorkspace(t, f, t.active), f)
             u == IF t.ficon[f] THEN Raise(w, f) ELSE IF raise THEN Raise(t, f) ELSE t
  <1>1. s' = GiveFrameFocus(u, f) /\ f \in LiveIn(s)
    BY DEF FocusToggle, Live, LiveIn
  <1>2. Keeps(s, x) /\ Formed(x)
    BY RightIs, SetFocusedKeeps, KeepsForm
  <1> HIDE DEF x
  <1>3. Keeps(x, t)
    BY <1>2 DEF Formed, Fields, Keeps, Stays, SameTree, SameLists
  <1> HIDE DEF t
  <1>4. Keeps(s, t) /\ Formed(t)
    BY <1>2, <1>3, KeepsOn, KeepsForm
  <1>5. Keeps(s, w)
    <2> DEFINE v == SetFrameWorkspace(t, f, t.active)
    <2>1. Keeps(t, v) /\ Formed(v)
      BY <1>4, SetFrameWorkspaceKeeps, KeepsForm
    <2> HIDE DEF v
    <2>2. Keeps(t, MapFrame(v, f))
      BY <2>1, MapFrameKeeps, KeepsOn
    <2> QED BY <1>4, <2>2, KeepsOn DEF v
  <1> HIDE DEF w
  <1>6. Becomes(s, t, TreeOf(s)) /\ Becomes(s, w, TreeOf(s))
    BY <1>4, <1>5, RightOn
  <1>7. \A v : Becomes(s, v, TreeOf(s)) => Becomes(s, Raise(v, f), TreeOf(s))
    <2>1. SUFFICES ASSUME NEW v, Becomes(s, v, TreeOf(s))
                   PROVE  Becomes(s, Raise(v, f), TreeOf(s))
      OBVIOUS
    <2>2. Right(v) /\ TreeOf(v) = TreeOf(s) /\ f \in LiveIn(v)
      BY <1>1, <2>1, TreeLive DEF Becomes
    <2> QED BY <2>1, <2>2, RaiseBecomes, BecomesOn
  <1>8. Becomes(s, u, TreeOf(s))
    BY <1>6, <1>7
  <1> HIDE DEF u
  <1>9. Right(u) /\ TreeOf(u) = TreeOf(s) /\ f \in LiveIn(u)
    BY <1>1, <1>8, TreeLive DEF Becomes
  <1>10. Becomes(u, GiveFrameFocus(u, f), TreeOf(u))
    BY <1>9, Refocused
  <1> QED BY <1>1, <1>8, <1>9, <1>10, BecomesOn

LEMMA StickBecomes ==
    ASSUME NEW f \in Frames, Right(s), Stick(f)
    PROVE  Becomes(s, s', TreeOf(s))
  <1> DEFINE k == s.child[f]
             b == ~ s.fsticky[f]
             n == s.active
             t == [s EXCEPT !.csticky[k] = b, !.fsticky[f] = ~ @]
  <1>1. s' = SetFrameWorkspace(t, f, n)
    BY DEF Stick
  <1> HIDE DEF k, b, n
  <1>2. Keeps(s, t) /\ Formed(t)
    BY RightIs DEF Formed, Fields, Keeps, Stays, SameTree, SameLists
  <1> HIDE DEF t
  <1>3. Keeps(s, SetFrameWorkspace(t, f, n))
    BY <1>2, SetFrameWorkspaceKeeps, KeepsOn
  <1> QED BY <1>1, <1>3, RightOn

LEMMA DeiconifyKeeps ==
    ASSUME NEW t, Formed(t), NEW f \in Frames
    PROVE  Keeps(t, Deiconify(t, f))
  <1> DEFINE u == IF t.fws[f] = t.active THEN MapFrame(t, f) ELSE t
             v == [u EXCEPT !.ficon[f] = FALSE]
  <1>1. Deiconify(t, f) = IF t.ficon[f] THEN v ELSE t
    BY DEF Deiconify
  <1>2. Keeps(t, u) /\ Formed(u)
    BY MapFrameKeeps, KeepsItself, KeepsForm
  <1> HIDE DEF u
  <1>3. Keeps(u, v)
    BY <1>2 DEF Formed, Fields, Keeps, Stays, SameTree, SameLists
  <1> HIDE DEF v
  <1> QED BY <1>1, <1>2, <1>3, KeepsOn, KeepsItself

(* Requests that leave the grouping alone. *)
LEMMA QuietRequests ==
    ASSUME Right(s),
           \/ \E c \in Clients : MapAgain(c)
           \/ \E f \in Frames : \/ Iconify(f) \/ Restore(f) \/ Stick(f)
                                \/ \E raise \in BOOLEAN : FocusToggle(f, raise)
                                \/ \E n \in Workspaces : SendTo(f, n)
           \/ \E n \in Workspaces : Goto(n) \/ Resize(n + 1)
    PROVE  Becomes(s, s', TreeOf(s))
  <1>1. Formed(s) /\ s.wolist \in Seq(Frames)
    BY RightIs
  <1>2. ASSUME NEW c \in Clients, MapAgain(c) PROVE Becomes(s, s', TreeOf(s))
    <2>1. s.parent[c] \in Frames /\ s' = Deiconify(s, s.parent[c])
      BY <1>2, RightIs DEF MapAgain, Managed, LiveIn
    <2> QED BY <1>1, <2>1, DeiconifyKeeps, RightOn
  <1>3. ASSUME NEW f \in Frames, Iconify(f) \/ Restore(f) \/ \E n \in Workspaces : SendTo(f, n)
        PROVE  Becomes(s, s', TreeOf(s))
    <2>1. \/ s' = IconifyFrame(s, f) \/ s' = MapFrame(s, f)
          \/ \E n \in Workspaces : s' = SetFrameWorkspace(s, f, n)
      BY <1>3 DEF Iconify, Restore, SendTo
    <2>2. Keeps(s, s')
      BY <1>1, <2>1, IconifyFrameKeeps, MapFrameKeeps, SetFrameWorkspaceKeeps
    <2> QED BY <2>2, RightOn
  <1>4. ASSUME NEW n \in Workspaces, Goto(n) \/ Resize(n + 1) PROVE Becomes(s, s', TreeOf(s))
    <2>1. s' = SetWorkspace(s, n, TRUE) \/ s' = SetSize(s, n + 1)
      BY <1>4 DEF Goto, Resize
    <2>2. Keeps(s, s')
      BY <1>1, <2>1, SetWorkspaceKeeps, SetSizeKeeps
    <2> QED BY <2>2, RightOn
  <1> QED BY <1>2, <1>3, <1>4, StickBecomes, FocusToggleBecomes


----------------------------------------------------------------------------
(* Requests that move clients between frames.                              *)
LEMMA AfterRemoval ==
    ASSUME NEW t, Right(t), NEW c \in Clients, IsManaged(t, c), NEW u,
           TreeOf(u) = GP!RemoveChild(TreeOf(t), c)
    PROVE  /\ ~ IsManaged(u, c) /\ u.parent = [t.parent EXCEPT ![c] = None]
           /\ \A f \in Frames \ {t.parent[c]} : f \in LiveIn(u) <=> f \in LiveIn(t)
  <1> DEFINE r == TreeOf(t)
             f == t.parent[c]
  <1>1. GP!Good(r) /\ f \in Frames /\ r.parent[c] = f
    BY RightIs DEF Right, TreeOf, LiveIn
  <1> HIDE DEF r, f
  <1>2. GP!Removed(r, GP!RemoveChild(r, c), f, c)
    BY <1>1, TabsAssumption, GP!RemoveGood
  <1>3. /\ TreeOf(u).parent = [r.parent EXCEPT ![c] = None]
        /\ \A g \in Frames \ {f} : TreeOf(u).kids[g] = r.kids[g]
    BY <1>2 DEF GP!Removed, r
  <1>4. /\ u.parent = [t.parent EXCEPT ![c] = None]
        /\ \A g \in Frames \ {f} : u.kids[g] = t.kids[g]
    BY <1>3, TreeFields DEF r
  <1> QED BY <1>4, RightIs DEF IsManaged, LiveIn, Exists, f

LEMMA DetachBecomes ==
    ASSUME NEW c \in Clients, NEW f \in Frames, Right(s), Detach(c, f)
    PROVE  Becomes(s, s', GP!NewFrame(GP!RemoveChild(TreeOf(s), c), f, c))
  <1> DEFINE g == s.parent[c]
             u == RemoveFromFrame(s, c)
             t == OpenFrame(u, f, c)
             x == GP!RemoveChild(TreeOf(s), c)
             a == t.active
             no == FALSE
             v == [t EXCEPT !.cws[c] = a, !.ffocused[g] = no]
  <1>1. s' = v /\ IsManaged(s, c) /\ f \in Frames \ LiveIn(s)
    BY DEF Detach, Managed, Live, LiveIn
  <1>2. Becomes(s, u, x)
    BY <1>1, RemoveFromFrameBecomes
  <1>3. ~ IsManaged(u, c) /\ f \in Frames \ LiveIn(u)
    <2>1. TreeOf(u) = x /\ f # s.parent[c]
      BY <1>1, <1>2, RightIs DEF Becomes
    <2> QED BY <1>1, <2>1, AfterRemoval
  <1> HIDE DEF u, x
  <1>4. Becomes(s, t, GP!NewFrame(x, f, c))
    <2>1. Becomes(u, t, GP!NewFrame(x, f, c))
      BY <1>2, <1>3, OpenFrameBecomes DEF Becomes
    <2> QED BY <1>2, <2>1, BecomesOn
  <1> HIDE DEF t, a, no, g
  <1>5. Formed(t)
    BY <1>4 DEF Becomes, Right
  <1>6. Keeps(t, v)
    BY <1>5 DEF Formed, Fields, Keeps, Stays, SameTree, SameLists
  <1> HIDE DEF v
  <1> QED BY <1>1, <1>4, <1>6, BecomesKept DEF x

LEMMA AttachMarkedBecomes ==
    ASSUME NEW c \in Clients, NEW f \in Frames, Right(s), AttachMarked(c, f)
    PROVE  Becomes(s, s', GP!AddChild(GP!RemoveChild(TreeOf(s), c), f, c))
  <1> DEFINE t == RemoveFromFrame(s, c)
             x == GP!RemoveChild(TreeOf(s), c)
             n == t.fws[f]
             u == [t EXCEPT !.cws[c] = n]
  <1>1. s' = AddToFrame(u, f, c) /\ IsManaged(s, c) /\ f \in LiveIn(s) /\ f # s.parent[c]
    BY DEF AttachMarked, Managed, Live, LiveIn
  <1>2. Becomes(s, t, x) /\ Formed(t)
    BY <1>1, RemoveFromFrameBecomes DEF Becomes, Right
  <1> HIDE DEF t, x, n
  <1>3. Keeps(t, u)
    BY <1>2 DEF Formed, Fields, Keeps, Stays, SameTree, SameLists
  <1> HIDE DEF u
  <1>4. Becomes(s, u, x)
    BY <1>2, <1>3, BecomesKept
  <1>5. ~ IsManaged(u, c) /\ f \in LiveIn(u)
    <2>1. TreeOf(u) = GP!RemoveChild(TreeOf(s), c) /\ f \in Frames \ {s.parent[c]}
      BY <1>1, <1>4 DEF Becomes, x, LiveIn
    <2> QED BY <1>1, <2>1, AfterRemoval
  <1>6. Becomes(u, AddToFrame(u, f, c), GP!AddChild(x, f, c))
    BY <1>4, <1>5, AddToFrameBecomes DEF Becomes
  <1> QED BY <1>1, <1>4, <1>6, BecomesOn DEF x

LEMMA AttachClientBecomes ==
    ASSUME NEW c \in Clients, NEW f \in Frames, Right(s), AttachClient(c, f)
    PROVE  Becomes(s, s', GP!PutInFront(GP!AddChild(GP!RemoveChild(TreeOf(s), c), f, c), f, c))
  <1> DEFINE k == SetFocused(s, c, FALSE)
             t == RemoveFromFrame(k, c)
             u == AddToFrame(t, f, c)
             v == ActivateChild(u, f, c)
             x == GP!RemoveChild(TreeOf(s), c)
             y == GP!AddChild(x, f, c)
             z == GP!PutInFront(y, f, c)
  <1>1. /\ s' = GiveFrameFocus(v, f)
        /\ IsManaged(s, c) /\ f \in LiveIn(s) /\ f # s.parent[c] /\ f \in Frames
    BY DEF AttachClient, Managed, Live, LiveIn
  <1>2. Becomes(s, k, TreeOf(s)) /\ IsManaged(k, c)
    <2>1. Keeps(s, k)
      BY RightIs, SetFocusedKeeps
    <2> QED BY <1>1, <2>1, RightOn DEF Keeps, SameTree, IsManaged
  <1> HIDE DEF k
  <1>3. Becomes(s, t, x)
    <2>1. Becomes(k, t, x)
      BY <1>2, RemoveFromFrameBecomes DEF Becomes
    <2> QED BY <1>2, <2>1, BecomesOn
  <1> HIDE DEF t
  <1>4. ~ IsManaged(t, c) /\ f \in LiveIn(t)
    <2>1. TreeOf(t) = GP!RemoveChild(TreeOf(s), c) /\ f \in Frames \ {s.parent[c]}
      BY <1>1, <1>3 DEF Becomes, x
    <2> QED BY <1>1, <2>1, AfterRemoval
  <1> HIDE DEF x
  <1>5. Becomes(t, u, y) /\ u.parent[c] = f /\ IsManaged(u, c)
    BY <1>3, <1>4, TabsAssumption, AddToFrameBecomes DEF Becomes, IsManaged
  <1> HIDE DEF u
  <1> HIDE DEF y
  <1>6. Becomes(u, v, z)
    <2>1. Right(u) /\ TreeOf(u) = y
      BY <1>5 DEF Becomes
    <2>2. Becomes(u, ActivateChild(u, u.parent[c], c), GP!PutInFront(TreeOf(u), u.parent[c], c))
      BY <1>5, <2>1, ActivateChildBecomes
    <2> QED BY <1>5, <2>1, <2>2
  <1>7. f \in LiveIn(v)
    <2>1. f \in LiveIn(u)
      BY <1>5, RightIs DEF Becomes
    <2> QED BY <1>5, <1>6, <2>1, FrontLive DEF Becomes
  <1> HIDE DEF v, z
  <1>8. Becomes(s, v, z)
    BY <1>3, <1>5, <1>6, BecomesOn
  <1>9. Keeps(v, GiveFrameFocus(v, f))
    BY <1>7, <1>8, RightIs, GiveFrameFocusKeeps DEF Becomes
  <1>10. Becomes(s, s', z)
    BY <1>1, <1>8, <1>9, BecomesKept
  <1> QED BY <1>10 DEF x, y, z


(* All the tabs of g go to f. *)
LEMMA AddDecorMoves ==
    ASSUME NEW t, Formed(t), NEW f, NEW g
    PROVE  Moved(t, AddDecor(t, f, g), GP!AddDecor(TreeOf(t), f, g))
  <1> DEFINE q == t.kids[f] \o t.kids[g]
             e == <<>>
             p == [c \in Clients |-> IF t.parent[c] = g THEN f ELSE t.parent[c]]
             u == [t EXCEPT !.kids[f] = q, !.kids[g] = e, !.child[g] = None, !.parent = p]
             k == [t.kids EXCEPT ![f] = q]
             l == [k EXCEPT ![g] = e]
             d == [t.child EXCEPT ![g] = None]
             r == TreeOf(t)
             y == [r EXCEPT !.kids[f] = q, !.kids[g] = e, !.child[g] = None, !.parent = p]
             r1 == [kids |-> k, child |-> t.child, parent |-> t.parent]
             r2 == [kids |-> l, child |-> t.child, parent |-> t.parent]
             r3 == [kids |-> l, child |-> d, parent |-> t.parent]
             r4 == [kids |-> l, child |-> d, parent |-> p]
  <1>1. AddDecor(t, f, g) = u
    BY DEF AddDecor
  <1>2. GP!AddDecor(r, f, g) = y
    BY TreeFields DEF GP!AddDecor
  <1> HIDE DEF q, e, p
  <1>3. Stays(t, u) /\ SameLists(t, u) /\ u.kids = l /\ u.child = d /\ u.parent = p
    BY DEF Formed, Fields, Stays, SameLists
  <1>4. y = r4
    <2>1. r = [kids |-> t.kids, child |-> t.child, parent |-> t.parent]
      BY DEF TreeOf
    <2>2. [r EXCEPT !.kids[f] = q] = r1
      <3>1. r.kids = t.kids
        BY <2>1
      <3> HIDE DEF k, r
      <3>2. [r EXCEPT !.kids = k] = r1
        BY <2>1
      <3> QED BY <3>1, <3>2 DEF k
    <2>3. [r1 EXCEPT !.kids[g] = e] = r2
      <3>1. r1.kids = k
        OBVIOUS
      <3> HIDE DEF k, l
      <3>2. [r1 EXCEPT !.kids = l] = r2
        OBVIOUS
      <3> HIDE DEF r1
      <3> QED BY <3>1, <3>2 DEF l
    <2>4. [r2 EXCEPT !.child[g] = None] = r3
      <3>1. r2.child = t.child
        OBVIOUS
      <3> HIDE DEF l, d
      <3>2. [r2 EXCEPT !.child = d] = r3
        OBVIOUS
      <3> HIDE DEF r2
      <3> QED BY <3>1, <3>2 DEF d
    <2>5. [r3 EXCEPT !.parent = p] = r4
      OBVIOUS
    <2> HIDE DEF r, r1, r2, r3, r4
    <2> QED BY <2>2, <2>3, <2>4, <2>5
  <1>5. TreeOf(u) = r4
    <2> HIDE DEF u, k, l, d
    <2> QED BY <1>3 DEF TreeOf
  <1> HIDE DEF u, y, r, r4
  <1> QED BY <1>1, <1>2, <1>3, <1>4, <1>5 DEF Moved, r

LEMMA AttachFrameBecomes ==
    ASSUME NEW f \in Frames, NEW g \in Frames, Right(s), AttachFrame(g, f)
    PROVE  Becomes(s, s', GP!AddDecor(TreeOf(s), f, g))
  <1> DEFINE t == RunCalls(s, ForEach("Reparent", s.kids[g]))
             u == AddDecor(t, f, g)
             m == [c \in Clients |-> IF u.parent[c] = f THEN u.fws[f] ELSE u.cws[c]]
             v == [u EXCEPT !.cws = m]
             w == DeleteFrame(v, g)
             r == TreeOf(s)
             x == GP!AddDecor(r, f, g)
  <1>1. s' = w /\ f \in LiveIn(s) /\ g \in LiveIn(s) /\ f # g
    BY DEF AttachFrame, Live, LiveIn
  <1>2. Keeps(s, t) /\ Formed(t) /\ TreeOf(t) = r
    <2>1. s.kids[g] \in Seq(Clients)
      BY RightIs DEF Formed
    <2>2. ForEach("Reparent", s.kids[g]) \in Seq(Calls)
      BY <2>1, ForEachClient
    <2>3. Keeps(s, t)
      BY <2>2, RightIs, RunCallsKeeps
    <2> QED BY <2>3, RightIs, KeepsForm DEF TreeOf
  <1> HIDE DEF t
  <1>3. Moved(s, u, x)
    <2>1. Moved(t, u, x)
      BY <1>2, AddDecorMoves
    <2>2. Moved(s, t, r)
      BY <1>2, KeptIsMoved
    <2> QED BY <2>1, <2>2, MovedOn
  <1>4. GP!Good(r) /\ GP!Exists(r, f) /\ GP!Exists(r, g) /\ Formed(s) /\ Listed(s)
    BY <1>1 DEF Right, LiveIn, GP!Exists, Exists, TreeOf
  <1> HIDE DEF u, r
  <1>5. GP!Good(x)
    BY <1>1, <1>4, TabsAssumption, GP!MergeGood DEF GP!Merged
  <1> HIDE DEF m
  <1>6. Formed(u) /\ TreeOf(u) = x
    BY <1>3, <1>4, <1>5, MovedForm DEF Moved, GP!Good
  <1>7. u.kids[g] = <<>> /\ u.child[g] = None /\ u.kids[f] # <<>>
        /\ \A h \in Frames \ {f, g} : u.kids[h] = s.kids[h]
    <2>1. GP!Merged(r, x, f, g)
      BY <1>1, <1>4, TabsAssumption, GP!MergeGood
    <2>2. /\ x.kids[g] = <<>> /\ x.child[g] = None /\ x.kids[f] # <<>>
          /\ \A h \in Frames \ {f, g} : x.kids[h] = r.kids[h]
      BY <2>1 DEF GP!Merged
    <2> QED BY <1>6, <2>2, TreeFields DEF r
  <1>8. Keeps(u, v) /\ Formed(v)
    BY <1>6 DEF Formed, Fields, Keeps, Stays, SameTree, SameLists
  <1> HIDE DEF v, x
  <1>9. /\ Stays(v, w) /\ TreeOf(w) = GP!PutInFront(TreeOf(v), g, None)
        /\ w.wolist = Sieve(v.wolist, Frames \ {g}) /\ w.mru = Sieve(v.mru, Frames \ {g})
    BY <1>8, DeleteFrameMoves
  <1> HIDE DEF w
  <1>10. TreeOf(w) = x
    <2>1. TreeOf(v) = x
      BY <1>6, <1>8 DEF Keeps, SameTree, TreeOf
    <2>2. x.child[g] = None /\ x \in [kids : [Frames -> Seq(Clients)],
                                      child : [Frames -> Clients \cup {None}],
                                      parent : [Clients -> Frames \cup {None}]]
      BY <1>5, <1>6, <1>7, TreeFields DEF GP!Good, GP!Sound, GP!IsTabs
    <2>3. GP!PutInFront(x, g, None) = x
      BY <2>2 DEF GP!PutInFront
    <2> QED BY <1>9, <2>1, <2>3
  <1>11. Stays(s, w)
    BY <1>3, <1>8, <1>9 DEF Moved, Keeps, Stays
  <1>12. Formed(w)
    BY <1>4, <1>5, <1>10, <1>11, MovedForm DEF GP!Good
  <1>13. LiveIn(w) = LiveIn(s) \ {g}
    <2>1. w.kids = u.kids
      BY <1>6, <1>10, TreeFields
    <2> QED BY <1>1, <1>7, <2>1 DEF LiveIn, Exists
  <1>14. Listed(w)
    <2>1. v.wolist = s.wolist /\ v.mru = s.mru
      BY <1>3, <1>8 DEF Moved, Keeps, SameLists
    <2>2. Lists(s.wolist, LiveIn(s)) /\ Lists(s.mru, LiveIn(s))
      BY <1>4 DEF Listed
    <2>3. /\ Lists(Sieve(s.wolist, Frames \ {g}), LiveIn(s) \ {g})
          /\ Lists(Sieve(s.mru, Frames \ {g}), LiveIn(s) \ {g})
      BY <2>2, ListWithout
    <2> QED BY <1>9, <1>13, <2>1, <2>3 DEF Listed
  <1> QED BY <1>1, <1>5, <1>10, <1>11, <1>12, <1>14 DEF Becomes, Right, x, r

(* Frame::moveChildRel: the tabs of f change their order.                  *)
LEMMA MoveTabBecomes ==
    ASSUME NEW f \in Frames, NEW off \in {-1, 1}, Right(s), MoveTab(f, off)
    PROVE  Becomes(s, s', GP!MoveChildRel(TreeOf(s), f, off))
  <1> DEFINE q == s.kids[f]
             m == MoveRel(q, s.child[f], off)
             u == [s EXCEPT !.kids[f] = m]
             r == TreeOf(s)
             x == GP!MoveChildRel(r, f, off)
             b == Len(q) < 2 \/ ChildRel(q, s.child[f], off) = s.child[f]
  <1>1. s' = IF b THEN s ELSE u
    BY DEF MoveTab, MoveChildRel
  <1>2. f \in LiveIn(s)
    BY DEF MoveTab, Live, LiveIn
  <1>3. x = IF b THEN r ELSE [r EXCEPT !.kids[f] = m]
    <2>1. \A k, d : GP!ChildRel(k, d, off) = ChildRel(k, d, off)
      BY Zenon DEF GP!ChildRel, ChildRel, GP!Position, Position
    <2>2. \A k, d : GP!MoveRel(k, d, off) = MoveRel(k, d, off)
      <3>1. /\ \A k, d : GP!Position(k, d) = Position(k, d)
            /\ \A k, i : GP!RemoveAt(k, i) = RemoveAt(k, i)
            /\ \A k, i, d : GP!InsertAt(k, i, d) = InsertAt(k, i, d)
        BY Zenon DEF GP!Position, Position, GP!RemoveAt, RemoveAt, GP!InsertAt, InsertAt
      <3>2. SUFFICES ASSUME NEW k, NEW d PROVE GP!MoveRel(k, d, off) = MoveRel(k, d, off)
        OBVIOUS
      <3>3. /\ GP!ChildRel(k, d, off) = ChildRel(k, d, off)
            /\ GP!RemoveAt(k, GP!Position(k, d)) = RemoveAt(k, Position(k, d))
        BY <2>1, <3>1
      <3>4. \A l, e : GP!Position(l, e) = Position(l, e)
        BY <3>1
      <3> QED BY <3>1, <3>3, <3>4, Zenon DEF GP!MoveRel, MoveRel
    <2>3. x = IF Len(r.kids[f]) < 2 \/ ChildRel(r.kids[f], r.child[f], off) = r.child[f] THEN r
              ELSE [r EXCEPT !.kids[f] = MoveRel(r.kids[f], r.child[f], off)]
      <3> HIDE DEF r
      <3> QED BY <2>1, <2>2, Zenon DEF GP!MoveChildRel
    <2>4. r.kids = s.kids /\ r.child = s.child
      BY TreeFields
    <2> HIDE DEF r, x
    <2> QED BY <2>3, <2>4, Zenon
  <1> HIDE DEF m, b
  <1>4. ~ b => Stays(s, u) /\ SameLists(s, u) /\ TreeOf(u) = x
    <2>1. Stays(s, u) /\ SameLists(s, u) /\ u.kids = [s.kids EXCEPT ![f] = m]
          /\ u.child = s.child /\ u.parent = s.parent
      BY RightIs DEF Formed, Fields, Stays, SameLists
    <2> HIDE DEF u
    <2>2. TreeOf(u) = [r EXCEPT !.kids[f] = m]
      BY <2>1 DEF TreeOf
    <2> QED BY <1>3, <2>1, <2>2
  <1>5. GP!Good(r) /\ GP!Exists(r, f)
    BY <1>2 DEF Right, LiveIn, GP!Exists, Exists, TreeOf
  <1> HIDE DEF u, r, x
  <1>6. GP!Good(x) /\ \A g \in Frames : x.kids[g] # <<>> <=> r.kids[g] # <<>>
    <2>1. off \in Int
      OBVIOUS
    <2>2. GP!Reordered(r, x)
      BY <1>5, <2>1, TabsAssumption, GP!ReorderGood DEF x
    <2> QED BY <2>2 DEF GP!Reordered
  <1>7. ~ b => Formed(u) /\ LiveIn(u) = LiveIn(s)
    <2> SUFFICES ASSUME ~ b PROVE Formed(u) /\ LiveIn(u) = LiveIn(s)
      OBVIOUS
    <2>1. Formed(u)
      BY <1>4, <1>6, RightIs, MovedForm DEF GP!Good
    <2>2. x.kids = u.kids /\ r.kids = s.kids
      BY <1>4, TreeFields DEF r
    <2> QED BY <1>6, <2>1, <2>2 DEF LiveIn, Exists
  <1>8. ~ b => Becomes(s, u, x)
    BY <1>4, <1>6, <1>7, KeepsListed DEF Becomes, Right
  <1>9. b => Becomes(s, s, x)
    <2>1. Becomes(s, s, TreeOf(s))
      BY Refocused
    <2> QED BY <1>3, <2>1 DEF r
  <1> QED BY <1>1, <1>8, <1>9 DEF x, r

(* A program takes its window away: from now on its event is on the way.   *)
LEMMA WithdrawGoes ==
    ASSUME NEW c \in Clients, Right(s), Withdraw(c)
    PROVE  /\ Right(s') /\ TreeOf(s') = TreeOf(s) /\ s'.transient = s.transient
           /\ s'.gone = s.gone \cup {c}
           /\ \A d \in Clients : Count(s'.queue, Withdrawn(d)) =
                                 Count(Append(s.queue, Withdrawn(c)), Withdrawn(d))
  <1> DEFINE t == Post(s, Withdrawn(c))
             u == IF s.cmapped[c] THEN XUnmapWindow(t, c) ELSE t
             v == [u EXCEPT !.gone = @ \cup {c}]
  <1>1. s' = v
    BY DEF Withdraw
  <1>2. /\ Formed(t) /\ SameTree(s, t) /\ SameLists(s, t) /\ t.transient = s.transient
        /\ t.gone = s.gone /\ t.queue = Append(s.queue, Withdrawn(c))
    <2>1. Append(s.queue, Withdrawn(c)) \in Seq(Events)
      BY EventTypes, RightIs DEF Formed
    <2> QED BY <2>1, RightIs DEF Formed, Fields, SameTree, SameLists, Post
  <1> HIDE DEF t
  <1>3. Keeps(t, u) /\ Formed(u)
    BY <1>2, XUnmapWindowKeeps, KeepsItself, KeepsForm
  <1> HIDE DEF u
  <1>4. /\ Formed(v) /\ SameTree(u, v) /\ SameLists(u, v) /\ v.transient = u.transient
        /\ v.gone = u.gone \cup {c} /\ v.queue = u.queue
    BY <1>3 DEF Formed, Fields, SameTree, SameLists
  <1> HIDE DEF v
  <1>5. SameTree(s, v) /\ SameLists(s, v)
    BY <1>2, <1>3, <1>4 DEF Keeps, SameTree, SameLists
  <1>6. TreeOf(v) = TreeOf(s) /\ Listed(v)
    BY <1>5, KeepsListed, SameLive DEF SameTree, TreeOf, Right
  <1>7. Right(v)
    BY <1>4, <1>6 DEF Right
  <1> QED BY <1>1, <1>2, <1>3, <1>4, <1>6, <1>7 DEF Keeps, Stays


----------------------------------------------------------------------------
(* The invariant.  The event of a window its program has withdrawn is on   *)
(* the way once, for as long as the window is managed: deleting a client   *)
(* that is not managed, or twice, would change the grouping in ways        *)
(* FrameTree does not allow.                                               *)
Leaving(t) ==
    /\ \A c \in t.gone : c \in Clients /\ IsManaged(t, c)
    /\ \A c \in Clients : Count(t.queue, Withdrawn(c)) = IF c \in t.gone THEN 1 ELSE 0

WmInv(t) == Right(t) /\ t.transient \in [Clients -> Clients \cup {None}] /\ Leaving(t)

Grows(t, u) == \A c \in Clients : IsManaged(t, c) => IsManaged(u, c)

LEMMA GoesInv ==
    ASSUME NEW t, NEW u, WmInv(t), Goes(t, u, TreeOf(u)), Grows(t, u)
    PROVE  WmInv(u)
  BY DEF WmInv, Goes, Leaving, Grows

LEMMA BecomesInv ==
    ASSUME NEW t, NEW u, NEW r, WmInv(t), Becomes(t, u, r), Grows(t, u)
    PROVE  WmInv(u)
  <1>1. Goes(t, u, TreeOf(u))
    BY BecomesGoes DEF WmInv, Becomes
  <1> QED BY <1>1, GoesInv

LEMMA SameParents ==
    ASSUME NEW t, NEW u, u.parent = t.parent
    PROVE  Grows(t, u)
  BY DEF Grows, IsManaged

(* A step of the grouping, or none. *)
TreeStep == GP!Next \/ TreeOf(s') = TreeOf(s)

LEMMA TreeNames ==
    /\ GP!Managed = {c \in Clients : IsManaged(s, c)} /\ GP!Live = LiveIn(s)
  BY DEF GP!Managed, IsManaged, GP!Live, LiveIn, GP!Exists, Exists

LEMMA QuietStep ==
    ASSUME WmInv(s), Becomes(s, s', TreeOf(s))
    PROVE  WmInv(s') /\ TreeStep
  <1>1. TreeOf(s') = TreeOf(s)
    BY DEF Becomes
  <1>2. s'.parent = s.parent
    BY <1>1, TreeFields
  <1> QED BY <1>1, <1>2, SameParents, BecomesInv DEF TreeStep

LEMMA FrontsStep ==
    ASSUME NEW c \in Clients, IsManaged(s, c), WmInv(s), Fronts(s, s', c)
    PROVE  WmInv(s') /\ TreeStep
  <1>1. CASE Becomes(s, s', TreeOf(s))
    BY <1>1, QuietStep
  <1>2. CASE Becomes(s, s', GP!PutInFront(TreeOf(s), s.parent[c], c))
    <2>1. TreeOf(s') = GP!PutInFront(TreeOf(s), s.parent[c], c)
      BY <1>2 DEF Becomes
    <2>2. s'.parent = s.parent
      BY <2>1, FrontLive
    <2>3. GP!Activate(c)
      BY <2>1, TreeNames DEF GP!Activate, TreeOf
    <2>4. GP!Next
      BY <2>3 DEF GP!Next
    <2> QED BY <1>2, <2>2, <2>4, SameParents, BecomesInv DEF TreeStep
  <1> QED BY <1>1, <1>2 DEF Fronts

(* The parents when a client is put in a frame. *)
PutInto(r, y, f, c) ==
    \/ y = GP!AddChild(r, f, c) \/ y = GP!NewFrame(r, f, c)
    \/ y = GP!PutInFront(GP!AddChild(r, f, c), f, c)
OthersSit(t, r, c) == GP!IsTabs(r) /\ \A d \in Clients \ {c} : t.parent[d] = r.parent[d]

LEMMA PutIntoFrame ==
    ASSUME NEW t, NEW r, NEW c \in Clients, NEW f \in Frames, NEW u,
           OthersSit(t, r, c), PutInto(r, TreeOf(u), f, c)
    PROVE  Grows(t, u)
  <1> DEFINE x == GP!AddChild(r, f, c)
             y == GP!PutInFront(x, f, c)
  <1>1. /\ r \in [kids : [Frames -> Seq(Clients)], child : [Frames -> Clients \cup {None}],
                  parent : [Clients -> Frames \cup {None}]]
    BY DEF OthersSit, GP!IsTabs
  <1>2. x.parent = [r.parent EXCEPT ![c] = f] /\ DOMAIN x = {"kids", "child", "parent"}
    BY <1>1 DEF GP!AddChild
  <1>3. GP!NewFrame(r, f, c) = y
    BY DEF GP!NewFrame
  <1> HIDE DEF x
  <1>4. y.parent = x.parent
    BY <1>2 DEF GP!PutInFront
  <1> HIDE DEF y
  <1>5. TreeOf(u).parent = [r.parent EXCEPT ![c] = f]
    BY <1>2, <1>3, <1>4 DEF PutInto, x, y
  <1>6. u.parent = [r.parent EXCEPT ![c] = f]
    BY <1>5, TreeFields
  <1>7. \A d \in Clients : u.parent[d] = IF d = c THEN f ELSE r.parent[d]
    BY <1>1, <1>6
  <1> QED BY <1>7, TabsAssumption DEF OthersSit, Grows, IsManaged

LEMMA MapNewStep ==
    ASSUME NEW c \in Clients, WmInv(s), MapNew(c)
    PROVE  WmInv(s') /\ TreeStep
  <1>1. PICK f \in Frames, place \in {"new", "front", "behind"}, icon \in BOOLEAN,
             focus \in BOOLEAN, same \in BOOLEAN :
               /\ c \notin Managed /\ (place = "new" <=> f \notin Live)
               /\ s' = Manage(s, c, f, place, icon, focus, same)
    BY DEF MapNew
  <1>2. ~ IsManaged(s, c) /\ (place = "new" <=> f \notin LiveIn(s))
    BY <1>1 DEF Managed, Live, LiveIn
  <1>3. Goes(s, s', TreeOf(s')) /\ Placed(TreeOf(s), TreeOf(s'), f, c, place)
    BY <1>1, <1>2, ManageGoes DEF WmInv
  <1>4. GP!IsTabs(TreeOf(s)) /\ TreeOf(s).parent = s.parent
    BY TreeFields DEF WmInv, Right, GP!Good, GP!Sound
  <1>5. PutInto(TreeOf(s), TreeOf(s'), f, c) /\ OthersSit(s, TreeOf(s), c)
    BY <1>3, <1>4 DEF Placed, PutInto, OthersSit
  <1>6. Grows(s, s')
    BY <1>5, PutIntoFrame
  <1>7. GP!Open(c, f) \/ GP!Join(c, f)
    <2>1. c \notin GP!Managed /\ (place = "new" <=> f \notin GP!Live)
      BY <1>2, TreeNames
    <2> QED BY <1>3, <2>1 DEF GP!Open, GP!Join, Placed, TreeOf
  <1>8. GP!Next
    BY <1>7 DEF GP!Next
  <1> QED BY <1>3, <1>6, <1>8, GoesInv DEF TreeStep

LEMMA MovedStep ==
    ASSUME NEW c \in Clients, NEW f \in Frames, WmInv(s), IsManaged(s, c),
           Detach(c, f) \/ AttachMarked(c, f) \/ AttachClient(c, f)
    PROVE  WmInv(s') /\ TreeStep
  <1> DEFINE r == GP!RemoveChild(TreeOf(s), c)
  <1>1. \/ Becomes(s, s', GP!NewFrame(r, f, c)) /\ Detach(c, f)
        \/ Becomes(s, s', GP!AddChild(r, f, c)) /\ AttachMarked(c, f)
        \/ Becomes(s, s', GP!PutInFront(GP!AddChild(r, f, c), f, c)) /\ AttachClient(c, f)
    BY DetachBecomes, AttachMarkedBecomes, AttachClientBecomes DEF WmInv
  <1>2. GP!IsTabs(r) /\ r.parent = [s.parent EXCEPT ![c] = None]
    <2> DEFINE x == TreeOf(s)
               g == s.parent[c]
    <2>1. GP!Good(x) /\ g \in Frames /\ x.parent[c] = g
      BY RightIs DEF WmInv, Right, TreeOf, LiveIn
    <2> HIDE DEF x, g
    <2>2. GP!Removed(x, GP!RemoveChild(x, c), g, c)
      BY <2>1, TabsAssumption, GP!RemoveGood
    <2>3. x.parent = s.parent
      BY TreeFields DEF x
    <2> QED BY <2>2, <2>3 DEF GP!Removed, GP!Good, GP!Sound, x
  <1>3. \/ TreeOf(s') = GP!NewFrame(r, f, c) /\ Detach(c, f)
        \/ TreeOf(s') = GP!AddChild(r, f, c) /\ AttachMarked(c, f)
        \/ TreeOf(s') = GP!PutInFront(GP!AddChild(r, f, c), f, c) /\ AttachClient(c, f)
    BY <1>1 DEF Becomes
  <1>4. \A d \in Clients \ {c} : s.parent[d] = r.parent[d]
    BY <1>2, RightIs DEF WmInv
  <1>5. c \in GP!Managed
    BY TreeNames
  <1>6. ASSUME Detach(c, f), TreeOf(s') = GP!NewFrame(r, f, c) PROVE GP!Detach(c, f)
    <2>1. f \notin GP!Live /\ Len(s.kids[s.parent[c]]) > 1
      BY <1>6, TreeNames DEF Detach, Live, LiveIn
    <2> QED BY <1>5, <1>6, <2>1 DEF GP!Detach, TreeOf
  <1>7. ASSUME \/ AttachMarked(c, f) /\ TreeOf(s') = GP!AddChild(r, f, c)
               \/ AttachClient(c, f) /\ TreeOf(s') = GP!PutInFront(GP!AddChild(r, f, c), f, c)
        PROVE  GP!Attach(c, f)
    <2>1. f \in GP!Live \ {s.parent[c]}
      BY <1>7, TreeNames DEF AttachMarked, AttachClient, Live, LiveIn
    <2> QED BY <1>5, <1>7, <2>1 DEF GP!Attach, TreeOf
  <1>8. TreeStep
    BY <1>3, <1>6, <1>7 DEF TreeStep, GP!Next
  <1> HIDE DEF r
  <1>9. Grows(s, s')
    <2>1. PutInto(r, TreeOf(s'), f, c) /\ OthersSit(s, r, c)
      BY <1>2, <1>3, <1>4 DEF PutInto, OthersSit
    <2> QED BY <2>1, PutIntoFrame
  <1>10. WmInv(s')
    BY <1>1, <1>9, BecomesInv
  <1> QED BY <1>8, <1>10

LEMMA AttachFrameStep ==
    ASSUME NEW f \in Frames, NEW g \in Frames, WmInv(s), AttachFrame(g, f)
    PROVE  WmInv(s') /\ TreeStep
  <1>1. Becomes(s, s', GP!AddDecor(TreeOf(s), f, g))
    BY AttachFrameBecomes DEF WmInv
  <1>2. f \in GP!Live /\ g \in GP!Live \ {f}
    BY TreeNames DEF AttachFrame, Live, LiveIn
  <1>3. GP!Merge(f, g)
    BY <1>1, <1>2 DEF GP!Merge, TreeOf, Becomes
  <1>4. GP!Next
    BY <1>3 DEF GP!Next
  <1>5. Grows(s, s')
    <2> DEFINE p == [c \in Clients |-> IF s.parent[c] = g THEN f ELSE s.parent[c]]
               q == s.kids[f] \o s.kids[g]
               e == <<>>
               r == TreeOf(s)
               y == [r EXCEPT !.kids[f] = q, !.kids[g] = e, !.child[g] = None]
    <2>1. GP!AddDecor(r, f, g) = [y EXCEPT !.parent = p]
      BY TreeFields DEF GP!AddDecor
    <2>2. DOMAIN y = {"kids", "child", "parent"}
      <3> HIDE DEF q, e
      <3> QED BY DEF TreeOf
    <2> HIDE DEF y, p
    <2>3. TreeOf(s').parent = p
      BY <1>1, <2>1, <2>2 DEF Becomes
    <2>4. s'.parent = p
      BY <2>3, TreeFields
    <2> QED BY <2>4, TabsAssumption DEF p, Grows, IsManaged
  <1> QED BY <1>1, <1>4, <1>5, BecomesInv DEF TreeStep

LEMMA MoveTabStep ==
    ASSUME NEW f \in Frames, NEW off \in {-1, 1}, WmInv(s), MoveTab(f, off)
    PROVE  WmInv(s') /\ TreeStep
  <1>1. Becomes(s, s', GP!MoveChildRel(TreeOf(s), f, off))
    BY MoveTabBecomes DEF WmInv
  <1>2. f \in GP!Live
    BY TreeNames DEF MoveTab, Live, LiveIn
  <1>3. GP!Reorder(f, off)
    BY <1>1, <1>2 DEF GP!Reorder, TreeOf, Becomes
  <1>4. GP!Next
    BY <1>3 DEF GP!Next
  <1>5. TreeOf(s').parent = TreeOf(s).parent
    <2> DEFINE r == TreeOf(s)
               m == GP!MoveRel(r.kids[f], r.child[f], off)
    <2>1. GP!MoveChildRel(r, f, off) \in {r, [r EXCEPT !.kids[f] = m]}
      BY DEF GP!MoveChildRel
    <2> HIDE DEF m
    <2>2. [r EXCEPT !.kids[f] = m].parent = r.parent
      BY DEF TreeOf
    <2> QED BY <1>1, <2>1, <2>2 DEF Becomes
  <1>6. Grows(s, s')
    BY <1>5, TreeFields, SameParents
  <1> QED BY <1>1, <1>4, <1>6, BecomesInv DEF TreeStep

LEMMA WithdrawStep ==
    ASSUME NEW c \in Clients, WmInv(s), Withdraw(c)
    PROVE  WmInv(s') /\ TreeStep
  <1>1. /\ Right(s') /\ TreeOf(s') = TreeOf(s) /\ s'.transient = s.transient
        /\ s'.gone = s.gone \cup {c}
        /\ \A d \in Clients : Count(s'.queue, Withdrawn(d)) =
                              Count(Append(s.queue, Withdrawn(c)), Withdrawn(d))
    BY WithdrawGoes DEF WmInv
  <1>2. IsManaged(s, c) /\ c \notin s.gone /\ s'.parent = s.parent
    BY <1>1, TreeFields DEF Withdraw, Managed
  <1>3. \A d \in Clients : Count(s'.queue, Withdrawn(d)) = IF d \in s'.gone THEN 1 ELSE 0
    <2>1. SUFFICES ASSUME NEW d \in Clients
                   PROVE  Count(s'.queue, Withdrawn(d)) = IF d \in s'.gone THEN 1 ELSE 0
      OBVIOUS
    <2>2. s.queue \in Seq(Events) /\ Withdrawn(c) \in Events
      BY EventTypes DEF WmInv, Right, Formed
    <2>3. Count(Append(s.queue, Withdrawn(c)), Withdrawn(d)) =
            IF Withdrawn(c) = Withdrawn(d) THEN Count(s.queue, Withdrawn(d)) + 1
            ELSE Count(s.queue, Withdrawn(d))
      BY <2>2, CountAppend
    <2>4. Withdrawn(c) = Withdrawn(d) <=> c = d
      BY DEF Withdrawn
    <2>5. Count(s.queue, Withdrawn(d)) = IF d \in s.gone THEN 1 ELSE 0
      BY DEF WmInv, Leaving
    <2>6. CASE d = c
      BY <1>1, <1>2, <2>3, <2>4, <2>5, <2>6
    <2>7. CASE d # c
      BY <1>1, <2>3, <2>4, <2>5, <2>7
    <2> QED BY <2>6, <2>7
  <1>4. \A d \in s'.gone : d \in Clients /\ IsManaged(s', d)
    BY <1>1, <1>2 DEF WmInv, Leaving, IsManaged
  <1> QED BY <1>1, <1>3, <1>4 DEF WmInv, Leaving, TreeStep


(* The event loop takes the first event, *)
LEMMA EventTaken ==
    ASSUME WmInv(s), s.queue # <<>>
    PROVE  LET t == [s EXCEPT !.queue = Tail(@)]
           IN  /\ Right(t) /\ TreeOf(t) = TreeOf(s) /\ t.transient = s.transient /\ t.gone = s.gone
               /\ Head(s.queue) \in Events
               /\ \A c \in Clients : Count(s.queue, Withdrawn(c)) =
                    IF Head(s.queue) = Withdrawn(c) THEN Count(t.queue, Withdrawn(c)) + 1
                    ELSE Count(t.queue, Withdrawn(c))
  <1> DEFINE t == [s EXCEPT !.queue = Tail(@)]
  <1>1. Right(s) /\ s.queue \in Seq(Events)
    BY DEF WmInv, Right, Formed
  <1>2. Head(s.queue) \in Events /\ Tail(s.queue) \in Seq(Events)
    BY <1>1, TailElements
  <1>3. /\ Formed(t) /\ SameTree(s, t) /\ SameLists(s, t) /\ t.queue = Tail(s.queue)
        /\ t.transient = s.transient /\ t.gone = s.gone
    BY <1>1, <1>2 DEF Right, Formed, Fields, SameTree, SameLists
  <1> HIDE DEF t
  <1>4. TreeOf(t) = TreeOf(s) /\ Listed(t)
    BY <1>1, <1>3, KeepsListed, SameLive DEF SameTree, TreeOf, Right
  <1>5. \A c \in Clients : Count(s.queue, Withdrawn(c)) =
          IF Head(s.queue) = Withdrawn(c) THEN Count(Tail(s.queue), Withdrawn(c)) + 1
          ELSE Count(Tail(s.queue), Withdrawn(c))
    BY <1>1, CountTail
  <1> QED BY <1>1, <1>2, <1>3, <1>4, <1>5 DEF Right, t

(* and handles it. *)
LEMMA EventStep ==
    ASSUME WmInv(s), HandleEvent
    PROVE  WmInv(s') /\ TreeStep
  <1> DEFINE t == [s EXCEPT !.queue = Tail(@)]
             e == Head(s.queue)
             w == e.window
  <1>1. /\ s' = Handled(t, e) /\ e \in Events
        /\ Right(t) /\ TreeOf(t) = TreeOf(s) /\ t.transient = s.transient /\ t.gone = s.gone
        /\ \A c \in Clients : Count(s.queue, Withdrawn(c)) =
             IF e = Withdrawn(c) THEN Count(t.queue, Withdrawn(c)) + 1
             ELSE Count(t.queue, Withdrawn(c))
    BY EventTaken DEF HandleEvent
  <1> HIDE DEF t, e
  <1>2. t.transient \in [Clients -> Clients \cup {None}] /\ t.parent = s.parent
    BY <1>1, TreeFields DEF WmInv
  <1>3. \A c \in Clients : IsManaged(t, c) <=> IsManaged(s, c)
    BY <1>2 DEF IsManaged
  <1>4. \A c \in Clients : Count(s.queue, Withdrawn(c)) = IF c \in s.gone THEN 1 ELSE 0
    BY DEF WmInv, Leaving
  <1>5. \A c \in Clients : Count(t.queue, Withdrawn(c)) \in Nat
    BY <1>1, CountNat DEF Right, Formed
  <1>6. CASE e.type # "Withdrawn"
    <2>1. \A c \in Clients : e # Withdrawn(c)
      BY <1>6, EventTypes
    <2>2. WmInv(t)
      BY <1>1, <1>2, <1>3, <1>4, <2>1 DEF WmInv, Leaving
    <2>3. Becomes(t, s', TreeOf(t))
      <3>1. (e.type = "FocusIn" /\ w \in Clients \cup {Root}) \/ e.type = "Unmapped"
        BY <1>1, <1>6 DEF Events
      <3>2. CASE e.type = "FocusIn" /\ w \in Clients \cup {Root}
        <4>1. s' = HandleFocusIn(t, w)
          BY <1>1, <3>2 DEF Handled
        <4> QED BY <1>1, <3>2, <4>1, FocusInBecomes
      <3>3. CASE e.type = "Unmapped"
        <4>1. s' = HandleUnmapped(t, w)
          BY <1>1, <3>3 DEF Handled
        <4> QED BY <1>1, <4>1, UnmappedBecomes
      <3> QED BY <3>1, <3>2, <3>3
    <2>4. TreeOf(s') = TreeOf(t)
      BY <2>3 DEF Becomes
    <2>5. s'.parent = t.parent
      BY <2>4, TreeFields
    <2>6. WmInv(s')
      BY <2>2, <2>3, <2>5, SameParents, BecomesInv
    <2> QED BY <1>1, <2>4, <2>6 DEF TreeStep
  <1>7. CASE e.type = "Withdrawn"
    <2>1. w \in Clients /\ e = Withdrawn(w) /\ s' = HandleWithdrawn(t, w)
      <3>1. w \in Clients /\ e = [type |-> "Withdrawn", window |-> w]
        BY <1>1, <1>7 DEF Events
      <3> QED BY <1>1, <1>7, <3>1 DEF Withdrawn, Handled
    <2> HIDE DEF w
    <2>2. w \in s.gone /\ IsManaged(s, w) /\ Count(t.queue, Withdrawn(w)) = 0
      <3>1. w \in s.gone /\ Count(t.queue, Withdrawn(w)) = 0
        BY <1>1, <1>4, <1>5, <2>1
      <3> QED BY <3>1 DEF WmInv, Leaving
    <2>3. Deleted(t, s', w)
      BY <1>1, <1>2, <1>3, <2>1, <2>2, WithdrawnDone
    <2>4. TreeOf(s') = GP!RemoveChild(TreeOf(t), w)
      BY <2>3 DEF Deleted
    <2>5. \A c \in Clients \ {w} : IsManaged(s, c) => IsManaged(s', c)
      <3>1. s'.parent = [t.parent EXCEPT ![w] = None]
        BY <1>1, <1>3, <2>1, <2>2, <2>4, AfterRemoval
      <3>2. t.parent \in [Clients -> Frames \cup {None}]
        BY <1>1, RightIs
      <3> QED BY <1>2, <3>1, <3>2 DEF IsManaged
    <2>6. s'.gone = s.gone \ {w}
      BY <1>1, <2>3 DEF Deleted
    <2>7. \A c \in Clients : Count(s'.queue, Withdrawn(c)) = IF c \in s'.gone THEN 1 ELSE 0
      <3>1. SUFFICES ASSUME NEW c \in Clients
                     PROVE  Count(s'.queue, Withdrawn(c)) = IF c \in s'.gone THEN 1 ELSE 0
        OBVIOUS
      <3>2. Count(s'.queue, Withdrawn(c)) = Count(t.queue, Withdrawn(c))
        BY <2>3 DEF Deleted
      <3>3. CASE c = w
        BY <2>2, <2>6, <3>2, <3>3
      <3>4. CASE c # w
        <4>1. e # Withdrawn(c)
          BY <2>1, <3>4 DEF Withdrawn
        <4> QED BY <1>1, <1>4, <2>6, <3>2, <3>4, <4>1
      <3> QED BY <3>3, <3>4
    <2>8. \A c \in s'.gone : c \in Clients /\ IsManaged(s', c)
      BY <2>5, <2>6 DEF WmInv, Leaving
    <2>9. WmInv(s')
      BY <2>3, <2>7, <2>8 DEF WmInv, Leaving, Deleted
    <2>10. GP!Close(w)
      <3>1. w \in GP!Managed
        BY <2>1, <2>2, TreeNames
      <3> QED BY <1>1, <2>4, <3>1 DEF GP!Close, TreeOf
    <2>11. GP!Next
      BY <2>1, <2>10 DEF GP!Next
    <2> QED BY <2>9, <2>11 DEF TreeStep
  <1> QED BY <1>6, <1>7

LEMMA InitInv == Init => WmInv(s) /\ GP!Init
  <1> SUFFICES ASSUME Init PROVE WmInv(s) /\ GP!Init
    OBVIOUS
  <1>1. GP!Init
    BY DEF Init, GP!Init
  <1>2. GP!Good(TreeOf(s))
    BY <1>1, TabsAssumption, GP!InitGood DEF TreeOf
  <1>3. DOMAIN s = Fields
    BY DEF Init, Fields
  <1>4. /\ s.kids = [f \in Frames |-> <<>>] /\ s.queue = <<>> /\ s.wolist = <<>> /\ s.mru = <<>>
        /\ s.gone = {} /\ s.transient = [c \in Clients |-> None]
    BY DEF Init
  <1>5. Formed(s)
    BY <1>3, <1>4 DEF Formed
  <1>6. <<>> \in Seq(Frames) /\ ToSet(<<>>) = {} /\ IsInjective(<<>>)
    <2>1. DOMAIN <<>> = {} /\ <<>> \in Seq(Frames)
      BY EmptySeq, LenProperties
    <2> QED BY <2>1 DEF ToSet, IsInjective
  <1>7. LiveIn(s) = {}
    BY <1>4 DEF LiveIn, Exists
  <1>8. Listed(s)
    BY <1>4, <1>6, <1>7 DEF Listed, Lists
  <1>9. Leaving(s)
    <2>1. SUFFICES ASSUME NEW c \in Clients PROVE Count(<<>>, Withdrawn(c)) = 0
      BY <1>4 DEF Leaving
    <2>2. <<>> \in Seq(Events) /\ Withdrawn(c) \notin ToSet(<<>>)
      BY <1>5, <1>4, <1>6 DEF Formed
    <2> QED BY <2>2, CountNat
  <1> QED BY <1>1, <1>2, <1>4, <1>5, <1>8, <1>9 DEF WmInv, Right

LEMMA RequestStep ==
    ASSUME WmInv(s), Request
    PROVE  WmInv(s') /\ TreeStep
  <1> USE DEF WmInv
  <1>1. ASSUME NEW c \in Clients, MapNew(c) PROVE WmInv(s') /\ TreeStep
    BY <1>1, MapNewStep
  <1>2. ASSUME NEW c \in Clients, Withdraw(c) PROVE WmInv(s') /\ TreeStep
    BY <1>2, WithdrawStep
  <1>3. ASSUME NEW c \in Clients, Activate(c) \/ GotoClient(c) \/ Click(c)
        PROVE  WmInv(s') /\ TreeStep
    <2>1. IsManaged(s, c)
      BY <1>3 DEF Activate, GotoClient, Click, Managed
    <2>2. Fronts(s, s', c)
      BY <1>3, ActivateFronts, GotoClientFronts, ClickFronts
    <2> QED BY <2>1, <2>2, FrontsStep
  <1>4. ASSUME NEW c \in Clients, NEW f \in Frames,
               Detach(c, f) \/ AttachMarked(c, f) \/ AttachClient(c, f)
        PROVE  WmInv(s') /\ TreeStep
    <2>1. IsManaged(s, c)
      BY <1>4 DEF Detach, AttachMarked, AttachClient, Managed
    <2> QED BY <1>4, <2>1, MovedStep
  <1>5. ASSUME NEW f \in Frames, NEW g \in Frames, AttachFrame(g, f) PROVE WmInv(s') /\ TreeStep
    BY <1>5, AttachFrameStep
  <1>6. ASSUME NEW f \in Frames, NEW off \in {-1, 1}, MoveTab(f, off) PROVE WmInv(s') /\ TreeStep
    BY <1>6, MoveTabStep
  <1>7. ASSUME \/ \E c \in Clients : MapAgain(c)
               \/ \E f \in Frames : \/ Iconify(f) \/ Restore(f) \/ Stick(f)
                                    \/ \E raise \in BOOLEAN : FocusToggle(f, raise)
                                    \/ \E n \in Workspaces : SendTo(f, n)
               \/ \E n \in Workspaces : Goto(n) \/ Resize(n + 1)
        PROVE  WmInv(s') /\ TreeStep
    BY <1>7, QuietRequests, QuietStep
  <1> HIDE DEF WmInv
  <1> QED BY <1>1, <1>2, <1>3, <1>4, <1>5, <1>6, <1>7 DEF Request


Inv == WmInv(s)

LEMMA Inductive == Inv /\ [Next]_s => Inv' /\ (GP!Next \/ TreeOf(s)' = TreeOf(s))
  <1> SUFFICES ASSUME WmInv(s), [Next]_s
               PROVE  WmInv(s') /\ TreeStep
    BY DEF Inv, TreeStep, TreeOf
  <1>1. CASE UNCHANGED s
    BY <1>1 DEF TreeStep
  <1>2. CASE Next
    BY <1>2, EventStep, RequestStep DEF Next
  <1> QED BY <1>1, <1>2

(* The two instances of FrameTree, with its proofs and without, are one.   *)
LEMMA OperationsSame ==
    /\ \A t, f, c : /\ GP!AddChild(t, f, c) = Grouping!AddChild(t, f, c)
                    /\ GP!PutInFront(t, f, c) = Grouping!PutInFront(t, f, c)
                    /\ GP!NewFrame(t, f, c) = Grouping!NewFrame(t, f, c)
                    /\ GP!AddDecor(t, f, c) = Grouping!AddDecor(t, f, c)
                    /\ GP!MoveChildRel(t, f, c) = Grouping!MoveChildRel(t, f, c)
    /\ \A t, c : GP!RemoveChild(t, c) = Grouping!RemoveChild(t, c)
    /\ GP!Managed = Grouping!Managed /\ GP!Live = Grouping!Live
  <1>1. /\ \A k, d : GP!Position(k, d) = Grouping!Position(k, d)
        /\ \A k, i : GP!RemoveAt(k, i) = Grouping!RemoveAt(k, i)
        /\ \A k, i : GP!Neighbour(k, i) = Grouping!Neighbour(k, i)
        /\ \A k, i, d : GP!InsertAt(k, i, d) = Grouping!InsertAt(k, i, d)
        /\ \A t, f : GP!Exists(t, f) <=> Grouping!Exists(t, f)
    BY Zenon DEF GP!Position, Grouping!Position, GP!RemoveAt, Grouping!RemoveAt, GP!Neighbour,
       Grouping!Neighbour, GP!InsertAt, Grouping!InsertAt, GP!Exists, Grouping!Exists
  <1>2. \A t, f, c : /\ GP!AddChild(t, f, c) = Grouping!AddChild(t, f, c)
                    /\ GP!PutInFront(t, f, c) = Grouping!PutInFront(t, f, c)
                    /\ GP!AddDecor(t, f, c) = Grouping!AddDecor(t, f, c)
    <2>1. \A t, f, c : /\ GP!AddChild(t, f, c) = Grouping!AddChild(t, f, c)
                      /\ GP!PutInFront(t, f, c) = Grouping!PutInFront(t, f, c)
      BY Zenon DEF GP!AddChild, Grouping!AddChild, GP!PutInFront, Grouping!PutInFront
    <2>2. SUFFICES ASSUME NEW t, NEW f, NEW g PROVE GP!AddDecor(t, f, g) = Grouping!AddDecor(t, f, g)
      BY <2>1, Zenon
    <2> QED BY DEF GP!AddDecor, Grouping!AddDecor
  <1>3. \A t, f, c : GP!NewFrame(t, f, c) = Grouping!NewFrame(t, f, c)
    BY <1>2, Zenon DEF GP!NewFrame, Grouping!NewFrame
  <1>4. \A t, c : GP!DropChild(t, c) = Grouping!DropChild(t, c)
    <2>1. SUFFICES ASSUME NEW t, NEW c PROVE GP!DropChild(t, c) = Grouping!DropChild(t, c)
      OBVIOUS
    <2>2. GP!RemoveAt(t.kids[t.parent[c]], GP!Position(t.kids[t.parent[c]], c)) =
            Grouping!RemoveAt(t.kids[t.parent[c]], Grouping!Position(t.kids[t.parent[c]], c))
      BY <1>1
    <2> QED BY <2>2, Zenon DEF GP!DropChild, Grouping!DropChild
  <1>5. \A t, c : GP!RemoveChild(t, c) = Grouping!RemoveChild(t, c)
    <2>1. SUFFICES ASSUME NEW t, NEW c PROVE GP!RemoveChild(t, c) = Grouping!RemoveChild(t, c)
      OBVIOUS
    <2>2. GP!Neighbour(t.kids[t.parent[c]], GP!Position(t.kids[t.parent[c]], c)) =
            Grouping!Neighbour(t.kids[t.parent[c]], Grouping!Position(t.kids[t.parent[c]], c))
      BY <1>1
    <2> QED BY <1>2, <1>4, <2>2, Zenon DEF GP!RemoveChild, Grouping!RemoveChild
  <1>6. \A k, d, i : GP!ChildRel(k, d, i) = Grouping!ChildRel(k, d, i)
    BY <1>1, Zenon DEF GP!ChildRel, Grouping!ChildRel
  <1>7. \A k, d, i : GP!MoveRel(k, d, i) = Grouping!MoveRel(k, d, i)
    <2>1. SUFFICES ASSUME NEW k, NEW d, NEW i PROVE GP!MoveRel(k, d, i) = Grouping!MoveRel(k, d, i)
      OBVIOUS
    <2>2. /\ GP!ChildRel(k, d, i) = Grouping!ChildRel(k, d, i)
          /\ GP!RemoveAt(k, GP!Position(k, d)) = Grouping!RemoveAt(k, Grouping!Position(k, d))
      BY <1>1, <1>6
    <2> QED BY <1>1, <2>2, Zenon DEF GP!MoveRel, Grouping!MoveRel
  <1>8. \A t, f, i : GP!MoveChildRel(t, f, i) = Grouping!MoveChildRel(t, f, i)
    BY <1>6, <1>7, Zenon DEF GP!MoveChildRel, Grouping!MoveChildRel
  <1>9. GP!Managed = Grouping!Managed /\ GP!Live = Grouping!Live
    BY <1>1, Zenon DEF GP!Managed, Grouping!Managed, GP!Live, Grouping!Live
  <1> QED BY <1>2, <1>3, <1>5, <1>8, <1>9

LEMMA NextSame == GP!Next => Grouping!Next
  <1>1. \A c \in Clients : /\ GP!Close(c) => Grouping!Close(c)
                           /\ GP!Activate(c) => Grouping!Activate(c)
    BY OperationsSame, Zenon DEF GP!Close, Grouping!Close, GP!Activate, Grouping!Activate
  <1>2. \A c \in Clients, f \in Frames : /\ GP!Open(c, f) => Grouping!Open(c, f)
                                         /\ GP!Join(c, f) => Grouping!Join(c, f)
    BY OperationsSame, Zenon DEF GP!Open, Grouping!Open, GP!Join, Grouping!Join
  <1>3. \A c \in Clients, f \in Frames : /\ GP!Detach(c, f) => Grouping!Detach(c, f)
                                         /\ GP!Attach(c, f) => Grouping!Attach(c, f)
    BY OperationsSame, Zenon DEF GP!Detach, Grouping!Detach, GP!Attach, Grouping!Attach
  <1>4. \A f, g \in Frames : GP!Merge(f, g) => Grouping!Merge(f, g)
    BY OperationsSame, Zenon DEF GP!Merge, Grouping!Merge
  <1>5. \A f \in Frames, off \in {-1, 1} : GP!Reorder(f, off) => Grouping!Reorder(f, off)
    BY OperationsSame DEF GP!Reorder, Grouping!Reorder
  <1> QED BY <1>1, <1>2, <1>3, <1>4, <1>5, Zenon DEF GP!Next, Grouping!Next

(* pekwm groups its windows as FrameTree allows: whatever handler runs, on *)
(* whatever number of windows, frames and workspaces, it does one of the   *)
(* steps that are allowed or leaves the grouping alone.                    *)
THEOREM GroupingImplemented == Spec => ImplementsFrameTree
  <1>1. Init => Inv /\ Grouping!Init
    BY InitInv DEF Inv, Grouping!Init, GP!Init
  <1>2. Inv /\ [Next]_s => Inv' /\ [Grouping!Next]_([kids |-> s.kids, child |-> s.child, parent |-> s.parent])
    <2> QED BY NextSame, Inductive DEF TreeOf
  <1> QED BY <1>1, <1>2, PTL DEF Spec, ImplementsFrameTree, Grouping!Spec

(* _wo_list and _mru_list hold each frame that exists once and no other:   *)
(* they are walked without a look at what they point to.                   *)
THEOREM ListsRight == Spec => []ListsAgree
  <1>1. Init => Inv
    BY InitInv DEF Inv
  <1>2. Inv /\ [Next]_s => Inv'
    BY Inductive
  <1>3. Inv => ListsAgree
    <2>1. SUFFICES ASSUME WmInv(s), NEW q \in {s.wolist, s.mru}
                   PROVE  ToSet(q) = Live /\ Len(q) = Cardinality(Live)
      BY DEF Inv, ListsAgree
    <2>2. q \in Seq(Frames) /\ IsInjective(q) /\ ToSet(q) = LiveIn(s)
      BY <2>1 DEF WmInv, Right, Listed, Lists
    <2> QED BY <2>2, ElementsOnce DEF LiveIn, Live
  <1> QED BY <1>1, <1>2, <1>3, PTL DEF Spec


(* So the grouping is sound in every state of the window manager: a client *)
(* is a tab of its parent and of no other frame, no tab is twice in a      *)
(* frame, and the one in front is one of them.                             *)
THEOREM GroupingSound == Spec => []Grouping!TreeOK
  <1>1. Init => Inv
    BY InitInv DEF Inv
  <1>2. Inv /\ [Next]_s => Inv'
    BY Inductive
  <1>3. Inv => Grouping!TreeOK
    BY DEF Inv, WmInv, Right, GP!Good, GP!Sound, TreeOf, Grouping!TreeOK,
       GP!ParentHasChild, Grouping!ParentHasChild, GP!NoTabTwice, Grouping!NoTabTwice,
       GP!FrontIsATab, Grouping!FrontIsATab, GP!Exists, Grouping!Exists,
       GP!ToSet, Grouping!ToSet, GP!IsInjective, Grouping!IsInjective
  <1> QED BY <1>1, <1>2, <1>3, PTL DEF Spec

----------------------------------------------------------------------------
(* What the windows show in the end.  First what a function changes of it. *)

(* What is seen of the frames and clients: SamePlaces, where each belongs  *)
(* and how many workspaces there are; SameFlags, what is mapped and what   *)
(* iconified.  The functions about the focus and the order leave both.     *)
SamePlaces(t, u) ==
    /\ u.fws = t.fws /\ u.fsticky = t.fsticky /\ u.cws = t.cws /\ u.csticky = t.csticky
    /\ u.active = t.active /\ u.size = t.size

SameFlags(t, u) ==
    /\ u.fmapped = t.fmapped /\ u.ficon = t.ficon
    /\ u.cmapped = t.cmapped /\ u.cicon = t.cicon

SameLook(t, u) == DOMAIN u = DOMAIN t /\ SamePlaces(t, u) /\ SameFlags(t, u)

LEMMA LookOn ==
    ASSUME NEW t, NEW u, NEW v, SameLook(t, u), SameLook(u, v)
    PROVE  SameLook(t, v)
  BY DEF SameLook, SamePlaces, SameFlags

LEMMA LookItself ==
    ASSUME NEW t
    PROVE  SameLook(t, t)
  BY DEF SameLook, SamePlaces, SameFlags

LEMMA LookFields ==
    ASSUME NEW t, DOMAIN t = Fields, NEW u, SameLook(t, u)
    PROVE  DOMAIN u = Fields
  BY DEF SameLook

LEMMA FieldLook ==
    ASSUME NEW t, DOMAIN t = Fields, NEW x, NEW y
    PROVE  /\ SameLook(t, [t EXCEPT !.input = x]) /\ SameLook(t, [t EXCEPT !.queue = x])
           /\ SameLook(t, [t EXCEPT !.focused = x]) /\ SameLook(t, [t EXCEPT !.ffocused[x] = y])
           /\ SameLook(t, [t EXCEPT !.mru = x]) /\ SameLook(t, [t EXCEPT !.wolist = x])
           /\ SameLook(t, [t EXCEPT !.last[x] = y]) /\ SameLook(t, [t EXCEPT !.last = x])
           /\ SameLook(t, [t EXCEPT !.transient[x] = y])
           /\ SameLook(t, [t EXCEPT !.transient = x]) /\ SameLook(t, [t EXCEPT !.gone = x])
  BY DEF SameLook, SamePlaces, SameFlags, Fields

LEMMA PostLook ==
    ASSUME NEW t, DOMAIN t = Fields, NEW e
    PROVE  SameLook(t, Post(t, e)) /\ DOMAIN Post(t, e) = Fields
  <1> DEFINE q == Append(t.queue, e)
  <1>1. Post(t, e) = [t EXCEPT !.queue = q]
    BY DEF Post
  <1> HIDE DEF q
  <1>2. SameLook(t, [t EXCEPT !.queue = q])
    BY FieldLook
  <1> QED BY <1>1, <1>2 DEF SameLook

LEMMA XSetInputFocusLook ==
    ASSUME NEW t, DOMAIN t = Fields, NEW w
    PROVE  SameLook(t, XSetInputFocus(t, w))
  <1> DEFINE u == [t EXCEPT !.input = w]
  <1>1. SameLook(t, u)
    BY FieldLook
  <1> HIDE DEF u
  <1>2. SameLook(u, Post(u, FocusIn(w)))
    BY <1>1, PostLook, LookFields
  <1> QED BY <1>1, <1>2, LookOn, LookItself DEF XSetInputFocus, u

LEMMA XUnmapWindowLook ==
    ASSUME NEW t, DOMAIN t = Fields, NEW c
    PROVE  SameLook(t, XUnmapWindow(t, c))
  <1> DEFINE u == Post(t, Unmapped(c))
             v == [u EXCEPT !.input = Root]
  <1>1. SameLook(t, u) /\ DOMAIN u = Fields
    BY PostLook
  <1> HIDE DEF u
  <1>2. SameLook(u, v) /\ DOMAIN v = Fields
    BY <1>1, FieldLook, LookFields
  <1> HIDE DEF v
  <1>3. SameLook(v, Post(v, FocusIn(Root)))
    BY <1>2, PostLook
  <1>4. SameLook(t, u) /\ SameLook(t, Post(v, FocusIn(Root))) /\ SameLook(t, t)
    BY <1>1, <1>2, <1>3, LookOn, LookItself
  <1> QED BY <1>4 DEF XUnmapWindow, LoseInput, u, v

LEMMA FocusLook ==
    ASSUME NEW t, DOMAIN t = Fields
    PROVE  /\ \A c : SameLook(t, GiveClientFocus(t, c)) /\ SameLook(t, Reparent(t, c))
           /\ \A f : SameLook(t, GiveFrameFocus(t, f))
           /\ \A f : SameLook(t, FindWOAndFocus(t, f))
           /\ \A wo, b : SameLook(t, SetFocused(t, wo, b))
           /\ \A f : SameLook(t, Raise(t, f))
  <1>1. \A c : SameLook(t, GiveClientFocus(t, c)) /\ SameLook(t, Reparent(t, c))
    BY XSetInputFocusLook, XUnmapWindowLook, LookItself DEF GiveClientFocus, Reparent
  <1>2. \A f : SameLook(t, GiveFrameFocus(t, f))
    BY <1>1, XSetInputFocusLook DEF GiveFrameFocus
  <1>3. \A f : SameLook(t, FindWOAndFocus(t, f))
    BY <1>2, XSetInputFocusLook, LookItself DEF FindWOAndFocus
  <1>4. \A wo, b : SameLook(t, SetFocused(t, wo, b))
    BY FieldLook, LookItself DEF SetFocused
  <1>5. \A f : SameLook(t, Raise(t, f))
    <2>1. SUFFICES ASSUME NEW f PROVE SameLook(t, Raise(t, f))
      OBVIOUS
    <2> DEFINE over == {g \in Frames \ {f} : \E d \in Clients :
                          InFront(t, g, d) /\ t.transient[d] = t.child[f]}
               q == Sieve(t.wolist, Frames \ (over \cup {f})) \o <<f>> \o SetToSeq(over)
    <2>2. Raise(t, f) = [t EXCEPT !.wolist = q]
      BY DEF Raise
    <2> HIDE DEF q
    <2>3. SameLook(t, [t EXCEPT !.wolist = q])
      BY FieldLook
    <2> QED BY <2>2, <2>3
  <1> QED BY <1>1, <1>2, <1>3, <1>4, <1>5

(* The events that say where the focus is. *)
LEMMA EventLook ==
    ASSUME NEW t, DOMAIN t = Fields, NEW w
    PROVE  SameLook(t, HandleFocusIn(t, w)) /\ SameLook(t, HandleUnmapped(t, w))
  <1>1. SameLook(t, HandleFocusIn(t, w))
    <2> DEFINE x == SetFocused(t, t.focused, FALSE)
               l == IF t.focused = None THEN x.last[t.active] ELSE t.focused
               k == [x EXCEPT !.last[t.active] = l]
               u == [k EXCEPT !.focused = w]
               f == t.parent[w]
               y == SetFocused(u, w, TRUE)
               q == Append(Sieve(y.mru, Frames \ {f}), f)
               v == [y EXCEPT !.mru = q]
    <2>1. [x EXCEPT !.last[t.active] = IF t.focused = None THEN @ ELSE t.focused, !.focused = w] = u
      OBVIOUS
    <2>2. HandleFocusIn(t, w) =
            IF w = Root THEN IF t.focused = Root THEN t ELSE u
            ELSE IF ~ IsManaged(t, w) THEN t
            ELSE IF ~ t.cmapped[w] THEN FindWOAndFocus(t, None)
            ELSE IF w = t.focused THEN t
            ELSE v
      BY <2>1 DEF HandleFocusIn
    <2>3. SameLook(t, x) /\ DOMAIN x = Fields
      BY FocusLook, LookFields
    <2> HIDE DEF x, l
    <2>4. SameLook(x, k) /\ DOMAIN k = Fields
      BY <2>3, FieldLook, LookFields
    <2> HIDE DEF k
    <2>5. SameLook(k, u) /\ DOMAIN u = Fields
      BY <2>4, FieldLook, LookFields
    <2> HIDE DEF u
    <2>6. SameLook(u, y) /\ DOMAIN y = Fields
      BY <2>5, FocusLook, LookFields
    <2> HIDE DEF y, q
    <2>7. SameLook(y, v)
      BY <2>6, FieldLook
    <2> HIDE DEF v
    <2>8. SameLook(t, u) /\ SameLook(t, v) /\ SameLook(t, t) /\ SameLook(t, FindWOAndFocus(t, None))
      BY <2>3, <2>4, <2>5, <2>6, <2>7, LookOn, LookItself, FocusLook
    <2> QED BY <2>2, <2>8
  <1>2. SameLook(t, HandleUnmapped(t, w))
    <2> DEFINE client == w \in Clients /\ IsManaged(t, w)
               u == IF client /\ w = t.focused THEN [t EXCEPT !.focused = None] ELSE t
               k == IF client THEN t.parent[w] ELSE None
    <2>1. HandleUnmapped(t, w) = IF u.focused # None THEN u ELSE FindWOAndFocus(u, k)
      BY DEF HandleUnmapped, FindIfNone
    <2>2. SameLook(t, u) /\ DOMAIN u = Fields
      BY FieldLook, LookItself, LookFields
    <2> HIDE DEF u, k
    <2> QED BY <2>1, <2>2, FocusLook, LookOn
  <1> QED BY <1>1, <1>2

(* Elements of a sequence put behind another, whether they are in both or  *)
(* not.                                                                    *)
LEMMA ConcatElements ==
    ASSUME NEW S, NEW q \in Seq(S), NEW p \in Seq(S)
    PROVE  /\ q \o p \in Seq(S) /\ Len(q \o p) = Len(q) + Len(p)
           /\ ToSet(q \o p) = ToSet(q) \cup ToSet(p)
  <1> DEFINE r == q \o p
  <1>1. /\ r \in Seq(S) /\ Len(r) = Len(q) + Len(p)
        /\ \A j \in 1..(Len(q) + Len(p)) : r[j] = IF j <= Len(q) THEN q[j] ELSE p[j - Len(q)]
    BY ConcatProperties
  <1> HIDE DEF r
  <1>2. /\ Len(q) \in Nat /\ DOMAIN q = 1..Len(q)
        /\ Len(p) \in Nat /\ DOMAIN p = 1..Len(p)
        /\ DOMAIN r = 1..(Len(q) + Len(p))
    BY <1>1, LenProperties
  <1>3. \A j \in 1..(Len(q) + Len(p)) :
           \/ j \in 1..Len(q) /\ r[j] = q[j]
           \/ j - Len(q) \in 1..Len(p) /\ r[j] = p[j - Len(q)]
    BY <1>1, <1>2
  <1>4. \A j \in 1..Len(q) : r[j] = q[j] /\ j \in 1..(Len(q) + Len(p))
    BY <1>1, <1>2
  <1>5. ASSUME NEW j \in 1..Len(p)
        PROVE  r[j + Len(q)] = p[j] /\ j + Len(q) \in 1..(Len(q) + Len(p))
    <2>1. j + Len(q) \in 1..(Len(q) + Len(p)) /\ ~ (j + Len(q) <= Len(q)) /\ (j + Len(q)) - Len(q) = j
      BY <1>2
    <2> QED BY <2>1, <1>1
  <1>6. ASSUME NEW x \in ToSet(r) PROVE x \in ToSet(q) \cup ToSet(p)
    BY <1>2, <1>3 DEF ToSet
  <1>7. ASSUME NEW x \in ToSet(q) PROVE x \in ToSet(r)
    BY <1>2, <1>4 DEF ToSet
  <1>8. ASSUME NEW x \in ToSet(p) PROVE x \in ToSet(r)
    <2>1. PICK j \in 1..Len(p) : p[j] = x
      BY <1>2 DEF ToSet
    <2>2. r[j + Len(q)] = x /\ j + Len(q) \in DOMAIN r
      BY <2>1, <1>5, <1>2
    <2> QED BY <2>2 DEF ToSet
  <1> QED BY <1>1, <1>6, <1>7, <1>8 DEF r

(* A part of a finite set and the rest. *)
LEMMA CountParts ==
    ASSUME NEW S, IsFiniteSet(S), NEW T, T \subseteq S
    PROVE  /\ Cardinality(S) \in Nat /\ Cardinality(T) \in Nat /\ Cardinality(S \ T) \in Nat
           /\ Cardinality(S \ T) = Cardinality(S) - Cardinality(T)
  <1> DEFINE U == S \ T
  <1>1. IsFiniteSet(T) /\ IsFiniteSet(U)
    BY FS_Subset
  <1>2. T \cup U = S /\ T \cap U = {}
    OBVIOUS
  <1> HIDE DEF U
  <1>3. Cardinality(T \cup U) = Cardinality(T) + Cardinality(U) - Cardinality(T \cap U)
    BY <1>1, FS_Union
  <1>4. Cardinality({}) = 0 /\ Cardinality(S) \in Nat /\ Cardinality(T) \in Nat /\ Cardinality(U) \in Nat
    BY <1>1, FS_EmptySet, FS_CardinalityType
  <1>5. Cardinality(S) = Cardinality(T) + Cardinality(U) - Cardinality({})
    BY <1>2, <1>3, Zenon
  <1>6. Cardinality(U) = Cardinality(S) - Cardinality(T)
    BY <1>4, <1>5
  <1> QED BY <1>4, <1>6 DEF U

(* As long as every step that is taken brings a number down, at most that  *)
(* many are taken.                                                         *)
LEMMA Descends ==
    ASSUME NEW k \in Nat, NEW m, NEW E, m[0] <= k,
           \A i \in 0..k : m[i] \in Nat /\ (m[i] = 0 => i \in E),
           \A i \in 0..(k - 1) : IF i \in E THEN i + 1 \in E ELSE m[i + 1] < m[i]
    PROVE  k \in E
  <1> DEFINE T == {i \in 0..k : i \in E \/ m[i] + i <= k}
  <1>1. 0 \in T
    OBVIOUS
  <1>2. \A i \in 0..(k - 1) : i \in T => i + 1 \in T
    <2>1. SUFFICES ASSUME NEW i \in 0..(k - 1), i \in T PROVE i + 1 \in T
      OBVIOUS
    <2>2. i + 1 \in 0..k /\ i \in 0..k
      OBVIOUS
    <2>3. CASE i \in E
      BY <2>2, <2>3
    <2>4. CASE i \notin E
      <3>1. m[i] + i <= k /\ m[i + 1] < m[i] /\ m[i] \in Nat /\ m[i + 1] \in Nat
        BY <2>1, <2>2, <2>4
      <3>2. m[i + 1] + (i + 1) <= k
        BY <3>1
      <3> QED BY <2>2, <3>2
    <2> QED BY <2>3, <2>4
  <1> HIDE DEF T
  <1>3. \A i \in 0..k : i \in T
    BY <1>1, <1>2, Upward
  <1>4. k \in T /\ k \in 0..k
    BY <1>3
  <1>5. k \in E \/ m[k] + k <= k
    BY <1>4 DEF T
  <1>6. m[k] \in Nat /\ (m[k] = 0 => k \in E)
    BY <1>4
  <1> QED BY <1>5, <1>6

----------------------------------------------------------------------------
(* One call of a run, by what is pending before and after it.              *)
LEMMA ForEachElements ==
    ASSUME NEW S, NEW q \in Seq(S), NEW n
    PROVE  /\ Len(ForEach(n, q)) = Len(q)
           /\ ToSet(ForEach(n, q)) = {Call(n, x) : x \in ToSet(q)}
  <1>1. Len(q) \in Nat /\ DOMAIN q = 1..Len(q)
    BY LenProperties
  <1> DEFINE p == ForEach(n, q)
  <1>2. p = [i \in 1..Len(q) |-> Call(n, q[i])]
    BY DEF ForEach
  <1>3. DOMAIN p = 1..Len(q) /\ \A i \in 1..Len(q) : p[i] = Call(n, q[i])
    BY <1>2
  <1> HIDE DEF p
  <1>4. Len(p) = Len(q)
    <2>1. p \in Seq({Call(n, q[i]) : i \in 1..Len(q)})
      BY <1>1, <1>2
    <2> QED BY <1>1, <1>3, <2>1, LenProperties
  <1>5. ToSet(p) = {Call(n, x) : x \in ToSet(q)}
    BY <1>1, <1>3 DEF ToSet
  <1> QED BY <1>4, <1>5 DEF p

LEMMA CallIs ==
    ASSUME NEW n, NEW x
    PROVE  Call(n, x).name = n /\ Call(n, x).of = x
  BY DEF Call

(* The call h is made: b is what its body leaves. *)
LEMMA NextCallIs ==
    ASSUME NEW S, NEW r, r.calls \in Seq(S), r.calls # <<>>,
           NEW b, b = BodyOf(r.state, Head(r.calls)), b.calls \in Seq(S)
    PROVE  /\ NextCall(r).state = b.state
           /\ NextCall(r).calls = b.calls \o Tail(r.calls)
           /\ NextCall(r).calls \in Seq(S) /\ Head(r.calls) \in S /\ Tail(r.calls) \in Seq(S)
           /\ Len(NextCall(r).calls) = Len(b.calls) + Len(r.calls) - 1
           /\ ToSet(NextCall(r).calls) = ToSet(b.calls) \cup ToSet(Tail(r.calls))
           /\ ToSet(r.calls) = {Head(r.calls)} \cup ToSet(Tail(r.calls))
           /\ Len(r.calls) \in Nat \ {0} /\ Len(b.calls) \in Nat
  <1> DEFINE q == Tail(r.calls)
  <1>1. Head(r.calls) \in S /\ q \in Seq(S) /\ ToSet(r.calls) = {Head(r.calls)} \cup ToSet(q)
    BY TailElements
  <1>2. Len(q) = Len(r.calls) - 1 /\ Len(r.calls) \in Nat \ {0}
    BY HeadTailProperties, LenProperties, EmptySeq
  <1> HIDE DEF q
  <1>3. NextCall(r) = Body(b.state, b.calls \o q)
    BY DEF NextCall, Then, q
  <1>4. /\ b.calls \o q \in Seq(S) /\ Len(b.calls \o q) = Len(b.calls) + Len(q)
        /\ ToSet(b.calls \o q) = ToSet(b.calls) \cup ToSet(q)
    BY <1>1, ConcatElements
  <1>5. Body(b.state, b.calls \o q).state = b.state /\ Body(b.state, b.calls \o q).calls = b.calls \o q
    BY DEF Body
  <1>6. Len(b.calls) \in Nat
    BY LenProperties
  <1>7. NextCall(r).state = b.state /\ NextCall(r).calls = b.calls \o q
    BY <1>3, <1>5
  <1>8. Len(b.calls \o q) = Len(b.calls) + Len(r.calls) - 1
    <2> DEFINE i == Len(b.calls \o q)
               j == Len(b.calls)
               k == Len(r.calls)
    <2>1. i = j + (k - 1) /\ j \in Nat /\ k \in Nat
      BY <1>2, <1>4, <1>6
    <2> HIDE DEF i, j, k
    <2>2. i = j + k - 1
      BY <2>1
    <2> QED BY <2>2 DEF i, j, k
  <1> QED BY <1>1, <1>2, <1>4, <1>6, <1>7, <1>8 DEF q

(* The grouping, as far as the calls look at it: a frame that a tab is     *)
(* just taken from may have it in front still.                             *)
Housed(t) ==
    /\ t.kids \in [Frames -> Seq(Clients)]
    /\ t.child \in [Frames -> Clients \cup {None}]
    /\ t.parent \in [Clients -> Frames \cup {None}]
    /\ \A c \in Clients, f \in Frames : t.parent[c] = f <=> c \in ToSet(t.kids[f])
    /\ \A f \in Frames : IsInjective(t.kids[f])

Flags(t) ==
    /\ t.fmapped \in [Frames -> BOOLEAN] /\ t.ficon \in [Frames -> BOOLEAN]
    /\ t.cmapped \in [Clients -> BOOLEAN] /\ t.cicon \in [Clients -> BOOLEAN]

LEMMA SoundHoused ==
    ASSUME NEW t, GP!Sound(TreeOf(t))
    PROVE  Housed(t)
  BY DEF GP!Sound, GP!IsTabs, GP!ParentHasChild, GP!NoTabTwice, TreeOf, Housed, GP!ToSet, ToSet,
         GP!IsInjective, IsInjective

LEMMA RightHoused ==
    ASSUME NEW t, Right(t)
    PROVE  Housed(t)
  BY SoundHoused DEF Right, GP!Good

LEMMA KeepsHoused ==
    ASSUME NEW t, NEW u, Housed(t), SameTree(t, u)
    PROVE  Housed(u) /\ LiveIn(u) = LiveIn(t)
  BY DEF Housed, SameTree, LiveIn, Exists

KidsOf(t, f) == {c \in Clients : t.parent[c] = f}
Family(t, c) == {f \in Frames : \E d \in Clients : InFront(t, f, d) /\ TransientFor[d] = c}

LEMMA KidsCount ==
    ASSUME NEW t, Housed(t), NEW f \in Frames
    PROVE  ToSet(t.kids[f]) = KidsOf(t, f) /\ Len(t.kids[f]) = Cardinality(KidsOf(t, f))
  <1>1. t.kids[f] \in Seq(Clients) /\ IsInjective(t.kids[f])
    BY DEF Housed
  <1>2. Cardinality(ToSet(t.kids[f])) = Len(t.kids[f])
    BY <1>1, ElementsOnce
  <1>3. ToSet(t.kids[f]) \subseteq Clients
    BY <1>1, ToSetOfSeq
  <1> QED BY <1>2, <1>3 DEF Housed, KidsOf

LEMMA FamilyCount ==
    ASSUME NEW t, NEW c
    PROVE  /\ ToSet(FamilyFrames(t, c)) = Family(t, c) /\ IsFiniteSet(Family(t, c))
           /\ Len(FamilyFrames(t, c)) = Cardinality(Family(t, c))
  <1> DEFINE G == Family(t, c)
  <1>1. IsFiniteSet(G) /\ FamilyFrames(t, c) = SetToSeq(G)
    BY FS_Subset, WmAssumption DEF Family, FamilyFrames
  <1> HIDE DEF G
  <1>2. SetToSeq(G) \in Seq(G) /\ IsInjective(SetToSeq(G)) /\ ToSet(SetToSeq(G)) = G
    BY <1>1, SetInOrder
  <1>3. Cardinality(G) = Len(SetToSeq(G))
    BY <1>2, ElementsOnce
  <1> QED BY <1>1, <1>2, <1>3 DEF G

----------------------------------------------------------------------------
(* Runs that map.                                                          *)
MapCalls == [name : {"MapFrame"}, of : Frames] \cup [name : {"MapClient"}, of : Clients]

LEMMA MapCallTypes ==
    /\ \A f \in Frames : Call("MapFrame", f) \in MapCalls
    /\ \A c \in Clients : Call("MapClient", c) \in MapCalls
    /\ \A h \in MapCalls : \/ \E f \in Frames : h = Call("MapFrame", f)
                           \/ \E c \in Clients : h = Call("MapClient", c)
    /\ MapCalls \subseteq Calls
    /\ \A x, y : Call("MapFrame", x) # Call("MapClient", y)
    /\ \A x, y, n : Call(n, x) = Call(n, y) => x = y
  BY DEF MapCalls, Call, Calls

FrameMapped(t, u, f) ==
    /\ u.fmapped = [t.fmapped EXCEPT ![f] = TRUE] /\ u.ficon = [t.ficon EXCEPT ![f] = FALSE]
    /\ u.cmapped = t.cmapped /\ u.cicon = t.cicon

ClientMapped(t, u, c) ==
    /\ u.cmapped = [t.cmapped EXCEPT ![c] = TRUE] /\ u.cicon = [t.cicon EXCEPT ![c] = FALSE]
    /\ u.fmapped = t.fmapped /\ u.ficon = t.ficon

CallsFor(n, T) == {Call(n, x) : x \in T}

(* One call of such a run: p and q are what is pending before and after,   *)
(* k how many more calls there are.                                        *)
MapStep(t, u, p, q, k) ==
    \E w : 
      \/ /\ SameFlags(t, u) /\ q = w /\ k = -1
         /\ \/ \E f \in Frames : t.fmapped[f] /\ p = {Call("MapFrame", f)} \cup w
            \/ \E c \in Clients : t.cmapped[c] /\ p = {Call("MapClient", c)} \cup w
      \/ \E f \in Frames :
           /\ ~ t.fmapped[f] /\ FrameMapped(t, u, f) /\ p = {Call("MapFrame", f)} \cup w
           /\ q = CallsFor("MapClient", KidsOf(t, f)) \cup w /\ k = Cardinality(KidsOf(t, f)) - 1
      \/ \E c \in Clients :
           /\ ~ t.cmapped[c] /\ ClientMapped(t, u, c) /\ p = {Call("MapClient", c)} \cup w
           /\ \/ q = w /\ k = -1
              \/ q = CallsFor("MapFrame", Family(t, c)) \cup w /\ k = Cardinality(Family(t, c)) - 1

LEMMA MapFields ==
    ASSUME NEW t, DOMAIN t = Fields
    PROVE  /\ \A f : LET u == [t EXCEPT !.fmapped[f] = TRUE, !.ficon[f] = FALSE]
                     IN  FrameMapped(t, u, f) /\ SamePlaces(t, u)
           /\ \A c : LET u == [t EXCEPT !.cicon[c] = FALSE, !.cmapped[c] = TRUE]
                     IN  ClientMapped(t, u, c) /\ SamePlaces(t, u)
  BY DEF FrameMapped, ClientMapped, SamePlaces, Fields

LEMMA BodyIs ==
    ASSUME NEW t, NEW q
    PROVE  Body(t, q).state = t /\ Body(t, q).calls = q
  BY DEF Body

LEMMA MapBodies ==
    ASSUME NEW t
    PROVE  /\ \A f : BodyOf(t, Call("MapFrame", f)) = MapFrameBody(t, f)
           /\ \A c : BodyOf(t, Call("MapClient", c)) = MapClientBody(t, c)
  BY CallIs DEF BodyOf

LEMMA EmptyCalls ==
    ASSUME NEW S
    PROVE  <<>> \in Seq(S) /\ ToSet(<<>>) = {} /\ Len(<<>>) = 0
  BY EmptySeq, ToSetOfSeq

LEMMA MapNext ==
    ASSUME NEW r, Formed(r.state), Housed(r.state), Flags(r.state),
           r.calls \in Seq(MapCalls), r.calls # <<>>
    PROVE  LET n == NextCall(r)
           IN  /\ n.calls \in Seq(MapCalls) /\ Keeps(r.state, n.state) /\ SamePlaces(r.state, n.state)
               /\ Len(r.calls) \in Nat /\ Len(n.calls) \in Nat
               /\ MapStep(r.state, n.state, ToSet(r.calls), ToSet(n.calls),
                          Len(n.calls) - Len(r.calls))
  <1> DEFINE t == r.state
             h == Head(r.calls)
             w == ToSet(Tail(r.calls))
             n == NextCall(r)
             b == BodyOf(t, h)
  <1>1. h \in MapCalls
    BY TailElements
  <1>2. Keeps(t, b.state)
    BY <1>1, MapCallTypes, EachBodyProper DEF Proper
  <1>3. ASSUME NEW v, NEW q \in Seq(MapCalls), b = Body(v, q)
        PROVE  /\ n.state = v /\ Keeps(t, n.state) /\ n.calls \in Seq(MapCalls)
               /\ Len(r.calls) \in Nat /\ Len(n.calls) \in Nat
               /\ Len(n.calls) - Len(r.calls) = Len(q) - 1
               /\ ToSet(n.calls) = ToSet(q) \cup w /\ ToSet(r.calls) = {h} \cup w
    <2>1. b.state = v /\ b.calls = q
      BY <1>3, BodyIs
    <2>2. /\ n.state = b.state /\ n.calls \in Seq(MapCalls)
          /\ Len(n.calls) = Len(b.calls) + Len(r.calls) - 1
          /\ ToSet(n.calls) = ToSet(b.calls) \cup w /\ ToSet(r.calls) = {h} \cup w
          /\ Len(r.calls) \in Nat /\ Len(b.calls) \in Nat
      BY <2>1, NextCallIs
    <2> HIDE DEF n, w, b, h
    <2>3. Len(n.calls) \in Nat /\ Len(n.calls) - Len(r.calls) = Len(q) - 1
      BY <2>1, <2>2, LenProperties
    <2> QED BY <1>2, <2>1, <2>2, <2>3
  <1>4. /\ \A f \in Frames : h = Call("MapFrame", f) => b = MapFrameBody(t, f)
        /\ \A c \in Clients : h = Call("MapClient", c) => b = MapClientBody(t, c)
    BY MapBodies
  <1>5. Formed(t) /\ Housed(t) /\ SameFlags(t, t) /\ SamePlaces(t, t)
    BY DEF SameFlags, SamePlaces
  <1>6. <<>> \in Seq(MapCalls) /\ ToSet(<<>>) = {} /\ Len(<<>>) = 0
    BY EmptyCalls
  <1> HIDE DEF n, w, b, h, t
  <1>7. ASSUME b = Body(t, <<>>), \/ \E f \in Frames : t.fmapped[f] /\ h = Call("MapFrame", f)
                                  \/ \E c \in Clients : t.cmapped[c] /\ h = Call("MapClient", c)
        PROVE  /\ SamePlaces(t, n.state)
               /\ MapStep(t, n.state, ToSet(r.calls), ToSet(n.calls), Len(n.calls) - Len(r.calls))
    <2>1. /\ n.state = t /\ ToSet(n.calls) = {} \cup w /\ ToSet(r.calls) = {h} \cup w
          /\ Len(n.calls) - Len(r.calls) = 0 - 1
      BY <1>3, <1>6, <1>7, Zenon
    <2>2. {} \cup w = w /\ 0 - 1 = -1
      OBVIOUS
    <2> QED BY <1>5, <1>7, <2>1, <2>2 DEF MapStep
  <1>8. ASSUME NEW f \in Frames, h = Call("MapFrame", f), ~ t.fmapped[f]
        PROVE  /\ SamePlaces(t, n.state) /\ \E v : \E q \in Seq(MapCalls) : b = Body(v, q)
               /\ MapStep(t, n.state, ToSet(r.calls), ToSet(n.calls), Len(n.calls) - Len(r.calls))
    <2> DEFINE v == [t EXCEPT !.fmapped[f] = TRUE, !.ficon[f] = FALSE]
               q == ForEach("MapClient", t.kids[f])
    <2>1. b = Body(v, q)
      BY <1>4, <1>8 DEF MapFrameBody
    <2>2. t.kids[f] \in Seq(Clients)
      BY <1>5 DEF Formed
    <2>3. Len(q) = Cardinality(KidsOf(t, f)) /\ ToSet(q) = CallsFor("MapClient", KidsOf(t, f))
      BY <1>5, <2>2, KidsCount, ForEachElements DEF CallsFor
    <2>4. \A i \in 1..Len(t.kids[f]) : Call("MapClient", t.kids[f][i]) \in MapCalls
      BY <2>2, MapCallTypes
    <2>5. q \in Seq(MapCalls)
      BY <2>2, <2>4 DEF ForEach
    <2>6. FrameMapped(t, v, f) /\ SamePlaces(t, v)
      BY <1>5, MapFields DEF Formed
    <2> HIDE DEF v, q
    <2>9. /\ n.state = v /\ Len(n.calls) - Len(r.calls) = Len(q) - 1
          /\ ToSet(n.calls) = ToSet(q) \cup w /\ ToSet(r.calls) = {h} \cup w
      BY <1>3, <2>1, <2>5
    <2>7. /\ n.state = v /\ Len(n.calls) - Len(r.calls) = Cardinality(KidsOf(t, f)) - 1
          /\ ToSet(n.calls) = CallsFor("MapClient", KidsOf(t, f)) \cup w
          /\ ToSet(r.calls) = {h} \cup w
      BY <2>3, <2>9, Zenon
    <2>8. MapStep(t, n.state, ToSet(r.calls), ToSet(n.calls), Len(n.calls) - Len(r.calls))
      BY <1>8, <2>6, <2>7 DEF MapStep
    <2> QED BY <2>1, <2>5, <2>6, <2>7, <2>8
  <1>9. ASSUME NEW c \in Clients, h = Call("MapClient", c), ~ t.cmapped[c]
        PROVE  /\ SamePlaces(t, n.state) /\ \E v : \E q \in Seq(MapCalls) : b = Body(v, q)
               /\ MapStep(t, n.state, ToSet(r.calls), ToSet(n.calls), Len(n.calls) - Len(r.calls))
    <2> DEFINE v == [t EXCEPT !.cicon[c] = FALSE, !.cmapped[c] = TRUE]
               p == ForEach("MapFrame", FamilyFrames(t, c))
               q == IF t.transient[c] # None THEN <<>> ELSE p
    <2>1. b = Body(v, q)
      BY <1>4, <1>9 DEF MapClientBody
    <2>2. FamilyFrames(t, c) \in Seq(Frames)
      BY FamilyTypes
    <2>3. Len(p) = Cardinality(Family(t, c)) /\ ToSet(p) = CallsFor("MapFrame", Family(t, c))
      BY <2>2, FamilyCount, ForEachElements DEF CallsFor
    <2>4. \A i \in 1..Len(FamilyFrames(t, c)) : Call("MapFrame", FamilyFrames(t, c)[i]) \in MapCalls
      BY <2>2, MapCallTypes
    <2>5. p \in Seq(MapCalls)
      BY <2>2, <2>4 DEF ForEach
    <2>6. ClientMapped(t, v, c) /\ SamePlaces(t, v)
      BY <1>5, MapFields DEF Formed
    <2> HIDE DEF v, p
    <2>7. /\ q \in Seq(MapCalls)
          /\ \/ Len(q) = 0 /\ ToSet(q) = {}
             \/ Len(q) = Cardinality(Family(t, c)) /\ ToSet(q) = CallsFor("MapFrame", Family(t, c))
      BY <1>6, <2>3, <2>5
    <2> HIDE DEF q
    <2>8. /\ n.state = v /\ Len(n.calls) - Len(r.calls) = Len(q) - 1
          /\ ToSet(n.calls) = ToSet(q) \cup w /\ ToSet(r.calls) = {h} \cup w
      BY <1>3, <2>1, <2>7
    <2>9. \/ ToSet(n.calls) = w /\ Len(n.calls) - Len(r.calls) = -1
          \/ /\ ToSet(n.calls) = CallsFor("MapFrame", Family(t, c)) \cup w
             /\ Len(n.calls) - Len(r.calls) = Cardinality(Family(t, c)) - 1
      <3>1. CASE Len(q) = 0 /\ ToSet(q) = {}
        <4>1. ToSet(n.calls) = {} \cup w /\ Len(n.calls) - Len(r.calls) = 0 - 1
          BY <2>8, <3>1, Zenon
        <4>2. {} \cup w = w /\ 0 - 1 = -1
          OBVIOUS
        <4> QED BY <4>1, <4>2, Zenon
      <3>2. CASE Len(q) = Cardinality(Family(t, c)) /\ ToSet(q) = CallsFor("MapFrame", Family(t, c))
        BY <2>8, <3>2, Zenon
      <3> QED BY <2>7, <3>1, <3>2
    <2>10. MapStep(t, n.state, ToSet(r.calls), ToSet(n.calls), Len(n.calls) - Len(r.calls))
      BY <1>9, <2>6, <2>8, <2>9 DEF MapStep
    <2> QED BY <2>1, <2>6, <2>7, <2>8, <2>10
  <1>10. /\ SamePlaces(t, n.state) /\ \E v : \E q \in Seq(MapCalls) : b = Body(v, q)
         /\ MapStep(t, n.state, ToSet(r.calls), ToSet(n.calls), Len(n.calls) - Len(r.calls))
    <2>1. ASSUME NEW f \in Frames, h = Call("MapFrame", f), t.fmapped[f]
          PROVE  b = Body(t, <<>>)
      BY <1>4, <2>1 DEF MapFrameBody
    <2>2. ASSUME NEW c \in Clients, h = Call("MapClient", c), t.cmapped[c]
          PROVE  b = Body(t, <<>>)
      BY <1>4, <2>2 DEF MapClientBody
    <2>3. (\E f \in Frames : h = Call("MapFrame", f)) \/ (\E c \in Clients : h = Call("MapClient", c))
      BY <1>1, MapCallTypes
    <2> QED BY <1>6, <1>7, <1>8, <1>9, <2>1, <2>2, <2>3
  <1>11. Keeps(t, n.state) /\ n.calls \in Seq(MapCalls) /\ Len(r.calls) \in Nat /\ Len(n.calls) \in Nat
    BY <1>3, <1>10
  <1> QED BY <1>10, <1>11 DEF n, t

(* How many calls there can be yet: those pending, one for each client of  *)
(* a frame not mapped and one for each dialog whose owner is not mapped.   *)
Waiting(t) == {c \in Clients : t.parent[c] \in Frames /\ ~ t.fmapped[t.parent[c]]}
Owned(t) ==
    {f \in Frames : \E d \in Clients :
        /\ InFront(t, f, d) /\ TransientFor[d] \in Clients /\ ~ t.cmapped[TransientFor[d]]}
MapLeft(t, n) == n + Cardinality(Waiting(t)) + Cardinality(Owned(t))

LEMMA PartCount ==
    ASSUME NEW S, IsFiniteSet(S), NEW T, T \subseteq S
    PROVE  /\ IsFiniteSet(T) /\ Cardinality(T) \in Nat /\ Cardinality(S) \in Nat
           /\ Cardinality(T) <= Cardinality(S)
  BY FS_Subset, FS_CardinalityType

LEMMA MapCounts ==
    ASSUME NEW t
    PROVE  /\ IsFiniteSet(Waiting(t)) /\ Cardinality(Waiting(t)) \in Nat
           /\ Cardinality(Waiting(t)) <= Cardinality(Clients)
           /\ IsFiniteSet(Owned(t)) /\ Cardinality(Owned(t)) \in Nat
           /\ Cardinality(Owned(t)) <= Cardinality(Frames)
           /\ Cardinality(Clients) \in Nat /\ Cardinality(Frames) \in Nat
  <1>1. Waiting(t) \subseteq Clients /\ Owned(t) \subseteq Frames
    BY DEF Waiting, Owned
  <1> QED BY <1>1, PartCount, WmAssumption

LEMMA MapLess ==
    ASSUME NEW t, NEW u, NEW p, NEW q, NEW k, Housed(t), Flags(t), SameTree(t, u),
           MapStep(t, u, p, q, k), NEW n \in Nat
    PROVE  MapLeft(t, n) \in Nat /\ MapLeft(u, n + k) < MapLeft(t, n)
  <1> DEFINE a == Cardinality(Waiting(t))
             b == Cardinality(Owned(t))
             a1 == Cardinality(Waiting(u))
             b1 == Cardinality(Owned(u))
  <1>1. a \in Nat /\ b \in Nat /\ a1 \in Nat /\ b1 \in Nat
    BY MapCounts
  <1>2. IsFiniteSet(Waiting(t)) /\ IsFiniteSet(Owned(t))
    BY MapCounts
  <1>3. k \in Int /\ k + a1 + b1 < a + b
    <2>1. ASSUME SameFlags(t, u), k = -1 PROVE k \in Int /\ k + a1 + b1 < a + b
      <3>1. Waiting(u) = Waiting(t) /\ Owned(u) = Owned(t)
        BY <2>1 DEF SameFlags, SameTree, Waiting, Owned, InFront
      <3>2. a1 = a /\ b1 = b
        BY <3>1
      <3> HIDE DEF a, b, a1, b1
      <3> QED BY <1>1, <2>1, <3>2
    <2>2. ASSUME NEW f \in Frames, ~ t.fmapped[f], FrameMapped(t, u, f),
                 k = Cardinality(KidsOf(t, f)) - 1
          PROVE  k \in Int /\ k + a1 + b1 < a + b
      <3> DEFINE K == KidsOf(t, f)
      <3>1. K \subseteq Waiting(t)
        BY <2>2 DEF Waiting, KidsOf
      <3>2. Waiting(u) = Waiting(t) \ K /\ Owned(u) = Owned(t)
        BY <2>2 DEF FrameMapped, SameTree, Waiting, Owned, InFront, KidsOf, Flags
      <3> HIDE DEF K
      <3>3. /\ Cardinality(K) \in Nat
            /\ Cardinality(Waiting(t) \ K) = Cardinality(Waiting(t)) - Cardinality(K)
        BY <1>2, <3>1, CountParts
      <3>4. a1 = a - Cardinality(K) /\ b1 = b
        BY <3>2, <3>3
      <3>5. k = Cardinality(K) - 1
        BY <2>2 DEF K
      <3> HIDE DEF a, b, a1, b1
      <3> QED BY <1>1, <3>3, <3>4, <3>5
    <2>3. ASSUME NEW c \in Clients, ~ t.cmapped[c], ClientMapped(t, u, c),
                 k = -1 \/ k = Cardinality(Family(t, c)) - 1
          PROVE  k \in Int /\ k + a1 + b1 < a + b
      <3> DEFINE G == Family(t, c)
      <3>1. G \subseteq Owned(t)
        BY <2>3 DEF Family, Owned
      <3>2. Owned(u) = Owned(t) \ G /\ Waiting(u) = Waiting(t)
        <4>1. \A d \in Clients, f, g \in Frames : InFront(t, f, d) /\ InFront(t, g, d) => f = g
          BY DEF InFront
        <4>2. \A d, e \in Clients, f \in Frames : InFront(t, f, d) /\ InFront(t, f, e) => d = e
          BY DEF InFront
        <4>3. \A d \in Clients, f \in Frames : InFront(u, f, d) <=> InFront(t, f, d)
          BY DEF InFront, SameTree
        <4>4. \A d \in Clients : u.cmapped[d] <=> t.cmapped[d] \/ d = c
          BY <2>3 DEF ClientMapped, Flags
        <4>5. Waiting(u) = Waiting(t)
          BY <2>3 DEF Waiting, ClientMapped, SameTree
        <4>6. Owned(u) = Owned(t) \ G
          BY <4>2, <4>3, <4>4 DEF Owned, Family
        <4> QED BY <4>5, <4>6
      <3> HIDE DEF G
      <3>3. /\ Cardinality(G) \in Nat
            /\ Cardinality(Owned(t) \ G) = Cardinality(Owned(t)) - Cardinality(G)
        BY <1>2, <3>1, CountParts
      <3>4. a1 = a /\ b1 = b - Cardinality(G)
        BY <3>2, <3>3
      <3>5. k = -1 \/ k = Cardinality(G) - 1
        BY <2>3 DEF G
      <3> HIDE DEF a, b, a1, b1
      <3> QED BY <1>1, <3>3, <3>4, <3>5
    <2>4. \/ SameFlags(t, u) /\ k = -1
          \/ \E f \in Frames : /\ ~ t.fmapped[f] /\ FrameMapped(t, u, f)
                              /\ k = Cardinality(KidsOf(t, f)) - 1
          \/ \E c \in Clients : /\ ~ t.cmapped[c] /\ ClientMapped(t, u, c)
                               /\ (k = -1 \/ k = Cardinality(Family(t, c)) - 1)
      BY DEF MapStep
    <2> HIDE DEF a, b, a1, b1
    <2> QED BY <2>1, <2>2, <2>3, <2>4, Zenon
  <1>4. MapLeft(t, n) = n + a + b /\ MapLeft(u, n + k) = (n + k) + a1 + b1
    BY DEF MapLeft
  <1> HIDE DEF a, b, a1, b1
  <1> QED BY <1>1, <1>3, <1>4

(* All of a run: it ends with nothing pending.                             *)
MapGood(t, r) ==
    /\ r.calls \in Seq(MapCalls) /\ Keeps(t, r.state) /\ SamePlaces(t, r.state)
    /\ Flags(r.state)

MapGoes(r, n) ==
    \/ n = r /\ r.calls = <<>>
    \/ /\ r.calls # <<>>
       /\ \E k : MapStep(r.state, n.state, ToSet(r.calls), ToSet(n.calls), k)

IsMapRun(g, t, q) ==
    /\ g[0] = Body(t, q) /\ g[MaxCalls].calls = <<>>
    /\ \A i \in 0..MaxCalls : MapGood(t, g[i])
    /\ \A i \in 0..(MaxCalls - 1) : MapGoes(g[i], g[i + 1])

LEMMA MapFlags ==
    ASSUME NEW t, NEW u, NEW p, NEW q, NEW k, Flags(t), MapStep(t, u, p, q, k)
    PROVE  Flags(u)
  BY DEF Flags, MapStep, SameFlags, FrameMapped, ClientMapped

LEMMA MapRun ==
    ASSUME NEW t, Formed(t), Housed(t), Flags(t), NEW h \in MapCalls
    PROVE  \E g : /\ IsRun(g, t, <<h>>, MaxCalls) /\ IsMapRun(g, t, <<h>>)
                /\ RunCalls(t, <<h>>) = g[MaxCalls].state
  <1> DEFINE q == <<h>>
  <1>1. PICK g : IsRun(g, t, q, MaxCalls) /\ RunCalls(t, q) = g[MaxCalls].state
    BY RunDefined
  <1>2. MaxCalls \in Nat /\ q \in Seq(MapCalls) /\ Len(q) = 1
    BY MaxCallsNat
  <1>3. g[0] = Body(t, q) /\ \A i \in 0..(MaxCalls - 1) : g[i + 1] = NextCall(g[i])
    BY <1>1, <1>2 DEF IsRun, RunStep
  <1> HIDE DEF q
  <1> DEFINE T == {i \in 0..MaxCalls : MapGood(t, g[i])}
             L(i) == MapLeft(g[i].state, Len(g[i].calls))
  <1>4. 0 \in T
    <2>1. Keeps(t, t) /\ SamePlaces(t, t)
      BY KeepsItself DEF SamePlaces
    <2> QED BY <1>2, <1>3, <2>1, BodyIs DEF MapGood
  <1>5. ASSUME NEW i \in 0..(MaxCalls - 1), MapGood(t, g[i])
        PROVE  /\ MapGood(t, g[i + 1]) /\ MapGoes(g[i], g[i + 1])
               /\ g[i].calls # <<>> => L(i + 1) < L(i)
    <2> DEFINE r == g[i]
               n == NextCall(r)
    <2>1. g[i + 1] = n
      BY <1>3
    <2>2. /\ Formed(r.state) /\ Housed(r.state) /\ Flags(r.state) /\ r.calls \in Seq(MapCalls)
          /\ Keeps(t, r.state) /\ SamePlaces(t, r.state)
      BY <1>5, KeepsForm, KeepsHoused DEF MapGood, Keeps
    <2> HIDE DEF r
    <2>3. CASE r.calls = <<>>
      <3>1. n = r
        BY <2>3 DEF NextCall
      <3> HIDE DEF n
      <3> QED BY <1>5, <2>1, <2>3, <3>1 DEF MapGoes, r
    <2>4. CASE r.calls # <<>>
      <3> DEFINE k == Len(n.calls) - Len(r.calls)
      <3>1. /\ n.calls \in Seq(MapCalls) /\ Keeps(r.state, n.state) /\ SamePlaces(r.state, n.state)
            /\ Len(r.calls) \in Nat /\ Len(n.calls) \in Nat
            /\ MapStep(r.state, n.state, ToSet(r.calls), ToSet(n.calls), k)
        BY <2>2, <2>4, MapNext
      <3>2. Len(r.calls) + k = Len(n.calls)
        BY <3>1
      <3> HIDE DEF n, k
      <3>3. Keeps(t, n.state) /\ SamePlaces(t, n.state) /\ Flags(n.state)
        <4>1. SamePlaces(t, n.state)
          BY <2>2, <3>1 DEF SamePlaces
        <4>2. Keeps(t, n.state)
          BY <2>2, <3>1, KeepsOn
        <4> QED BY <2>2, <3>1, <4>1, <4>2, MapFlags
      <3>4. MapGood(t, n) /\ MapGoes(r, n)
        BY <2>4, <3>1, <3>3 DEF MapGood, MapGoes
      <3>5. MapLeft(n.state, Len(r.calls) + k) < MapLeft(r.state, Len(r.calls))
        BY <2>2, <3>1, MapLess DEF Keeps
      <3>6. MapLeft(n.state, Len(n.calls)) < MapLeft(r.state, Len(r.calls))
        BY <3>2, <3>5
      <3> QED BY <2>1, <3>4, <3>6 DEF r
    <2> QED BY <2>3, <2>4 DEF r
  <1>6. \A i \in 0..(MaxCalls - 1) : i \in T => i + 1 \in T
    BY <1>2, <1>5
  <1>7. \A i \in 0..MaxCalls : i \in T
    <2> HIDE DEF T
    <2> QED BY <1>2, <1>4, <1>6, Upward
  <1>8. \A i \in 0..MaxCalls : MapGood(t, g[i])
    BY <1>7
  <1>9. \A i \in 0..MaxCalls : L(i) \in Nat /\ (L(i) = 0 => g[i].calls = <<>>)
    <2> SUFFICES ASSUME NEW i \in 0..MaxCalls
                 PROVE  L(i) \in Nat /\ (L(i) = 0 => g[i].calls = <<>>)
      OBVIOUS
    <2> DEFINE l == Len(g[i].calls)
               a == Cardinality(Waiting(g[i].state))
               b == Cardinality(Owned(g[i].state))
    <2>1. g[i].calls \in Seq(MapCalls)
      BY <1>8 DEF MapGood
    <2>2. l \in Nat /\ (l = 0 => g[i].calls = <<>>)
      BY <2>1, EmptySeq, LenProperties
    <2>3. a \in Nat /\ b \in Nat
      BY MapCounts
    <2>4. L(i) = l + a + b
      BY DEF MapLeft
    <2> HIDE DEF l, a, b, L
    <2> QED BY <2>2, <2>3, <2>4
  <1>10. L(0) <= MaxCalls
    <2> DEFINE a == Cardinality(Waiting(t))
               b == Cardinality(Owned(t))
               x == Cardinality(Clients)
               y == Cardinality(Frames)
    <2>1. L(0) = 1 + a + b
      <3>1. g[0].calls = q /\ g[0].state = t
        BY <1>3, BodyIs
      <3> QED BY <1>2, <3>1 DEF MapLeft
    <2>2. a \in Nat /\ b \in Nat /\ x \in Nat /\ y \in Nat /\ a <= x /\ b <= y
      BY MapCounts
    <2>3. MaxCalls = 4 * x + y + 2
      BY DEF MaxCalls
    <2> HIDE DEF a, b, x, y, L
    <2> QED BY <2>1, <2>2, <2>3
  <1> DEFINE m == [i \in 0..MaxCalls |-> L(i)]
             E == {i \in 0..MaxCalls : g[i].calls = <<>>}
  <1>11. \A i \in 0..(MaxCalls - 1) : IF i \in E THEN i + 1 \in E ELSE m[i + 1] < m[i]
    <2> SUFFICES ASSUME NEW i \in 0..(MaxCalls - 1)
                 PROVE  IF i \in E THEN i + 1 \in E ELSE m[i + 1] < m[i]
      OBVIOUS
    <2>1. i \in 0..MaxCalls /\ i + 1 \in 0..MaxCalls /\ MapGood(t, g[i])
      BY <1>2, <1>8
    <2>2. MapGoes(g[i], g[i + 1]) /\ (g[i].calls # <<>> => L(i + 1) < L(i))
      BY <1>5, <2>1
    <2> HIDE DEF L
    <2>3. m[i] = L(i) /\ m[i + 1] = L(i + 1)
      BY <2>1
    <2>4. g[i].calls = <<>> => g[i + 1].calls = <<>>
      BY <2>2 DEF MapGoes
    <2> QED BY <2>1, <2>2, <2>3, <2>4
  <1>12. MaxCalls \in E
    <2>1. \A i \in 0..MaxCalls : m[i] \in Nat /\ (m[i] = 0 => i \in E)
      <3> HIDE DEF L
      <3> QED BY <1>9
    <2>2. m[0] <= MaxCalls
      <3> HIDE DEF L
      <3> QED BY <1>2, <1>10
    <2> HIDE DEF m, E
    <2> QED BY <1>2, <1>11, <2>1, <2>2, Descends
  <1>13. \A i \in 0..(MaxCalls - 1) : MapGoes(g[i], g[i + 1])
    <2>1. \A i \in 0..(MaxCalls - 1) : i \in 0..MaxCalls
      BY <1>2
    <2> QED BY <1>5, <1>8, <2>1
  <1>14. IsMapRun(g, t, q)
    BY <1>3, <1>8, <1>12, <1>13 DEF IsMapRun
  <1> QED BY <1>1, <1>14 DEF q

(* The tab in front is mapped with its frame, and nothing is mapped in a   *)
(* frame that is not; the clients of X are just taken from theirs.         *)
Tabbed(t, X) ==
    /\ Flags(t)
    /\ \A c \in Clients : t.cmapped[c] => ~ t.cicon[c]
    /\ \A c \in Clients \ X : t.cmapped[c] => t.parent[c] \in Frames /\ t.fmapped[t.parent[c]]
    /\ \A f \in Frames : t.fmapped[f] =>
         Exists(t, f) /\ ~ t.ficon[f] /\ t.child[f] \in Clients /\ t.cmapped[t.child[f]]

(* The same while the calls of P are still to be made. *)
MapSound(t, P, X) ==
    /\ Flags(t)
    /\ \A c \in Clients : t.cmapped[c] => ~ t.cicon[c]
    /\ \A c \in Clients \ X : t.cmapped[c] => t.parent[c] \in Frames /\ t.fmapped[t.parent[c]]
    /\ \A f \in Frames : t.fmapped[f] =>
         /\ Exists(t, f) /\ ~ t.ficon[f] /\ t.child[f] \in Clients
         /\ t.cmapped[t.child[f]] \/ Call("MapClient", t.child[f]) \in P
    /\ \A c \in Clients : Call("MapClient", c) \in P =>
         t.parent[c] \in Frames /\ t.fmapped[t.parent[c]]
    /\ \A f \in Frames : Call("MapFrame", f) \in P =>
         t.child[f] \in Clients /\ t.parent[t.child[f]] = f

Grown(t, u) ==
    /\ \A f \in Frames : t.fmapped[f] => u.fmapped[f]
    /\ \A c \in Clients : t.cmapped[c] => u.cmapped[c]

(* What a call asks for. *)
Mapped(t, h) ==
    \/ \E f \in Frames : h = Call("MapFrame", f) /\ t.fmapped[f]
    \/ \E c \in Clients : h = Call("MapClient", c) /\ t.cmapped[c]

LEMMA MapTabsStep ==
    ASSUME NEW t, NEW u, NEW p, NEW q, NEW k, NEW X, Housed(t), SameTree(t, u),
           MapStep(t, u, p, q, k), MapSound(t, p, X)
    PROVE  MapSound(u, q, X) /\ Grown(t, u) /\ \A h : h \in p => h \in q \/ Mapped(u, h)
  <1>1. PICK w :
          \/ /\ SameFlags(t, u) /\ q = w
             /\ \/ \E f \in Frames : t.fmapped[f] /\ p = {Call("MapFrame", f)} \cup w
                \/ \E c \in Clients : t.cmapped[c] /\ p = {Call("MapClient", c)} \cup w
          \/ \E f \in Frames :
               /\ ~ t.fmapped[f] /\ FrameMapped(t, u, f) /\ p = {Call("MapFrame", f)} \cup w
               /\ q = CallsFor("MapClient", KidsOf(t, f)) \cup w
          \/ \E c \in Clients :
               /\ ~ t.cmapped[c] /\ ClientMapped(t, u, c) /\ p = {Call("MapClient", c)} \cup w
               /\ \/ q = w
                  \/ q = CallsFor("MapFrame", Family(t, c)) \cup w
    BY DEF MapStep
  <1>2. u.kids = t.kids /\ u.child = t.child /\ u.parent = t.parent
    BY DEF SameTree
  <1>3. Flags(t) /\ Flags(u)
    BY MapFlags DEF MapSound
  <1>4. ASSUME SameFlags(t, u), q = w, NEW f \in Frames, t.fmapped[f],
               p = {Call("MapFrame", f)} \cup w
        PROVE  MapSound(u, q, X) /\ Grown(t, u) /\ \A h : h \in p => h \in q \/ Mapped(u, h)
    <2>1. \A c \in Clients : Call("MapClient", c) \in q <=> Call("MapClient", c) \in p
      BY <1>4, MapCallTypes
    <2>2. MapSound(u, q, X)
      BY <1>2, <1>3, <1>4, <2>1 DEF MapSound, SameFlags, Exists
    <2> QED BY <1>4, <2>2 DEF Grown, Mapped, SameFlags
  <1>5. ASSUME SameFlags(t, u), q = w, NEW c \in Clients, t.cmapped[c],
               p = {Call("MapClient", c)} \cup w
        PROVE  MapSound(u, q, X) /\ Grown(t, u) /\ \A h : h \in p => h \in q \/ Mapped(u, h)
    <2>1. \A d \in Clients : Call("MapClient", d) \in p => Call("MapClient", d) \in q \/ d = c
      BY <1>5, MapCallTypes
    <2>2. MapSound(u, q, X)
      BY <1>2, <1>3, <1>5, <2>1 DEF MapSound, SameFlags, Exists
    <2> QED BY <1>5, <2>2 DEF Grown, Mapped, SameFlags
  <1>6. ASSUME NEW f \in Frames, ~ t.fmapped[f], FrameMapped(t, u, f),
               p = {Call("MapFrame", f)} \cup w, q = CallsFor("MapClient", KidsOf(t, f)) \cup w
        PROVE  MapSound(u, q, X) /\ Grown(t, u) /\ \A h : h \in p => h \in q \/ Mapped(u, h)
    <2>1. \A d \in Clients : Call("MapClient", d) \in q <=> Call("MapClient", d) \in p \/ t.parent[d] = f
      BY <1>6, MapCallTypes DEF CallsFor, KidsOf
    <2>2. \A g \in Frames : Call("MapFrame", g) \in q => Call("MapFrame", g) \in p
      BY <1>6, MapCallTypes DEF CallsFor
    <2>3. /\ \A g \in Frames : u.fmapped[g] <=> t.fmapped[g] \/ g = f
          /\ \A g \in Frames : u.ficon[g] <=> t.ficon[g] /\ g # f
          /\ u.cmapped = t.cmapped /\ u.cicon = t.cicon
      BY <1>3, <1>6 DEF FrameMapped, Flags
    <2>4. t.child[f] \in Clients /\ t.parent[t.child[f]] = f
      BY <1>6 DEF MapSound
    <2>5. Exists(t, f)
      <3>1. t.child[f] \in ToSet(t.kids[f])
        BY <2>4 DEF Housed
      <3> QED BY <3>1 DEF Exists, ToSet
    <2>6. MapSound(u, q, X)
      BY <1>2, <1>3, <2>1, <2>2, <2>3, <2>4, <2>5 DEF MapSound, Exists
    <2>7. Grown(t, u) /\ Mapped(u, Call("MapFrame", f))
      BY <2>3 DEF Grown, Mapped
    <2> QED BY <1>6, <2>6, <2>7
  <1>7. ASSUME NEW c \in Clients, ~ t.cmapped[c], ClientMapped(t, u, c),
               p = {Call("MapClient", c)} \cup w,
               q = w \/ q = CallsFor("MapFrame", Family(t, c)) \cup w
        PROVE  MapSound(u, q, X) /\ Grown(t, u) /\ \A h : h \in p => h \in q \/ Mapped(u, h)
    <2>1. \A d \in Clients : Call("MapClient", d) \in p <=> Call("MapClient", d) \in q \/ d = c
      BY <1>7, MapCallTypes DEF CallsFor
    <2>2. \A g \in Frames : Call("MapFrame", g) \in q => Call("MapFrame", g) \in p \/ g \in Family(t, c)
      BY <1>7, MapCallTypes DEF CallsFor
    <2>3. \A g \in Family(t, c) : t.child[g] \in Clients /\ t.parent[t.child[g]] = g
      BY DEF Family, InFront
    <2>4. /\ \A d \in Clients : u.cmapped[d] <=> t.cmapped[d] \/ d = c
          /\ \A d \in Clients : u.cicon[d] <=> t.cicon[d] /\ d # c
          /\ u.fmapped = t.fmapped /\ u.ficon = t.ficon
      BY <1>3, <1>7 DEF ClientMapped, Flags
    <2>5. MapSound(u, q, X)
      BY <1>2, <1>3, <2>1, <2>2, <2>3, <2>4 DEF MapSound, Exists
    <2>6. Grown(t, u) /\ Mapped(u, Call("MapClient", c))
      BY <2>4 DEF Grown, Mapped
    <2> QED BY <1>7, <2>5, <2>6
  <1> QED BY <1>1, <1>4, <1>5, <1>6, <1>7

LEMMA GrownOn ==
    ASSUME NEW t, NEW u, NEW v, Grown(t, u), Grown(u, v)
    PROVE  Grown(t, v)
  BY DEF Grown

LEMMA GrownMapped ==
    ASSUME NEW t, NEW u, Grown(t, u), NEW h, Mapped(t, h)
    PROVE  Mapped(u, h)
  BY DEF Grown, Mapped

LEMMA MapTabs ==
    ASSUME NEW t, Formed(t), Housed(t), NEW X, NEW h \in MapCalls, MapSound(t, {h}, X)
    PROVE  LET u == RunCalls(t, <<h>>)
           IN  /\ Tabbed(u, X) /\ Grown(t, u) /\ Mapped(u, h)
               /\ Keeps(t, u) /\ SamePlaces(t, u)
  <1>1. Flags(t)
    BY DEF MapSound
  <1>2. PICK g : IsMapRun(g, t, <<h>>) /\ RunCalls(t, <<h>>) = g[MaxCalls].state
    BY <1>1, MapRun
  <1> DEFINE P(i) == ToSet(g[i].calls)
             T == {i \in 0..MaxCalls : /\ MapSound(g[i].state, P(i), X) /\ Grown(t, g[i].state)
                                       /\ h \in P(i) \/ Mapped(g[i].state, h)}
  <1>3. g[0].state = t /\ P(0) = {h}
    <2>1. g[0].state = t /\ g[0].calls = <<h>>
      BY <1>2, BodyIs DEF IsMapRun
    <2>2. ToSet(<<h>>) = {h}
      BY DEF ToSet
    <2> QED BY <2>1, <2>2
  <1>4. 0 \in T
    <2>1. Grown(t, t)
      BY DEF Grown
    <2> HIDE DEF P
    <2> QED BY <1>3, <2>1, MaxCallsNat
  <1>5. ASSUME NEW i \in 0..(MaxCalls - 1), i \in T
        PROVE  i + 1 \in T
    <2>1. i \in 0..MaxCalls /\ i + 1 \in 0..MaxCalls
      BY MaxCallsNat
    <2>2. MapGood(t, g[i]) /\ MapGood(t, g[i + 1]) /\ MapGoes(g[i], g[i + 1])
      BY <1>2, <2>1 DEF IsMapRun
    <2>3. CASE g[i + 1] = g[i]
      BY <1>5, <2>1, <2>3
    <2>4. CASE \E k : MapStep(g[i].state, g[i + 1].state, P(i), P(i + 1), k)
      <3> DEFINE a == g[i].state
                 b == g[i + 1].state
      <3>1. PICK k : MapStep(a, b, P(i), P(i + 1), k)
        BY <2>4
      <3>2. Housed(a) /\ SameTree(a, b)
        BY <2>2, KeepsHoused DEF MapGood, Keeps, SameTree
      <3>3. MapSound(a, P(i), X) /\ Grown(t, a) /\ (h \in P(i) \/ Mapped(a, h))
        BY <1>5
      <3> HIDE DEF a, b, P
      <3>4. MapSound(b, P(i + 1), X) /\ Grown(a, b)
            /\ \A x : x \in P(i) => x \in P(i + 1) \/ Mapped(b, x)
        BY <3>1, <3>2, <3>3, MapTabsStep
      <3>6. Grown(t, b)
        BY <3>3, <3>4, GrownOn
      <3>7. Mapped(a, h) => Mapped(b, h)
        BY <3>4, GrownMapped
      <3>5. Grown(t, b) /\ (h \in P(i + 1) \/ Mapped(b, h))
        BY <3>3, <3>4, <3>6, <3>7
      <3> QED BY <2>1, <3>4, <3>5 DEF b
    <2> QED BY <2>2, <2>3, <2>4 DEF MapGoes
  <1>6. MaxCalls \in T
    <2>1. \A i \in 0..MaxCalls : i \in T
      <3> HIDE DEF T
      <3> QED BY <1>4, <1>5, MaxCallsNat, Upward
    <2> QED BY <2>1, MaxCallsNat
  <1>7. P(MaxCalls) = {}
    <2>1. g[MaxCalls].calls = <<>>
      BY <1>2 DEF IsMapRun
    <2> QED BY <2>1, EmptyCalls
  <1>8. Keeps(t, g[MaxCalls].state) /\ SamePlaces(t, g[MaxCalls].state)
    BY <1>2, MaxCallsNat DEF IsMapRun, MapGood
  <1> DEFINE u == g[MaxCalls].state
  <1>9. MapSound(u, {}, X) /\ Grown(t, u) /\ Mapped(u, h)
    BY <1>6, <1>7
  <1> HIDE DEF u, T, P
  <1>10. Tabbed(u, X)
    BY <1>9 DEF MapSound, Tabbed
  <1> QED BY <1>2, <1>8, <1>9, <1>10 DEF u

(* PDecor::mapWindow and Client::mapWindow. *)
LEMMA MapFrameTabs ==
    ASSUME NEW t, Formed(t), Housed(t), NEW X, Tabbed(t, X), NEW f \in Frames,
           t.child[f] \in Clients, t.parent[t.child[f]] = f
    PROVE  LET u == MapFrame(t, f)
           IN  Tabbed(u, X) /\ Grown(t, u) /\ u.fmapped[f] /\ Keeps(t, u) /\ SamePlaces(t, u)
  <1> DEFINE h == Call("MapFrame", f)
             u == MapFrame(t, f)
  <1>1. h \in MapCalls
    BY MapCallTypes
  <1>2. \A g \in Frames : Call("MapFrame", g) = h => g = f
    BY MapCallTypes
  <1>3. \A c \in Clients : Call("MapClient", c) # h
    BY MapCallTypes
  <1>4. u = RunCalls(t, <<h>>)
    BY DEF MapFrame
  <1> HIDE DEF h, u
  <1>5. MapSound(t, {h}, X)
    BY <1>2, <1>3 DEF MapSound, Tabbed
  <1>6. /\ Tabbed(u, X) /\ Grown(t, u) /\ Mapped(u, h) /\ Keeps(t, u) /\ SamePlaces(t, u)
    BY <1>1, <1>4, <1>5, MapTabs
  <1>7. u.fmapped[f]
    BY <1>2, <1>3, <1>6 DEF Mapped
  <1> QED BY <1>6, <1>7 DEF u

LEMMA MapClientTabs ==
    ASSUME NEW t, Formed(t), Housed(t), NEW X, Tabbed(t, X), NEW c \in Clients,
           t.parent[c] \in Frames, t.fmapped[t.parent[c]]
    PROVE  LET u == MapClient(t, c)
           IN  Tabbed(u, X) /\ Grown(t, u) /\ u.cmapped[c] /\ Keeps(t, u) /\ SamePlaces(t, u)
  <1> DEFINE h == Call("MapClient", c)
             u == MapClient(t, c)
  <1>1. h \in MapCalls
    BY MapCallTypes
  <1>2. \A d \in Clients : Call("MapClient", d) = h => d = c
    BY MapCallTypes
  <1>3. \A f \in Frames : Call("MapFrame", f) # h
    BY MapCallTypes
  <1>4. u = RunCalls(t, <<h>>)
    BY DEF MapClient
  <1> HIDE DEF h, u
  <1>5. MapSound(t, {h}, X)
    BY <1>2, <1>3 DEF MapSound, Tabbed
  <1>6. /\ Tabbed(u, X) /\ Grown(t, u) /\ Mapped(u, h) /\ Keeps(t, u) /\ SamePlaces(t, u)
    BY <1>1, <1>4, <1>5, MapTabs
  <1>7. u.cmapped[c]
    BY <1>2, <1>3, <1>6 DEF Mapped
  <1> QED BY <1>6, <1>7 DEF u

(* Runs that hide: Frame::iconify, PDecor::unmapWindow.                    *)
HideCalls ==
    [name : {"IconifyFrame", "UnmapFrame", "HideFrame"}, of : Frames]
    \cup [name : {"IconifyClient", "UnmapClient"}, of : Clients]

LEMMA HideCallTypes ==
    /\ \A f \in Frames, n \in {"IconifyFrame", "UnmapFrame", "HideFrame"} : Call(n, f) \in HideCalls
    /\ \A c \in Clients, n \in {"IconifyClient", "UnmapClient"} : Call(n, c) \in HideCalls
    /\ \A h \in HideCalls : \/ \E f \in Frames : \/ h = Call("IconifyFrame", f)
                                                 \/ h = Call("UnmapFrame", f)
                                                 \/ h = Call("HideFrame", f)
                            \/ \E c \in Clients : \/ h = Call("IconifyClient", c)
                                                  \/ h = Call("UnmapClient", c)
    /\ HideCalls \subseteq Calls
  BY DEF HideCalls, Call, Calls

LEMMA CallApart ==
    ASSUME NEW n, NEW m, NEW x, NEW y, Call(n, x) = Call(m, y)
    PROVE  n = m /\ x = y
  BY CallIs

Iconified(t, u, f) ==
    /\ u.ficon = [t.ficon EXCEPT ![f] = TRUE] /\ u.fmapped = t.fmapped
    /\ u.cmapped = t.cmapped /\ u.cicon = t.cicon

Hidden(t, u, f) ==
    /\ u.fmapped = [t.fmapped EXCEPT ![f] = FALSE] /\ u.ficon = t.ficon
    /\ u.cmapped = t.cmapped /\ u.cicon = t.cicon

ClientIconified(t, u, c) ==
    /\ u.cicon = [t.cicon EXCEPT ![c] = TRUE] /\ u.cmapped = t.cmapped
    /\ u.fmapped = t.fmapped /\ u.ficon = t.ficon

ClientHidden(t, u, c) ==
    /\ u.cmapped = [t.cmapped EXCEPT ![c] = FALSE] /\ u.cicon = t.cicon
    /\ u.fmapped = t.fmapped /\ u.ficon = t.ficon

(* One call h of such a run: w is what is pending behind it, q what is     *)
(* pending after it, and there are k more calls.                           *)
Idle(t, h) ==
    \/ \E f \in Frames : t.ficon[f] /\ h = Call("IconifyFrame", f)
    \/ \E f \in Frames : ~ t.fmapped[f] /\ h = Call("UnmapFrame", f)
    \/ \E c \in Clients : t.cicon[c] /\ h = Call("IconifyClient", c)

KidsCalls(t, f) == CallsFor(IF t.ficon[f] THEN "IconifyClient" ELSE "UnmapClient", KidsOf(t, f))

HideStep(t, u, h, w, q, k) ==
    \/ Idle(t, h) /\ SameFlags(t, u) /\ q = w /\ k = -1
    \/ \E c \in Clients : h = Call("UnmapClient", c) /\ ClientHidden(t, u, c) /\ q = w /\ k = -1
    \/ \E f \in Frames : h = Call("HideFrame", f) /\ Hidden(t, u, f) /\ q = w /\ k = -1
    \/ \E f \in Frames :
         /\ ~ t.ficon[f] /\ h = Call("IconifyFrame", f) /\ Iconified(t, u, f)
         /\ q = {Call("UnmapFrame", f)} \cup w /\ k = 0
    \/ \E f \in Frames :
         /\ t.fmapped[f] /\ h = Call("UnmapFrame", f) /\ SameFlags(t, u)
         /\ q = KidsCalls(t, f) \cup {Call("HideFrame", f)} \cup w
         /\ k = Cardinality(KidsOf(t, f))
    \/ \E c \in Clients :
         /\ ~ t.cicon[c] /\ h = Call("IconifyClient", c) /\ ClientIconified(t, u, c)
         /\ \E G \in {{}, Family(t, c)} :
              /\ q = CallsFor("IconifyFrame", G) \cup {Call("UnmapClient", c)} \cup w
              /\ k = Cardinality(G)

NoUnmap(P) == \A f \in Frames : Call("UnmapFrame", f) \notin P
Behind(r) == IF r.calls = <<>> THEN {} ELSE ToSet(Tail(r.calls))

LEMMA HideFields ==
    ASSUME NEW t, DOMAIN t = Fields
    PROVE  /\ \A f : LET u == [t EXCEPT !.ficon[f] = TRUE]
                     IN  Iconified(t, u, f) /\ SamePlaces(t, u)
           /\ \A c : LET u == [t EXCEPT !.cicon[c] = TRUE]
                     IN  ClientIconified(t, u, c) /\ SamePlaces(t, u)
  BY DEF Iconified, ClientIconified, SamePlaces, Fields

LEMMA UnmapClientFields ==
    ASSUME NEW t, DOMAIN t = Fields, Flags(t), NEW c \in Clients
    PROVE  LET u == UnmapClient(t, c)
           IN  ClientHidden(t, u, c) /\ SamePlaces(t, u)
  <1> DEFINE v == [t EXCEPT !.cmapped[c] = FALSE]
  <1>1. ClientHidden(t, v, c) /\ SamePlaces(t, v) /\ DOMAIN v = Fields
    BY DEF ClientHidden, SamePlaces, Fields
  <1> HIDE DEF v
  <1>2. SameLook(v, XUnmapWindow(v, c))
    BY <1>1, XUnmapWindowLook
  <1>3. ClientHidden(t, XUnmapWindow(v, c), c) /\ SamePlaces(t, XUnmapWindow(v, c))
    BY <1>1, <1>2 DEF SameLook, SameFlags, SamePlaces, ClientHidden
  <1>4. ~ t.cmapped[c] => ClientHidden(t, t, c) /\ SamePlaces(t, t)
    <2>1. ~ t.cmapped[c] => t.cmapped = [t.cmapped EXCEPT ![c] = FALSE]
      BY DEF Flags
    <2> QED BY <2>1 DEF ClientHidden, SamePlaces
  <1> QED BY <1>3, <1>4 DEF UnmapClient, v

LEMMA HideFrameFields ==
    ASSUME NEW t, DOMAIN t = Fields, NEW f
    PROVE  LET u == HideFrame(t, f)
           IN  Hidden(t, u, f) /\ SamePlaces(t, u)
  <1> DEFINE v == [t EXCEPT !.fmapped[f] = FALSE, !.ffocused[f] = FALSE]
  <1>1. Hidden(t, v, f) /\ SamePlaces(t, v) /\ DOMAIN v = Fields
    BY DEF Hidden, SamePlaces, Fields
  <1> HIDE DEF v
  <1>2. SameLook(v, Post(v, Unmapped(None)))
    BY <1>1, PostLook
  <1> QED BY <1>1, <1>2 DEF SameLook, SameFlags, SamePlaces, Hidden, HideFrame, v

(* What the body of a call comes to. *)
LEMMA CallMade ==
    ASSUME NEW S, NEW r, r.calls \in Seq(S), r.calls # <<>>, NEW v, NEW q \in Seq(S),
           BodyOf(r.state, Head(r.calls)) = Body(v, q)
    PROVE  LET n == NextCall(r)
           IN  /\ n.state = v /\ n.calls \in Seq(S) /\ Len(r.calls) \in Nat /\ Len(n.calls) \in Nat
               /\ Len(n.calls) - Len(r.calls) = Len(q) - 1
               /\ ToSet(n.calls) = ToSet(q) \cup Behind(r)
               /\ n.calls = q \o Tail(r.calls) /\ Behind(n) \subseteq ToSet(n.calls)
  <1> DEFINE n == NextCall(r)
             b == BodyOf(r.state, Head(r.calls))
  <1>1. b.state = v /\ b.calls = q
    BY BodyIs
  <1>2. b = BodyOf(r.state, Head(r.calls)) /\ b.calls \in Seq(S)
    BY <1>1
  <1> HIDE DEF b
  <1>3. /\ n.state = b.state /\ n.calls \in Seq(S) /\ n.calls = b.calls \o Tail(r.calls)
        /\ Len(n.calls) = Len(b.calls) + Len(r.calls) - 1
        /\ ToSet(n.calls) = ToSet(b.calls) \cup ToSet(Tail(r.calls))
        /\ Len(r.calls) \in Nat /\ Len(b.calls) \in Nat
    BY <1>2, NextCallIs
  <1> HIDE DEF n
  <1>4. Len(n.calls) \in Nat /\ Len(n.calls) - Len(r.calls) = Len(q) - 1
    BY <1>1, <1>3, LenProperties
  <1>5. Behind(r) = ToSet(Tail(r.calls))
    BY DEF Behind
  <1>6. Behind(n) \subseteq ToSet(n.calls)
    <2>1. n.calls # <<>> => ToSet(n.calls) = {Head(n.calls)} \cup ToSet(Tail(n.calls))
      BY <1>3, TailElements
    <2> QED BY <2>1 DEF Behind
  <1> QED BY <1>1, <1>3, <1>4, <1>5, <1>6 DEF n

LEMMA HideBodies ==
    ASSUME NEW t
    PROVE  /\ \A f : /\ BodyOf(t, Call("IconifyFrame", f)) = IconifyFrameBody(t, f)
                     /\ BodyOf(t, Call("UnmapFrame", f)) = UnmapFrameBody(t, f)
                     /\ BodyOf(t, Call("HideFrame", f)) = Body(HideFrame(t, f), <<>>)
           /\ \A c : /\ BodyOf(t, Call("IconifyClient", c)) = IconifyClientBody(t, c)
                     /\ BodyOf(t, Call("UnmapClient", c)) = Body(UnmapClient(t, c), <<>>)
  BY CallIs DEF BodyOf

LEMMA OneCall ==
    ASSUME NEW S, NEW h \in S
    PROVE  <<h>> \in Seq(S) /\ ToSet(<<h>>) = {h} /\ Len(<<h>>) = 1
  <1>1. <<h>> \in Seq(S) /\ Len(<<h>>) = 1
    OBVIOUS
  <1>2. ToSet(<<h>>) = {h}
    BY <1>1, ToSetOfSeq
  <1> QED BY <1>1, <1>2

HideMade(r, n) ==
    /\ n.calls \in Seq(HideCalls) /\ SamePlaces(r.state, n.state)
    /\ Len(r.calls) \in Nat /\ Len(n.calls) \in Nat
    /\ HideStep(r.state, n.state, Head(r.calls), Behind(r), ToSet(n.calls),
                Len(n.calls) - Len(r.calls))
    /\ NoUnmap(Behind(r)) => NoUnmap(Behind(n))

Made(r, n, v, q) ==
    /\ n.state = v /\ n.calls \in Seq(HideCalls) /\ Len(r.calls) \in Nat
    /\ Len(n.calls) \in Nat /\ Len(n.calls) - Len(r.calls) = Len(q) - 1
    /\ ToSet(n.calls) = ToSet(q) \cup Behind(r)
    /\ n.calls = q \o Tail(r.calls) /\ Behind(n) \subseteq ToSet(n.calls)

LEMMA HideCallMade ==
    ASSUME NEW r, r.calls \in Seq(HideCalls), r.calls # <<>>, NEW v, NEW q, q \in Seq(HideCalls),
           BodyOf(r.state, Head(r.calls)) = Body(v, q)
    PROVE  Made(r, NextCall(r), v, q)
  BY CallMade DEF Made

LEMMA HideConcat ==
    ASSUME NEW q, NEW p, q \in Seq(HideCalls), p \in Seq(HideCalls)
    PROVE  /\ q \o p \in Seq(HideCalls) /\ Len(q \o p) = Len(q) + Len(p)
           /\ ToSet(q \o p) = ToSet(q) \cup ToSet(p)
  BY ConcatElements

(* A call that makes no others. *)
LEMMA HideLeaf ==
    ASSUME NEW r, r.calls \in Seq(HideCalls), r.calls # <<>>, NEW v, SamePlaces(r.state, v),
           BodyOf(r.state, Head(r.calls)) = Body(v, <<>>),
           HideStep(r.state, v, Head(r.calls), Behind(r), Behind(r), -1)
    PROVE  HideMade(r, NextCall(r))
  <1> DEFINE n == NextCall(r)
             w == Behind(r)
             e == <<>>
  <1>1. e \in Seq(HideCalls) /\ ToSet(e) = {} /\ Len(e) = 0
    BY EmptyCalls
  <1>2. BodyOf(r.state, Head(r.calls)) = Body(v, e)
    OBVIOUS
  <1>0. n = NextCall(r) /\ w = Behind(r)
    OBVIOUS
  <1> HIDE DEF n, w, e
  <1>3. /\ n.state = v /\ n.calls \in Seq(HideCalls) /\ Len(r.calls) \in Nat /\ Len(n.calls) \in Nat
        /\ Len(n.calls) - Len(r.calls) = Len(e) - 1
        /\ ToSet(n.calls) = ToSet(e) \cup w /\ Behind(n) \subseteq ToSet(n.calls)
    <2>1. Made(r, NextCall(r), v, e)
      BY <1>1, <1>2, HideCallMade
    <2> QED BY <1>0, <2>1 DEF Made
  <1>4. ToSet(n.calls) = {} \cup w /\ Len(n.calls) - Len(r.calls) = 0 - 1
    BY <1>1, <1>3, Zenon
  <1>5. {} \cup w = w /\ 0 - 1 = -1
    OBVIOUS
  <1>6. ToSet(n.calls) = w /\ Len(n.calls) - Len(r.calls) = -1
    BY <1>4, <1>5, Zenon
  <1>7. NoUnmap(w) => NoUnmap(Behind(n))
    BY <1>3, <1>6 DEF NoUnmap
  <1>8. HideStep(r.state, v, Head(r.calls), w, w, -1)
    BY DEF w
  <1>9. HideStep(r.state, n.state, Head(r.calls), w, ToSet(n.calls), Len(n.calls) - Len(r.calls))
    BY <1>3, <1>6, <1>8, Zenon
  <1> QED BY <1>3, <1>7, <1>9, Zenon DEF HideMade, n, w

(* Frame::iconify *)
LEMMA HideIconifyFrame ==
    ASSUME NEW r, r.calls \in Seq(HideCalls), r.calls # <<>>, DOMAIN r.state = Fields,
           NEW f \in Frames, Head(r.calls) = Call("IconifyFrame", f), ~ r.state.ficon[f]
    PROVE  HideMade(r, NextCall(r))
  <1> DEFINE n == NextCall(r)
             t == r.state
             w == Behind(r)
             v == [t EXCEPT !.ficon[f] = TRUE]
             x == Call("UnmapFrame", f)
             q == <<x>>
  <1>1. BodyOf(t, Head(r.calls)) = Body(v, q)
    BY HideBodies DEF IconifyFrameBody
  <1>2. x \in HideCalls
    BY HideCallTypes
  <1>3. Iconified(t, v, f) /\ SamePlaces(t, v)
    BY HideFields
  <1> HIDE DEF x, v
  <1>4. q \in Seq(HideCalls) /\ ToSet(q) = {x} /\ Len(q) = 1
    BY <1>2, OneCall
  <1>5. Tail(q \o Tail(r.calls)) = Tail(r.calls) /\ q \o Tail(r.calls) # <<>>
    <2>1. Tail(r.calls) \in Seq(HideCalls)
      OBVIOUS
    <2> DEFINE z == Tail(r.calls)
    <2>2. z \in Seq(HideCalls)
      BY <2>1
    <2> HIDE DEF z
    <2>3. Tail(<<x>> \o z) = z /\ <<x>> \o z # <<>>
      BY <1>2, <2>2, HeadTailProperties
    <2> QED BY <2>3 DEF z
  <1>0. n = NextCall(r) /\ w = Behind(r) /\ t = r.state
    OBVIOUS
  <1> HIDE DEF n, w, q, t
  <1>6. /\ n.state = v /\ n.calls \in Seq(HideCalls) /\ Len(r.calls) \in Nat /\ Len(n.calls) \in Nat
        /\ Len(n.calls) - Len(r.calls) = Len(q) - 1
        /\ ToSet(n.calls) = ToSet(q) \cup w /\ n.calls = q \o Tail(r.calls)
    <2>1. Made(r, NextCall(r), v, q)
      BY <1>0, <1>1, <1>4, HideCallMade
    <2> QED BY <1>0, <2>1 DEF Made
  <1>7. Behind(n) = w
    BY <1>5, <1>6 DEF Behind, w
  <1>8. Len(n.calls) - Len(r.calls) = 1 - 1 /\ ToSet(n.calls) = {x} \cup w
    BY <1>4, <1>6, Zenon
  <1>9. 1 - 1 = 0
    OBVIOUS
  <1>10. Len(n.calls) - Len(r.calls) = 0
    BY <1>8, <1>9, Zenon
  <1>11. HideStep(t, n.state, Head(r.calls), w, ToSet(n.calls), Len(n.calls) - Len(r.calls))
    BY <1>3, <1>6, <1>8, <1>10 DEF HideStep, x, t
  <1> QED BY <1>3, <1>6, <1>7, <1>11 DEF HideMade, n, w, t

(* PDecor::unmapWindow *)
LEMMA HideUnmapFrame ==
    ASSUME NEW r, r.calls \in Seq(HideCalls), r.calls # <<>>, Housed(r.state),
           NEW f \in Frames, Head(r.calls) = Call("UnmapFrame", f), r.state.fmapped[f]
    PROVE  HideMade(r, NextCall(r))
  <1> DEFINE n == NextCall(r)
             t == r.state
             w == Behind(r)
             name == IF t.ficon[f] THEN "IconifyClient" ELSE "UnmapClient"
             a == ForEach(name, t.kids[f])
             x == Call("HideFrame", f)
             q == a \o <<x>>
             m == Cardinality(KidsOf(t, f))
  <1>1. BodyOf(t, Head(r.calls)) = Body(t, q)
    BY HideBodies DEF UnmapFrameBody
  <1>2. x \in HideCalls /\ name \in {"IconifyClient", "UnmapClient"} /\ t.kids[f] \in Seq(Clients)
    BY HideCallTypes DEF Housed
  <1>3. \A i \in 1..Len(t.kids[f]) : Call(name, t.kids[f][i]) \in HideCalls
    <2> HIDE DEF name, t
    <2> QED BY <1>2, HideCallTypes
  <1>4. /\ a \in Seq(HideCalls) /\ Len(a) = m /\ m \in Nat
        /\ ToSet(a) = CallsFor(name, KidsOf(t, f))
    <2>1. Len(t.kids[f]) \in Nat
      BY <1>2, LenProperties
    <2> HIDE DEF name
    <2>2. a \in Seq(HideCalls)
      BY <1>2, <1>3 DEF ForEach
    <2>3. Len(t.kids[f]) = m /\ ToSet(t.kids[f]) = KidsOf(t, f)
      BY KidsCount
    <2> HIDE DEF a, m
    <2>4. Len(a) = Len(t.kids[f]) /\ ToSet(a) = {Call(name, c) : c \in ToSet(t.kids[f])}
      BY <1>2, ForEachElements DEF a
    <2> QED BY <2>1, <2>2, <2>3, <2>4 DEF CallsFor
  <1>5. <<x>> \in Seq(HideCalls) /\ ToSet(<<x>>) = {x} /\ Len(<<x>>) = 1
    BY <1>2, OneCall
  <1>6. /\ \A g \in Frames : Call("UnmapFrame", g) \notin CallsFor(name, KidsOf(t, f))
        /\ \A g \in Frames : Call("UnmapFrame", g) # x
    BY CallApart DEF CallsFor
  <1> HIDE DEF a, x, m, name
  <1>7. q \in Seq(HideCalls) /\ Len(q) = m + 1 /\ ToSet(q) = CallsFor(name, KidsOf(t, f)) \cup {x}
    <2> DEFINE z == <<x>>
    <2>1. z \in Seq(HideCalls) /\ ToSet(z) = {x} /\ Len(z) = 1
      BY <1>5
    <2> HIDE DEF z
    <2>2. a \o z \in Seq(HideCalls) /\ Len(a \o z) = Len(a) + Len(z) /\ ToSet(a \o z) = ToSet(a) \cup ToSet(z)
      BY <1>4, <2>1, HideConcat
    <2>3. Len(a \o z) = m + 1 /\ ToSet(a \o z) = CallsFor(name, KidsOf(t, f)) \cup {x}
      BY <1>4, <2>1, <2>2, Zenon
    <2> QED BY <2>2, <2>3 DEF z
  <1>0. n = NextCall(r) /\ w = Behind(r) /\ t = r.state
    OBVIOUS
  <1> HIDE DEF n, w, q, t
  <1>8. /\ n.state = t /\ n.calls \in Seq(HideCalls) /\ Len(r.calls) \in Nat /\ Len(n.calls) \in Nat
        /\ Len(n.calls) - Len(r.calls) = Len(q) - 1
        /\ ToSet(n.calls) = ToSet(q) \cup w /\ Behind(n) \subseteq ToSet(n.calls)
    <2>1. Made(r, NextCall(r), t, q)
      BY <1>0, <1>1, <1>7, HideCallMade
    <2> QED BY <1>0, <2>1 DEF Made
  <1>9. /\ Len(n.calls) - Len(r.calls) = (m + 1) - 1
        /\ ToSet(n.calls) = CallsFor(name, KidsOf(t, f)) \cup {x} \cup w
    BY <1>7, <1>8, Zenon
  <1>10. (m + 1) - 1 = m
    BY <1>4
  <1>11. Len(n.calls) - Len(r.calls) = m
    BY <1>9, <1>10, Zenon
  <1>12. NoUnmap(w) => NoUnmap(Behind(n))
    BY <1>6, <1>8, <1>9 DEF NoUnmap
  <1>13. SameFlags(t, t) /\ SamePlaces(t, t)
    BY DEF SameFlags, SamePlaces
  <1>14. ToSet(n.calls) = KidsCalls(t, f) \cup {Call("HideFrame", f)} \cup w
    BY <1>9 DEF KidsCalls, name, x
  <1>15. HideStep(t, n.state, Head(r.calls), w, ToSet(n.calls), Len(n.calls) - Len(r.calls))
    BY <1>8, <1>11, <1>13, <1>14 DEF HideStep, m, t
  <1> QED BY <1>8, <1>12, <1>13, <1>15 DEF HideMade, n, w, t

(* Client::iconify *)
LEMMA HideIconifyClient ==
    ASSUME NEW r, r.calls \in Seq(HideCalls), r.calls # <<>>, DOMAIN r.state = Fields,
           NEW c \in Clients, Head(r.calls) = Call("IconifyClient", c), ~ r.state.cicon[c]
    PROVE  HideMade(r, NextCall(r))
  <1> DEFINE n == NextCall(r)
             t == r.state
             w == Behind(r)
             v == [t EXCEPT !.cicon[c] = TRUE]
             p == ForEach("IconifyFrame", FamilyFrames(t, c))
             a == IF t.transient[c] # None THEN <<>> ELSE p
             x == Call("UnmapClient", c)
             q == a \o <<x>>
  <1>1. BodyOf(t, Head(r.calls)) = Body(v, q)
    BY HideBodies DEF IconifyClientBody
  <1>2. x \in HideCalls /\ FamilyFrames(t, c) \in Seq(Frames)
    BY HideCallTypes, FamilyTypes
  <1>3. ClientIconified(t, v, c) /\ SamePlaces(t, v)
    BY HideFields
  <1>4. \A i \in 1..Len(FamilyFrames(t, c)) : Call("IconifyFrame", FamilyFrames(t, c)[i]) \in HideCalls
    BY <1>2, HideCallTypes
  <1>5. /\ p \in Seq(HideCalls) /\ Len(p) = Cardinality(Family(t, c))
        /\ ToSet(p) = CallsFor("IconifyFrame", Family(t, c)) /\ Len(p) \in Nat
    <2>1. p \in Seq(HideCalls)
      BY <1>2, <1>4 DEF ForEach
    <2>2. /\ Len(FamilyFrames(t, c)) = Cardinality(Family(t, c))
          /\ ToSet(FamilyFrames(t, c)) = Family(t, c)
      BY FamilyCount
    <2> HIDE DEF p
    <2>3. /\ Len(p) = Len(FamilyFrames(t, c))
          /\ ToSet(p) = {Call("IconifyFrame", f) : f \in ToSet(FamilyFrames(t, c))}
      BY <1>2, ForEachElements DEF p
    <2>4. Len(p) \in Nat
      BY <2>1, LenProperties
    <2> QED BY <2>1, <2>2, <2>3, <2>4 DEF CallsFor
  <1>6. \E G \in {{}, Family(t, c)} :
           /\ a \in Seq(HideCalls) /\ Len(a) = Cardinality(G) /\ Len(a) \in Nat
           /\ ToSet(a) = CallsFor("IconifyFrame", G)
    <2>1. CASE t.transient[c] # None
      <3>1. a = <<>>
        BY <2>1
      <3> HIDE DEF a
      <3>2. CallsFor("IconifyFrame", {}) = {} /\ Cardinality({}) = 0
        BY FS_EmptySet DEF CallsFor
      <3>3. a \in Seq(HideCalls) /\ ToSet(a) = {} /\ Len(a) = 0
        BY <3>1, EmptyCalls
      <3> QED BY <3>2, <3>3
    <2>2. CASE t.transient[c] = None
      <3>1. a = p
        BY <2>2
      <3> HIDE DEF a, p
      <3> QED BY <1>5, <3>1
    <2> QED BY <2>1, <2>2
  <1> HIDE DEF a, p
  <1>7. PICK G \in {{}, Family(t, c)} :
           /\ a \in Seq(HideCalls) /\ Len(a) = Cardinality(G) /\ Len(a) \in Nat
           /\ ToSet(a) = CallsFor("IconifyFrame", G)
    BY <1>6
  <1>8. <<x>> \in Seq(HideCalls) /\ ToSet(<<x>>) = {x} /\ Len(<<x>>) = 1
    BY <1>2, OneCall
  <1>9. /\ \A g \in Frames : Call("UnmapFrame", g) \notin CallsFor("IconifyFrame", G)
        /\ \A g \in Frames : Call("UnmapFrame", g) # x
    BY CallApart DEF CallsFor
  <1> DEFINE m == Cardinality(G)
  <1> HIDE DEF x, v, m
  <1>10. q \in Seq(HideCalls) /\ Len(q) = m + 1 /\ ToSet(q) = CallsFor("IconifyFrame", G) \cup {x}
    <2> DEFINE z == <<x>>
    <2>1. z \in Seq(HideCalls) /\ ToSet(z) = {x} /\ Len(z) = 1
      BY <1>8
    <2> HIDE DEF z
    <2>2. a \o z \in Seq(HideCalls) /\ Len(a \o z) = Len(a) + Len(z) /\ ToSet(a \o z) = ToSet(a) \cup ToSet(z)
      BY <1>7, <2>1, HideConcat
    <2>3. Len(a \o z) = m + 1 /\ ToSet(a \o z) = CallsFor("IconifyFrame", G) \cup {x}
      BY <1>7, <2>1, <2>2, Zenon DEF m
    <2> QED BY <2>2, <2>3 DEF z
  <1>0. n = NextCall(r) /\ w = Behind(r) /\ t = r.state
    OBVIOUS
  <1> HIDE DEF n, w, q, t
  <1>11. /\ n.state = v /\ n.calls \in Seq(HideCalls) /\ Len(r.calls) \in Nat /\ Len(n.calls) \in Nat
         /\ Len(n.calls) - Len(r.calls) = Len(q) - 1
         /\ ToSet(n.calls) = ToSet(q) \cup w /\ Behind(n) \subseteq ToSet(n.calls)
    <2>1. Made(r, NextCall(r), v, q)
      BY <1>0, <1>1, <1>10, HideCallMade
    <2> QED BY <1>0, <2>1 DEF Made
  <1>12. /\ Len(n.calls) - Len(r.calls) = (m + 1) - 1
         /\ ToSet(n.calls) = CallsFor("IconifyFrame", G) \cup {x} \cup w
    BY <1>10, <1>11, Zenon
  <1>13. (m + 1) - 1 = m
    BY <1>7 DEF m
  <1>14. Len(n.calls) - Len(r.calls) = m
    BY <1>12, <1>13, Zenon
  <1>15. NoUnmap(w) => NoUnmap(Behind(n))
    BY <1>9, <1>11, <1>12 DEF NoUnmap
  <1>16. HideStep(t, n.state, Head(r.calls), w, ToSet(n.calls), Len(n.calls) - Len(r.calls))
    BY <1>3, <1>7, <1>11, <1>12, <1>14 DEF HideStep, m, x, t
  <1> QED BY <1>3, <1>11, <1>15, <1>16 DEF HideMade, n, w, t

LEMMA HideNext ==
    ASSUME NEW r, Formed(r.state), Housed(r.state), Flags(r.state),
           r.calls \in Seq(HideCalls), r.calls # <<>>
    PROVE  /\ HideMade(r, NextCall(r)) /\ Keeps(r.state, NextCall(r).state)
           /\ ToSet(r.calls) = {Head(r.calls)} \cup Behind(r)
  <1> DEFINE t == r.state
             h == Head(r.calls)
             w == Behind(r)
  <1>1. h \in HideCalls /\ DOMAIN t = Fields /\ SamePlaces(t, t) /\ SameFlags(t, t)
    BY DEF Formed, SamePlaces, SameFlags
  <1>2. HideMade(r, NextCall(r))
    <2>1. ASSUME Idle(t, h), BodyOf(t, h) = Body(t, <<>>)
          PROVE  HideMade(r, NextCall(r))
      <3>1. HideStep(t, t, h, w, w, -1)
        BY <1>1, <2>1 DEF HideStep
      <3> QED BY <1>1, <2>1, <3>1, HideLeaf
    <2>2. ASSUME NEW c \in Clients, h = Call("UnmapClient", c)
          PROVE  HideMade(r, NextCall(r))
      <3> DEFINE u == UnmapClient(t, c)
      <3>1. ClientHidden(t, u, c) /\ SamePlaces(t, u)
        BY <1>1, UnmapClientFields
      <3>2. BodyOf(t, h) = Body(u, <<>>)
        BY <2>2, HideBodies
      <3> HIDE DEF u
      <3>3. HideStep(t, u, h, w, w, -1)
        BY <2>2, <3>1 DEF HideStep
      <3> QED BY <3>1, <3>2, <3>3, HideLeaf
    <2>3. ASSUME NEW f \in Frames, h = Call("HideFrame", f)
          PROVE  HideMade(r, NextCall(r))
      <3> DEFINE u == HideFrame(t, f)
      <3>1. Hidden(t, u, f) /\ SamePlaces(t, u)
        BY <1>1, HideFrameFields
      <3>2. BodyOf(t, h) = Body(u, <<>>)
        BY <2>3, HideBodies
      <3> HIDE DEF u
      <3>3. HideStep(t, u, h, w, w, -1)
        BY <2>3, <3>1 DEF HideStep
      <3> QED BY <3>1, <3>2, <3>3, HideLeaf
    <2>4. ASSUME NEW f \in Frames, h = Call("IconifyFrame", f)
          PROVE  HideMade(r, NextCall(r))
      <3>1. t.ficon[f] => Idle(t, h) /\ BodyOf(t, h) = Body(t, <<>>)
        BY <2>4, HideBodies DEF Idle, IconifyFrameBody
      <3> QED BY <1>1, <2>1, <2>4, <3>1, HideIconifyFrame
    <2>5. ASSUME NEW f \in Frames, h = Call("UnmapFrame", f)
          PROVE  HideMade(r, NextCall(r))
      <3>1. ~ t.fmapped[f] => Idle(t, h) /\ BodyOf(t, h) = Body(t, <<>>)
        BY <2>5, HideBodies DEF Idle, UnmapFrameBody
      <3> QED BY <1>1, <2>1, <2>5, <3>1, HideUnmapFrame
    <2>6. ASSUME NEW c \in Clients, h = Call("IconifyClient", c)
          PROVE  HideMade(r, NextCall(r))
      <3>1. t.cicon[c] => Idle(t, h) /\ BodyOf(t, h) = Body(t, <<>>)
        BY <2>6, HideBodies DEF Idle, IconifyClientBody
      <3> QED BY <1>1, <2>1, <2>6, <3>1, HideIconifyClient
    <2> HIDE DEF h, t, w
    <2> QED BY <1>1, <2>2, <2>3, <2>4, <2>5, <2>6, HideCallTypes
  <1>3. Keeps(t, NextCall(r).state)
    <2>1. h \in Calls /\ r.calls \in Seq(HideCalls)
      BY <1>1, HideCallTypes
    <2>2. Keeps(t, BodyOf(t, h).state)
      BY <2>1, EachBodyProper DEF Proper
    <2>3. NextCall(r).state = BodyOf(t, h).state
      BY BodyIs DEF NextCall, Then
    <2> QED BY <2>2, <2>3
  <1>4. ToSet(r.calls) = {h} \cup w
    BY TailElements DEF Behind
  <1> QED BY <1>2, <1>3, <1>4

(* How many calls there can be yet.  A run that iconifies (m) goes through *)
(* each client once and each frame that shows one twice; a run that only   *)
(* hides a frame goes through its clients.                                 *)
Unhiding(t, P, m, f) == (m /\ ~ t.ficon[f]) \/ Call("UnmapFrame", f) \in P

AtHide(t, P, m) == {c \in Clients : t.parent[c] \in Frames /\ Unhiding(t, P, m, t.parent[c])}
AtFront(t, P, m) ==
    {c \in Clients : /\ t.parent[c] \in Frames /\ t.child[t.parent[c]] = c
                     /\ Unhiding(t, P, m, t.parent[c])}
AtIcon(t, m) ==
    {c \in Clients : /\ t.parent[c] \in Frames /\ t.child[t.parent[c]] = c
                     /\ m /\ ~ t.ficon[t.parent[c]]}
AtClient(t, m) == {c \in Clients : m /\ ~ t.cicon[c]}
AtOwned(t, m) ==
    {f \in Frames : \E d \in Clients :
        /\ m /\ InFront(t, f, d) /\ TransientFor[d] \in Clients /\ ~ t.cicon[TransientFor[d]]}

HideLeft(t, P, m, n) ==
    n + Cardinality(AtHide(t, P, m)) + Cardinality(AtFront(t, P, m)) + Cardinality(AtIcon(t, m))
      + Cardinality(AtClient(t, m)) + Cardinality(AtOwned(t, m))

HideOrder(t, P, m) ==
    /\ \A f \in Frames : Call("UnmapFrame", f) \in P =>
         /\ IF m THEN t.ficon[f] ELSE t.fmapped[f] => ~ t.ficon[f]
         /\ \E d \in Clients : InFront(t, f, d)
    /\ \A f \in Frames : Call("IconifyFrame", f) \in P => m /\ \E d \in Clients : InFront(t, f, d)
    /\ \A c \in Clients : Call("IconifyClient", c) \in P => m

LEMMA HideCounts ==
    ASSUME NEW t, NEW P, NEW m
    PROVE  /\ IsFiniteSet(AtHide(t, P, m)) /\ Cardinality(AtHide(t, P, m)) \in Nat
           /\ IsFiniteSet(AtFront(t, P, m)) /\ Cardinality(AtFront(t, P, m)) \in Nat
           /\ IsFiniteSet(AtIcon(t, m)) /\ Cardinality(AtIcon(t, m)) \in Nat
           /\ IsFiniteSet(AtClient(t, m)) /\ Cardinality(AtClient(t, m)) \in Nat
           /\ IsFiniteSet(AtOwned(t, m)) /\ Cardinality(AtOwned(t, m)) \in Nat
           /\ Cardinality(AtHide(t, P, m)) <= Cardinality(Clients)
           /\ Cardinality(AtFront(t, P, m)) <= Cardinality(Clients)
           /\ Cardinality(AtIcon(t, m)) <= Cardinality(Clients)
           /\ Cardinality(AtClient(t, m)) <= Cardinality(Clients)
           /\ Cardinality(AtOwned(t, m)) <= Cardinality(Frames)
           /\ Cardinality(Clients) \in Nat /\ Cardinality(Frames) \in Nat
  <1>1. /\ AtHide(t, P, m) \subseteq Clients /\ AtFront(t, P, m) \subseteq Clients
        /\ AtIcon(t, m) \subseteq Clients /\ AtClient(t, m) \subseteq Clients
        /\ AtOwned(t, m) \subseteq Frames
    BY DEF AtHide, AtFront, AtIcon, AtClient, AtOwned
  <1>2. IsFiniteSet(Clients) /\ IsFiniteSet(Frames)
    BY WmAssumption
  <1>3. /\ IsFiniteSet(AtHide(t, P, m)) /\ Cardinality(AtHide(t, P, m)) \in Nat
        /\ Cardinality(AtHide(t, P, m)) <= Cardinality(Clients)
    BY <1>1, <1>2, PartCount
  <1>4. /\ IsFiniteSet(AtFront(t, P, m)) /\ Cardinality(AtFront(t, P, m)) \in Nat
        /\ Cardinality(AtFront(t, P, m)) <= Cardinality(Clients)
    BY <1>1, <1>2, PartCount
  <1>5. /\ IsFiniteSet(AtIcon(t, m)) /\ Cardinality(AtIcon(t, m)) \in Nat
        /\ Cardinality(AtIcon(t, m)) <= Cardinality(Clients)
    BY <1>1, <1>2, PartCount
  <1>6. /\ IsFiniteSet(AtClient(t, m)) /\ Cardinality(AtClient(t, m)) \in Nat
        /\ Cardinality(AtClient(t, m)) <= Cardinality(Clients)
    BY <1>1, <1>2, PartCount
  <1>7. /\ IsFiniteSet(AtOwned(t, m)) /\ Cardinality(AtOwned(t, m)) \in Nat
        /\ Cardinality(AtOwned(t, m)) <= Cardinality(Frames)
    BY <1>1, <1>2, PartCount
  <1>8. Cardinality(Clients) \in Nat /\ Cardinality(Frames) \in Nat
    BY <1>2, FS_CardinalityType
  <1> QED BY <1>3, <1>4, <1>5, <1>6, <1>7, <1>8

(* Part of a set without another part of it. *)
LEMMA LessCount ==
    ASSUME NEW S, IsFiniteSet(S), NEW T, T \subseteq S, NEW U, U \subseteq S \ T
    PROVE  /\ Cardinality(S) \in Nat /\ Cardinality(T) \in Nat /\ Cardinality(U) \in Nat
           /\ Cardinality(U) <= Cardinality(S) - Cardinality(T)
  <1>1. IsFiniteSet(S \ T)
    BY FS_Subset
  <1>2. Cardinality(U) \in Nat /\ Cardinality(U) <= Cardinality(S \ T) /\ Cardinality(S \ T) \in Nat
    BY <1>1, PartCount
  <1>3. /\ Cardinality(S) \in Nat /\ Cardinality(T) \in Nat
        /\ Cardinality(S \ T) = Cardinality(S) - Cardinality(T)
    BY CountParts
  <1> QED BY <1>2, <1>3

LEMMA OneLess ==
    ASSUME NEW S, IsFiniteSet(S), NEW x \in S, NEW U, U \subseteq S \ {x}
    PROVE  Cardinality(U) <= Cardinality(S) - 1
  <1>1. Cardinality({x}) = 1
    BY FS_Singleton
  <1>2. Cardinality(U) <= Cardinality(S) - Cardinality({x})
    BY LessCount
  <1> QED BY <1>1, <1>2, Zenon

(* What a call leaves of each number. *)
HideShrinks(t, u, p, q, m, a, b, c, d, e) ==
    /\ Cardinality(AtHide(u, q, m)) <= Cardinality(AtHide(t, p, m)) - a
    /\ Cardinality(AtFront(u, q, m)) <= Cardinality(AtFront(t, p, m)) - b
    /\ Cardinality(AtIcon(u, m)) <= Cardinality(AtIcon(t, m)) - c
    /\ Cardinality(AtClient(u, m)) <= Cardinality(AtClient(t, m)) - d
    /\ Cardinality(AtOwned(u, m)) <= Cardinality(AtOwned(t, m)) - e

LEMMA ShrinksLess ==
    ASSUME NEW t, NEW u, NEW p, NEW q, NEW m, NEW k \in Int, NEW n \in Nat,
           NEW a \in Nat, NEW b \in Nat, NEW c \in Nat, NEW d \in Nat, NEW e \in Nat,
           HideShrinks(t, u, p, q, m, a, b, c, d, e), k < a + b + c + d + e
    PROVE  HideLeft(u, q, m, n + k) < HideLeft(t, p, m, n)
  <1> DEFINE a0 == Cardinality(AtHide(t, p, m))
             b0 == Cardinality(AtFront(t, p, m))
             c0 == Cardinality(AtIcon(t, m))
             d0 == Cardinality(AtClient(t, m))
             e0 == Cardinality(AtOwned(t, m))
             a1 == Cardinality(AtHide(u, q, m))
             b1 == Cardinality(AtFront(u, q, m))
             c1 == Cardinality(AtIcon(u, m))
             d1 == Cardinality(AtClient(u, m))
             e1 == Cardinality(AtOwned(u, m))
  <1>1. /\ a0 \in Nat /\ b0 \in Nat /\ c0 \in Nat /\ d0 \in Nat /\ e0 \in Nat
        /\ a1 \in Nat /\ b1 \in Nat /\ c1 \in Nat /\ d1 \in Nat /\ e1 \in Nat
    BY HideCounts
  <1>2. /\ HideLeft(t, p, m, n) = n + a0 + b0 + c0 + d0 + e0
        /\ HideLeft(u, q, m, n + k) = (n + k) + a1 + b1 + c1 + d1 + e1
    BY DEF HideLeft
  <1>3. a1 <= a0 - a /\ b1 <= b0 - b /\ c1 <= c0 - c /\ d1 <= d0 - d /\ e1 <= e0 - e
    BY DEF HideShrinks
  <1> HIDE DEF a0, b0, c0, d0, e0, a1, b1, c1, d1, e1
  <1> QED BY <1>1, <1>2, <1>3

LEMMA SubCount ==
    ASSUME NEW S, IsFiniteSet(S), NEW U, U \subseteq S
    PROVE  Cardinality(U) <= Cardinality(S) - 0
  <1>1. Cardinality(U) \in Nat /\ Cardinality(S) \in Nat /\ Cardinality(U) <= Cardinality(S)
    BY PartCount
  <1> QED BY <1>1

LEMMA NoMore ==
    ASSUME NEW t, NEW u, NEW p, NEW q, NEW m
    PROVE  /\ AtHide(u, q, m) \subseteq AtHide(t, p, m) =>
                Cardinality(AtHide(u, q, m)) <= Cardinality(AtHide(t, p, m)) - 0
           /\ AtFront(u, q, m) \subseteq AtFront(t, p, m) =>
                Cardinality(AtFront(u, q, m)) <= Cardinality(AtFront(t, p, m)) - 0
           /\ AtIcon(u, m) \subseteq AtIcon(t, m) =>
                Cardinality(AtIcon(u, m)) <= Cardinality(AtIcon(t, m)) - 0
           /\ AtClient(u, m) \subseteq AtClient(t, m) =>
                Cardinality(AtClient(u, m)) <= Cardinality(AtClient(t, m)) - 0
           /\ AtOwned(u, m) \subseteq AtOwned(t, m) =>
                Cardinality(AtOwned(u, m)) <= Cardinality(AtOwned(t, m)) - 0
  BY HideCounts, SubCount

(* Nothing more is to be iconified or unmapped. *)
NoneAdded(t, u, p, q, m) ==
    /\ AtHide(u, q, m) \subseteq AtHide(t, p, m) /\ AtFront(u, q, m) \subseteq AtFront(t, p, m)
    /\ AtIcon(u, m) = AtIcon(t, m)
    /\ u.cicon = t.cicon => AtClient(u, m) = AtClient(t, m) /\ AtOwned(u, m) = AtOwned(t, m)

LEMMA NoneLeft ==
    ASSUME NEW t, NEW u, NEW p, NEW q, NEW m, SameTree(t, u), u.ficon = t.ficon,
           \A f \in Frames : Call("UnmapFrame", f) \in q => Call("UnmapFrame", f) \in p
    PROVE  NoneAdded(t, u, p, q, m)
  <1>1. u.kids = t.kids /\ u.child = t.child /\ u.parent = t.parent
    BY DEF SameTree
  <1>2. AtHide(u, q, m) \subseteq AtHide(t, p, m) /\ AtFront(u, q, m) \subseteq AtFront(t, p, m)
    BY <1>1 DEF AtHide, AtFront, Unhiding
  <1>3. AtIcon(u, m) = AtIcon(t, m)
    BY <1>1 DEF AtIcon
  <1>4. u.cicon = t.cicon => AtClient(u, m) = AtClient(t, m) /\ AtOwned(u, m) = AtOwned(t, m)
    BY <1>1 DEF AtClient, AtOwned, InFront
  <1> QED BY <1>2, <1>3, <1>4 DEF NoneAdded

LEMMA LeafLess ==
    ASSUME NEW t, NEW u, NEW p, NEW q, NEW m, SameTree(t, u), u.ficon = t.ficon, u.cicon = t.cicon,
           q \subseteq p, NEW n \in Nat
    PROVE  HideLeft(u, q, m, n + (-1)) < HideLeft(t, p, m, n)
  <1>1. /\ AtHide(u, q, m) \subseteq AtHide(t, p, m) /\ AtFront(u, q, m) \subseteq AtFront(t, p, m)
        /\ AtIcon(u, m) = AtIcon(t, m)
        /\ AtClient(u, m) = AtClient(t, m) /\ AtOwned(u, m) = AtOwned(t, m)
    <2>1. \A f \in Frames : Call("UnmapFrame", f) \in q => Call("UnmapFrame", f) \in p
      OBVIOUS
    <2>2. NoneAdded(t, u, p, q, m)
      BY <2>1, NoneLeft
    <2> QED BY <2>2 DEF NoneAdded
  <1>2. HideShrinks(t, u, p, q, m, 0, 0, 0, 0, 0)
    BY <1>1, NoMore DEF HideShrinks
  <1>3. -1 \in Int /\ -1 < 0 + 0 + 0 + 0 + 0 /\ 0 \in Nat
    OBVIOUS
  <1> QED BY <1>2, <1>3, ShrinksLess

(* Frame::iconify *)
LEMMA IconifyLess ==
    ASSUME NEW t, NEW u, NEW p, NEW q, NEW w, NEW m, Housed(t), Flags(t), SameTree(t, u),
           NEW f \in Frames, Iconified(t, u, f), ~ t.ficon[f],
           p = {Call("IconifyFrame", f)} \cup w, q = {Call("UnmapFrame", f)} \cup w,
           HideOrder(t, p, m), NoUnmap(w), NEW n \in Nat
    PROVE  HideLeft(u, q, m, n + 0) < HideLeft(t, p, m, n)
  <1>1. u.kids = t.kids /\ u.child = t.child /\ u.parent = t.parent
    BY DEF SameTree
  <1>2. m /\ \E d \in Clients : InFront(t, f, d)
    BY DEF HideOrder
  <1>3. PICK d \in Clients : InFront(t, f, d)
    BY <1>2
  <1>4. \A g \in Frames : Call("UnmapFrame", g) \in q <=> g = f
    BY CallApart DEF NoUnmap
  <1>5. \A g \in Frames : u.ficon[g] <=> t.ficon[g] \/ g = f
    BY DEF Iconified, Flags
  <1>6. AtHide(u, q, m) \subseteq AtHide(t, p, m) /\ AtFront(u, q, m) \subseteq AtFront(t, p, m)
    BY <1>1, <1>2, <1>4, <1>5 DEF AtHide, AtFront, Unhiding
  <1>7. d \in AtIcon(t, m) /\ AtIcon(u, m) \subseteq AtIcon(t, m) \ {d}
    BY <1>1, <1>2, <1>3, <1>5 DEF AtIcon, InFront
  <1>8. AtClient(u, m) = AtClient(t, m) /\ AtOwned(u, m) = AtOwned(t, m)
    BY <1>1 DEF AtClient, AtOwned, InFront, Iconified
  <1>9. IsFiniteSet(AtIcon(t, m))
    BY HideCounts
  <1>10. Cardinality(AtIcon(u, m)) <= Cardinality(AtIcon(t, m)) - 1
    BY <1>7, <1>9, OneLess
  <1>11. HideShrinks(t, u, p, q, m, 0, 0, 1, 0, 0)
    BY <1>6, <1>8, <1>10, NoMore DEF HideShrinks
  <1>12. 0 \in Int /\ 0 < 0 + 0 + 1 + 0 + 0 /\ 0 \in Nat /\ 1 \in Nat
    OBVIOUS
  <1> QED BY <1>11, <1>12, ShrinksLess

(* PDecor::unmapWindow *)
LEMMA UnmapLess ==
    ASSUME NEW t, NEW u, NEW p, NEW q, NEW w, NEW m, Housed(t), Flags(t), SameTree(t, u),
           NEW f \in Frames, SameFlags(t, u), t.fmapped[f],
           p = {Call("UnmapFrame", f)} \cup w,
           q = KidsCalls(t, f) \cup {Call("HideFrame", f)} \cup w,
           HideOrder(t, p, m), NoUnmap(w), NEW n \in Nat
    PROVE  HideLeft(u, q, m, n + Cardinality(KidsOf(t, f))) < HideLeft(t, p, m, n)
  <1> DEFINE K == KidsOf(t, f)
  <1>1. /\ u.kids = t.kids /\ u.child = t.child /\ u.parent = t.parent
        /\ u.ficon = t.ficon /\ u.cicon = t.cicon
    BY DEF SameTree, SameFlags
  <1>2. m => t.ficon[f]
    BY DEF HideOrder
  <1>3. PICK d \in Clients : InFront(t, f, d)
    BY DEF HideOrder
  <1>4. \A g \in Frames : Call("UnmapFrame", g) \notin q
    BY CallApart DEF NoUnmap, KidsCalls, CallsFor
  <1>5. K \subseteq AtHide(t, p, m) /\ AtHide(u, q, m) \subseteq AtHide(t, p, m) \ K
    BY <1>1, <1>2, <1>4 DEF AtHide, Unhiding, KidsOf
  <1>6. d \in AtFront(t, p, m) /\ AtFront(u, q, m) \subseteq AtFront(t, p, m) \ {d}
    BY <1>1, <1>2, <1>3, <1>4 DEF AtFront, Unhiding, InFront
  <1>7. AtIcon(u, m) = AtIcon(t, m) /\ AtClient(u, m) = AtClient(t, m) /\ AtOwned(u, m) = AtOwned(t, m)
    BY <1>1 DEF AtIcon, AtClient, AtOwned, InFront
  <1> HIDE DEF K
  <1>8. IsFiniteSet(AtHide(t, p, m)) /\ IsFiniteSet(AtFront(t, p, m))
    BY HideCounts
  <1>9. /\ Cardinality(AtHide(u, q, m)) <= Cardinality(AtHide(t, p, m)) - Cardinality(K)
        /\ Cardinality(K) \in Nat
    BY <1>5, <1>8, LessCount
  <1>10. Cardinality(AtFront(u, q, m)) <= Cardinality(AtFront(t, p, m)) - 1
    BY <1>6, <1>8, OneLess
  <1>11. HideShrinks(t, u, p, q, m, Cardinality(K), 1, 0, 0, 0)
    BY <1>7, <1>9, <1>10, NoMore DEF HideShrinks
  <1> DEFINE k == Cardinality(K)
  <1>12. k \in Int /\ k \in Nat /\ k < k + 1 + 0 + 0 + 0 /\ 0 \in Nat /\ 1 \in Nat
    <2>1. k \in Nat
      BY <1>9
    <2> HIDE DEF k
    <2> QED BY <2>1
  <1>13. HideShrinks(t, u, p, q, m, k, 1, 0, 0, 0)
    BY <1>11
  <1> HIDE DEF k
  <1>14. HideLeft(u, q, m, n + k) < HideLeft(t, p, m, n)
    BY <1>12, <1>13, ShrinksLess
  <1> QED BY <1>14 DEF k, K

(* Client::iconify *)
LEMMA IconifyClientLess ==
    ASSUME NEW t, NEW u, NEW p, NEW q, NEW w, NEW m, Housed(t), Flags(t), SameTree(t, u),
           NEW c \in Clients, ClientIconified(t, u, c), ~ t.cicon[c],
           NEW G \in {{}, Family(t, c)}, p = {Call("IconifyClient", c)} \cup w,
           q = CallsFor("IconifyFrame", G) \cup {Call("UnmapClient", c)} \cup w,
           HideOrder(t, p, m), NoUnmap(w), NEW n \in Nat
    PROVE  HideLeft(u, q, m, n + Cardinality(G)) < HideLeft(t, p, m, n)
  <1>1. u.kids = t.kids /\ u.child = t.child /\ u.parent = t.parent /\ u.ficon = t.ficon
    BY DEF SameTree, ClientIconified
  <1>2. m
    BY DEF HideOrder
  <1>3. \A g \in Frames : Call("UnmapFrame", g) \notin q
    BY CallApart DEF NoUnmap, CallsFor
  <1>4. \A d \in Clients : u.cicon[d] <=> t.cicon[d] \/ d = c
    BY DEF ClientIconified, Flags
  <1>5. /\ AtHide(u, q, m) \subseteq AtHide(t, p, m) /\ AtFront(u, q, m) \subseteq AtFront(t, p, m)
        /\ AtIcon(u, m) = AtIcon(t, m)
    <2>1. \A f \in Frames : Call("UnmapFrame", f) \in q => Call("UnmapFrame", f) \in p
      BY <1>3
    <2>2. u.ficon = t.ficon
      BY <1>1
    <2>3. NoneAdded(t, u, p, q, m)
      BY <2>1, <2>2, NoneLeft
    <2> QED BY <2>3 DEF NoneAdded
  <1>6. c \in AtClient(t, m) /\ AtClient(u, m) \subseteq AtClient(t, m) \ {c}
    BY <1>2, <1>4 DEF AtClient
  <1>7. G \subseteq AtOwned(t, m) /\ AtOwned(u, m) \subseteq AtOwned(t, m) \ G
    <2>1. \A d, e \in Clients, f \in Frames : InFront(t, f, d) /\ InFront(t, f, e) => d = e
      BY DEF InFront
    <2>2. \A d \in Clients, f \in Frames : InFront(u, f, d) <=> InFront(t, f, d)
      BY <1>1 DEF InFront
    <2>3. G = {} \/ G = Family(t, c)
      OBVIOUS
    <2>4. /\ Family(t, c) \subseteq AtOwned(t, m)
          /\ AtOwned(u, m) \subseteq AtOwned(t, m) \ Family(t, c)
      BY <1>2, <1>4, <2>1, <2>2 DEF AtOwned, Family
    <2> QED BY <2>3, <2>4
  <1>8. IsFiniteSet(AtClient(t, m)) /\ IsFiniteSet(AtOwned(t, m))
    BY HideCounts
  <1>9. Cardinality(AtClient(u, m)) <= Cardinality(AtClient(t, m)) - 1
    BY <1>6, <1>8, OneLess
  <1>10. /\ Cardinality(AtOwned(u, m)) <= Cardinality(AtOwned(t, m)) - Cardinality(G)
         /\ Cardinality(G) \in Nat
    BY <1>7, <1>8, LessCount
  <1> DEFINE k == Cardinality(G)
  <1>11. HideShrinks(t, u, p, q, m, 0, 0, 0, 1, k)
    BY <1>5, <1>9, <1>10, NoMore DEF HideShrinks
  <1>12. k \in Int /\ k \in Nat /\ k < 0 + 0 + 0 + 1 + k /\ 0 \in Nat /\ 1 \in Nat
    <2>1. k \in Nat
      BY <1>10
    <2> HIDE DEF k
    <2> QED BY <2>1
  <1> HIDE DEF k
  <1>13. HideLeft(u, q, m, n + k) < HideLeft(t, p, m, n)
    BY <1>11, <1>12, ShrinksLess
  <1> QED BY <1>13 DEF k

LEMMA HideFlags ==
    ASSUME NEW t, NEW u, NEW h, NEW w, NEW q, NEW k, Flags(t), HideStep(t, u, h, w, q, k)
    PROVE  Flags(u)
  BY DEF Flags, HideStep, SameFlags, Iconified, Hidden, ClientIconified, ClientHidden

LEMMA HideStepOrder ==
    ASSUME NEW t, NEW u, NEW h, NEW w, NEW p, NEW q, NEW k, NEW m, Housed(t), Flags(t),
           SameTree(t, u), HideStep(t, u, h, w, q, k), p = {h} \cup w, NoUnmap(w),
           HideOrder(t, p, m), m \in BOOLEAN
    PROVE  HideOrder(u, q, m)
  <1>1. /\ \A f \in Frames, d \in Clients : InFront(u, f, d) <=> InFront(t, f, d)
        /\ w \subseteq p
    BY DEF SameTree, InFront
  <1>2. ASSUME q = w, u.ficon = t.ficon
        PROVE  HideOrder(u, q, m)
    BY <1>1, <1>2 DEF HideOrder, NoUnmap
  <1>3. ASSUME NEW f \in Frames, h = Call("IconifyFrame", f), Iconified(t, u, f),
               q = {Call("UnmapFrame", f)} \cup w
        PROVE  HideOrder(u, q, m)
    <2>1. m /\ \E d \in Clients : InFront(t, f, d)
      BY <1>3 DEF HideOrder
    <2>2. \A g \in Frames : Call("UnmapFrame", g) \in q => g = f
      BY <1>3, CallApart DEF NoUnmap
    <2>3. \A g \in Frames : Call("IconifyFrame", g) \in q => Call("IconifyFrame", g) \in p
      BY <1>1, <1>3, CallApart
    <2>4. u.ficon[f]
      BY <1>3 DEF Iconified, Flags
    <2> QED BY <1>1, <2>1, <2>2, <2>3, <2>4 DEF HideOrder
  <1>4. ASSUME NEW f \in Frames, t.fmapped[f], h = Call("UnmapFrame", f), SameFlags(t, u),
               q = KidsCalls(t, f) \cup {Call("HideFrame", f)} \cup w
        PROVE  HideOrder(u, q, m)
    <2>1. IF m THEN t.ficon[f] ELSE ~ t.ficon[f]
      BY <1>4 DEF HideOrder
    <2>2. \A g \in Frames : Call("UnmapFrame", g) \notin q
      BY <1>4, CallApart DEF NoUnmap, KidsCalls, CallsFor
    <2>3. \A g \in Frames : Call("IconifyFrame", g) \in q => Call("IconifyFrame", g) \in p
      BY <1>1, <1>4, CallApart DEF KidsCalls, CallsFor
    <2>4. \A c \in Clients : Call("IconifyClient", c) \in q => m \/ Call("IconifyClient", c) \in p
      BY <1>1, <1>4, <2>1, CallApart DEF KidsCalls, CallsFor
    <2> QED BY <1>1, <2>2, <2>3, <2>4 DEF HideOrder
  <1>5. ASSUME NEW c \in Clients, h = Call("IconifyClient", c), ClientIconified(t, u, c),
               NEW G \in {{}, Family(t, c)},
               q = CallsFor("IconifyFrame", G) \cup {Call("UnmapClient", c)} \cup w
        PROVE  HideOrder(u, q, m)
    <2>1. m
      BY <1>5 DEF HideOrder
    <2>2. \A g \in Frames : Call("UnmapFrame", g) \notin q
      BY <1>5, CallApart DEF NoUnmap, CallsFor
    <2>3. \A g \in Frames : Call("IconifyFrame", g) \in q => Call("IconifyFrame", g) \in p \/ g \in Family(t, c)
      BY <1>1, <1>5, CallApart DEF CallsFor
    <2>4. \A g \in Family(t, c) : \E d \in Clients : InFront(t, g, d)
      BY DEF Family
    <2> QED BY <1>1, <2>1, <2>2, <2>3, <2>4 DEF HideOrder
  <1>6. \/ q = w /\ u.ficon = t.ficon
        \/ \E f \in Frames : /\ h = Call("IconifyFrame", f) /\ Iconified(t, u, f)
                             /\ q = {Call("UnmapFrame", f)} \cup w
        \/ \E f \in Frames : /\ t.fmapped[f] /\ h = Call("UnmapFrame", f) /\ SameFlags(t, u)
                             /\ q = KidsCalls(t, f) \cup {Call("HideFrame", f)} \cup w
        \/ \E c \in Clients : /\ h = Call("IconifyClient", c) /\ ClientIconified(t, u, c)
                              /\ \E G \in {{}, Family(t, c)} :
                                   q = CallsFor("IconifyFrame", G) \cup {Call("UnmapClient", c)} \cup w
    BY DEF HideStep, SameFlags, ClientHidden, Hidden
  <1> QED BY <1>2, <1>3, <1>4, <1>5, <1>6

LEMMA HideStepLess ==
    ASSUME NEW t, NEW u, NEW h, NEW w, NEW p, NEW q, NEW k, NEW m, Housed(t), Flags(t),
           SameTree(t, u), HideStep(t, u, h, w, q, k), p = {h} \cup w, NoUnmap(w),
           HideOrder(t, p, m), NEW n \in Nat
    PROVE  HideLeft(u, q, m, n + k) < HideLeft(t, p, m, n)
  <1>1. ASSUME q = w, u.ficon = t.ficon, u.cicon = t.cicon, k = -1
        PROVE  HideLeft(u, q, m, n + k) < HideLeft(t, p, m, n)
    BY <1>1, LeafLess
  <1>2. ASSUME NEW f \in Frames, ~ t.ficon[f], h = Call("IconifyFrame", f), Iconified(t, u, f),
               q = {Call("UnmapFrame", f)} \cup w, k = 0
        PROVE  HideLeft(u, q, m, n + k) < HideLeft(t, p, m, n)
    BY <1>2, IconifyLess
  <1>3. ASSUME NEW f \in Frames, t.fmapped[f], h = Call("UnmapFrame", f), SameFlags(t, u),
               q = KidsCalls(t, f) \cup {Call("HideFrame", f)} \cup w,
               k = Cardinality(KidsOf(t, f))
        PROVE  HideLeft(u, q, m, n + k) < HideLeft(t, p, m, n)
    BY <1>3, UnmapLess
  <1>4. ASSUME NEW c \in Clients, ~ t.cicon[c], h = Call("IconifyClient", c),
               ClientIconified(t, u, c), NEW G \in {{}, Family(t, c)},
               q = CallsFor("IconifyFrame", G) \cup {Call("UnmapClient", c)} \cup w,
               k = Cardinality(G)
        PROVE  HideLeft(u, q, m, n + k) < HideLeft(t, p, m, n)
    BY <1>4, IconifyClientLess
  <1>5. \/ q = w /\ u.ficon = t.ficon /\ u.cicon = t.cicon /\ k = -1
        \/ \E f \in Frames : /\ ~ t.ficon[f] /\ h = Call("IconifyFrame", f) /\ Iconified(t, u, f)
                             /\ q = {Call("UnmapFrame", f)} \cup w /\ k = 0
        \/ \E f \in Frames : /\ t.fmapped[f] /\ h = Call("UnmapFrame", f) /\ SameFlags(t, u)
                             /\ q = KidsCalls(t, f) \cup {Call("HideFrame", f)} \cup w
                             /\ k = Cardinality(KidsOf(t, f))
        \/ \E c \in Clients : /\ ~ t.cicon[c] /\ h = Call("IconifyClient", c)
                              /\ ClientIconified(t, u, c)
                              /\ \E G \in {{}, Family(t, c)} :
                                   /\ q = CallsFor("IconifyFrame", G) \cup {Call("UnmapClient", c)} \cup w
                                   /\ k = Cardinality(G)
    BY DEF HideStep, SameFlags, ClientHidden, Hidden
  <1> QED BY <1>1, <1>2, <1>3, <1>4, <1>5, Zenon

(* All of a run. *)
HideGood(t, r, m) ==
    /\ r.calls \in Seq(HideCalls) /\ Keeps(t, r.state) /\ SamePlaces(t, r.state)
    /\ Flags(r.state) /\ NoUnmap(Behind(r)) /\ HideOrder(r.state, ToSet(r.calls), m)

HideGoes(r, n) ==
    \/ n = r /\ r.calls = <<>>
    \/ /\ r.calls # <<>>
       /\ \E h, w, k : /\ ToSet(r.calls) = {h} \cup w
                       /\ HideStep(r.state, n.state, h, w, ToSet(n.calls), k)

IsHideRun(g, t, q, m) ==
    /\ g[0] = Body(t, q) /\ g[MaxCalls].calls = <<>>
    /\ \A i \in 0..MaxCalls : HideGood(t, g[i], m)
    /\ \A i \in 0..(MaxCalls - 1) : HideGoes(g[i], g[i + 1])

LEMMA HideOn ==
    ASSUME NEW t, Formed(t), Housed(t), NEW m \in BOOLEAN, NEW r, HideGood(t, r, m), r.calls # <<>>
    PROVE  LET n == NextCall(r)
           IN  /\ HideGood(t, n, m) /\ HideGoes(r, n)
               /\ HideLeft(n.state, ToSet(n.calls), m, Len(n.calls))
                    < HideLeft(r.state, ToSet(r.calls), m, Len(r.calls))
  <1> DEFINE n == NextCall(r)
             h == Head(r.calls)
             w == Behind(r)
             k == Len(n.calls) - Len(r.calls)
             p == ToSet(r.calls)
             q == ToSet(n.calls)
  <1>1. /\ Formed(r.state) /\ Housed(r.state) /\ Flags(r.state) /\ r.calls \in Seq(HideCalls)
        /\ Keeps(t, r.state) /\ SamePlaces(t, r.state) /\ HideOrder(r.state, p, m) /\ NoUnmap(w)
    BY KeepsForm, KeepsHoused DEF HideGood, Keeps
  <1>2. HideMade(r, n) /\ Keeps(r.state, n.state) /\ p = {h} \cup w
    BY <1>1, HideNext
  <1>3. /\ n.calls \in Seq(HideCalls) /\ SamePlaces(r.state, n.state)
        /\ Len(r.calls) \in Nat /\ Len(n.calls) \in Nat
        /\ HideStep(r.state, n.state, h, w, q, k) /\ NoUnmap(Behind(n))
    BY <1>1, <1>2 DEF HideMade
  <1>4. Len(r.calls) + k = Len(n.calls)
    BY <1>3
  <1> HIDE DEF n, h, w, k, p, q
  <1>5. Keeps(t, n.state) /\ SameTree(r.state, n.state)
    BY <1>1, <1>2, KeepsOn DEF Keeps
  <1>6. SamePlaces(t, n.state)
    BY <1>1, <1>3 DEF SamePlaces
  <1>7. Flags(n.state)
    BY <1>1, <1>3, HideFlags
  <1>8. HideOrder(n.state, q, m)
    BY <1>1, <1>2, <1>3, <1>5, HideStepOrder
  <1>9. HideLeft(n.state, q, m, Len(r.calls) + k) < HideLeft(r.state, p, m, Len(r.calls))
    BY <1>1, <1>2, <1>3, <1>5, HideStepLess
  <1>10. HideLeft(n.state, q, m, Len(n.calls)) < HideLeft(r.state, p, m, Len(r.calls))
    BY <1>4, <1>9
  <1>11. HideGood(t, n, m)
    BY <1>3, <1>5, <1>6, <1>7, <1>8 DEF HideGood, q
  <1>12. HideGoes(r, n)
    BY <1>2, <1>3 DEF HideGoes, p, q
  <1> QED BY <1>10, <1>11, <1>12 DEF n, p, q

LEMMA HideRun ==
    ASSUME NEW t, Formed(t), Housed(t), Flags(t), NEW h \in HideCalls, NEW m \in BOOLEAN,
           HideOrder(t, {h}, m), HideLeft(t, {h}, m, 1) <= MaxCalls
    PROVE  \E g : /\ IsRun(g, t, <<h>>, MaxCalls) /\ IsHideRun(g, t, <<h>>, m)
                /\ RunCalls(t, <<h>>) = g[MaxCalls].state
  <1> DEFINE q == <<h>>
  <1>1. PICK g : IsRun(g, t, q, MaxCalls) /\ RunCalls(t, q) = g[MaxCalls].state
    BY RunDefined
  <1>2. MaxCalls \in Nat /\ q \in Seq(HideCalls) /\ Len(q) = 1 /\ ToSet(q) = {h}
    BY MaxCallsNat, OneCall
  <1>3. g[0] = Body(t, q) /\ \A i \in 0..(MaxCalls - 1) : g[i + 1] = NextCall(g[i])
    BY <1>1, <1>2 DEF IsRun, RunStep
  <1>4. Tail(q) = <<>>
    OBVIOUS
  <1> HIDE DEF q
  <1> DEFINE T == {i \in 0..MaxCalls : HideGood(t, g[i], m)}
             L(i) == HideLeft(g[i].state, ToSet(g[i].calls), m, Len(g[i].calls))
  <1>5. g[0].state = t /\ g[0].calls = q
    BY <1>3, BodyIs
  <1>6. 0 \in T
    <2>1. Keeps(t, t) /\ SamePlaces(t, t)
      BY KeepsItself DEF SamePlaces
    <2>2. Behind(g[0]) = {}
      BY <1>4, <1>5, EmptyCalls DEF Behind
    <2> DEFINE r == g[0]
    <2>3. r.calls \in Seq(HideCalls) /\ r.state = t /\ ToSet(r.calls) = {h}
      BY <1>2, <1>5
    <2>4. NoUnmap(Behind(r))
      BY <2>2 DEF NoUnmap
    <2> HIDE DEF r
    <2>5. HideGood(t, r, m)
      BY <2>1, <2>3, <2>4 DEF HideGood
    <2>6. 0 \in 0..MaxCalls
      BY <1>2
    <2> QED BY <2>5, <2>6 DEF r
  <1>7. ASSUME NEW i \in 0..(MaxCalls - 1), HideGood(t, g[i], m)
        PROVE  /\ HideGood(t, g[i + 1], m) /\ HideGoes(g[i], g[i + 1])
               /\ g[i].calls # <<>> => L(i + 1) < L(i)
    <2>1. CASE g[i].calls = <<>>
      <3>1. g[i + 1] = g[i]
        BY <1>3, <2>1 DEF NextCall
      <3> QED BY <1>7, <2>1, <3>1 DEF HideGoes
    <2>2. CASE g[i].calls # <<>>
      <3> DEFINE r == g[i]
                 n == NextCall(r)
      <3>1. g[i + 1] = n
        BY <1>3
      <3>2. HideGood(t, r, m) /\ r.calls # <<>>
        BY <1>7, <2>2
      <3> HIDE DEF r
      <3>3. /\ HideGood(t, n, m) /\ HideGoes(r, n)
            /\ HideLeft(n.state, ToSet(n.calls), m, Len(n.calls))
                 < HideLeft(r.state, ToSet(r.calls), m, Len(r.calls))
        BY <3>2, HideOn
      <3> HIDE DEF n
      <3> QED BY <3>1, <3>3 DEF r
    <2> QED BY <2>1, <2>2
  <1>8. \A i \in 0..(MaxCalls - 1) : i \in T => i + 1 \in T
    BY <1>2, <1>7
  <1>9. \A i \in 0..MaxCalls : i \in T
    <2> HIDE DEF T
    <2> QED BY <1>2, <1>6, <1>8, Upward
  <1>10. \A i \in 0..MaxCalls : HideGood(t, g[i], m)
    BY <1>9
  <1>11. \A i \in 0..MaxCalls : L(i) \in Nat /\ (L(i) = 0 => g[i].calls = <<>>)
    <2> SUFFICES ASSUME NEW i \in 0..MaxCalls
                 PROVE  L(i) \in Nat /\ (L(i) = 0 => g[i].calls = <<>>)
      OBVIOUS
    <2> DEFINE l == Len(g[i].calls)
               z == g[i].state
               p == ToSet(g[i].calls)
               a == Cardinality(AtHide(z, p, m))
               b == Cardinality(AtFront(z, p, m))
               c == Cardinality(AtIcon(z, m))
               d == Cardinality(AtClient(z, m))
               e == Cardinality(AtOwned(z, m))
    <2>1. g[i].calls \in Seq(HideCalls)
      BY <1>10 DEF HideGood
    <2>2. l \in Nat /\ (l = 0 => g[i].calls = <<>>)
      BY <2>1, EmptySeq, LenProperties
    <2>3. a \in Nat /\ b \in Nat /\ c \in Nat /\ d \in Nat /\ e \in Nat
      BY HideCounts
    <2>4. L(i) = l + a + b + c + d + e
      BY DEF HideLeft
    <2> HIDE DEF l, a, b, c, d, e, L
    <2> QED BY <2>2, <2>3, <2>4
  <1>12. L(0) <= MaxCalls
    BY <1>2, <1>5
  <1> DEFINE x == [i \in 0..MaxCalls |-> L(i)]
             E == {i \in 0..MaxCalls : g[i].calls = <<>>}
  <1>13. \A i \in 0..(MaxCalls - 1) : IF i \in E THEN i + 1 \in E ELSE x[i + 1] < x[i]
    <2> SUFFICES ASSUME NEW i \in 0..(MaxCalls - 1)
                 PROVE  IF i \in E THEN i + 1 \in E ELSE x[i + 1] < x[i]
      OBVIOUS
    <2>1. i \in 0..MaxCalls /\ i + 1 \in 0..MaxCalls /\ HideGood(t, g[i], m)
      BY <1>2, <1>10
    <2>2. HideGoes(g[i], g[i + 1]) /\ (g[i].calls # <<>> => L(i + 1) < L(i))
      BY <1>7, <2>1
    <2> HIDE DEF L
    <2>3. x[i] = L(i) /\ x[i + 1] = L(i + 1)
      BY <2>1
    <2>4. g[i].calls = <<>> => g[i + 1].calls = <<>>
      BY <2>2 DEF HideGoes
    <2> QED BY <2>1, <2>2, <2>3, <2>4
  <1>14. MaxCalls \in E
    <2>1. \A i \in 0..MaxCalls : x[i] \in Nat /\ (x[i] = 0 => i \in E)
      <3> HIDE DEF L
      <3> QED BY <1>11
    <2>2. x[0] <= MaxCalls
      <3> HIDE DEF L
      <3> QED BY <1>2, <1>12
    <2> HIDE DEF x, E
    <2> QED BY <1>2, <1>13, <2>1, <2>2, Descends
  <1>15. \A i \in 0..(MaxCalls - 1) : HideGoes(g[i], g[i + 1])
    <2>1. \A i \in 0..(MaxCalls - 1) : i \in 0..MaxCalls
      BY <1>2
    <2> QED BY <1>7, <1>10, <2>1
  <1>16. IsHideRun(g, t, q, m)
    BY <1>3, <1>10, <1>14, <1>15 DEF IsHideRun
  <1> QED BY <1>1, <1>16 DEF q

(* A frame has in front one of its tabs. *)
Faced(t) ==
    \A f \in Frames : Exists(t, f) => t.child[f] \in Clients /\ t.parent[t.child[f]] = f

(* Tabbed while the calls of P, that hide, are still to be made.           *)
HideSound(t, P) ==
    /\ Flags(t)
    /\ \A c \in Clients : t.cmapped[c] /\ t.cicon[c] => Call("UnmapClient", c) \in P
    /\ \A f \in Frames : t.fmapped[f] =>
         /\ Exists(t, f) /\ t.child[f] \in Clients /\ t.parent[t.child[f]] = f
         /\ \/ ~ t.ficon[f] /\ t.cmapped[t.child[f]]
            \/ Call("HideFrame", f) \in P
            \/ Call("UnmapFrame", f) \in P
    /\ \A c \in Clients : t.cmapped[c] =>
         \/ /\ t.parent[c] \in Frames /\ t.fmapped[t.parent[c]]
            /\ Call("HideFrame", t.parent[c]) \notin P
         \/ Call("UnmapClient", c) \in P
         \/ Call("IconifyClient", c) \in P
    /\ \A c \in Clients : Call("UnmapClient", c) \in P \/ Call("IconifyClient", c) \in P =>
         t.parent[c] \in Frames
           /\ (t.fmapped[t.parent[c]] => Call("HideFrame", t.parent[c]) \in P)

LEMMA HideTabsStep ==
    ASSUME NEW t, NEW u, NEW h, NEW w, NEW p, NEW q, NEW k, Housed(t), SameTree(t, u),
           HideStep(t, u, h, w, q, k), p = {h} \cup w, HideSound(t, p)
    PROVE  HideSound(u, q)
  <1>1. /\ u.kids = t.kids /\ u.child = t.child /\ u.parent = t.parent
        /\ Flags(t) /\ Flags(u)
    BY HideFlags DEF SameTree, HideSound
  <1>2. ASSUME Idle(t, h), SameFlags(t, u), q = w
        PROVE  HideSound(u, q)
    <2>1. \A c \in Clients : Call("UnmapClient", c) \in p <=> Call("UnmapClient", c) \in q
      BY <1>2, CallApart DEF Idle
    <2>2. \A f \in Frames : Call("HideFrame", f) \in p <=> Call("HideFrame", f) \in q
      BY <1>2, CallApart DEF Idle
    <2>3. \A f \in Frames : Call("UnmapFrame", f) \in p => Call("UnmapFrame", f) \in q \/ ~ t.fmapped[f]
      BY <1>2, CallApart DEF Idle
    <2>4. /\ \A c \in Clients : Call("IconifyClient", c) \in p => Call("IconifyClient", c) \in q \/ t.cicon[c]
          /\ \A c \in Clients : Call("IconifyClient", c) \in q => Call("IconifyClient", c) \in p
      BY <1>2, CallApart DEF Idle
    <2> QED BY <1>1, <1>2, <2>1, <2>2, <2>3, <2>4 DEF HideSound, SameFlags, Exists
  <1>3. ASSUME NEW c \in Clients, h = Call("UnmapClient", c), ClientHidden(t, u, c), q = w
        PROVE  HideSound(u, q)
    <2>1. /\ \A f \in Frames : Call("HideFrame", f) \in p <=> Call("HideFrame", f) \in q
          /\ \A f \in Frames : Call("UnmapFrame", f) \in p <=> Call("UnmapFrame", f) \in q
          /\ \A d \in Clients : Call("IconifyClient", d) \in p <=> Call("IconifyClient", d) \in q
      BY <1>3, CallApart
    <2>2. /\ \A d \in Clients : Call("UnmapClient", d) \in p => Call("UnmapClient", d) \in q \/ d = c
          /\ \A d \in Clients : Call("UnmapClient", d) \in q => Call("UnmapClient", d) \in p
          /\ Call("UnmapClient", c) \in p
      BY <1>3, CallApart
    <2>3. /\ \A d \in Clients : u.cmapped[d] <=> t.cmapped[d] /\ d # c
          /\ u.cicon = t.cicon /\ u.fmapped = t.fmapped /\ u.ficon = t.ficon
      BY <1>1, <1>3 DEF ClientHidden, Flags
    <2> QED BY <1>1, <2>1, <2>2, <2>3 DEF HideSound, Exists
  <1>4. ASSUME NEW f \in Frames, h = Call("HideFrame", f), Hidden(t, u, f), q = w
        PROVE  HideSound(u, q)
    <2>1. /\ \A c \in Clients : Call("UnmapClient", c) \in p <=> Call("UnmapClient", c) \in q
          /\ \A c \in Clients : Call("IconifyClient", c) \in p <=> Call("IconifyClient", c) \in q
          /\ \A g \in Frames : Call("UnmapFrame", g) \in p <=> Call("UnmapFrame", g) \in q
      BY <1>4, CallApart
    <2>2. /\ \A g \in Frames : Call("HideFrame", g) \in p => Call("HideFrame", g) \in q \/ g = f
          /\ \A g \in Frames : Call("HideFrame", g) \in q => Call("HideFrame", g) \in p
          /\ Call("HideFrame", f) \in p
      BY <1>4, CallApart
    <2>3. /\ \A g \in Frames : u.fmapped[g] <=> t.fmapped[g] /\ g # f
          /\ u.cicon = t.cicon /\ u.cmapped = t.cmapped /\ u.ficon = t.ficon
      BY <1>1, <1>4 DEF Hidden, Flags
    <2> QED BY <1>1, <2>1, <2>2, <2>3 DEF HideSound, Exists
  <1>5. ASSUME NEW f \in Frames, h = Call("IconifyFrame", f), Iconified(t, u, f),
               q = {Call("UnmapFrame", f)} \cup w
        PROVE  HideSound(u, q)
    <2>1. /\ \A c \in Clients : Call("UnmapClient", c) \in p <=> Call("UnmapClient", c) \in q
          /\ \A c \in Clients : Call("IconifyClient", c) \in p <=> Call("IconifyClient", c) \in q
          /\ \A g \in Frames : Call("HideFrame", g) \in p <=> Call("HideFrame", g) \in q
      BY <1>5, CallApart
    <2>2. /\ \A g \in Frames : Call("UnmapFrame", g) \in p => Call("UnmapFrame", g) \in q
          /\ Call("UnmapFrame", f) \in q
      BY <1>5, CallApart
    <2>3. /\ \A g \in Frames : u.ficon[g] <=> t.ficon[g] \/ g = f
          /\ u.cicon = t.cicon /\ u.cmapped = t.cmapped /\ u.fmapped = t.fmapped
      BY <1>1, <1>5 DEF Iconified, Flags
    <2> QED BY <1>1, <2>1, <2>2, <2>3 DEF HideSound, Exists
  <1>6. ASSUME NEW f \in Frames, t.fmapped[f], h = Call("UnmapFrame", f), SameFlags(t, u),
               q = KidsCalls(t, f) \cup {Call("HideFrame", f)} \cup w
        PROVE  HideSound(u, q)
    <2>1. /\ \A c \in Clients : Call("UnmapClient", c) \in p => Call("UnmapClient", c) \in q
          /\ \A c \in Clients : Call("IconifyClient", c) \in p => Call("IconifyClient", c) \in q
      BY <1>6, CallApart
    <2>2. /\ \A c \in Clients : Call("UnmapClient", c) \in q => Call("UnmapClient", c) \in p \/ t.parent[c] = f
          /\ \A c \in Clients : Call("IconifyClient", c) \in q => Call("IconifyClient", c) \in p \/ t.parent[c] = f
      BY <1>6, CallApart DEF KidsCalls, CallsFor, KidsOf
    <2>3. \A c \in Clients : t.parent[c] = f => Call("UnmapClient", c) \in q \/ Call("IconifyClient", c) \in q
      BY <1>6 DEF KidsCalls, CallsFor, KidsOf
    <2>4. /\ \A g \in Frames : Call("HideFrame", g) \in q <=> Call("HideFrame", g) \in p \/ g = f
          /\ \A g \in Frames : Call("UnmapFrame", g) \in p => Call("UnmapFrame", g) \in q \/ g = f
      BY <1>6, CallApart DEF KidsCalls, CallsFor
    <2> QED BY <1>1, <1>6, <2>1, <2>2, <2>3, <2>4 DEF HideSound, SameFlags, Exists
  <1>7. ASSUME NEW c \in Clients, h = Call("IconifyClient", c), ClientIconified(t, u, c),
               NEW G, q = CallsFor("IconifyFrame", G) \cup {Call("UnmapClient", c)} \cup w
        PROVE  HideSound(u, q)
    <2>1. /\ \A g \in Frames : Call("HideFrame", g) \in p <=> Call("HideFrame", g) \in q
          /\ \A g \in Frames : Call("UnmapFrame", g) \in p <=> Call("UnmapFrame", g) \in q
      BY <1>7, CallApart DEF CallsFor
    <2>2. /\ \A d \in Clients : Call("UnmapClient", d) \in q <=> Call("UnmapClient", d) \in p \/ d = c
          /\ \A d \in Clients : Call("IconifyClient", d) \in q => Call("IconifyClient", d) \in p
          /\ \A d \in Clients : Call("IconifyClient", d) \in p => Call("IconifyClient", d) \in q \/ d = c
          /\ Call("IconifyClient", c) \in p
      BY <1>7, CallApart DEF CallsFor
    <2>3. /\ \A d \in Clients : u.cicon[d] <=> t.cicon[d] \/ d = c
          /\ u.ficon = t.ficon /\ u.cmapped = t.cmapped /\ u.fmapped = t.fmapped
      BY <1>1, <1>7 DEF ClientIconified, Flags
    <2> QED BY <1>1, <2>1, <2>2, <2>3 DEF HideSound, Exists
  <1> QED BY <1>2, <1>3, <1>4, <1>5, <1>6, <1>7 DEF HideStep

(* Without dialogs a call reaches no other frame than the one it is for.   *)
NoDialogs == \A c \in Clients : TransientFor[c] = None

LEMMA NoFamily ==
    ASSUME NoDialogs, NEW t, NEW c \in Clients
    PROVE  Family(t, c) = {}
  BY TabsAssumption DEF NoDialogs, Family

FrameCalls == {"IconifyFrame", "UnmapFrame", "HideFrame"}

(* From t to u frame f is being hidden, and iconified (m) with it.         *)
HideFrames(t, u, P, f, m) ==
    /\ Flags(u)
    /\ \A g \in Frames \ {f} : u.fmapped[g] = t.fmapped[g] /\ u.ficon[g] = t.ficon[g]
    /\ \A g \in Frames, n \in FrameCalls : Call(n, g) \in P => g = f
    /\ u.fmapped[f] =>
         \/ Call("HideFrame", f) \in P \/ Call("UnmapFrame", f) \in P
         \/ Call("IconifyFrame", f) \in P /\ ~ u.ficon[f]
    /\ IF m THEN u.ficon[f] \/ Call("IconifyFrame", f) \in P
       ELSE u.ficon[f] = t.ficon[f] /\ Call("IconifyFrame", f) \notin P
    /\ ~ m /\ ~ t.ficon[f] =>
         u.cicon = t.cicon /\ \A c \in Clients : Call("IconifyClient", c) \notin P

LEMMA HideFramesStep ==
    ASSUME NoDialogs, NEW t0, NEW t, NEW u, NEW h, NEW w, NEW p, NEW q, NEW k, Flags(t0),
           HideStep(t, u, h, w, q, k), p = {h} \cup w, NEW f \in Frames, NEW m \in BOOLEAN,
           HideFrames(t0, t, p, f, m)
    PROVE  HideFrames(t0, u, q, f, m)
  <1>1. Flags(t) /\ Flags(u)
    BY HideFlags DEF HideFrames
  <1>2. ASSUME Idle(t, h), SameFlags(t, u), q = w
        PROVE  HideFrames(t0, u, q, f, m)
    <2>1. \A g \in Frames : /\ Call("HideFrame", g) \in p <=> Call("HideFrame", g) \in q
                            /\ Call("UnmapFrame", g) \in p => Call("UnmapFrame", g) \in q \/ ~ t.fmapped[g]
                            /\ Call("IconifyFrame", g) \in p => Call("IconifyFrame", g) \in q \/ t.ficon[g]
      BY <1>2, CallApart DEF Idle
    <2>2. q \subseteq p
      BY <1>2
    <2> QED BY <1>1, <1>2, <2>1, <2>2 DEF HideFrames, SameFlags
  <1>3. ASSUME NEW c \in Clients, h = Call("UnmapClient", c), ClientHidden(t, u, c), q = w
        PROVE  HideFrames(t0, u, q, f, m)
    <2>1. \A g \in Frames, n \in FrameCalls : Call(n, g) \in p <=> Call(n, g) \in q
      BY <1>3, CallApart DEF FrameCalls
    <2>2. q \subseteq p
      BY <1>3
    <2> QED BY <1>1, <1>3, <2>1, <2>2 DEF HideFrames, ClientHidden, FrameCalls
  <1>4. ASSUME NEW g \in Frames, h = Call("HideFrame", g), Hidden(t, u, g), q = w
        PROVE  HideFrames(t0, u, q, f, m)
    <2>1. /\ Call("UnmapFrame", f) \in p => Call("UnmapFrame", f) \in q
          /\ Call("IconifyFrame", f) \in p => Call("IconifyFrame", f) \in q
          /\ "HideFrame" \in FrameCalls /\ Call("HideFrame", g) \in p /\ q \subseteq p
      BY <1>4, CallApart DEF FrameCalls
    <2>2. g = f
      BY <2>1 DEF HideFrames
    <2>3. /\ \A x \in Frames : u.fmapped[x] <=> t.fmapped[x] /\ x # f
          /\ u.ficon = t.ficon /\ u.cicon = t.cicon
      BY <1>1, <1>4, <2>2 DEF Hidden, Flags
    <2>4. \A x \in Frames \ {f} : u.fmapped[x] = t.fmapped[x]
      BY <1>1, <2>3 DEF Flags
    <2> QED BY <1>1, <2>1, <2>3, <2>4 DEF HideFrames
  <1>5. ASSUME NEW g \in Frames, h = Call("IconifyFrame", g), Iconified(t, u, g),
               q = {Call("UnmapFrame", g)} \cup w
        PROVE  HideFrames(t0, u, q, f, m)
    <2>1. "IconifyFrame" \in FrameCalls /\ Call("IconifyFrame", g) \in p
      BY <1>5 DEF FrameCalls
    <2>2. g = f /\ m
      BY <2>1 DEF HideFrames
    <2>3. /\ u.ficon[f] /\ u.fmapped = t.fmapped /\ Call("UnmapFrame", f) \in q
          /\ \A x \in Frames \ {f} : u.ficon[x] = t.ficon[x]
      BY <1>1, <1>5, <2>2 DEF Iconified, Flags
    <2>4. \A x \in Frames, n \in FrameCalls : Call(n, x) \in q => Call(n, x) \in p \/ x = f
      BY <1>5, <2>2, CallApart
    <2> QED BY <1>1, <2>2, <2>3, <2>4 DEF HideFrames
  <1>6. ASSUME NEW g \in Frames, t.fmapped[g], h = Call("UnmapFrame", g), SameFlags(t, u),
               q = KidsCalls(t, g) \cup {Call("HideFrame", g)} \cup w
        PROVE  HideFrames(t0, u, q, f, m)
    <2>1. "UnmapFrame" \in FrameCalls /\ Call("UnmapFrame", g) \in p
      BY <1>6 DEF FrameCalls
    <2>2. g = f
      BY <2>1 DEF HideFrames
    <2>3. /\ Call("HideFrame", f) \in q
          /\ Call("IconifyFrame", f) \in p <=> Call("IconifyFrame", f) \in q
          /\ \A x \in Frames, n \in FrameCalls : Call(n, x) \in q => Call(n, x) \in p \/ x = f
      BY <1>6, <2>2, CallApart DEF KidsCalls, CallsFor, FrameCalls
    <2>4. ~ m /\ ~ t0.ficon[f] =>
            \A c \in Clients : Call("IconifyClient", c) \in q => Call("IconifyClient", c) \in p
      <3>1. ~ m => t.ficon[f] = t0.ficon[f]
        BY DEF HideFrames
      <3> QED BY <1>6, <2>2, <3>1, CallApart DEF KidsCalls, CallsFor
    <2> QED BY <1>1, <1>6, <2>3, <2>4 DEF HideFrames, SameFlags
  <1>7. ASSUME NEW c \in Clients, h = Call("IconifyClient", c), ClientIconified(t, u, c),
               q = CallsFor("IconifyFrame", {}) \cup {Call("UnmapClient", c)} \cup w
        PROVE  HideFrames(t0, u, q, f, m)
    <2>1. \A x \in Frames, n \in FrameCalls : Call(n, x) \in q <=> Call(n, x) \in p
      BY <1>7, CallApart DEF CallsFor, FrameCalls
    <2>2. m \/ t0.ficon[f]
      BY <1>7 DEF HideFrames
    <2> QED BY <1>1, <1>7, <2>1, <2>2 DEF HideFrames, ClientIconified, FrameCalls
  <1>8. \A c \in Clients : \A G \in {{}, Family(t, c)} : G = {}
    BY NoFamily
  <1> QED BY <1>2, <1>3, <1>4, <1>5, <1>6, <1>7, <1>8 DEF HideStep

(* From t to u the frames of S are being mapped.                           *)
MapFrames(t, u, P, S) ==
    /\ Flags(u)
    /\ \A g \in Frames \ S : u.fmapped[g] = t.fmapped[g] /\ u.ficon[g] = t.ficon[g]
    /\ \A g \in S : Call("MapFrame", g) \in P \/ u.fmapped[g]
    /\ \A g \in Frames : Call("MapFrame", g) \in P => g \in S
    /\ \A g \in Frames : u.fmapped[g] => ~ u.ficon[g]
    /\ \A c \in Clients : u.cicon[c] => t.cicon[c]

LEMMA MapFramesStep ==
    ASSUME NoDialogs, NEW t0, NEW t, NEW u, NEW p, NEW q, NEW k, Flags(t0),
           MapStep(t, u, p, q, k), NEW S, S \subseteq Frames, MapFrames(t0, t, p, S)
    PROVE  MapFrames(t0, u, q, S)
  <1>1. PICK w :
          \/ /\ SameFlags(t, u) /\ q = w
             /\ \/ \E f \in Frames : t.fmapped[f] /\ p = {Call("MapFrame", f)} \cup w
                \/ \E c \in Clients : t.cmapped[c] /\ p = {Call("MapClient", c)} \cup w
          \/ \E f \in Frames :
               /\ ~ t.fmapped[f] /\ FrameMapped(t, u, f) /\ p = {Call("MapFrame", f)} \cup w
               /\ q = CallsFor("MapClient", KidsOf(t, f)) \cup w
          \/ \E c \in Clients :
               /\ ~ t.cmapped[c] /\ ClientMapped(t, u, c) /\ p = {Call("MapClient", c)} \cup w
               /\ \/ q = w
                  \/ q = CallsFor("MapFrame", Family(t, c)) \cup w
    BY DEF MapStep
  <1>2. Flags(t) /\ Flags(u)
    BY MapFlags DEF MapFrames
  <1>3. ASSUME SameFlags(t, u), q = w, NEW f \in Frames, t.fmapped[f],
               p = {Call("MapFrame", f)} \cup w
        PROVE  MapFrames(t0, u, q, S)
    <2>1. \A g \in Frames : /\ Call("MapFrame", g) \in p => Call("MapFrame", g) \in q \/ t.fmapped[g]
                            /\ Call("MapFrame", g) \in q => Call("MapFrame", g) \in p
      BY <1>3, MapCallTypes
    <2> QED BY <1>2, <1>3, <2>1 DEF MapFrames, SameFlags
  <1>4. ASSUME SameFlags(t, u), q = w, NEW c \in Clients, p = {Call("MapClient", c)} \cup w
        PROVE  MapFrames(t0, u, q, S)
    <2>1. \A g \in Frames : Call("MapFrame", g) \in p <=> Call("MapFrame", g) \in q
      BY <1>4, MapCallTypes
    <2> QED BY <1>2, <1>4, <2>1 DEF MapFrames, SameFlags
  <1>5. ASSUME NEW f \in Frames, FrameMapped(t, u, f), p = {Call("MapFrame", f)} \cup w,
               q = CallsFor("MapClient", KidsOf(t, f)) \cup w
        PROVE  MapFrames(t0, u, q, S)
    <2>1. /\ \A g \in Frames : u.fmapped[g] <=> t.fmapped[g] \/ g = f
          /\ \A g \in Frames : u.ficon[g] <=> t.ficon[g] /\ g # f
          /\ u.cicon = t.cicon
      BY <1>2, <1>5 DEF FrameMapped, Flags
    <2>2. \A g \in Frames \ S : u.fmapped[g] = t.fmapped[g] /\ u.ficon[g] = t.ficon[g]
      <3>1. f \in S
        BY <1>5 DEF MapFrames
      <3> QED BY <1>2, <2>1, <3>1 DEF Flags
    <2>3. \A g \in Frames : /\ Call("MapFrame", g) \in p => Call("MapFrame", g) \in q \/ g = f
                            /\ Call("MapFrame", g) \in q => Call("MapFrame", g) \in p
      BY <1>5, MapCallTypes DEF CallsFor
    <2> QED BY <1>2, <2>1, <2>2, <2>3 DEF MapFrames
  <1>6. ASSUME NEW c \in Clients, ClientMapped(t, u, c), p = {Call("MapClient", c)} \cup w,
               q = w \/ q = CallsFor("MapFrame", Family(t, c)) \cup w
        PROVE  MapFrames(t0, u, q, S)
    <2>1. \A g \in Frames : Call("MapFrame", g) \in p <=> Call("MapFrame", g) \in q
      BY <1>6, MapCallTypes, NoFamily DEF CallsFor
    <2>2. /\ \A d \in Clients : u.cicon[d] <=> t.cicon[d] /\ d # c
          /\ u.fmapped = t.fmapped /\ u.ficon = t.ficon
      BY <1>2, <1>6 DEF ClientMapped, Flags
    <2> QED BY <1>2, <2>1, <2>2 DEF MapFrames
  <1> QED BY <1>1, <1>3, <1>4, <1>5, <1>6

(* A run starts with fewer calls ahead of it than MaxCalls. *)
LEMMA HideBound ==
    ASSUME NEW t, NEW P, NEW m
    PROVE  HideLeft(t, P, m, 1) <= MaxCalls
  <1> DEFINE a == Cardinality(AtHide(t, P, m))
             b == Cardinality(AtFront(t, P, m))
             c == Cardinality(AtIcon(t, m))
             d == Cardinality(AtClient(t, m))
             e == Cardinality(AtOwned(t, m))
             C == Cardinality(Clients)
             F == Cardinality(Frames)
  <1>1. /\ a \in Nat /\ b \in Nat /\ c \in Nat /\ d \in Nat /\ e \in Nat /\ C \in Nat /\ F \in Nat
        /\ a <= C /\ b <= C /\ c <= C /\ d <= C /\ e <= F
    BY HideCounts
  <1>2. HideLeft(t, P, m, 1) = 1 + a + b + c + d + e /\ MaxCalls = 4 * C + F + 2
    BY DEF HideLeft, MaxCalls
  <1> HIDE DEF a, b, c, d, e, C, F
  <1> QED BY <1>1, <1>2

LEMMA HideContract ==
    ASSUME NEW t, Formed(t), Housed(t), Flags(t), NEW h \in HideCalls, NEW m \in BOOLEAN,
           HideOrder(t, {h}, m), NEW f \in Frames
    PROVE  LET u == RunCalls(t, <<h>>)
           IN  /\ Keeps(t, u) /\ SamePlaces(t, u) /\ Flags(u)
               /\ HideSound(t, {h}) => HideSound(u, {})
               /\ NoDialogs /\ HideFrames(t, t, {h}, f, m) => HideFrames(t, u, {}, f, m)
  <1>1. HideLeft(t, {h}, m, 1) <= MaxCalls
    BY HideBound
  <1>2. PICK g : IsHideRun(g, t, <<h>>, m) /\ RunCalls(t, <<h>>) = g[MaxCalls].state
    BY <1>1, HideRun
  <1> DEFINE P(i) == ToSet(g[i].calls)
             A == HideSound(t, {h})
             B == NoDialogs /\ HideFrames(t, t, {h}, f, m)
             T == {i \in 0..MaxCalls : /\ A => HideSound(g[i].state, P(i))
                                       /\ B => HideFrames(t, g[i].state, P(i), f, m)}
  <1>3. g[0].state = t /\ P(0) = {h}
    <2>1. g[0].state = t /\ g[0].calls = <<h>>
      BY <1>2, BodyIs DEF IsHideRun
    <2>2. ToSet(<<h>>) = {h}
      BY DEF ToSet
    <2> QED BY <2>1, <2>2
  <1>4. 0 \in T
    <2> HIDE DEF P
    <2> QED BY <1>3, MaxCallsNat
  <1>5. ASSUME NEW i \in 0..(MaxCalls - 1), i \in T
        PROVE  i + 1 \in T
    <2>1. i \in 0..MaxCalls /\ i + 1 \in 0..MaxCalls
      BY MaxCallsNat
    <2>2. HideGood(t, g[i], m) /\ HideGood(t, g[i + 1], m) /\ HideGoes(g[i], g[i + 1])
      BY <1>2, <2>1 DEF IsHideRun
    <2>3. CASE g[i + 1] = g[i]
      BY <1>5, <2>1, <2>3
    <2>4. CASE \E x, w, k : /\ P(i) = {x} \cup w
                            /\ HideStep(g[i].state, g[i + 1].state, x, w, P(i + 1), k)
      <3> DEFINE a == g[i].state
                 b == g[i + 1].state
                 p == P(i)
                 q == P(i + 1)
      <3>1. PICK x, w, k : p = {x} \cup w /\ HideStep(a, b, x, w, q, k)
        BY <2>4
      <3>2. Housed(a) /\ SameTree(a, b)
        BY <2>2, KeepsHoused DEF HideGood, Keeps, SameTree
      <3>3. (A => HideSound(a, p)) /\ (B => HideFrames(t, a, p, f, m))
        BY <1>5
      <3> HIDE DEF a, b, p, q
      <3>4. A => HideSound(b, q)
        BY <3>1, <3>2, <3>3, HideTabsStep
      <3>5. B => HideFrames(t, b, q, f, m)
        BY <3>1, <3>3, HideFramesStep
      <3> QED BY <2>1, <3>4, <3>5 DEF b, q
    <2> QED BY <2>2, <2>3, <2>4 DEF HideGoes
  <1>6. MaxCalls \in T
    <2>1. \A i \in 0..MaxCalls : i \in T
      <3> HIDE DEF T
      <3> QED BY <1>4, <1>5, MaxCallsNat, Upward
    <2> QED BY <2>1, MaxCallsNat
  <1>7. P(MaxCalls) = {}
    <2>1. g[MaxCalls].calls = <<>>
      BY <1>2 DEF IsHideRun
    <2> QED BY <2>1, EmptyCalls
  <1> DEFINE u == g[MaxCalls].state
  <1>8. Keeps(t, u) /\ SamePlaces(t, u) /\ Flags(u)
    BY <1>2, MaxCallsNat DEF IsHideRun, HideGood
  <1>9. (A => HideSound(u, {})) /\ (B => HideFrames(t, u, {}, f, m))
    BY <1>6, <1>7
  <1> QED BY <1>2, <1>8, <1>9

LEMMA MapContract ==
    ASSUME NoDialogs, NEW t, Formed(t), Housed(t), NEW h \in MapCalls, NEW S, S \subseteq Frames,
           MapFrames(t, t, {h}, S)
    PROVE  LET u == RunCalls(t, <<h>>)
           IN  MapFrames(t, u, {}, S) /\ Keeps(t, u) /\ SamePlaces(t, u)
  <1>1. Flags(t)
    BY DEF MapFrames
  <1>2. PICK g : IsMapRun(g, t, <<h>>) /\ RunCalls(t, <<h>>) = g[MaxCalls].state
    BY <1>1, MapRun
  <1> DEFINE P(i) == ToSet(g[i].calls)
             T == {i \in 0..MaxCalls : MapFrames(t, g[i].state, P(i), S)}
  <1>3. g[0].state = t /\ P(0) = {h}
    <2>1. g[0].state = t /\ g[0].calls = <<h>>
      BY <1>2, BodyIs DEF IsMapRun
    <2>2. ToSet(<<h>>) = {h}
      BY DEF ToSet
    <2> QED BY <2>1, <2>2
  <1>4. 0 \in T
    <2> HIDE DEF P
    <2> QED BY <1>3, MaxCallsNat
  <1>5. ASSUME NEW i \in 0..(MaxCalls - 1), i \in T
        PROVE  i + 1 \in T
    <2>1. i \in 0..MaxCalls /\ i + 1 \in 0..MaxCalls
      BY MaxCallsNat
    <2>2. MapGoes(g[i], g[i + 1])
      BY <1>2, <2>1 DEF IsMapRun
    <2>3. CASE g[i + 1] = g[i]
      BY <1>5, <2>1, <2>3
    <2>4. CASE \E k : MapStep(g[i].state, g[i + 1].state, P(i), P(i + 1), k)
      <3> DEFINE a == g[i].state
                 b == g[i + 1].state
      <3>1. PICK k : MapStep(a, b, P(i), P(i + 1), k)
        BY <2>4
      <3>2. MapFrames(t, a, P(i), S)
        BY <1>5
      <3> HIDE DEF a, b, P
      <3>3. MapFrames(t, b, P(i + 1), S)
        BY <1>1, <3>1, <3>2, MapFramesStep
      <3> QED BY <2>1, <3>3 DEF b
    <2> QED BY <2>2, <2>3, <2>4 DEF MapGoes
  <1>6. MaxCalls \in T
    <2>1. \A i \in 0..MaxCalls : i \in T
      <3> HIDE DEF T
      <3> QED BY <1>4, <1>5, MaxCallsNat, Upward
    <2> QED BY <2>1, MaxCallsNat
  <1>7. P(MaxCalls) = {}
    <2>1. g[MaxCalls].calls = <<>>
      BY <1>2 DEF IsMapRun
    <2> QED BY <2>1, EmptyCalls
  <1>8. Keeps(t, g[MaxCalls].state) /\ SamePlaces(t, g[MaxCalls].state)
    BY <1>2, MaxCallsNat DEF IsMapRun, MapGood
  <1> QED BY <1>2, <1>6, <1>7, <1>8

LEMMA RightFaced ==
    ASSUME NEW t, Right(t)
    PROVE  Formed(t) /\ Housed(t) /\ Faced(t)
  <1>1. Housed(t)
    BY RightHoused
  <1>2. \A f \in Frames : Exists(t, f) => t.child[f] \in ToSet(t.kids[f])
    BY TreeFields DEF Right, GP!Good, GP!FrontIsATab, GP!Exists, Exists, GP!ToSet, ToSet
  <1>3. \A f \in Frames : t.child[f] \in Clients \cup {None} /\ ToSet(t.kids[f]) \subseteq Clients
    <2> SUFFICES ASSUME NEW f \in Frames
                 PROVE  t.child[f] \in Clients \cup {None} /\ ToSet(t.kids[f]) \subseteq Clients
      OBVIOUS
    <2>1. t.kids[f] \in Seq(Clients)
      BY <1>1 DEF Housed
    <2> QED BY <1>1, <2>1, ToSetOfSeq DEF Housed
  <1>4. Faced(t)
    BY <1>1, <1>2, <1>3 DEF Faced, Housed
  <1> QED BY <1>1, <1>4 DEF Right

LEMMA KeepsFaced ==
    ASSUME NEW t, NEW u, Formed(t), Housed(t), Faced(t), Keeps(t, u)
    PROVE  Formed(u) /\ Housed(u) /\ Faced(u)
  BY KeepsForm, KeepsHoused DEF Faced, Keeps, SameTree, Exists

(* How a call that hides a frame can be started. *)
LEMMA UnmapOrder ==
    ASSUME NEW t, NEW f \in Frames, Faced(t), Exists(t, f), t.fmapped[f] => ~ t.ficon[f]
    PROVE  Call("UnmapFrame", f) \in HideCalls /\ HideOrder(t, {Call("UnmapFrame", f)}, FALSE)
  <1>1. \A g \in Frames : Call("UnmapFrame", g) \in {Call("UnmapFrame", f)} => g = f
    BY CallApart
  <1>2. /\ \A g \in Frames : Call("IconifyFrame", g) \notin {Call("UnmapFrame", f)}
        /\ \A c \in Clients : Call("IconifyClient", c) \notin {Call("UnmapFrame", f)}
    BY CallApart
  <1>3. \E d \in Clients : InFront(t, f, d)
    BY DEF Faced, InFront
  <1> QED BY <1>1, <1>2, <1>3, HideCallTypes DEF HideOrder

LEMMA IconifyOrder ==
    ASSUME NEW t, NEW f \in Frames, Faced(t), Exists(t, f)
    PROVE  Call("IconifyFrame", f) \in HideCalls /\ HideOrder(t, {Call("IconifyFrame", f)}, TRUE)
  <1>1. \A g \in Frames : Call("IconifyFrame", g) \in {Call("IconifyFrame", f)} => g = f
    BY CallApart
  <1>2. /\ \A g \in Frames : Call("UnmapFrame", g) \notin {Call("IconifyFrame", f)}
        /\ \A c \in Clients : Call("IconifyClient", c) \notin {Call("IconifyFrame", f)}
    BY CallApart
  <1>3. \E d \in Clients : InFront(t, f, d)
    BY DEF Faced, InFront
  <1> QED BY <1>1, <1>2, <1>3, HideCallTypes DEF HideOrder

LEMMA TabbedSound ==
    ASSUME NEW t, Faced(t), Tabbed(t, {}), NEW f, NEW n \in {"UnmapFrame", "IconifyFrame"}
    PROVE  HideSound(t, {Call(n, f)})
  <1>1. /\ \A c \in Clients : Call("UnmapClient", c) # Call(n, f)
        /\ \A c \in Clients : Call("IconifyClient", c) # Call(n, f)
        /\ \A g \in Frames : Call("HideFrame", g) # Call(n, f)
    BY CallApart
  <1> QED BY <1>1 DEF HideSound, Tabbed, Faced

LEMMA SoundTabbed ==
    ASSUME NEW t, HideSound(t, {})
    PROVE  Tabbed(t, {})
  BY DEF HideSound, Tabbed

(* PDecor::unmapWindow and Frame::iconify. *)
LEMMA UnmapFrameTabs ==
    ASSUME NEW t, Formed(t), Housed(t), Faced(t), Tabbed(t, {}), NEW f \in Frames, Exists(t, f)
    PROVE  LET u == UnmapFrame(t, f)
           IN  Tabbed(u, {}) /\ Keeps(t, u) /\ SamePlaces(t, u)
  <1> DEFINE h == Call("UnmapFrame", f)
             u == UnmapFrame(t, f)
  <1>1. u = RunCalls(t, <<h>>)
    BY DEF UnmapFrame
  <1>2. h \in HideCalls /\ HideOrder(t, {h}, FALSE) /\ Flags(t)
    BY UnmapOrder DEF Tabbed
  <1>3. HideSound(t, {h})
    BY TabbedSound
  <1> HIDE DEF h, u
  <1>4. Keeps(t, u) /\ SamePlaces(t, u) /\ HideSound(u, {})
    BY <1>1, <1>2, <1>3, HideContract
  <1> QED BY <1>4, SoundTabbed DEF u

LEMMA IconifyFrameTabs ==
    ASSUME NEW t, Formed(t), Housed(t), Faced(t), Tabbed(t, {}), NEW f \in Frames, Exists(t, f)
    PROVE  LET u == IconifyFrame(t, f)
           IN  Tabbed(u, {}) /\ Keeps(t, u) /\ SamePlaces(t, u)
  <1> DEFINE h == Call("IconifyFrame", f)
             u == IconifyFrame(t, f)
  <1>1. u = RunCalls(t, <<h>>)
    BY DEF IconifyFrame
  <1>2. h \in HideCalls /\ HideOrder(t, {h}, TRUE) /\ Flags(t)
    BY IconifyOrder DEF Tabbed
  <1>3. HideSound(t, {h})
    BY TabbedSound
  <1> HIDE DEF h, u
  <1>4. Keeps(t, u) /\ SamePlaces(t, u) /\ HideSound(u, {})
    BY <1>1, <1>2, <1>3, HideContract
  <1> QED BY <1>4, SoundTabbed DEF u
----------------------------------------------------------------------------
(* The same functions without dialogs: only the frame itself changes.      *)
OneHidden(t, u, f, b) ==
    /\ Flags(u) /\ Keeps(t, u) /\ SamePlaces(t, u)
    /\ \A g \in Frames : u.fmapped[g] <=> t.fmapped[g] /\ g # f
    /\ \A g \in Frames : u.ficon[g] <=> IF g = f THEN b ELSE t.ficon[g]

OneMapped(t, u, f) ==
    /\ Flags(u) /\ Keeps(t, u) /\ SamePlaces(t, u)
    /\ \A g \in Frames : u.fmapped[g] <=> t.fmapped[g] \/ g = f
    /\ \A g \in Frames : u.ficon[g] <=> t.ficon[g] /\ g # f
    /\ \A c \in Clients : u.cicon[c] => t.cicon[c]

LEMMA UnmapFrameOne ==
    ASSUME NoDialogs, NEW t, Formed(t), Housed(t), Faced(t), Flags(t), NEW f \in Frames,
           Exists(t, f), t.fmapped[f] => ~ t.ficon[f]
    PROVE  LET u == UnmapFrame(t, f)
           IN  OneHidden(t, u, f, t.ficon[f]) /\ (~ t.ficon[f] => u.cicon = t.cicon)
  <1> DEFINE h == Call("UnmapFrame", f)
             u == UnmapFrame(t, f)
  <1>1. u = RunCalls(t, <<h>>)
    BY DEF UnmapFrame
  <1>2. h \in HideCalls /\ HideOrder(t, {h}, FALSE)
    BY UnmapOrder
  <1>3. HideFrames(t, t, {h}, f, FALSE)
    <2>1. \A g, n : Call(n, g) = h => n = "UnmapFrame" /\ g = f
      BY CallApart
    <2> HIDE DEF h
    <2>2. Call("IconifyFrame", f) # h /\ \A c \in Clients : Call("IconifyClient", c) # h
      BY <2>1
    <2>3. t.fmapped[f] => Call("UnmapFrame", f) \in {h}
      BY DEF h
    <2> QED BY <2>1, <2>2, <2>3 DEF HideFrames
  <1> HIDE DEF h, u
  <1>4. /\ Keeps(t, u) /\ SamePlaces(t, u) /\ Flags(u)
        /\ NoDialogs /\ HideFrames(t, t, {h}, f, FALSE) => HideFrames(t, u, {}, f, FALSE)
    BY <1>1, <1>2, HideContract
  <1>5. HideFrames(t, u, {}, f, FALSE)
    BY <1>3, <1>4
  <1>6. /\ \A g \in Frames : u.fmapped[g] <=> t.fmapped[g] /\ g # f
        /\ \A g \in Frames : u.ficon[g] <=> t.ficon[g]
    BY <1>5 DEF HideFrames
  <1> QED BY <1>4, <1>5, <1>6 DEF HideFrames, OneHidden, u

LEMMA IconifyFrameOne ==
    ASSUME NoDialogs, NEW t, Formed(t), Housed(t), Faced(t), Flags(t), NEW f \in Frames,
           Exists(t, f), t.fmapped[f] => ~ t.ficon[f]
    PROVE  OneHidden(t, IconifyFrame(t, f), f, TRUE)
  <1> DEFINE h == Call("IconifyFrame", f)
             u == IconifyFrame(t, f)
  <1>1. u = RunCalls(t, <<h>>)
    BY DEF IconifyFrame
  <1>2. h \in HideCalls /\ HideOrder(t, {h}, TRUE)
    BY IconifyOrder
  <1>3. HideFrames(t, t, {h}, f, TRUE)
    <2>1. \A g, n : Call(n, g) = h => n = "IconifyFrame" /\ g = f
      BY CallApart
    <2>2. Call("IconifyFrame", f) \in {h}
      OBVIOUS
    <2> HIDE DEF h
    <2> QED BY <2>1, <2>2 DEF HideFrames
  <1> HIDE DEF h, u
  <1>4. /\ Keeps(t, u) /\ SamePlaces(t, u) /\ Flags(u)
        /\ NoDialogs /\ HideFrames(t, t, {h}, f, TRUE) => HideFrames(t, u, {}, f, TRUE)
    BY <1>1, <1>2, HideContract
  <1>5. HideFrames(t, u, {}, f, TRUE)
    BY <1>3, <1>4
  <1>6. /\ \A g \in Frames : u.fmapped[g] <=> t.fmapped[g] /\ g # f
        /\ \A g \in Frames : u.ficon[g] <=> t.ficon[g] \/ g = f
    BY <1>5 DEF HideFrames
  <1> QED BY <1>4, <1>6 DEF OneHidden, u

LEMMA MapFrameOne ==
    ASSUME NoDialogs, NEW t, Formed(t), Housed(t), Flags(t), NEW f \in Frames,
           \A g \in Frames : t.fmapped[g] => ~ t.ficon[g]
    PROVE  OneMapped(t, MapFrame(t, f), f)
  <1> DEFINE h == Call("MapFrame", f)
             u == MapFrame(t, f)
  <1>1. u = RunCalls(t, <<h>>) /\ h \in MapCalls
    BY MapCallTypes DEF MapFrame
  <1>2. MapFrames(t, t, {h}, {f})
    BY MapCallTypes DEF MapFrames
  <1> HIDE DEF h, u
  <1>3. MapFrames(t, u, {}, {f}) /\ Keeps(t, u) /\ SamePlaces(t, u)
    BY <1>1, <1>2, MapContract
  <1>4. /\ \A g \in Frames : u.fmapped[g] <=> t.fmapped[g] \/ g = f
        /\ \A g \in Frames : u.ficon[g] <=> t.ficon[g] /\ g # f
    BY <1>3 DEF MapFrames
  <1> QED BY <1>3, <1>4 DEF MapFrames, OneMapped, u

LEMMA MapClientNone ==
    ASSUME NoDialogs, NEW t, Formed(t), Housed(t), Flags(t), NEW c \in Clients,
           \A g \in Frames : t.fmapped[g] => ~ t.ficon[g]
    PROVE  LET u == MapClient(t, c)
           IN  /\ Flags(u) /\ Keeps(t, u) /\ SamePlaces(t, u)
               /\ u.fmapped = t.fmapped /\ u.ficon = t.ficon
               /\ \A d \in Clients : u.cicon[d] => t.cicon[d]
  <1> DEFINE h == Call("MapClient", c)
             u == MapClient(t, c)
  <1>1. u = RunCalls(t, <<h>>) /\ h \in MapCalls
    BY MapCallTypes DEF MapClient
  <1>2. MapFrames(t, t, {h}, {})
    BY MapCallTypes DEF MapFrames
  <1> HIDE DEF h, u
  <1>3. MapFrames(t, u, {}, {}) /\ Keeps(t, u) /\ SamePlaces(t, u)
    BY <1>1, <1>2, MapContract
  <1>4. u.fmapped = t.fmapped /\ u.ficon = t.ficon
    BY <1>3 DEF MapFrames, Flags
  <1> QED BY <1>3, <1>4 DEF MapFrames, u

----------------------------------------------------------------------------
(* What the functions leave of the tabs that wait for their frame.         *)

(* The states the functions start and end with. *)
Steady(t) == Formed(t) /\ Housed(t) /\ Faced(t) /\ Tabbed(t, {})

LEMMA RightSteady ==
    ASSUME NEW t, Right(t), Tabbed(t, {})
    PROVE  Steady(t)
  BY RightFaced DEF Steady

LEMMA TabsSame ==
    ASSUME NEW t, NEW u, NEW X, Tabbed(t, X), SameTree(t, u), SameFlags(t, u)
    PROVE  Tabbed(u, X)
  BY DEF Tabbed, SameTree, SameFlags, Exists, Flags

LEMMA SteadyKept ==
    ASSUME NEW t, NEW u, Steady(t), Keeps(t, u), SameFlags(t, u)
    PROVE  Steady(u)
  BY KeepsFaced, TabsSame DEF Steady, Keeps

LEMMA SteadyLook ==
    ASSUME NEW t, NEW u, Steady(t), Keeps(t, u), SameLook(t, u)
    PROVE  Steady(u)
  BY SteadyKept DEF SameLook

LEMMA SteadyMapped ==
    ASSUME NEW t, Steady(t), NEW f \in Frames, Exists(t, f)
    PROVE  /\ Steady(MapFrame(t, f)) /\ MapFrame(t, f).fmapped[f]
           /\ Steady(UnmapFrame(t, f)) /\ Steady(IconifyFrame(t, f))
  <1>1. Formed(t) /\ Housed(t) /\ Faced(t) /\ Tabbed(t, {})
    BY DEF Steady
  <1>2. t.child[f] \in Clients /\ t.parent[t.child[f]] = f
    BY <1>1 DEF Faced
  <1> DEFINE u == MapFrame(t, f)
             v == UnmapFrame(t, f)
             w == IconifyFrame(t, f)
  <1>3. Tabbed(u, {}) /\ Keeps(t, u) /\ u.fmapped[f]
    BY <1>1, <1>2, MapFrameTabs
  <1>4. Tabbed(v, {}) /\ Keeps(t, v)
    BY <1>1, UnmapFrameTabs
  <1>5. Tabbed(w, {}) /\ Keeps(t, w)
    BY <1>1, IconifyFrameTabs
  <1> HIDE DEF u, v, w
  <1> QED BY <1>1, <1>3, <1>4, <1>5, KeepsFaced DEF Steady, u, v, w

LEMMA SetFrameWorkspaceTabs ==
    ASSUME NEW t, Steady(t), NEW f \in Frames, Exists(t, f), NEW n
    PROVE  Steady(SetFrameWorkspace(t, f, n))
  <1> DEFINE w == Clamp(t, n)
             here == t.fsticky[f] \/ w = t.active
             m == [c \in Clients |-> IF t.parent[c] = f THEN w ELSE t.cws[c]]
             v == [t EXCEPT !.fws[f] = w]
             u == [v EXCEPT !.cws = m]
  <1>0. Formed(t)
    BY DEF Steady
  <1>1. [t EXCEPT !.fws[f] = w, !.cws = [c \in Clients |-> IF t.parent[c] = f THEN w ELSE @[c]]] = u
    BY <1>0 DEF Formed, Fields
  <1>2. SetFrameWorkspace(t, f, n) =
          IF ~ u.fmapped[f] /\ ~ u.ficon[f]
          THEN IF here THEN MapFrame(u, f) ELSE u
          ELSE IF here THEN u ELSE UnmapFrame(u, f)
    BY <1>1 DEF SetFrameWorkspace
  <1> HIDE DEF w, here, m
  <1>3. Keeps(t, u) /\ SameFlags(t, u)
    BY <1>0 DEF Formed, Fields, Keeps, Stays, SameTree, SameLists, SameFlags
  <1> HIDE DEF u
  <1>4. Steady(u)
    BY <1>3, SteadyKept
  <1>5. Exists(u, f)
    BY <1>3 DEF Keeps, SameTree, Exists
  <1>6. Steady(MapFrame(u, f)) /\ Steady(UnmapFrame(u, f))
    BY <1>4, <1>5, SteadyMapped
  <1> QED BY <1>2, <1>4, <1>6

LEMMA VisitTabs ==
    ASSUME NEW t, Steady(t), NEW f \in Frames, Exists(t, f),
           NEW p \in {"hide", "show", "move"}, NEW n
    PROVE  Steady(Visit(t, p, n, f))
  <1>1. /\ Steady(UnmapFrame(t, f)) /\ Steady(MapFrame(t, f))
        /\ Steady(SetFrameWorkspace(t, f, n - 1))
    BY SteadyMapped, SetFrameWorkspaceTabs
  <1> QED BY <1>1 DEF Visit

LEMMA InTurnTabs ==
    ASSUME NEW t, Steady(t), Listed(t), NEW p \in {"hide", "show", "move"}, NEW n
    PROVE  Steady(InTurn(t, p, n)) /\ Keeps(t, InTurn(t, p, n))
  <1> DEFINE m == Len(t.wolist)
  <1>0. t.wolist \in Seq(Frames) /\ ToSet(t.wolist) = LiveIn(t) /\ Formed(t)
    BY DEF Listed, Lists, Steady
  <1>1. m \in Nat
    BY <1>0
  <1>2. PICK g : IsTurn(g, t, p, n, m) /\ InTurn(t, p, n) = g[m]
    BY <1>1, TurnDefined
  <1>3. \A i \in 1..m : t.wolist[i] \in Frames /\ Exists(t, t.wolist[i])
    <2>1. \A i \in 1..m : t.wolist[i] \in ToSet(t.wolist)
      BY <1>0 DEF ToSet
    <2> QED BY <1>0, <2>1 DEF LiveIn
  <1> HIDE DEF m
  <1> DEFINE T == {i \in 0..m : Steady(g[i]) /\ Keeps(t, g[i])}
  <1>4. g[0] = t /\ \A i \in 0..(m - 1) : g[i + 1] = Visit(g[i], p, n, t.wolist[i + 1])
    BY <1>1, <1>2 DEF IsTurn, TurnStep
  <1>5. 0 \in T
    BY <1>0, <1>1, <1>4, KeepsItself
  <1>6. \A i \in 0..(m - 1) : i \in T => i + 1 \in T
    <2>1. SUFFICES ASSUME NEW i \in 0..(m - 1), Steady(g[i]), Keeps(t, g[i])
                   PROVE  Steady(g[i + 1]) /\ Keeps(t, g[i + 1])
      BY <1>1
    <2> DEFINE a == g[i]
               f == t.wolist[i + 1]
    <2>2. Steady(a) /\ Keeps(t, a) /\ f \in Frames /\ Exists(t, f) /\ g[i + 1] = Visit(a, p, n, f)
      BY <1>1, <1>3, <1>4, <2>1
    <2> HIDE DEF a, f
    <2>3. Formed(a) /\ Exists(a, f)
      BY <2>2 DEF Steady, Keeps, SameTree, Exists
    <2>4. Steady(Visit(a, p, n, f))
      BY <2>2, <2>3, VisitTabs
    <2>5. Keeps(a, Visit(a, p, n, f))
      BY <2>2, <2>3, VisitKeeps
    <2> QED BY <2>2, <2>4, <2>5, KeepsOn
  <1> HIDE DEF T
  <1>7. \A i \in 0..m : i \in T
    BY <1>1, <1>5, <1>6, Upward
  <1>8. Steady(g[m]) /\ Keeps(t, g[m])
    BY <1>1, <1>7 DEF T
  <1> QED BY <1>2, <1>8

LEMMA ShowAllTabs ==
    ASSUME NEW t, Steady(t), Listed(t), NEW n
    PROVE  Steady(ShowAll(t, n)) /\ Keeps(t, ShowAll(t, n))
  <1> DEFINE u == [t EXCEPT !.active = n]
  <1>1. Keeps(t, u) /\ SameFlags(t, u)
    BY DEF Steady, Formed, Fields, Keeps, Stays, SameTree, SameLists, SameFlags
  <1> HIDE DEF u
  <1>2. Steady(u) /\ Listed(u)
    BY <1>1, SteadyKept, SameLive, KeepsListed DEF Keeps, SameTree
  <1>3. Steady(InTurn(u, "show", n)) /\ Keeps(u, InTurn(u, "show", n))
    BY <1>2, InTurnTabs
  <1> QED BY <1>1, <1>3, KeepsOn DEF ShowAll, u

LEMMA SetWorkspaceTabs ==
    ASSUME NEW t, Steady(t), Listed(t), NEW n, NEW b
    PROVE  Steady(SetWorkspace(t, n, b)) /\ Keeps(t, SetWorkspace(t, n, b))
  <1> DEFINE u == SetFocused(t, t.focused, FALSE)
             l == t.focused
             x == [u EXCEPT !.last[t.active] = l]
             v == [x EXCEPT !.focused = None]
             w == HideAll(v, t.active)
             y == ShowAll(w, n)
             wo == ToFocus(y, n)
             z == SetFocused(y, wo, TRUE)
             k == [z EXCEPT !.focused = wo]
             j == IF wo \in Clients /\ y.cmapped[wo] THEN GiveClientFocus(k, wo)
                  ELSE XSetInputFocus(k, Root)
  <1>0. Formed(t)
    BY DEF Steady
  <1>1. SetWorkspace(t, n, b) = IF n = t.active \/ n >= t.size THEN t ELSE IF b THEN j ELSE y
    BY DEF SetWorkspace, UnhideAll, Entered, GiveFocus
  <1>2. Keeps(t, u) /\ Formed(u) /\ Steady(u)
    BY <1>0, SetFocusedKeeps, KeepsForm, FocusLook, SteadyLook DEF Formed
  <1> HIDE DEF u, l
  <1>3. Keeps(u, v) /\ SameFlags(u, v)
    BY <1>2 DEF Formed, Fields, Keeps, Stays, SameTree, SameLists, SameFlags
  <1> HIDE DEF v
  <1>4. Keeps(t, v) /\ Steady(v) /\ Listed(v)
    <2>1. Keeps(t, v) /\ Steady(v)
      BY <1>2, <1>3, KeepsOn, SteadyKept
    <2> QED BY <2>1, SameLive, KeepsListed DEF Keeps, SameTree
  <1>5. Keeps(t, w) /\ Steady(w)
    BY <1>4, InTurnTabs, KeepsOn DEF HideAll
  <1> HIDE DEF w
  <1>6. Listed(w)
    BY <1>5, SameLive, KeepsListed DEF Keeps, SameTree
  <1>7. Keeps(t, y) /\ Steady(y)
    BY <1>5, <1>6, ShowAllTabs, KeepsOn
  <1> HIDE DEF y, wo
  <1>8. Keeps(y, z) /\ Formed(z) /\ Steady(z)
    <2>1. Formed(y)
      BY <1>7 DEF Steady
    <2> QED BY <1>7, <2>1, SetFocusedKeeps, KeepsForm, FocusLook, SteadyLook DEF Formed
  <1> HIDE DEF z
  <1>9. Keeps(z, k) /\ SameFlags(z, k)
    BY <1>8 DEF Formed, Fields, Keeps, Stays, SameTree, SameLists, SameFlags
  <1> HIDE DEF k
  <1>10. Keeps(t, k) /\ Steady(k) /\ Formed(k)
    BY <1>7, <1>8, <1>9, KeepsOn, KeepsForm, SteadyKept
  <1>11. /\ Keeps(k, XSetInputFocus(k, Root)) /\ \A c \in Clients : Keeps(k, GiveClientFocus(k, c))
         /\ SameLook(k, XSetInputFocus(k, Root)) /\ \A c \in Clients : SameLook(k, GiveClientFocus(k, c))
    BY <1>10, XSetInputFocusKeeps, GiveClientFocusKeeps, XSetInputFocusLook, FocusLook DEF Formed
  <1>12. Keeps(k, j) /\ SameLook(k, j)
    BY <1>11
  <1> HIDE DEF j
  <1>13. Keeps(t, j) /\ Steady(j)
    BY <1>10, <1>12, KeepsOn, SteadyLook
  <1> QED BY <1>0, <1>1, <1>7, <1>13, KeepsItself

LEMMA SetSizeTabs ==
    ASSUME NEW t, Steady(t), Listed(t), NEW n
    PROVE  Steady(SetSize(t, n))
  <1> DEFINE a == Clamp([t EXCEPT !.size = n], t.active)
             l == t.size
             u == [t EXCEPT !.size = n, !.active = a]
             k == t.active
             v == [u EXCEPT !.size = l]
             x == [u EXCEPT !.active = k]
             w == InTurn(v, "move", n)
             m == [i \in Workspaces |-> IF i < n THEN w.last[i] ELSE None]
             y == [w EXCEPT !.size = n, !.last = m]
  <1>0. Formed(t)
    BY DEF Steady
  <1>1. SetSize(t, n) = IF n >= t.size THEN x ELSE y
    <2>1. [t EXCEPT !.size = n, !.active = Clamp([t EXCEPT !.size = n], @)] = u
      BY <1>0 DEF Formed, Fields
    <2>2. [w EXCEPT !.size = n, !.last = [i \in Workspaces |-> IF i < n THEN @[i] ELSE None]] = y
      OBVIOUS
    <2> QED BY <2>1, <2>2 DEF SetSize
  <1> HIDE DEF a, l, k, m
  <1>2. Keeps(t, u) /\ SameFlags(t, u)
    BY <1>0 DEF Formed, Fields, Keeps, Stays, SameTree, SameLists, SameFlags
  <1> HIDE DEF u
  <1>3. Steady(u) /\ Formed(u)
    BY <1>2, SteadyKept DEF Steady
  <1>4. Keeps(u, x) /\ Keeps(u, v) /\ SameFlags(u, x) /\ SameFlags(u, v)
    BY <1>3 DEF Formed, Fields, Keeps, Stays, SameTree, SameLists, SameFlags
  <1> HIDE DEF x, v
  <1>5. Steady(x) /\ Steady(v) /\ Keeps(t, v)
    BY <1>2, <1>3, <1>4, SteadyKept, KeepsOn
  <1>6. Listed(v)
    BY <1>5, SameLive, KeepsListed DEF Keeps, SameTree
  <1>7. Steady(w) /\ Formed(w)
    BY <1>5, <1>6, InTurnTabs DEF Steady
  <1> HIDE DEF w
  <1>8. Keeps(w, y) /\ SameFlags(w, y)
    BY <1>7 DEF Formed, Fields, Keeps, Stays, SameTree, SameLists, SameFlags
  <1> HIDE DEF y
  <1> QED BY <1>1, <1>5, <1>7, <1>8, SteadyKept

----------------------------------------------------------------------------
(* The functions about the grouping. *)
LEMMA TabsLook ==
    ASSUME NEW t, DOMAIN t = Fields, NEW f, NEW c
    PROVE  /\ SameLook(t, PutInFront(t, f, c)) /\ SameLook(t, AddChild(t, f, c))
           /\ SameLook(t, DropChild(t, c))
  BY DEF Fields, SameLook, SamePlaces, SameFlags, PutInFront, AddChild, DropChild

LEMMA AddToFrameLook ==
    ASSUME NEW t, DOMAIN t = Fields, NEW f, NEW c
    PROVE  SameLook(t, AddToFrame(t, f, c))
  <1> DEFINE r == Reparent(t, c)
  <1>1. SameLook(t, r) /\ DOMAIN r = Fields
    BY FocusLook, LookFields
  <1> HIDE DEF r
  <1>2. SameLook(r, AddChild(r, f, c))
    BY <1>1, TabsLook
  <1> QED BY <1>1, <1>2, LookOn DEF AddToFrame, r

GrownFrames(t, u) == \A g \in Frames : t.fmapped[g] => u.fmapped[g]

(* Frame::activateChild, while a client may be just taken from the frame.  *)
LEMMA ActivateChildTabs ==
    ASSUME NEW t, Formed(t), Housed(t), NEW X, Tabbed(t, X), NEW f \in Frames, NEW c \in Clients,
           t.parent[c] = f, c \notin X, \A g \in Frames : t.fmapped[g] /\ t.child[g] = c => g = f
    PROVE  LET u == ActivateChild(t, f, c)
           IN  Tabbed(u, X) /\ GrownFrames(t, u)
  <1> DEFINE n == Clamp(t, t.fws[f])
             b == t.fsticky[f]
             a == [t EXCEPT !.csticky[c] = b, !.cws[c] = n]
             w == IF t.child[f] = c THEN t ELSE ApplyState(t, f, c)
             u == PutInFront(w, f, c)
  <1>1. ActivateChild(t, f, c) = IF u.ffocused[f] THEN GiveClientFocus(u, c) ELSE u
    BY DEF ActivateChild
  <1>2. ApplyState(t, f, c) = IF t.fmapped[f] THEN MapClient(a, c) ELSE UnmapClient(a, c)
    BY DEF ApplyState
  <1> HIDE DEF n, b
  <1>3. Keeps(t, a) /\ SameFlags(t, a)
    BY DEF Formed, Fields, Keeps, Stays, SameTree, SameLists, SameFlags
  <1> HIDE DEF a
  <1>4. Formed(a) /\ Housed(a) /\ Tabbed(a, X) /\ a.parent = t.parent /\ a.fmapped = t.fmapped
    BY <1>3, KeepsForm, KeepsHoused, TabsSame DEF Keeps, SameFlags
  <1>5. /\ Keeps(t, w) /\ GrownFrames(t, w)
        /\ Flags(w)
        /\ \A d \in Clients : w.cmapped[d] => ~ w.cicon[d]
        /\ \A d \in Clients \ X : w.cmapped[d] => w.parent[d] \in Frames /\ w.fmapped[w.parent[d]]
        /\ \A g \in Frames : w.fmapped[g] => Exists(w, g) /\ ~ w.ficon[g]
        /\ \A g \in Frames \ {f} : w.fmapped[g] => w.child[g] \in Clients /\ w.cmapped[w.child[g]]
        /\ w.fmapped[f] => w.cmapped[c]
    <2>1. CASE t.child[f] = c
      <3>1. w = t /\ Keeps(t, t)
        BY <2>1, KeepsItself
      <3> QED BY <2>1, <3>1 DEF Tabbed, GrownFrames
    <2>2. CASE t.child[f] # c /\ t.fmapped[f]
      <3>1. w = MapClient(a, c)
        BY <1>2, <2>2
      <3>2. LET x == MapClient(a, c)
            IN  Tabbed(x, X) /\ Grown(a, x) /\ x.cmapped[c] /\ Keeps(a, x) /\ SamePlaces(a, x)
        BY <1>4, <2>2, MapClientTabs
      <3> HIDE DEF w
      <3>3. Tabbed(w, X) /\ Grown(a, w) /\ w.cmapped[c] /\ Keeps(a, w)
        BY <3>1, <3>2
      <3>4. Keeps(t, w)
        BY <1>3, <3>3, KeepsOn
      <3> QED BY <1>4, <3>3, <3>4 DEF Tabbed, Grown, GrownFrames
    <2>3. CASE t.child[f] # c /\ ~ t.fmapped[f]
      <3>1. w = UnmapClient(a, c)
        BY <1>2, <2>3
      <3>2. ClientHidden(a, UnmapClient(a, c), c) /\ Keeps(a, UnmapClient(a, c))
        BY <1>4, UnmapClientFields, UnmapClientKeeps DEF Formed, Tabbed
      <3> HIDE DEF w
      <3>3. ClientHidden(a, w, c) /\ Keeps(a, w) /\ Keeps(t, w)
        BY <1>3, <3>1, <3>2, KeepsOn
      <3>4. /\ \A d \in Clients : w.cmapped[d] <=> a.cmapped[d] /\ d # c
            /\ w.cicon = a.cicon /\ w.fmapped = t.fmapped /\ w.ficon = a.ficon /\ Flags(w)
        BY <1>4, <3>3 DEF ClientHidden, Tabbed, Flags
      <3>5. w.kids = a.kids /\ w.child = a.child /\ w.parent = a.parent /\ a.child = t.child
        BY <1>3, <3>3 DEF Keeps, SameTree
      <3> QED BY <1>4, <2>3, <3>3, <3>4, <3>5 DEF Tabbed, GrownFrames, Exists
    <2> QED BY <2>1, <2>2, <2>3
  <1> HIDE DEF w
  <1>6. Formed(w) /\ Housed(w) /\ w.parent = t.parent
    BY <1>5, KeepsForm, KeepsHoused DEF Keeps
  <1>7. SameLook(w, u) /\ DOMAIN u = Fields
    BY <1>6, TabsLook, LookFields DEF Formed
  <1>8. u.kids = w.kids /\ u.parent = w.parent /\ u.child = [w.child EXCEPT ![f] = c]
    BY <1>6 DEF Formed, Fields, PutInFront
  <1>9. /\ \A g \in Frames \ {f} : u.child[g] = w.child[g]
        /\ u.child[f] = c
    BY <1>6, <1>8 DEF Housed
  <1> HIDE DEF u
  <1>10. Tabbed(u, X) /\ GrownFrames(t, u)
    <2>1. /\ u.fmapped = w.fmapped /\ u.ficon = w.ficon /\ u.cmapped = w.cmapped /\ u.cicon = w.cicon
      BY <1>7 DEF SameLook, SameFlags
    <2> QED BY <1>5, <1>8, <1>9, <2>1 DEF Tabbed, GrownFrames, Exists, Flags
  <1>11. SameLook(u, GiveClientFocus(u, c)) /\ SameTree(u, GiveClientFocus(u, c))
    <2>1. SameLook(u, GiveClientFocus(u, c))
      BY <1>7, FocusLook
    <2>2. Formed(u)
      BY <1>6, <1>7, <1>8 DEF Formed, u, PutInFront, Fields
    <2>3. Keeps(u, GiveClientFocus(u, c))
      BY <2>2, GiveClientFocusKeeps
    <2> QED BY <2>1, <2>3 DEF Keeps
  <1>12. Tabbed(GiveClientFocus(u, c), X) /\ GrownFrames(t, GiveClientFocus(u, c))
    BY <1>10, <1>11, TabsSame DEF SameLook, SameFlags, GrownFrames
  <1> QED BY <1>1, <1>10, <1>12

(* A client taken out of the list of its frame. *)
Taken(t, u, f, c) ==
    /\ Formed(u) /\ Housed(u) /\ SameLook(t, u) /\ u.child = t.child
    /\ \A d \in Clients \ {c} : u.parent[d] = t.parent[d]
    /\ u.parent[c] = None
    /\ \A g \in Frames \ {f} : u.kids[g] = t.kids[g]
    /\ u.kids[f] = <<>> <=> Len(t.kids[f]) = 1

Left(t, c) == DropChild(Reparent(t, c), c)
NextTab(t, c) == Neighbour(t.kids[t.parent[c]], Position(t.kids[t.parent[c]], c))

LEMMA LeftTaken ==
    ASSUME NEW t, Right(t), NEW c \in Clients, IsManaged(t, c)
    PROVE  Taken(t, Left(t, c), t.parent[c], c)
  <1> DEFINE f == t.parent[c]
             r == Reparent(t, c)
             d == DropChild(r, c)
             x == GP!DropChild(TreeOf(t), c)
             r0 == TreeOf(t)
  <1>0. Formed(t) /\ DOMAIN t = Fields
    BY DEF Right, Formed
  <1>1. f \in Frames /\ t.kids[f] \in Seq(Clients) /\ t.kids[f] # <<>> /\ Housed(t)
    <2>1. f \in LiveIn(t) /\ Housed(t)
      BY RightIs, RightFaced
    <2> QED BY <2>1 DEF LiveIn, Exists, Housed
  <1>2. Keeps(t, r) /\ Formed(r) /\ TreeOf(r) = TreeOf(t) /\ SameLook(t, r)
    <2>1. Keeps(t, r)
      BY <1>0, ReparentKeeps
    <2>2. Moved(t, r, TreeOf(t)) /\ Formed(r)
      BY <1>0, <2>1, KeptIsMoved, KeepsForm
    <2>3. SameLook(t, r)
      BY <1>0, FocusLook
    <2> QED BY <2>1, <2>2, <2>3 DEF Moved
  <1>3. Left(t, c) = d
    BY DEF Left
  <1> HIDE DEF r
  <1>4. Moved(r, d, x) /\ SameLook(r, d)
    BY <1>2, DropChildMoves, TabsLook DEF Formed
  <1>5. GP!Dropped(r0, x, f, c)
    <2>1. GP!Sound(r0) /\ r0.parent[c] = f
      BY DEF GP!Good, TreeOf, Right
    <2> HIDE DEF r0, f
    <2>2. GP!Dropped(r0, GP!DropChild(r0, c), f, c)
      BY <1>1, <2>1, TabsAssumption, GP!DropSound
    <2> QED BY <2>2 DEF r0
  <1> HIDE DEF d
  <1>6. Formed(d) /\ TreeOf(d) = x /\ Housed(d)
    <2>1. TreeOf(d) = x /\ GP!Sound(TreeOf(d)) /\ Stays(r, d)
      BY <1>4, <1>5 DEF Moved, GP!Dropped
    <2> QED BY <1>2, <2>1, MovedForm, SoundHoused
  <1>7. /\ d.child = t.child /\ d.parent = [t.parent EXCEPT ![c] = None]
        /\ Len(d.kids[f]) = Len(t.kids[f]) - 1
        /\ \A g \in Frames \ {f} : d.kids[g] = t.kids[g]
    <2>1. x.kids = d.kids /\ x.child = d.child /\ x.parent = d.parent
      BY <1>6, TreeFields
    <2>2. r0.kids = t.kids /\ r0.child = t.child /\ r0.parent = t.parent
      BY TreeFields
    <2> HIDE DEF x, r0, f
    <2> QED BY <1>5, <2>1, <2>2 DEF GP!Dropped
  <1>8. d.kids[f] = <<>> <=> Len(t.kids[f]) = 1
    <2> DEFINE k == d.kids[f]
               q == t.kids[f]
    <2>1. k \in Seq(Clients) /\ q \in Seq(Clients) /\ Len(k) = Len(q) - 1
      BY <1>1, <1>6, <1>7 DEF Housed
    <2> HIDE DEF k, q
    <2>2. k = <<>> <=> Len(k) = 0
      BY <2>1, EmptySeq, LenProperties
    <2>3. Len(k) \in Nat /\ Len(q) \in Nat
      BY <2>1
    <2> QED BY <2>1, <2>2, <2>3 DEF k, q
  <1>9. SameLook(t, d)
    BY <1>2, <1>4, LookOn
  <1>10. t.parent \in [Clients -> Frames \cup {None}]
    BY <1>1 DEF Housed
  <1> QED BY <1>3, <1>6, <1>7, <1>8, <1>9, <1>10 DEF Taken

LEMMA NextTabSits ==
    ASSUME NEW t, Right(t), NEW c \in Clients, IsManaged(t, c), Len(t.kids[t.parent[c]]) # 1
    PROVE  NextTab(t, c) \in Clients \ {c} /\ t.parent[NextTab(t, c)] = t.parent[c]
  <1> DEFINE f == t.parent[c]
             q == t.kids[f]
             i == GP!Position(q, c)
             n == GP!Neighbour(q, i)
  <1>1. /\ f \in Frames /\ Housed(t)
    BY RightIs, RightFaced DEF LiveIn
  <1>2. q \in Seq(Clients) /\ IsInjective(q) /\ c \in ToSet(q)
    BY <1>1 DEF Housed
  <1>3. NextTab(t, c) = n
    BY DEF NextTab, Neighbour, Position, GP!Neighbour, GP!Position
  <1> HIDE DEF f
  <1>4. c \in GP!ToSet(q) /\ GP!IsInjective(q)
    BY <1>2 DEF GP!ToSet, ToSet, GP!IsInjective, IsInjective
  <1> HIDE DEF q
  <1>5. i \in 1..Len(q) /\ q[i] = c
    BY <1>2, <1>4, TabsAssumption, GP!PositionOfTab
  <1> HIDE DEF i
  <1>6. n \in GP!ToSet(q) \ {q[i]}
    <2>1. Len(q) # 1
      BY DEF q, f
    <2> QED BY <1>2, <1>4, <1>5, <2>1, TabsAssumption, GP!NeighbourStays
  <1> HIDE DEF n
  <1>7. n \in ToSet(q) /\ n # c
    BY <1>5, <1>6 DEF GP!ToSet, ToSet
  <1>8. n \in Clients
    BY <1>2, <1>7, ToSetOfSeq
  <1>9. t.parent[n] = f
    BY <1>1, <1>7, <1>8 DEF Housed, q
  <1> QED BY <1>3, <1>7, <1>8, <1>9 DEF f

LEMMA RemoveFromFrameIs ==
    ASSUME NEW t, NEW c
    PROVE  RemoveFromFrame(t, c) =
             IF Len(t.kids[t.parent[c]]) = 1 THEN DeleteFrame(Left(t, c), t.parent[c])
             ELSE IF t.child[t.parent[c]] = c
             THEN ActivateChild(Left(t, c), t.parent[c], NextTab(t, c)) ELSE Left(t, c)
  BY DEF RemoveFromFrame, Left, NextTab

(* Frame::~Frame *)
FrameGone(t, u, f) ==
    /\ DOMAIN u = Fields /\ u.kids = t.kids /\ u.parent = t.parent
    /\ \A g \in Frames \ {f} :
         /\ u.child[g] = t.child[g]
         /\ u.fmapped[g] = t.fmapped[g] /\ u.ficon[g] = t.ficon[g]
    /\ u.child[f] = None /\ ~ u.fmapped[f] /\ ~ u.ficon[f]
    /\ u.fws = [t.fws EXCEPT ![f] = 0] /\ u.fsticky = [t.fsticky EXCEPT ![f] = FALSE]
    /\ u.cws = t.cws /\ u.csticky = t.csticky /\ u.cmapped = t.cmapped /\ u.cicon = t.cicon
    /\ u.active = t.active /\ u.size = t.size
    /\ u.fmapped \in [Frames -> BOOLEAN] /\ u.ficon \in [Frames -> BOOLEAN]

LEMMA DeleteFrameGone ==
    ASSUME NEW t, Formed(t), Housed(t), Flags(t), NEW f \in Frames
    PROVE  FrameGone(t, DeleteFrame(t, f), f)
  <1> DEFINE v == IF t.fmapped[f] THEN Post(t, Unmapped(None)) ELSE t
             others(q) == Sieve(q, Frames \ {f})
             w == [v EXCEPT !.wolist = others(@), !.mru = others(@), !.child[f] = None]
             no == FALSE
             zero == 0
             x == [w EXCEPT !.fws[f] = zero, !.fmapped[f] = no, !.ficon[f] = no]
             u == [x EXCEPT !.fsticky[f] = no, !.ffocused[f] = no]
  <1>1. DeleteFrame(t, f) = u
    BY DEF DeleteFrame
  <1>2. SameLook(t, v) /\ DOMAIN v = Fields /\ v.kids = t.kids /\ v.parent = t.parent /\ v.child = t.child
    <2>1. SameLook(t, v)
      BY PostLook, LookItself DEF Formed
    <2>2. Keeps(t, v)
      BY PostKeeps, EventTypes, KeepsItself
    <2> HIDE DEF v
    <2> QED BY <2>1, <2>2, LookFields DEF Formed, Keeps, SameTree
  <1> HIDE DEF v
  <1>3. /\ DOMAIN w = Fields /\ SameLook(v, w) /\ w.kids = v.kids /\ w.parent = v.parent
        /\ w.child = [v.child EXCEPT ![f] = None]
    <2> HIDE DEF others
    <2> QED BY <1>2 DEF Fields, SameLook, SamePlaces, SameFlags
  <1>4. /\ w.kids = t.kids /\ w.parent = t.parent /\ w.child = [t.child EXCEPT ![f] = None]
        /\ w.fws = t.fws /\ w.fmapped = t.fmapped /\ w.ficon = t.ficon /\ w.fsticky = t.fsticky
        /\ w.cws = t.cws /\ w.csticky = t.csticky /\ w.cmapped = t.cmapped /\ w.cicon = t.cicon
        /\ w.active = t.active /\ w.size = t.size
    BY <1>2, <1>3 DEF SameLook, SamePlaces, SameFlags
  <1> HIDE DEF w, no, zero
  <1>5. /\ DOMAIN x = Fields /\ x.kids = w.kids /\ x.child = w.child /\ x.parent = w.parent
        /\ x.fws = [w.fws EXCEPT ![f] = zero] /\ x.fmapped = [w.fmapped EXCEPT ![f] = no]
        /\ x.ficon = [w.ficon EXCEPT ![f] = no] /\ x.fsticky = w.fsticky
        /\ x.cws = w.cws /\ x.csticky = w.csticky /\ x.cmapped = w.cmapped /\ x.cicon = w.cicon
        /\ x.active = w.active /\ x.size = w.size
    BY <1>3 DEF Fields
  <1> HIDE DEF x
  <1>6. /\ DOMAIN u = Fields /\ u.kids = x.kids /\ u.child = x.child /\ u.parent = x.parent
        /\ u.fws = x.fws /\ u.fmapped = x.fmapped /\ u.ficon = x.ficon
        /\ u.fsticky = [x.fsticky EXCEPT ![f] = no]
        /\ u.cws = x.cws /\ u.csticky = x.csticky /\ u.cmapped = x.cmapped /\ u.cicon = x.cicon
        /\ u.active = x.active /\ u.size = x.size
    BY <1>5 DEF Fields
  <1> HIDE DEF u
  <1>7. /\ u.child = [t.child EXCEPT ![f] = None]
        /\ u.fmapped = [t.fmapped EXCEPT ![f] = FALSE] /\ u.ficon = [t.ficon EXCEPT ![f] = FALSE]
    BY <1>4, <1>5, <1>6, Zenon DEF no
  <1>11. /\ u.fws = [t.fws EXCEPT ![f] = 0] /\ u.fsticky = [t.fsticky EXCEPT ![f] = FALSE]
    BY <1>4, <1>5, <1>6, Zenon DEF no, zero
  <1>8. /\ t.child \in [Frames -> Clients \cup {None}]
        /\ t.fmapped \in [Frames -> BOOLEAN] /\ t.ficon \in [Frames -> BOOLEAN]
    BY DEF Housed, Flags
  <1>9. /\ \A g \in Frames \ {f} :
             u.child[g] = t.child[g] /\ u.fmapped[g] = t.fmapped[g] /\ u.ficon[g] = t.ficon[g]
        /\ u.child[f] = None /\ ~ u.fmapped[f] /\ ~ u.ficon[f]
    BY <1>7, <1>8
  <1>10. u.fmapped \in [Frames -> BOOLEAN] /\ u.ficon \in [Frames -> BOOLEAN]
    BY <1>7, <1>8
  <1>12. /\ u.kids = t.kids /\ u.parent = t.parent
         /\ u.cws = t.cws /\ u.csticky = t.csticky /\ u.cmapped = t.cmapped /\ u.cicon = t.cicon
         /\ u.active = t.active /\ u.size = t.size
    BY <1>4, <1>5, <1>6, Zenon
  <1> QED BY <1>1, <1>6, <1>9, <1>10, <1>11, <1>12 DEF FrameGone

LEMMA FrameGoneTabs ==
    ASSUME NEW t, NEW u, NEW f \in Frames, NEW X, FrameGone(t, u, f), Flags(t),
           \A c \in Clients : t.cmapped[c] => ~ t.cicon[c],
           \A c \in Clients \ X : t.cmapped[c] =>
             t.parent[c] \in Frames \ {f} /\ t.fmapped[t.parent[c]],
           \A g \in Frames \ {f} : t.fmapped[g] =>
             Exists(t, g) /\ ~ t.ficon[g] /\ t.child[g] \in Clients /\ t.cmapped[t.child[g]]
    PROVE  Tabbed(u, X)
  BY DEF FrameGone, Flags, Tabbed, Exists

LEMMA RemoveFromFrameTabs ==
    ASSUME NEW t, Right(t), Tabbed(t, {}), NEW c \in Clients, IsManaged(t, c)
    PROVE  LET u == RemoveFromFrame(t, c)
           IN  /\ Tabbed(u, {c})
               /\ \A g \in Frames \ {t.parent[c]} : t.fmapped[g] => u.fmapped[g]
  <1> DEFINE f == t.parent[c]
             d == Left(t, c)
             n == NextTab(t, c)
             u == RemoveFromFrame(t, c)
             w == DeleteFrame(d, f)
             a == ActivateChild(d, f, n)
  <1>1. Taken(t, d, f, c) /\ f \in Frames /\ Faced(t) /\ Housed(t)
    BY LeftTaken, RightFaced, RightIs DEF LiveIn
  <1>2. u = IF Len(t.kids[f]) = 1 THEN w ELSE IF t.child[f] = c THEN a ELSE d
    BY RemoveFromFrameIs
  <1>3. Len(t.kids[f]) # 1 => n \in Clients \ {c} /\ t.parent[n] = f
    BY NextTabSits
  <1> HIDE DEF f, d, n, u
  <1>4. /\ Formed(d) /\ Housed(d) /\ d.child = t.child
        /\ \A e \in Clients \ {c} : d.parent[e] = t.parent[e]
        /\ \A g \in Frames \ {f} : d.kids[g] = t.kids[g]
        /\ d.kids[f] = <<>> <=> Len(t.kids[f]) = 1
        /\ d.fmapped = t.fmapped /\ d.ficon = t.ficon /\ d.cmapped = t.cmapped /\ d.cicon = t.cicon
    BY <1>1 DEF Taken, SameLook, SameFlags
  <1>5. /\ Flags(d) /\ \A e \in Clients : d.cmapped[e] => ~ d.cicon[e]
        /\ \A e \in Clients \ {c} : d.cmapped[e] => d.parent[e] \in Frames /\ d.fmapped[d.parent[e]]
        /\ \A g \in Frames \ {f} : d.fmapped[g] =>
             Exists(d, g) /\ ~ d.ficon[g] /\ d.child[g] \in Clients /\ d.cmapped[d.child[g]]
    BY <1>4 DEF Tabbed, Flags, Exists
  <1>6. CASE Len(t.kids[f]) = 1
    <2>1. FrameGone(d, w, f)
      BY <1>1, <1>4, <1>5, DeleteFrameGone
    <2>2. \A e \in Clients : d.parent[e] # f
      <3>1. d.kids[f] = <<>>
        BY <1>4, <1>6
      <3>2. ToSet(d.kids[f]) = {}
        BY <3>1 DEF ToSet
      <3> QED BY <1>1, <1>4, <3>2 DEF Housed
    <2> HIDE DEF w
    <2>3. Tabbed(w, {c})
      BY <1>1, <1>5, <2>1, <2>2, FrameGoneTabs
    <2>4. \A g \in Frames \ {f} : t.fmapped[g] => w.fmapped[g]
      BY <1>4, <2>1 DEF FrameGone
    <2> QED BY <1>2, <1>6, <2>3, <2>4 DEF f, u
  <1>7. CASE Len(t.kids[f]) # 1
    <2>1. Tabbed(d, {c})
      <3>1. d.fmapped[f] =>
             Exists(d, f) /\ ~ d.ficon[f] /\ d.child[f] \in Clients /\ d.cmapped[d.child[f]]
        BY <1>1, <1>4, <1>7 DEF Tabbed, Exists
      <3> QED BY <1>5, <3>1 DEF Tabbed
    <2>2. Tabbed(a, {c}) /\ GrownFrames(d, a)
      <3>1. n \in Clients /\ n \notin {c} /\ d.parent[n] = f
        BY <1>3, <1>4, <1>7
      <3>2. \A g \in Frames : d.fmapped[g] /\ d.child[g] = n => g = f
        <4>1. SUFFICES ASSUME NEW g \in Frames, t.fmapped[g], t.child[g] = n PROVE g = f
          BY <1>4
        <4>2. t.parent[n] = g
          BY <1>1, <4>1 DEF Tabbed, Faced
        <4> QED BY <1>3, <1>7, <4>2
      <3> QED BY <1>1, <1>4, <2>1, <3>1, <3>2, ActivateChildTabs
    <2> HIDE DEF a
    <2>3. u = a \/ u = d
      BY <1>2, <1>7
    <2> QED BY <1>4, <2>1, <2>2, <2>3 DEF GrownFrames, f, u
  <1> QED BY <1>6, <1>7

(* A client put in the list of a frame. *)
Joined(t, u, f, c) ==
    /\ DOMAIN u = Fields /\ SameLook(t, u) /\ u.child = t.child /\ u.parent[c] = f
    /\ \A d \in Clients \ {c} : u.parent[d] = t.parent[d]
    /\ u.kids[f] # <<>> /\ \A g \in Frames \ {f} : u.kids[g] = t.kids[g]

LEMMA AddToFrameJoins ==
    ASSUME NEW t, Right(t), NEW c \in Clients, ~ IsManaged(t, c), NEW f \in Frames
    PROVE  Joined(t, AddToFrame(t, f, c), f, c)
  <1> DEFINE u == AddToFrame(t, f, c)
             r == TreeOf(t)
             x == GP!AddChild(r, f, c)
  <1>1. /\ GP!Sound(r) /\ r.parent[c] = None /\ Formed(t) /\ DOMAIN t = Fields
    BY DEF Right, GP!Good, TreeOf, IsManaged, Formed
  <1>2. Moved(t, u, x) /\ SameLook(t, u)
    BY <1>1, AddToFrameMoves, AddToFrameLook
  <1> HIDE DEF u, r
  <1>3. GP!Added(r, x, f, c)
    BY <1>1, TabsAssumption, GP!AddSound
  <1>4. u.kids = x.kids /\ u.child = x.child /\ u.parent = x.parent
    <2>1. TreeOf(u) = x
      BY <1>2 DEF Moved
    <2> QED BY <2>1, TreeFields
  <1> HIDE DEF x
  <1>5. r.kids = t.kids /\ r.child = t.child /\ r.parent = t.parent
    BY TreeFields DEF r
  <1>6. /\ u.child = t.child /\ u.parent = [t.parent EXCEPT ![c] = f] /\ u.kids[f] # <<>>
        /\ \A g \in Frames \ {f} : u.kids[g] = t.kids[g]
    BY <1>3, <1>4, <1>5 DEF GP!Added
  <1>7. t.parent \in [Clients -> Frames \cup {None}]
    BY RightIs
  <1> QED BY <1>1, <1>2, <1>6, <1>7, LookFields DEF Joined, u

LEMMA JoinedTabs ==
    ASSUME NEW t, NEW u, NEW f \in Frames, NEW c \in Clients, Joined(t, u, f, c),
           Tabbed(t, {c}), t.fmapped[f] \/ ~ t.cmapped[c]
    PROVE  Tabbed(u, {})
  <1>1. /\ u.child = t.child /\ u.parent[c] = f
        /\ u.fmapped = t.fmapped /\ u.ficon = t.ficon /\ u.cmapped = t.cmapped /\ u.cicon = t.cicon
        /\ \A d \in Clients \ {c} : u.parent[d] = t.parent[d]
        /\ \A g \in Frames : Exists(t, g) => Exists(u, g)
    BY DEF Joined, SameLook, SameFlags, Exists
  <1>2. /\ Flags(u) /\ \A d \in Clients : u.cmapped[d] => ~ u.cicon[d]
        /\ \A g \in Frames : u.fmapped[g] =>
             Exists(u, g) /\ ~ u.ficon[g] /\ u.child[g] \in Clients /\ u.cmapped[u.child[g]]
    BY <1>1 DEF Tabbed, Flags
  <1>3. \A d \in Clients : u.cmapped[d] => u.parent[d] \in Frames /\ u.fmapped[u.parent[d]]
    BY <1>1 DEF Tabbed
  <1> QED BY <1>2, <1>3 DEF Tabbed

LEMMA TabbedMore ==
    ASSUME NEW t, NEW X, NEW Y, X \subseteq Y, Tabbed(t, X)
    PROVE  Tabbed(t, Y)
  BY DEF Tabbed

(* Client::~Client *)
LEMMA DeleteClientTabs ==
    ASSUME NEW t, Right(t), t.transient \in [Clients -> Clients \cup {None}], Tabbed(t, {}),
           NEW c \in Clients, IsManaged(t, c)
    PROVE  Tabbed(DeleteClient(t, c), {})
  <1> DEFINE f == t.parent[c]
             owner == t.transient[c]
             u == RemoveFromFrame(t, c)
             g == u.parent[owner]
             b == t.ffocused[f] /\ owner # None /\ u.child[g] = owner
             v == IF b THEN GiveFrameFocus(u, g) ELSE u
             a == [d \in Clients |-> IF d = c \/ v.transient[d] = c THEN None ELSE v.transient[d]]
             n == IF v.focused = c THEN None ELSE v.focused
             zero == 0
             no == FALSE
             w == [v EXCEPT !.focused = n, !.transient = a, !.cws[c] = zero, !.cmapped[c] = no]
             x == [w EXCEPT !.cicon[c] = no, !.csticky[c] = no, !.gone = @ \ {c}]
  <1>1. Tabbed(u, {c}) /\ Formed(u)
    <2>1. Right(u)
      BY RemoveFromFrameBecomes DEF Becomes
    <2> QED BY <2>1, RemoveFromFrameTabs DEF Right
  <1>2. DeleteClient(t, c) = x
    BY DEF DeleteClient
  <1>0. owner \in Clients \cup {None}
    OBVIOUS
  <1> HIDE DEF u, owner, f
  <1>3. SameLook(u, v) /\ DOMAIN v = Fields /\ u.kids = v.kids /\ u.parent = v.parent /\ u.child = v.child
    <2>1. SameLook(u, v)
      <3>1. SameLook(u, GiveFrameFocus(u, g)) /\ SameLook(u, u)
        BY <1>1, FocusLook, LookItself DEF Formed
      <3> HIDE DEF g, b
      <3> QED BY <3>1
    <2>2. /\ DOMAIN u = Fields
      BY <1>1 DEF Formed
    <2>3. u.kids = v.kids /\ u.parent = v.parent /\ u.child = v.child
      <3>1. b => Keeps(u, GiveFrameFocus(u, g))
        BY <1>0, <1>1, GiveFrameFocusKeeps
      <3> HIDE DEF b, g
      <3> QED BY <3>1 DEF Keeps, SameTree
    <2> QED BY <2>1, <2>2, <2>3, LookFields
  <1> HIDE DEF v, a, n, zero, no
  <1>4. /\ DOMAIN w = Fields /\ w.kids = v.kids /\ w.parent = v.parent /\ w.child = v.child
        /\ w.fmapped = v.fmapped /\ w.ficon = v.ficon /\ w.cicon = v.cicon
        /\ w.cmapped = [v.cmapped EXCEPT ![c] = no]
    BY <1>3 DEF Fields
  <1> HIDE DEF w
  <1>5. /\ x.kids = w.kids /\ x.parent = w.parent /\ x.child = w.child
        /\ x.fmapped = w.fmapped /\ x.ficon = w.ficon /\ x.cmapped = w.cmapped
        /\ x.cicon = [w.cicon EXCEPT ![c] = no]
    BY <1>4 DEF Fields
  <1> HIDE DEF x
  <1>6. /\ x.kids = u.kids /\ x.parent = u.parent /\ x.child = u.child
        /\ x.fmapped = u.fmapped /\ x.ficon = u.ficon
        /\ x.cmapped = [u.cmapped EXCEPT ![c] = FALSE] /\ x.cicon = [u.cicon EXCEPT ![c] = FALSE]
    BY <1>3, <1>4, <1>5 DEF SameLook, SameFlags, no
  <1>7. /\ \A d \in Clients : x.cmapped[d] <=> u.cmapped[d] /\ d # c
        /\ \A d \in Clients : x.cicon[d] <=> u.cicon[d] /\ d # c
        /\ Flags(x)
    BY <1>1, <1>6 DEF Tabbed, Flags
  <1>8. ASSUME NEW g0 \in Frames, u.fmapped[g0] PROVE u.child[g0] # c
    <2>1. Right(u) /\ ~ IsManaged(u, c)
      <3>1. Becomes(t, u, GP!RemoveChild(TreeOf(t), c))
        BY RemoveFromFrameBecomes DEF u
      <3>2. TreeOf(u) = GP!RemoveChild(TreeOf(t), c) /\ Right(u)
        BY <3>1 DEF Becomes
      <3> QED BY <3>2, AfterRemoval
    <2>2. Faced(u) /\ Exists(u, g0)
      BY <1>1, <1>8, <2>1, RightFaced DEF Tabbed
    <2>3. u.parent[u.child[g0]] = g0
      BY <2>2 DEF Faced
    <2> QED BY <2>1, <2>3, TabsAssumption DEF IsManaged
  <1>9. Tabbed(x, {})
    BY <1>1, <1>6, <1>7, <1>8 DEF Tabbed, Exists
  <1> QED BY <1>2, <1>9

(* Frame::Frame until the frame takes over the state of its client. *)
Opened(t, f, c) ==
    LET u == PutInFront(AddToFrame(t, f, c), f, c)
    IN  [u EXCEPT !.mru = <<f>> \o @, !.wolist = Append(@, f)]

LEMMA OpenFrameIs ==
    ASSUME NEW t, NEW f, NEW c
    PROVE  LET w == GetState(Opened(t, f, c), f, c)
           IN  OpenFrame(t, f, c) = SetFrameWorkspace(w, f, w.cws[c])
  BY DEF OpenFrame, Opened

LEMMA FrameOpened ==
    ASSUME NEW t, Right(t), NEW c \in Clients, ~ IsManaged(t, c), NEW f \in Frames \ LiveIn(t)
    PROVE  Becomes(t, Opened(t, f, c), GP!NewFrame(TreeOf(t), f, c))
  <1> DEFINE a == AddToFrame(t, f, c)
             u == PutInFront(a, f, c)
             v == [u EXCEPT !.mru = <<f>> \o @, !.wolist = Append(@, f)]
             r == TreeOf(t)
             x == GP!AddChild(r, f, c)
             y == GP!NewFrame(r, f, c)
  <1>1. Opened(t, f, c) = v
    BY DEF Opened
  <1>2. /\ GP!Good(r) /\ r.parent[c] = None /\ ~ GP!Exists(r, f)
        /\ Formed(t) /\ Listed(t)
    BY DEF Right, TreeOf, LiveIn, IsManaged, GP!Exists, Exists
  <1>3. Moved(t, a, x)
    BY <1>2, AddToFrameMoves
  <1> HIDE DEF a, r
  <1>4. GP!Good(y)
    BY <1>2, TabsAssumption, GP!NewFrameGood
  <1>5. GP!Added(r, x, f, c)
    BY <1>2, TabsAssumption, GP!AddSound DEF GP!Good
  <1>6. TreeOf(a) = x /\ Formed(a)
    BY <1>2, <1>3, <1>5, MovedForm DEF Moved, GP!Added
  <1>7. Moved(t, u, y)
    <2>1. Moved(a, u, GP!PutInFront(x, f, c))
      BY <1>6, PutInFrontMoves
    <2>2. y = GP!PutInFront(x, f, c)
      BY DEF GP!NewFrame
    <2> QED BY <1>3, <2>1, <2>2, MovedOn
  <1>8. u.kids = a.kids /\ Formed(u)
    BY <1>6 DEF Formed, Fields, PutInFront
  <1> HIDE DEF u, x, y
  <1>9. LiveIn(u) = LiveIn(t) \cup {f}
    <2>1. x.kids[f] # <<>> /\ \A g \in Frames \ {f} : x.kids[g] = r.kids[g]
      BY <1>5 DEF GP!Added
    <2>2. u.kids[f] # <<>> /\ \A g \in Frames \ {f} : u.kids[g] = t.kids[g]
      BY <1>6, <1>8, <2>1, TreeFields DEF r
    <2> QED BY <2>2 DEF LiveIn, Exists
  <1>10. /\ Stays(u, v) /\ SameTree(u, v) /\ v.mru = <<f>> \o u.mru
         /\ v.wolist = Append(u.wolist, f) /\ Formed(v)
    BY <1>8 DEF Formed, Fields, Stays, SameTree
  <1> HIDE DEF v
  <1>11. LiveIn(v) = LiveIn(t) \cup {f} /\ TreeOf(v) = y
    BY <1>7, <1>9, <1>10 DEF LiveIn, Exists, SameTree, Moved, TreeOf
  <1>12. Listed(v)
    <2>1. Lists(t.wolist, LiveIn(t)) /\ Lists(t.mru, LiveIn(t))
      BY DEF Right, Listed
    <2>2. Lists(Append(t.wolist, f), LiveIn(t) \cup {f}) /\ Lists(<<f>> \o t.mru, LiveIn(t) \cup {f})
      BY <2>1, ListAppended, ListPrefixed
    <2>3. u.wolist = t.wolist /\ u.mru = t.mru
      BY <1>7 DEF Moved, SameLists
    <2> QED BY <1>10, <1>11, <2>2, <2>3 DEF Listed
  <1>13. Becomes(t, v, y)
    BY <1>4, <1>7, <1>10, <1>11, <1>12 DEF Becomes, Right, Moved, Stays
  <1> QED BY <1>1, <1>13 DEF y, r

(* The frame before that: it has one tab, that is in front, and looks as   *)
(* what is no frame any more was left.                                     *)
LEMMA OpenedLook ==
    ASSUME NEW t, Right(t), NEW c \in Clients, ~ IsManaged(t, c), NEW f \in Frames
    PROVE  LET u == Opened(t, f, c)
           IN  /\ SameLook(t, u) /\ u.child = [t.child EXCEPT ![f] = c] /\ u.parent[c] = f
               /\ \A d \in Clients \ {c} : u.parent[d] = t.parent[d]
               /\ u.kids[f] # <<>> /\ \A g \in Frames \ {f} : u.kids[g] = t.kids[g]
  <1> DEFINE a == AddToFrame(t, f, c)
             u == PutInFront(a, f, c)
             p == <<f>> \o u.mru
             q == Append(u.wolist, f)
             v == [u EXCEPT !.mru = p, !.wolist = q]
  <1>1. Opened(t, f, c) = v
    BY DEF Opened
  <1>2. Joined(t, a, f, c)
    BY AddToFrameJoins
  <1> HIDE DEF a
  <1>3. SameLook(a, u) /\ DOMAIN u = Fields /\ u.kids = a.kids /\ u.parent = a.parent
        /\ u.child = [a.child EXCEPT ![f] = c]
    BY <1>2, TabsLook, LookFields DEF Joined, PutInFront, Fields
  <1> HIDE DEF u, p, q
  <1>4. /\ SameLook(u, v) /\ v.kids = u.kids /\ v.parent = u.parent /\ v.child = u.child
    BY <1>3 DEF Fields, SameLook, SamePlaces, SameFlags
  <1> HIDE DEF v
  <1>5. SameLook(t, v)
    BY <1>2, <1>3, <1>4, LookOn DEF Joined
  <1> QED BY <1>1, <1>2, <1>3, <1>4, <1>5 DEF Joined

LEMMA OpenedTabs ==
    ASSUME NEW t, Right(t), NEW c \in Clients, ~ IsManaged(t, c), ~ t.cmapped[c], Tabbed(t, {}),
           NEW f \in Frames \ LiveIn(t)
    PROVE  LET v == Opened(t, f, c) IN Right(v) /\ Steady(v) /\ Exists(v, f)
  <1> DEFINE v == Opened(t, f, c)
  <1>1. Right(v)
    BY FrameOpened DEF Becomes
  <1>2. /\ SameLook(t, v) /\ v.child = [t.child EXCEPT ![f] = c] /\ v.parent[c] = f
        /\ \A d \in Clients \ {c} : v.parent[d] = t.parent[d]
        /\ v.kids[f] # <<>> /\ \A g \in Frames \ {f} : v.kids[g] = t.kids[g]
    BY OpenedLook
  <1> HIDE DEF v
  <1>3. ~ t.fmapped[f] /\ t.child \in [Frames -> Clients \cup {None}]
    BY RightFaced DEF Tabbed, LiveIn, Housed
  <1>4. \A g \in Frames \ {f} : v.child[g] = t.child[g]
    BY <1>2, <1>3
  <1>5. \A g \in Frames : Exists(t, g) => Exists(v, g)
    BY <1>2 DEF Exists
  <1>6. /\ v.fmapped = t.fmapped /\ v.ficon = t.ficon /\ v.cmapped = t.cmapped /\ v.cicon = t.cicon
    BY <1>2 DEF SameLook, SameFlags
  <1>7. Tabbed(v, {})
    BY <1>2, <1>3, <1>4, <1>5, <1>6 DEF Tabbed, Flags
  <1> QED BY <1>1, <1>2, <1>7, RightSteady DEF Exists, v

LEMMA GetStateTabs ==
    ASSUME NEW t, Steady(t), NEW f \in Frames, Exists(t, f), NEW c \in Clients
    PROVE  Steady(GetState(t, f, c)) /\ Keeps(t, GetState(t, f, c))
  <1> DEFINE icon == t.cicon[c]
             b == t.csticky[c]
             u == [t EXCEPT !.fsticky[f] = b]
             v == IF u.fws[f] # u.cws[c] THEN SetFrameWorkspace(u, f, u.cws[c]) ELSE u
  <1>0. Formed(t)
    BY DEF Steady
  <1>1. GetState(t, f, c) = IF icon THEN IconifyFrame(v, f) ELSE v
    BY DEF GetState
  <1>7. Keeps(t, GetState(t, f, c))
    BY <1>0, GetStateKeeps
  <1> HIDE DEF icon, b
  <1>2. Keeps(t, u) /\ SameFlags(t, u)
    BY <1>0 DEF Formed, Fields, Keeps, Stays, SameTree, SameLists, SameFlags
  <1> HIDE DEF u
  <1>3. Steady(u) /\ Exists(u, f) /\ Formed(u)
    BY <1>2, SteadyKept DEF Keeps, SameTree, Exists, Steady
  <1>4. Steady(v) /\ Keeps(u, v)
    BY <1>3, SetFrameWorkspaceTabs, SetFrameWorkspaceKeeps, KeepsItself
  <1> HIDE DEF v
  <1>5. Exists(v, f)
    BY <1>3, <1>4 DEF Keeps, SameTree, Exists
  <1>6. Steady(IconifyFrame(v, f))
    BY <1>4, <1>5, SteadyMapped
  <1> QED BY <1>1, <1>4, <1>6, <1>7

LEMMA OpenFrameTabs ==
    ASSUME NEW t, Right(t), NEW c \in Clients, ~ IsManaged(t, c), ~ t.cmapped[c], Tabbed(t, {}),
           NEW f \in Frames \ LiveIn(t)
    PROVE  Steady(OpenFrame(t, f, c))
  <1> DEFINE v == Opened(t, f, c)
             w == GetState(v, f, c)
  <1>1. Steady(v) /\ Exists(v, f)
    BY OpenedTabs
  <1>2. OpenFrame(t, f, c) = SetFrameWorkspace(w, f, w.cws[c])
    BY OpenFrameIs
  <1> HIDE DEF v
  <1>3. Steady(w) /\ Keeps(v, w)
    BY <1>1, GetStateTabs
  <1> HIDE DEF w
  <1>4. Exists(w, f)
    BY <1>1, <1>3 DEF Keeps, SameTree, Exists
  <1> QED BY <1>2, <1>3, <1>4, SetFrameWorkspaceTabs

(* Client::Client *)
LEMMA FrameFoundTabs ==
    ASSUME NEW t, Right(t), Tabbed(t, {}), NEW c \in Clients, ~ IsManaged(t, c), ~ t.cmapped[c],
           NEW f \in Frames, NEW place \in {"new", "front", "behind"},
           place = "new" <=> f \notin LiveIn(t)
    PROVE  Tabbed(FindOrCreateFrame(t, c, f, place), {})
  <1> DEFINE a == AddToFrame(t, f, c)
             b == ActivateChild(a, f, c)
             n == OpenFrame(t, f, c)
             u == FindOrCreateFrame(t, c, f, place)
  <1>1. CASE place = "new"
    <2>1. u = n
      BY <1>1 DEF FindOrCreateFrame
    <2>2. Steady(n)
      BY <1>1, OpenFrameTabs
    <2> QED BY <2>1, <2>2 DEF Steady
  <1>2. CASE place # "new"
    <2>1. Right(a) /\ a.parent[c] = f
      BY <1>2, AddToFrameBecomes DEF Becomes
    <2>2. u = IF place = "front" THEN b ELSE a
      BY <1>2 DEF FindOrCreateFrame
    <2>3. Joined(t, a, f, c)
      BY AddToFrameJoins
    <2> HIDE DEF a, u
    <2>4. Tabbed(a, {})
      BY <2>3, JoinedTabs, TabbedMore
    <2>5. Formed(a) /\ Housed(a) /\ Faced(a)
      BY <2>1, RightFaced
    <2>6. \A g \in Frames : a.fmapped[g] /\ a.child[g] = c => g = f
      BY <2>1, <2>4, <2>5 DEF Faced, Tabbed
    <2>7. Tabbed(b, {}) /\ GrownFrames(a, b)
      <3>1. c \notin {}
        OBVIOUS
      <3> QED BY <2>1, <2>4, <2>5, <2>6, <3>1, ActivateChildTabs
    <2> HIDE DEF b
    <2> QED BY <2>2, <2>4, <2>7 DEF u
  <1> QED BY <1>1, <1>2

LEMMA MappedStateTabs ==
    ASSUME NEW t, Right(t), Tabbed(t, {}), NEW c \in Clients, IsManaged(t, c), NEW b
    PROVE  Tabbed(SetMappedStateAndFocus(t, c, b), {})
  <1> DEFINE f == t.parent[c]
             x == [t EXCEPT !.cmapped[c] = TRUE]
             u == IF t.fmapped[f] /\ ~ t.cicon[c] THEN x ELSE t
  <1>1. SetMappedStateAndFocus(t, c, b) = IF t.fmapped[f] /\ b THEN GiveFrameFocus(u, f) ELSE u
    BY DEF SetMappedStateAndFocus
  <1>2. f \in LiveIn(t) /\ f \in Frames /\ Formed(t) /\ t.child[f] \in Clients
    BY RightIs DEF LiveIn
  <1>3. /\ DOMAIN x = Fields /\ SameTree(t, x) /\ x.fmapped = t.fmapped /\ x.ficon = t.ficon /\ x.cicon = t.cicon
        /\ x.cmapped = [t.cmapped EXCEPT ![c] = TRUE] /\ Formed(x)
    BY <1>2 DEF Formed, Fields, SameTree
  <1> HIDE DEF x
  <1>4. /\ \A d \in Clients : x.cmapped[d] <=> t.cmapped[d] \/ d = c
        /\ Flags(x)
    BY <1>3 DEF Tabbed, Flags
  <1>5. t.fmapped[f] /\ ~ t.cicon[c] => Tabbed(x, {})
    BY <1>2, <1>3, <1>4 DEF Tabbed, SameTree, Exists
  <1>6. Tabbed(u, {}) /\ Formed(u) /\ u.child = t.child
    BY <1>2, <1>3, <1>5 DEF SameTree
  <1> HIDE DEF u
  <1>7. Tabbed(GiveFrameFocus(u, f), {})
    <2>1. SameLook(u, GiveFrameFocus(u, f)) /\ Keeps(u, GiveFrameFocus(u, f))
      BY <1>2, <1>6, FocusLook, GiveFrameFocusKeeps DEF Formed
    <2> QED BY <1>6, <2>1, TabsSame DEF Keeps, SameLook
  <1> QED BY <1>1, <1>6, <1>7

LEMMA RaiseTabs ==
    ASSUME NEW t, Formed(t), Tabbed(t, {}), NEW f
    PROVE  Tabbed(Raise(t, f), {})
  <1>1. SameLook(t, Raise(t, f))
    BY FocusLook DEF Formed
  <1>2. SameTree(t, Raise(t, f))
    <2> DEFINE over == {g \in Frames \ {f} : \E d \in Clients :
                          InFront(t, g, d) /\ t.transient[d] = t.child[f]}
               q == Sieve(t.wolist, Frames \ (over \cup {f})) \o <<f>> \o SetToSeq(over)
    <2>1. Raise(t, f) = [t EXCEPT !.wolist = q]
      BY DEF Raise
    <2> HIDE DEF q
    <2> QED BY <2>1 DEF Formed, Fields, SameTree
  <1> QED BY <1>1, <1>2, TabsSame DEF SameLook

LEMMA ManageTabs ==
    ASSUME NEW t, Right(t), t.transient \in [Clients -> Clients \cup {None}], Tabbed(t, {}),
           NEW c \in Clients, ~ IsManaged(t, c), NEW f \in Frames,
           NEW place \in {"new", "front", "behind"}, place = "new" <=> f \notin LiveIn(t),
           NEW icon \in BOOLEAN, NEW focus, NEW same
    PROVE  Tabbed(Manage(t, c, f, place, icon, focus, same), {})
  <1> DEFINE owner == TransientFor[c]
             w == IF owner # None /\ IsManaged(t, owner) THEN owner ELSE None
             l == IF same THEN t.last ELSE [n \in Workspaces |-> IF t.last[n] = c THEN None ELSE t.last[n]]
             u == [t EXCEPT !.cws[c] = t.active, !.cicon[c] = icon, !.transient[c] = w, !.last = l]
             v == FindOrCreateFrame(u, c, f, place)
             x == SetMappedStateAndFocus(v, c, focus)
             y == FindAndRaiseIfTransient(x, c)
  <1>1. Manage(t, c, f, place, icon, focus, same) = y
    <2>1. [t EXCEPT !.cws[c] = t.active, !.cicon[c] = icon, !.transient[c] = w,
             !.last = IF same THEN @
                      ELSE [n \in Workspaces |-> IF @[n] = c THEN None ELSE @[n]]] = u
      BY RightIs DEF Formed, Fields
    <2> QED BY <2>1 DEF Manage
  <1>2. w \in Clients \cup {None}
    BY WmAssumption
  <1> HIDE DEF w, l, y
  <1>3. /\ Formed(u) /\ SameTree(t, u) /\ SameLists(t, u)
        /\ u.fmapped = t.fmapped /\ u.ficon = t.ficon /\ u.cmapped = t.cmapped
        /\ u.cicon = [t.cicon EXCEPT ![c] = icon]
    BY RightIs DEF Formed, Fields, SameTree, SameLists
  <1> HIDE DEF u
  <1>4. Right(u) /\ LiveIn(u) = LiveIn(t) /\ ~ IsManaged(u, c)
    <2>1. TreeOf(u) = TreeOf(t) /\ LiveIn(u) = LiveIn(t) /\ ~ IsManaged(u, c)
      BY <1>3, SameLive DEF SameTree, TreeOf, IsManaged
    <2>2. Listed(u)
      BY <1>3, <2>1, KeepsListed DEF Right
    <2> QED BY <1>3, <2>1, <2>2 DEF Right
  <1>5. ~ t.cmapped[c]
    BY TabsAssumption DEF Tabbed, IsManaged
  <1>6. Tabbed(u, {}) /\ ~ u.cmapped[c]
    <2>1. /\ \A d \in Clients \ {c} : u.cicon[d] = t.cicon[d]
          /\ Flags(u)
      BY <1>3 DEF Tabbed, Flags
    <2> QED BY <1>3, <1>5, <2>1 DEF Tabbed, SameTree, Exists
  <1>7. Tabbed(v, {}) /\ Right(v) /\ v.parent[c] = f
    BY <1>4, <1>6, FrameFound, FrameFoundTabs DEF Becomes
  <1> HIDE DEF v
  <1>8. IsManaged(v, c)
    BY <1>7, TabsAssumption DEF IsManaged
  <1>9. Tabbed(x, {}) /\ Formed(x)
    BY <1>7, <1>8, MappedStateTabs, MappedStateKeeps, KeepsForm DEF Right
  <1> HIDE DEF x
  <1>10. Tabbed(y, {})
    BY <1>9, RaiseTabs DEF y, FindAndRaiseIfTransient
  <1> QED BY <1>1, <1>10

(* The requests and events. *)
LEMMA TreeSame ==
    ASSUME NEW t, NEW u, TreeOf(u) = TreeOf(t)
    PROVE  SameTree(t, u)
  BY TreeFields DEF SameTree

LEMMA RightFront ==
    ASSUME NEW t, Right(t)
    PROVE  \A f \in Frames : Exists(t, f) <=> t.child[f] # None
  <1>1. t.child = TreeOf(t).child /\ t.kids = TreeOf(t).kids /\ Faced(t)
    BY TreeFields, RightFaced
  <1> QED BY <1>1, TabsAssumption DEF Right, GP!Good, GP!FrontIsATab, GP!Exists, Exists, Faced

LEMMA RightKept ==
    ASSUME NEW t, Right(t), NEW u, Keeps(t, u)
    PROVE  Right(u)
  BY RightOn DEF Becomes

LEMMA FrameFocusedTabs ==
    ASSUME NEW t, Formed(t), Tabbed(t, {}), NEW f \in Frames, t.child[f] \in Clients
    PROVE  /\ Tabbed(GiveFrameFocus(t, f), {}) /\ Tabbed(GiveFrameFocus(Raise(t, f), f), {})
  <1>1. \A u : Formed(u) /\ Tabbed(u, {}) /\ u.child[f] \in Clients => Tabbed(GiveFrameFocus(u, f), {})
    <2>1. SUFFICES ASSUME NEW u, Formed(u), Tabbed(u, {}), u.child[f] \in Clients
                   PROVE  Tabbed(GiveFrameFocus(u, f), {})
      OBVIOUS
    <2>2. SameLook(u, GiveFrameFocus(u, f)) /\ Keeps(u, GiveFrameFocus(u, f))
      BY <2>1, FocusLook, GiveFrameFocusKeeps DEF Formed
    <2> QED BY <2>1, <2>2, TabsSame DEF Keeps, SameLook
  <1>2. Tabbed(Raise(t, f), {})
    BY RaiseTabs
  <1>3. Formed(Raise(t, f)) /\ Raise(t, f).child = t.child
    <2> DEFINE over == {g \in Frames \ {f} : \E d \in Clients :
                          InFront(t, g, d) /\ t.transient[d] = t.child[f]}
               q == Sieve(t.wolist, Frames \ (over \cup {f})) \o <<f>> \o SetToSeq(over)
    <2>1. Raise(t, f) = [t EXCEPT !.wolist = q]
      BY DEF Raise
    <2> HIDE DEF q
    <2> QED BY <2>1 DEF Formed, Fields
  <1> QED BY <1>1, <1>2, <1>3

LEMMA ActivatedTabs ==
    ASSUME NEW t, Steady(t), NEW c \in Clients, t.parent[c] \in Frames
    PROVE  Tabbed(ActivateChild(t, t.parent[c], c), {})
  <1> DEFINE f == t.parent[c]
             u == ActivateChild(t, f, c)
  <1>1. Formed(t) /\ Housed(t) /\ Faced(t) /\ Tabbed(t, {}) /\ c \notin {}
    BY DEF Steady
  <1>2. \A g \in Frames : t.fmapped[g] /\ t.child[g] = c => g = f
    BY <1>1 DEF Faced, Tabbed
  <1> QED BY <1>1, <1>2, ActivateChildTabs

LEMMA ActivateTabs ==
    ASSUME NEW c \in Clients, Right(s), Tabbed(s, {}), Activate(c)
    PROVE  Tabbed(s', {})
  <1> DEFINE f == s.parent[c]
             t == IF s.child[f] = c THEN s ELSE ActivateChild(s, f, c)
             w == IF t.fsticky[f] THEN t ELSE SetWorkspace(t, t.fws[f], FALSE)
             m == MapFrame(w, f)
             u == IF t.fmapped[f] THEN t ELSE m
  <1>1. s' = GiveFrameFocus(Raise(u, f), f) /\ IsManaged(s, c)
    BY DEF Activate, Managed
  <1>2. f \in LiveIn(s) /\ f \in Frames
    BY <1>1, RightIs DEF LiveIn
  <1>3. Fronts(s, t, c)
    BY <1>1, ActivateChildBecomes, Refocused DEF Fronts
  <1>4. Tabbed(t, {})
    BY <1>2, RightSteady, ActivatedTabs
  <1> HIDE DEF t, f
  <1>5. Right(t) /\ f \in LiveIn(t)
    <2>1. Right(t) /\ LiveIn(t) = LiveIn(s)
      BY <1>3, FrontLive DEF Fronts, Becomes
    <2> QED BY <1>2, <2>1
  <1>6. Steady(w) /\ Keeps(t, w)
    <2>1. Steady(t) /\ Listed(t) /\ Keeps(t, t)
      BY <1>4, <1>5, RightSteady, KeepsItself DEF Right
    <2> QED BY <2>1, SetWorkspaceTabs
  <1> HIDE DEF w
  <1>7. Steady(m) /\ Keeps(w, m)
    <2>1. Exists(w, f) /\ Formed(w)
      BY <1>5, <1>6 DEF LiveIn, Exists, Keeps, SameTree, Steady
    <2> QED BY <1>2, <1>6, <2>1, SteadyMapped, MapFrameKeeps
  <1> HIDE DEF m
  <1>8. Tabbed(u, {}) /\ Right(u) /\ u.child[f] \in Clients
    <2>1. Keeps(t, m) /\ Keeps(t, t)
      BY <1>5, <1>6, <1>7, KeepsOn, KeepsItself DEF Right
    <2>2. Keeps(t, u) /\ Tabbed(u, {})
      BY <1>4, <1>7, <2>1 DEF Steady
    <2> HIDE DEF u
    <2>3. f \in LiveIn(u) /\ Right(u)
      BY <1>5, <2>2, RightKept, SameLive DEF Keeps, SameTree
    <2> QED BY <2>2, <2>3, RightIs
  <1> HIDE DEF u
  <1> QED BY <1>1, <1>2, <1>8, FrameFocusedTabs DEF Right

LEMMA GotoClientTabs ==
    ASSUME NEW c \in Clients, Right(s), Tabbed(s, {}), GotoClient(c)
    PROVE  Tabbed(s', {})
  <1> DEFINE f == s.parent[c]
             t == IF s.fsticky[f] THEN s ELSE SetWorkspace(s, s.fws[f], FALSE)
             w == MapFrame(t, f)
             u == ActivateChild(w, f, c)
  <1>1. s' = GiveFrameFocus(Raise(u, f), f) /\ IsManaged(s, c)
    BY DEF GotoClient, Managed
  <1>2. f \in LiveIn(s) /\ f \in Frames
    BY <1>1, RightIs DEF LiveIn
  <1>3. Steady(t) /\ Keeps(s, t)
    <2>1. Steady(s) /\ Listed(s) /\ Keeps(s, s)
      BY RightSteady, RightIs, KeepsItself DEF Right
    <2> QED BY <2>1, SetWorkspaceTabs
  <1> HIDE DEF t
  <1>4. Steady(w) /\ Keeps(s, w)
    <2>1. Exists(t, f) /\ Formed(t)
      BY <1>2, <1>3 DEF LiveIn, Exists, Keeps, SameTree, Steady
    <2> QED BY <1>2, <1>3, <2>1, SteadyMapped, MapFrameKeeps, KeepsOn
  <1> HIDE DEF w
  <1>5. Right(w) /\ w.parent[c] = f /\ IsManaged(w, c) /\ f \in LiveIn(w)
    BY <1>1, <1>2, <1>4, RightKept, SameLive DEF Keeps, SameTree, IsManaged
  <1>6. Tabbed(u, {}) /\ Right(u) /\ f \in LiveIn(u)
    <2>1. Becomes(w, ActivateChild(w, w.parent[c], c), GP!PutInFront(TreeOf(w), w.parent[c], c))
      BY <1>5, ActivateChildBecomes
    <2>2. Becomes(w, u, GP!PutInFront(TreeOf(w), f, c))
      BY <1>5, <2>1
    <2>3. Tabbed(u, {})
      BY <1>2, <1>4, <1>5, ActivatedTabs
    <2>4. LiveIn(u) = LiveIn(w)
      BY <2>2, FrontLive DEF Becomes
    <2> QED BY <1>5, <2>2, <2>3, <2>4 DEF Becomes
  <1> HIDE DEF u, f
  <1>7. u.child[f] \in Clients /\ Formed(u)
    BY <1>6, RightIs
  <1> QED BY <1>1, <1>2, <1>6, <1>7, FrameFocusedTabs

LEMMA ClickTabs ==
    ASSUME NEW c \in Clients, Right(s), Tabbed(s, {}), Click(c)
    PROVE  Tabbed(s', {})
  <1> DEFINE f == s.parent[c]
             t == ActivateChild(s, f, c)
  <1>1. s' = (IF t.ffocused[f] THEN Raise(t, f) ELSE GiveClientFocus(t, c)) /\ IsManaged(s, c)
    BY DEF Click, Managed
  <1>2. f \in Frames
    BY <1>1, RightIs DEF LiveIn
  <1>3. Formed(t)
    BY <1>1, ActivateChildBecomes DEF Becomes, Right
  <1>4. Tabbed(t, {})
    BY <1>2, RightSteady, ActivatedTabs
  <1> HIDE DEF t
  <1>5. Tabbed(Raise(t, f), {})
    BY <1>3, <1>4, RaiseTabs
  <1>6. Tabbed(GiveClientFocus(t, c), {})
    <2>1. SameLook(t, GiveClientFocus(t, c)) /\ Keeps(t, GiveClientFocus(t, c))
      BY <1>3, FocusLook, GiveClientFocusKeeps DEF Formed
    <2> QED BY <1>4, <2>1, TabsSame DEF Keeps, SameLook
  <1> QED BY <1>1, <1>5, <1>6

LEMMA FocusToggleTabs ==
    ASSUME NEW f \in Frames, NEW raise \in BOOLEAN, Right(s), Tabbed(s, {}), FocusToggle(f, raise)
    PROVE  Tabbed(s', {})
  <1> DEFINE x == SetFocused(s, s.focused, FALSE)
             t == [x EXCEPT !.ffocused[f] = TRUE]
             v == SetFrameWorkspace(t, f, t.active)
             w == MapFrame(v, f)
             u == IF t.ficon[f] THEN Raise(w, f) ELSE IF raise THEN Raise(t, f) ELSE t
  <1>1. s' = GiveFrameFocus(u, f) /\ f \in LiveIn(s)
    BY DEF FocusToggle, Live, LiveIn
  <1>2. Keeps(s, x) /\ Formed(x) /\ SameLook(s, x)
    BY RightIs, SetFocusedKeeps, KeepsForm, FocusLook DEF Formed
  <1> HIDE DEF x
  <1>3. Keeps(x, t) /\ SameLook(x, t)
    <2>1. SameLook(x, t)
      BY <1>2, FieldLook DEF Formed
    <2> QED BY <1>2, <2>1 DEF Formed, Fields, Keeps, Stays, SameTree, SameLists
  <1> HIDE DEF t
  <1>4. Keeps(s, t) /\ Steady(t)
    BY <1>2, <1>3, KeepsOn, RightSteady, SteadyLook
  <1>5. Exists(t, f) /\ Formed(t) /\ t.child[f] \in Clients
    <2>1. s.child[f] \in Clients
      BY <1>1, RightIs
    <2> QED BY <1>1, <1>4, <2>1 DEF Keeps, SameTree, Exists, LiveIn, Steady
  <1>6. Steady(v) /\ Keeps(t, v)
    BY <1>4, <1>5, SetFrameWorkspaceTabs, SetFrameWorkspaceKeeps
  <1> HIDE DEF v
  <1>7. Steady(w) /\ Keeps(t, w)
    <2>1. Exists(v, f) /\ Formed(v)
      BY <1>5, <1>6 DEF Exists, Keeps, SameTree, Steady
    <2> QED BY <1>6, <2>1, SteadyMapped, MapFrameKeeps, KeepsOn
  <1> HIDE DEF w
  <1>8. Formed(w) /\ w.child[f] \in Clients /\ Tabbed(w, {}) /\ Tabbed(t, {})
    BY <1>4, <1>5, <1>7 DEF Keeps, SameTree, Steady
  <1>9. /\ Tabbed(GiveFrameFocus(Raise(w, f), f), {}) /\ Tabbed(GiveFrameFocus(Raise(t, f), f), {})
        /\ Tabbed(GiveFrameFocus(t, f), {})
    BY <1>5, <1>8, FrameFocusedTabs
  <1> QED BY <1>1, <1>9

LEMMA AttachMarkedTabs ==
    ASSUME NEW c \in Clients, NEW f \in Frames, Right(s), Tabbed(s, {}), AttachMarked(c, f)
    PROVE  Tabbed(s', {})
  <1> DEFINE t == RemoveFromFrame(s, c)
             x == GP!RemoveChild(TreeOf(s), c)
             n == t.fws[f]
             u == [t EXCEPT !.cws[c] = n]
  <1>1. s' = AddToFrame(u, f, c) /\ IsManaged(s, c) /\ s.fmapped[f] /\ f # s.parent[c]
    BY DEF AttachMarked, Managed, Live
  <1>2. Becomes(s, t, x) /\ Formed(t)
    BY <1>1, RemoveFromFrameBecomes DEF Becomes, Right
  <1>3. Tabbed(t, {c}) /\ t.fmapped[f]
    BY <1>1, RemoveFromFrameTabs
  <1> HIDE DEF t, x, n
  <1>4. Keeps(t, u) /\ SameFlags(t, u)
    BY <1>2 DEF Formed, Fields, Keeps, Stays, SameTree, SameLists, SameFlags
  <1> HIDE DEF u
  <1>5. Right(u) /\ ~ IsManaged(u, c)
    <2>1. Becomes(s, u, x)
      BY <1>2, <1>4, BecomesKept
    <2>2. TreeOf(u) = GP!RemoveChild(TreeOf(s), c)
      BY <2>1 DEF Becomes, x
    <2> QED BY <1>1, <2>1, <2>2, AfterRemoval DEF Becomes
  <1>6. Tabbed(u, {c}) /\ u.fmapped[f]
    BY <1>3, <1>4, TabsSame DEF Keeps, SameFlags
  <1>7. Joined(u, AddToFrame(u, f, c), f, c)
    BY <1>5, AddToFrameJoins
  <1> QED BY <1>1, <1>6, <1>7, JoinedTabs

LEMMA AttachClientTabs ==
    ASSUME NEW c \in Clients, NEW f \in Frames, Right(s), Tabbed(s, {}), AttachClient(c, f)
    PROVE  Tabbed(s', {})
  <1> DEFINE k == SetFocused(s, c, FALSE)
             t == RemoveFromFrame(k, c)
             u == AddToFrame(t, f, c)
             v == ActivateChild(u, f, c)
  <1>1. /\ s' = GiveFrameFocus(v, f) /\ IsManaged(s, c) /\ s.fmapped[f] /\ f # s.parent[c]
        /\ f \in LiveIn(s)
    BY DEF AttachClient, Managed, Live, LiveIn
  <1>2. Keeps(s, k) /\ SameLook(s, k)
    BY RightIs, SetFocusedKeeps, FocusLook DEF Formed
  <1> HIDE DEF k
  <1>3. /\ Right(k) /\ IsManaged(k, c) /\ k.parent = s.parent /\ k.fmapped = s.fmapped
        /\ Tabbed(k, {}) /\ LiveIn(k) = LiveIn(s)
    BY <1>1, <1>2, RightKept, TabsSame, SameLive DEF Keeps, SameTree, SameLook, SameFlags, IsManaged
  <1>4. Right(t) /\ TreeOf(t) = GP!RemoveChild(TreeOf(k), c) /\ Tabbed(t, {c}) /\ t.fmapped[f]
    <2>1. Becomes(k, t, GP!RemoveChild(TreeOf(k), c))
      BY <1>3, RemoveFromFrameBecomes
    <2>2. Tabbed(t, {c}) /\ t.fmapped[f]
      BY <1>1, <1>3, RemoveFromFrameTabs
    <2> HIDE DEF t
    <2> QED BY <2>1, <2>2 DEF Becomes
  <1> HIDE DEF t
  <1>5. ~ IsManaged(t, c) /\ f \in LiveIn(t)
    BY <1>1, <1>3, <1>4, AfterRemoval
  <1>6. Right(u) /\ u.parent[c] = f
    BY <1>4, <1>5, AddToFrameBecomes DEF Becomes
  <1>7. Tabbed(u, {})
    <2>1. Joined(t, u, f, c)
      BY <1>4, <1>5, AddToFrameJoins
    <2> HIDE DEF u
    <2> QED BY <1>4, <2>1, JoinedTabs
  <1> HIDE DEF u
  <1>8. Tabbed(v, {})
    BY <1>6, <1>7, RightSteady, ActivatedTabs
  <1>9. Formed(v) /\ v.child[f] \in Clients
    <2>1. IsManaged(u, c)
      BY <1>6, TabsAssumption DEF IsManaged
    <2>2. Becomes(u, ActivateChild(u, u.parent[c], c), GP!PutInFront(TreeOf(u), u.parent[c], c))
      BY <1>6, <2>1, ActivateChildBecomes
    <2>3. Becomes(u, v, GP!PutInFront(TreeOf(u), f, c))
      BY <1>6, <2>2
    <2>4. LiveIn(v) = LiveIn(u)
      BY <2>3, FrontLive DEF Becomes
    <2>5. f \in LiveIn(u)
      BY <1>6, <2>1, RightIs
    <2> QED BY <2>3, <2>4, <2>5, RightIs DEF Becomes
  <1> QED BY <1>1, <1>8, <1>9, FrameFocusedTabs

(* The calls of reparent change nothing that is seen. *)
ReparentCalls == {Call("Reparent", c) : c \in Clients}
Unseen(t, r) == SameLook(t, r.state) /\ DOMAIN r.state = Fields /\ r.calls \in Seq(ReparentCalls)

LEMMA ReparentedLook ==
    ASSUME NEW t, DOMAIN t = Fields, NEW q \in Seq(Clients)
    PROVE  SameLook(t, RunCalls(t, ForEach("Reparent", q)))
  <1> DEFINE p == ForEach("Reparent", q)
  <1>1. PICK g : IsRun(g, t, p, MaxCalls) /\ RunCalls(t, p) = g[MaxCalls].state
    BY RunDefined
  <1>2. p \in Seq(ReparentCalls)
    BY DEF ForEach, ReparentCalls
  <1> HIDE DEF p
  <1> DEFINE T == {n \in 0..MaxCalls : Unseen(t, g[n])}
  <1>3. g[0] = Body(t, p) /\ \A n \in 0..(MaxCalls - 1) : g[n + 1] = NextCall(g[n])
    BY <1>1, MaxCallsNat DEF IsRun, RunStep
  <1>4. 0 \in T
    BY <1>2, <1>3, MaxCallsNat, BodyIs, LookItself DEF Unseen
  <1>5. \A r : Unseen(t, r) => Unseen(t, NextCall(r))
    <2>1. SUFFICES ASSUME NEW r, Unseen(t, r), r.calls # <<>> PROVE Unseen(t, NextCall(r))
      BY DEF NextCall
    <2> DEFINE h == Head(r.calls)
               b == BodyOf(r.state, h)
               e == <<>>
    <2>2. h \in ReparentCalls /\ r.calls \in Seq(ReparentCalls)
      BY <2>1, TailElements DEF Unseen
    <2>3. PICK c \in Clients : h = Call("Reparent", c)
      BY <2>2 DEF ReparentCalls
    <2>4. b = Body(Reparent(r.state, c), e)
      BY <2>3, CallIs DEF BodyOf
    <2>5. b.state = Reparent(r.state, c) /\ b.calls = e /\ e \in Seq(ReparentCalls)
      BY <2>4, BodyIs, EmptyCalls
    <2>6. NextCall(r).state = b.state /\ NextCall(r).calls \in Seq(ReparentCalls)
      <3>1. b = BodyOf(r.state, Head(r.calls)) /\ b.calls \in Seq(ReparentCalls)
        BY <2>5, Zenon
      <3> HIDE DEF b
      <3> QED BY <2>1, <2>2, <3>1, NextCallIs
    <2>7. SameLook(r.state, b.state)
      BY <2>1, <2>5, FocusLook DEF Unseen
    <2> HIDE DEF b
    <2> QED BY <2>1, <2>6, <2>7, LookOn, LookFields DEF Unseen
  <1>6. \A n \in 0..(MaxCalls - 1) : n \in T => n + 1 \in T
    BY <1>3, <1>5, MaxCallsNat
  <1> HIDE DEF T
  <1>7. \A n \in 0..MaxCalls : n \in T
    BY <1>4, <1>6, MaxCallsNat, Upward
  <1>8. Unseen(t, g[MaxCalls])
    BY <1>7, MaxCallsNat DEF T
  <1> QED BY <1>1, <1>8 DEF Unseen, p

(* WindowManager::attachInNextPrevFrame of a whole frame: the tabs of g    *)
(* keep their windows, g is gone.                                          *)
LEMMA AddDecorLook ==
    ASSUME NEW t, DOMAIN t = Fields, NEW f, NEW g, NEW m
    PROVE  LET u == [AddDecor(t, f, g) EXCEPT !.cws = m]
           IN  /\ u.child = [t.child EXCEPT ![g] = None] /\ SameFlags(t, u) /\ u.cws = m
               /\ u.parent = [c \in Clients |-> IF t.parent[c] = g THEN f ELSE t.parent[c]]
               /\ u.fws = t.fws /\ u.fsticky = t.fsticky /\ u.csticky = t.csticky
               /\ u.active = t.active /\ u.size = t.size /\ SameTree(AddDecor(t, f, g), u)
  <1> DEFINE q == t.kids[f] \o t.kids[g]
             e == <<>>
             p == [c \in Clients |-> IF t.parent[c] = g THEN f ELSE t.parent[c]]
             v == [t EXCEPT !.kids[f] = q, !.kids[g] = e, !.child[g] = None, !.parent = p]
             d == [t.child EXCEPT ![g] = None]
             u == [v EXCEPT !.cws = m]
  <1>1. AddDecor(t, f, g) = v
    BY DEF AddDecor
  <1> HIDE DEF q, e, p
  <1>2. /\ DOMAIN v = Fields /\ v.child = d /\ SameFlags(t, v) /\ v.parent = p
        /\ v.fws = t.fws /\ v.fsticky = t.fsticky /\ v.csticky = t.csticky
        /\ v.active = t.active /\ v.size = t.size
    BY DEF Fields, SameFlags
  <1> HIDE DEF v, d
  <1>3. /\ u.child = v.child /\ SameFlags(v, u) /\ u.cws = m /\ u.parent = v.parent
        /\ u.fws = v.fws /\ u.fsticky = v.fsticky /\ u.csticky = v.csticky
        /\ u.active = v.active /\ u.size = v.size /\ SameTree(v, u)
    BY <1>2 DEF Fields, SameFlags, SameTree
  <1> HIDE DEF u
  <1>4. SameFlags(t, u)
    BY <1>2, <1>3 DEF SameFlags
  <1> QED BY <1>1, <1>2, <1>3, <1>4 DEF u, d, p

(* What is seen after the frames are one: w is the state, t what it was.   *)
Merged(t, w, f, g) ==
    /\ \A h \in Frames : w.fmapped[h] <=> t.fmapped[h] /\ h # g
    /\ \A h \in Frames : w.ficon[h] <=> t.ficon[h] /\ h # g
    /\ w.child[g] = None /\ \A h \in Frames \ {g} : w.child[h] = t.child[h]
    /\ w.cmapped = t.cmapped /\ w.cicon = t.cicon /\ w.csticky = t.csticky
    /\ w.fws = [t.fws EXCEPT ![g] = 0] /\ w.fsticky = [t.fsticky EXCEPT ![g] = FALSE]
    /\ w.parent = [c \in Clients |-> IF t.parent[c] = g THEN f ELSE t.parent[c]]
    /\ w.cws = [c \in Clients |-> IF w.parent[c] = f THEN t.fws[f] ELSE t.cws[c]]
    /\ w.active = t.active /\ w.size = t.size
    /\ w.fmapped \in [Frames -> BOOLEAN] /\ w.ficon \in [Frames -> BOOLEAN]

LEMMA AttachFrameLook ==
    ASSUME NEW f \in Frames, NEW g \in Frames, Right(s), Flags(s), AttachFrame(g, f)
    PROVE  Merged(s, s', f, g)
  <1> DEFINE t == RunCalls(s, ForEach("Reparent", s.kids[g]))
             u == AddDecor(t, f, g)
             m == [c \in Clients |-> IF u.parent[c] = f THEN u.fws[f] ELSE u.cws[c]]
             v == [u EXCEPT !.cws = m]
             w == DeleteFrame(v, g)
  <1>1. s' = w
    BY DEF AttachFrame
  <1>2. Becomes(s, s', GP!AddDecor(TreeOf(s), f, g))
    BY AttachFrameBecomes
  <1>3. s.kids[g] \in Seq(Clients) /\ Formed(s)
    BY RightIs DEF Formed
  <1>4. SameLook(s, t)
    BY <1>3, ReparentedLook DEF Formed
  <1>5. Keeps(s, t) /\ Formed(t) /\ TreeOf(t) = TreeOf(s)
    <2>1. ForEach("Reparent", s.kids[g]) \in Seq(Calls)
      BY <1>3, ForEachClient
    <2>2. Keeps(s, t)
      BY <1>3, <2>1, RunCallsKeeps
    <2> QED BY <1>3, <2>2, KeepsForm DEF TreeOf, Keeps, SameTree
  <1> HIDE DEF t
  <1>6. Moved(t, u, GP!AddDecor(TreeOf(s), f, g))
    BY <1>5, AddDecorMoves
  <1>7. /\ u.fws = t.fws /\ u.cws = t.cws
        /\ u.parent = [c \in Clients |-> IF t.parent[c] = g THEN f ELSE t.parent[c]]
    <2> DEFINE q == t.kids[f] \o t.kids[g]
               e == <<>>
               p == [c \in Clients |-> IF t.parent[c] = g THEN f ELSE t.parent[c]]
               y == [t EXCEPT !.kids[f] = q, !.kids[g] = e, !.child[g] = None, !.parent = p]
    <2>1. u = y
      BY DEF AddDecor
    <2> HIDE DEF q, e, p
    <2>2. y.fws = t.fws /\ y.cws = t.cws /\ y.parent = p
      BY <1>5 DEF Formed, Fields
    <2> HIDE DEF y, u
    <2> QED BY <2>1, <2>2 DEF p
  <1> HIDE DEF m
  <1>8. /\ v.child = [t.child EXCEPT ![g] = None] /\ SameFlags(t, v) /\ v.cws = m
        /\ v.parent = [c \in Clients |-> IF t.parent[c] = g THEN f ELSE t.parent[c]]
        /\ v.fws = t.fws /\ v.fsticky = t.fsticky /\ v.csticky = t.csticky
        /\ v.active = t.active /\ v.size = t.size /\ SameTree(u, v)
    BY <1>5, AddDecorLook DEF Formed
  <1>9. TreeOf(v) = TreeOf(s')
    BY <1>2, <1>6, <1>8 DEF Becomes, Moved, SameTree, TreeOf
  <1>10. Formed(v) /\ Housed(v) /\ Flags(v)
    <2>1. GP!Good(TreeOf(v))
      BY <1>2, <1>9 DEF Becomes, Right
    <2>2. Formed(u) /\ v.kids = u.kids
      BY <1>5, <1>6, <1>8, <1>9, <2>1, MovedForm DEF Moved, GP!Good, SameTree, TreeOf
    <2> HIDE DEF u
    <2>3. Formed(v)
      BY <2>2 DEF Formed, Fields
    <2> HIDE DEF v
    <2>4. Flags(v)
      BY <1>4, <1>8 DEF Flags, SameLook, SameFlags
    <2> QED BY <2>1, <2>3, <2>4, SoundHoused DEF GP!Good
  <1> HIDE DEF v
  <1>11. FrameGone(v, w, g)
    BY <1>10, DeleteFrameGone
  <1> HIDE DEF w
  <1>12. v.parent = [c \in Clients |-> IF s.parent[c] = g THEN f ELSE s.parent[c]]
    BY <1>5, <1>8 DEF Keeps, SameTree
  <1>13. m = [c \in Clients |-> IF v.parent[c] = f THEN s.fws[f] ELSE s.cws[c]]
    <2>1. u.parent = v.parent /\ u.fws = s.fws /\ u.cws = s.cws
      BY <1>4, <1>7, <1>8 DEF SameLook, SamePlaces, SameTree
    <2> HIDE DEF u
    <2> QED BY <2>1 DEF m
  <1>14. /\ v.fmapped = s.fmapped /\ v.ficon = s.ficon /\ v.cmapped = s.cmapped /\ v.cicon = s.cicon
         /\ v.fws = s.fws /\ v.fsticky = s.fsticky /\ v.csticky = s.csticky
         /\ v.active = s.active /\ v.size = s.size
    BY <1>4, <1>8 DEF SameLook, SamePlaces, SameFlags
  <1>15. \A h \in Frames \ {g} : v.child[h] = s.child[h]
    BY <1>3, <1>5, <1>8, RightIs DEF Keeps, SameTree
  <1> QED BY <1>1, <1>8, <1>11, <1>12, <1>13, <1>14, <1>15 DEF FrameGone, Merged

LEMMA AttachFrameTabs ==
    ASSUME NEW f \in Frames, NEW g \in Frames, Right(s), Tabbed(s, {}), AttachFrame(g, f)
    PROVE  Tabbed(s', {})
  <1>1. Merged(s, s', f, g) /\ Right(s')
    BY AttachFrameLook, AttachFrameBecomes DEF Tabbed, Becomes
  <1>2. f # g /\ s.fmapped[f]
    BY DEF AttachFrame
  <1>3. Flags(s')
    BY <1>1 DEF Tabbed, Flags, Merged
  <1>4. \A c \in Clients : s'.cmapped[c] =>
          ~ s'.cicon[c] /\ s'.parent[c] \in Frames /\ s'.fmapped[s'.parent[c]]
    <2>1. SUFFICES ASSUME NEW c \in Clients, s.cmapped[c]
                   PROVE  ~ s.cicon[c] /\ s'.parent[c] \in Frames /\ s'.fmapped[s'.parent[c]]
      BY <1>1 DEF Merged
    <2>2. ~ s.cicon[c] /\ s.parent[c] \in Frames /\ s.fmapped[s.parent[c]]
      BY <2>1 DEF Tabbed
    <2>3. s'.parent[c] = IF s.parent[c] = g THEN f ELSE s.parent[c]
      BY <1>1 DEF Merged
    <2> QED BY <1>1, <1>2, <2>2, <2>3 DEF Merged
  <1>5. \A h \in Frames : s'.fmapped[h] =>
          Exists(s', h) /\ ~ s'.ficon[h] /\ s'.child[h] \in Clients /\ s'.cmapped[s'.child[h]]
    <2>1. SUFFICES ASSUME NEW h \in Frames, s'.fmapped[h]
          PROVE  Exists(s', h) /\ ~ s'.ficon[h] /\ s'.child[h] \in Clients /\ s'.cmapped[s'.child[h]]
      OBVIOUS
    <2>2. s.fmapped[h] /\ h # g /\ s'.child[h] = s.child[h]
      BY <1>1, <2>1 DEF Merged
    <2>3. ~ s.ficon[h] /\ s.child[h] \in Clients /\ s.cmapped[s.child[h]]
      BY <2>2 DEF Tabbed
    <2>4. Exists(s', h)
      BY <1>1, <2>2, <2>3, RightFront, TabsAssumption
    <2> QED BY <1>1, <2>2, <2>3, <2>4 DEF Merged
  <1> QED BY <1>3, <1>4, <1>5 DEF Tabbed

LEMMA MoveTabTabs ==
    ASSUME NEW f \in Frames, NEW off \in {-1, 1}, Right(s), Tabbed(s, {}), MoveTab(f, off)
    PROVE  Tabbed(s', {})
  <1>1. Right(s')
    BY MoveTabBecomes DEF Becomes
  <1>2. SameFlags(s, s') /\ s'.child = s.child /\ s'.parent = s.parent
    <2> DEFINE q == s.kids[f]
               m == MoveRel(q, s.child[f], off)
               u == [s EXCEPT !.kids[f] = m]
               b == Len(q) < 2 \/ ChildRel(q, s.child[f], off) = s.child[f]
    <2>1. s' = IF b THEN s ELSE u
      BY DEF MoveTab, MoveChildRel
    <2> HIDE DEF m, b
    <2> QED BY <2>1, RightIs DEF Formed, Fields, SameFlags
  <1>3. \A h \in Frames : Exists(s', h) <=> Exists(s, h)
    BY <1>1, <1>2, RightFront
  <1> QED BY <1>2, <1>3 DEF Tabbed, Flags, SameFlags

LEMMA WithdrawTabs ==
    ASSUME NEW c \in Clients, Right(s), Withdraw(c)
    PROVE  SameLook(s, s') /\ SameTree(s, s')
  <1> DEFINE t == Post(s, Withdrawn(c))
             u == IF s.cmapped[c] THEN XUnmapWindow(t, c) ELSE t
             y == u.gone \cup {c}
             v == [u EXCEPT !.gone = y]
  <1>1. s' = v /\ TreeOf(s') = TreeOf(s)
    BY WithdrawGoes DEF Withdraw
  <1>2. SameLook(s, t) /\ DOMAIN t = Fields
    BY RightIs, PostLook DEF Formed
  <1> HIDE DEF t
  <1>3. SameLook(t, u) /\ DOMAIN u = Fields
    BY <1>2, XUnmapWindowLook, LookItself, LookFields
  <1> HIDE DEF u, y
  <1>4. SameLook(u, v)
    BY <1>3, FieldLook
  <1> HIDE DEF v
  <1> QED BY <1>1, <1>2, <1>3, <1>4, LookOn, TreeSame

LEMMA DeiconifyTabs ==
    ASSUME NEW t, Steady(t), NEW f \in Frames, Exists(t, f)
    PROVE  Steady(Deiconify(t, f))
  <1> DEFINE u == IF t.fws[f] = t.active THEN MapFrame(t, f) ELSE t
             v == [u EXCEPT !.ficon[f] = FALSE]
  <1>1. Deiconify(t, f) = IF t.ficon[f] THEN v ELSE t
    BY DEF Deiconify
  <1>2. Steady(u)
    BY SteadyMapped
  <1> HIDE DEF u
  <1>3. /\ Keeps(u, v) /\ v.fmapped = u.fmapped /\ v.cmapped = u.cmapped /\ v.cicon = u.cicon
        /\ v.ficon = [u.ficon EXCEPT ![f] = FALSE]
    BY <1>2 DEF Steady, Formed, Fields, Keeps, Stays, SameTree, SameLists
  <1> HIDE DEF v
  <1>4. Formed(v) /\ Housed(v) /\ Faced(v)
    BY <1>2, <1>3, KeepsFaced DEF Steady
  <1>5. Tabbed(v, {})
    <2>1. u.ficon \in [Frames -> BOOLEAN] /\ Tabbed(u, {})
      BY <1>2 DEF Steady, Tabbed, Flags
    <2>2. v.ficon \in [Frames -> BOOLEAN] /\ \A h \in Frames : v.ficon[h] => u.ficon[h]
      BY <1>3, <2>1
    <2>3. \A h \in Frames : v.child[h] = u.child[h] /\ (Exists(v, h) <=> Exists(u, h))
      BY <1>3 DEF Keeps, SameTree, Exists
    <2>4. v.parent = u.parent
      BY <1>3 DEF Keeps, SameTree
    <2> QED BY <1>3, <2>1, <2>2, <2>3, <2>4 DEF Tabbed, Flags
  <1> QED BY <1>1, <1>4, <1>5 DEF Steady

LEMMA StickTabs ==
    ASSUME NEW f \in Frames, Right(s), Tabbed(s, {}), Stick(f)
    PROVE  Tabbed(s', {})
  <1> DEFINE k == s.child[f]
             b == ~ s.fsticky[f]
             n == s.active
             t == [s EXCEPT !.csticky[k] = b, !.fsticky[f] = ~ @]
  <1>1. s' = SetFrameWorkspace(t, f, n) /\ Exists(s, f)
    BY DEF Stick, Live
  <1>2. Steady(s)
    BY RightSteady
  <1> HIDE DEF k, b, n
  <1>3. Keeps(s, t) /\ SameFlags(s, t)
    BY RightIs DEF Formed, Fields, Keeps, Stays, SameTree, SameLists, SameFlags
  <1> HIDE DEF t
  <1>4. Steady(t) /\ Exists(t, f)
    BY <1>1, <1>2, <1>3, SteadyKept DEF Keeps, SameTree, Exists
  <1> QED BY <1>1, <1>4, SetFrameWorkspaceTabs DEF Steady

LEMMA QuietTabs ==
    ASSUME Right(s), Tabbed(s, {}),
           \/ \E c \in Clients : MapAgain(c)
           \/ \E f \in Frames : \/ Iconify(f) \/ Restore(f) \/ Stick(f)
                                \/ \E raise \in BOOLEAN : FocusToggle(f, raise)
                                \/ \E n \in Workspaces : SendTo(f, n)
           \/ \E n \in Workspaces : Goto(n) \/ Resize(n + 1)
    PROVE  Tabbed(s', {})
  <1>1. Steady(s) /\ Listed(s)
    BY RightSteady DEF Right
  <1>2. ASSUME NEW c \in Clients, MapAgain(c) PROVE Steady(s')
    <2>1. s.parent[c] \in Frames /\ Exists(s, s.parent[c]) /\ s' = Deiconify(s, s.parent[c])
      BY <1>2, RightIs DEF MapAgain, Managed, LiveIn
    <2> QED BY <1>1, <2>1, DeiconifyTabs
  <1>3. ASSUME NEW f \in Frames, Iconify(f) \/ Restore(f) \/ \E n \in Workspaces : SendTo(f, n)
        PROVE  Steady(s')
    <2>1. Exists(s, f)
      BY <1>3 DEF Iconify, Restore, SendTo, Live
    <2>2. \/ s' = IconifyFrame(s, f) \/ s' = MapFrame(s, f)
          \/ \E n \in Workspaces : s' = SetFrameWorkspace(s, f, n)
      BY <1>3 DEF Iconify, Restore, SendTo
    <2> QED BY <1>1, <2>1, <2>2, SteadyMapped, SetFrameWorkspaceTabs
  <1>4. ASSUME NEW n \in Workspaces, Goto(n) \/ Resize(n + 1) PROVE Steady(s')
    <2>1. s' = SetWorkspace(s, n, TRUE) \/ s' = SetSize(s, n + 1)
      BY <1>4 DEF Goto, Resize
    <2> QED BY <1>1, <2>1, SetWorkspaceTabs, SetSizeTabs
  <1> QED BY <1>2, <1>3, <1>4, StickTabs, FocusToggleTabs DEF Steady

LEMMA MapNewTabs ==
    ASSUME NEW c \in Clients, WmInv(s), Tabbed(s, {}), MapNew(c)
    PROVE  Tabbed(s', {})
  <1>1. PICK f \in Frames, place \in {"new", "front", "behind"}, icon \in BOOLEAN,
             focus \in BOOLEAN, same \in BOOLEAN :
               /\ c \notin Managed /\ (place = "new" <=> f \notin Live)
               /\ s' = Manage(s, c, f, place, icon, focus, same)
    BY DEF MapNew
  <1>2. ~ IsManaged(s, c) /\ (place = "new" <=> f \notin LiveIn(s))
    BY <1>1 DEF Managed, Live, LiveIn
  <1>3. Tabbed(Manage(s, c, f, place, icon, focus, same), {})
    BY <1>2, ManageTabs DEF WmInv
  <1> QED BY <1>1, <1>3

(* An event, taken from the queue in a state that looks like this one, is  *)
(* either seen by the focus alone or deletes a client.                     *)
LooksLike(t, u) == SameTree(t, u) /\ SameLook(t, u)
EventSeen(t) ==
    /\ Right(t) /\ LooksLike(s, t) /\ t.transient \in [Clients -> Clients \cup {None}]
    /\ \/ LooksLike(t, s')
       \/ \E c \in Clients : IsManaged(t, c) /\ LooksLike(DeleteClient(t, c), s')

LEMMA EventLooks ==
    ASSUME WmInv(s), HandleEvent
    PROVE  \E t : EventSeen(t)
  <1> DEFINE q == Tail(s.queue)
             t == [s EXCEPT !.queue = q]
             e == Head(s.queue)
             w == e.window
  <1>1. /\ s' = Handled(t, e) /\ e \in Events /\ s.queue # <<>>
        /\ Right(t) /\ TreeOf(t) = TreeOf(s) /\ t.transient = s.transient /\ t.gone = s.gone
    <2>1. LET k == [s EXCEPT !.queue = Tail(@)]
          IN  /\ Right(k) /\ TreeOf(k) = TreeOf(s) /\ k.transient = s.transient /\ k.gone = s.gone
              /\ Head(s.queue) \in Events
      BY EventTaken DEF HandleEvent
    <2> QED BY <2>1 DEF HandleEvent
  <1>2. SameLook(s, t)
    <2> HIDE DEF q
    <2> QED BY RightIs, FieldLook DEF WmInv, Formed
  <1>3. e = Withdrawn(w) => w \in s.gone
    <2>1. s.queue \in Seq(Events)
      BY RightIs DEF WmInv, Formed
    <2>2. SUFFICES ASSUME e = Withdrawn(w) PROVE w \in s.gone
      OBVIOUS
    <2>3. w \in Clients
      <3>1. e.type = "Withdrawn"
        BY <2>2 DEF Withdrawn
      <3> QED BY <1>1, <3>1 DEF Events
    <2>4. Count(s.queue, Withdrawn(w)) = Count(Tail(s.queue), Withdrawn(w)) + 1
      BY <1>1, <2>1, <2>2, CountTail
    <2>5. Count(Tail(s.queue), Withdrawn(w)) \in Nat
      BY <1>1, <2>1, TailElements, CountNat
    <2>6. Count(s.queue, Withdrawn(w)) = IF w \in s.gone THEN 1 ELSE 0
      BY <2>3 DEF WmInv, Leaving
    <2> HIDE DEF w, e
    <2> QED BY <2>4, <2>5, <2>6
  <1> HIDE DEF t, e
  <1>4. LooksLike(s, t) /\ DOMAIN t = Fields /\ t.transient \in [Clients -> Clients \cup {None}]
    BY <1>1, <1>2, TreeSame, RightIs DEF LooksLike, Formed, WmInv
  <1>5. CASE e.type # "Withdrawn"
    <2>1. \/ s' = HandleFocusIn(t, w) /\ w \in Clients \cup {Root}
          \/ s' = HandleUnmapped(t, w)
      <3>1. (e.type = "FocusIn" /\ w \in Clients \cup {Root}) \/ e.type = "Unmapped"
        BY <1>1, <1>5 DEF Events
      <3>2. CASE e.type = "FocusIn" /\ w \in Clients \cup {Root}
        BY <1>1, <3>2 DEF Handled
      <3>3. CASE e.type = "Unmapped"
        BY <1>1, <3>3 DEF Handled
      <3> QED BY <3>1, <3>2, <3>3
    <2>2. SameLook(t, s')
      BY <1>4, <2>1, EventLook
    <2>3. Becomes(t, s', TreeOf(t))
      BY <1>1, <2>1, FocusInBecomes, UnmappedBecomes
    <2>4. SameTree(t, s')
      BY <2>3, TreeSame DEF Becomes
    <2> QED BY <1>1, <1>4, <2>2, <2>4 DEF EventSeen, LooksLike
  <1>6. CASE e.type = "Withdrawn"
    <2>1. w \in Clients /\ e = Withdrawn(w) /\ s' = HandleWithdrawn(t, w)
      <3>1. w \in Clients /\ e = [type |-> "Withdrawn", window |-> w]
        BY <1>1, <1>6 DEF Events
      <3> QED BY <1>1, <1>6, <3>1 DEF Withdrawn, Handled
    <2> HIDE DEF w
    <2>2. IsManaged(t, w)
      <3>1. IsManaged(s, w) /\ t.parent = s.parent
        BY <1>1, <1>3, <2>1, TreeFields DEF WmInv, Leaving
      <3> QED BY <3>1 DEF IsManaged
    <2> DEFINE u == DeleteClient(t, w)
               k == t.parent[w]
    <2>3. Right(u)
      BY <1>1, <1>4, <2>1, <2>2, DeleteClientDone DEF Deleted
    <2>4. s' = IF u.focused # None THEN u ELSE FindWOAndFocus(u, k)
      BY <2>1 DEF HandleWithdrawn, FindIfNone
    <2> HIDE DEF u, k
    <2>5. Becomes(u, FindWOAndFocus(u, k), TreeOf(u)) /\ SameLook(u, FindWOAndFocus(u, k))
      BY <2>3, Refocused, RightIs, FocusLook DEF Formed
    <2>6. LooksLike(u, FindWOAndFocus(u, k)) /\ LooksLike(u, u)
      BY <2>5, TreeSame, LookItself DEF Becomes, LooksLike
    <2>7. LooksLike(u, s')
      BY <2>4, <2>6
    <2> QED BY <1>1, <1>4, <2>1, <2>2, <2>7 DEF EventSeen, u
  <1> QED BY <1>5, <1>6

LEMMA EventTabs ==
    ASSUME WmInv(s), Tabbed(s, {}), HandleEvent
    PROVE  Tabbed(s', {})
  <1>1. PICK t : EventSeen(t)
    BY EventLooks
  <1>2. \A a, b : LooksLike(a, b) /\ Tabbed(a, {}) => Tabbed(b, {})
    BY TabsSame DEF LooksLike, SameLook
  <1>3. Right(t) /\ Tabbed(t, {}) /\ t.transient \in [Clients -> Clients \cup {None}]
    BY <1>1, <1>2 DEF EventSeen
  <1>4. \A c \in Clients : IsManaged(t, c) => Tabbed(DeleteClient(t, c), {})
    BY <1>3, DeleteClientTabs
  <1> QED BY <1>1, <1>2, <1>3, <1>4 DEF EventSeen

LEMMA InitTabs == Init => Tabbed(s, {})
  BY DEF Init, Tabbed, Flags

LEMMA RequestTabs ==
    ASSUME "detach" \notin Ops, WmInv(s), Tabbed(s, {}), Request
    PROVE  Tabbed(s', {})
  <1>1. Right(s)
    BY DEF WmInv
  <1>2. ASSUME NEW c \in Clients, MapNew(c) PROVE Tabbed(s', {})
    BY <1>2, MapNewTabs
  <1>3. ASSUME NEW c \in Clients, Withdraw(c) PROVE Tabbed(s', {})
    BY <1>1, <1>3, WithdrawTabs, TabsSame DEF SameLook
  <1>4. ASSUME NEW c \in Clients, Activate(c) \/ GotoClient(c) \/ Click(c) PROVE Tabbed(s', {})
    BY <1>1, <1>4, ActivateTabs, GotoClientTabs, ClickTabs
  <1>5. ASSUME NEW c \in Clients, NEW f \in Frames,
               Detach(c, f) \/ AttachMarked(c, f) \/ AttachClient(c, f)
        PROVE  Tabbed(s', {})
    <2>1. ~ Detach(c, f)
      BY DEF Detach
    <2> QED BY <1>1, <1>5, <2>1, AttachMarkedTabs, AttachClientTabs
  <1>6. ASSUME NEW f \in Frames, NEW g \in Frames, AttachFrame(g, f) PROVE Tabbed(s', {})
    BY <1>1, <1>6, AttachFrameTabs
  <1>7. ASSUME NEW f \in Frames, NEW off \in {-1, 1}, MoveTab(f, off) PROVE Tabbed(s', {})
    BY <1>1, <1>7, MoveTabTabs
  <1>8. ASSUME \/ \E c \in Clients : MapAgain(c)
               \/ \E f \in Frames : \/ Iconify(f) \/ Restore(f) \/ Stick(f)
                                    \/ \E raise \in BOOLEAN : FocusToggle(f, raise)
                                    \/ \E n \in Workspaces : SendTo(f, n)
               \/ \E n \in Workspaces : Goto(n) \/ Resize(n + 1)
        PROVE  Tabbed(s', {})
    BY <1>1, <1>8, QuietTabs
  <1> QED BY <1>2, <1>3, <1>4, <1>5, <1>6, <1>7, <1>8 DEF Request

TabsInv == Inv /\ Tabbed(s, {})

LEMMA TabsInductive ==
    ASSUME "detach" \notin Ops
    PROVE  (Init => TabsInv) /\ (TabsInv /\ [Next]_s => TabsInv')
  <1>1. Init => TabsInv
    BY InitInv, InitTabs DEF TabsInv, Inv
  <1>2. TabsInv /\ [Next]_s => TabsInv'
    <2>1. SUFFICES ASSUME Inv, WmInv(s), Tabbed(s, {}), [Next]_s PROVE Inv' /\ Tabbed(s, {})'
      BY DEF TabsInv, Inv
    <2>2. CASE UNCHANGED s
      BY <2>1, <2>2, Inductive, TabsSame DEF SameTree, SameFlags
    <2>3. CASE Next
      <3>1. Tabbed(s', {})
        BY <2>1, <2>3, EventTabs, RequestTabs DEF Next
      <3> QED BY <2>1, <3>1, Inductive
    <2> QED BY <2>1, <2>2, <2>3
  <1> QED BY <1>1, <1>2

(* The tab in front is mapped with its frame. *)
THEOREM TabsFollowFrames ==
    ASSUME "detach" \notin Ops
    PROVE  Spec => []TabsFollow
  <1>1. Init => TabsInv
    BY TabsInductive
  <1>2. TabsInv /\ [Next]_s => TabsInv'
    BY TabsInductive
  <1>3. TabsInv => TabsFollow
    <2>1. SUFFICES ASSUME Right(s), Tabbed(s, {}), NEW f \in Frames, Exists(s, f)
                   PROVE  s.cmapped[s.child[f]] = s.fmapped[f]
      BY DEF TabsInv, Inv, WmInv, TabsFollow, Live
    <2>2. s.child[f] \in Clients /\ s.parent[s.child[f]] = f
      BY <2>1, RightFaced DEF Faced
    <2>3. s.cmapped[s.child[f]] \in BOOLEAN /\ s.fmapped[f] \in BOOLEAN
      BY <2>1, <2>2 DEF Tabbed, Flags
    <2>4. s.cmapped[s.child[f]] <=> s.fmapped[f]
      BY <2>1, <2>2 DEF Tabbed
    <2> QED BY <2>3, <2>4
  <1> QED BY <1>1, <1>2, <1>3, PTL DEF Spec
=============================================================================

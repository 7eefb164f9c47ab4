--------------------------- MODULE WmShownProofs ---------------------------
(***************************************************************************)
(* What pekwm shows and where the input goes: the frames of the workspace  *)
(* that is active are seen and no others, the X server's focus is where    *)
(* the manager believes it is once all events are read, and no frame shows *)
(* itself focused that is not.                                             *)
(*                                                                         *)
(* The functions that change all frames see to one after the other, so     *)
(* Shown and Lit say which frames are still to be seen to.                 *)
(***************************************************************************)
EXTENDS WmProofs

----------------------------------------------------------------------------
(* Visible.  The frames in X are those a function has still to see to.     *)
Located(t) ==
    /\ t.size = MaxWorkspaces /\ t.active \in Workspaces
    /\ t.fws \in [Frames -> Workspaces] /\ t.cws \in [Clients -> Workspaces]
    /\ t.fsticky \in [Frames -> BOOLEAN] /\ t.csticky \in [Clients -> BOOLEAN]

(* Either no window is iconified or none is sticky.                        *)
Apart(t) ==
    /\ "iconify" \in Ops => /\ \A f \in Frames : ~ t.fsticky[f]
                            /\ \A c \in Clients : ~ t.csticky[c]
    /\ "iconify" \notin Ops => /\ \A f \in Frames : ~ t.ficon[f]
                               /\ \A c \in Clients : ~ t.cicon[c]

Here(t, f) == t.fsticky[f] \/ t.fws[f] = t.active

Shown(t, X) ==
    /\ Flags(t) /\ Located(t) /\ Apart(t)
    /\ \A f \in Frames : t.fmapped[f] => ~ t.ficon[f]
    /\ \A f \in Frames \ X : t.fmapped[f] <=> Exists(t, f) /\ ~ t.ficon[f] /\ Here(t, f)

LEMMA ShownSame ==
    ASSUME NEW t, NEW u, NEW X, Shown(t, X), SameLook(t, u),
           \A f \in Frames : Exists(u, f) <=> Exists(t, f)
    PROVE  Shown(u, X)
  <1>1. /\ u.fws = t.fws /\ u.fsticky = t.fsticky /\ u.cws = t.cws /\ u.csticky = t.csticky
        /\ u.active = t.active /\ u.size = t.size /\ u.fmapped = t.fmapped /\ u.ficon = t.ficon
        /\ u.cmapped = t.cmapped /\ u.cicon = t.cicon
    BY DEF SameLook, SamePlaces, SameFlags
  <1>2. Flags(u) /\ Located(u) /\ Apart(u)
    BY <1>1 DEF Shown, Flags, Located, Apart
  <1>3. \A f \in Frames : Here(u, f) <=> Here(t, f)
    BY <1>1 DEF Here
  <1> QED BY <1>1, <1>2, <1>3 DEF Shown

LEMMA ShownMore ==
    ASSUME NEW t, NEW X, NEW Y, X \subseteq Y, Shown(t, X)
    PROVE  Shown(t, Y)
  BY DEF Shown

Arranged(t, X) == Formed(t) /\ Housed(t) /\ Faced(t) /\ Shown(t, X)

LEMMA RightArranged ==
    ASSUME NEW t, NEW X, Right(t), Shown(t, X)
    PROVE  Arranged(t, X)
  BY RightFaced DEF Arranged

LEMMA ArrangedKept ==
    ASSUME NEW t, NEW X, NEW u, Arranged(t, X), Keeps(t, u), NEW Y, Shown(u, Y)
    PROVE  Arranged(u, Y)
  BY KeepsFaced DEF Arranged

LEMMA KeepsExists ==
    ASSUME NEW t, NEW u, Keeps(t, u)
    PROVE  \A f \in Frames : Exists(u, f) <=> Exists(t, f)
  BY DEF Keeps, SameTree, Exists

LEMMA ArrangedLook ==
    ASSUME NEW t, NEW X, NEW u, Arranged(t, X), Keeps(t, u), SameLook(t, u)
    PROVE  Arranged(u, X)
  <1>1. Shown(u, X)
    BY KeepsExists, ShownSame DEF Arranged
  <1> QED BY <1>1, ArrangedKept

LEMMA PlacesLocated ==
    ASSUME NEW t, NEW u, Located(t), SamePlaces(t, u)
    PROVE  Located(u) /\ \A f \in Frames : Here(u, f) <=> Here(t, f)
  BY DEF Located, SamePlaces, Here

LEMMA HiddenShown ==
    ASSUME NEW t, NEW u, NEW X, NEW f \in Frames, NEW b \in BOOLEAN, Shown(t, X),
           OneHidden(t, u, f, b), b \/ ~ Here(t, f),
           "iconify" \in Ops \/ ((b <=> t.ficon[f]) /\ u.cicon = t.cicon)
    PROVE  Shown(u, X \ {f})
  <1>1. /\ Flags(u) /\ SamePlaces(t, u)
        /\ \A g \in Frames : u.fmapped[g] <=> t.fmapped[g] /\ g # f
        /\ \A g \in Frames : u.ficon[g] <=> IF g = f THEN b ELSE t.ficon[g]
        /\ \A g \in Frames : Exists(u, g) <=> Exists(t, g)
    BY KeepsExists DEF OneHidden
  <1>2. Located(u) /\ \A g \in Frames : Here(u, g) <=> Here(t, g)
    BY <1>1, PlacesLocated DEF Shown
  <1>3. Apart(u)
    <2>1. u.fsticky = t.fsticky /\ u.csticky = t.csticky
      BY <1>1 DEF SamePlaces
    <2> QED BY <1>1, <2>1 DEF Shown, Apart
  <1> QED BY <1>1, <1>2, <1>3 DEF Shown

LEMMA MappedShown ==
    ASSUME NEW t, NEW u, NEW X, NEW f \in Frames, Shown(t, X), OneMapped(t, u, f),
           Exists(t, f), Here(t, f)
    PROVE  Shown(u, X \ {f})
  <1>1. /\ Flags(u) /\ SamePlaces(t, u)
        /\ \A g \in Frames : u.fmapped[g] <=> t.fmapped[g] \/ g = f
        /\ \A g \in Frames : u.ficon[g] <=> t.ficon[g] /\ g # f
        /\ \A c \in Clients : u.cicon[c] => t.cicon[c]
        /\ \A g \in Frames : Exists(u, g) <=> Exists(t, g)
    BY KeepsExists DEF OneMapped
  <1>2. Located(u) /\ \A g \in Frames : Here(u, g) <=> Here(t, g)
    BY <1>1, PlacesLocated DEF Shown
  <1>3. Apart(u)
    <2>1. u.fsticky = t.fsticky /\ u.csticky = t.csticky
      BY <1>1 DEF SamePlaces
    <2> QED BY <1>1, <2>1 DEF Shown, Apart
  <1> QED BY <1>1, <1>2, <1>3 DEF Shown

LEMMA MapFrameShown ==
    ASSUME NoDialogs, NEW t, NEW X, Arranged(t, X), NEW f \in Frames, Exists(t, f), Here(t, f)
    PROVE  LET u == MapFrame(t, f) IN Arranged(u, X \ {f}) /\ Keeps(t, u) /\ SamePlaces(t, u)
  <1> DEFINE u == MapFrame(t, f)
  <1>1. Formed(t) /\ Housed(t) /\ Flags(t) /\ Shown(t, X) /\ \A g \in Frames : t.fmapped[g] => ~ t.ficon[g]
    BY DEF Arranged, Shown
  <1>2. OneMapped(t, u, f)
    BY <1>1, MapFrameOne
  <1> HIDE DEF u
  <1>3. Shown(u, X \ {f}) /\ Keeps(t, u) /\ SamePlaces(t, u)
    BY <1>1, <1>2, MappedShown DEF OneMapped
  <1>4. Arranged(u, X \ {f})
    BY <1>3, ArrangedKept
  <1> QED BY <1>3, <1>4 DEF u

LEMMA UnmapFrameShown ==
    ASSUME NoDialogs, NEW t, NEW X, Arranged(t, X), NEW f \in Frames, Exists(t, f), ~ Here(t, f)
    PROVE  LET u == UnmapFrame(t, f) IN Arranged(u, X \ {f}) /\ Keeps(t, u) /\ SamePlaces(t, u)
  <1> DEFINE u == UnmapFrame(t, f)
  <1>1. /\ Formed(t) /\ Housed(t) /\ Faced(t) /\ Flags(t) /\ Shown(t, X) /\ Apart(t)
        /\ t.fmapped[f] => ~ t.ficon[f]
    BY DEF Arranged, Shown
  <1>2. OneHidden(t, u, f, t.ficon[f]) /\ (~ t.ficon[f] => u.cicon = t.cicon)
    BY <1>1, UnmapFrameOne
  <1> HIDE DEF u
  <1>3. "iconify" \in Ops \/ u.cicon = t.cicon
    BY <1>1, <1>2 DEF Apart
  <1>4. Shown(u, X \ {f}) /\ Keeps(t, u) /\ SamePlaces(t, u)
    <2>1. t.ficon[f] \in BOOLEAN
      BY <1>1 DEF Flags
    <2>2. Shown(u, X \ {f})
      BY <1>1, <1>2, <1>3, <2>1, HiddenShown
    <2> QED BY <1>2, <2>2 DEF OneHidden
  <1>5. Arranged(u, X \ {f})
    BY <1>4, ArrangedKept
  <1> QED BY <1>4, <1>5 DEF u

LEMMA IconifyFrameShown ==
    ASSUME NoDialogs, "iconify" \in Ops, NEW t, NEW X, Arranged(t, X), NEW f \in Frames,
           Exists(t, f)
    PROVE  LET u == IconifyFrame(t, f) IN Arranged(u, X \ {f}) /\ Keeps(t, u) /\ SamePlaces(t, u)
  <1> DEFINE u == IconifyFrame(t, f)
  <1>1. /\ Formed(t) /\ Housed(t) /\ Faced(t) /\ Flags(t) /\ Shown(t, X)
        /\ t.fmapped[f] => ~ t.ficon[f]
    BY DEF Arranged, Shown
  <1>2. OneHidden(t, u, f, TRUE)
    BY <1>1, IconifyFrameOne
  <1> HIDE DEF u
  <1>3. Shown(u, X \ {f}) /\ Keeps(t, u) /\ SamePlaces(t, u)
    <2>1. Shown(u, X \ {f})
      BY <1>1, <1>2, HiddenShown
    <2> QED BY <1>2, <2>1 DEF OneHidden
  <1>4. Arranged(u, X \ {f})
    BY <1>3, ArrangedKept
  <1> QED BY <1>3, <1>4 DEF u

(* PDecor::setWorkspace sees to the frame, whatever its state was.         *)
Sent(t, u, f, n) ==
    /\ Keeps(t, u) /\ u.fws = [t.fws EXCEPT ![f] = n]
    /\ u.active = t.active /\ u.fsticky = t.fsticky

LEMMA SetFrameWorkspaceShown ==
    ASSUME NoDialogs, NEW t, NEW X, Arranged(t, X), NEW f \in Frames, Exists(t, f),
           NEW n \in Workspaces
    PROVE  LET u == SetFrameWorkspace(t, f, n) IN Arranged(u, X \ {f}) /\ Sent(t, u, f, n)
  <1> DEFINE here == t.fsticky[f] \/ n = t.active
             m == [c \in Clients |-> IF t.parent[c] = f THEN n ELSE t.cws[c]]
             v == [t EXCEPT !.fws[f] = n]
             u == [v EXCEPT !.cws = m]
  <1>0. Formed(t) /\ Shown(t, X) /\ Located(t)
    BY DEF Arranged, Shown
  <1>1. Clamp(t, n) = n
    BY <1>0, WmAssumption DEF Clamp, Located, Workspaces
  <1>2. [t EXCEPT !.fws[f] = n, !.cws = [c \in Clients |-> IF t.parent[c] = f THEN n ELSE @[c]]] = u
    BY <1>0 DEF Formed, Fields
  <1>3. SetFrameWorkspace(t, f, n) =
          IF ~ u.fmapped[f] /\ ~ u.ficon[f]
          THEN IF here THEN MapFrame(u, f) ELSE u
          ELSE IF here THEN u ELSE UnmapFrame(u, f)
    BY <1>1, <1>2 DEF SetFrameWorkspace
  <1> HIDE DEF m
  <1>4. /\ Keeps(t, u) /\ SameFlags(t, u) /\ u.fws = [t.fws EXCEPT ![f] = n] /\ u.cws = m
        /\ u.active = t.active /\ u.size = t.size /\ u.fsticky = t.fsticky /\ u.csticky = t.csticky
    BY <1>0 DEF Formed, Fields, Keeps, Stays, SameTree, SameLists, SameFlags
  <1> HIDE DEF u
  <1>5. m \in [Clients -> Workspaces]
    BY <1>0 DEF Located, m
  <1>6. here <=> Here(u, f)
    BY <1>0, <1>4 DEF Here, Located
  <1>7. Sent(t, u, f, n) /\ \A k : Keeps(u, k) /\ SamePlaces(u, k) => Sent(t, k, f, n)
    BY <1>4, KeepsOn DEF Sent, SamePlaces
  <1>8. Shown(u, X \cup {f})
    <2>1. /\ u.fmapped = t.fmapped /\ u.ficon = t.ficon /\ u.cmapped = t.cmapped
          /\ u.cicon = t.cicon
      BY <1>4 DEF SameFlags
    <2>2. Flags(u) /\ Apart(u)
      BY <1>0, <1>4, <2>1 DEF Shown, Flags, Apart
    <2>3. Located(u)
      BY <1>0, <1>4, <1>5 DEF Located
    <2>4. \A g \in Frames \ {f} : Here(u, g) <=> Here(t, g)
      BY <1>0, <1>4 DEF Here, Located
    <2>5. \A g \in Frames : Exists(u, g) <=> Exists(t, g)
      BY <1>4, KeepsExists
    <2> QED BY <1>0, <2>1, <2>2, <2>3, <2>4, <2>5 DEF Shown
  <1>9. Arranged(u, X \cup {f}) /\ Exists(u, f) /\ (X \cup {f}) \ {f} = X \ {f}
    BY <1>4, <1>8, ArrangedKept, KeepsExists
  <1> HIDE DEF here
  <1>10. CASE ~ u.fmapped[f] /\ ~ u.ficon[f] /\ here
    <2> DEFINE k == MapFrame(u, f)
    <2>1. Arranged(k, X \ {f}) /\ Keeps(u, k) /\ SamePlaces(u, k)
      BY <1>6, <1>9, <1>10, MapFrameShown
    <2>2. SetFrameWorkspace(t, f, n) = k
      BY <1>3, <1>10
    <2> HIDE DEF k
    <2> QED BY <1>7, <2>1, <2>2
  <1>11. CASE (u.fmapped[f] \/ u.ficon[f]) /\ ~ here
    <2> DEFINE k == UnmapFrame(u, f)
    <2>1. Arranged(k, X \ {f}) /\ Keeps(u, k) /\ SamePlaces(u, k)
      BY <1>6, <1>9, <1>11, UnmapFrameShown
    <2>2. SetFrameWorkspace(t, f, n) = k
      BY <1>3, <1>11
    <2> HIDE DEF k
    <2> QED BY <1>7, <2>1, <2>2
  <1>12. CASE here <=> u.fmapped[f] \/ u.ficon[f]
    <2>1. SetFrameWorkspace(t, f, n) = u
      BY <1>3, <1>12
    <2>2. Shown(u, X \ {f})
      <3>1. u.fmapped[f] <=> Exists(u, f) /\ ~ u.ficon[f] /\ Here(u, f)
        BY <1>6, <1>8, <1>9, <1>12 DEF Shown
      <3> QED BY <1>8, <3>1 DEF Shown
    <2>3. Arranged(u, X \ {f})
      BY <1>9, <2>2 DEF Arranged
    <2> QED BY <1>7, <2>1, <2>3
  <1> QED BY <1>10, <1>11, <1>12

(* Workspaces::hideAll and unhideAll.  P are the frames that had their     *)
(* turn; the others are as they were.                                      *)
Ready(t) ==
    /\ Formed(t) /\ Housed(t) /\ Faced(t) /\ Flags(t) /\ Apart(t)
    /\ \A f \in Frames : t.fmapped[f] => ~ t.ficon[f]

TurnSo(t, u, p, n, P) ==
    /\ Keeps(t, u) /\ SamePlaces(t, u) /\ Flags(u) /\ Apart(u)
    /\ \A f \in Frames : u.ficon[f] <=> t.ficon[f]
    /\ \A f \in Frames : u.fmapped[f] <=>
         IF p = "hide" THEN t.fmapped[f] /\ ~ (f \in P /\ ~ t.fsticky[f] /\ t.fws[f] = n)
         ELSE t.fmapped[f] \/ (f \in P /\ ~ t.ficon[f] /\ t.fws[f] = n)

LEMMA TurnReady ==
    ASSUME NEW t, NEW u, NEW p, NEW n, NEW P, Ready(t), TurnSo(t, u, p, n, P)
    PROVE  Ready(u)
  <1>1. Formed(u) /\ Housed(u) /\ Faced(u)
    BY KeepsFaced DEF Ready, TurnSo
  <1> QED BY <1>1 DEF Ready, TurnSo

LEMMA HideTurn ==
    ASSUME NoDialogs, NEW t, Ready(t), NEW a, NEW n, NEW P, TurnSo(t, a, "hide", n, P),
           NEW f \in Frames, Exists(t, f)
    PROVE  TurnSo(t, Visit(a, "hide", n, f), "hide", n, P \cup {f})
  <1> DEFINE u == UnmapFrame(a, f)
  <1>1. Visit(a, "hide", n, f) = IF ~ a.fsticky[f] /\ a.fws[f] = n THEN u ELSE a
    BY DEF Visit
  <1>2. /\ Keeps(t, a) /\ SamePlaces(t, a) /\ Apart(a) /\ a.fsticky = t.fsticky /\ a.fws = t.fws
        /\ a.csticky = t.csticky
        /\ \A g \in Frames : a.ficon[g] <=> t.ficon[g]
        /\ \A g \in Frames : a.fmapped[g] <=>
             t.fmapped[g] /\ ~ (g \in P /\ ~ t.fsticky[g] /\ t.fws[g] = n)
    BY DEF TurnSo, SamePlaces
  <1>3. Ready(a) /\ Exists(a, f)
    BY <1>2, TurnReady, KeepsExists
  <1>4. OneHidden(a, u, f, a.ficon[f]) /\ (~ a.ficon[f] => u.cicon = a.cicon)
    BY <1>3, UnmapFrameOne DEF Ready
  <1> HIDE DEF u
  <1>5. CASE ~ a.fsticky[f] /\ a.fws[f] = n
    <2>1. /\ Flags(u) /\ Keeps(a, u) /\ SamePlaces(a, u)
          /\ \A g \in Frames : u.fmapped[g] <=> a.fmapped[g] /\ g # f
          /\ \A g \in Frames : u.ficon[g] <=> a.ficon[g]
      <3>1. \A g \in Frames : u.ficon[g] <=> IF g = f THEN a.ficon[f] ELSE a.ficon[g]
        BY <1>4 DEF OneHidden
      <3>2. \A g \in Frames : u.ficon[g] <=> a.ficon[g]
        BY <3>1
      <3> QED BY <1>4, <3>2 DEF OneHidden
    <2>2. Keeps(t, u) /\ SamePlaces(t, u)
      BY <1>2, <2>1, KeepsOn DEF SamePlaces
    <2>3. Apart(u)
      <3>1. u.fsticky = a.fsticky /\ u.csticky = a.csticky
        BY <2>1 DEF SamePlaces
      <3> QED BY <1>2, <1>4, <2>1, <3>1 DEF Apart
    <2>4. \A g \in Frames : u.fmapped[g] <=>
             t.fmapped[g] /\ ~ (g \in P \cup {f} /\ ~ t.fsticky[g] /\ t.fws[g] = n)
      BY <1>2, <1>5, <2>1
    <2>5. TurnSo(t, u, "hide", n, P \cup {f})
      BY <1>2, <2>1, <2>2, <2>3, <2>4 DEF TurnSo
    <2> QED BY <1>1, <1>5, <2>5
  <1>6. CASE ~ (~ a.fsticky[f] /\ a.fws[f] = n)
    <2>1. \A g \in Frames : a.fmapped[g] <=>
             t.fmapped[g] /\ ~ (g \in P \cup {f} /\ ~ t.fsticky[g] /\ t.fws[g] = n)
      BY <1>2, <1>6
    <2>2. TurnSo(t, a, "hide", n, P \cup {f})
      BY <1>2, <2>1 DEF TurnSo
    <2> QED BY <1>1, <1>6, <2>2
  <1> QED BY <1>5, <1>6

LEMMA ShowTurn ==
    ASSUME NoDialogs, NEW t, Ready(t), NEW a, NEW n, NEW P, TurnSo(t, a, "show", n, P),
           NEW f \in Frames, Exists(t, f)
    PROVE  TurnSo(t, Visit(a, "show", n, f), "show", n, P \cup {f})
  <1> DEFINE u == MapFrame(a, f)
  <1>1. Visit(a, "show", n, f) = IF ~ a.ficon[f] /\ a.fws[f] = n THEN u ELSE a
    BY DEF Visit
  <1>2. /\ Keeps(t, a) /\ SamePlaces(t, a) /\ Apart(a) /\ a.fsticky = t.fsticky /\ a.fws = t.fws
        /\ a.csticky = t.csticky
        /\ \A g \in Frames : a.ficon[g] <=> t.ficon[g]
        /\ \A g \in Frames : a.fmapped[g] <=>
             t.fmapped[g] \/ (g \in P /\ ~ t.ficon[g] /\ t.fws[g] = n)
    BY DEF TurnSo, SamePlaces
  <1>3. Ready(a)
    BY TurnReady
  <1>4. OneMapped(a, u, f)
    BY <1>3, MapFrameOne DEF Ready
  <1> HIDE DEF u
  <1>5. CASE ~ a.ficon[f] /\ a.fws[f] = n
    <2>1. /\ Flags(u) /\ Keeps(a, u) /\ SamePlaces(a, u)
          /\ \A g \in Frames : u.fmapped[g] <=> a.fmapped[g] \/ g = f
          /\ \A g \in Frames : u.ficon[g] <=> a.ficon[g]
          /\ \A c \in Clients : u.cicon[c] => a.cicon[c]
      <3>1. \A g \in Frames : u.ficon[g] <=> a.ficon[g] /\ g # f
        BY <1>4 DEF OneMapped
      <3>2. \A g \in Frames : u.ficon[g] <=> a.ficon[g]
        BY <1>5, <3>1
      <3> QED BY <1>4, <3>2 DEF OneMapped
    <2>2. Keeps(t, u) /\ SamePlaces(t, u)
      BY <1>2, <2>1, KeepsOn DEF SamePlaces
    <2>3. Apart(u)
      <3>1. u.fsticky = a.fsticky /\ u.csticky = a.csticky
        BY <2>1 DEF SamePlaces
      <3> QED BY <1>2, <2>1, <3>1 DEF Apart
    <2>4. \A g \in Frames : u.fmapped[g] <=>
             t.fmapped[g] \/ (g \in P \cup {f} /\ ~ t.ficon[g] /\ t.fws[g] = n)
      BY <1>2, <1>5, <2>1
    <2>5. TurnSo(t, u, "show", n, P \cup {f})
      BY <1>2, <2>1, <2>2, <2>3, <2>4 DEF TurnSo
    <2> QED BY <1>1, <1>5, <2>5
  <1>6. CASE ~ (~ a.ficon[f] /\ a.fws[f] = n)
    <2>1. \A g \in Frames : a.fmapped[g] <=>
             t.fmapped[g] \/ (g \in P \cup {f} /\ ~ t.ficon[g] /\ t.fws[g] = n)
      BY <1>2, <1>6
    <2>2. TurnSo(t, a, "show", n, P \cup {f})
      BY <1>2, <2>1 DEF TurnSo
    <2> QED BY <1>1, <1>6, <2>2
  <1> QED BY <1>5, <1>6

(* Every frame that exists has its turn: _wo_list holds them all.          *)
LEMMA AllTurned ==
    ASSUME NoDialogs, NEW t, Ready(t), Listed(t), NEW p \in {"hide", "show"}, NEW n
    PROVE  TurnSo(t, InTurn(t, p, n), p, n, LiveIn(t))
  <1> DEFINE m == Len(t.wolist)
             Had(i) == {t.wolist[j] : j \in 1..i}
  <1>0. t.wolist \in Seq(Frames) /\ ToSet(t.wolist) = LiveIn(t)
    BY DEF Listed, Lists
  <1>1. m \in Nat
    BY <1>0
  <1>2. PICK g : IsTurn(g, t, p, n, m) /\ InTurn(t, p, n) = g[m]
    BY <1>1, TurnDefined
  <1>3. \A i \in 1..m : t.wolist[i] \in Frames /\ Exists(t, t.wolist[i])
    <2>1. \A i \in 1..m : t.wolist[i] \in ToSet(t.wolist)
      BY <1>0 DEF ToSet
    <2> QED BY <1>0, <2>1 DEF LiveIn
  <1>4. Had(m) = LiveIn(t)
    BY <1>0 DEF ToSet
  <1> HIDE DEF m
  <1> DEFINE So(i) == TurnSo(t, g[i], p, n, Had(i))
             T == {i \in 0..m : So(i)}
  <1>5. g[0] = t /\ \A i \in 0..(m - 1) : g[i + 1] = Visit(g[i], p, n, t.wolist[i + 1])
    BY <1>1, <1>2 DEF IsTurn, TurnStep
  <1>6. 0 \in T
    <2>1. Had(0) = {}
      OBVIOUS
    <2>2. Keeps(t, t) /\ SamePlaces(t, t)
      BY KeepsItself DEF Ready, SamePlaces
    <2>3. TurnSo(t, t, p, n, {})
      BY <2>2 DEF TurnSo, Ready
    <2> QED BY <1>1, <1>5, <2>1, <2>3
  <1>7. \A i \in 0..(m - 1) : So(i) => So(i + 1)
    <2>1. SUFFICES ASSUME NEW i \in 0..(m - 1), So(i) PROVE So(i + 1)
      OBVIOUS
    <2> DEFINE a == g[i]
               f == t.wolist[i + 1]
               P == Had(i)
    <2>2. /\ TurnSo(t, a, p, n, P) /\ f \in Frames /\ Exists(t, f)
          /\ g[i + 1] = Visit(a, p, n, f)
      BY <1>1, <1>3, <1>5, <2>1
    <2>3. Had(i + 1) = P \cup {f}
      BY <1>1
    <2> HIDE DEF a, f, P, Had
    <2>4. TurnSo(t, Visit(a, p, n, f), p, n, P \cup {f})
      <3>1. CASE p = "hide"
        BY <2>2, <3>1, HideTurn
      <3>2. CASE p = "show"
        BY <2>2, <3>2, ShowTurn
      <3> QED BY <3>1, <3>2
    <2> QED BY <2>2, <2>3, <2>4
  <1> HIDE DEF So, Had
  <1>8. \A i \in 0..(m - 1) : i \in T => i + 1 \in T
    BY <1>1, <1>7
  <1> HIDE DEF T
  <1>9. \A i \in 0..m : i \in T
    BY <1>1, <1>6, <1>8, Upward
  <1>10. So(m)
    BY <1>1, <1>9 DEF T
  <1> QED BY <1>2, <1>4, <1>10 DEF So

LEMMA ArrangedReady ==
    ASSUME NEW t, NEW X, Arranged(t, X)
    PROVE  Ready(t)
  BY DEF Arranged, Shown, Ready

LEMMA KeptListed ==
    ASSUME NEW t, NEW u, Listed(t), Keeps(t, u)
    PROVE  Listed(u) /\ LiveIn(u) = LiveIn(t)
  BY SameLive, KeepsListed DEF Keeps, SameTree

(* The workspace n is shown in the place of the one shown before.          *)
Turned(t, u, n) ==
    /\ Arranged(u, {}) /\ Keeps(t, u)
    /\ u.active = n /\ u.fws = t.fws /\ u.fsticky = t.fsticky

LEMMA HiddenAndShown ==
    ASSUME NoDialogs, NEW t, Arranged(t, {}), Listed(t), NEW n \in Workspaces
    PROVE  Turned(t, ShowAll(HideAll(t, t.active), n), n)
  <1> DEFINE w == HideAll(t, t.active)
             z == [w EXCEPT !.active = n]
             y == InTurn(z, "show", n)
             L == LiveIn(t)
  <1>1. ShowAll(w, n) = y
    BY DEF ShowAll
  <1>2. TurnSo(t, w, "hide", t.active, L)
    BY ArrangedReady, AllTurned DEF HideAll
  <1> HIDE DEF w
  <1>3. Ready(w) /\ Formed(w)
    BY <1>2, ArrangedReady, TurnReady DEF Ready
  <1>4. /\ Keeps(w, z) /\ SameFlags(w, z) /\ z.active = n /\ z.size = w.size
        /\ z.fws = w.fws /\ z.cws = w.cws /\ z.fsticky = w.fsticky /\ z.csticky = w.csticky
    BY <1>3 DEF Formed, Fields, Keeps, Stays, SameTree, SameLists, SameFlags
  <1> HIDE DEF z
  <1>5. Ready(z)
    <2>1. Formed(z) /\ Housed(z) /\ Faced(z)
      BY <1>3, <1>4, KeepsFaced DEF Ready
    <2> QED BY <1>3, <1>4, <2>1 DEF Ready, SameFlags, Flags, Apart
  <1>6. Keeps(t, z) /\ Listed(z) /\ LiveIn(z) = L
    <2>1. Keeps(t, z)
      BY <1>2, <1>4, KeepsOn DEF TurnSo
    <2> QED BY <2>1, KeptListed
  <1>7. TurnSo(z, y, "show", n, L)
    BY <1>5, <1>6, AllTurned
  <1> HIDE DEF y
  <1>8. Ready(y)
    BY <1>5, <1>7, TurnReady
  <1>9. Keeps(t, y)
    BY <1>6, <1>7, KeepsOn DEF TurnSo
  <1>10. /\ y.active = n /\ y.size = t.size /\ y.fws = t.fws /\ y.cws = t.cws
         /\ y.fsticky = t.fsticky /\ y.csticky = t.csticky
    BY <1>2, <1>4, <1>7 DEF TurnSo, SamePlaces
  <1>11. Shown(y, {})
    <2>1. Located(y)
      BY <1>10 DEF Arranged, Shown, Located
    <2>2. SUFFICES ASSUME NEW f \in Frames
                   PROVE  y.fmapped[f] <=> Exists(y, f) /\ ~ y.ficon[f] /\ Here(y, f)
      BY <1>8, <2>1 DEF Ready, Shown
    <2>3. Exists(y, f) <=> f \in L
      BY <1>9, KeepsExists DEF LiveIn
    <2>4. y.ficon[f] <=> t.ficon[f]
      BY <1>2, <1>4, <1>7 DEF TurnSo, SameFlags
    <2>5. Here(y, f) <=> t.fsticky[f] \/ t.fws[f] = n
      BY <1>10 DEF Here
    <2>6. t.fmapped[f] <=> f \in L /\ ~ t.ficon[f] /\ (t.fsticky[f] \/ t.fws[f] = t.active)
      BY DEF Arranged, Shown, Here, LiveIn
    <2>7. z.fmapped[f] <=> t.fmapped[f] /\ ~ (f \in L /\ ~ t.fsticky[f] /\ t.fws[f] = t.active)
      BY <1>2, <1>4 DEF TurnSo, SameFlags
    <2>8. y.fmapped[f] <=> z.fmapped[f] \/ (f \in L /\ ~ z.ficon[f] /\ z.fws[f] = n)
      BY <1>7 DEF TurnSo
    <2>9. (z.ficon[f] <=> t.ficon[f]) /\ z.fws = t.fws
      BY <1>2, <1>4 DEF TurnSo, SameFlags, SamePlaces
    <2> QED BY <2>3, <2>4, <2>5, <2>6, <2>7, <2>8, <2>9
  <1>12. Arranged(y, {})
    BY <1>8, <1>11 DEF Ready, Arranged
  <1> QED BY <1>1, <1>9, <1>10, <1>12 DEF Turned, w

LEMMA SetWorkspaceShown ==
    ASSUME NoDialogs, NEW t, Arranged(t, {}), Listed(t), NEW n \in Workspaces, NEW b
    PROVE  Turned(t, SetWorkspace(t, n, b), n)
  <1> DEFINE u == SetFocused(t, t.focused, FALSE)
             l == t.focused
             x == [u EXCEPT !.last[t.active] = l]
             v == [x EXCEPT !.focused = None]
             y == ShowAll(HideAll(v, t.active), n)
             wo == ToFocus(y, n)
             z == SetFocused(y, wo, TRUE)
             k == [z EXCEPT !.focused = wo]
             j == IF wo \in Clients /\ y.cmapped[wo] THEN GiveClientFocus(k, wo)
                  ELSE XSetInputFocus(k, Root)
  <1>0. Formed(t) /\ n < t.size
    BY WmAssumption DEF Arranged, Shown, Located, Workspaces
  <1>1. SetWorkspace(t, n, b) = IF n = t.active THEN t ELSE IF b THEN j ELSE y
    <2>1. SetWorkspace(t, n, b) = IF n = t.active \/ n >= t.size THEN t ELSE IF b THEN j ELSE y
      BY DEF SetWorkspace, UnhideAll, Entered, GiveFocus
    <2>2. ~ (n >= t.size)
      BY <1>0, WmAssumption DEF Arranged, Shown, Located, Workspaces
    <2> HIDE DEF j, y
    <2> QED BY <2>1, <2>2
  <1>2. Keeps(t, u) /\ Formed(u) /\ SameLook(t, u)
    BY <1>0, SetFocusedKeeps, KeepsForm, FocusLook DEF Formed
  <1> HIDE DEF u, l
  <1>3. Keeps(u, v) /\ SameLook(u, v)
    BY <1>2 DEF Formed, Fields, Keeps, Stays, SameTree, SameLists, SameFlags, SamePlaces, SameLook
  <1> HIDE DEF v
  <1>4. Keeps(t, v) /\ Arranged(v, {}) /\ Listed(v) /\ SameLook(t, v)
    <2>1. Keeps(t, v) /\ SameLook(t, v)
      BY <1>2, <1>3, KeepsOn, LookOn
    <2> QED BY <2>1, ArrangedLook, KeptListed
  <1>5. v.active = t.active /\ v.fws = t.fws /\ v.fsticky = t.fsticky
    BY <1>4 DEF SameLook, SamePlaces
  <1>6. Turned(v, y, n)
    <2>1. Turned(v, ShowAll(HideAll(v, v.active), n), n)
      BY <1>4, HiddenAndShown
    <2> QED BY <1>5, <2>1
  <1> HIDE DEF y, wo
  <1>7. Formed(y)
    BY <1>6 DEF Turned, Arranged
  <1>8. Keeps(y, z) /\ Formed(z) /\ SameLook(y, z)
    BY <1>7, SetFocusedKeeps, KeepsForm, FocusLook DEF Formed
  <1> HIDE DEF z
  <1>9. Keeps(z, k) /\ SameLook(z, k) /\ Formed(k)
    <2>1. Keeps(z, k) /\ SameLook(z, k)
      BY <1>8 DEF Formed, Fields, Keeps, Stays, SameTree, SameLists, SameFlags, SamePlaces, SameLook
    <2> QED BY <1>8, <2>1, KeepsForm
  <1> HIDE DEF k
  <1>10. Keeps(k, j) /\ SameLook(k, j)
    BY <1>9, XSetInputFocusKeeps, GiveClientFocusKeeps, XSetInputFocusLook, FocusLook DEF Formed
  <1> HIDE DEF j
  <1>11. Keeps(y, j) /\ SameLook(y, j)
    BY <1>8, <1>9, <1>10, KeepsOn, LookOn
  <1>12. Turned(v, j, n)
    <2>1. Arranged(j, {})
      BY <1>6, <1>11, ArrangedLook DEF Turned
    <2>2. Keeps(v, j)
      BY <1>6, <1>11, KeepsOn DEF Turned
    <2> QED BY <1>6, <1>11, <2>1, <2>2 DEF Turned, SameLook, SamePlaces
  <1>13. \A a : Turned(v, a, n) => Turned(t, a, n)
    <2>1. \A a : Keeps(v, a) => Keeps(t, a)
      BY <1>4, KeepsOn
    <2> QED BY <1>5, <2>1 DEF Turned
  <1>14. n = t.active => Turned(t, t, n)
    BY <1>0, KeepsItself DEF Turned
  <1> QED BY <1>1, <1>6, <1>12, <1>13, <1>14

(* A function that sees to no frame, only to what a client is.             *)
LEMMA FramesShown ==
    ASSUME NEW t, NEW u, NEW X, Shown(t, X), Flags(u), Located(u), Apart(u),
           u.fmapped = t.fmapped, u.ficon = t.ficon, u.fws = t.fws, u.fsticky = t.fsticky,
           u.active = t.active, \A f \in Frames : Exists(u, f) <=> Exists(t, f)
    PROVE  Shown(u, X)
  <1>1. \A f \in Frames : Here(u, f) <=> Here(t, f)
    BY DEF Here
  <1> QED BY <1>1 DEF Shown

LEMMA ApplyStateShown ==
    ASSUME NoDialogs, NEW t, Formed(t), Housed(t), NEW X, Shown(t, X), NEW f \in Frames,
           NEW c \in Clients
    PROVE  Shown(ApplyState(t, f, c), X)
  <1> DEFINE n == Clamp(t, t.fws[f])
             b == t.fsticky[f]
             a == [t EXCEPT !.csticky[c] = b, !.cws[c] = n]
             m == MapClient(a, c)
             w == UnmapClient(a, c)
             u == ApplyState(t, f, c)
  <1>1. u = IF t.fmapped[f] THEN m ELSE w
    BY DEF ApplyState
  <1>2. Flags(t) /\ Located(t) /\ Apart(t) /\ \A g \in Frames : t.fmapped[g] => ~ t.ficon[g]
    BY DEF Shown
  <1>3. n \in Workspaces /\ b \in BOOLEAN /\ ("iconify" \in Ops => ~ b)
    BY <1>2, WmAssumption DEF Located, Clamp, Workspaces, Apart
  <1> HIDE DEF n, b
  <1>4. /\ Keeps(t, a) /\ SameFlags(t, a)
        /\ a.fws = t.fws /\ a.fsticky = t.fsticky /\ a.active = t.active /\ a.size = t.size
        /\ a.cws = [t.cws EXCEPT ![c] = n] /\ a.csticky = [t.csticky EXCEPT ![c] = b]
    BY DEF Formed, Fields, Keeps, Stays, SameTree, SameLists, SameFlags
  <1> HIDE DEF a
  <1>5. Formed(a) /\ Housed(a)
    BY <1>4, KeepsForm, KeepsHoused DEF Keeps
  <1>6. Flags(a) /\ Located(a) /\ Apart(a) /\ \A g \in Frames : a.fmapped[g] => ~ a.ficon[g]
    <2>1. Flags(a) /\ \A g \in Frames : a.fmapped[g] => ~ a.ficon[g]
      BY <1>2, <1>4 DEF Flags, SameFlags
    <2>2. Located(a)
      BY <1>2, <1>3, <1>4 DEF Located
    <2>3. \A d \in Clients : a.csticky[d] => t.csticky[d] \/ b
      BY <1>2, <1>4 DEF Located
    <2>4. Apart(a)
      BY <1>2, <1>3, <1>4, <2>3 DEF Apart, SameFlags
    <2> QED BY <2>1, <2>2, <2>4
  <1>7. Shown(a, X)
    <2>1. a.fmapped = t.fmapped /\ a.ficon = t.ficon
      BY <1>4 DEF SameFlags
    <2> QED BY <1>4, <1>6, <2>1, KeepsExists, FramesShown
  <1>8. ASSUME NEW k, Keeps(a, k), SamePlaces(a, k), Flags(k), k.fmapped = a.fmapped,
               k.ficon = a.ficon, \A d \in Clients : k.cicon[d] => a.cicon[d]
        PROVE  Shown(k, X)
    <2>1. Located(k)
      BY <1>6, <1>8, PlacesLocated
    <2>2. /\ k.fws = a.fws /\ k.fsticky = a.fsticky /\ k.active = a.active /\ k.csticky = a.csticky
      BY <1>8 DEF SamePlaces
    <2>3. Apart(k)
      BY <1>6, <1>8, <2>2 DEF Apart
    <2> QED BY <1>7, <1>8, <2>1, <2>2, <2>3, KeepsExists, FramesShown
  <1>9. /\ Flags(m) /\ Keeps(a, m) /\ SamePlaces(a, m)
        /\ m.fmapped = a.fmapped /\ m.ficon = a.ficon
        /\ \A d \in Clients : m.cicon[d] => a.cicon[d]
    BY <1>5, <1>6, MapClientNone
  <1>10. /\ Flags(w) /\ Keeps(a, w) /\ SamePlaces(a, w)
         /\ w.fmapped = a.fmapped /\ w.ficon = a.ficon
         /\ \A d \in Clients : w.cicon[d] => a.cicon[d]
    <2>1. ClientHidden(a, w, c) /\ SamePlaces(a, w) /\ Keeps(a, w)
      BY <1>5, <1>6, UnmapClientFields, UnmapClientKeeps DEF Formed
    <2> HIDE DEF w
    <2>2. Flags(w)
      BY <1>6, <2>1 DEF ClientHidden, Flags
    <2> QED BY <2>1, <2>2 DEF ClientHidden
  <1> HIDE DEF m, w, u
  <1>11. Shown(m, X) /\ Shown(w, X)
    BY <1>8, <1>9, <1>10
  <1> QED BY <1>1, <1>11 DEF u

LEMMA ActivateChildShown ==
    ASSUME NoDialogs, NEW t, Formed(t), Housed(t), NEW X, Shown(t, X), NEW f \in Frames,
           NEW c \in Clients
    PROVE  Shown(ActivateChild(t, f, c), X)
  <1> DEFINE w == IF t.child[f] = c THEN t ELSE ApplyState(t, f, c)
             u == PutInFront(w, f, c)
             v == ActivateChild(t, f, c)
  <1>1. v = IF u.ffocused[f] THEN GiveClientFocus(u, c) ELSE u
    BY DEF ActivateChild
  <1>2. Shown(w, X) /\ Formed(w)
    <2>1. Shown(ApplyState(t, f, c), X) /\ Keeps(t, ApplyState(t, f, c))
      BY ApplyStateShown, ApplyStateKeeps
    <2> QED BY <2>1, KeepsForm
  <1>3. Moved(t, v, GP!PutInFront(TreeOf(t), f, c)) /\ Moved(w, u, GP!PutInFront(TreeOf(w), f, c))
    BY <1>2, ActivateChildMoves, PutInFrontMoves
  <1>4. \A g \in Frames : (Exists(v, g) <=> Exists(t, g)) /\ (Exists(w, g) <=> Exists(t, g))
    <2>1. Keeps(t, t) /\ Keeps(t, ApplyState(t, f, c))
      BY ApplyStateKeeps, KeepsItself
    <2>2. Keeps(t, w)
      BY <2>1
    <2> HIDE DEF v, w, u
    <2>3. LiveIn(v) = LiveIn(t)
      BY <1>3, FrontLive DEF Moved
    <2> QED BY <2>2, <2>3, KeepsExists DEF LiveIn
  <1>5. SameLook(w, u) /\ DOMAIN u = Fields
    BY <1>2, TabsLook, LookFields DEF Formed
  <1> HIDE DEF w, u
  <1>6. SameLook(u, GiveClientFocus(u, c)) /\ SameLook(u, u)
    BY <1>5, FocusLook, LookItself
  <1>7. SameLook(w, v)
    BY <1>1, <1>5, <1>6, LookOn
  <1> HIDE DEF v
  <1> QED BY <1>2, <1>4, <1>7, ShownSame DEF v

LEMMA FrameGoneShown ==
    ASSUME NEW t, NEW u, NEW f \in Frames, FrameGone(t, u, f), Shown(t, {f}), ~ Exists(t, f)
    PROVE  Shown(u, {})
  <1>1. 0 \in Workspaces
    BY WmAssumption DEF Workspaces
  <1>2. /\ \A g \in Frames \ {f} : /\ u.fmapped[g] = t.fmapped[g] /\ u.ficon[g] = t.ficon[g]
                                   /\ u.fws[g] = t.fws[g] /\ u.fsticky[g] = t.fsticky[g]
        /\ ~ u.fmapped[f] /\ ~ u.ficon[f] /\ ~ u.fsticky[f] /\ u.active = t.active
        /\ \A g \in Frames : Exists(u, g) <=> Exists(t, g)
    BY DEF FrameGone, Shown, Located, Exists
  <1>3. Flags(u) /\ Located(u)
    BY <1>1 DEF FrameGone, Shown, Flags, Located
  <1>4. Apart(u)
    BY <1>2 DEF FrameGone, Shown, Apart
  <1>5. \A g \in Frames \ {f} : Here(u, g) <=> Here(t, g)
    BY <1>2 DEF Here
  <1> QED BY <1>2, <1>3, <1>4, <1>5 DEF Shown

LEMMA RemoveFromFrameShown ==
    ASSUME NoDialogs, NEW t, Right(t), Shown(t, {}), NEW c \in Clients, IsManaged(t, c)
    PROVE  Shown(RemoveFromFrame(t, c), {})
  <1> DEFINE f == t.parent[c]
             d == Left(t, c)
             n == NextTab(t, c)
             u == RemoveFromFrame(t, c)
             w == DeleteFrame(d, f)
             a == ActivateChild(d, f, n)
  <1>1. Taken(t, d, f, c) /\ f \in Frames /\ t.kids[f] # <<>>
    BY LeftTaken, RightIs DEF LiveIn, Exists
  <1>2. u = IF Len(t.kids[f]) = 1 THEN w ELSE IF t.child[f] = c THEN a ELSE d
    BY RemoveFromFrameIs
  <1>3. Len(t.kids[f]) # 1 => n \in Clients
    BY NextTabSits
  <1> HIDE DEF f, d, n, u
  <1>4. /\ Formed(d) /\ Housed(d) /\ SameLook(t, d)
        /\ \A g \in Frames \ {f} : Exists(d, g) <=> Exists(t, g)
        /\ Exists(d, f) <=> Len(t.kids[f]) # 1
    BY <1>1 DEF Taken, Exists
  <1>5. CASE Len(t.kids[f]) = 1
    <2>1. Shown(d, {f})
      <3>1. /\ d.fws = t.fws /\ d.fsticky = t.fsticky /\ d.cws = t.cws /\ d.csticky = t.csticky
            /\ d.active = t.active /\ d.size = t.size /\ d.fmapped = t.fmapped
            /\ d.ficon = t.ficon /\ d.cmapped = t.cmapped /\ d.cicon = t.cicon
        BY <1>4 DEF SameLook, SamePlaces, SameFlags
      <3>2. Flags(d) /\ Located(d) /\ Apart(d)
        BY <3>1 DEF Shown, Flags, Located, Apart
      <3>3. \A g \in Frames : Here(d, g) <=> Here(t, g)
        BY <3>1 DEF Here
      <3> QED BY <1>4, <3>1, <3>2, <3>3 DEF Shown
    <2>2. FrameGone(d, w, f)
      BY <1>1, <1>4, <2>1, DeleteFrameGone DEF Shown
    <2> HIDE DEF w
    <2>3. Shown(w, {})
      BY <1>1, <1>4, <1>5, <2>1, <2>2, FrameGoneShown
    <2> QED BY <1>2, <1>5, <2>3 DEF u
  <1>6. CASE Len(t.kids[f]) # 1
    <2>1. Shown(d, {})
      <3>1. \A g \in Frames : Exists(d, g) <=> Exists(t, g)
        BY <1>1, <1>4, <1>6 DEF Exists
      <3> QED BY <1>4, <3>1, ShownSame
    <2>2. Shown(a, {})
      BY <1>1, <1>3, <1>4, <1>6, <2>1, ActivateChildShown
    <2> HIDE DEF a
    <2> QED BY <1>2, <1>6, <2>1, <2>2 DEF u
  <1> QED BY <1>5, <1>6

LEMMA JoinedShown ==
    ASSUME NEW t, NEW u, NEW f \in Frames, NEW c \in Clients, NEW X, Joined(t, u, f, c),
           Shown(t, X), Exists(t, f)
    PROVE  Shown(u, X)
  <1>1. SameLook(t, u) /\ \A g \in Frames : Exists(u, g) <=> Exists(t, g)
    BY DEF Joined, Exists
  <1> QED BY <1>1, ShownSame

(* Client::~Client *)
LEMMA DeleteClientShown ==
    ASSUME NoDialogs, NEW t, Right(t), t.transient \in [Clients -> Clients \cup {None}],
           Shown(t, {}), NEW c \in Clients, IsManaged(t, c)
    PROVE  Shown(DeleteClient(t, c), {})
  <1> DEFINE f == t.parent[c]
             owner == t.transient[c]
             u == RemoveFromFrame(t, c)
             g == u.parent[owner]
             b == t.ffocused[f] /\ owner # None /\ u.child[g] = owner
             v == IF b THEN GiveFrameFocus(u, g) ELSE u
             a == [d \in Clients |-> IF d = c \/ v.transient[d] = c THEN None ELSE v.transient[d]]
             n == IF v.focused = c THEN None ELSE v.focused
             zero == 0
             no == FALSE
             w == [v EXCEPT !.focused = n, !.transient = a, !.cws[c] = zero, !.cmapped[c] = no]
             x == [w EXCEPT !.cicon[c] = no, !.csticky[c] = no, !.gone = @ \ {c}]
  <1>1. Shown(u, {}) /\ Formed(u)
    <2>1. Right(u)
      BY RemoveFromFrameBecomes DEF Becomes
    <2> QED BY <2>1, RemoveFromFrameShown DEF Right
  <1>2. DeleteClient(t, c) = x
    BY DEF DeleteClient
  <1>0. owner \in Clients \cup {None} /\ zero \in Workspaces
    BY WmAssumption DEF Workspaces
  <1> HIDE DEF u, owner, f
  <1>3. SameLook(u, v) /\ DOMAIN v = Fields /\ u.kids = v.kids
    <2>1. SameLook(u, v)
      <3>1. SameLook(u, GiveFrameFocus(u, g)) /\ SameLook(u, u)
        BY <1>1, FocusLook, LookItself DEF Formed
      <3> HIDE DEF g, b
      <3> QED BY <3>1
    <2>2. DOMAIN u = Fields
      BY <1>1 DEF Formed
    <2>3. u.kids = v.kids
      <3>1. b => Keeps(u, GiveFrameFocus(u, g))
        BY <1>0, <1>1, GiveFrameFocusKeeps
      <3> HIDE DEF b, g
      <3> QED BY <3>1 DEF Keeps, SameTree
    <2> QED BY <2>1, <2>2, <2>3, LookFields
  <1>4. Shown(v, {})
    <2> HIDE DEF v
    <2> QED BY <1>1, <1>3, ShownSame DEF Exists
  <1> HIDE DEF v, a, n, no, zero
  <1>5. /\ DOMAIN w = Fields /\ w.kids = v.kids
        /\ w.fmapped = v.fmapped /\ w.ficon = v.ficon /\ w.cicon = v.cicon /\ w.fws = v.fws
        /\ w.fsticky = v.fsticky /\ w.csticky = v.csticky /\ w.active = v.active /\ w.size = v.size
        /\ w.cmapped = [v.cmapped EXCEPT ![c] = no] /\ w.cws = [v.cws EXCEPT ![c] = zero]
    BY <1>3 DEF Fields
  <1> HIDE DEF w
  <1>6. /\ x.kids = w.kids
        /\ x.fmapped = w.fmapped /\ x.ficon = w.ficon /\ x.cmapped = w.cmapped
        /\ x.fws = w.fws /\ x.fsticky = w.fsticky /\ x.cws = w.cws
        /\ x.active = w.active /\ x.size = w.size
        /\ x.cicon = [w.cicon EXCEPT ![c] = no] /\ x.csticky = [w.csticky EXCEPT ![c] = no]
    BY <1>5 DEF Fields
  <1> HIDE DEF x
  <1>7. Flags(v) /\ Located(v) /\ Apart(v)
    BY <1>4 DEF Shown
  <1>8. /\ x.cmapped = [v.cmapped EXCEPT ![c] = FALSE] /\ x.cicon = [v.cicon EXCEPT ![c] = FALSE]
        /\ x.csticky = [v.csticky EXCEPT ![c] = FALSE] /\ x.cws = [v.cws EXCEPT ![c] = zero]
        /\ x.fmapped = v.fmapped /\ x.ficon = v.ficon /\ x.fws = v.fws /\ x.fsticky = v.fsticky
        /\ x.active = v.active /\ x.size = v.size /\ x.kids = v.kids
    BY <1>5, <1>6 DEF no
  <1>9. Flags(x) /\ Located(x)
    BY <1>0, <1>7, <1>8 DEF Flags, Located
  <1>10. Apart(x)
    <2>1. \A d \in Clients : (x.cicon[d] => v.cicon[d]) /\ (x.csticky[d] => v.csticky[d])
      BY <1>7, <1>8 DEF Flags, Located
    <2> QED BY <1>7, <1>8, <2>1 DEF Apart
  <1>11. Shown(x, {})
    BY <1>4, <1>8, <1>9, <1>10, FramesShown DEF Exists
  <1> QED BY <1>2, <1>11

LEMMA ArrangedMore ==
    ASSUME NEW t, NEW f, Arranged(t, {f} \ {f}) \/ Arranged(t, {f})
    PROVE  Arranged(t, {f})
  <1>1. Shown(t, {f})
    BY ShownMore DEF Arranged
  <1> QED BY <1>1 DEF Arranged

LEMMA GetStateShown ==
    ASSUME NoDialogs, NEW t, NEW f \in Frames, Arranged(t, {f}), Exists(t, f), NEW c \in Clients
    PROVE  Arranged(GetState(t, f, c), {f}) /\ Keeps(t, GetState(t, f, c))
  <1> DEFINE icon == t.cicon[c]
             b == t.csticky[c]
             u == [t EXCEPT !.fsticky[f] = b]
             n == u.cws[c]
             k == SetFrameWorkspace(u, f, n)
             v == IF u.fws[f] # n THEN k ELSE u
             i == IconifyFrame(v, f)
  <1>1. GetState(t, f, c) = IF icon THEN i ELSE v
    BY DEF GetState
  <1>2. /\ Formed(t) /\ Shown(t, {f}) /\ Flags(t) /\ Located(t) /\ Apart(t)
        /\ b \in BOOLEAN /\ ("iconify" \in Ops => ~ b) /\ (icon => "iconify" \in Ops)
    BY DEF Arranged, Shown, Located, Apart
  <1> HIDE DEF b, icon
  <1>3. /\ Keeps(t, u) /\ SameFlags(t, u) /\ u.fsticky = [t.fsticky EXCEPT ![f] = b]
        /\ u.fws = t.fws /\ u.cws = t.cws /\ u.csticky = t.csticky
        /\ u.active = t.active /\ u.size = t.size
    BY <1>2 DEF Formed, Fields, Keeps, Stays, SameTree, SameLists, SameFlags
  <1> HIDE DEF u
  <1>4. Arranged(u, {f}) /\ Exists(u, f) /\ n \in Workspaces
    <2>1. /\ u.fmapped = t.fmapped /\ u.ficon = t.ficon /\ u.cmapped = t.cmapped
          /\ u.cicon = t.cicon
      BY <1>3 DEF SameFlags
    <2>2. Flags(u) /\ Located(u)
      BY <1>2, <1>3, <2>1 DEF Flags, Located
    <2>3. \A g \in Frames : u.fsticky[g] = IF g = f THEN b ELSE t.fsticky[g]
      BY <1>2, <1>3 DEF Located
    <2>4. Apart(u)
      BY <1>2, <1>3, <2>1, <2>3 DEF Apart
    <2>5. \A g \in Frames \ {f} : Here(u, g) <=> Here(t, g)
      BY <1>3, <2>3 DEF Here
    <2>6. \A g \in Frames : Exists(u, g) <=> Exists(t, g)
      BY <1>3, KeepsExists
    <2>7. Shown(u, {f})
      BY <1>2, <2>1, <2>2, <2>4, <2>5, <2>6 DEF Shown
    <2> QED BY <1>3, <2>2, <2>6, <2>7, ArrangedKept DEF Located
  <1> HIDE DEF n
  <1>5. Arranged(v, {f}) /\ Keeps(t, v) /\ Exists(v, f)
    <2>1. Arranged(k, {f} \ {f}) /\ Sent(u, k, f, n)
      BY <1>4, SetFrameWorkspaceShown
    <2>2. Arranged(k, {f}) /\ Keeps(u, k)
      BY <2>1, ArrangedMore DEF Sent
    <2> HIDE DEF k
    <2>3. Arranged(v, {f}) /\ Keeps(t, v)
      BY <1>3, <1>4, <2>2, KeepsOn
    <2> HIDE DEF v
    <2> QED BY <2>3, KeepsExists
  <1> HIDE DEF v
  <1>6. icon => Arranged(i, {f}) /\ Keeps(t, i)
    <2>1. SUFFICES ASSUME icon PROVE Arranged(i, {f}) /\ Keeps(t, i)
      OBVIOUS
    <2>2. Arranged(i, {f} \ {f}) /\ Keeps(v, i)
      BY <1>2, <1>5, <2>1, IconifyFrameShown
    <2> HIDE DEF i
    <2> QED BY <1>5, <2>2, ArrangedMore, KeepsOn
  <1> HIDE DEF i
  <1> QED BY <1>1, <1>5, <1>6

LEMMA OpenFrameShown ==
    ASSUME NoDialogs, NEW t, Right(t), NEW c \in Clients, ~ IsManaged(t, c), Shown(t, {}),
           NEW f \in Frames \ LiveIn(t)
    PROVE  Shown(OpenFrame(t, f, c), {})
  <1> DEFINE v == Opened(t, f, c)
             w == GetState(v, f, c)
             n == w.cws[c]
             u == SetFrameWorkspace(w, f, n)
  <1>1. Arranged(v, {f}) /\ Exists(v, f)
    <2>1. /\ SameLook(t, v) /\ v.child = [t.child EXCEPT ![f] = c] /\ v.parent[c] = f
          /\ \A d \in Clients \ {c} : v.parent[d] = t.parent[d]
          /\ v.kids[f] # <<>> /\ \A g \in Frames \ {f} : v.kids[g] = t.kids[g]
      BY OpenedLook
    <2>2. Right(v)
      BY FrameOpened DEF Becomes
    <2> HIDE DEF v
    <2>3. /\ v.fws = t.fws /\ v.fsticky = t.fsticky /\ v.cws = t.cws /\ v.csticky = t.csticky
          /\ v.active = t.active /\ v.size = t.size /\ v.fmapped = t.fmapped
          /\ v.ficon = t.ficon /\ v.cmapped = t.cmapped /\ v.cicon = t.cicon
      BY <2>1 DEF SameLook, SamePlaces, SameFlags
    <2>4. Flags(v) /\ Located(v) /\ Apart(v)
      BY <2>3 DEF Shown, Flags, Located, Apart
    <2>5. \A g \in Frames \ {f} : (Here(v, g) <=> Here(t, g)) /\ (Exists(v, g) <=> Exists(t, g))
      BY <2>1, <2>3 DEF Here, Exists
    <2>6. Shown(v, {f})
      BY <2>3, <2>4, <2>5 DEF Shown
    <2> QED BY <2>1, <2>2, <2>6, RightArranged DEF Exists
  <1>2. OpenFrame(t, f, c) = u
    BY OpenFrameIs
  <1> HIDE DEF v
  <1>3. Arranged(w, {f}) /\ Keeps(v, w)
    BY <1>1, GetStateShown
  <1> HIDE DEF w
  <1>4. Exists(w, f) /\ n \in Workspaces
    BY <1>1, <1>3, KeepsExists DEF Arranged, Shown, Located
  <1> HIDE DEF n
  <1>5. Arranged(u, {f} \ {f})
    BY <1>3, <1>4, SetFrameWorkspaceShown
  <1>6. {f} \ {f} = {}
    OBVIOUS
  <1> HIDE DEF u
  <1> QED BY <1>2, <1>5, <1>6 DEF Arranged

(* Client::Client *)
LEMMA FrameFoundShown ==
    ASSUME NoDialogs, NEW t, Right(t), Shown(t, {}), NEW c \in Clients, ~ IsManaged(t, c),
           NEW f \in Frames, NEW place \in {"new", "front", "behind"},
           place = "new" <=> f \notin LiveIn(t)
    PROVE  Shown(FindOrCreateFrame(t, c, f, place), {})
  <1> DEFINE a == AddToFrame(t, f, c)
             b == ActivateChild(a, f, c)
             n == OpenFrame(t, f, c)
             u == FindOrCreateFrame(t, c, f, place)
  <1>1. CASE place = "new"
    <2>1. u = n
      BY <1>1 DEF FindOrCreateFrame
    <2>2. Shown(n, {})
      BY <1>1, OpenFrameShown
    <2> QED BY <2>1, <2>2
  <1>2. CASE place # "new"
    <2>1. Right(a)
      BY <1>2, AddToFrameBecomes DEF Becomes
    <2>2. u = IF place = "front" THEN b ELSE a
      BY <1>2 DEF FindOrCreateFrame
    <2>3. Joined(t, a, f, c)
      BY AddToFrameJoins
    <2> HIDE DEF a, u
    <2>4. Shown(a, {})
      BY <1>2, <2>3, JoinedShown DEF LiveIn
    <2>5. Shown(b, {})
      BY <2>1, <2>4, RightFaced, ActivateChildShown
    <2> HIDE DEF b
    <2> QED BY <2>2, <2>4, <2>5 DEF u
  <1> QED BY <1>1, <1>2

LEMMA MappedStateShown ==
    ASSUME NEW t, Right(t), Shown(t, {}), NEW c \in Clients, IsManaged(t, c), NEW b
    PROVE  Shown(SetMappedStateAndFocus(t, c, b), {})
  <1> DEFINE f == t.parent[c]
             x == [t EXCEPT !.cmapped[c] = TRUE]
             u == IF t.fmapped[f] /\ ~ t.cicon[c] THEN x ELSE t
  <1>1. SetMappedStateAndFocus(t, c, b) = IF t.fmapped[f] /\ b THEN GiveFrameFocus(u, f) ELSE u
    BY DEF SetMappedStateAndFocus
  <1>2. f \in Frames /\ Formed(t) /\ t.child[f] \in Clients
    BY RightIs DEF LiveIn
  <1>3. /\ DOMAIN x = Fields /\ SameTree(t, x) /\ x.fmapped = t.fmapped /\ x.ficon = t.ficon /\ x.cicon = t.cicon
        /\ SamePlaces(t, x)
        /\ x.cmapped = [t.cmapped EXCEPT ![c] = TRUE] /\ Formed(x)
    BY <1>2 DEF Formed, Fields, SameTree, SamePlaces
  <1> HIDE DEF x
  <1>4. Shown(x, {})
    <2>1. Flags(x)
      BY <1>3 DEF Shown, Flags
    <2>2. Located(x)
      BY <1>3, PlacesLocated DEF Shown
    <2>3. Apart(x)
      BY <1>3 DEF Shown, Apart, SamePlaces
    <2> QED BY <1>3, <2>1, <2>2, <2>3, FramesShown DEF SamePlaces, SameTree, Exists
  <1>5. Shown(u, {}) /\ Formed(u) /\ u.child = t.child
    BY <1>2, <1>3, <1>4 DEF SameTree
  <1> HIDE DEF u
  <1>6. Shown(GiveFrameFocus(u, f), {})
    <2>1. SameLook(u, GiveFrameFocus(u, f)) /\ Keeps(u, GiveFrameFocus(u, f))
      BY <1>2, <1>5, FocusLook, GiveFrameFocusKeeps DEF Formed
    <2> QED BY <1>5, <2>1, KeepsExists, ShownSame
  <1> QED BY <1>1, <1>5, <1>6

LEMMA RaiseShown ==
    ASSUME NEW t, Formed(t), Shown(t, {}), NEW f
    PROVE  Shown(Raise(t, f), {}) /\ Formed(Raise(t, f)) /\ Raise(t, f).child = t.child
  <1>1. SameLook(t, Raise(t, f))
    BY FocusLook DEF Formed
  <1>2. Formed(Raise(t, f)) /\ SameTree(t, Raise(t, f))
    <2> DEFINE over == {g \in Frames \ {f} : \E d \in Clients :
                          InFront(t, g, d) /\ t.transient[d] = t.child[f]}
               q == Sieve(t.wolist, Frames \ (over \cup {f})) \o <<f>> \o SetToSeq(over)
    <2>1. Raise(t, f) = [t EXCEPT !.wolist = q]
      BY DEF Raise
    <2> HIDE DEF q
    <2> QED BY <2>1 DEF Formed, Fields, SameTree
  <1> QED BY <1>1, <1>2, ShownSame DEF SameTree, Exists

LEMMA FrameFocusedShown ==
    ASSUME NEW t, Formed(t), Shown(t, {}), NEW f \in Frames, t.child[f] \in Clients
    PROVE  /\ Shown(GiveFrameFocus(t, f), {}) /\ Shown(GiveFrameFocus(Raise(t, f), f), {})
  <1>1. \A u : Formed(u) /\ Shown(u, {}) /\ u.child[f] \in Clients => Shown(GiveFrameFocus(u, f), {})
    <2>1. SUFFICES ASSUME NEW u, Formed(u), Shown(u, {}), u.child[f] \in Clients
                   PROVE  Shown(GiveFrameFocus(u, f), {})
      OBVIOUS
    <2>2. SameLook(u, GiveFrameFocus(u, f)) /\ Keeps(u, GiveFrameFocus(u, f))
      BY <2>1, FocusLook, GiveFrameFocusKeeps DEF Formed
    <2> QED BY <2>1, <2>2, KeepsExists, ShownSame
  <1> QED BY <1>1, RaiseShown

LEMMA ManageShown ==
    ASSUME NoDialogs, NEW t, Right(t), Shown(t, {}),
           NEW c \in Clients, ~ IsManaged(t, c), NEW f \in Frames,
           NEW place \in {"new", "front", "behind"}, place = "new" <=> f \notin LiveIn(t),
           NEW icon \in BOOLEAN, icon => "iconify" \in Ops, NEW focus, NEW same
    PROVE  Shown(Manage(t, c, f, place, icon, focus, same), {})
  <1> DEFINE owner == TransientFor[c]
             w == IF owner # None /\ IsManaged(t, owner) THEN owner ELSE None
             l == IF same THEN t.last ELSE [n \in Workspaces |-> IF t.last[n] = c THEN None ELSE t.last[n]]
             n == t.active
             u == [t EXCEPT !.cws[c] = n, !.cicon[c] = icon, !.transient[c] = w, !.last = l]
             v == FindOrCreateFrame(u, c, f, place)
             x == SetMappedStateAndFocus(v, c, focus)
             y == FindAndRaiseIfTransient(x, c)
  <1>1. Manage(t, c, f, place, icon, focus, same) = y
    <2>1. [t EXCEPT !.cws[c] = t.active, !.cicon[c] = icon, !.transient[c] = w,
             !.last = IF same THEN @
                      ELSE [m \in Workspaces |-> IF @[m] = c THEN None ELSE @[m]]] = u
      BY RightIs DEF Formed, Fields
    <2> QED BY <2>1 DEF Manage
  <1>2. n \in Workspaces /\ Flags(t) /\ Located(t) /\ Apart(t)
    BY DEF Shown, Located
  <1> HIDE DEF w, l, y, n
  <1>3. /\ Formed(u) /\ SameTree(t, u) /\ SameLists(t, u)
        /\ u.fmapped = t.fmapped /\ u.ficon = t.ficon /\ u.cmapped = t.cmapped
        /\ u.cicon = [t.cicon EXCEPT ![c] = icon] /\ u.cws = [t.cws EXCEPT ![c] = n]
        /\ u.fws = t.fws /\ u.fsticky = t.fsticky /\ u.csticky = t.csticky
        /\ u.active = t.active /\ u.size = t.size
    BY RightIs DEF Formed, Fields, SameTree, SameLists
  <1> HIDE DEF u
  <1>4. Right(u) /\ LiveIn(u) = LiveIn(t) /\ ~ IsManaged(u, c)
    <2>1. TreeOf(u) = TreeOf(t) /\ LiveIn(u) = LiveIn(t) /\ ~ IsManaged(u, c)
      BY <1>3, SameLive DEF SameTree, TreeOf, IsManaged
    <2>2. Listed(u)
      BY <1>3, <2>1, KeepsListed DEF Right
    <2> QED BY <1>3, <2>1, <2>2 DEF Right
  <1>5. Shown(u, {})
    <2>1. Flags(u) /\ Located(u)
      BY <1>2, <1>3 DEF Flags, Located
    <2>2. \A d \in Clients : u.cicon[d] => t.cicon[d] \/ icon
      BY <1>2, <1>3 DEF Flags
    <2>3. Apart(u)
      BY <1>2, <1>3, <2>2 DEF Apart
    <2> QED BY <1>3, <2>1, <2>3, FramesShown DEF SameTree, Exists
  <1>6. Shown(v, {}) /\ Right(v) /\ v.parent[c] = f
    BY <1>4, <1>5, FrameFound, FrameFoundShown DEF Becomes
  <1> HIDE DEF v
  <1>7. IsManaged(v, c)
    BY <1>6, TabsAssumption DEF IsManaged
  <1>8. Shown(x, {}) /\ Formed(x)
    BY <1>6, <1>7, MappedStateShown, MappedStateKeeps, KeepsForm DEF Right
  <1> HIDE DEF x
  <1>9. Shown(y, {})
    BY <1>8, RaiseShown DEF y, FindAndRaiseIfTransient
  <1> QED BY <1>1, <1>9

(* The requests and events. *)
LEMMA NothingLess == ASSUME NEW f PROVE {} \ {f} = {}
  OBVIOUS

LEMMA ArrangedLooks ==
    ASSUME NEW t, NEW u, NEW X, Shown(t, X), LooksLike(t, u)
    PROVE  Shown(u, X)
  BY ShownSame DEF LooksLike, SameTree, Exists

LEMMA TurnedHere ==
    ASSUME NEW t, NEW u, NEW f, NEW n, Turned(t, u, n), t.fws[f] = n
    PROVE  Here(u, f)
  BY DEF Turned, Here

LEMMA RaisedFocusShown ==
    ASSUME NEW t, Right(t), Shown(t, {}), NEW f \in LiveIn(t)
    PROVE  Shown(GiveFrameFocus(Raise(t, f), f), {})
  <1>1. f \in Frames /\ Formed(t) /\ t.child[f] \in Clients
    BY RightIs DEF LiveIn
  <1> QED BY <1>1, FrameFocusedShown

LEMMA ActivatedRight ==
    ASSUME NEW t, Right(t), NEW c \in Clients, IsManaged(t, c), NEW f, f = t.parent[c]
    PROVE  /\ f \in Frames /\ f \in LiveIn(t)
           /\ Right(ActivateChild(t, f, c)) /\ f \in LiveIn(ActivateChild(t, f, c))
  <1> DEFINE u == ActivateChild(t, f, c)
  <1>1. f \in LiveIn(t) /\ f \in Frames
    BY RightIs DEF LiveIn
  <1>2. Becomes(t, u, GP!PutInFront(TreeOf(t), f, c))
    BY ActivateChildBecomes
  <1> HIDE DEF u
  <1>3. LiveIn(u) = LiveIn(t)
    BY <1>2, FrontLive DEF Becomes
  <1> QED BY <1>1, <1>2, <1>3 DEF Becomes, u

LEMMA ActivateShown ==
    ASSUME NoDialogs, NEW c \in Clients, Right(s), Shown(s, {}), Activate(c)
    PROVE  Shown(s', {})
  <1> DEFINE f == s.parent[c]
             a == ActivateChild(s, f, c)
             t == IF s.child[f] = c THEN s ELSE a
             n == t.fws[f]
             y == SetWorkspace(t, n, FALSE)
             w == IF t.fsticky[f] THEN t ELSE y
             m == MapFrame(w, f)
             u == IF t.fmapped[f] THEN t ELSE m
  <1>1. s' = GiveFrameFocus(Raise(u, f), f) /\ IsManaged(s, c)
    BY DEF Activate, Managed
  <1>2. /\ f \in Frames /\ f \in LiveIn(s) /\ Right(a) /\ f \in LiveIn(a)
    BY <1>1, ActivatedRight
  <1>3. Shown(a, {})
    BY <1>2, RightFaced, ActivateChildShown
  <1> HIDE DEF a, f
  <1>4. Right(t) /\ f \in LiveIn(t) /\ Shown(t, {})
    BY <1>2, <1>3
  <1> HIDE DEF t
  <1>5. Arranged(t, {}) /\ Listed(t) /\ n \in Workspaces /\ Exists(t, f)
    BY <1>2, <1>4, RightArranged DEF Right, Shown, Located, LiveIn
  <1> HIDE DEF n
  <1>6. Arranged(w, {}) /\ Keeps(t, w) /\ Here(w, f)
    <2>1. CASE t.fsticky[f]
      BY <1>4, <1>5, <2>1, KeepsItself DEF Here, Right
    <2>2. CASE ~ t.fsticky[f]
      <3>1. Turned(t, y, n)
        BY <1>5, SetWorkspaceShown
      <3>2. w = y /\ t.fws[f] = n
        BY <2>2 DEF n
      <3> HIDE DEF y
      <3>3. Here(y, f)
        BY <3>1, <3>2, TurnedHere
      <3> QED BY <3>1, <3>2, <3>3 DEF Turned
    <2> QED BY <2>1, <2>2
  <1> HIDE DEF w
  <1>7. Arranged(m, {}) /\ Keeps(t, m)
    <2>1. Exists(w, f)
      BY <1>2, <1>5, <1>6, KeepsExists
    <2>2. Arranged(m, {} \ {f}) /\ Keeps(w, m)
      BY <1>2, <1>6, <2>1, MapFrameShown
    <2> HIDE DEF m
    <2> QED BY <1>6, <2>2, NothingLess, KeepsOn
  <1> HIDE DEF m
  <1>8. Shown(u, {}) /\ Right(u) /\ f \in LiveIn(u)
    <2>1. Right(m) /\ LiveIn(m) = LiveIn(t) /\ Shown(m, {})
      BY <1>4, <1>7, RightKept, SameLive DEF Keeps, SameTree, Arranged
    <2> QED BY <1>4, <2>1
  <1> HIDE DEF u
  <1>9. Shown(GiveFrameFocus(Raise(u, f), f), {})
    BY <1>8, RaisedFocusShown
  <1> QED BY <1>1, <1>9

LEMMA GotoClientShown ==
    ASSUME NoDialogs, NEW c \in Clients, Right(s), Shown(s, {}), GotoClient(c)
    PROVE  Shown(s', {})
  <1> DEFINE f == s.parent[c]
             n == s.fws[f]
             y == SetWorkspace(s, n, FALSE)
             t == IF s.fsticky[f] THEN s ELSE y
             w == MapFrame(t, f)
             u == ActivateChild(w, f, c)
  <1>1. s' = GiveFrameFocus(Raise(u, f), f) /\ IsManaged(s, c)
    BY DEF GotoClient, Managed
  <1>2. f \in LiveIn(s) /\ f \in Frames
    BY <1>1, RightIs DEF LiveIn
  <1>3. Arranged(s, {}) /\ Listed(s) /\ n \in Workspaces /\ Exists(s, f)
    BY <1>2, RightArranged DEF Right, Shown, Located, LiveIn
  <1> HIDE DEF n
  <1>4. Arranged(t, {}) /\ Keeps(s, t) /\ Here(t, f)
    <2>1. CASE s.fsticky[f]
      BY <1>3, <2>1, KeepsItself DEF Here, Right
    <2>2. CASE ~ s.fsticky[f]
      <3>1. Turned(s, y, n)
        BY <1>3, SetWorkspaceShown
      <3>2. t = y /\ s.fws[f] = n
        BY <2>2 DEF n
      <3> HIDE DEF y
      <3>3. Here(y, f)
        BY <3>1, <3>2, TurnedHere
      <3> QED BY <3>1, <3>2, <3>3 DEF Turned
    <2> QED BY <2>1, <2>2
  <1> HIDE DEF t
  <1>5. Arranged(w, {}) /\ Keeps(s, w)
    <2>1. Exists(t, f)
      BY <1>2, <1>3, <1>4, KeepsExists
    <2>2. Arranged(w, {} \ {f}) /\ Keeps(t, w)
      BY <1>2, <1>4, <2>1, MapFrameShown
    <2> HIDE DEF w
    <2> QED BY <1>4, <2>2, NothingLess, KeepsOn
  <1> HIDE DEF w
  <1>6. Right(w) /\ f = w.parent[c] /\ IsManaged(w, c)
    BY <1>1, <1>5, RightKept DEF Keeps, SameTree, IsManaged
  <1> HIDE DEF f
  <1>7. Right(u) /\ f \in LiveIn(u)
    BY <1>6, ActivatedRight
  <1>8. Shown(u, {})
    BY <1>2, <1>5, ActivateChildShown DEF Arranged
  <1> HIDE DEF u
  <1>9. Shown(GiveFrameFocus(Raise(u, f), f), {})
    BY <1>7, <1>8, RaisedFocusShown
  <1> QED BY <1>1, <1>9

LEMMA ClickShown ==
    ASSUME NoDialogs, NEW c \in Clients, Right(s), Shown(s, {}), Click(c)
    PROVE  Shown(s', {})
  <1> DEFINE f == s.parent[c]
             t == ActivateChild(s, f, c)
  <1>1. s' = (IF t.ffocused[f] THEN Raise(t, f) ELSE GiveClientFocus(t, c)) /\ IsManaged(s, c)
    BY DEF Click, Managed
  <1>2. f \in Frames /\ Right(t)
    BY <1>1, ActivatedRight
  <1>3. Shown(t, {}) /\ Formed(t)
    BY <1>2, RightFaced, ActivateChildShown
  <1> HIDE DEF t
  <1>4. Shown(Raise(t, f), {})
    BY <1>3, RaiseShown
  <1>5. Shown(GiveClientFocus(t, c), {})
    <2>1. SameLook(t, GiveClientFocus(t, c)) /\ Keeps(t, GiveClientFocus(t, c))
      BY <1>3, FocusLook, GiveClientFocusKeeps DEF Formed
    <2> QED BY <1>3, <2>1, KeepsExists, ShownSame
  <1> QED BY <1>1, <1>4, <1>5

LEMMA FocusToggleShown ==
    ASSUME NoDialogs, NEW f \in Frames, NEW raise \in BOOLEAN, Right(s), Shown(s, {}),
           FocusToggle(f, raise)
    PROVE  Shown(s', {})
  <1> DEFINE x == SetFocused(s, s.focused, FALSE)
             t == [x EXCEPT !.ffocused[f] = TRUE]
             n == t.active
             v == SetFrameWorkspace(t, f, n)
             w == MapFrame(v, f)
             u == IF t.ficon[f] THEN Raise(w, f) ELSE IF raise THEN Raise(t, f) ELSE t
  <1>1. s' = GiveFrameFocus(u, f) /\ f \in LiveIn(s)
    BY DEF FocusToggle, Live, LiveIn
  <1>2. Keeps(s, x) /\ Formed(x) /\ SameLook(s, x)
    BY RightIs, SetFocusedKeeps, KeepsForm, FocusLook DEF Formed
  <1> HIDE DEF x
  <1>3. Keeps(x, t) /\ SameLook(x, t)
    <2>1. SameLook(x, t)
      BY <1>2, FieldLook DEF Formed
    <2> QED BY <1>2, <2>1 DEF Formed, Fields, Keeps, Stays, SameTree, SameLists
  <1> HIDE DEF t
  <1>4. Keeps(s, t) /\ Arranged(t, {})
    <2>1. Keeps(s, t) /\ SameLook(s, t)
      BY <1>2, <1>3, KeepsOn, LookOn
    <2> QED BY <2>1, RightArranged, ArrangedLook
  <1>5. Exists(t, f) /\ Formed(t) /\ t.child[f] \in Clients /\ n \in Workspaces
    <2>1. s.child[f] \in Clients
      BY <1>1, RightIs
    <2> QED BY <1>1, <1>4, <2>1 DEF Keeps, SameTree, Exists, LiveIn, Arranged, Shown, Located
  <1>6. Arranged(v, {}) /\ Keeps(t, v) /\ Here(v, f)
    <2>1. n = t.active
      OBVIOUS
    <2> HIDE DEF n
    <2>2. Arranged(v, {} \ {f}) /\ Sent(t, v, f, n)
      BY <1>4, <1>5, SetFrameWorkspaceShown
    <2> HIDE DEF v
    <2>3. v.fws[f] = n /\ v.active = n /\ Keeps(t, v)
      BY <1>4, <2>1, <2>2 DEF Sent, Arranged, Shown, Located
    <2> QED BY <2>2, <2>3, NothingLess DEF Here
  <1> HIDE DEF v
  <1>7. Arranged(w, {}) /\ Keeps(t, w)
    <2>1. Exists(v, f)
      BY <1>5, <1>6, KeepsExists
    <2>2. Arranged(w, {} \ {f}) /\ Keeps(v, w)
      BY <1>6, <2>1, MapFrameShown
    <2> HIDE DEF w
    <2> QED BY <1>6, <2>2, NothingLess, KeepsOn
  <1> HIDE DEF w
  <1>8. Formed(w) /\ w.child[f] \in Clients /\ Shown(w, {}) /\ Shown(t, {})
    BY <1>4, <1>5, <1>7 DEF Keeps, SameTree, Arranged
  <1>9. /\ Shown(GiveFrameFocus(Raise(w, f), f), {}) /\ Shown(GiveFrameFocus(Raise(t, f), f), {})
        /\ Shown(GiveFrameFocus(t, f), {})
    BY <1>5, <1>8, FrameFocusedShown
  <1> QED BY <1>1, <1>9

LEMMA DeiconifyShown ==
    ASSUME NoDialogs, NEW t, Arranged(t, {}), NEW f \in Frames, Exists(t, f)
    PROVE  Shown(Deiconify(t, f), {})
  <1> DEFINE m == MapFrame(t, f)
             u == IF t.fws[f] = t.active THEN m ELSE t
             v == [u EXCEPT !.ficon[f] = FALSE]
  <1>1. Deiconify(t, f) = IF t.ficon[f] THEN v ELSE t
    BY DEF Deiconify
  <1>2. /\ Formed(t) /\ Housed(t) /\ Flags(t) /\ Shown(t, {})
        /\ \A g \in Frames : t.fmapped[g] => ~ t.ficon[g]
    BY DEF Arranged, Shown
  <1>3. SUFFICES ASSUME t.ficon[f] PROVE Shown(v, {})
    BY <1>1, <1>2
  <1>4. ~ t.fsticky[f]
    BY <1>2, <1>3 DEF Shown, Apart
  <1>5. Arranged(u, {}) /\ (u.fmapped[f] \/ ~ Here(u, f))
    <2>1. CASE t.fws[f] = t.active
      <3>1. Arranged(m, {} \ {f})
        BY <2>1, MapFrameShown DEF Here
      <3>2. OneMapped(t, m, f)
        BY <1>2, MapFrameOne
      <3>3. u = m
        BY <2>1
      <3> HIDE DEF m, u
      <3>4. m.fmapped[f]
        BY <3>2 DEF OneMapped
      <3> QED BY <3>1, <3>3, <3>4, NothingLess
    <2>2. CASE t.fws[f] # t.active
      BY <1>4, <2>2 DEF Here
    <2> QED BY <2>1, <2>2
  <1> HIDE DEF u
  <1>6. Formed(u) /\ Shown(u, {}) /\ Flags(u) /\ Located(u) /\ Apart(u)
    BY <1>5 DEF Arranged, Shown
  <1>7. /\ SameTree(u, v) /\ SamePlaces(u, v) /\ v.fmapped = u.fmapped /\ v.cmapped = u.cmapped
        /\ v.cicon = u.cicon /\ v.ficon = [u.ficon EXCEPT ![f] = FALSE]
    BY <1>6 DEF Formed, Fields, SameTree, SamePlaces
  <1> HIDE DEF v
  <1>8. \A g \in Frames : v.ficon[g] <=> u.ficon[g] /\ g # f
    BY <1>6, <1>7 DEF Flags
  <1>9. Flags(v) /\ Located(v) /\ \A g \in Frames : Here(v, g) <=> Here(u, g)
    <2>1. Flags(v)
      BY <1>6, <1>7 DEF Flags
    <2> QED BY <1>6, <1>7, <2>1, PlacesLocated
  <1>10. Apart(v)
    BY <1>6, <1>7, <1>8 DEF Apart, SamePlaces
  <1>11. \A g \in Frames : Exists(v, g) <=> Exists(u, g)
    BY <1>7 DEF SameTree, Exists
  <1> QED BY <1>5, <1>6, <1>7, <1>8, <1>9, <1>10, <1>11 DEF Shown

LEMMA StickShown ==
    ASSUME NoDialogs, "iconify" \notin Ops, NEW f \in Frames, Right(s), Shown(s, {}), Stick(f)
    PROVE  Shown(s', {})
  <1> DEFINE k == s.child[f]
             b == ~ s.fsticky[f]
             n == s.active
             t == [s EXCEPT !.csticky[k] = b, !.fsticky[f] = b]
             u == SetFrameWorkspace(t, f, n)
  <1>1. s' = u /\ Exists(s, f)
    <2>1. s' = SetFrameWorkspace([s EXCEPT !.csticky[k] = b, !.fsticky[f] = ~ @], f, n)
      BY DEF Stick
    <2>2. [s EXCEPT !.csticky[k] = b, !.fsticky[f] = ~ @] = t
      BY RightIs DEF Formed, Fields
    <2> HIDE DEF t, k, b, n
    <2> QED BY <2>1, <2>2 DEF Stick, Live
  <1>2. Flags(s) /\ Located(s) /\ Apart(s) /\ b \in BOOLEAN /\ n \in Workspaces
    BY DEF Shown, Located
  <1> HIDE DEF k, b, n
  <1>3. /\ Keeps(s, t) /\ SameFlags(s, t) /\ t.fsticky = [s.fsticky EXCEPT ![f] = b]
        /\ t.csticky = [s.csticky EXCEPT ![k] = b]
        /\ t.fws = s.fws /\ t.cws = s.cws /\ t.active = s.active /\ t.size = s.size
    BY RightIs DEF Formed, Fields, Keeps, Stays, SameTree, SameLists, SameFlags
  <1> HIDE DEF t
  <1>4. Arranged(t, {f}) /\ Exists(t, f)
    <2>1. /\ t.fmapped = s.fmapped /\ t.ficon = s.ficon /\ t.cmapped = s.cmapped
          /\ t.cicon = s.cicon
      BY <1>3 DEF SameFlags
    <2>2. Flags(t) /\ Located(t)
      <3>1. Flags(t)
        BY <1>2, <2>1 DEF Flags
      <3>2. Located(t)
        BY <1>2, <1>3 DEF Located
      <3> QED BY <3>1, <3>2
    <2>3. Apart(t)
      BY <1>2, <2>1 DEF Apart
    <2>4. \A g \in Frames \ {f} : Here(t, g) <=> Here(s, g)
      BY <1>2, <1>3 DEF Here, Located
    <2>5. \A g \in Frames : Exists(t, g) <=> Exists(s, g)
      BY <1>3, KeepsExists
    <2>6. Shown(t, {f})
      BY <2>1, <2>2, <2>3, <2>4, <2>5 DEF Shown
    <2> QED BY <1>1, <1>3, <2>5, <2>6, RightArranged, ArrangedKept
  <1>5. Arranged(u, {f} \ {f})
    BY <1>2, <1>4, SetFrameWorkspaceShown
  <1>6. {f} \ {f} = {}
    OBVIOUS
  <1> HIDE DEF u
  <1> QED BY <1>1, <1>5, <1>6 DEF Arranged

(* A client is put on a workspace. *)
LEMMA ClientSent ==
    ASSUME NEW t, DOMAIN t = Fields, Shown(t, {}), NEW c \in Clients, NEW n \in Workspaces
    PROVE  Shown([t EXCEPT !.cws[c] = n], {})
  <1> DEFINE u == [t EXCEPT !.cws[c] = n]
  <1>1. /\ u.kids = t.kids /\ SameFlags(t, u) /\ u.cws = [t.cws EXCEPT ![c] = n]
        /\ u.fws = t.fws /\ u.fsticky = t.fsticky /\ u.csticky = t.csticky
        /\ u.active = t.active /\ u.size = t.size
    BY DEF Fields, SameFlags
  <1> HIDE DEF u
  <1>2. /\ u.fmapped = t.fmapped /\ u.ficon = t.ficon /\ u.cmapped = t.cmapped
        /\ u.cicon = t.cicon
    BY <1>1 DEF SameFlags
  <1>3. Flags(u) /\ Located(u) /\ Apart(u)
    BY <1>1, <1>2 DEF Shown, Flags, Located, Apart
  <1>4. Shown(u, {})
    BY <1>1, <1>2, <1>3, FramesShown DEF Exists
  <1> QED BY <1>4 DEF u

LEMMA AttachMarkedShown ==
    ASSUME NoDialogs, NEW c \in Clients, NEW f \in Frames, Right(s), Shown(s, {}),
           AttachMarked(c, f)
    PROVE  Shown(s', {})
  <1> DEFINE t == RemoveFromFrame(s, c)
             x == GP!RemoveChild(TreeOf(s), c)
             n == t.fws[f]
             u == [t EXCEPT !.cws[c] = n]
  <1>1. /\ s' = AddToFrame(u, f, c) /\ IsManaged(s, c) /\ f # s.parent[c]
        /\ f \in LiveIn(s)
    BY DEF AttachMarked, Managed, Live, LiveIn
  <1>2. Becomes(s, t, x) /\ Formed(t)
    BY <1>1, RemoveFromFrameBecomes DEF Becomes, Right
  <1>3. Shown(t, {}) /\ n \in Workspaces
    <2>1. Shown(t, {})
      BY <1>1, RemoveFromFrameShown
    <2> HIDE DEF t
    <2> QED BY <2>1 DEF Shown, Located
  <1> HIDE DEF t, x, n
  <1>4. Keeps(t, u) /\ Shown(u, {})
    <2>1. Keeps(t, u)
      BY <1>2 DEF Formed, Fields, Keeps, Stays, SameTree, SameLists
    <2>2. Shown(u, {})
      BY <1>2, <1>3, ClientSent DEF Formed
    <2> QED BY <2>1, <2>2
  <1> HIDE DEF u
  <1>5. Right(u) /\ ~ IsManaged(u, c) /\ f \in LiveIn(u)
    <2>1. Becomes(s, u, x)
      BY <1>2, <1>4, BecomesKept
    <2>2. TreeOf(u) = GP!RemoveChild(TreeOf(s), c)
      BY <2>1 DEF Becomes, x
    <2> QED BY <1>1, <2>1, <2>2, AfterRemoval DEF Becomes
  <1>6. Joined(u, AddToFrame(u, f, c), f, c)
    BY <1>5, AddToFrameJoins
  <1> QED BY <1>1, <1>4, <1>5, <1>6, JoinedShown DEF LiveIn

LEMMA AttachClientShown ==
    ASSUME NoDialogs, NEW c \in Clients, NEW f \in Frames, Right(s), Shown(s, {}),
           AttachClient(c, f)
    PROVE  Shown(s', {})
  <1> DEFINE k == SetFocused(s, c, FALSE)
             t == RemoveFromFrame(k, c)
             u == AddToFrame(t, f, c)
             v == ActivateChild(u, f, c)
  <1>1. s' = GiveFrameFocus(v, f) /\ IsManaged(s, c) /\ f # s.parent[c] /\ f \in LiveIn(s)
    BY DEF AttachClient, Managed, Live, LiveIn
  <1>2. Keeps(s, k) /\ SameLook(s, k)
    BY RightIs, SetFocusedKeeps, FocusLook DEF Formed
  <1> HIDE DEF k
  <1>3. /\ Right(k) /\ IsManaged(k, c) /\ k.parent = s.parent
        /\ Shown(k, {}) /\ LiveIn(k) = LiveIn(s)
    BY <1>1, <1>2, RightKept, ShownSame, KeepsExists, SameLive DEF Keeps, SameTree, IsManaged
  <1>4. Right(t) /\ TreeOf(t) = GP!RemoveChild(TreeOf(k), c) /\ Shown(t, {})
    <2>1. Becomes(k, t, GP!RemoveChild(TreeOf(k), c))
      BY <1>3, RemoveFromFrameBecomes
    <2>2. Shown(t, {})
      BY <1>3, RemoveFromFrameShown
    <2> HIDE DEF t
    <2> QED BY <2>1, <2>2 DEF Becomes
  <1> HIDE DEF t
  <1>5. ~ IsManaged(t, c) /\ f \in LiveIn(t)
    BY <1>1, <1>3, <1>4, AfterRemoval
  <1>6. Right(u) /\ f = u.parent[c] /\ IsManaged(u, c)
    <2>1. Right(u) /\ u.parent[c] = f
      BY <1>4, <1>5, AddToFrameBecomes DEF Becomes
    <2> QED BY <2>1, TabsAssumption DEF IsManaged
  <1>7. Shown(u, {})
    <2>1. Joined(t, u, f, c)
      BY <1>4, <1>5, AddToFrameJoins
    <2> HIDE DEF u
    <2> QED BY <1>4, <1>5, <2>1, JoinedShown DEF LiveIn
  <1> HIDE DEF u
  <1>8. Right(v) /\ f \in LiveIn(v)
    BY <1>6, ActivatedRight
  <1>9. Shown(v, {})
    BY <1>6, <1>7, RightFaced, ActivateChildShown
  <1> HIDE DEF v
  <1>10. v.child[f] \in Clients /\ Formed(v)
    BY <1>8, RightIs
  <1> QED BY <1>1, <1>9, <1>10, FrameFocusedShown

LEMMA AttachFrameShown ==
    ASSUME NEW f \in Frames, NEW g \in Frames, Right(s), Shown(s, {}), AttachFrame(g, f)
    PROVE  Shown(s', {})
  <1>1. Merged(s, s', f, g) /\ Right(s')
    BY AttachFrameLook, AttachFrameBecomes DEF Shown, Becomes
  <1>2. 0 \in Workspaces /\ Flags(s) /\ Located(s) /\ Apart(s)
    BY WmAssumption DEF Workspaces, Shown
  <1>3. Flags(s')
    BY <1>1, <1>2 DEF Flags, Merged
  <1>4. Located(s')
    <2>1. s'.cws \in [Clients -> Workspaces]
      BY <1>1, <1>2 DEF Merged, Located
    <2> QED BY <1>1, <1>2, <2>1 DEF Merged, Located
  <1>5. \A h \in Frames \ {g} : (Here(s', h) <=> Here(s, h)) /\ (s'.fsticky[h] <=> s.fsticky[h])
    BY <1>1, <1>2 DEF Merged, Located, Here
  <1>6. Apart(s')
    <2>1. ~ s'.fsticky[g]
      BY <1>1, <1>2 DEF Merged, Located
    <2> QED BY <1>1, <1>2, <1>5, <2>1 DEF Merged, Apart
  <1>7. \A h \in Frames : Exists(s', h) <=> Exists(s, h) /\ h # g
    BY <1>1, RightFront DEF Merged
  <1> QED BY <1>1, <1>3, <1>4, <1>5, <1>6, <1>7 DEF Merged, Shown

LEMMA MoveTabShown ==
    ASSUME NEW f \in Frames, NEW off \in {-1, 1}, Right(s), Shown(s, {}), MoveTab(f, off)
    PROVE  Shown(s', {})
  <1>1. Right(s')
    BY MoveTabBecomes DEF Becomes
  <1>2. SameLook(s, s') /\ s'.child = s.child
    <2> DEFINE q == s.kids[f]
               m == MoveRel(q, s.child[f], off)
               u == [s EXCEPT !.kids[f] = m]
               b == Len(q) < 2 \/ ChildRel(q, s.child[f], off) = s.child[f]
    <2>1. s' = IF b THEN s ELSE u
      BY DEF MoveTab, MoveChildRel
    <2> HIDE DEF m, b
    <2> QED BY <2>1, RightIs DEF Formed, Fields, SameLook, SamePlaces, SameFlags
  <1>3. \A h \in Frames : Exists(s', h) <=> Exists(s, h)
    BY <1>1, <1>2, RightFront
  <1> QED BY <1>2, <1>3, ShownSame

LEMMA DetachShown ==
    ASSUME NoDialogs, NEW c \in Clients, NEW f \in Frames, Right(s), Shown(s, {}), Detach(c, f)
    PROVE  Shown(s', {})
  <1> DEFINE g == s.parent[c]
             r == RemoveFromFrame(s, c)
             t == OpenFrame(r, f, c)
             n == t.active
             no == FALSE
             u == [t EXCEPT !.cws[c] = n]
             v == [u EXCEPT !.ffocused[g] = no]
  <1>1. /\ s' = [t EXCEPT !.cws[c] = n, !.ffocused[g] = no] /\ IsManaged(s, c)
        /\ f \notin LiveIn(s) /\ f # g
    BY RightIs DEF Detach, Managed, Live, LiveIn
  <1>2. Right(r) /\ TreeOf(r) = GP!RemoveChild(TreeOf(s), c) /\ Shown(r, {})
    BY <1>1, RemoveFromFrameBecomes, RemoveFromFrameShown DEF Becomes
  <1> HIDE DEF r
  <1>3. ~ IsManaged(r, c) /\ f \notin LiveIn(r)
    BY <1>1, <1>2, AfterRemoval
  <1>4. Formed(t) /\ Shown(t, {})
    BY <1>2, <1>3, OpenFrameBecomes, OpenFrameShown DEF Becomes, Right
  <1> HIDE DEF t, g
  <1>5. n \in Workspaces /\ DOMAIN t = Fields
    BY <1>4 DEF Shown, Located, Formed
  <1> HIDE DEF n, no
  <1>6. s' = v
    BY <1>1, <1>5 DEF Fields
  <1>7. Shown(u, {}) /\ DOMAIN u = Fields
    BY <1>4, <1>5, ClientSent
  <1> HIDE DEF u
  <1>8. SameLook(u, v) /\ v.kids = u.kids
    BY <1>7, FieldLook DEF Fields
  <1> HIDE DEF v
  <1> QED BY <1>6, <1>7, <1>8, ShownSame DEF Exists

(* Iconified windows do not meet sticky ones, nor a restored frame another *)
(* workspace.                                                              *)
Separate == "iconify" \in Ops => "stick" \notin Ops /\ "restore" \notin Ops

LEMMA QuietShown ==
    ASSUME NoDialogs, "size" \notin Ops, Separate, Right(s), Shown(s, {}),
           \/ \E c \in Clients : MapAgain(c)
           \/ \E f \in Frames : \/ Iconify(f) \/ Restore(f) \/ Stick(f)
                                \/ \E raise \in BOOLEAN : FocusToggle(f, raise)
                                \/ \E n \in Workspaces : SendTo(f, n)
           \/ \E n \in Workspaces : Goto(n) \/ Resize(n + 1)
    PROVE  Shown(s', {})
  <1>1. Arranged(s, {}) /\ Listed(s)
    BY RightArranged DEF Right
  <1>2. ASSUME NEW c \in Clients, MapAgain(c) PROVE Shown(s', {})
    <2>1. s.parent[c] \in Frames /\ Exists(s, s.parent[c]) /\ s' = Deiconify(s, s.parent[c])
      BY <1>2, RightIs DEF MapAgain, Managed, LiveIn
    <2> QED BY <1>1, <2>1, DeiconifyShown
  <1>3. ASSUME NEW f \in Frames, Iconify(f) PROVE Shown(s', {})
    <2>1. Exists(s, f) /\ "iconify" \in Ops /\ s' = IconifyFrame(s, f)
      BY <1>3 DEF Iconify, Live
    <2>2. Arranged(IconifyFrame(s, f), {} \ {f})
      BY <1>1, <2>1, IconifyFrameShown
    <2> QED BY <2>1, <2>2, NothingLess DEF Arranged
  <1>4. ASSUME NEW f \in Frames PROVE ~ Restore(f)
    BY DEF Restore, Separate, Shown, Apart
  <1>5. ASSUME NEW f \in Frames, Stick(f) PROVE Shown(s', {})
    <2>1. "iconify" \notin Ops
      BY <1>5 DEF Stick, Separate
    <2> QED BY <1>5, <2>1, StickShown
  <1>6. ASSUME NEW f \in Frames, NEW n \in Workspaces, SendTo(f, n) PROVE Shown(s', {})
    <2>1. Exists(s, f) /\ s' = SetFrameWorkspace(s, f, n)
      BY <1>6 DEF SendTo, Live
    <2>2. Arranged(SetFrameWorkspace(s, f, n), {} \ {f})
      BY <1>1, <2>1, SetFrameWorkspaceShown
    <2> QED BY <2>1, <2>2, NothingLess DEF Arranged
  <1>7. ASSUME NEW n \in Workspaces, Goto(n) PROVE Shown(s', {})
    <2>1. s' = SetWorkspace(s, n, TRUE)
      BY <1>7 DEF Goto
    <2>2. Turned(s, SetWorkspace(s, n, TRUE), n)
      BY <1>1, SetWorkspaceShown
    <2> QED BY <2>1, <2>2 DEF Turned, Arranged
  <1>8. ASSUME NEW n \in Workspaces PROVE ~ Resize(n + 1)
    BY DEF Resize
  <1> QED BY <1>2, <1>3, <1>4, <1>5, <1>6, <1>7, <1>8, FocusToggleShown

LEMMA MapNewShown ==
    ASSUME NoDialogs, NEW c \in Clients, Right(s), Shown(s, {}), MapNew(c)
    PROVE  Shown(s', {})
  <1>1. PICK f \in Frames, place \in {"new", "front", "behind"}, icon \in BOOLEAN,
             focus \in BOOLEAN, same \in BOOLEAN :
               /\ c \notin Managed /\ (place = "new" <=> f \notin Live)
               /\ icon => "iconify" \in Ops
               /\ s' = Manage(s, c, f, place, icon, focus, same)
    BY DEF MapNew
  <1>2. ~ IsManaged(s, c) /\ (place = "new" <=> f \notin LiveIn(s))
    BY <1>1 DEF Managed, Live, LiveIn
  <1>3. Shown(Manage(s, c, f, place, icon, focus, same), {})
    BY <1>1, <1>2, ManageShown
  <1> QED BY <1>1, <1>3

LEMMA EventShown ==
    ASSUME NoDialogs, WmInv(s), Shown(s, {}), HandleEvent
    PROVE  Shown(s', {})
  <1>1. PICK t : EventSeen(t)
    BY EventLooks
  <1>2. \A a, b : LooksLike(a, b) /\ Shown(a, {}) => Shown(b, {})
    BY ArrangedLooks
  <1>3. Right(t) /\ Shown(t, {}) /\ t.transient \in [Clients -> Clients \cup {None}]
    BY <1>1, <1>2 DEF EventSeen
  <1>4. \A c \in Clients : IsManaged(t, c) => Shown(DeleteClient(t, c), {})
    BY <1>3, DeleteClientShown
  <1> QED BY <1>1, <1>2, <1>3, <1>4 DEF EventSeen

LEMMA InitShown == Init => Shown(s, {})
  <1>1. 0 \in Workspaces
    BY WmAssumption DEF Workspaces
  <1>2. Init => Flags(s) /\ Located(s)
    BY <1>1 DEF Init, Flags, Located
  <1>3. Init => Apart(s) /\ \A f \in Frames : ~ s.fmapped[f] /\ ~ Exists(s, f)
    BY DEF Init, Apart, Exists
  <1> QED BY <1>2, <1>3 DEF Shown

LEMMA RequestShown ==
    ASSUME NoDialogs, "size" \notin Ops, Separate, WmInv(s), Shown(s, {}), Request
    PROVE  Shown(s', {})
  <1>1. Right(s)
    BY DEF WmInv
  <1>2. ASSUME NEW c \in Clients, MapNew(c) PROVE Shown(s', {})
    BY <1>1, <1>2, MapNewShown
  <1>3. ASSUME NEW c \in Clients, Withdraw(c) PROVE Shown(s', {})
    BY <1>1, <1>3, WithdrawTabs, ShownSame DEF SameTree, Exists
  <1>4. ASSUME NEW c \in Clients, Activate(c) \/ GotoClient(c) \/ Click(c) PROVE Shown(s', {})
    BY <1>1, <1>4, ActivateShown, GotoClientShown, ClickShown
  <1>5. ASSUME NEW c \in Clients, NEW f \in Frames,
               Detach(c, f) \/ AttachMarked(c, f) \/ AttachClient(c, f)
        PROVE  Shown(s', {})
    BY <1>1, <1>5, DetachShown, AttachMarkedShown, AttachClientShown
  <1>6. ASSUME NEW f \in Frames, NEW g \in Frames, AttachFrame(g, f) PROVE Shown(s', {})
    BY <1>1, <1>6, AttachFrameShown
  <1>7. ASSUME NEW f \in Frames, NEW off \in {-1, 1}, MoveTab(f, off) PROVE Shown(s', {})
    BY <1>1, <1>7, MoveTabShown
  <1>8. ASSUME \/ \E c \in Clients : MapAgain(c)
               \/ \E f \in Frames : \/ Iconify(f) \/ Restore(f) \/ Stick(f)
                                    \/ \E raise \in BOOLEAN : FocusToggle(f, raise)
                                    \/ \E n \in Workspaces : SendTo(f, n)
               \/ \E n \in Workspaces : Goto(n) \/ Resize(n + 1)
        PROVE  Shown(s', {})
    BY <1>1, <1>8, QuietShown
  <1> QED BY <1>2, <1>3, <1>4, <1>5, <1>6, <1>7, <1>8 DEF Request

ShownInv == Inv /\ Shown(s, {})

(* A frame is mapped just when it is not iconified and belongs to the      *)
(* workspace shown or to all of them, when there are no dialogs, the       *)
(* number of workspaces stays and iconified windows do not meet sticky     *)
(* ones.                                                                   *)
THEOREM FramesVisible ==
    ASSUME \A c \in Clients : TransientFor[c] = None, "size" \notin Ops,
           "iconify" \in Ops => "stick" \notin Ops /\ "restore" \notin Ops
    PROVE  Spec => []Visible
  <1>0. NoDialogs /\ Separate
    BY DEF NoDialogs, Separate
  <1>1. Init => ShownInv
    BY InitInv, InitShown DEF ShownInv, Inv
  <1>2. ShownInv /\ [Next]_s => ShownInv'
    <2>1. SUFFICES ASSUME Inv, WmInv(s), Shown(s, {}), [Next]_s PROVE Inv' /\ Shown(s, {})'
      BY DEF ShownInv, Inv
    <2>2. CASE UNCHANGED s
      BY <2>1, <2>2, Inductive
    <2>3. CASE Next
      <3>1. Shown(s', {})
        BY <1>0, <2>1, <2>3, EventShown, RequestShown DEF Next
      <3> QED BY <2>1, <3>1, Inductive
    <2> QED BY <2>1, <2>2, <2>3
  <1>3. ShownInv => Visible
    <2>1. SUFFICES ASSUME Shown(s, {}), NEW f \in Frames, Exists(s, f)
                   PROVE  s.fmapped[f] <=> ~ s.ficon[f] /\ (s.fsticky[f] \/ s.fws[f] = s.active)
      BY DEF ShownInv, Visible, Live
    <2> QED BY <2>1 DEF Shown, Here
  <1> QED BY <1>1, <1>2, <1>3, PTL DEF Spec

----------------------------------------------------------------------------
(* The focus, while nothing is sticky.  Latest: events behind which no     *)
(* other says where the focus is.                                          *)
Plain(t) ==
    /\ t.cmapped \in [Clients -> BOOLEAN]
    /\ t.fmapped \in [Frames -> BOOLEAN] /\ t.ffocused \in [Frames -> BOOLEAN]
    /\ t.fsticky = [f \in Frames |-> FALSE] /\ t.csticky = [c \in Clients |-> FALSE]

Latest(q, i) == i \in DOMAIN q /\ \A j \in DOMAIN q : i < j => q[j].type # "FocusIn"

Agree(q, w) ==
    \A i \in DOMAIN q : Latest(q, i) =>
      /\ q[i].type = "FocusIn" => q[i].window = w
      /\ q[i].type = "Unmapped" => q[i].window # w

(* The server sends the keys to a window that is shown, and its last word  *)
(* is that it does; nothing after it says that this window was unmapped.   *)
HasInput(t) ==
    /\ t.input \in Clients \cup {Root}
    /\ t.input \in Clients => t.cmapped[t.input] /\ t.input \notin t.gone

Heard(t) == Plain(t) /\ HasInput(t) /\ Agree(t.queue, t.input)

Told(t, w) == \E i \in DOMAIN t.queue : t.queue[i] = FocusIn(w)

(* What was told of the focus stays told; frames are no longer drawn as    *)
(* focused, but none is drawn so anew.                                     *)
Dims(t, u) ==
    /\ u.focused = t.focused /\ u.last = t.last
    /\ \A w : Told(t, w) => Told(u, w)
    /\ (\A w : ~ Told(u, w)) => u.input = t.input
    /\ \A f \in Frames : u.ffocused[f] => t.ffocused[f] /\ (t.fmapped[f] => u.fmapped[f])

Tells(t, u) == Heard(u) /\ Dims(t, u)

LEMMA TellsItself == ASSUME NEW t, Heard(t) PROVE Tells(t, t)
  BY DEF Tells, Dims

LEMMA DimsOn ==
    ASSUME NEW t, NEW u, NEW v, Dims(t, u), Dims(u, v)
    PROVE  Dims(t, v)
  BY DEF Dims

LEMMA TellsOn ==
    ASSUME NEW t, NEW u, NEW v, Tells(t, u), Tells(u, v)
    PROVE  Tells(t, v)
  BY DimsOn DEF Tells

LEMMA AgreeAppend ==
    ASSUME NEW q \in Seq(Events), NEW e \in Events, NEW w, Agree(q, w),
           e.type # "FocusIn", e.type = "Unmapped" => e.window # w
    PROVE  Agree(Append(q, e), w)
  <1> DEFINE p == Append(q, e)
             n == Len(q)
  <1>1. n \in Nat /\ DOMAIN q = 1..n /\ DOMAIN p = 1..(n + 1) /\ p[n + 1] = e
    BY AppendProperties, LenProperties
  <1>2. \A i \in 1..n : p[i] = q[i]
    BY AppendProperties, LenProperties
  <1> HIDE DEF p, n
  <1>3. \A i \in 1..n : Latest(p, i) => Latest(q, i)
    BY <1>1, <1>2 DEF Latest
  <1>4. \A i \in 1..(n + 1) : i = n + 1 \/ i \in 1..n
    BY <1>1
  <1> QED BY <1>1, <1>2, <1>3, <1>4 DEF Agree, p

LEMMA AgreeFocus ==
    ASSUME NEW q \in Seq(Events), NEW w \in Clients \cup {Root}
    PROVE  Agree(Append(q, FocusIn(w)), w)
  <1> DEFINE p == Append(q, FocusIn(w))
             n == Len(q)
  <1>1. n \in Nat /\ DOMAIN p = 1..(n + 1) /\ p[n + 1] = FocusIn(w)
    BY AppendProperties, LenProperties, EventTypes
  <1> HIDE DEF p, n
  <1>2. FocusIn(w).type = "FocusIn" /\ FocusIn(w).window = w
    BY DEF FocusIn
  <1>3. \A i \in 1..n : ~ Latest(p, i)
    BY <1>1, <1>2 DEF Latest
  <1>4. \A i \in 1..(n + 1) : i = n + 1 \/ i \in 1..n
    BY <1>1
  <1> QED BY <1>1, <1>2, <1>3, <1>4 DEF Agree, p

LEMMA AgreeTail ==
    ASSUME NEW q \in Seq(Events), q # <<>>, NEW w, Agree(q, w)
    PROVE  Agree(Tail(q), w)
  <1> DEFINE p == Tail(q)
             n == Len(q)
  <1>1. /\ n \in Nat \ {0} /\ DOMAIN q = 1..n /\ DOMAIN p = 1..(n - 1)
        /\ \A i \in 1..(n - 1) : p[i] = q[i + 1]
    BY HeadTailProperties, LenProperties, EmptySeq
  <1> HIDE DEF p, n
  <1>2. \A i \in 1..(n - 1) : i + 1 \in 1..n
    BY <1>1
  <1>3. \A i \in 1..(n - 1) : Latest(p, i) => Latest(q, i + 1)
    <2> SUFFICES ASSUME NEW i \in 1..(n - 1), Latest(p, i), NEW j \in 1..n, i + 1 < j
                 PROVE  q[j].type # "FocusIn"
      BY <1>1, <1>2 DEF Latest
    <2>1. j - 1 \in 1..(n - 1) /\ i < j - 1 /\ (j - 1) + 1 = j
      BY <1>1
    <2> QED BY <1>1, <2>1 DEF Latest
  <1> QED BY <1>1, <1>2, <1>3 DEF Agree, p

(* An event more in the queue. *)
LEMMA PostTold ==
    ASSUME NEW t, Formed(t), NEW e \in Events
    PROVE  /\ \A w : Told(Post(t, e), w) <=> Told(t, w) \/ e = FocusIn(w)
           /\ Post(t, e).queue = Append(t.queue, e)
           /\ \A x \in Fields \ {"queue"} : Post(t, e)[x] = t[x]
  <1> DEFINE q == t.queue
             p == Append(q, e)
             n == Len(q)
  <1>1. DOMAIN t = Fields /\ q \in Seq(Events)
    BY DEF Formed
  <1>2. Post(t, e).queue = p /\ \A x \in Fields \ {"queue"} : Post(t, e)[x] = t[x]
    BY <1>1 DEF Post, Fields
  <1>3. /\ n \in Nat /\ DOMAIN q = 1..n /\ DOMAIN p = 1..(n + 1) /\ p[n + 1] = e
        /\ \A i \in 1..n : p[i] = q[i]
    BY <1>1, AppendProperties, LenProperties
  <1> HIDE DEF p, q, n
  <1>4. \A i : i \in 1..(n + 1) <=> i = n + 1 \/ i \in 1..n
    BY <1>3
  <1>5. \A w : (\E i \in DOMAIN p : p[i] = FocusIn(w)) <=> (\E i \in DOMAIN q : q[i] = FocusIn(w)) \/ e = FocusIn(w)
    BY <1>3, <1>4
  <1> QED BY <1>2, <1>5 DEF Told, p, q

(* Nothing of this is changed. *)
SameFocus(t, u) ==
    /\ u.queue = t.queue /\ u.input = t.input /\ u.gone = t.gone /\ u.focused = t.focused /\ u.last = t.last
    /\ u.cmapped = t.cmapped /\ u.fmapped = t.fmapped /\ u.ffocused = t.ffocused
    /\ u.fsticky = t.fsticky /\ u.csticky = t.csticky

LEMMA SameTells ==
    ASSUME NEW t, NEW u, Heard(t), SameFocus(t, u)
    PROVE  Tells(t, u)
  BY DEF SameFocus, Heard, Plain, HasInput, Tells, Dims, Told

LEMMA FieldFocus ==
    ASSUME NEW t, DOMAIN t = Fields, NEW v
    PROVE  /\ SameFocus(t, [t EXCEPT !.kids = v]) /\ SameFocus(t, [t EXCEPT !.child = v])
           /\ SameFocus(t, [t EXCEPT !.parent = v]) /\ SameFocus(t, [t EXCEPT !.fws = v])
           /\ SameFocus(t, [t EXCEPT !.ficon = v])
           /\ SameFocus(t, [t EXCEPT !.cws = v]) /\ SameFocus(t, [t EXCEPT !.cicon = v])
           /\ SameFocus(t, [t EXCEPT !.transient = v])
           /\ SameFocus(t, [t EXCEPT !.mru = v])
           /\ SameFocus(t, [t EXCEPT !.wolist = v]) /\ SameFocus(t, [t EXCEPT !.active = v])
           /\ SameFocus(t, [t EXCEPT !.size = v])
  BY DEF SameFocus, Fields

(* An event that does not say where the focus is. *)
LEMMA PostTells ==
    ASSUME NEW t, Formed(t), Heard(t), NEW e \in Events, e.type # "FocusIn",
           e.type = "Unmapped" => e.window # t.input
    PROVE  Tells(t, Post(t, e))
  <1> DEFINE u == Post(t, e)
  <1>1. /\ \A w : Told(u, w) <=> Told(t, w)
        /\ u.queue = Append(t.queue, e)
    <2>1. \A w : e # FocusIn(w)
      BY DEF FocusIn
    <2> QED BY <2>1, PostTold
  <1>2. /\ u.input = t.input /\ u.gone = t.gone /\ u.focused = t.focused /\ u.last = t.last
        /\ u.cmapped = t.cmapped /\ u.fmapped = t.fmapped /\ u.ffocused = t.ffocused
        /\ u.fsticky = t.fsticky /\ u.csticky = t.csticky
    BY PostTold DEF Fields
  <1>3. Agree(u.queue, u.input)
    BY <1>1, <1>2, AgreeAppend DEF Heard, Formed
  <1> HIDE DEF u
  <1>4. Tells(t, u)
    BY <1>1, <1>2, <1>3 DEF Tells, Heard, Plain, HasInput, Dims
  <1> QED BY <1>4 DEF u

(* The focus goes to a window that is shown, whatever was said before.     *)
LEMMA SentTells ==
    ASSUME NEW t, Formed(t), Plain(t), NEW w \in Clients \cup {Root},
           w \in Clients => t.cmapped[w] /\ w \notin t.gone
    PROVE  LET u == Post([t EXCEPT !.input = w], FocusIn(w))
           IN  Tells(t, u) /\ u.input = w /\ Told(u, w)
  <1> DEFINE v == [t EXCEPT !.input = w]
             e == FocusIn(w)
             u == Post(v, e)
  <1>1. /\ Formed(v) /\ v.queue = t.queue /\ v.input = w /\ v.gone = t.gone /\ v.focused = t.focused /\ v.last = t.last
        /\ v.cmapped = t.cmapped /\ v.fmapped = t.fmapped /\ v.ffocused = t.ffocused
        /\ v.fsticky = t.fsticky /\ v.csticky = t.csticky
    BY DEF Formed, Fields
  <1> HIDE DEF v
  <1>2. e \in Events
    BY EventTypes
  <1>3. /\ \A x : Told(u, x) <=> Told(v, x) \/ e = FocusIn(x)
        /\ u.queue = Append(v.queue, e)
    BY <1>1, <1>2, PostTold
  <1>4. /\ u.input = w /\ u.gone = t.gone /\ u.focused = t.focused /\ u.last = t.last
        /\ u.cmapped = t.cmapped /\ u.fmapped = t.fmapped /\ u.ffocused = t.ffocused
        /\ u.fsticky = t.fsticky /\ u.csticky = t.csticky
    BY <1>1, <1>2, PostTold DEF Fields
  <1>5. Agree(u.queue, w)
    BY <1>1, <1>3, AgreeFocus DEF Formed
  <1>6. Told(u, w) /\ \A x : Told(t, x) => Told(u, x)
    BY <1>1, <1>3 DEF Told
  <1> HIDE DEF u
  <1>7. Heard(u)
    BY <1>4, <1>5 DEF Heard, Plain, HasInput
  <1>8. Dims(t, u)
    BY <1>4, <1>6 DEF Dims
  <1> QED BY <1>4, <1>6, <1>7, <1>8 DEF Tells, u, v

LEMMA XSetInputFocusTells ==
    ASSUME NEW t, Formed(t), Heard(t), NEW w \in Clients \cup {Root}
    PROVE  Tells(t, XSetInputFocus(t, w))
  <1>1. CASE t.input # w /\ (w = Root \/ Viewable(t, w))
    <2>1. w \in Clients => w # Root
      BY WmAssumption
    <2>2. w \in Clients => t.cmapped[w] /\ w \notin t.gone
      BY <1>1, <2>1 DEF Viewable
    <2>3. Tells(t, Post([t EXCEPT !.input = w], FocusIn(w)))
      BY <2>2, SentTells DEF Heard
    <2> QED BY <1>1, <2>3 DEF XSetInputFocus
  <1>2. CASE ~ (t.input # w /\ (w = Root \/ Viewable(t, w)))
    BY <1>2, TellsItself DEF XSetInputFocus
  <1> QED BY <1>1, <1>2

(* The window c is unmapped; t may be a state in which it still has the    *)
(* focus although it is not marked as mapped any more.                     *)
LEMMA XUnmapWindowTells ==
    ASSUME NEW t, Formed(t), Plain(t), NEW c \in Clients,
           t.input # c => Heard(t), t.input = c => c \notin t.gone
    PROVE  Tells(t, XUnmapWindow(t, c)) /\ XUnmapWindow(t, c).input # c
  <1> DEFINE e == Unmapped(c)
             u == Post(t, e)
             v == Post([u EXCEPT !.input = Root], FocusIn(Root))
  <1>1. e \in Events /\ e.type = "Unmapped" /\ e.window = c /\ c # Root
    BY EventTypes, WmAssumption DEF Unmapped
  <1>2. XUnmapWindow(t, c) = IF c \in t.gone THEN t ELSE IF u.input = c THEN v ELSE u
    BY DEF XUnmapWindow, LoseInput
  <1>3. /\ u.input = t.input /\ u.gone = t.gone /\ u.focused = t.focused /\ u.last = t.last
        /\ u.cmapped = t.cmapped /\ u.fmapped = t.fmapped /\ u.ffocused = t.ffocused
        /\ u.fsticky = t.fsticky /\ u.csticky = t.csticky
    BY <1>1, PostTold DEF Fields
  <1>4. Formed(u) /\ \A x : Told(t, x) => Told(u, x)
    BY <1>1, PostKeeps, KeepsForm, PostTold
  <1>5. CASE t.input # c
    <2>1. Tells(t, u) /\ Tells(t, t)
      BY <1>1, <1>5, PostTells, TellsItself
    <2> HIDE DEF u, v
    <2> QED BY <1>2, <1>3, <1>5, <2>1
  <1>6. CASE t.input = c
    <2>1. Plain(u)
      <3> HIDE DEF u
      <3> QED BY <1>3 DEF Plain
    <2>2. Root \notin Clients
      BY WmAssumption
    <2> HIDE DEF u
    <2>3. Tells(u, v) /\ v.input = Root /\ Told(v, Root)
      BY <1>4, <2>1, <2>2, SentTells
    <2> HIDE DEF v
    <2>4. Tells(t, v)
      BY <1>3, <1>4, <2>3 DEF Tells, Dims
    <2> QED BY <1>1, <1>2, <1>3, <1>6, <2>3, <2>4
  <1> QED BY <1>5, <1>6

(* Giving the focus. *)
LEMMA GiveFocusTells ==
    ASSUME NEW t, Formed(t), Heard(t)
    PROVE  /\ \A c \in Clients : Tells(t, GiveClientFocus(t, c))
           /\ \A f : t.child[f] \in Clients => Tells(t, GiveFrameFocus(t, f))
           /\ Fronted(t) /\ t.mru \in Seq(Frames) => \A f : Tells(t, FindWOAndFocus(t, f))
  <1>1. \A c \in Clients : Tells(t, GiveClientFocus(t, c))
    BY XSetInputFocusTells, TellsItself DEF GiveClientFocus
  <1>2. \A f : t.child[f] \in Clients => Tells(t, GiveFrameFocus(t, f))
    BY <1>1, XSetInputFocusTells DEF GiveFrameFocus
  <1>3. ASSUME Fronted(t), t.mru \in Seq(Frames), NEW search
        PROVE  Tells(t, FindWOAndFocus(t, search))
    <2> DEFINE usable == {f \in Frames : Exists(t, f) /\ t.fmapped[f]}
               recent == Sieve(t.mru, usable)
    <2>1. recent \in Seq(Frames) /\ ToSet(recent) = ToSet(t.mru) \cap usable
      BY <1>3, SieveElements
    <2>2. recent # <<>> => recent[Len(recent)] \in usable
      <3> HIDE DEF recent, usable
      <3>1. recent # <<>> => Last(recent) \in ToSet(recent)
        BY <2>1, ToSetOfSeq
      <3> QED BY <2>1, <3>1 DEF Last
    <2>3. \A f \in usable : t.child[f] \in Clients
      BY <1>3 DEF Fronted
    <2>4. FindWOAndFocus(t, search) =
            IF search \in usable THEN GiveFrameFocus(t, search)
            ELSE IF recent # <<>> THEN GiveFrameFocus(t, recent[Len(recent)])
            ELSE IF t.focused = None THEN XSetInputFocus(t, Root)
            ELSE t
      BY DEF FindWOAndFocus
    <2> HIDE DEF usable, recent
    <2>5. Tells(t, t) /\ Tells(t, XSetInputFocus(t, Root))
      BY XSetInputFocusTells, TellsItself
    <2> QED BY <1>2, <2>2, <2>3, <2>4, <2>5
  <1> QED BY <1>1, <1>2, <1>3

(* A frame is no longer drawn as focused. *)
LEMMA SetFocusedTells ==
    ASSUME NEW t, Formed(t), Heard(t), NEW wo
    PROVE  Tells(t, SetFocused(t, wo, FALSE))
  <1> DEFINE m == [t.ffocused EXCEPT ![t.parent[wo]] = FALSE]
             u == [t EXCEPT !.ffocused = m]
  <1>1. [t EXCEPT !.ffocused[t.parent[wo]] = FALSE] = u
    OBVIOUS
  <1>2. m \in [Frames -> BOOLEAN] /\ \A f \in Frames : m[f] => t.ffocused[f]
    BY DEF Heard, Plain
  <1> HIDE DEF m
  <1>3. /\ u.queue = t.queue /\ u.input = t.input /\ u.gone = t.gone /\ u.focused = t.focused /\ u.last = t.last
        /\ u.cmapped = t.cmapped /\ u.fmapped = t.fmapped /\ u.ffocused = m
        /\ u.fsticky = t.fsticky /\ u.csticky = t.csticky
    BY DEF Formed, Fields
  <1> HIDE DEF u
  <1>4. Tells(t, u)
    BY <1>2, <1>3 DEF Tells, Heard, Plain, HasInput, Dims, Told
  <1> QED BY <1>1, <1>4, TellsItself DEF SetFocused

(* Clients and frames that are mapped. *)
LEMMA ClientMappedTells ==
    ASSUME NEW t, DOMAIN t = Fields, Heard(t), NEW c
    PROVE  Tells(t, [t EXCEPT !.cmapped[c] = TRUE])
  <1> DEFINE m == [t.cmapped EXCEPT ![c] = TRUE]
             u == [t EXCEPT !.cmapped = m]
  <1>1. [t EXCEPT !.cmapped[c] = TRUE] = u
    OBVIOUS
  <1>2. m \in [Clients -> BOOLEAN] /\ \A d \in Clients : t.cmapped[d] => m[d]
    BY DEF Heard, Plain
  <1> HIDE DEF m
  <1>3. /\ u.queue = t.queue /\ u.input = t.input /\ u.gone = t.gone /\ u.focused = t.focused /\ u.last = t.last
        /\ u.cmapped = m /\ u.fmapped = t.fmapped /\ u.ffocused = t.ffocused
        /\ u.fsticky = t.fsticky /\ u.csticky = t.csticky
    BY DEF Fields
  <1> HIDE DEF u
  <1>4. Tells(t, u)
    BY <1>2, <1>3 DEF Tells, Heard, Plain, HasInput, Dims, Told
  <1> QED BY <1>1, <1>4

LEMMA FrameMappedTells ==
    ASSUME NEW t, DOMAIN t = Fields, Heard(t), NEW f
    PROVE  Tells(t, [t EXCEPT !.fmapped[f] = TRUE])
  <1> DEFINE m == [t.fmapped EXCEPT ![f] = TRUE]
             u == [t EXCEPT !.fmapped = m]
  <1>1. [t EXCEPT !.fmapped[f] = TRUE] = u
    OBVIOUS
  <1>2. m \in [Frames -> BOOLEAN] /\ \A g \in Frames : t.fmapped[g] => m[g]
    BY DEF Heard, Plain
  <1> HIDE DEF m
  <1>3. /\ u.queue = t.queue /\ u.input = t.input /\ u.gone = t.gone /\ u.focused = t.focused /\ u.last = t.last
        /\ u.cmapped = t.cmapped /\ u.fmapped = m /\ u.ffocused = t.ffocused
        /\ u.fsticky = t.fsticky /\ u.csticky = t.csticky
    BY DEF Fields
  <1> HIDE DEF u
  <1>4. Tells(t, u)
    BY <1>2, <1>3 DEF Tells, Heard, Plain, HasInput, Dims, Told
  <1> QED BY <1>1, <1>4

LEMMA ReparentTells ==
    ASSUME NEW t, Formed(t), Heard(t), NEW c \in Clients
    PROVE  Tells(t, Reparent(t, c))
  <1>1. t.input = c => c \notin t.gone
    BY DEF Heard, HasInput
  <1>2. Tells(t, XUnmapWindow(t, c))
    BY <1>1, XUnmapWindowTells DEF Heard
  <1> QED BY <1>2, TellsItself DEF Reparent

LEMMA UnmapClientTells ==
    ASSUME NEW t, Formed(t), Heard(t), NEW c \in Clients
    PROVE  Tells(t, UnmapClient(t, c))
  <1> DEFINE m == [t.cmapped EXCEPT ![c] = FALSE]
             u == [t EXCEPT !.cmapped = m]
  <1>1. UnmapClient(t, c) = IF t.cmapped[c] THEN XUnmapWindow(u, c) ELSE t
    BY DEF UnmapClient
  <1>2. m \in [Clients -> BOOLEAN] /\ \A d \in Clients \ {c} : m[d] = t.cmapped[d]
    BY DEF Heard, Plain
  <1> HIDE DEF m
  <1>3. /\ Formed(u) /\ u.queue = t.queue /\ u.input = t.input /\ u.gone = t.gone /\ u.focused = t.focused /\ u.last = t.last
        /\ u.cmapped = m /\ u.fmapped = t.fmapped /\ u.ffocused = t.ffocused
        /\ u.fsticky = t.fsticky /\ u.csticky = t.csticky
    BY DEF Formed, Fields
  <1> HIDE DEF u
  <1>4. Plain(u) /\ (u.input # c => Heard(u)) /\ (u.input = c => c \notin u.gone)
    BY <1>2, <1>3 DEF Heard, Plain, HasInput
  <1>5. Tells(u, XUnmapWindow(u, c))
    BY <1>3, <1>4, XUnmapWindowTells
  <1>6. Tells(t, XUnmapWindow(u, c))
    BY <1>3, <1>5 DEF Tells, Dims, Told
  <1> QED BY <1>1, <1>6, TellsItself

LEMMA HideFrameTells ==
    ASSUME NEW t, Formed(t), Heard(t), NEW f \in Frames
    PROVE  Tells(t, HideFrame(t, f))
  <1> DEFINE m == [t.fmapped EXCEPT ![f] = FALSE]
             n == [t.ffocused EXCEPT ![f] = FALSE]
             u == [t EXCEPT !.fmapped = m, !.ffocused = n]
  <1>1. HideFrame(t, f) = Post(u, Unmapped(None))
    BY DEF HideFrame
  <1>2. /\ m \in [Frames -> BOOLEAN] /\ n \in [Frames -> BOOLEAN]
        /\ \A g \in Frames : n[g] => t.ffocused[g] /\ (t.fmapped[g] => m[g])
    BY DEF Heard, Plain
  <1> HIDE DEF m, n
  <1>3. /\ Formed(u) /\ u.queue = t.queue /\ u.input = t.input /\ u.gone = t.gone /\ u.focused = t.focused /\ u.last = t.last
        /\ u.cmapped = t.cmapped /\ u.fmapped = m /\ u.ffocused = n
        /\ u.fsticky = t.fsticky /\ u.csticky = t.csticky
    BY DEF Formed, Fields
  <1> HIDE DEF u
  <1>4. Tells(t, u)
    BY <1>2, <1>3 DEF Tells, Heard, Plain, HasInput, Dims, Told
  <1>5. Unmapped(None) \in Events /\ Unmapped(None).type = "Unmapped" /\ Unmapped(None).window = None
    BY EventTypes DEF Unmapped
  <1>6. u.input # None
    BY <1>4, WmAssumption, TabsAssumption DEF Tells, Heard, HasInput
  <1>7. Tells(u, Post(u, Unmapped(None)))
    BY <1>3, <1>4, <1>5, <1>6, PostTells DEF Tells
  <1> QED BY <1>1, <1>4, <1>7, TellsOn

(* Both: nothing of the grouping changes, and what is told of the focus    *)
(* holds.                                                                  *)
Aware(t) == Formed(t) /\ Heard(t)
Follows(t, u) == Keeps(t, u) /\ Tells(t, u)

LEMMA FollowsItself == ASSUME NEW t, Aware(t) PROVE Follows(t, t)
  BY KeepsItself, TellsItself DEF Aware, Follows

LEMMA FollowsOn ==
    ASSUME NEW t, NEW u, NEW v, Follows(t, u), Follows(u, v)
    PROVE  Follows(t, v)
  BY KeepsOn, TellsOn DEF Follows

LEMMA FollowsAware ==
    ASSUME NEW t, NEW u, Aware(t), Follows(t, u)
    PROVE  Aware(u)
  BY KeepsForm DEF Aware, Follows, Tells

LEMMA EachBodyTells ==
    ASSUME NEW t, Aware(t), NEW e \in Calls
    PROVE  Tells(t, BodyOf(t, e).state)
  <1>1. Formed(t) /\ Heard(t) /\ DOMAIN t = Fields
    BY DEF Aware, Formed
  <1>2. ASSUME NEW c \in Clients
        PROVE  /\ Tells(t, [t EXCEPT !.cicon[c] = FALSE, !.cmapped[c] = TRUE])
               /\ Tells(t, [t EXCEPT !.cicon[c] = TRUE])
    <2> DEFINE m == [t.cicon EXCEPT ![c] = FALSE]
               n == [t.cicon EXCEPT ![c] = TRUE]
               u == [t EXCEPT !.cicon = m]
               v == [u EXCEPT !.cmapped[c] = TRUE]
               w == [t EXCEPT !.cicon = n]
    <2>1. [t EXCEPT !.cicon[c] = FALSE, !.cmapped[c] = TRUE] = v /\ [t EXCEPT !.cicon[c] = TRUE] = w
      BY <1>1 DEF Fields
    <2> HIDE DEF m, n
    <2>2. DOMAIN u = Fields /\ Tells(t, u) /\ Tells(t, w)
      BY <1>1, FieldFocus, SameTells
    <2> HIDE DEF u, w
    <2>3. Tells(u, v)
      BY <2>2, ClientMappedTells DEF Tells
    <2> HIDE DEF v
    <2> QED BY <2>1, <2>2, <2>3, TellsOn
  <1>3. ASSUME NEW f \in Frames
        PROVE  /\ Tells(t, [t EXCEPT !.fmapped[f] = TRUE, !.ficon[f] = FALSE])
               /\ Tells(t, [t EXCEPT !.ficon[f] = TRUE])
    <2> DEFINE m == [t.ficon EXCEPT ![f] = FALSE]
               n == [t.ficon EXCEPT ![f] = TRUE]
               u == [t EXCEPT !.ficon = m]
               v == [u EXCEPT !.fmapped[f] = TRUE]
               w == [t EXCEPT !.ficon = n]
    <2>1. [t EXCEPT !.fmapped[f] = TRUE, !.ficon[f] = FALSE] = v /\ [t EXCEPT !.ficon[f] = TRUE] = w
      BY <1>1 DEF Fields
    <2> HIDE DEF m, n
    <2>2. DOMAIN u = Fields /\ Tells(t, u) /\ Tells(t, w)
      BY <1>1, FieldFocus, SameTells
    <2> HIDE DEF u, w
    <2>3. Tells(u, v)
      BY <2>2, FrameMappedTells DEF Tells
    <2> HIDE DEF v
    <2> QED BY <2>1, <2>2, <2>3, TellsOn
  <1>4. \A u, q : Body(u, q).state = u
    BY DEF Body
  <1>5. \A c \in Clients : /\ Tells(t, MapClientBody(t, c).state)
                           /\ Tells(t, IconifyClientBody(t, c).state)
    <2> SUFFICES ASSUME NEW c \in Clients
                 PROVE  Tells(t, MapClientBody(t, c).state) /\ Tells(t, IconifyClientBody(t, c).state)
      OBVIOUS
    <2> DEFINE u == [t EXCEPT !.cicon[c] = FALSE, !.cmapped[c] = TRUE]
               w == [t EXCEPT !.cicon[c] = TRUE]
    <2>1. Tells(t, u) /\ Tells(t, w) /\ Tells(t, t)
      BY <1>1, <1>2, TellsItself
    <2>2. MapClientBody(t, c).state = t \/ MapClientBody(t, c).state = u
      BY <1>4 DEF MapClientBody
    <2>3. IconifyClientBody(t, c).state = t \/ IconifyClientBody(t, c).state = w
      BY <1>4 DEF IconifyClientBody
    <2> HIDE DEF u, w
    <2> QED BY <2>1, <2>2, <2>3
  <1>6. \A f \in Frames : /\ Tells(t, MapFrameBody(t, f).state) /\ Tells(t, IconifyFrameBody(t, f).state)
                          /\ Tells(t, UnmapFrameBody(t, f).state)
    <2> SUFFICES ASSUME NEW f \in Frames
                 PROVE  /\ Tells(t, MapFrameBody(t, f).state) /\ Tells(t, IconifyFrameBody(t, f).state)
                        /\ Tells(t, UnmapFrameBody(t, f).state)
      OBVIOUS
    <2> DEFINE u == [t EXCEPT !.fmapped[f] = TRUE, !.ficon[f] = FALSE]
               w == [t EXCEPT !.ficon[f] = TRUE]
    <2>1. Tells(t, u) /\ Tells(t, w) /\ Tells(t, t)
      BY <1>1, <1>3, TellsItself
    <2>2. MapFrameBody(t, f).state = t \/ MapFrameBody(t, f).state = u
      BY <1>4 DEF MapFrameBody
    <2>3. IconifyFrameBody(t, f).state = t \/ IconifyFrameBody(t, f).state = w
      BY <1>4 DEF IconifyFrameBody
    <2>4. UnmapFrameBody(t, f).state = t
      BY <1>4 DEF UnmapFrameBody
    <2> HIDE DEF u, w
    <2> QED BY <2>1, <2>2, <2>3, <2>4
  <1>7. /\ \A c \in Clients : Tells(t, UnmapClient(t, c)) /\ Tells(t, Reparent(t, c))
        /\ \A f \in Frames : Tells(t, HideFrame(t, f))
    BY <1>1, UnmapClientTells, ReparentTells, HideFrameTells
  <1>8. CASE e.name \in {"MapFrame", "IconifyFrame", "UnmapFrame", "HideFrame"} /\ e.of \in Frames
    BY <1>4, <1>6, <1>7, <1>8 DEF BodyOf
  <1>9. CASE e.name \in {"MapClient", "IconifyClient", "UnmapClient", "Reparent"} /\ e.of \in Clients
    BY <1>4, <1>5, <1>7, <1>9 DEF BodyOf
  <1> QED BY <1>8, <1>9 DEF Calls

(* The states and calls on the way. *)
OnTheWay(t, r) == Follows(t, r.state) /\ r.calls \in Seq(Calls)

LEMMA NextCallFollows ==
    ASSUME NEW t, Aware(t), NEW r, OnTheWay(t, r)
    PROVE  OnTheWay(t, NextCall(r))
  <1>1. r.calls \in Seq(Calls) /\ Aware(r.state) /\ Follows(t, r.state)
    BY FollowsAware DEF OnTheWay
  <1>2. CASE r.calls # <<>>
    <2> DEFINE b == BodyOf(r.state, Head(r.calls))
    <2>1. Head(r.calls) \in Calls /\ Tail(r.calls) \in Seq(Calls)
      BY <1>1, <1>2
    <2>2. Keeps(r.state, b.state) /\ b.calls \in Seq(Calls) /\ Tells(r.state, b.state)
      BY <1>1, <2>1, EachBodyProper, EachBodyTells DEF Proper, Aware
    <2> HIDE DEF b
    <2>3. Follows(t, b.state) /\ b.calls \o Tail(r.calls) \in Seq(Calls)
      BY <1>1, <2>1, <2>2, FollowsOn DEF Follows
    <2>4. OnTheWay(t, Body(b.state, b.calls \o Tail(r.calls)))
      BY <2>3 DEF OnTheWay, Body
    <2> QED BY <1>2, <2>4 DEF NextCall, Then, b
  <1> QED BY <1>2 DEF NextCall

LEMMA RunCallsFollows ==
    ASSUME NEW t, Aware(t), NEW q \in Seq(Calls)
    PROVE  Follows(t, RunCalls(t, q))
  <1>1. PICK g : IsRun(g, t, q, MaxCalls) /\ RunCalls(t, q) = g[MaxCalls].state
    BY RunDefined
  <1> DEFINE T == {n \in 0..MaxCalls : OnTheWay(t, g[n])}
  <1>2. g[0] = Body(t, q) /\ \A n \in 0..(MaxCalls - 1) : g[n + 1] = NextCall(g[n])
    BY <1>1, MaxCallsNat DEF IsRun, RunStep
  <1>3. 0 \in T
    <2>1. OnTheWay(t, Body(t, q))
      BY FollowsItself DEF OnTheWay, Body
    <2> QED BY <1>2, <2>1, MaxCallsNat
  <1>4. \A n \in 0..(MaxCalls - 1) : n \in T => n + 1 \in T
    BY <1>2, MaxCallsNat, NextCallFollows
  <1> HIDE DEF T
  <1>5. \A n \in 0..MaxCalls : n \in T
    BY <1>3, <1>4, MaxCallsNat, Upward
  <1>6. OnTheWay(t, g[MaxCalls])
    BY <1>5, MaxCallsNat DEF T
  <1> QED BY <1>1, <1>6 DEF OnTheWay

LEMMA MappingFollows ==
    ASSUME NEW t, Aware(t)
    PROVE  /\ \A c \in Clients : Follows(t, MapClient(t, c)) /\ Follows(t, UnmapClient(t, c))
           /\ \A f \in Frames : /\ Follows(t, MapFrame(t, f)) /\ Follows(t, UnmapFrame(t, f))
                                /\ Follows(t, IconifyFrame(t, f))
  <1>1. \A c \in Clients : <<Call("MapClient", c)>> \in Seq(Calls)
    BY CallTypes
  <1>2. \A f \in Frames : /\ <<Call("MapFrame", f)>> \in Seq(Calls) /\ <<Call("UnmapFrame", f)>> \in Seq(Calls)
                          /\ <<Call("IconifyFrame", f)>> \in Seq(Calls)
    BY CallTypes
  <1>3. \A c \in Clients : Follows(t, UnmapClient(t, c))
    BY UnmapClientKeeps, UnmapClientTells DEF Aware, Follows
  <1> QED BY <1>1, <1>2, <1>3, RunCallsFollows DEF MapClient, MapFrame, UnmapFrame, IconifyFrame

LEMMA SameFollows ==
    ASSUME NEW t, NEW u, Aware(t), Keeps(t, u), SameFocus(t, u)
    PROVE  Follows(t, u) /\ Aware(u)
  <1>1. Tells(t, u)
    BY SameTells DEF Aware
  <1> QED BY <1>1, KeepsForm DEF Aware, Follows, Tells

(* PDecor::setWorkspace, Frame::applyState, Frame::getState *)
LEMMA SetFrameWorkspaceFollows ==
    ASSUME NEW t, Aware(t), NEW f \in Frames, NEW n
    PROVE  Follows(t, SetFrameWorkspace(t, f, n))
  <1> DEFINE w == Clamp(t, n)
             here == t.fsticky[f] \/ w = t.active
             m == [c \in Clients |-> IF t.parent[c] = f THEN w ELSE t.cws[c]]
             v == [t EXCEPT !.fws[f] = w]
             u == [v EXCEPT !.cws = m]
  <1>0. DOMAIN t = Fields
    BY DEF Aware, Formed
  <1>1. [t EXCEPT !.fws[f] = w, !.cws = [c \in Clients |-> IF t.parent[c] = f THEN w ELSE @[c]]] = u
    BY <1>0 DEF Fields
  <1>2. SetFrameWorkspace(t, f, n) =
          IF ~ u.fmapped[f] /\ ~ u.ficon[f]
          THEN IF here THEN MapFrame(u, f) ELSE u
          ELSE IF here THEN u ELSE UnmapFrame(u, f)
    BY <1>1 DEF SetFrameWorkspace
  <1> HIDE DEF w, here, m
  <1>3. Keeps(t, u) /\ SameFocus(t, u)
    BY DEF Aware, Formed, Fields, Keeps, Stays, SameTree, SameLists, SameFocus
  <1> HIDE DEF u
  <1>4. Follows(t, u) /\ Aware(u)
    BY <1>3, SameFollows
  <1>5. Follows(t, MapFrame(u, f)) /\ Follows(t, UnmapFrame(u, f))
    BY <1>4, MappingFollows, FollowsOn
  <1> QED BY <1>2, <1>4, <1>5

LEMMA ApplyStateFollows ==
    ASSUME NEW t, Aware(t), NEW f \in Frames, NEW c \in Clients
    PROVE  Follows(t, ApplyState(t, f, c))
  <1> DEFINE w == Clamp(t, t.fws[f])
             b == t.fsticky[f]
             u == [t EXCEPT !.csticky[c] = b, !.cws[c] = w]
  <1>1. ApplyState(t, f, c) = IF t.fmapped[f] THEN MapClient(u, c) ELSE UnmapClient(u, c)
    BY DEF ApplyState
  <1>2. b = FALSE /\ [t.csticky EXCEPT ![c] = FALSE] = t.csticky
    BY DEF Aware, Heard, Plain
  <1>3. Keeps(t, u) /\ SameFocus(t, u)
    <2> HIDE DEF w
    <2> QED BY <1>2 DEF Aware, Formed, Fields, Keeps, Stays, SameTree, SameLists, SameFocus
  <1> HIDE DEF u
  <1>4. Follows(t, u) /\ Aware(u)
    BY <1>3, SameFollows
  <1>5. Follows(t, MapClient(u, c)) /\ Follows(t, UnmapClient(u, c))
    BY <1>4, MappingFollows, FollowsOn
  <1> QED BY <1>1, <1>5

LEMMA GetStateFollows ==
    ASSUME NEW t, Aware(t), NEW f \in Frames, NEW c \in Clients
    PROVE  Follows(t, GetState(t, f, c))
  <1> DEFINE icon == t.cicon[c]
             b == t.csticky[c]
             u == [t EXCEPT !.fsticky[f] = b]
             v == IF u.fws[f] # u.cws[c] THEN SetFrameWorkspace(u, f, u.cws[c]) ELSE u
  <1>1. GetState(t, f, c) = IF icon THEN IconifyFrame(v, f) ELSE v
    BY DEF GetState
  <1>2. b = FALSE /\ [t.fsticky EXCEPT ![f] = FALSE] = t.fsticky
    BY DEF Aware, Heard, Plain
  <1> HIDE DEF icon
  <1>3. Keeps(t, u) /\ SameFocus(t, u)
    BY <1>2 DEF Aware, Formed, Fields, Keeps, Stays, SameTree, SameLists, SameFocus
  <1> HIDE DEF u
  <1>4. Follows(t, u) /\ Aware(u)
    BY <1>3, SameFollows
  <1>5. Follows(t, v) /\ Aware(v)
    <2>1. Follows(t, v)
      BY <1>4, SetFrameWorkspaceFollows, FollowsOn
    <2> QED BY <2>1, FollowsAware
  <1> HIDE DEF v
  <1>6. Follows(t, IconifyFrame(v, f))
    BY <1>5, MappingFollows, FollowsOn
  <1> QED BY <1>1, <1>5, <1>6

(* PDecor::deiconify *)
LEMMA DeiconifyFollows ==
    ASSUME NEW t, Aware(t), NEW f \in Frames
    PROVE  Follows(t, Deiconify(t, f))
  <1> DEFINE u == IF t.fws[f] = t.active THEN MapFrame(t, f) ELSE t
             v == [u EXCEPT !.ficon[f] = FALSE]
  <1>1. Deiconify(t, f) = IF t.ficon[f] THEN v ELSE t
    BY DEF Deiconify
  <1>2. Follows(t, u) /\ Aware(u)
    <2>1. Follows(t, u)
      BY MappingFollows, FollowsItself
    <2> QED BY <2>1, FollowsAware
  <1> HIDE DEF u
  <1>3. Keeps(u, v) /\ SameFocus(u, v)
    BY <1>2 DEF Aware, Formed, Fields, Keeps, Stays, SameTree, SameLists, SameFocus
  <1> HIDE DEF v
  <1>4. Follows(t, v)
    BY <1>2, <1>3, SameFollows, FollowsOn
  <1> QED BY <1>1, <1>4, FollowsItself

(* Workspaces::hideAll and the frames of unhideAll *)
LEMMA VisitFollows ==
    ASSUME NEW t, Aware(t), NEW f \in Frames, NEW p \in {"hide", "show", "move"}, NEW n
    PROVE  Follows(t, Visit(t, p, n, f))
  <1>1. /\ Follows(t, UnmapFrame(t, f)) /\ Follows(t, MapFrame(t, f))
        /\ Follows(t, SetFrameWorkspace(t, f, n - 1)) /\ Follows(t, t)
    BY MappingFollows, SetFrameWorkspaceFollows, FollowsItself
  <1> QED BY <1>1 DEF Visit

LEMMA InTurnFollows ==
    ASSUME NEW t, Aware(t), t.wolist \in Seq(Frames), NEW p \in {"hide", "show", "move"}, NEW n
    PROVE  Follows(t, InTurn(t, p, n))
  <1> DEFINE m == Len(t.wolist)
  <1>1. m \in Nat
    OBVIOUS
  <1>2. PICK g : IsTurn(g, t, p, n, m) /\ InTurn(t, p, n) = g[m]
    BY <1>1, TurnDefined
  <1>3. \A i \in 1..m : t.wolist[i] \in Frames
    OBVIOUS
  <1> HIDE DEF m
  <1> DEFINE T == {i \in 0..m : Follows(t, g[i])}
  <1>4. g[0] = t /\ \A i \in 0..(m - 1) : g[i + 1] = Visit(g[i], p, n, t.wolist[i + 1])
    BY <1>1, <1>2 DEF IsTurn, TurnStep
  <1>5. 0 \in T
    BY <1>1, <1>4, FollowsItself
  <1>6. \A i \in 0..(m - 1) : i \in T => i + 1 \in T
    <2>1. SUFFICES ASSUME NEW i \in 0..(m - 1), Follows(t, g[i])
                   PROVE  Follows(t, g[i + 1])
      BY <1>1
    <2>2. Follows(g[i], Visit(g[i], p, n, t.wolist[i + 1]))
      BY <1>1, <1>3, <2>1, FollowsAware, VisitFollows
    <2> QED BY <1>4, <2>1, <2>2, FollowsOn
  <1> HIDE DEF T
  <1>7. \A i \in 0..m : i \in T
    BY <1>1, <1>5, <1>6, Upward
  <1>8. Follows(t, g[m])
    BY <1>1, <1>7 DEF T
  <1> QED BY <1>2, <1>8

----------------------------------------------------------------------------
(* What the manager believes of the focus, and draws of it.  With nothing  *)
(* more to be told it believes what the server does, or it has seen that   *)
(* its window is gone; a frame drawn as focused is shown, and holds the    *)
(* window believed to be focused, unless it is still to be told that its   *)
(* tab in front is or that this tab is gone.                               *)
NoWord(t) == \A w : ~ Told(t, w)

Believed(t) ==
    NoWord(t) => \/ t.focused = t.input
                 \/ t.input = Root /\ (t.focused = None \/ t.focused \in t.gone)

Minded(t) ==
    /\ t.focused \in Clients \cup {Root, None}
    /\ t.last \in [Workspaces -> Clients \cup {Root, None}]

Known(t) == Heard(t) /\ Minded(t) /\ Believed(t)

Holds(t, f) ==
    \/ t.focused \in Clients /\ t.parent[t.focused] = f
    \/ Told(t, t.child[f]) \/ t.child[f] \in t.gone

Lit(t, X) == \A f \in Frames \ X : t.ffocused[f] => t.fmapped[f] /\ Holds(t, f)

Sees(t, u) == Known(u) /\ \A X : Lit(t, X) => Lit(u, X)

LEMMA SeesOn ==
    ASSUME NEW t, NEW u, NEW v, Sees(t, u), Sees(u, v)
    PROVE  Sees(t, v)
  BY DEF Sees

LEMMA SeesItself == ASSUME NEW t, Known(t) PROVE Sees(t, t)
  BY DEF Sees

LEMMA LitMore ==
    ASSUME NEW t, NEW X, NEW Y, X \subseteq Y, Lit(t, X)
    PROVE  Lit(t, Y)
  BY DEF Lit

LEMMA KnownTells ==
    ASSUME NEW t, NEW u, Known(t), Tells(t, u), u.gone = t.gone
    PROVE  Known(u)
  BY DEF Known, Tells, Dims, Minded, Believed, NoWord

(* The frames of X may be changed, the others stay as they are. *)
LEMMA LitTells ==
    ASSUME NEW t, NEW u, NEW X, Lit(t, X), Tells(t, u), u.gone = t.gone,
           \A f \in Frames \ X :
             /\ u.child[f] = t.child[f]
             /\ \A c \in Clients : t.parent[c] = f => u.parent[c] = f
    PROVE  Lit(u, X)
  <1> SUFFICES ASSUME NEW f \in Frames \ X, u.ffocused[f]
               PROVE  u.fmapped[f] /\ Holds(u, f)
    BY DEF Lit
  <1>1. t.ffocused[f] /\ (t.fmapped[f] => u.fmapped[f])
    BY DEF Tells, Dims
  <1>2. t.fmapped[f] /\ Holds(t, f)
    BY <1>1 DEF Lit
  <1>3. u.focused = t.focused /\ u.last = t.last /\ \A w : Told(t, w) => Told(u, w)
    BY DEF Tells, Dims
  <1>4. Holds(u, f)
    BY <1>2, <1>3 DEF Holds
  <1> QED BY <1>1, <1>2, <1>4

LEMMA SeesTells ==
    ASSUME NEW t, NEW u, Known(t), Tells(t, u), u.gone = t.gone, u.child = t.child,
           u.parent = t.parent
    PROVE  Sees(t, u)
  BY KnownTells, LitTells DEF Sees

LEMMA SeesFollows ==
    ASSUME NEW t, NEW u, Known(t), Follows(t, u)
    PROVE  Sees(t, u)
  BY SeesTells DEF Follows, Keeps, Stays, SameTree

(* Where the focus is said to be at last, it is. *)
LEMMA ToldInput ==
    ASSUME NEW t, Formed(t), Heard(t), ~ NoWord(t)
    PROVE  Told(t, t.input)
  <1> DEFINE q == t.queue
             n == Len(q)
             T == {i \in 1..n : q[i].type = "FocusIn"}
  <1>1. n \in Nat /\ DOMAIN q = 1..n /\ \A i \in 1..n : q[i] \in Events
    BY LenProperties, ElementOfSeq DEF Formed
  <1>2. T # {}
    <2>1. \A w : FocusIn(w).type = "FocusIn"
      BY DEF FocusIn
    <2> QED BY <1>1, <2>1 DEF NoWord, Told
  <1>3. T \subseteq 0..n
    BY <1>1
  <1> HIDE DEF q, n
  <1>4. PICK m \in T : \A k \in T : k <= m
    <2> HIDE DEF T
    <2> QED BY <1>1, <1>2, <1>3, Greatest
  <1>5. m \in 1..n /\ q[m].type = "FocusIn" /\ \A j \in 1..n : m < j => q[j].type # "FocusIn"
    BY <1>1, <1>4
  <1>6. Latest(q, m)
    BY <1>1, <1>5 DEF Latest
  <1>7. q[m].window = t.input
    BY <1>1, <1>5, <1>6 DEF Heard, Agree, q
  <1>8. q[m] = FocusIn(q[m].window)
    BY <1>1, <1>5 DEF Events, FocusIn
  <1> QED BY <1>1, <1>5, <1>7, <1>8 DEF Told, q

(* The tab in front of a frame gets the focus: this frame holds it then.   *)
LEMMA FocusGiven ==
    ASSUME NEW t, Formed(t), Known(t), NEW c \in Clients, NEW f \in Frames,
           t.parent[c] = f, t.child[f] = c, t.cmapped[c], t.fmapped[f]
    PROVE  LET u == GiveClientFocus(t, c)
           IN  Sees(t, u) /\ Keeps(t, u) /\ \A X : Lit(t, X) => Lit(u, X \ {f})
  <1> DEFINE v == Post([t EXCEPT !.input = c], FocusIn(c))
             u == GiveClientFocus(t, c)
  <1>1. Tells(t, u) /\ Keeps(t, u)
    BY GiveFocusTells, GiveClientFocusKeeps DEF Known
  <1>2. u.gone = t.gone /\ u.child = t.child /\ u.parent = t.parent
    BY <1>1 DEF Keeps, Stays, SameTree
  <1>3. c # Root /\ IsManaged(t, c)
    BY WmAssumption, TabsAssumption DEF IsManaged
  <1>4. u = IF t.input # c /\ Viewable(t, c) THEN v ELSE t
    BY <1>3 DEF GiveClientFocus, XSetInputFocus
  <1>5. Holds(u, f) /\ u.fmapped[f]
    <2>1. CASE t.input # c /\ Viewable(t, c)
      <3>1. Told(v, c)
        BY <2>1, SentTells DEF Viewable, Known, Heard
      <3>2. v.fmapped = t.fmapped
        BY DEF Post, Formed, Fields
      <3> HIDE DEF v
      <3> QED BY <1>2, <1>4, <2>1, <3>1, <3>2 DEF Holds
    <2>2. CASE t.input # c /\ ~ Viewable(t, c)
      <3>1. c \in t.gone
        BY <1>3, <2>2 DEF Viewable
      <3> QED BY <1>4, <2>2, <3>1 DEF Holds
    <2>3. CASE t.input = c
      <3>1. Told(t, c) \/ t.focused = c
        BY <1>3, <2>3, ToldInput DEF Known, Believed
      <3> QED BY <1>4, <2>3, <3>1 DEF Holds
    <2> QED BY <2>1, <2>2, <2>3
  <1> HIDE DEF u
  <1>6. Sees(t, u)
    BY <1>1, <1>2, SeesTells
  <1>7. \A X : Lit(t, X) => Lit(u, X \ {f})
    BY <1>5, <1>6 DEF Sees, Lit
  <1> QED BY <1>1, <1>6, <1>7 DEF u

LEMMA FrontFocused ==
    ASSUME NEW t, Steady(t), Known(t), NEW f \in Frames, t.fmapped[f]
    PROVE  LET u == GiveFrameFocus(t, f)
           IN  Sees(t, u) /\ Keeps(t, u) /\ \A X : Lit(t, X) => Lit(u, X \ {f})
  <1>1. Exists(t, f) /\ t.child[f] \in Clients /\ t.cmapped[t.child[f]]
    BY DEF Steady, Tabbed
  <1>2. t.parent[t.child[f]] = f /\ Formed(t)
    BY <1>1 DEF Steady, Faced
  <1> QED BY <1>1, <1>2, FocusGiven DEF GiveFrameFocus

(* What changes the grouping tells of the focus as well. *)
LEMMA TabsTell ==
    ASSUME NEW t, DOMAIN t = Fields, Heard(t), NEW f, NEW c
    PROVE  /\ Tells(t, PutInFront(t, f, c)) /\ Tells(t, AddChild(t, f, c))
           /\ Tells(t, DropChild(t, c))
  <1>1. SameFocus(t, PutInFront(t, f, c))
    BY DEF PutInFront, SameFocus, Fields
  <1>2. SameFocus(t, AddChild(t, f, c))
    BY DEF AddChild, SameFocus, Fields
  <1>3. SameFocus(t, DropChild(t, c))
    <2> DEFINE g == t.parent[c]
               q == RemoveAt(t.kids[g], Position(t.kids[g], c))
    <2>1. DropChild(t, c) = [t EXCEPT !.kids[g] = q, !.parent[c] = None]
      BY DEF DropChild
    <2> HIDE DEF g, q
    <2> QED BY <2>1 DEF SameFocus, Fields
  <1> QED BY <1>1, <1>2, <1>3, SameTells

LEMMA AddToFrameTells ==
    ASSUME NEW t, Formed(t), Heard(t), NEW f, NEW c \in Clients
    PROVE  Tells(t, AddToFrame(t, f, c))
  <1> DEFINE u == Reparent(t, c)
  <1>1. Tells(t, u) /\ Formed(u)
    BY ReparentTells, ReparentKeeps, KeepsForm
  <1> HIDE DEF u
  <1>2. Tells(u, AddChild(u, f, c))
    BY <1>1, TabsTell DEF Tells, Formed
  <1> QED BY <1>1, <1>2, TellsOn DEF AddToFrame, u

LEMMA ActivateChildTells ==
    ASSUME NEW t, Formed(t), Heard(t), NEW f \in Frames, NEW c \in Clients
    PROVE  Tells(t, ActivateChild(t, f, c))
  <1> DEFINE w == IF t.child[f] = c THEN t ELSE ApplyState(t, f, c)
             u == PutInFront(w, f, c)
  <1>1. Keeps(t, w) /\ Formed(w) /\ Tells(t, w)
    BY ApplyStateFollows, FollowsItself, KeepsForm DEF Follows, Aware
  <1>2. ActivateChild(t, f, c) = IF u.ffocused[f] THEN GiveClientFocus(u, c) ELSE u
    BY DEF ActivateChild
  <1> HIDE DEF w
  <1>3. Tells(t, u)
    BY <1>1, TabsTell, TellsOn DEF Tells, Formed
  <1>4. Formed(u)
    BY <1>1 DEF Formed, Fields, PutInFront
  <1> HIDE DEF u
  <1>5. Tells(u, GiveClientFocus(u, c))
    BY <1>3, <1>4, GiveFocusTells DEF Tells
  <1> QED BY <1>2, <1>3, <1>5, TellsOn

LEMMA DeleteFrameTells ==
    ASSUME NEW t, Formed(t), Heard(t), NEW f \in Frames
    PROVE  Tells(t, DeleteFrame(t, f)) /\ ~ DeleteFrame(t, f).ffocused[f]
  <1> DEFINE v == IF t.fmapped[f] THEN Post(t, Unmapped(None)) ELSE t
             others(q) == Sieve(q, Frames \ {f})
             w == [v EXCEPT !.wolist = others(@), !.mru = others(@), !.child[f] = None]
             no == FALSE
             zero == 0
             m == [v.fmapped EXCEPT ![f] = FALSE]
             n == [v.ffocused EXCEPT ![f] = FALSE]
             k == [v.fsticky EXCEPT ![f] = FALSE]
             x == [w EXCEPT !.fws[f] = zero, !.fmapped = m, !.ficon[f] = no]
             u == [x EXCEPT !.fsticky = k, !.ffocused = n]
  <1>1. DeleteFrame(t, f) = u
    BY DEF DeleteFrame
  <1>2. Tells(t, v) /\ DOMAIN v = Fields
    <2>1. Unmapped(None) \in Events /\ Unmapped(None).type = "Unmapped" /\ Unmapped(None).window = None
      BY EventTypes DEF Unmapped
    <2>2. t.input # None
      BY WmAssumption, TabsAssumption DEF Heard, HasInput
    <2>3. Tells(t, Post(t, Unmapped(None))) /\ DOMAIN Post(t, Unmapped(None)) = Fields
      BY <2>1, <2>2, PostTells, PostKeeps, KeepsForm DEF Formed
    <2> QED BY <2>3, TellsItself DEF Formed
  <1> HIDE DEF v
  <1>3. /\ m \in [Frames -> BOOLEAN] /\ n \in [Frames -> BOOLEAN] /\ ~ n[f] /\ k = v.fsticky
        /\ \A g \in Frames : n[g] => v.ffocused[g] /\ (v.fmapped[g] => m[g])
    BY <1>2 DEF Tells, Heard, Plain
  <1> HIDE DEF m, n, k, no, zero
  <1>4. SameFocus(v, w) /\ DOMAIN w = Fields
    <2> HIDE DEF others
    <2> QED BY <1>2 DEF Fields, SameFocus
  <1> HIDE DEF w
  <1>5. /\ DOMAIN x = Fields /\ x.queue = w.queue /\ x.input = w.input /\ x.gone = w.gone
        /\ x.focused = w.focused /\ x.last = w.last /\ x.cmapped = w.cmapped /\ x.fmapped = m
        /\ x.ffocused = w.ffocused /\ x.fsticky = w.fsticky /\ x.csticky = w.csticky
    BY <1>4 DEF Fields
  <1> HIDE DEF x
  <1>6. /\ u.queue = x.queue /\ u.input = x.input /\ u.gone = x.gone
        /\ u.focused = x.focused /\ u.last = x.last /\ u.cmapped = x.cmapped /\ u.fmapped = x.fmapped
        /\ u.ffocused = n /\ u.fsticky = k /\ u.csticky = x.csticky
    BY <1>5 DEF Fields
  <1> HIDE DEF u
  <1>7. /\ u.queue = v.queue /\ u.input = v.input /\ u.gone = v.gone
        /\ u.focused = v.focused /\ u.last = v.last /\ u.cmapped = v.cmapped /\ u.fmapped = m
        /\ u.ffocused = n /\ u.fsticky = v.fsticky /\ u.csticky = v.csticky
    BY <1>3, <1>4, <1>5, <1>6 DEF SameFocus
  <1>8. Tells(v, u)
    BY <1>2, <1>3, <1>7 DEF Tells, Heard, Plain, HasInput, Dims, Told
  <1> QED BY <1>1, <1>2, <1>3, <1>7, <1>8, TellsOn

LEMMA LeftTells ==
    ASSUME NEW t, Formed(t), Heard(t), NEW c \in Clients
    PROVE  Tells(t, Left(t, c))
  <1> DEFINE u == Reparent(t, c)
  <1>1. Tells(t, u) /\ Formed(u)
    BY ReparentTells, ReparentKeeps, KeepsForm
  <1> HIDE DEF u
  <1>2. Tells(u, DropChild(u, c))
    BY <1>1, TabsTell DEF Tells, Formed
  <1> QED BY <1>1, <1>2, TellsOn DEF Left, u

LEMMA RemoveFromFrameTells ==
    ASSUME NEW t, Right(t), Heard(t), NEW c \in Clients, IsManaged(t, c)
    PROVE  Tells(t, RemoveFromFrame(t, c))
  <1> DEFINE d == Left(t, c)
             f == t.parent[c]
             n == NextTab(t, c)
  <1>1. Tells(t, d) /\ Formed(d) /\ f \in Frames
    BY LeftTells, LeftTaken, RightIs DEF Taken, LiveIn
  <1>2. Len(t.kids[f]) # 1 => n \in Clients
    BY NextTabSits
  <1>3. RemoveFromFrame(t, c) = IF Len(t.kids[f]) = 1 THEN DeleteFrame(d, f)
                                ELSE IF t.child[f] = c THEN ActivateChild(d, f, n) ELSE d
    BY RemoveFromFrameIs
  <1> HIDE DEF d, f, n
  <1>4. Tells(d, DeleteFrame(d, f)) /\ (n \in Clients => Tells(d, ActivateChild(d, f, n)))
    BY <1>1, DeleteFrameTells, ActivateChildTells DEF Tells
  <1> QED BY <1>1, <1>2, <1>3, <1>4, TellsOn

LEMMA RaiseTells ==
    ASSUME NEW t, DOMAIN t = Fields, Heard(t), NEW f
    PROVE  Tells(t, Raise(t, f))
  <1>1. SameFocus(t, Raise(t, f))
    BY DEF Raise, SameFocus, Fields
  <1> QED BY <1>1, SameTells

LEMMA OpenFrameTells ==
    ASSUME NEW t, Right(t), Heard(t), NEW c \in Clients, ~ IsManaged(t, c),
           NEW f \in Frames \ LiveIn(t)
    PROVE  Tells(t, OpenFrame(t, f, c))
  <1> DEFINE a == AddToFrame(t, f, c)
             u == PutInFront(a, f, c)
             v == Opened(t, f, c)
             w == GetState(v, f, c)
  <1>1. Tells(t, a) /\ DOMAIN a = Fields
    BY AddToFrameTells, AddToFrameLook, LookFields DEF Right, Formed
  <1>2. v = [u EXCEPT !.mru = <<f>> \o @, !.wolist = Append(@, f)]
    BY DEF Opened
  <1> HIDE DEF a
  <1>3. Tells(t, u) /\ DOMAIN u = Fields
    BY <1>1, TabsTell, TellsOn, TabsLook, LookFields DEF Tells
  <1> HIDE DEF u
  <1>4. SameFocus(u, v)
    <2> HIDE DEF v
    <2> QED BY <1>2, <1>3 DEF SameFocus, Fields
  <1>5. Formed(v)
    BY FrameOpened DEF Becomes, Right
  <1>6. OpenFrame(t, f, c) = SetFrameWorkspace(w, f, w.cws[c])
    BY OpenFrameIs
  <1> HIDE DEF v
  <1>7. Tells(t, v) /\ Aware(v)
    BY <1>3, <1>4, <1>5, SameTells, TellsOn DEF Tells, Aware
  <1>8. Follows(v, w) /\ Aware(w)
    BY <1>7, GetStateFollows, FollowsAware
  <1> HIDE DEF w
  <1>9. Follows(w, SetFrameWorkspace(w, f, w.cws[c]))
    BY <1>8, SetFrameWorkspaceFollows
  <1> QED BY <1>6, <1>7, <1>8, <1>9, TellsOn DEF Follows

(* All is well but that the frame f may hold the wrong window. *)
Nearly(t, f) == Lit(t, {f}) /\ (t.ffocused[f] => t.fmapped[f])

LEMMA NearlyLit ==
    ASSUME NEW t, NEW f \in Frames, Lit(t, {})
    PROVE  Nearly(t, f)
  BY DEF Lit, Nearly

LEMMA Unlit ==
    ASSUME NEW t, NEW f, Lit(t, {f}), ~ t.ffocused[f]
    PROVE  Lit(t, {})
  BY DEF Lit

(* A tab that comes to the front of a frame drawn as focused gets the      *)
(* focus.                                                                  *)
LEMMA ActivateChildLit ==
    ASSUME NEW t, Formed(t), Housed(t), Known(t), NEW X, Tabbed(t, X), NEW f \in Frames,
           NEW c \in Clients, t.parent[c] = f, c \notin X,
           \A g \in Frames : t.fmapped[g] /\ t.child[g] = c => g = f
    PROVE  LET u == ActivateChild(t, f, c)
           IN  /\ Known(u) /\ u.gone = t.gone /\ u.focused = t.focused
               /\ Nearly(t, f) => Lit(u, {})
  <1> DEFINE w == IF t.child[f] = c THEN t ELSE ApplyState(t, f, c)
             u == PutInFront(w, f, c)
             a == ActivateChild(t, f, c)
             v == GiveClientFocus(u, c)
  <1>1. Keeps(t, w) /\ Formed(w) /\ Housed(w) /\ Tells(t, w)
    <2>1. Follows(t, w)
      BY ApplyStateFollows, FollowsItself DEF Aware, Known
    <2> QED BY <2>1, KeepsForm, KeepsHoused DEF Follows, Keeps
  <1>2. a = IF u.ffocused[f] THEN v ELSE u
    BY DEF ActivateChild
  <1>3. Tabbed(a, X)
    BY ActivateChildTabs
  <1> HIDE DEF w, a
  <1>4. Tells(t, u)
    BY <1>1, TabsTell, TellsOn DEF Tells, Formed
  <1>5. /\ Formed(u) /\ u.gone = w.gone /\ u.parent = w.parent
        /\ u.child = [w.child EXCEPT ![f] = c]
    BY <1>1 DEF Formed, Fields, PutInFront
  <1>6. /\ w.gone = t.gone /\ w.parent = t.parent /\ w.child = t.child
        /\ w.child \in [Frames -> Clients \cup {None}]
    BY <1>1 DEF Keeps, Stays, SameTree, Housed
  <1>7. u.gone = t.gone /\ u.parent = t.parent /\ u.child[f] = c /\ \A g \in Frames \ {f} : u.child[g] = t.child[g]
    BY <1>5, <1>6
  <1> HIDE DEF u
  <1>8. Known(u)
    BY <1>4, <1>7, KnownTells
  <1>9. Tells(u, v) /\ Keeps(u, v) /\ SameLook(u, v)
    BY <1>5, <1>8, GiveFocusTells, GiveClientFocusKeeps, FocusLook DEF Known, Formed
  <1>10. Known(v) /\ v.gone = u.gone /\ v.focused = u.focused
    BY <1>8, <1>9, KnownTells DEF Keeps, Stays, Tells, Dims
  <1>11. u.focused = t.focused
    BY <1>4 DEF Tells, Dims
  <1>12. ASSUME Nearly(t, f) PROVE Lit(a, {})
    <2>1. Lit(u, {f})
      BY <1>4, <1>7, <1>12, LitTells DEF Nearly
    <2>2. CASE ~ u.ffocused[f]
      BY <1>2, <2>1, <2>2, Unlit
    <2>3. CASE u.ffocused[f]
      <3>1. u.fmapped[f]
        BY <1>4, <1>12, <2>3 DEF Tells, Dims, Nearly
      <3>2. u.cmapped[c]
        <4>1. a = v /\ v.cmapped = u.cmapped /\ v.fmapped = u.fmapped /\ v.child = u.child
          BY <1>2, <1>9, <2>3 DEF SameLook, SameFlags, Keeps, SameTree
        <4> HIDE DEF v
        <4> QED BY <1>3, <1>7, <3>1, <4>1 DEF Tabbed
      <3>3. \A Y : Lit(u, Y) => Lit(v, Y \ {f})
        BY <1>5, <1>7, <1>8, <3>1, <3>2, FocusGiven
      <3>4. Lit(v, {f} \ {f}) /\ {f} \ {f} = {}
        BY <2>1, <3>3
      <3> QED BY <1>2, <2>3, <3>4
    <2> QED BY <2>2, <2>3
  <1> HIDE DEF v
  <1> QED BY <1>2, <1>7, <1>8, <1>10, <1>11, <1>12 DEF a

(* A client leaves its frame, which holds no wrong window after that but   *)
(* when the client was the one believed to be focused.                     *)
LEMMA RemovedLit ==
    ASSUME NEW t, Right(t), Tabbed(t, {}), Known(t), NEW c \in Clients, IsManaged(t, c)
    PROVE  LET u == RemoveFromFrame(t, c)
               f == t.parent[c]
           IN  /\ Known(u) /\ u.gone = t.gone /\ u.focused = t.focused
               /\ Lit(t, {}) => /\ Nearly(u, f)
                                /\ t.focused # c \/ ~ t.ffocused[f] => Lit(u, {})
  <1> DEFINE f == t.parent[c]
             d == Left(t, c)
             n == NextTab(t, c)
             u == RemoveFromFrame(t, c)
             w == DeleteFrame(d, f)
             a == ActivateChild(d, f, n)
  <1>1. Taken(t, d, f, c) /\ f \in Frames /\ Faced(t) /\ Housed(t) /\ Tells(t, d) /\ Tells(t, u)
    BY LeftTaken, RightFaced, RightIs, LeftTells, RemoveFromFrameTells DEF LiveIn, Known
  <1>2. u = IF Len(t.kids[f]) = 1 THEN w ELSE IF t.child[f] = c THEN a ELSE d
    BY RemoveFromFrameIs
  <1>3. Len(t.kids[f]) # 1 => n \in Clients \ {c} /\ t.parent[n] = f
    BY NextTabSits
  <1>4. u.gone = t.gone
    BY RemoveFromFrameBecomes DEF Becomes, Stays
  <1>5. d.gone = t.gone
    BY <1>1, ReparentKeeps DEF Left, DropChild, Keeps, Stays, Right, Formed, Fields
  <1> HIDE DEF f, d, n, u
  <1>6. Known(u) /\ u.focused = t.focused
    BY <1>1, <1>4, KnownTells DEF Tells, Dims
  <1>7. /\ Formed(d) /\ Housed(d) /\ d.child = t.child /\ Flags(d)
        /\ \A e \in Clients \ {c} : d.parent[e] = t.parent[e]
        /\ d.fmapped = t.fmapped /\ d.focused = t.focused /\ Heard(d)
        /\ \A x : Told(t, x) => Told(d, x)
        /\ \A g \in Frames : d.ffocused[g] => t.ffocused[g]
    BY <1>1 DEF Taken, SameLook, SameFlags, Tabbed, Flags, Tells, Dims
  <1>8. ASSUME Lit(t, {}) PROVE Nearly(d, f) /\ (t.focused # c \/ ~ t.ffocused[f] => Lit(d, {}))
    <2>1. \A g \in Frames \ {f}, e \in Clients : t.parent[e] = g => d.parent[e] = g
      BY <1>7 DEF f
    <2>2. Lit(t, {f})
      BY <1>1, <1>8, LitMore
    <2>3. Lit(d, {f})
      BY <1>1, <1>5, <1>7, <2>1, <2>2, LitTells
    <2>4. d.ffocused[f] => d.fmapped[f]
      BY <1>1, <1>7, <1>8 DEF Lit
    <2>5. t.focused # c /\ d.ffocused[f] => Holds(d, f)
      BY <1>1, <1>5, <1>7, <1>8 DEF Lit, Holds
    <2>6. ~ t.ffocused[f] => ~ d.ffocused[f]
      BY <1>1, <1>7
    <2> QED BY <1>1, <2>3, <2>4, <2>5, <2>6 DEF Nearly, Lit
  <1>9. CASE Len(t.kids[f]) = 1
    <2>1. FrameGone(d, w, f) /\ Tells(d, w) /\ ~ w.ffocused[f]
      BY <1>1, <1>7, DeleteFrameGone, DeleteFrameTells
    <2>2. u = w
      BY <1>2, <1>9
    <2> HIDE DEF w
    <2>3. Nearly(d, f) => Lit(w, {f})
      BY <1>4, <1>5, <2>1, <2>2, LitTells DEF Nearly, FrameGone
    <2>4. Nearly(d, f) => Lit(u, {})
      BY <2>1, <2>2, <2>3, Unlit
    <2> QED BY <1>1, <1>4, <1>6, <1>8, <2>4, NearlyLit DEF f, u
  <1>10. CASE Len(t.kids[f]) # 1 /\ t.child[f] = c
    <2>1. n \in Clients /\ n \notin {c} /\ d.parent[n] = f
      BY <1>3, <1>7, <1>10
    <2>2. \A g \in Frames : d.fmapped[g] /\ d.child[g] = n => g = f
      <3>1. SUFFICES ASSUME NEW g \in Frames, t.fmapped[g], t.child[g] = n PROVE g = f
        BY <1>7
      <3>2. t.parent[n] = g
        BY <1>1, <3>1 DEF Tabbed, Faced
      <3> QED BY <1>3, <1>10, <3>2
    <2>3. Tabbed(d, {c})
      <3>1. u = a
        BY <1>2, <1>10
      <3>2. d.kids[f] # <<>> /\ \A g \in Frames \ {f} : d.kids[g] = t.kids[g]
        BY <1>1, <1>10 DEF Taken
      <3>3. d.cmapped = t.cmapped /\ d.cicon = t.cicon /\ d.ficon = t.ficon
        BY <1>1 DEF Taken, SameLook, SameFlags
      <3> QED BY <1>1, <1>7, <3>2, <3>3 DEF Tabbed, Exists
    <2>4. Known(d)
      BY <1>1, <1>5, KnownTells
    <2>5. Nearly(d, f) => Lit(a, {})
      BY <1>1, <1>7, <2>1, <2>2, <2>3, <2>4, ActivateChildLit
    <2>6. u = a
      BY <1>2, <1>10
    <2> HIDE DEF a
    <2> QED BY <1>1, <1>4, <1>6, <1>8, <2>5, <2>6, NearlyLit DEF f, u
  <1>11. CASE Len(t.kids[f]) # 1 /\ t.child[f] # c
    <2>1. u = d
      BY <1>2, <1>11
    <2> QED BY <1>4, <1>6, <1>8, <2>1 DEF f, u
  <1> QED BY <1>9, <1>10, <1>11

LEMMA AddToFrameSees ==
    ASSUME NEW t, Right(t), Known(t), NEW c \in Clients, ~ IsManaged(t, c), NEW f \in Frames
    PROVE  Sees(t, AddToFrame(t, f, c))
  <1> DEFINE u == AddToFrame(t, f, c)
  <1>1. Tells(t, u) /\ Joined(t, u, f, c)
    BY AddToFrameTells, AddToFrameJoins DEF Known, Right
  <1>2. u.gone = t.gone
    BY AddToFrameMoves DEF Right, Moved, Stays
  <1> HIDE DEF u
  <1>3. u.child = t.child /\ \A g \in Frames, d \in Clients : t.parent[d] = g => u.parent[d] = g
    BY <1>1, TabsAssumption DEF Joined, IsManaged
  <1>4. \A X : Lit(t, X) => Lit(u, X)
    BY <1>1, <1>2, <1>3, LitTells
  <1> QED BY <1>1, <1>2, <1>4, KnownTells DEF Sees, u

LEMMA RaiseSees ==
    ASSUME NEW t, DOMAIN t = Fields, Known(t), NEW f
    PROVE  Sees(t, Raise(t, f))
  <1>1. Tells(t, Raise(t, f))
    BY RaiseTells DEF Known
  <1>2. Raise(t, f).gone = t.gone /\ Raise(t, f).child = t.child /\ Raise(t, f).parent = t.parent
    BY DEF Raise, Fields
  <1> QED BY <1>1, <1>2, SeesTells

(* A frame that does not exist is not drawn as focused, so a new one is    *)
(* not either.                                                             *)
LEMMA OpenFrameLit ==
    ASSUME NEW t, Right(t), Tabbed(t, {}), Known(t), NEW c \in Clients, ~ IsManaged(t, c),
           NEW f \in Frames \ LiveIn(t)
    PROVE  LET u == OpenFrame(t, f, c)
           IN  Known(u) /\ (Lit(t, {}) => Lit(u, {}))
  <1> DEFINE v == Opened(t, f, c)
             w == GetState(v, f, c)
             u == OpenFrame(t, f, c)
  <1>1. Tells(t, u)
    BY OpenFrameTells DEF Known
  <1>2. u = SetFrameWorkspace(w, f, w.cws[c])
    BY OpenFrameIs
  <1>3. u.gone = t.gone
    BY OpenFrameBecomes DEF Becomes, Stays
  <1>4. /\ v.child = [t.child EXCEPT ![f] = c]
        /\ \A d \in Clients \ {c} : v.parent[d] = t.parent[d]
    BY OpenedLook
  <1>5. Formed(v)
    BY FrameOpened DEF Becomes, Right
  <1> HIDE DEF v, u
  <1>6. Keeps(v, w) /\ Formed(w)
    BY <1>5, GetStateKeeps, KeepsForm
  <1> HIDE DEF w
  <1>7. Keeps(w, u)
    BY <1>2, <1>6, SetFrameWorkspaceKeeps
  <1>8. t.child \in [Frames -> Clients \cup {None}]
    BY RightHoused DEF Housed
  <1>9. \A g \in Frames \ {f} :
          /\ u.child[g] = t.child[g]
          /\ \A d \in Clients : t.parent[d] = g => u.parent[d] = g
    BY <1>4, <1>6, <1>7, <1>8, TabsAssumption DEF Keeps, SameTree, IsManaged
  <1>10. ASSUME Lit(t, {}) PROVE Lit(u, {})
    <2>1. ~ t.fmapped[f]
      BY DEF Tabbed, LiveIn
    <2>2. ~ t.ffocused[f]
      BY <1>10, <2>1 DEF Lit
    <2>3. ~ u.ffocused[f]
      BY <1>1, <2>2 DEF Tells, Dims
    <2>4. Lit(t, {f})
      BY <1>10, LitMore
    <2>5. Lit(u, {f})
      BY <1>1, <1>3, <1>9, <2>4, LitTells
    <2> QED BY <2>3, <2>5, Unlit
  <1> QED BY <1>1, <1>3, <1>10, KnownTells DEF u

LEMMA FrameFocusSees ==
    ASSUME NEW t, Right(t), Known(t), NEW f \in LiveIn(t)
    PROVE  Sees(t, GiveFrameFocus(t, f))
  <1>1. Formed(t) /\ t.child[f] \in Clients
    BY RightIs
  <1>2. Tells(t, GiveFrameFocus(t, f)) /\ Keeps(t, GiveFrameFocus(t, f))
    BY <1>1, GiveFocusTells, GiveFrameFocusKeeps DEF Known
  <1> QED BY <1>2, SeesFollows DEF Follows

(* Looking for a window to focus, the frame f first. *)
LEMMA FindIfNoneSees ==
    ASSUME NEW t, Right(t), Known(t), NEW f
    PROVE  Sees(t, FindWOAndFocus(t, f)) /\ Sees(t, FindIfNone(t, f))
  <1> DEFINE u == FindWOAndFocus(t, f)
  <1>1. Formed(t) /\ Fronted(t) /\ t.mru \in Seq(Frames)
    BY RightIs
  <1>2. Tells(t, u) /\ Keeps(t, u)
    BY <1>1, GiveFocusTells, FindWOAndFocusKeeps DEF Known
  <1> HIDE DEF u
  <1>3. Sees(t, u) /\ Sees(t, t)
    BY <1>2, SeesFollows, SeesItself DEF Follows
  <1> QED BY <1>3 DEF FindIfNone, u

LEMMA FindIfNoneLit ==
    ASSUME NEW t, Right(t), Tabbed(t, {}), Known(t), NEW f \in Frames, Nearly(t, f),
           t.focused # None => Lit(t, {})
    PROVE  Lit(FindIfNone(t, f), {})
  <1>1. CASE t.focused # None
    BY <1>1 DEF FindIfNone
  <1>2. CASE t.focused = None /\ ~ t.ffocused[f]
    <2>1. Lit(t, {})
      BY <1>2, Unlit DEF Nearly
    <2> QED BY <2>1, FindIfNoneSees DEF Sees
  <1>3. CASE t.focused = None /\ t.ffocused[f]
    <2>1. t.fmapped[f] /\ Exists(t, f) /\ Steady(t)
      BY <1>3, RightSteady DEF Nearly, Tabbed
    <2>2. FindIfNone(t, f) = GiveFrameFocus(t, f)
      BY <1>3, <2>1 DEF FindIfNone, FindWOAndFocus
    <2>3. Lit(GiveFrameFocus(t, f), {f} \ {f})
      BY <2>1, FrontFocused DEF Nearly
    <2>4. {f} \ {f} = {}
      OBVIOUS
    <2> QED BY <2>2, <2>3, <2>4
  <1> QED BY <1>1, <1>2, <1>3

(* A new window. *)
LEMMA FrameFoundLit ==
    ASSUME NEW t, Right(t), Tabbed(t, {}), Known(t), NEW c \in Clients, ~ IsManaged(t, c),
           ~ t.cmapped[c], NEW f \in Frames, NEW place \in {"new", "front", "behind"},
           place = "new" <=> f \notin LiveIn(t)
    PROVE  LET u == FindOrCreateFrame(t, c, f, place)
           IN  Known(u) /\ (Lit(t, {}) => Lit(u, {}))
  <1> DEFINE a == AddToFrame(t, f, c)
             b == ActivateChild(a, f, c)
             n == OpenFrame(t, f, c)
             u == FindOrCreateFrame(t, c, f, place)
  <1>1. CASE place = "new"
    <2>1. u = n
      BY <1>1 DEF FindOrCreateFrame
    <2>2. Known(n) /\ (Lit(t, {}) => Lit(n, {}))
      BY <1>1, OpenFrameLit
    <2> QED BY <2>1, <2>2
  <1>2. CASE place # "new"
    <2>1. Right(a) /\ a.parent[c] = f
      BY <1>2, AddToFrameBecomes DEF Becomes
    <2>2. u = IF place = "front" THEN b ELSE a
      BY <1>2 DEF FindOrCreateFrame
    <2>3. Joined(t, a, f, c) /\ Sees(t, a)
      BY AddToFrameJoins, AddToFrameSees
    <2> HIDE DEF a, u
    <2>4. Tabbed(a, {}) /\ Known(a)
      BY <2>3, JoinedTabs, TabbedMore DEF Sees
    <2>5. Formed(a) /\ Housed(a) /\ Faced(a)
      BY <2>1, RightFaced
    <2>6. \A g \in Frames : a.fmapped[g] /\ a.child[g] = c => g = f
      BY <2>1, <2>4, <2>5 DEF Faced, Tabbed
    <2>7. Known(b) /\ (Nearly(a, f) => Lit(b, {}))
      <3>1. c \notin {}
        OBVIOUS
      <3> QED BY <2>1, <2>4, <2>5, <2>6, <3>1, ActivateChildLit
    <2> HIDE DEF b
    <2> QED BY <2>2, <2>3, <2>4, <2>7, NearlyLit DEF u, Sees
  <1> QED BY <1>1, <1>2

LEMMA MappedStateSees ==
    ASSUME NEW t, Right(t), Known(t), NEW c \in Clients, IsManaged(t, c), NEW b
    PROVE  Sees(t, SetMappedStateAndFocus(t, c, b))
  <1> DEFINE f == t.parent[c]
             x == [t EXCEPT !.cmapped[c] = TRUE]
             u == IF t.fmapped[f] /\ ~ t.cicon[c] THEN x ELSE t
  <1>1. SetMappedStateAndFocus(t, c, b) = IF t.fmapped[f] /\ b THEN GiveFrameFocus(u, f) ELSE u
    BY DEF SetMappedStateAndFocus
  <1>2. Keeps(t, x) /\ Tells(t, x)
    BY RightIs, ClientMappedTells DEF Formed, Fields, Keeps, Stays, SameTree, SameLists, Known
  <1> HIDE DEF x
  <1>3. Keeps(t, u) /\ Tells(t, u)
    BY <1>2, RightIs, KeepsItself, TellsItself DEF Known
  <1> HIDE DEF u
  <1>4. Sees(t, u) /\ Right(u) /\ f \in LiveIn(u)
    <2>1. LiveIn(u) = LiveIn(t)
      BY <1>3, SameLive DEF Keeps, SameTree
    <2> QED BY <1>3, <2>1, SeesFollows, RightKept, RightIs DEF Follows
  <1>5. Sees(t, GiveFrameFocus(u, f))
    BY <1>4, FrameFocusSees, SeesOn DEF Sees
  <1> QED BY <1>1, <1>4, <1>5

(* When the server has nothing to tell, the focus was there or could not   *)
(* be had.                                                                 *)
LEMMA InputSet ==
    ASSUME NEW t, Formed(t), Heard(t), NEW w \in Clients \cup {Root}
    PROVE  LET u == XSetInputFocus(t, w)
           IN  /\ Tells(t, u) /\ Keeps(t, u)
               /\ NoWord(u) => u = t /\ (t.input = w \/ (w # Root /\ ~ Viewable(t, w)))
  <1> DEFINE v == Post([t EXCEPT !.input = w], FocusIn(w))
             u == XSetInputFocus(t, w)
  <1>1. Tells(t, u) /\ Keeps(t, u)
    BY XSetInputFocusTells, XSetInputFocusKeeps
  <1>2. u = IF t.input # w /\ (w = Root \/ Viewable(t, w)) THEN v ELSE t
    BY DEF XSetInputFocus
  <1>3. t.input # w /\ (w = Root \/ Viewable(t, w)) => Told(v, w)
    <2>1. w \in Clients => w # Root
      BY WmAssumption
    <2> QED BY <2>1, SentTells DEF Viewable, Heard
  <1> HIDE DEF u, v
  <1> QED BY <1>1, <1>2, <1>3 DEF NoWord, u

(* The workspace is shown and the focus goes to a window of it. *)
Dark(t) == \A f \in Frames : ~ t.ffocused[f]

LEMMA ToFocusIs ==
    ASSUME NEW t, Steady(t), Listed(t), Minded(t), NEW n \in Workspaces
    PROVE  LET wo == ToFocus(t, n)
           IN  wo \in {Root, None} \/ (wo \in Clients /\ IsManaged(t, wo) /\ t.cmapped[wo])
  <1> DEFINE M == {f \in Frames : t.fmapped[f]}
             q == Sieve(t.wolist, M)
             k == Len(q)
             l == t.last[n]
             wo == ToFocus(t, n)
  <1>1. wo = IF l = Root \/ (l # None /\ IsManaged(t, l))
             THEN IF l = Root \/ t.cmapped[l] THEN l ELSE None
             ELSE IF q = <<>> THEN None ELSE t.child[q[k]]
    BY DEF ToFocus
  <1>2. l \in Clients \cup {Root, None}
    BY DEF Minded
  <1>3. q # <<>> => q[k] \in M
    <2>1. t.wolist \in Seq(Frames)
      BY DEF Listed, Lists
    <2>2. q \in Seq(Frames) /\ ToSet(q) = ToSet(t.wolist) \cap M
      BY <2>1, SieveElements
    <2> HIDE DEF q, M
    <2>3. SUFFICES ASSUME q # <<>> PROVE q[k] \in ToSet(q)
      BY <2>2
    <2> QED BY <2>2, <2>3, LenProperties, EmptySeq DEF ToSet
  <1>4. \A f \in M : t.child[f] \in Clients /\ IsManaged(t, t.child[f]) /\ t.cmapped[t.child[f]]
    <2> TAKE f \in M
    <2>1. f \in Frames /\ Exists(t, f) /\ t.child[f] \in Clients /\ t.cmapped[t.child[f]]
      BY DEF Steady, Tabbed
    <2> QED BY <2>1, TabsAssumption DEF Steady, Faced, IsManaged
  <1> HIDE DEF q, k, l, M, wo
  <1> QED BY <1>1, <1>2, <1>3, <1>4 DEF wo

LEMMA EnteredSees ==
    ASSUME NEW t, Steady(t), Listed(t), Known(t), t.focused = None, NEW n \in Workspaces
    PROVE  LET u == Entered(t, n)
           IN  Known(u) /\ (Dark(t) => Lit(u, {}))
  <1> DEFINE wo == ToFocus(t, n)
             z == SetFocused(t, wo, TRUE)
             k == [z EXCEPT !.focused = wo]
             w == IF wo \in Clients THEN wo ELSE Root
             u == XSetInputFocus(k, w)
             f == t.parent[wo]
  <1>0. Formed(t) /\ DOMAIN t = Fields
    BY DEF Steady, Formed
  <1>1. wo \in {Root, None} \/ (wo \in Clients /\ IsManaged(t, wo) /\ t.cmapped[wo])
    BY ToFocusIs DEF Known
  <1>2. Root \notin Clients /\ None \notin Clients /\ Root # None
    BY WmAssumption, TabsAssumption
  <1>3. wo \in Clients => f \in Frames /\ t.fmapped[f]
    BY <1>1, <1>2 DEF Steady, Tabbed
  <1>4. Entered(t, n) = u
    BY <1>1, <1>2, <1>0 DEF Entered, GiveFocus, GiveClientFocus, SetFocused, Fields
  <1> HIDE DEF wo
  <1>5. z = t \/ (wo \in Clients /\ z = [t EXCEPT !.ffocused[f] = TRUE])
    BY DEF SetFocused
  <1>6. /\ DOMAIN z = Fields /\ \A x \in Fields \ {"ffocused"} : z[x] = t[x]
        /\ z.ffocused \in [Frames -> BOOLEAN]
        /\ \A g \in Frames : z.ffocused[g] => t.ffocused[g] \/ (wo \in Clients /\ g = f)
    <2> DEFINE e == [t.ffocused EXCEPT ![f] = TRUE]
    <2>1. t.ffocused \in [Frames -> BOOLEAN]
      BY DEF Known, Heard, Plain
    <2>2. e \in [Frames -> BOOLEAN] /\ \A g \in Frames : e[g] => t.ffocused[g] \/ g = f
      BY <2>1
    <2>3. z = t \/ (wo \in Clients /\ z = [t EXCEPT !.ffocused = e])
      BY <1>5
    <2> HIDE DEF e, f
    <2> QED BY <1>0, <2>1, <2>2, <2>3 DEF Fields
  <1> HIDE DEF z
  <1>7. /\ DOMAIN k = Fields /\ \A x \in Fields \ {"ffocused", "focused"} : k[x] = t[x]
        /\ k.focused = wo /\ k.ffocused = z.ffocused
    BY <1>6 DEF Fields
  <1> HIDE DEF k
  <1>8. /\ k.fmapped = t.fmapped /\ k.fsticky = t.fsticky /\ k.csticky = t.csticky
        /\ k.cmapped = t.cmapped /\ k.input = t.input /\ k.gone = t.gone /\ k.queue = t.queue
        /\ k.parent = t.parent /\ k.kids = t.kids /\ k.last = t.last
    BY <1>7 DEF Fields
  <1>9. Formed(k) /\ Heard(k) /\ Minded(k)
    <2>1. Formed(k)
      BY <1>0, <1>7, <1>8 DEF Formed
    <2>2. Heard(k)
      BY <1>6, <1>7, <1>8 DEF Known, Heard, Plain, HasInput
    <2> QED BY <1>1, <1>7, <1>8, <2>1, <2>2 DEF Known, Minded
  <1>10. w \in Clients \cup {Root}
    OBVIOUS
  <1> HIDE DEF w
  <1>11. /\ Tells(k, u) /\ Keeps(k, u)
         /\ NoWord(u) => u = k /\ (k.input = w \/ (w # Root /\ ~ Viewable(k, w)))
    BY <1>9, <1>10, InputSet
  <1> HIDE DEF u
  <1>12. NoWord(t) => t.input = Root
    BY <1>2 DEF Known, Believed, Heard, HasInput
  <1>13. Known(u)
    <2>1. Heard(u) /\ Minded(u) /\ u.focused = wo
      BY <1>7, <1>9, <1>11 DEF Tells, Dims, Minded
    <2>2. ASSUME NoWord(u) PROVE u = k /\ t.input = Root
      BY <1>8, <1>11, <1>12, <2>2 DEF NoWord, Told
    <2>3. ASSUME NoWord(u), wo \in Clients PROVE wo \in u.gone
      <3>1. ~ Viewable(k, wo) /\ u = k
        BY <1>2, <1>8, <1>11, <2>2, <2>3 DEF w
      <3> QED BY <1>1, <1>2, <1>3, <1>8, <2>3, <3>1 DEF Viewable, IsManaged
    <2>4. NoWord(u) => u.input = Root
      BY <1>8, <2>2
    <2> QED BY <1>1, <2>1, <2>3, <2>4 DEF Known, Believed
  <1>14. ASSUME Dark(t) PROVE Lit(u, {})
    <2> SUFFICES ASSUME NEW g \in Frames, u.ffocused[g]
                 PROVE  u.fmapped[g] /\ Holds(u, g)
      BY DEF Lit
    <2>1. k.ffocused[g] /\ (k.fmapped[g] => u.fmapped[g]) /\ u.focused = wo
      BY <1>7, <1>11 DEF Tells, Dims
    <2>2. wo \in Clients /\ g = f
      BY <1>6, <1>7, <1>14, <2>1 DEF Dark
    <2>3. u.parent = t.parent
      BY <1>8, <1>11 DEF Keeps, SameTree
    <2> QED BY <1>3, <1>8, <2>1, <2>2, <2>3 DEF Holds
  <1> QED BY <1>4, <1>13, <1>14

(* When a workspace is left no window is shown, so that none has the focus *)
(* and no frame is drawn as if it had.                                     *)
LEMMA LeftDark ==
    ASSUME NoDialogs, NEW t, Arranged(t, {}), Listed(t), Steady(t), Heard(t)
    PROVE  LET w == HideAll(t, t.active)
           IN  /\ Follows(t, w) /\ Steady(w) /\ Listed(w) /\ w.input = Root
               /\ \A f \in Frames : t.ffocused[f] /\ t.fmapped[f] => ~ w.ffocused[f]
  <1> DEFINE w == HideAll(t, t.active)
             L == LiveIn(t)
  <1>1. TurnSo(t, w, "hide", t.active, L)
    BY ArrangedReady, AllTurned DEF HideAll
  <1>2. Follows(t, w)
    BY InTurnFollows DEF Aware, Arranged, Listed, Lists, HideAll
  <1>3. Steady(w) /\ Keeps(t, w)
    BY InTurnTabs DEF HideAll
  <1> HIDE DEF w
  <1>4. Listed(w) /\ Heard(w)
    BY <1>2, <1>3, KeptListed DEF Follows, Tells
  <1>5. \A f \in Frames : ~ w.fmapped[f]
    <2> SUFFICES ASSUME NEW f \in Frames PROVE ~ w.fmapped[f]
      OBVIOUS
    <2>1. t.fmapped[f] => f \in L /\ Here(t, f)
      BY DEF Arranged, Shown, LiveIn
    <2>2. ~ t.fsticky[f]
      BY DEF Heard, Plain
    <2> QED BY <1>1, <2>1, <2>2 DEF TurnSo, Here
  <1>6. \A c \in Clients : ~ w.cmapped[c]
    BY <1>3, <1>5 DEF Steady, Tabbed
  <1>7. w.input = Root
    BY <1>4, <1>6 DEF Heard, HasInput
  <1>8. \A f \in Frames : w.ffocused[f] => (t.fmapped[f] => w.fmapped[f])
    BY <1>2 DEF Follows, Tells, Dims
  <1> QED BY <1>2, <1>3, <1>4, <1>5, <1>7, <1>8 DEF w

LEMMA SetWorkspaceSees ==
    ASSUME NoDialogs, NEW t, Arranged(t, {}), Listed(t), Steady(t), Known(t),
           NEW n \in Workspaces, NEW b
    PROVE  LET u == SetWorkspace(t, n, b)
           IN  Known(u) /\ (Lit(t, {}) => Lit(u, {}))
  <1> DEFINE u == SetFocused(t, t.focused, FALSE)
             l == t.focused
             m == [u.last EXCEPT ![t.active] = l]
             x == [u EXCEPT !.last = m]
             v == [x EXCEPT !.focused = None]
             w == HideAll(v, t.active)
             a == [w EXCEPT !.active = n]
             y == InTurn(a, "show", n)
             j == Entered(y, n)
             s1 == SetWorkspace(t, n, b)
  <1>0. Formed(t) /\ Heard(t) /\ Minded(t) /\ t.active \in Workspaces
    BY DEF Arranged, Shown, Located, Known
  <1>1. s1 = t \/ s1 = j \/ s1 = y
    BY DEF SetWorkspace, UnhideAll, ShowAll
  <1>2. Keeps(t, u) /\ Formed(u) /\ SameLook(t, u) /\ Tells(t, u)
    BY <1>0, SetFocusedKeeps, KeepsForm, FocusLook, SetFocusedTells DEF Formed
  <1>3. m \in [Workspaces -> Clients \cup {Root, None}]
    BY <1>0, <1>2 DEF Minded, Tells, Dims
  <1> HIDE DEF u, l, m, s1
  <1>4. /\ Keeps(u, v) /\ SameLook(u, v) /\ v.focused = None /\ v.last = m
        /\ v.fmapped = u.fmapped /\ v.fsticky = u.fsticky /\ v.csticky = u.csticky
        /\ v.cmapped = u.cmapped /\ v.input = u.input /\ v.gone = u.gone /\ v.queue = u.queue
        /\ v.ffocused = u.ffocused
    BY <1>2 DEF Formed, Fields, Keeps, Stays, SameTree, SameLists, SameFlags, SamePlaces, SameLook
  <1> HIDE DEF v
  <1>5. Keeps(t, v) /\ SameLook(t, v)
    BY <1>2, <1>4, KeepsOn, LookOn
  <1>6. Arranged(v, {}) /\ Listed(v) /\ Steady(v) /\ v.active = t.active
    BY <1>5, ArrangedLook, KeptListed, SteadyLook DEF SameLook, SamePlaces
  <1>7. Heard(v)
    BY <1>2, <1>4 DEF Tells, Heard, Plain, HasInput
  <1>8. /\ Follows(v, w) /\ Steady(w) /\ Listed(w) /\ w.input = Root
        /\ \A f \in Frames : v.ffocused[f] /\ v.fmapped[f] => ~ w.ffocused[f]
    <2>1. LET q == HideAll(v, v.active)
          IN  /\ Follows(v, q) /\ Steady(q) /\ Listed(q) /\ q.input = Root
              /\ \A f \in Frames : v.ffocused[f] /\ v.fmapped[f] => ~ q.ffocused[f]
      BY <1>6, <1>7, LeftDark
    <2> QED BY <1>6, <2>1
  <1> HIDE DEF w
  <1>9. Formed(w) /\ Heard(w) /\ w.focused = None /\ w.last = m
    BY <1>4, <1>8 DEF Steady, Follows, Tells, Dims
  <1>10. Keeps(w, a) /\ SameFocus(w, a) /\ SameFlags(w, a)
    BY <1>9 DEF Formed, Fields, Keeps, Stays, SameTree, SameLists, SameFlags, SameFocus
  <1> HIDE DEF a
  <1>11. Follows(w, a) /\ Aware(a) /\ Steady(a) /\ Listed(a)
    BY <1>8, <1>9, <1>10, SameFollows, SteadyKept, KeptListed DEF Aware
  <1>12. Follows(a, y) /\ Steady(y) /\ Listed(y)
    BY <1>11, InTurnFollows, InTurnTabs, KeptListed DEF Listed, Lists
  <1> HIDE DEF y, j
  <1>13. Follows(w, y)
    BY <1>11, <1>12, FollowsOn
  <1>14. Heard(y) /\ y.focused = None /\ y.last = m /\ (NoWord(y) => y.input = Root)
    BY <1>8, <1>9, <1>13 DEF Follows, Tells, Dims, NoWord
  <1>15. Known(y)
    BY <1>3, <1>14 DEF Known, Minded, Believed
  <1>16. ASSUME Lit(t, {}) PROVE Dark(y)
    <2> SUFFICES ASSUME NEW f \in Frames, y.ffocused[f] PROVE FALSE
      BY DEF Dark
    <2>1. w.ffocused[f]
      BY <1>13 DEF Follows, Tells, Dims
    <2>2. v.ffocused[f]
      BY <1>8, <2>1 DEF Follows, Tells, Dims
    <2>3. t.ffocused[f] /\ (t.fmapped[f] => u.fmapped[f])
      BY <1>2, <1>4, <2>2 DEF Tells, Dims
    <2>4. v.fmapped[f]
      BY <1>4, <1>16, <2>3 DEF Lit
    <2> QED BY <1>8, <2>1, <2>2, <2>4
  <1>17. Known(j) /\ (Dark(y) => Lit(j, {}))
    BY <1>12, <1>14, <1>15, EnteredSees DEF j
  <1>18. Dark(y) => Lit(y, {})
    BY DEF Dark, Lit
  <1> QED BY <1>1, <1>15, <1>16, <1>17, <1>18 DEF s1

(* The states between the functions of a request. *)
Whole(t) == Right(t) /\ Tabbed(t, {}) /\ Shown(t, {}) /\ Known(t)
Minds(t, u) == Known(u) /\ (Lit(t, {}) => Lit(u, {}))

LEMMA MindsItself == ASSUME NEW t, Known(t) PROVE Minds(t, t)
  BY DEF Minds

LEMMA MindsOn ==
    ASSUME NEW t, NEW u, NEW v, Minds(t, u), Minds(u, v) \/ Sees(u, v)
    PROVE  Minds(t, v)
  BY DEF Minds, Sees

LEMMA WholeIs ==
    ASSUME NEW t, Whole(t)
    PROVE  /\ Arranged(t, {}) /\ Listed(t) /\ Steady(t) /\ Known(t) /\ Aware(t) /\ Formed(t)
           /\ DOMAIN t = Fields
  <1>1. Formed(t) /\ DOMAIN t = Fields /\ Listed(t)
    BY DEF Whole, Right, Formed
  <1> QED BY <1>1, RightArranged, RightSteady DEF Whole, Aware, Known

LEMMA WorkspaceMinds ==
    ASSUME NoDialogs, NEW t, Whole(t), NEW n \in Workspaces, NEW b
    PROVE  LET u == SetWorkspace(t, n, b)
           IN  Whole(u) /\ Minds(t, u) /\ Keeps(t, u)
  <1> DEFINE u == SetWorkspace(t, n, b)
  <1>1. Arranged(t, {}) /\ Listed(t) /\ Steady(t) /\ Known(t)
    BY WholeIs
  <1>2. Turned(t, u, n)
    BY <1>1, SetWorkspaceShown
  <1>3. Steady(u) /\ Keeps(t, u)
    BY <1>1, SetWorkspaceTabs
  <1>4. Minds(t, u)
    BY <1>1, SetWorkspaceSees DEF Minds
  <1> HIDE DEF u
  <1>5. Right(u)
    BY <1>3, RightKept DEF Whole
  <1> QED BY <1>2, <1>3, <1>4, <1>5 DEF Whole, Turned, Arranged, Steady, Minds, u

LEMMA ActivateMinds ==
    ASSUME NoDialogs, NEW t, Whole(t), NEW c \in Clients, IsManaged(t, c), NEW f, f = t.parent[c]
    PROVE  LET u == ActivateChild(t, f, c)
           IN  Whole(u) /\ Minds(t, u) /\ f \in LiveIn(u)
  <1> DEFINE u == ActivateChild(t, f, c)
  <1>1. f \in Frames /\ f \in LiveIn(t) /\ Right(u) /\ f \in LiveIn(u)
    BY ActivatedRight DEF Whole
  <1>2. Steady(t) /\ Known(t) /\ Formed(t) /\ Housed(t) /\ Faced(t) /\ c \notin {}
    BY WholeIs DEF Steady
  <1>3. Tabbed(u, {})
    BY <1>1, <1>2, ActivatedTabs
  <1>4. Shown(u, {})
    BY <1>1, <1>2, ActivateChildShown DEF Whole
  <1>5. \A g \in Frames : t.fmapped[g] /\ t.child[g] = c => g = f
    BY <1>2 DEF Faced, Tabbed, Whole
  <1>6. Known(u) /\ (Nearly(t, f) => Lit(u, {}))
    BY <1>1, <1>2, <1>5, ActivateChildLit DEF Whole
  <1> HIDE DEF u
  <1> QED BY <1>1, <1>3, <1>4, <1>6, NearlyLit DEF Whole, Minds, u

LEMMA MappedMinds ==
    ASSUME NEW t, Right(t), Known(t), NEW f \in LiveIn(t)
    PROVE  LET u == MapFrame(t, f)
           IN  Sees(t, u) /\ Keeps(t, u) /\ Right(u) /\ f \in LiveIn(u)
  <1> DEFINE u == MapFrame(t, f)
  <1>1. Aware(t) /\ f \in Frames
    BY DEF Right, Known, Aware, LiveIn
  <1>2. Follows(t, u)
    BY <1>1, MappingFollows
  <1> HIDE DEF u
  <1>3. Keeps(t, u) /\ Sees(t, u)
    BY <1>2, SeesFollows DEF Follows
  <1>4. Right(u) /\ LiveIn(u) = LiveIn(t)
    BY <1>3, RightKept, SameLive DEF Keeps, SameTree
  <1> QED BY <1>3, <1>4 DEF u

LEMMA RaisedFocusSees ==
    ASSUME NEW t, Right(t), Known(t), NEW f \in LiveIn(t)
    PROVE  Sees(t, GiveFrameFocus(Raise(t, f), f))
  <1> DEFINE u == Raise(t, f)
  <1>1. Sees(t, u)
    BY RightIs, RaiseSees DEF Formed
  <1>2. Right(u) /\ LiveIn(u) = LiveIn(t)
    BY RaiseBecomes, TreeSame, SameLive DEF Becomes, SameTree
  <1> HIDE DEF u
  <1>3. Sees(u, GiveFrameFocus(u, f))
    BY <1>1, <1>2, FrameFocusSees DEF Sees
  <1> QED BY <1>1, <1>3, SeesOn DEF u

LEMMA ActivateRequest ==
    ASSUME NoDialogs, NEW c \in Clients, Whole(s), Activate(c)
    PROVE  Minds(s, s')
  <1> DEFINE f == s.parent[c]
             a == ActivateChild(s, f, c)
             t == IF s.child[f] = c THEN s ELSE a
             n == t.fws[f]
             y == SetWorkspace(t, n, FALSE)
             w == IF t.fsticky[f] THEN t ELSE y
             m == MapFrame(w, f)
             u == IF t.fmapped[f] THEN t ELSE m
  <1>1. s' = GiveFrameFocus(Raise(u, f), f) /\ IsManaged(s, c)
    BY DEF Activate, Managed
  <1>2. f \in LiveIn(s) /\ Whole(a) /\ Minds(s, a) /\ f \in LiveIn(a)
    <2>1. f \in LiveIn(s)
      BY <1>1, ActivatedRight DEF Whole
    <2> QED BY <1>1, <2>1, ActivateMinds
  <1> HIDE DEF a, f
  <1>3. Whole(t) /\ Minds(s, t) /\ f \in LiveIn(t) /\ Minds(t, t) /\ Keeps(t, t)
    <2>1. Whole(t) /\ Minds(s, t) /\ f \in LiveIn(t)
      BY <1>2, MindsItself DEF Whole
    <2> HIDE DEF t
    <2> QED BY <2>1, MindsItself, KeepsItself, RightIs DEF Whole
  <1> HIDE DEF t
  <1>4. n \in Workspaces
    BY <1>3 DEF Whole, Shown, Located, LiveIn
  <1> HIDE DEF n
  <1>5. Whole(y) /\ Minds(t, y) /\ Keeps(t, y)
    BY <1>3, <1>4, WorkspaceMinds
  <1> HIDE DEF y
  <1>6. Whole(w) /\ Minds(t, w) /\ Keeps(t, w)
    BY <1>3, <1>5
  <1> HIDE DEF w
  <1>7. LiveIn(w) = LiveIn(t)
    BY <1>6, SameLive DEF Keeps, SameTree
  <1>8. Minds(t, m) /\ Right(m) /\ Known(m) /\ f \in LiveIn(m)
    <2>1. Sees(w, m) /\ Right(m) /\ f \in LiveIn(m)
      BY <1>3, <1>6, <1>7, MappedMinds DEF Whole
    <2> HIDE DEF m
    <2> QED BY <1>6, <2>1, MindsOn DEF Sees
  <1> HIDE DEF m
  <1>9. Minds(t, u) /\ Right(u) /\ Known(u) /\ f \in LiveIn(u)
    BY <1>3, <1>8 DEF Whole
  <1> HIDE DEF u
  <1>10. Sees(u, s')
    BY <1>1, <1>9, RaisedFocusSees
  <1> QED BY <1>3, <1>9, <1>10, MindsOn

LEMMA GotoClientRequest ==
    ASSUME NoDialogs, NEW c \in Clients, Whole(s), GotoClient(c)
    PROVE  Minds(s, s')
  <1> DEFINE f == s.parent[c]
             n == s.fws[f]
             y == SetWorkspace(s, n, FALSE)
             t == IF s.fsticky[f] THEN s ELSE y
             w == MapFrame(t, f)
             u == ActivateChild(w, f, c)
  <1>1. s' = GiveFrameFocus(Raise(u, f), f) /\ IsManaged(s, c)
    BY DEF GotoClient, Managed
  <1>2. f \in LiveIn(s) /\ f \in Frames
    BY <1>1, RightIs DEF LiveIn, Whole
  <1>3. n \in Workspaces
    BY <1>2 DEF Whole, Shown, Located
  <1> HIDE DEF n
  <1>4. Whole(y) /\ Minds(s, y) /\ Keeps(s, y)
    BY <1>3, WorkspaceMinds
  <1> HIDE DEF y
  <1>5. Whole(t) /\ Minds(s, t) /\ Keeps(s, t)
    BY <1>4, MindsItself, KeepsItself, RightIs DEF Whole
  <1> HIDE DEF t
  <1>6. LiveIn(t) = LiveIn(s) /\ Right(t) /\ Known(t)
    BY <1>5, SameLive DEF Keeps, SameTree, Whole
  <1>7. Sees(t, w) /\ Keeps(t, w) /\ Right(w)
    BY <1>2, <1>6, MappedMinds
  <1>8. Steady(w)
    <2>1. Steady(t) /\ Exists(t, f)
      BY <1>2, <1>5, <1>6, WholeIs DEF LiveIn
    <2> QED BY <1>2, <2>1, SteadyMapped
  <1> HIDE DEF w
  <1>9. Minds(s, w) /\ Keeps(s, w) /\ Known(w)
    BY <1>5, <1>7, MindsOn, KeepsOn DEF Sees
  <1>10. w.parent[c] = f /\ IsManaged(w, c)
    BY <1>1, <1>9 DEF Keeps, SameTree, IsManaged
  <1>11. Right(u) /\ f \in LiveIn(u)
    BY <1>7, <1>10, ActivatedRight
  <1>12. Known(u) /\ (Nearly(w, f) => Lit(u, {}))
    <2>1. Formed(w) /\ Housed(w) /\ Tabbed(w, {}) /\ c \notin {}
      BY <1>8 DEF Steady
    <2>2. \A g \in Frames : w.fmapped[g] /\ w.child[g] = c => g = f
      BY <1>8, <1>10 DEF Steady, Tabbed, Faced
    <2> QED BY <1>2, <1>9, <1>10, <2>1, <2>2, ActivateChildLit
  <1> HIDE DEF u
  <1>13. Minds(s, u)
    BY <1>2, <1>9, <1>12, NearlyLit DEF Minds
  <1>14. Sees(u, s')
    BY <1>1, <1>11, <1>12, RaisedFocusSees
  <1> QED BY <1>13, <1>14, MindsOn

LEMMA ClickRequest ==
    ASSUME NoDialogs, NEW c \in Clients, Whole(s), Click(c)
    PROVE  Minds(s, s')
  <1> DEFINE f == s.parent[c]
             t == ActivateChild(s, f, c)
  <1>1. s' = (IF t.ffocused[f] THEN Raise(t, f) ELSE GiveClientFocus(t, c)) /\ IsManaged(s, c)
    BY DEF Click, Managed
  <1>2. Whole(t) /\ Minds(s, t)
    BY <1>1, ActivateMinds
  <1> HIDE DEF t
  <1>3. Formed(t) /\ DOMAIN t = Fields /\ Known(t)
    BY <1>2, WholeIs
  <1>4. Sees(t, Raise(t, f))
    BY <1>3, RaiseSees
  <1>5. Follows(t, GiveClientFocus(t, c))
    BY <1>3, GiveFocusTells, GiveClientFocusKeeps DEF Known, Follows
  <1>6. Sees(t, s')
    BY <1>1, <1>3, <1>4, <1>5, SeesFollows
  <1> QED BY <1>2, <1>6, MindsOn

(* The requests that only map, hide and send away. *)
LEMMA QuietMinds ==
    ASSUME NoDialogs, Whole(s),
           \/ \E c \in Clients : MapAgain(c)
           \/ \E f \in Frames : \/ Iconify(f) \/ Restore(f)
                                \/ \E n \in Workspaces : SendTo(f, n)
           \/ \E n \in Workspaces : Goto(n)
    PROVE  Minds(s, s')
  <1>1. Aware(s) /\ Known(s)
    BY WholeIs
  <1>2. \A u : Follows(s, u) => Minds(s, u)
    BY <1>1, SeesFollows DEF Sees, Minds
  <1>3. ASSUME NEW c \in Clients, MapAgain(c) PROVE Minds(s, s')
    <2>1. s.parent[c] \in Frames /\ s' = Deiconify(s, s.parent[c])
      BY <1>3, RightIs DEF MapAgain, Managed, LiveIn, Whole
    <2> QED BY <1>1, <1>2, <2>1, DeiconifyFollows
  <1>4. ASSUME NEW f \in Frames, Iconify(f) \/ Restore(f) \/ \E n \in Workspaces : SendTo(f, n)
        PROVE  Minds(s, s')
    <2>1. \/ s' = IconifyFrame(s, f) \/ s' = MapFrame(s, f)
          \/ \E n \in Workspaces : s' = SetFrameWorkspace(s, f, n)
      BY <1>4 DEF Iconify, Restore, SendTo
    <2> QED BY <1>1, <1>2, <2>1, MappingFollows, SetFrameWorkspaceFollows
  <1>5. ASSUME NEW n \in Workspaces, Goto(n) PROVE Minds(s, s')
    <2>1. s' = SetWorkspace(s, n, TRUE)
      BY <1>5 DEF Goto
    <2> QED BY <2>1, WorkspaceMinds
  <1> QED BY <1>3, <1>4, <1>5

LEMMA MoveTabRequest ==
    ASSUME Whole(s), NEW f \in Frames, NEW off \in {-1, 1}, MoveTab(f, off)
    PROVE  Minds(s, s')
  <1>1. DOMAIN s = Fields /\ Known(s)
    BY WholeIs
  <1>2. \/ s' = s
        \/ s' = [s EXCEPT !.kids = [s.kids EXCEPT ![f] = MoveRel(s.kids[f], s.child[f], off)]]
    BY DEF MoveTab, MoveChildRel
  <1> DEFINE q == [s.kids EXCEPT ![f] = MoveRel(s.kids[f], s.child[f], off)]
  <1>3. s' = s \/ s' = [s EXCEPT !.kids = q]
    BY <1>2
  <1> HIDE DEF q
  <1>4. SameFocus(s, s') /\ s'.child = s.child /\ s'.parent = s.parent
    BY <1>1, <1>3, FieldFocus DEF Fields, SameFocus
  <1>5. Sees(s, s')
    BY <1>1, <1>4, SameTells, SeesTells DEF Known, SameFocus
  <1> QED BY <1>5 DEF Sees, Minds

(* A program takes its window away: the server's word of it follows. *)
LEMMA WithdrawRequest ==
    ASSUME Whole(s), NEW c \in Clients, Withdraw(c)
    PROVE  Minds(s, s')
  <1> DEFINE e == Withdrawn(c)
             t == Post(s, e)
             x == XUnmapWindow(t, c)
             u == IF s.cmapped[c] THEN x ELSE t
             y == u.gone \cup {c}
             v == [u EXCEPT !.gone = y]
  <1>0. Formed(s) /\ Known(s) /\ Heard(s) /\ DOMAIN s = Fields /\ c \notin s.gone
    BY WholeIs DEF Known, Withdraw
  <1>1. s' = v
    BY DEF Withdraw
  <1>2. e \in Events /\ e.type = "Withdrawn"
    BY EventTypes
  <1> HIDE DEF e
  <1>3. Tells(s, t)
    BY <1>0, <1>2, PostTells
  <1>4. Formed(t) /\ t.gone = s.gone /\ t.cmapped = s.cmapped /\ t.input = s.input
    <2>1. t.queue = Append(s.queue, e) /\ \A z \in Fields \ {"queue"} : t[z] = s[z]
      BY <1>0, <1>2, PostTold
    <2>2. DOMAIN t = Fields
      BY <1>0 DEF Post
    <2> QED BY <1>0, <1>2, <2>1, <2>2, AppendProperties DEF Formed, Fields
  <1> HIDE DEF t
  <1>5. Tells(t, x) /\ x.input # c
    BY <1>0, <1>3, <1>4, XUnmapWindowTells DEF Tells, Heard
  <1>6. x.gone = t.gone /\ DOMAIN x = Fields
    BY <1>4 DEF XUnmapWindow, LoseInput, Post, Formed, Fields
  <1> HIDE DEF x
  <1>7. Tells(s, u) /\ u.gone = s.gone /\ DOMAIN u = Fields /\ u.input # c
    <2>1. Tells(s, x)
      BY <1>3, <1>5, TellsOn
    <2>2. ~ s.cmapped[c] => t.input # c
      BY <1>0, <1>4 DEF Heard, HasInput
    <2> QED BY <1>3, <1>4, <1>5, <1>6, <2>1, <2>2 DEF Formed
  <1> HIDE DEF u
  <1>8. Known(u)
    BY <1>0, <1>7, KnownTells
  <1> HIDE DEF y
  <1>9. v.gone = y /\ DOMAIN v = Fields /\ \A z \in Fields \ {"gone"} : v[z] = u[z]
    BY <1>7 DEF Fields
  <1> HIDE DEF v
  <1>10. /\ v.fmapped = u.fmapped /\ v.fsticky = u.fsticky /\ v.csticky = u.csticky
         /\ v.cmapped = u.cmapped /\ v.input = u.input /\ v.queue = u.queue /\ v.last = u.last
         /\ v.parent = u.parent /\ v.child = u.child /\ v.focused = u.focused
         /\ v.ffocused = u.ffocused /\ v.gone = u.gone \cup {c}
    BY <1>9 DEF Fields, y
  <1>11. Known(v)
    <2>1. Heard(v)
      BY <1>7, <1>8, <1>10 DEF Known, Heard, Plain, HasInput
    <2>2. NoWord(v) => NoWord(u)
      BY <1>10 DEF NoWord, Told
    <2> QED BY <1>8, <1>10, <2>1, <2>2 DEF Known, Minded, Believed
  <1>12. v.child = s.child /\ v.parent = s.parent
    BY <1>1, WithdrawTabs DEF SameTree, Whole
  <1>13. Lit(s, {}) => Lit(u, {})
    BY <1>0, <1>7, <1>10, <1>12, LitTells
  <1>14. Lit(u, {}) => Lit(v, {})
    <2>1. \A w : Told(u, w) => Told(v, w)
      BY <1>10 DEF Told
    <2>2. \A f \in Frames : Holds(u, f) => Holds(v, f)
      BY <1>10, <2>1 DEF Holds
    <2> QED BY <1>10, <2>2 DEF Lit
  <1> QED BY <1>1, <1>11, <1>13, <1>14 DEF Minds

LEMMA RaiseSteady ==
    ASSUME NEW t, Steady(t), NEW f
    PROVE  Steady(Raise(t, f))
  <1>1. DOMAIN t = Fields /\ Formed(t) /\ Tabbed(t, {})
    BY DEF Steady, Formed
  <1> DEFINE u == Raise(t, f)
  <1>2. /\ u.kids = t.kids /\ u.child = t.child /\ u.parent = t.parent /\ u.queue = t.queue
        /\ DOMAIN u = Fields
    BY <1>1 DEF Raise, Fields
  <1>3. Tabbed(u, {})
    BY <1>1, RaiseTabs
  <1> HIDE DEF u
  <1>4. Formed(u) /\ Housed(u) /\ Faced(u)
    BY <1>2 DEF Steady, Formed, Housed, Faced, Exists
  <1> QED BY <1>3, <1>4 DEF Steady, u

(* A frame is drawn as focused before it is mapped and gets the focus. *)
LEMMA FocusToggleRequest ==
    ASSUME Whole(s), NEW f \in Frames, NEW raise \in BOOLEAN, FocusToggle(f, raise)
    PROVE  Minds(s, s')
  <1> DEFINE x == SetFocused(s, s.focused, FALSE)
             y == [x.ffocused EXCEPT ![f] = TRUE]
             t == [x EXCEPT !.ffocused = y]
             n == t.active
             v == SetFrameWorkspace(t, f, n)
             w == MapFrame(v, f)
             r == Raise(w, f)
             p == Raise(t, f)
             u == IF t.ficon[f] THEN r ELSE IF raise THEN p ELSE t
  <1>0. Formed(s) /\ Known(s) /\ Heard(s) /\ Steady(s) /\ Exists(s, f)
    BY WholeIs DEF Known, FocusToggle, Live
  <1>1. s' = GiveFrameFocus(u, f)
    BY DEF FocusToggle
  <1>2. Keeps(s, x) /\ Formed(x) /\ SameLook(s, x) /\ Tells(s, x)
    BY <1>0, SetFocusedKeeps, KeepsForm, FocusLook, SetFocusedTells DEF Formed
  <1> HIDE DEF x
  <1>3. Known(x) /\ Sees(s, x) /\ Steady(x)
    BY <1>0, <1>2, SeesFollows, SteadyLook DEF Follows, Sees
  <1>4. y \in [Frames -> BOOLEAN] /\ \A g \in Frames \ {f} : y[g] <=> x.ffocused[g]
    BY <1>3 DEF Known, Heard, Plain
  <1> HIDE DEF y
  <1>5. /\ Keeps(x, t) /\ SameLook(x, t) /\ t.ffocused = y
        /\ t.fmapped = x.fmapped /\ t.fsticky = x.fsticky /\ t.csticky = x.csticky
        /\ t.cmapped = x.cmapped /\ t.input = x.input /\ t.gone = x.gone /\ t.queue = x.queue
        /\ t.focused = x.focused /\ t.last = x.last /\ t.parent = x.parent /\ t.child = x.child
    BY <1>2 DEF Formed, Fields, Keeps, Stays, SameTree, SameLists, SameFlags, SamePlaces, SameLook
  <1> HIDE DEF t, n
  <1>6. Known(t)
    <2>1. Heard(t)
      BY <1>3, <1>4, <1>5 DEF Known, Heard, Plain, HasInput
    <2>2. NoWord(t) => NoWord(x)
      BY <1>5 DEF NoWord, Told
    <2> QED BY <1>3, <1>5, <2>1, <2>2 DEF Known, Minded, Believed
  <1>7. Lit(s, {}) => Lit(t, {f})
    <2>1. \A g \in Frames : Holds(x, g) => Holds(t, g)
      BY <1>5 DEF Holds, Told
    <2> QED BY <1>3, <1>4, <1>5, <2>1 DEF Sees, Lit
  <1>8. Steady(t) /\ Aware(t) /\ Exists(t, f)
    <2>1. Steady(t)
      BY <1>3, <1>5, SteadyLook
    <2> QED BY <1>0, <1>2, <1>5, <1>6, <2>1, KeepsExists DEF Known, Aware, Steady
  <1>9. Follows(t, v) /\ Steady(v)
    BY <1>8, SetFrameWorkspaceFollows, SetFrameWorkspaceTabs
  <1> HIDE DEF v
  <1>10. Sees(t, v) /\ Aware(v) /\ Exists(v, f)
    BY <1>6, <1>8, <1>9, SeesFollows, FollowsAware, KeepsExists DEF Follows
  <1>11. Follows(v, w) /\ Steady(w) /\ w.fmapped[f]
    <2>1. Steady(w)
      BY <1>9, <1>10, SteadyMapped
    <2>2. v.child[f] \in Clients /\ v.parent[v.child[f]] = f /\ Formed(v) /\ Housed(v) /\ Tabbed(v, {})
      BY <1>9, <1>10 DEF Steady, Faced
    <2> QED BY <1>10, <2>1, <2>2, MappingFollows, MapFrameTabs
  <1> HIDE DEF w
  <1>12. Sees(t, w) /\ Known(w)
    BY <1>10, <1>11, SeesFollows, SeesOn DEF Sees
  <1>13. /\ Steady(r) /\ Sees(w, r) /\ r.fmapped = w.fmapped
         /\ Steady(p) /\ Sees(t, p) /\ p.fmapped = t.fmapped
    <2>1. DOMAIN w = Fields /\ DOMAIN t = Fields
      BY <1>8, <1>11 DEF Steady, Formed
    <2>2. r.fmapped = w.fmapped /\ p.fmapped = t.fmapped
      BY <2>1 DEF Raise, Fields
    <2> QED BY <1>6, <1>8, <1>11, <1>12, <2>1, <2>2, RaiseSteady, RaiseSees
  <1> HIDE DEF r, p
  <1>14. ~ t.ficon[f] => t.fmapped[f]
    <2>1. s.fmapped[f] \/ s.ficon[f]
      BY DEF FocusToggle
    <2>2. (t.fmapped[f] <=> s.fmapped[f]) /\ (t.ficon[f] <=> s.ficon[f])
      BY <1>2, <1>5 DEF SameLook, SameFlags
    <2> QED BY <2>1, <2>2
  <1>15. Steady(u) /\ Sees(t, u) /\ u.fmapped[f]
    BY <1>6, <1>8, <1>11, <1>12, <1>13, <1>14, SeesOn, SeesItself
  <1> HIDE DEF u
  <1>16. Known(u) /\ (Lit(t, {f}) => Lit(u, {f}))
    BY <1>15 DEF Sees
  <1>17. Sees(u, s') /\ (Lit(u, {f}) => Lit(s', {f} \ {f}))
    BY <1>1, <1>15, <1>16, FrontFocused
  <1>18. {f} \ {f} = {}
    OBVIOUS
  <1> QED BY <1>7, <1>16, <1>17, <1>18 DEF Minds, Sees

(* Two requests that move a tab to another frame. *)
LEMMA AttachMarkedRequest ==
    ASSUME NEW c \in Clients, NEW f \in Frames, Whole(s), AttachMarked(c, f)
    PROVE  Known(s')
  <1> DEFINE t == RemoveFromFrame(s, c)
             x == GP!RemoveChild(TreeOf(s), c)
             n == t.fws[f]
             v == [t.cws EXCEPT ![c] = n]
             u == [t EXCEPT !.cws = v]
  <1>1. s' = AddToFrame(u, f, c) /\ IsManaged(s, c)
    BY DEF AttachMarked, Managed
  <1>2. Becomes(s, t, x) /\ Formed(t) /\ Known(t)
    BY <1>1, RemoveFromFrameBecomes, RemovedLit DEF Becomes, Right, Whole
  <1> HIDE DEF t, x, v
  <1>3. Keeps(t, u)
    BY <1>2 DEF Formed, Fields, Keeps, Stays, SameTree, SameLists
  <1>4. SameFocus(t, u)
    BY <1>2, FieldFocus DEF Formed
  <1> HIDE DEF u
  <1>5. Right(u) /\ ~ IsManaged(u, c)
    <2>1. Becomes(s, u, x)
      BY <1>2, <1>3, BecomesKept
    <2>2. TreeOf(u) = GP!RemoveChild(TreeOf(s), c)
      BY <2>1 DEF Becomes, x
    <2> QED BY <1>1, <2>1, <2>2, AfterRemoval DEF Becomes, Whole
  <1>6. Known(u)
    BY <1>2, <1>4, SameTells, KnownTells DEF Known, SameFocus
  <1> QED BY <1>1, <1>5, <1>6, AddToFrameSees DEF Sees

LEMMA AttachClientRequest ==
    ASSUME NEW c \in Clients, NEW f \in Frames, Whole(s), AttachClient(c, f)
    PROVE  Minds(s, s')
  <1> DEFINE k == SetFocused(s, c, FALSE)
             t == RemoveFromFrame(k, c)
             u == AddToFrame(t, f, c)
             v == ActivateChild(u, f, c)
             z == GiveFrameFocus(v, f)
  <1>1. /\ s' = z /\ IsManaged(s, c) /\ f # s.parent[c] /\ f \in LiveIn(s) /\ s.fmapped[f]
        /\ Right(s) /\ Tabbed(s, {}) /\ Known(s) /\ Heard(s) /\ Formed(s)
    BY WholeIs DEF AttachClient, Managed, Live, LiveIn, Whole, Known
  <1>2. Keeps(s, k) /\ SameLook(s, k) /\ Tells(s, k)
    BY <1>1, SetFocusedKeeps, FocusLook, SetFocusedTells DEF Formed
  <1>3. ~ k.ffocused[s.parent[c]]
    <2>1. s.parent[c] \in Frames /\ DOMAIN s.ffocused = Frames
      BY <1>1, RightIs DEF LiveIn, Heard, Plain
    <2> QED BY <1>1, <2>1 DEF SetFocused, Formed, Fields
  <1> HIDE DEF k
  <1>4. Sees(s, k) /\ Known(k)
    BY <1>1, <1>2, SeesFollows DEF Follows, Sees
  <1>5. /\ Right(k) /\ IsManaged(k, c) /\ k.parent = s.parent /\ k.fmapped = s.fmapped
        /\ Tabbed(k, {}) /\ LiveIn(k) = LiveIn(s)
    BY <1>1, <1>2, RightKept, TabsSame, SameLive DEF Keeps, SameTree, SameLook, SameFlags, IsManaged
  <1>6. /\ Right(t) /\ TreeOf(t) = GP!RemoveChild(TreeOf(k), c) /\ Tabbed(t, {c})
        /\ t.fmapped[f] /\ Minds(k, t)
    <2>1. Becomes(k, t, GP!RemoveChild(TreeOf(k), c))
      BY <1>5, RemoveFromFrameBecomes
    <2>2. Tabbed(t, {c}) /\ t.fmapped[f]
      BY <1>1, <1>5, RemoveFromFrameTabs
    <2>3. Known(t) /\ (Lit(k, {}) => Lit(t, {}))
      BY <1>3, <1>4, <1>5, RemovedLit
    <2> HIDE DEF t
    <2> QED BY <2>1, <2>2, <2>3 DEF Becomes, Minds
  <1> HIDE DEF t
  <1>7. ~ IsManaged(t, c) /\ f \in LiveIn(t)
    BY <1>1, <1>5, <1>6, AfterRemoval
  <1>8. Right(u) /\ u.parent[c] = f
    BY <1>6, <1>7, AddToFrameBecomes DEF Becomes
  <1>9. Tabbed(u, {}) /\ Sees(t, u)
    <2>1. Joined(t, u, f, c) /\ Sees(t, u)
      BY <1>6, <1>7, AddToFrameJoins, AddToFrameSees DEF Minds
    <2> HIDE DEF u
    <2> QED BY <1>6, <2>1, JoinedTabs
  <1> HIDE DEF u
  <1>10. Known(v) /\ (Lit(u, {}) => Lit(v, {}))
    <2>1. Formed(u) /\ Housed(u) /\ Faced(u) /\ Known(u)
      BY <1>8, <1>9, RightFaced DEF Sees
    <2>2. \A g \in Frames : u.fmapped[g] /\ u.child[g] = c => g = f
      BY <1>8, <1>9, <2>1 DEF Faced, Tabbed
    <2>3. c \notin {}
      OBVIOUS
    <2>4. Known(v) /\ (Nearly(u, f) => Lit(v, {}))
      BY <1>8, <1>9, <2>1, <2>2, <2>3, ActivateChildLit
    <2> HIDE DEF v
    <2> QED BY <2>4, NearlyLit
  <1>11. Right(v) /\ f \in LiveIn(v)
    <2>1. IsManaged(u, c)
      BY <1>8, TabsAssumption DEF IsManaged
    <2>2. Becomes(u, ActivateChild(u, u.parent[c], c), GP!PutInFront(TreeOf(u), u.parent[c], c))
      BY <1>8, <2>1, ActivateChildBecomes
    <2>3. Becomes(u, v, GP!PutInFront(TreeOf(u), f, c))
      BY <1>8, <2>2
    <2>4. LiveIn(v) = LiveIn(u)
      BY <2>3, FrontLive DEF Becomes
    <2>5. f \in LiveIn(u)
      BY <1>8, <2>1, RightIs
    <2> QED BY <2>3, <2>4, <2>5 DEF Becomes
  <1> HIDE DEF v
  <1>12. Sees(v, z)
    BY <1>10, <1>11, FrameFocusSees
  <1> HIDE DEF z
  <1>13. Minds(s, z)
    BY <1>4, <1>6, <1>9, <1>10, <1>12 DEF Minds, Sees
  <1> QED BY <1>1, <1>13

(* All tabs of a frame move to another: the empty frame is not lit, and    *)
(* what another shows stays.                                               *)
LEMMA AttachFrameRequest ==
    ASSUME NEW f \in Frames, NEW g \in Frames, Whole(s), AttachFrame(g, f)
    PROVE  Minds(s, s')
  <1> DEFINE t == RunCalls(s, ForEach("Reparent", s.kids[g]))
             q == t.kids[f] \o t.kids[g]
             e == <<>>
             k == [t.kids EXCEPT ![f] = q, ![g] = e]
             p == [c \in Clients |-> IF t.parent[c] = g THEN f ELSE t.parent[c]]
             h == [t.child EXCEPT ![g] = None]
             y == [t EXCEPT !.kids = k, !.child = h, !.parent = p]
             u == AddDecor(t, f, g)
             m == [c \in Clients |-> IF u.parent[c] = f THEN u.fws[f] ELSE u.cws[c]]
             v == [u EXCEPT !.cws = m]
             w == DeleteFrame(v, g)
  <1>1. s' = w
    BY DEF AttachFrame
  <1>2. Right(s') /\ Merged(s, s', f, g) /\ s'.gone = s.gone
    BY WholeIs, AttachFrameBecomes, AttachFrameLook DEF Whole, Becomes, Stays, Tabbed
  <1>3. s.kids[g] \in Seq(Clients) /\ Formed(s) /\ Aware(s) /\ Known(s)
    BY WholeIs, RightIs DEF Formed, Whole
  <1>4. Follows(s, t) /\ Aware(t)
    <2>1. ForEach("Reparent", s.kids[g]) \in Seq(Calls)
      BY <1>3, ForEachClient
    <2> HIDE DEF t
    <2> QED BY <1>3, <2>1, RunCallsFollows, FollowsAware DEF t
  <1> HIDE DEF t
  <1>5. Moved(t, u, GP!AddDecor(TreeOf(t), f, g))
    BY <1>4, AddDecorMoves DEF Aware, Formed
  <1>6. u = y
    BY DEF AddDecor
  <1>15. Formed(u)
    <2>1. TreeOf(t) = TreeOf(s) /\ Formed(t)
      BY <1>3, <1>4, KeepsForm DEF TreeOf, Follows, Keeps, SameTree
    <2>2. GP!Good(GP!AddDecor(TreeOf(t), f, g))
      BY <2>1, WholeIs, AttachFrameBecomes DEF Whole, Becomes, Right
    <2> HIDE DEF u, y
    <2> QED BY <1>5, <2>1, <2>2, MovedForm DEF Moved, GP!Good
  <1> HIDE DEF q, e, k, p, h, m
  <1>7. SameFocus(t, y) /\ DOMAIN y = Fields
    BY <1>4 DEF Aware, Formed, Fields, SameFocus
  <1> HIDE DEF u, y
  <1>8. SameFocus(u, v) /\ DOMAIN v = Fields
    BY <1>6, <1>7, FieldFocus DEF Fields
  <1>16. Formed(v)
    BY <1>15 DEF Formed, Fields
  <1> HIDE DEF v
  <1>9. SameFocus(t, v)
    BY <1>6, <1>7, <1>8 DEF SameFocus
  <1>10. Tells(t, v)
    BY <1>4, <1>9, SameTells DEF Aware
  <1>11. Tells(v, w) /\ ~ w.ffocused[g]
    <2>1. Heard(v)
      BY <1>10 DEF Tells
    <2> QED BY <1>16, <2>1, DeleteFrameTells
  <1> HIDE DEF w
  <1>12. Tells(s, s')
    BY <1>1, <1>4, <1>10, <1>11, TellsOn DEF Follows
  <1>13. Known(s')
    BY <1>2, <1>3, <1>12, KnownTells
  <1>14. ASSUME Lit(s, {}) PROVE Lit(s', {})
    <2>1. Lit(s, {g})
      BY <1>14, LitMore
    <2>2. \A i \in Frames \ {g} : s'.child[i] = s.child[i]
      BY <1>2 DEF Merged
    <2>3. \A i \in Frames \ {g}, c \in Clients : s.parent[c] = i => s'.parent[c] = i
      BY <1>2 DEF Merged
    <2>4. Lit(s', {g})
      BY <1>2, <1>12, <2>1, <2>2, <2>3, LitTells
    <2> QED BY <1>1, <1>11, <2>4, Unlit
  <1> QED BY <1>13, <1>14 DEF Minds

(* A new window: what was left of one with its address is forgotten. *)
LEMMA ManageMinds ==
    ASSUME NEW t, Whole(t), NEW c \in Clients, ~ IsManaged(t, c), NEW f \in Frames,
           NEW place \in {"new", "front", "behind"}, place = "new" <=> f \notin LiveIn(t),
           NEW icon \in BOOLEAN, NEW focus, NEW same
    PROVE  Minds(t, Manage(t, c, f, place, icon, focus, same))
  <1> DEFINE owner == TransientFor[c]
             w == IF owner # None /\ IsManaged(t, owner) THEN owner ELSE None
             l == IF same THEN t.last ELSE [n \in Workspaces |-> IF t.last[n] = c THEN None ELSE t.last[n]]
             u == [t EXCEPT !.cws[c] = t.active, !.cicon[c] = icon, !.transient[c] = w, !.last = l]
             v == FindOrCreateFrame(u, c, f, place)
             x == SetMappedStateAndFocus(v, c, focus)
             y == FindAndRaiseIfTransient(x, c)
  <1>0. Right(t) /\ Formed(t) /\ Tabbed(t, {}) /\ Known(t)
    BY WholeIs DEF Whole
  <1>1. Manage(t, c, f, place, icon, focus, same) = y
    <2>1. [t EXCEPT !.cws[c] = t.active, !.cicon[c] = icon, !.transient[c] = w,
             !.last = IF same THEN @
                      ELSE [n \in Workspaces |-> IF @[n] = c THEN None ELSE @[n]]] = u
      BY <1>0 DEF Formed, Fields
    <2> QED BY <2>1 DEF Manage
  <1>2. l \in [Workspaces -> Clients \cup {Root, None}]
    BY <1>0 DEF Known, Minded
  <1> HIDE DEF w, l, y
  <1>3. /\ Formed(u) /\ SameTree(t, u) /\ SameLists(t, u)
        /\ u.fmapped = t.fmapped /\ u.ficon = t.ficon /\ u.cmapped = t.cmapped
        /\ u.cicon = [t.cicon EXCEPT ![c] = icon]
    BY <1>0 DEF Formed, Fields, SameTree, SameLists
  <1>4. /\ u.fsticky = t.fsticky /\ u.csticky = t.csticky /\ u.input = t.input /\ u.queue = t.queue
        /\ u.gone = t.gone /\ u.focused = t.focused /\ u.ffocused = t.ffocused /\ u.last = l
    BY <1>0 DEF Formed, Fields
  <1> HIDE DEF u
  <1>5. Right(u) /\ LiveIn(u) = LiveIn(t) /\ ~ IsManaged(u, c)
    <2>1. TreeOf(u) = TreeOf(t) /\ LiveIn(u) = LiveIn(t) /\ ~ IsManaged(u, c)
      BY <1>3, SameLive DEF SameTree, TreeOf, IsManaged
    <2>2. Listed(u)
      BY <1>0, <1>3, <2>1, KeepsListed DEF Right
    <2> QED BY <1>0, <1>3, <2>1, <2>2 DEF Right
  <1>6. ~ t.cmapped[c]
    BY <1>0, TabsAssumption DEF Tabbed, IsManaged
  <1>7. Tabbed(u, {}) /\ ~ u.cmapped[c]
    <2>1. /\ \A d \in Clients \ {c} : u.cicon[d] = t.cicon[d]
          /\ Flags(u)
      BY <1>0, <1>3 DEF Tabbed, Flags
    <2> QED BY <1>0, <1>3, <1>6, <2>1 DEF Tabbed, SameTree, Exists
  <1>8. Sees(t, u)
    <2>1. Heard(u)
      BY <1>0, <1>3, <1>4 DEF Known, Heard, Plain, HasInput
    <2>2. (NoWord(u) <=> NoWord(t)) /\ \A g \in Frames : Holds(t, g) => Holds(u, g)
      BY <1>3, <1>4 DEF NoWord, Told, Holds, SameTree
    <2>3. Known(u)
      BY <1>0, <1>2, <1>4, <2>1, <2>2 DEF Known, Minded, Believed
    <2> QED BY <1>3, <1>4, <2>2, <2>3 DEF Sees, Lit
  <1>9. Right(v) /\ v.parent[c] = f /\ Minds(u, v)
    <2>1. Right(v) /\ v.parent[c] = f
      BY <1>5, <1>7, FrameFound DEF Becomes
    <2>2. Known(v) /\ (Lit(u, {}) => Lit(v, {}))
      BY <1>5, <1>7, <1>8, FrameFoundLit DEF Sees
    <2> HIDE DEF v
    <2> QED BY <2>1, <2>2 DEF Minds
  <1> HIDE DEF v
  <1>10. IsManaged(v, c)
    BY <1>9, TabsAssumption DEF IsManaged
  <1>11. Sees(v, x) /\ Formed(x)
    BY <1>9, <1>10, MappedStateSees, MappedStateKeeps, KeepsForm DEF Right, Minds
  <1> HIDE DEF x
  <1>12. Sees(x, y)
    <2>1. DOMAIN x = Fields /\ Known(x)
      BY <1>11 DEF Formed, Sees
    <2> QED BY <2>1, RaiseSees, SeesItself DEF y, FindAndRaiseIfTransient
  <1>13. Minds(t, y)
    BY <1>8, <1>9, <1>11, <1>12 DEF Minds, Sees
  <1> QED BY <1>1, <1>13

LEMMA MapNewRequest ==
    ASSUME NEW c \in Clients, Whole(s), MapNew(c)
    PROVE  Minds(s, s')
  <1>1. PICK f \in Frames, place \in {"new", "front", "behind"}, icon \in BOOLEAN, focus \in BOOLEAN,
             same \in BOOLEAN :
          /\ c \notin Managed /\ (place = "new" <=> f \notin Live)
          /\ s' = Manage(s, c, f, place, icon, focus, same)
    BY DEF MapNew
  <1>2. ~ IsManaged(s, c) /\ Live = LiveIn(s)
    BY <1>1 DEF Managed, Live, LiveIn
  <1> QED BY <1>1, <1>2, ManageMinds

(* An event e has been read from the queue of b, which leaves t. *)
Read(b, t, e) ==
    /\ Formed(b) /\ b.queue # <<>> /\ e = Head(b.queue) /\ t.queue = Tail(b.queue)
    /\ DOMAIN t = Fields /\ \A x \in Fields \ {"queue"} : t[x] = b[x]

LEMMA ReadSame ==
    ASSUME NEW b, NEW t, NEW e, Read(b, t, e)
    PROVE  /\ t.kids = b.kids /\ t.child = b.child /\ t.parent = b.parent
           /\ t.fmapped = b.fmapped /\ t.ffocused = b.ffocused /\ t.fsticky = b.fsticky
           /\ t.cmapped = b.cmapped /\ t.csticky = b.csticky /\ t.focused = b.focused
           /\ t.last = b.last /\ t.input = b.input /\ t.gone = b.gone
           /\ e \in Events /\ t.queue \in Seq(Events) /\ Formed(t)
  <1>1. e \in Events /\ t.queue \in Seq(Events)
    BY TailElements DEF Read, Formed
  <1>2. t.kids = b.kids
    BY DEF Read, Fields
  <1> QED BY <1>1, <1>2 DEF Read, Fields, Formed

(* What the server has said since, and before. *)
LEMMA ReadTold ==
    ASSUME NEW b, NEW t, NEW e, Read(b, t, e), Heard(b)
    PROVE  /\ Heard(t)
           /\ \A x : Told(t, x) => Told(b, x)
           /\ \A x : Told(b, x) => Told(t, x) \/ e = FocusIn(x)
           /\ NoWord(t) => /\ e.type = "FocusIn" => e.window = t.input
                           /\ e.type = "Unmapped" => e.window # t.input
  <1> DEFINE q == b.queue
  <1>1. q \in Seq(Events) /\ q # <<>> /\ t.queue = Tail(q) /\ e = Head(q) /\ t.input = b.input
    BY ReadSame DEF Read, Formed
  <1> HIDE DEF q
  <1>2. /\ e = q[1] /\ 1 \in DOMAIN q /\ Len(q) \in Nat /\ DOMAIN q = 1..Len(q)
        /\ DOMAIN t.queue = 1..(Len(q) - 1)
        /\ \A j \in 1..(Len(q) - 1) : t.queue[j] = q[j + 1]
        /\ \A j \in DOMAIN q : q[j] \in Events
    BY <1>1
  <1>3. Heard(t)
    <2>1. Agree(Tail(q), b.input)
      BY <1>1, AgreeTail DEF Heard, q
    <2> QED BY <1>1, <2>1, ReadSame DEF Heard, Plain, HasInput
  <1>4. \A x : Told(t, x) => Told(b, x)
    <2>1. SUFFICES ASSUME NEW x, NEW j \in DOMAIN t.queue, t.queue[j] = FocusIn(x) PROVE Told(b, x)
      BY DEF Told
    <2>2. j + 1 \in DOMAIN q /\ q[j + 1] = FocusIn(x)
      BY <1>2, <2>1
    <2> QED BY <2>2 DEF Told, q
  <1>5. \A x : Told(b, x) => Told(t, x) \/ e = FocusIn(x)
    <2>1. SUFFICES ASSUME NEW x, NEW j \in DOMAIN q, q[j] = FocusIn(x), j # 1 PROVE Told(t, x)
      BY <1>2 DEF Told, q
    <2>2. j - 1 \in DOMAIN t.queue /\ t.queue[j - 1] = q[j]
      BY <1>2, <2>1
    <2> QED BY <2>1, <2>2 DEF Told
  <1>6. NoWord(t) => Latest(q, 1)
    <2>1. SUFFICES ASSUME NEW j \in DOMAIN q, 1 < j, q[j].type = "FocusIn" PROVE ~ NoWord(t)
      BY <1>2 DEF Latest
    <2>2. j - 1 \in DOMAIN t.queue /\ t.queue[j - 1] = q[j]
      BY <1>2, <2>1
    <2>3. q[j] = FocusIn(q[j].window)
      BY <1>2, <2>1 DEF Events, FocusIn
    <2>4. Told(t, q[j].window)
      BY <2>2, <2>3 DEF Told
    <2> QED BY <2>4 DEF NoWord
  <1>7. Latest(q, 1) => /\ e.type = "FocusIn" => e.window = b.input
                        /\ e.type = "Unmapped" => e.window # b.input
    BY <1>2 DEF Heard, Agree, q
  <1> QED BY <1>1, <1>3, <1>4, <1>5, <1>6, <1>7

LEMMA FocusInWindow ==
    ASSUME NEW w, NEW x, FocusIn(w) = FocusIn(x)
    PROVE  w = x
  <1>1. FocusIn(w).window = w /\ FocusIn(x).window = x
    BY DEF FocusIn
  <1> QED BY <1>1

(* The server's word is taken: z believes w to be focused. *)
Noted(t, z, w) ==
    /\ z.queue = t.queue /\ z.input = t.input /\ z.gone = t.gone
    /\ z.cmapped = t.cmapped /\ z.fmapped = t.fmapped /\ z.fsticky = t.fsticky /\ z.csticky = t.csticky
    /\ z.parent = t.parent /\ z.child = t.child
    /\ z.focused = w /\ z.last \in [Workspaces -> Clients \cup {Root, None}]
    /\ z.ffocused \in [Frames -> BOOLEAN]
    /\ \A f \in Frames : z.ffocused[f] =>
         \/ w \in Clients /\ t.parent[w] = f
         \/ t.ffocused[f] /\ ~ (t.focused \in Clients /\ t.parent[t.focused] = f)

LEMMA NotedMinds ==
    ASSUME NEW b, Whole(b), NEW t, NEW w \in Clients \cup {Root}, Read(b, t, FocusIn(w)),
           w \in Clients => t.cmapped[w], NEW z, Noted(t, z, w)
    PROVE  Minds(b, z)
  <1>1. /\ Known(b) /\ Heard(b) /\ Faced(b) /\ Tabbed(b, {})
    BY WholeIs DEF Known, Whole, Arranged
  <1>2. /\ Heard(t) /\ \A x : Told(b, x) => Told(t, x) \/ x = w
        /\ NoWord(t) => w = t.input
    <2>1. FocusIn(w).type = "FocusIn" /\ FocusIn(w).window = w
      BY DEF FocusIn
    <2> QED BY <1>1, <2>1, ReadTold, FocusInWindow
  <1>3. /\ t.child = b.child /\ t.parent = b.parent /\ t.fmapped = b.fmapped
        /\ t.ffocused = b.ffocused /\ t.cmapped = b.cmapped /\ t.focused = b.focused
        /\ t.gone = b.gone
    BY ReadSame
  <1>4. Known(z)
    <2>1. Heard(z)
      BY <1>2 DEF Heard, Plain, HasInput, Noted
    <2>2. NoWord(z) => NoWord(t)
      BY DEF NoWord, Told, Noted
    <2> QED BY <1>2, <2>1, <2>2 DEF Known, Minded, Believed, Noted
  <1>5. ASSUME Lit(b, {}), NEW f \in Frames, z.ffocused[f] PROVE z.fmapped[f] /\ Holds(z, f)
    <2>1. CASE w \in Clients /\ t.parent[w] = f
      <3>1. t.fmapped[f]
        BY <1>1, <1>3, <2>1 DEF Tabbed
      <3> QED BY <2>1, <3>1 DEF Noted, Holds
    <2>2. CASE /\ ~ (w \in Clients /\ t.parent[w] = f)
               /\ t.ffocused[f] /\ ~ (t.focused \in Clients /\ t.parent[t.focused] = f)
      <3>1. b.fmapped[f] /\ (Told(b, b.child[f]) \/ b.child[f] \in b.gone)
        BY <1>3, <1>5, <2>2 DEF Lit, Holds
      <3>2. b.child[f] \in Clients /\ b.parent[b.child[f]] = f
        BY <1>1, <3>1 DEF Tabbed, Faced
      <3>3. b.child[f] # w
        BY <1>3, <2>2, <3>2
      <3>4. Told(t, t.child[f]) \/ t.child[f] \in t.gone
        BY <1>2, <1>3, <3>1, <3>3
      <3> QED BY <1>3, <3>1, <3>4 DEF Noted, Holds, Told
    <2> QED BY <1>5, <2>1, <2>2 DEF Noted
  <1> QED BY <1>4, <1>5 DEF Minds, Lit

(* The server's word is of a window that is not shown any more. *)
LEMMA PassedMinds ==
    ASSUME NEW b, Whole(b), NEW t, NEW w \in Clients, Read(b, t, FocusIn(w)),
           ~ IsManaged(t, w) \/ ~ t.cmapped[w]
    PROVE  Minds(b, t)
  <1>1. /\ Known(b) /\ Heard(b) /\ Faced(b) /\ Tabbed(b, {})
    BY WholeIs DEF Known, Whole, Arranged
  <1>2. /\ Heard(t) /\ \A x : Told(b, x) => Told(t, x) \/ x = w
        /\ NoWord(t) => w = t.input
    <2>1. FocusIn(w).type = "FocusIn" /\ FocusIn(w).window = w
      BY DEF FocusIn
    <2> QED BY <1>1, <2>1, ReadTold, FocusInWindow
  <1>3. /\ t.child = b.child /\ t.parent = b.parent /\ t.fmapped = b.fmapped
        /\ t.ffocused = b.ffocused /\ t.cmapped = b.cmapped /\ t.focused = b.focused
        /\ t.gone = b.gone /\ t.last = b.last
    BY ReadSame
  <1>4. ~ t.cmapped[w]
    BY <1>1, <1>3, TabsAssumption DEF Tabbed, IsManaged
  <1>5. ~ NoWord(t)
    BY <1>2, <1>4 DEF Heard, HasInput
  <1>6. Known(t)
    BY <1>1, <1>2, <1>3, <1>5 DEF Known, Minded, Believed
  <1>7. ASSUME Lit(b, {}), NEW f \in Frames, t.ffocused[f] PROVE t.fmapped[f] /\ Holds(t, f)
    <2>1. b.fmapped[f] /\ Holds(b, f)
      BY <1>3, <1>7 DEF Lit
    <2>2. b.child[f] # w
      BY <1>1, <1>3, <1>4, <2>1 DEF Tabbed
    <2> QED BY <1>2, <1>3, <2>1, <2>2 DEF Holds
  <1> QED BY <1>6, <1>7 DEF Minds, Lit

LEMMA FocusInMinds ==
    ASSUME NEW b, Whole(b), NEW t, Right(t), NEW w \in Clients \cup {Root}, Read(b, t, FocusIn(w))
    PROVE  Minds(b, HandleFocusIn(t, w))
  <1> DEFINE x == SetFocused(t, t.focused, FALSE)
             l == [t.last EXCEPT ![t.active] = IF t.focused = None THEN t.last[t.active] ELSE t.focused]
             u == [x EXCEPT !.last = l, !.focused = w]
             f == t.parent[w]
             y == [u.ffocused EXCEPT ![f] = TRUE]
             m == Append(Sieve(t.mru, Frames \ {f}), f)
             v == [u EXCEPT !.ffocused = y, !.mru = m]
             z == HandleFocusIn(t, w)
  <1> SUFFICES Minds(b, z)
    OBVIOUS
  <1>1. /\ Known(b) /\ Heard(t) /\ Formed(t)
        /\ t.focused \in Clients \cup {Root, None} /\ t.last \in [Workspaces -> Clients \cup {Root, None}]
        /\ t.ffocused \in [Frames -> BOOLEAN]
    <2>1. Known(b)
      BY DEF Whole
    <2>2. Heard(t)
      BY <2>1, ReadTold DEF Known
    <2>3. t.focused = b.focused /\ t.last = b.last
      BY ReadSame
    <2> QED BY <2>1, <2>2, <2>3 DEF Known, Minded, Heard, Plain, Right
  <1>2. ~ (w = Root /\ w \in Clients) /\ Root \notin Frames /\ None \notin Clients \cup Frames
    BY WmAssumption, TabsAssumption
  <1>3. /\ DOMAIN x = Fields /\ \A h \in Fields \ {"ffocused"} : x[h] = t[h]
        /\ x.ffocused \in [Frames -> BOOLEAN]
        /\ \A g \in Frames : x.ffocused[g] =>
             t.ffocused[g] /\ ~ (t.focused \in Clients /\ t.parent[t.focused] = g)
    <2> DEFINE k == t.parent[t.focused]
               r == [t.ffocused EXCEPT ![k] = FALSE]
    <2>1. CASE t.focused \in Clients /\ IsManaged(t, t.focused)
      <3>1. x = [t EXCEPT !.ffocused = r]
        BY <1>1, <2>1 DEF SetFocused, Formed, Fields
      <3>2. r \in [Frames -> BOOLEAN] /\ \A g \in Frames : r[g] => t.ffocused[g] /\ g # k
        BY <1>1
      <3> HIDE DEF x, r
      <3>3. x.ffocused = r /\ DOMAIN x = Fields /\ \A h \in Fields \ {"ffocused"} : x[h] = t[h]
        BY <1>1, <3>1 DEF Formed, Fields
      <3> QED BY <3>2, <3>3
    <2>2. CASE ~ (t.focused \in Clients /\ IsManaged(t, t.focused))
      <3>1. x = t
        BY <2>2 DEF SetFocused
      <3>2. \A g \in Frames : ~ (t.focused \in Clients /\ t.parent[t.focused] = g)
        BY <1>2, <2>2 DEF IsManaged
      <3> HIDE DEF x
      <3> QED BY <1>1, <3>1, <3>2 DEF Formed
    <2> QED BY <2>1, <2>2
  <1>4. l \in [Workspaces -> Clients \cup {Root, None}]
    <2>1. CASE t.active \in Workspaces
      BY <1>1, <2>1
    <2>2. CASE t.active \notin Workspaces
      <3>1. l = t.last
        BY <1>1, <2>2
      <3> QED BY <1>1, <3>1
    <2> QED BY <2>1, <2>2
  <1>5. u = [x EXCEPT !.last[t.active] = IF t.focused = None THEN @ ELSE t.focused, !.focused = w]
    <2>1. x.last = t.last /\ DOMAIN x = Fields
      BY <1>3 DEF Fields
    <2> HIDE DEF x
    <2> QED BY <2>1 DEF Fields
  <1>6. z = IF w = Root THEN IF t.focused = Root THEN t ELSE u
            ELSE IF ~ IsManaged(t, w) THEN t
            ELSE IF ~ t.cmapped[w] THEN FindWOAndFocus(t, None)
            ELSE IF w = t.focused THEN t
            ELSE [SetFocused(u, w, TRUE) EXCEPT !.mru = Append(Sieve(@, Frames \ {f}), f)]
    BY <1>5 DEF HandleFocusIn
  <1> HIDE DEF x, l, z
  <1>7. /\ DOMAIN u = Fields /\ u.last = l /\ u.focused = w /\ u.ffocused = x.ffocused
        /\ \A h \in Fields \ {"ffocused", "last", "focused"} : u[h] = t[h]
    BY <1>3 DEF Fields
  <1> HIDE DEF u
  <1>8. /\ u.queue = t.queue /\ u.input = t.input /\ u.gone = t.gone /\ u.mru = t.mru
        /\ u.cmapped = t.cmapped /\ u.fmapped = t.fmapped /\ u.fsticky = t.fsticky
        /\ u.csticky = t.csticky /\ u.parent = t.parent /\ u.child = t.child
    BY <1>7 DEF Fields
  <1>9. Noted(t, u, w)
    BY <1>3, <1>4, <1>7, <1>8 DEF Noted
  <1>10. t.focused = w => Noted(t, t, w)
    BY <1>1 DEF Noted
  <1>11. CASE w = Root
    <2>1. (z = t /\ t.focused = w) \/ z = u
      BY <1>6, <1>11
    <2> QED BY <1>2, <1>9, <1>10, <1>11, <2>1, NotedMinds
  <1>12. CASE w \in Clients /\ (~ IsManaged(t, w) \/ ~ t.cmapped[w])
    <2>1. Minds(b, t)
      BY <1>12, PassedMinds
    <2>2. Sees(t, FindWOAndFocus(t, None))
      BY <2>1, FindIfNoneSees DEF Minds
    <2>3. z = t \/ z = FindWOAndFocus(t, None)
      BY <1>2, <1>6, <1>12
    <2> QED BY <2>1, <2>2, <2>3, MindsOn
  <1>13. CASE w \in Clients /\ IsManaged(t, w) /\ t.cmapped[w] /\ w = t.focused
    <2>1. z = t
      BY <1>2, <1>6, <1>13
    <2> QED BY <1>10, <1>13, <2>1, NotedMinds
  <1>14. CASE w \in Clients /\ IsManaged(t, w) /\ t.cmapped[w] /\ w # t.focused
    <2>1. z = [SetFocused(u, w, TRUE) EXCEPT !.mru = Append(Sieve(@, Frames \ {f}), f)]
      BY <1>2, <1>6, <1>14
    <2>2. f \in Frames
      BY <1>14, RightIs DEF LiveIn
    <2>3. SetFocused(u, w, TRUE) = [u EXCEPT !.ffocused = y]
      BY <1>7, <1>8, <1>14 DEF SetFocused, IsManaged, Fields
    <2>4. y \in [Frames -> BOOLEAN] /\ \A g \in Frames : y[g] => u.ffocused[g] \/ g = f
      BY <1>3, <1>7, <2>2
    <2> HIDE DEF y
    <2>5. z = v
      <3>1. z = [[u EXCEPT !.ffocused = y] EXCEPT !.mru = Append(Sieve(@, Frames \ {f}), f)]
        BY <2>1, <2>3
      <3> QED BY <1>7, <1>8, <3>1 DEF Fields
    <2> HIDE DEF m
    <2>6. /\ v.queue = u.queue /\ v.input = u.input /\ v.gone = u.gone /\ v.ffocused = y
          /\ v.cmapped = u.cmapped /\ v.fmapped = u.fmapped /\ v.fsticky = u.fsticky
          /\ v.csticky = u.csticky /\ v.parent = u.parent /\ v.child = u.child
          /\ v.focused = u.focused /\ v.last = u.last
      BY <1>7 DEF Fields
    <2> HIDE DEF v
    <2>7. Noted(t, v, w)
      BY <1>3, <1>9, <1>7, <1>14, <2>4, <2>6 DEF Noted
    <2> QED BY <1>14, <2>5, <2>7, NotedMinds
  <1> QED BY <1>11, <1>12, <1>13, <1>14

(* No other event says where the focus is. *)
LEMMA OtherSees ==
    ASSUME NEW b, Whole(b), NEW t, NEW e, Read(b, t, e), e.type # "FocusIn"
    PROVE  Sees(b, t)
  <1>1. Known(b) /\ Heard(b)
    BY DEF Whole, Known
  <1>2. \A x : e # FocusIn(x)
    BY DEF FocusIn
  <1>3. Heard(t) /\ \A x : Told(t, x) <=> Told(b, x)
    BY <1>1, <1>2, ReadTold
  <1>4. /\ t.child = b.child /\ t.parent = b.parent /\ t.fmapped = b.fmapped
        /\ t.ffocused = b.ffocused /\ t.focused = b.focused
        /\ t.gone = b.gone /\ t.last = b.last /\ t.input = b.input
    BY ReadSame
  <1>5. Known(t)
    BY <1>1, <1>3, <1>4 DEF Known, Minded, Believed, NoWord
  <1>6. \A f \in Frames : Holds(b, f) => Holds(t, f)
    BY <1>3, <1>4 DEF Holds
  <1> QED BY <1>4, <1>5, <1>6 DEF Sees, Lit

LEMMA UnmappedMinds ==
    ASSUME NEW b, Whole(b), NEW t, Right(t), Tabbed(t, {}), NEW e, e.type = "Unmapped", Read(b, t, e)
    PROVE  Minds(b, HandleUnmapped(t, e.window))
  <1> DEFINE w == e.window
             client == w \in Clients /\ IsManaged(t, w)
             n == [t EXCEPT !.focused = None]
             u == IF client /\ w = t.focused THEN n ELSE t
             g == IF client THEN t.parent[w] ELSE None
             z == FindIfNone(u, g)
  <1>1. HandleUnmapped(t, w) = z
    BY DEF HandleUnmapped
  <1>2. Sees(b, t) /\ Known(t) /\ (NoWord(t) => w # t.input)
    BY OtherSees, ReadTold DEF Sees, Whole, Known
  <1>3. CASE ~ (client /\ w = t.focused)
    <2>1. u = t
      BY <1>3
    <2>2. Sees(t, z)
      BY <1>2, <2>1, FindIfNoneSees
    <2> HIDE DEF z
    <2> QED BY <1>1, <1>2, <2>2 DEF Sees, Minds
  <1>4. CASE client /\ w = t.focused
    <2> DEFINE f == t.parent[w]
    <2>1. f \in Frames /\ w \in Clients /\ Formed(t)
      BY <1>4, RightIs DEF LiveIn
    <2>2. z = FindIfNone(n, f)
      BY <1>4
    <2>3. /\ n.focused = None /\ Keeps(t, n) /\ SameFlags(t, n)
          /\ n.queue = t.queue /\ n.input = t.input /\ n.gone = t.gone /\ n.last = t.last
          /\ n.cmapped = t.cmapped /\ n.fmapped = t.fmapped /\ n.fsticky = t.fsticky
          /\ n.csticky = t.csticky /\ n.ffocused = t.ffocused /\ n.child = t.child /\ n.parent = t.parent
      BY <2>1 DEF Formed, Fields, Keeps, Stays, SameTree, SameLists, SameFlags
    <2> HIDE DEF n, z
    <2>4. Right(n) /\ Tabbed(n, {})
      BY <2>3, RightKept, TabsSame DEF Keeps
    <2>5. Known(n)
      <3>1. Heard(n)
        BY <1>2, <2>3 DEF Known, Heard, Plain, HasInput
      <3>2. NoWord(n) => NoWord(t)
        BY <2>3 DEF NoWord, Told
      <3>3. NoWord(n) => n.input = Root
        BY <1>2, <1>4, <2>3, <3>2 DEF Known, Believed
      <3> QED BY <1>2, <2>3, <3>1, <3>3 DEF Known, Minded, Believed
    <2>6. ASSUME Lit(t, {}) PROVE Nearly(n, f)
      <3>1. \A h \in Frames \ {f} : Holds(t, h) => Holds(n, h)
        BY <1>4, <2>3 DEF Holds, Told
      <3> QED BY <2>1, <2>3, <2>6, <3>1 DEF Nearly, Lit
    <2>7. Known(z)
      BY <2>2, <2>4, <2>5, FindIfNoneSees DEF Sees
    <2>8. Lit(t, {}) => Lit(z, {})
      BY <2>1, <2>2, <2>3, <2>4, <2>5, <2>6, FindIfNoneLit
    <2> QED BY <1>1, <1>2, <2>7, <2>8 DEF Minds, Sees
  <1> QED BY <1>3, <1>4

(* A client that withdraws: the frame that drew it as focused may wait for *)
(* the focus it is given next.                                             *)
LEMMA DeletedLit ==
    ASSUME NEW t, Right(t), Tabbed(t, {}), Known(t), t.transient \in [Clients -> Clients \cup {None}],
           NEW c \in Clients, IsManaged(t, c), c \in t.gone
    PROVE  LET x == DeleteClient(t, c)
           IN  /\ Right(x) /\ Tabbed(x, {}) /\ Known(x)
               /\ Lit(t, {}) => /\ Nearly(x, t.parent[c])
                                /\ x.focused # None => Lit(x, {})
  <1> DEFINE f == t.parent[c]
             owner == t.transient[c]
             u == RemoveFromFrame(t, c)
             g == u.parent[owner]
             b == t.ffocused[f] /\ owner # None /\ u.child[g] = owner
             v == IF b THEN GiveFrameFocus(u, g) ELSE u
             a == [d \in Clients |-> IF d = c \/ v.transient[d] = c THEN None ELSE v.transient[d]]
             n == IF v.focused = c THEN None ELSE v.focused
             zero == 0
             no == FALSE
             y == v.gone \ {c}
             w == [v EXCEPT !.focused = n, !.transient = a, !.cws[c] = zero, !.cmapped[c] = no]
             x == [w EXCEPT !.cicon[c] = no, !.csticky[c] = no, !.gone = y]
  <1>1. DeleteClient(t, c) = x
    BY DEF DeleteClient
  <1>2. Right(x) /\ Tabbed(x, {}) /\ ~ IsManaged(x, c)
    <2>1. Deleted(t, DeleteClient(t, c), c) /\ Tabbed(DeleteClient(t, c), {})
      BY DeleteClientDone, DeleteClientTabs
    <2> HIDE DEF x
    <2> QED BY <1>1, <2>1, AfterRemoval DEF Deleted
  <1>3. owner \in Clients \cup {None} /\ f \in Frames
    BY RightIs DEF LiveIn
  <1>4. /\ Formed(u) /\ Known(u) /\ u.gone = t.gone /\ u.focused = t.focused
        /\ Lit(t, {}) => Nearly(u, f) /\ (t.focused # c \/ ~ t.ffocused[f] => Lit(u, {}))
    <2>1. Formed(u)
      BY RemoveFromFrameBecomes DEF Becomes, Right
    <2> QED BY <2>1, RemovedLit
  <1> HIDE DEF u, owner, f
  <1>5. Follows(u, v)
    <2>1. b => Follows(u, GiveFrameFocus(u, g))
      BY <1>3, <1>4, GiveFrameFocusKeeps, GiveFocusTells DEF Follows, Known
    <2>2. Follows(u, u)
      BY <1>4, FollowsItself DEF Aware, Known
    <2> HIDE DEF b, g
    <2> QED BY <2>1, <2>2
  <1> HIDE DEF v, a, n, zero, no, y
  <1>6. /\ Known(v) /\ v.gone = t.gone /\ v.focused = t.focused /\ DOMAIN v = Fields
        /\ Lit(t, {}) => Nearly(v, f) /\ (t.focused # c \/ ~ t.ffocused[f] => Lit(v, {}))
    <2>1. Sees(u, v) /\ Formed(v)
      BY <1>4, <1>5, SeesFollows, KeepsForm DEF Follows
    <2>2. v.gone = u.gone /\ v.focused = u.focused
      BY <1>5 DEF Follows, Keeps, Stays, Tells, Dims
    <2>3. Nearly(u, f) => Nearly(v, f)
      BY <1>3, <1>5, <2>1 DEF Nearly, Sees, Follows, Tells, Dims
    <2> QED BY <1>4, <2>1, <2>2, <2>3 DEF Sees, Formed
  <1>7. /\ DOMAIN w = Fields /\ w.focused = n /\ w.cmapped = [v.cmapped EXCEPT ![c] = no]
        /\ \A h \in Fields \ {"focused", "transient", "cws", "cmapped"} : w[h] = v[h]
    BY <1>6 DEF Fields
  <1> HIDE DEF w
  <1>8. /\ DOMAIN x = Fields /\ x.gone = y /\ x.csticky = [w.csticky EXCEPT ![c] = no]
        /\ \A h \in Fields \ {"cicon", "csticky", "gone"} : x[h] = w[h]
    BY <1>7 DEF Fields
  <1> HIDE DEF x
  <1>9. /\ x.fmapped = v.fmapped /\ x.ffocused = v.ffocused /\ x.fsticky = v.fsticky
        /\ x.queue = v.queue /\ x.input = v.input /\ x.last = v.last
        /\ x.child = v.child /\ x.parent = v.parent /\ x.focused = n
        /\ x.cmapped = [v.cmapped EXCEPT ![c] = no] /\ x.csticky = [v.csticky EXCEPT ![c] = no]
        /\ x.gone = y
    BY <1>7, <1>8 DEF Fields
  <1>10. v.input # c
    BY <1>6 DEF Known, Heard, HasInput
  <1>11. Known(x)
    <2>1. v.cmapped \in [Clients -> BOOLEAN] /\ v.csticky = [d \in Clients |-> FALSE]
      BY <1>6 DEF Known, Heard, Plain
    <2>2. x.cmapped \in [Clients -> BOOLEAN] /\ x.csticky = [d \in Clients |-> FALSE]
          /\ \A d \in Clients \ {c} : x.cmapped[d] = v.cmapped[d]
      BY <1>9, <2>1 DEF no
    <2>3. Heard(x)
      BY <1>6, <1>9, <1>10, <2>2 DEF Known, Heard, Plain, HasInput, y
    <2>4. NoWord(x) <=> NoWord(v)
      BY <1>9 DEF NoWord, Told
    <2>5. Minded(x)
      BY <1>6, <1>9 DEF Known, Minded, n
    <2>6. Believed(x)
      BY <1>6, <1>9, <1>10, <2>4 DEF Known, Believed, n, y
    <2> QED BY <2>3, <2>5, <2>6 DEF Known
  <1>12. ASSUME NEW h \in Frames, v.fmapped[h], Holds(v, h) PROVE Holds(x, h)
    <2>1. x.child[h] \in Clients /\ x.parent[x.child[h]] = h
      BY <1>2, <1>9, <1>12, RightFaced DEF Tabbed, Faced
    <2>2. x.parent[c] # h
      BY <1>2, TabsAssumption DEF IsManaged
    <2>3. x.child[h] # c
      BY <2>1, <2>2
    <2>4. \A d : Told(v, d) => Told(x, d)
      BY <1>9 DEF Told
    <2> QED BY <1>9, <1>12, <2>2, <2>3, <2>4 DEF Holds, n, y
  <1>13. \A X : Lit(v, X) => Lit(x, X)
    BY <1>9, <1>12 DEF Lit
  <1>14. Nearly(v, f) => Nearly(x, f)
    BY <1>9, <1>13 DEF Nearly
  <1>15. x.focused # None => t.focused # c
    BY <1>6, <1>9 DEF n
  <1>16. Lit(t, {}) => Nearly(x, f) /\ (x.focused # None => Lit(x, {}))
    BY <1>6, <1>13, <1>14, <1>15
  <1> QED BY <1>1, <1>2, <1>11, <1>16 DEF f

LEMMA WithdrawnMinds ==
    ASSUME NEW b, Whole(b), NEW t, Right(t), Tabbed(t, {}),
           t.transient \in [Clients -> Clients \cup {None}],
           NEW c \in Clients, IsManaged(t, c), c \in t.gone, Read(b, t, Withdrawn(c))
    PROVE  Minds(b, HandleWithdrawn(t, c))
  <1> DEFINE x == DeleteClient(t, c)
             f == t.parent[c]
             z == FindIfNone(x, f)
  <1>1. HandleWithdrawn(t, c) = z
    BY DEF HandleWithdrawn
  <1>2. Sees(b, t) /\ Known(t)
    BY EventTypes, OtherSees DEF Sees
  <1>3. Right(x) /\ Tabbed(x, {}) /\ Known(x)
    BY <1>2, DeletedLit
  <1>4. Lit(t, {}) => Nearly(x, f) /\ (x.focused # None => Lit(x, {}))
    BY <1>2, DeletedLit
  <1>5. f \in Frames
    BY RightIs DEF LiveIn
  <1> HIDE DEF x, f
  <1>6. Known(z)
    BY <1>3, FindIfNoneSees DEF Sees
  <1>7. Lit(t, {}) => Lit(z, {})
    BY <1>3, <1>4, <1>5, FindIfNoneLit
  <1> HIDE DEF z
  <1>8. Minds(b, z)
    BY <1>2, <1>6, <1>7 DEF Minds, Sees
  <1> QED BY <1>1, <1>8

LEMMA EventMinds ==
    ASSUME WmInv(s), Whole(s), HandleEvent
    PROVE  Minds(s, s')
  <1> DEFINE q == Tail(s.queue)
             t == [s EXCEPT !.queue = q]
             e == Head(s.queue)
             w == e.window
  <1>1. /\ s' = Handled(t, e) /\ e \in Events /\ s.queue # <<>>
        /\ Right(t) /\ TreeOf(t) = TreeOf(s) /\ t.transient = s.transient /\ t.gone = s.gone
    <2>1. LET k == [s EXCEPT !.queue = Tail(@)]
          IN  /\ Right(k) /\ TreeOf(k) = TreeOf(s) /\ k.transient = s.transient /\ k.gone = s.gone
              /\ Head(s.queue) \in Events
      BY EventTaken DEF HandleEvent
    <2> QED BY <2>1 DEF HandleEvent
  <1>2. Read(s, t, e) /\ SameFlags(s, t) /\ SameTree(s, t)
    BY <1>1, WholeIs, TreeSame DEF Read, Formed, Fields, SameFlags
  <1>3. Tabbed(t, {})
    BY <1>2, TabsSame DEF Whole
  <1>4. e = Withdrawn(w) => w \in s.gone
    <2>1. s.queue \in Seq(Events)
      BY WholeIs DEF Formed
    <2>2. SUFFICES ASSUME e = Withdrawn(w) PROVE w \in s.gone
      OBVIOUS
    <2>3. w \in Clients
      <3>1. e.type = "Withdrawn"
        BY <2>2 DEF Withdrawn
      <3> QED BY <1>1, <3>1 DEF Events
    <2>4. Count(s.queue, Withdrawn(w)) = Count(Tail(s.queue), Withdrawn(w)) + 1
      BY <1>1, <2>1, <2>2, CountTail
    <2>5. Count(Tail(s.queue), Withdrawn(w)) \in Nat
      BY <1>1, <2>1, TailElements, CountNat
    <2>6. Count(s.queue, Withdrawn(w)) = IF w \in s.gone THEN 1 ELSE 0
      BY <2>3 DEF WmInv, Leaving
    <2> HIDE DEF w, e
    <2> QED BY <2>4, <2>5, <2>6
  <1> HIDE DEF t, e
  <1>5. CASE e.type = "FocusIn"
    <2>1. w \in Clients \cup {Root} /\ e = FocusIn(w)
      BY <1>1, <1>5 DEF Events, FocusIn
    <2>2. s' = HandleFocusIn(t, w)
      BY <1>1, <1>5 DEF Handled
    <2> QED BY <1>1, <1>2, <2>1, <2>2, FocusInMinds
  <1>6. CASE e.type = "Unmapped"
    <2>1. s' = HandleUnmapped(t, e.window)
      BY <1>1, <1>6 DEF Handled
    <2> QED BY <1>1, <1>2, <1>3, <1>6, <2>1, UnmappedMinds
  <1>7. CASE e.type = "Withdrawn"
    <2>1. w \in Clients /\ e = Withdrawn(w) /\ s' = HandleWithdrawn(t, w)
      <3>1. w \in Clients /\ e = [type |-> "Withdrawn", window |-> w]
        BY <1>1, <1>7 DEF Events
      <3> QED BY <1>1, <1>7, <3>1 DEF Withdrawn, Handled
    <2> HIDE DEF w
    <2>2. IsManaged(t, w) /\ w \in t.gone
      <3>1. IsManaged(s, w) /\ t.parent = s.parent /\ w \in t.gone
        BY <1>1, <1>4, <2>1, TreeFields DEF WmInv, Leaving
      <3> QED BY <3>1 DEF IsManaged
    <2>3. t.transient \in [Clients -> Clients \cup {None}] /\ Read(s, t, Withdrawn(w))
      BY <1>1, <1>2, <2>1 DEF WmInv
    <2> QED BY <1>1, <1>3, <2>1, <2>2, <2>3, WithdrawnMinds
  <1> QED BY <1>1, <1>5, <1>6, <1>7 DEF Events

LEMMA RequestKnown ==
    ASSUME NoDialogs, "size" \notin Ops, "stick" \notin Ops, "detach" \notin Ops, Whole(s), Request
    PROVE  Minds(s, s') \/ (Known(s') /\ \E c \in Clients, f \in Frames : AttachMarked(c, f))
  <1> DEFINE G == Minds(s, s') \/ (Known(s') /\ \E c \in Clients, f \in Frames : AttachMarked(c, f))
  <1>1. ASSUME NEW c \in Clients,
               \/ MapNew(c) \/ Withdraw(c) \/ Activate(c) \/ GotoClient(c) \/ Click(c)
        PROVE  G
    BY <1>1, MapNewRequest, WithdrawRequest, ActivateRequest, GotoClientRequest, ClickRequest
  <1>2. ASSUME NEW c \in Clients, NEW f \in Frames,
               Detach(c, f) \/ AttachMarked(c, f) \/ AttachClient(c, f)
        PROVE  G
    <2>1. ~ Detach(c, f)
      BY DEF Detach
    <2> QED BY <1>2, <2>1, AttachMarkedRequest, AttachClientRequest
  <1>3. ASSUME NEW f \in Frames,
               \/ \E raise \in BOOLEAN : FocusToggle(f, raise)
               \/ \E g \in Frames : AttachFrame(g, f)
               \/ \E off \in {-1, 1} : MoveTab(f, off)
        PROVE  G
    BY <1>3, FocusToggleRequest, AttachFrameRequest, MoveTabRequest
  <1>4. ASSUME \/ \E c \in Clients : MapAgain(c)
               \/ \E f \in Frames : \/ Iconify(f) \/ Restore(f)
                                    \/ \E n \in Workspaces : SendTo(f, n)
               \/ \E n \in Workspaces : Goto(n)
        PROVE  G
    BY <1>4, QuietMinds
  <1>5. /\ \A f \in Frames : ~ Stick(f)
        /\ \A n \in Workspaces : ~ Resize(n + 1)
    BY DEF Stick, Resize
  <1> HIDE DEF G
  <1>6. G
    BY <1>1, <1>2, <1>3, <1>4, <1>5 DEF Request
  <1> QED BY <1>6 DEF G

LEMMA InitKnown == Init => Known(s) /\ Lit(s, {})
  <1>1. SUFFICES ASSUME Init PROVE Known(s) /\ Lit(s, {})
    OBVIOUS
  <1>2. /\ s.queue = <<>> /\ s.input = Root /\ s.focused = Root /\ s.gone = {}
        /\ s.cmapped = [c \in Clients |-> FALSE] /\ s.fmapped = [f \in Frames |-> FALSE]
        /\ s.ffocused = [f \in Frames |-> FALSE] /\ s.fsticky = [f \in Frames |-> FALSE]
        /\ s.csticky = [c \in Clients |-> FALSE] /\ s.last = [n \in Workspaces |-> None]
    BY <1>1 DEF Init
  <1>3. Plain(s) /\ HasInput(s)
    BY <1>2, WmAssumption DEF Plain, HasInput
  <1>4. Agree(s.queue, s.input)
    BY <1>2 DEF Agree
  <1> QED BY <1>2, <1>3, <1>4 DEF Known, Heard, Minded, Believed, Lit

KnownInv == Inv /\ Whole(s)
LitInv == KnownInv /\ Lit(s, {})

LEMMA KnownInductive ==
    ASSUME NoDialogs, "size" \notin Ops, "stick" \notin Ops, "detach" \notin Ops, Separate
    PROVE  /\ Init => LitInv
           /\ KnownInv /\ [Next]_s => KnownInv'
           /\ "mark" \notin Ops /\ LitInv /\ [Next]_s => LitInv'
  <1>1. Init => LitInv
    BY InitInv, InitTabs, InitShown, InitKnown DEF LitInv, KnownInv, Whole, Inv, WmInv
  <1>2. KnownInv /\ [Next]_s => KnownInv' /\ ("mark" \notin Ops /\ Lit(s, {}) => Lit(s, {})')
    <2>1. SUFFICES ASSUME Inv, WmInv(s), Whole(s), [Next]_s
                   PROVE  /\ Inv' /\ Whole(s') /\ ("mark" \notin Ops /\ Lit(s, {}) => Lit(s', {}))
      BY DEF KnownInv, Inv
    <2>2. CASE s' = s
      BY <2>1, <2>2, Inductive
    <2>3. CASE Next
      <3>1. Inv' /\ Right(s')
        BY <2>1, Inductive DEF Inv, WmInv
      <3>2. Tabbed(s', {}) /\ Shown(s', {})
        BY <2>1, <2>3, EventTabs, RequestTabs, EventShown, RequestShown DEF Next, Whole
      <3>3. Minds(s, s') \/ (Known(s') /\ \E c \in Clients, f \in Frames : AttachMarked(c, f))
        BY <2>1, <2>3, EventMinds, RequestKnown DEF Next
      <3>4. "mark" \notin Ops => \A c \in Clients, f \in Frames : ~ AttachMarked(c, f)
        BY DEF AttachMarked
      <3> QED BY <3>1, <3>2, <3>3, <3>4 DEF Minds, Whole
    <2> QED BY <2>1, <2>2, <2>3
  <1> QED BY <1>1, <1>2 DEF LitInv

(* When all events are read no client is about to withdraw, and the server *)
(* has not said anything that is still to be heard.                        *)
LEMMA QuietKnown ==
    ASSUME KnownInv, Quiet
    PROVE  NoWord(s) /\ s.gone = {}
  <1>1. \A c \in Clients : Count(s.queue, Withdrawn(c)) = 0
    <2>1. s.queue = <<>>
      BY DEF Quiet
    <2>2. \A e : {i \in DOMAIN <<>> : (<<>>)[i] = e} = {}
      OBVIOUS
    <2> QED BY <2>1, <2>2, FS_EmptySet DEF Count
  <1>2. s.gone = {}
    BY <1>1 DEF KnownInv, Inv, WmInv, Leaving
  <1> QED BY <1>2 DEF Quiet, NoWord, Told

(* The window pekwm believes to be focused is the one the server sends     *)
(* the keys to, when all events are read: with no dialogs, no frame on all *)
(* workspaces, tabs that stay in a frame or go to another that exists, and *)
(* a number of workspaces that stays.                                      *)
THEOREM FocusBelieved ==
    ASSUME \A c \in Clients : TransientFor[c] = None,
           "size" \notin Ops, "stick" \notin Ops, "detach" \notin Ops,
           "iconify" \in Ops => "restore" \notin Ops
    PROVE  Spec => []InputAgrees
  <1>0. NoDialogs /\ Separate
    BY DEF NoDialogs, Separate
  <1>1. Init => KnownInv
    BY <1>0, KnownInductive DEF LitInv
  <1>2. KnownInv /\ [Next]_s => KnownInv'
    BY <1>0, KnownInductive
  <1>3. KnownInv => InputAgrees
    BY QuietKnown DEF KnownInv, Whole, Known, Believed, InputAgrees
  <1> QED BY <1>1, <1>2, <1>3, PTL DEF Spec

(* A frame that is drawn as focused holds the window that is: the same,    *)
(* and no marked tabs.                                                     *)
THEOREM NoFrameFalselyFocused ==
    ASSUME \A c \in Clients : TransientFor[c] = None,
           "size" \notin Ops, "stick" \notin Ops, "detach" \notin Ops, "mark" \notin Ops,
           "iconify" \in Ops => "restore" \notin Ops
    PROVE  Spec => []NoFalseFocus
  <1>0. NoDialogs /\ Separate
    BY DEF NoDialogs, Separate
  <1>1. Init => LitInv
    BY <1>0, KnownInductive
  <1>2. LitInv /\ [Next]_s => LitInv'
    BY <1>0, KnownInductive
  <1>3. LitInv => NoFalseFocus
    <2>1. SUFFICES ASSUME LitInv, Quiet, NEW f \in Frames, s.ffocused[f]
                   PROVE  s.focused \in Clients /\ s.parent[s.focused] = f
      BY DEF NoFalseFocus, Live
    <2>2. Holds(s, f) /\ NoWord(s) /\ s.gone = {}
      BY <2>1, QuietKnown DEF LitInv, Lit
    <2> QED BY <2>2 DEF Holds, NoWord
  <1> QED BY <1>1, <1>2, <1>3, PTL DEF Spec

----------------------------------------------------------------------------
(* The function h of a frame or a window, and all it calls in turn, is over *)
(* after MaxCalls calls at most: g lists what is still to be called.        *)
Ends(t, h) ==
    \E g : /\ IsRun(g, t, <<h>>, MaxCalls)
           /\ RunCalls(t, <<h>>) = g[MaxCalls].state /\ g[MaxCalls].calls = <<>>

CallsEnd(t) ==
    /\ \A f \in Frames : Ends(t, Call("MapFrame", f))
    /\ \A c \in Clients : Ends(t, Call("MapClient", c))
    /\ \A f \in Frames : Exists(t, f) => Ends(t, Call("UnmapFrame", f)) /\ Ends(t, Call("IconifyFrame", f))

LEMMA SteadyCallsEnd ==
    ASSUME NEW t, Steady(t)
    PROVE  CallsEnd(t)
  <1>1. Formed(t) /\ Housed(t) /\ Faced(t) /\ Flags(t)
    BY DEF Steady, Tabbed
  <1>2. ASSUME NEW h \in MapCalls
        PROVE  Ends(t, h)
    <2>1. PICK g : /\ IsRun(g, t, <<h>>, MaxCalls) /\ IsMapRun(g, t, <<h>>)
                   /\ RunCalls(t, <<h>>) = g[MaxCalls].state
      BY <1>1, MapRun
    <2> QED BY <2>1 DEF Ends, IsMapRun
  <1>3. ASSUME NEW h \in HideCalls, NEW m \in BOOLEAN, HideOrder(t, {h}, m)
        PROVE  Ends(t, h)
    <2>1. HideLeft(t, {h}, m, 1) <= MaxCalls
      BY HideBound
    <2>2. PICK g : /\ IsRun(g, t, <<h>>, MaxCalls) /\ IsHideRun(g, t, <<h>>, m)
                   /\ RunCalls(t, <<h>>) = g[MaxCalls].state
      BY <1>1, <1>3, <2>1, HideRun
    <2> QED BY <2>2 DEF Ends, IsHideRun
  <1>4. /\ \A f \in Frames : Call("MapFrame", f) \in MapCalls
        /\ \A c \in Clients : Call("MapClient", c) \in MapCalls
    BY DEF Call, MapCalls
  <1>5. ASSUME NEW f \in Frames, Exists(t, f)
        PROVE  Ends(t, Call("UnmapFrame", f)) /\ Ends(t, Call("IconifyFrame", f))
    <2>1. t.fmapped[f] => ~ t.ficon[f]
      BY DEF Steady, Tabbed
    <2>2. Call("UnmapFrame", f) \in HideCalls /\ HideOrder(t, {Call("UnmapFrame", f)}, FALSE)
      BY <1>1, <1>5, <2>1, UnmapOrder
    <2>3. Call("IconifyFrame", f) \in HideCalls /\ HideOrder(t, {Call("IconifyFrame", f)}, TRUE)
      BY <1>1, <1>5, IconifyOrder
    <2> QED BY <1>3, <2>2, <2>3
  <1> QED BY <1>2, <1>4, <1>5 DEF CallsEnd

(* Frames, windows and the windows they own call each other's mapWindow,    *)
(* unmapWindow and iconify: no chain of these calls goes round in circles.  *)
THEOREM NestedCallsEnd ==
    ASSUME "detach" \notin Ops
    PROVE  Spec => []CallsEnd(s)
  <1>1. Init => TabsInv
    BY TabsInductive
  <1>2. TabsInv /\ [Next]_s => TabsInv'
    BY TabsInductive
  <1>3. TabsInv => CallsEnd(s)
    <2>1. SUFFICES ASSUME Right(s), Tabbed(s, {}) PROVE CallsEnd(s)
      BY DEF TabsInv, Inv, WmInv
    <2>2. Steady(s)
      BY <2>1, RightFaced DEF Steady
    <2> QED BY <2>2, SteadyCallsEnd
  <1> QED BY <1>1, <1>2, <1>3, PTL DEF Spec
=============================================================================

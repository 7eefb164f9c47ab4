------------------------------- MODULE Harbour -------------------------------
(***************************************************************************)
(* pekwm's harbour: the dock apps along one edge of a head, placed where   *)
(* there is room or, with HarbourSort, in the order of their positions;    *)
(* the user drags them along the edge and hides them, programs resize      *)
(* theirs.  The harbour's width is what maximized windows leave free.      *)
(*                                                                         *)
(* Apps are square, and an app is always at the edge: what is kept is      *)
(* where it begins along it.  Borders, the least and the greatest side,    *)
(* the menu and the layers (Stacking) are left out.                        *)
(***************************************************************************)
EXTENDS Integers, Sequences, FiniteSets, SequencesExt, FiniteSetsExt, Sieve

CONSTANTS Apps, Position,     \* the apps, the position a rule gives each
          Sizes,              \* lengths of apps
          HeadX, HeadLength,  \* the head on which the harbour is
          MaxLoose            \* the bound on apps dragged or resized at a time

VARIABLE hb                   \* the harbour, as one record

(* What the configuration may be: the orientation is BOTTOM_TO_TOP or not, *)
(* and HarbourSort is off or on, along TOP or BOTTOM, or LEFT or RIGHT;    *)
(* which of these matters only backwards.                                  *)
Configs == { c \in [backwards : BOOLEAN, sort : {"no", "horizontal", "vertical"}] :
                c.sort = "vertical" => c.backwards }

Init ==
    \E c \in Configs :
        hb = [ config |-> c,
               list |-> <<>>,                       \* _da_list
               at |-> [d \in Apps |-> HeadX],       \* where an app begins
               len |-> [d \in Apps |-> 1],
               mapped |-> {}, hidden |-> FALSE,
               size |-> 0,                          \* _size, the strut
               loose |-> {},     \* apps that were dragged, resized, or had no room
               stale |-> FALSE,  \* an app was resized after the last updateHarbourSize()
               late |-> {} ]     \* apps that came while the harbour was hidden

End(s, d) == s.at[d] + s.len[d]
HeadEnd == HeadX + HeadLength
Overlap(s, d, from, len) == s.at[d] < from + len /\ End(s, d) > from

----------------------------------------------------------------------------
(* placeDockApp(): from the beginning on, past each app that is in the     *)
(* way, the first of the list first.  No fit that is exact is taken, and   *)
(* backwards the head's beginning is not looked at; without room the app   *)
(* stays at the first place.                                               *)

FirstPlace(s, d) == IF s.config.backwards THEN HeadEnd - s.len[d] ELSE HeadX

InTheWay(s, d, from) ==
    Sieve(s.list, {e \in Apps : e # d /\ Overlap(s, e, from, s.len[d])})

NextPlace(s, d, from) ==
    LET e == InTheWay(s, d, from)
    IN  IF e = <<>> THEN from
        ELSE IF s.config.backwards THEN s.at[Head(e)] - s.len[d] ELSE End(s, Head(e))

InRange(s, d, from) ==
    IF s.config.backwards THEN from >= 0 ELSE from + s.len[d] < HeadEnd

(* The places move on in one direction, so that each app is passed once at *)
(* most, and one out of range is followed by no other.                     *)
LastPlace(s, d) ==
    LET at[n \in 0..Len(s.list)] ==
            IF n = 0 THEN FirstPlace(s, d) ELSE NextPlace(s, d, at[n - 1])
    IN  at[Len(s.list)]

Found(s, d) ==
    InRange(s, d, LastPlace(s, d)) /\ InTheWay(s, d, LastPlace(s, d)) = <<>>

(* Mutant: what is behind the app in the way is not looked at.             *)
PlaceDockAppOnce(s, d) ==
    LET at == NextPlace(s, d, FirstPlace(s, d))
    IN  [s EXCEPT !.at[d] = at, !.loose = IF InRange(s, d, at) THEN @ \ {d} ELSE @ \cup {d}]

PlaceDockApp(s, d) ==
    IF Found(s, d) THEN [s EXCEPT !.at[d] = LastPlace(s, d), !.loose = @ \ {d}]
    ELSE [s EXCEPT !.at[d] = FirstPlace(s, d), !.loose = @ \cup {d}]

(* rearrange(), without HarbourSort.                                       *)
PlaceDockApps(s) ==
    LET t[n \in 0..Len(s.list)] == IF n = 0 THEN s ELSE PlaceDockApp(t[n - 1], s.list[n])
    IN  t[Len(s.list)]

(* placeDockAppsSorted(): one behind the other - but backwards along a     *)
(* horizontal edge `x_real -= -width' goes the wrong way.                  *)
Reached(s) ==
    LET x[n \in 0..Len(s.list)] ==
            IF n = 0 THEN IF s.config.backwards THEN HeadEnd ELSE HeadX
            ELSE IF s.config.backwards /\ s.config.sort = "vertical"
                 THEN x[n - 1] - s.len[s.list[n]]
                 ELSE x[n - 1] + s.len[s.list[n]]
    IN  x

PlaceDockAppsSorted(s) ==
    LET Number(d) == CHOOSE n \in DOMAIN s.list : s.list[n] = d
        Start(d) == Reached(s)[Number(d) - 1] - (IF s.config.backwards THEN s.len[d] ELSE 0)
    IN  [s EXCEPT !.at = [d \in Apps |-> IF d \in ToSet(s.list) THEN Start(d) ELSE @[d]],
                  !.loose = {}]

(* insertDockAppSorted(): 1 2 3 0 0 0 -3 -2 -1.                            *)
Rank(d) == IF Position[d] > 0 THEN <<1, Position[d]>>
           ELSE IF Position[d] = 0 THEN <<2, 0>> ELSE <<3, Position[d]>>

Before(d, e) ==         \* d is inserted before e
    IF Position[d] > 0
    THEN Rank(e)[1] > 1 \/ Position[d] <= Position[e]
    ELSE Rank(e)[1] > Rank(d)[1] \/ (Position[d] < 0 /\ Rank(e)[1] = 3 /\ Position[d] < Position[e])

InsertSorted(list, d) ==
    LET k == {i \in DOMAIN list : Before(d, list[i])}
    IN  IF k = {} THEN Append(list, d)
        ELSE InsertAt(list, CHOOSE i \in k : \A j \in k : i <= j, d)

UpdateHarbourSize(s) ==
    [s EXCEPT !.size = Max({0} \cup {s.len[d] : d \in ToSet(s.list)}), !.stale = FALSE]

----------------------------------------------------------------------------
(* The operations.                                                         *)

AddDockApp(d) ==
    /\ d \notin ToSet(hb.list)
    /\ \E len \in Sizes :
         LET s == [hb EXCEPT !.len[d] = len, !.mapped = @ \cup {d},
                             !.late = IF hb.hidden THEN @ \cup {d} ELSE @]
         IN  hb' = UpdateHarbourSize(
                     IF s.config.sort # "no"
                     THEN PlaceDockAppsSorted([s EXCEPT !.list = InsertSorted(@, d)])
                     ELSE PlaceDockApp([s EXCEPT !.list = Append(@, d)], d))

(* The apps that stay are placed again when they are sorted.  The model    *)
(* resets what it kept of the app.                                         *)
RemoveDockApp(d) ==
    /\ d \in ToSet(hb.list)
    /\ LET s == [hb EXCEPT !.list = Sieve(@, Apps \ {d}),
                           !.at[d] = HeadX, !.len[d] = 1,
                           !.mapped = @ \ {d}, !.loose = @ \ {d}, !.late = @ \ {d}]
       IN  hb' = UpdateHarbourSize(IF s.config.sort # "no" /\ s.list # <<>>
                                   THEN PlaceDockAppsSorted(s) ELSE s)

(* doReloadHarbour()                                                       *)
Reload ==
    hb' = UpdateHarbourSize(
            IF hb.config.sort = "no" THEN PlaceDockApps(hb)
            ELSE IF hb.list # <<>> THEN PlaceDockAppsSorted(hb) ELSE hb)

Inside(x, len) ==
    IF x < HeadX THEN HeadX ELSE IF x + len > HeadEnd THEN HeadEnd - len ELSE x

MayLoose(d) == d \in hb.loose \/ Cardinality(hb.loose) < MaxLoose     \* the bound

(* handleMotionNotifyEvent(), which keeps the app on the head.             *)
Drag(d) ==
    /\ d \in ToSet(hb.list) \cap hb.mapped /\ MayLoose(d)
    /\ \E x \in HeadX..(HeadEnd - hb.len[d]) :
          hb' = [hb EXCEPT !.at[d] = x, !.loose = @ \cup {d}]

(* handleConfigureRequestEvent(): the harbour's size is not looked at.     *)
Resize(d) ==
    /\ d \in ToSet(hb.list) /\ MayLoose(d)
    /\ \E len \in Sizes :
          hb' = [hb EXCEPT !.len[d] = len,
                           !.at[d] = Inside(@, len),
                           !.loose = @ \cup {d}, !.stale = TRUE]

SetStateHidden ==
    hb' = [hb EXCEPT !.hidden = ~ @, !.late = {},
                     !.mapped = IF hb.hidden THEN ToSet(hb.list) ELSE {}]

Next ==
    \/ \E d \in Apps : AddDockApp(d) \/ RemoveDockApp(d) \/ Drag(d) \/ Resize(d)
    \/ Reload \/ SetStateHidden

Spec == Init /\ [][Next]_hb

----------------------------------------------------------------------------
Apart(d, e) == ~ Overlap(hb, d, hb.at[e], hb.len[e])

(* Dock apps that were placed where there was room, and were neither       *)
(* dragged nor resized since, do not overlap, whatever has come and gone   *)
(* and however often all were placed anew; sorted ones are in the order    *)
(* of their positions - but backwards along a horizontal edge.             *)
DockAppsApart ==
    IF hb.config.sort # "no"
    THEN \/ hb.config.sort = "horizontal" /\ hb.config.backwards
         \/ hb.loose # {}
         \/ \A i, j \in DOMAIN hb.list : i < j =>
                /\ Apart(hb.list[i], hb.list[j])
                /\ hb.config.backwards <=> hb.at[hb.list[j]] < hb.at[hb.list[i]]
                /\ ~ Before(hb.list[j], hb.list[i]) \/ Before(hb.list[i], hb.list[j])
    ELSE \A d, e \in ToSet(hb.list) \ hb.loose : d # e => Apart(d, e)

(* The strut is as wide as the longest app, and a hidden harbour shows    *)
(* none - until an app is resized, or comes while the harbour is hidden.   *)
StrutFits ==
    /\ ~ hb.stale => hb.size = Max({0} \cup {hb.len[d] : d \in ToSet(hb.list)})
    /\ hb.mapped = IF hb.hidden THEN hb.late ELSE ToSet(hb.list)

(* No two dock apps overlap, and all are on the head.  This is not so: a   *)
(* fit that is exact is not taken, and sorting does not look at the end of *)
(* the head ("@todo Screen boundary checking", Harbour.cc:477).            *)
AllApart ==
    \A d, e \in ToSet(hb.list) :
        d # e => Apart(d, e) /\ hb.at[d] >= HeadX /\ End(hb, d) <= HeadEnd
=============================================================================

----------------------------- MODULE ShellProofs -----------------------------
(***************************************************************************)
(* That four programs of Shell.tla are right, for any number of icons,     *)
(* windows, clicks, keys and seconds; HarbourProofs.tla has the other two. *)
(* Each has an invariant of its own, shown to hold at first and to be kept *)
(* by its steps; the theorems after them put them together.  The last      *)
(* section is about the taskbar.                                           *)
(***************************************************************************)
EXTENDS Shell, Taskbar, SequenceLemmas

----------------------------------------------------------------------------
(* The start menu.                                                         *)

(* What xdg_menu_load() may have returned.                                 *)
Content == [version : Nat, nr : Nat] \cup {M!NULL}

MenuTypes ==
    s \in [ disk : Nat, changes : Nat, loads : Nat,
             mcontent : Content, pending : Content, menu : Content,
             freed : SUBSET Content, opened : BOOLEAN, shown : Content,
             now : Nat, last : Nat, timers : SUBSET Nat,
             unseen : BOOLEAN, unswapped : BOOLEAN ]

(* Contents are told apart by the number of their load, which is a new one *)
(* each time.                                                              *)
Older(m, n) == m # M!NULL => m.nr < n

MenuLoads ==
    /\ Older(s.mcontent, s.loads) /\ Older(s.pending, s.loads)
    /\ \A m \in s.freed : Older(m, s.loads)

(* What is shown and what waits has not been deleted, and is not the same; *)
(* something waits for an open menu only.                                  *)
MenuAlive ==
    /\ s.menu = s.mcontent
    /\ M!NULL \notin s.freed /\ s.mcontent \notin s.freed /\ s.pending \notin s.freed
    /\ s.shown = IF s.opened THEN s.mcontent ELSE M!NULL
    /\ s.pending # M!NULL => s.opened /\ s.pending # s.mcontent

OfDisk(m) == IF s.disk = M!Empty THEN m = M!NULL ELSE m # M!NULL /\ m.version = s.disk

(* What will be shown next is what the disk has.                           *)
FreshNext ==
    s.timers = {} /\ ~ s.unseen /\ ~ s.unswapped
        => OfDisk(IF s.pending # M!NULL THEN s.pending ELSE s.mcontent)

MenuInv == MenuTypes /\ MenuLoads /\ MenuAlive /\ FreshNext

(* A content that was loaded is never taken for the NULL that a failed load *)
(* returns.                                                                *)
LEMMA NullIsNoRecord == \A m \in [version : Nat, nr : Nat] : m # M!NULL
  BY SMT DEF M!NULL

(* xdg_menu_load() returns the menu of the disk under a number of its own, *)
(* or NULL when there is none.                                             *)
LEMMA LoadOfDisk ==
    ASSUME MenuTypes
    PROVE  /\ M!Load(s) \in Content
           /\ OfDisk(M!Load(s))
           /\ M!Load(s) # M!NULL => M!Load(s).nr = s.loads
  BY NullIsNoRecord DEF MenuTypes, M!Load, OfDisk, Content, M!Empty

(* The constructor leaves the menu of the disk set up and nothing deleted. *)
LEMMA MenuInit == M!Init => MenuInv
  <1> SUFFICES ASSUME M!Init PROVE MenuInv
    OBVIOUS
  <1>1. PICK disk \in {M!Empty, 1} :
          s = M!Loaded(M!Setup(M!Started(disk), M!Load(M!Started(disk))))
    BY DEF M!Init
  <1> DEFINE m == M!Load(M!Started(disk))
  <1>2. m \in Content /\ (disk = 0 => m = M!NULL)
        /\ (disk = 1 => m # M!NULL /\ m.version = 1 /\ m.nr = 0)
    BY NullIsNoRecord DEF M!Started, M!Load, Content, M!Empty
  <1> HIDE DEF m
  <1>3. s = [M!Started(disk) EXCEPT !.mcontent = m, !.menu = m, !.loads = 1]
    BY <1>1 DEF M!Loaded, M!Setup, M!Started, m
  <1>4. /\ s.disk = disk /\ s.loads = 1 /\ s.mcontent = m /\ s.menu = m
        /\ s.pending = M!NULL /\ s.freed = {} /\ s.opened = FALSE /\ s.shown = M!NULL
        /\ s.unseen = FALSE /\ s.unswapped = FALSE
    BY <1>3 DEF M!Started
  <1>5. MenuTypes
    <2>1. disk \in Nat /\ M!NULL \in Content /\ M!MENU_UPDATE_DIFF \in Nat
      BY DEF Content, M!Empty, M!MENU_UPDATE_DIFF
    <2>2. s = [ disk |-> disk, changes |-> 0, loads |-> 1, mcontent |-> m, pending |-> M!NULL,
                 menu |-> m, freed |-> {}, opened |-> FALSE, shown |-> M!NULL,
                 now |-> M!MENU_UPDATE_DIFF, last |-> 0, timers |-> {}, unseen |-> FALSE,
                 unswapped |-> FALSE ]
      BY <1>3 DEF M!Started
    <2> QED BY <1>2, <2>1, <2>2 DEF MenuTypes
  <1> QED BY <1>2, <1>4, <1>5 DEF MenuInv, MenuLoads, MenuAlive, FreshNext, OfDisk, Older, M!Empty

(* Every change, update, opening, choice and second keeps what is shown    *)
(* alive and what will be shown next the one of the disk.                  *)
LEMMA MenuStep == MenuInv /\ [M!Next]_s => MenuInv'
  <1> SUFFICES ASSUME MenuInv, [M!Next]_s PROVE MenuInv'
    OBVIOUS
  <1>1. CASE M!FolderChanged
    <2>1. PICK disk \in {s.changes + 2, M!Empty}, heeded \in BOOLEAN :
            LET reload == heeded /\ s.now - s.last >= M!MENU_UPDATE_DIFF
            IN  s' = [s EXCEPT
                   !.disk = disk, !.changes = @ + 1, !.last = IF heeded THEN s.now ELSE @,
                   !.timers = IF reload THEN @ \cup {s.now + M!MENU_UPDATE_TIMEOUT} ELSE @,
                   !.unseen = ~ reload /\ s.timers = {}]
      BY <1>1 DEF M!FolderChanged
    <2> DEFINE reload == heeded /\ s.now - s.last >= M!MENU_UPDATE_DIFF
               last == IF heeded THEN s.now ELSE s.last
               timers == IF reload THEN s.timers \cup {s.now + M!MENU_UPDATE_TIMEOUT} ELSE s.timers
               unseen == ~ reload /\ s.timers = {}
    <2>2. s' = [s EXCEPT !.disk = disk, !.changes = @ + 1, !.last = last,
                         !.timers = timers, !.unseen = unseen]
      BY <2>1 DEF MenuInv, MenuTypes
    <2>3. /\ timers \in SUBSET Nat /\ (timers = {} => unseen) /\ unseen \in BOOLEAN
          /\ last \in Nat
      BY DEF MenuInv, MenuTypes, M!MENU_UPDATE_TIMEOUT
    <2> HIDE DEF timers, unseen, last
    <2>4. disk \in Nat /\ s.changes + 1 \in Nat
      BY DEF MenuInv, MenuTypes, M!Empty
    <2>5. /\ s'.loads = s.loads /\ s'.mcontent = s.mcontent /\ s'.menu = s.menu
          /\ s'.pending = s.pending /\ s'.freed = s.freed /\ s'.opened = s.opened
          /\ s'.shown = s.shown /\ s'.timers = timers /\ s'.unseen = unseen
      BY <2>2 DEF MenuInv, MenuTypes
    <2>6. MenuTypes'
      BY <2>3, <2>4, <2>2 DEF MenuInv, MenuTypes
    <2> QED BY <2>3, <2>5, <2>6 DEF MenuInv, MenuLoads, MenuAlive, FreshNext, Older
  <1>2. CASE M!ReloadMenu
    <2>1. PICK t \in s.timers :
            LET u == M!Loaded([s EXCEPT !.timers = @ \ {t}, !.unseen = FALSE])
            IN  s' = IF u.opened
                      THEN [u EXCEPT !.pending = M!Load(s), !.unswapped = M!Load(s) = M!NULL]
                      ELSE [M!Setup(M!Delete(u, u.mcontent), M!Load(s)) EXCEPT !.unswapped = FALSE]
      BY <1>2 DEF M!ReloadMenu
    <2> DEFINE m == M!Load(s)
               none == m = M!NULL
               freed == s.freed \cup ({s.mcontent} \ {M!NULL})
    <2>2. /\ m \in Content /\ OfDisk(m) /\ (m # M!NULL => m.nr = s.loads)
          /\ none \in BOOLEAN /\ (~ none => m # M!NULL)
      BY LoadOfDisk DEF MenuInv
    <2>3. freed \in SUBSET Content /\ M!NULL \notin freed /\ (\A x \in freed : Older(x, s.loads))
      BY DEF MenuInv, MenuTypes, MenuLoads, MenuAlive
    <2>4. s' = IF s.opened
                THEN [s EXCEPT !.timers = s.timers \ {t}, !.unseen = FALSE, !.loads = s.loads + 1,
                                !.pending = m, !.unswapped = none]
                ELSE [s EXCEPT !.timers = s.timers \ {t}, !.unseen = FALSE, !.loads = s.loads + 1,
                                !.freed = freed, !.mcontent = m, !.menu = m, !.unswapped = FALSE]
      BY <2>1 DEF MenuInv, MenuTypes, M!Loaded, M!Setup, M!Delete
    <2> HIDE DEF m, none, freed
    <2>5. /\ s'.disk = s.disk /\ s'.loads = s.loads + 1 /\ s'.opened = s.opened
          /\ s'.shown = s.shown /\ s'.unseen = FALSE
          /\ s.opened => /\ s'.mcontent = s.mcontent /\ s'.menu = s.menu /\ s'.freed = s.freed
                          /\ s'.pending = m /\ s'.unswapped = none
          /\ ~ s.opened => /\ s'.mcontent = m /\ s'.menu = m /\ s'.freed = freed
                            /\ s'.pending = s.pending /\ s'.unswapped = FALSE
      BY <2>4 DEF MenuInv, MenuTypes
    <2>6. MenuTypes'
      <3>1. s.timers \ {t} \in SUBSET Nat /\ s.loads + 1 \in Nat /\ FALSE \in BOOLEAN
        BY DEF MenuInv, MenuTypes
      <3>2. CASE s.opened
        BY <3>1, <3>2, <2>2, <2>4 DEF MenuInv, MenuTypes
      <3>3. CASE ~ s.opened
        BY <3>1, <3>3, <2>2, <2>3, <2>4 DEF MenuInv, MenuTypes
      <3> QED BY <3>2, <3>3
    <2>7. s.loads \in Nat /\ s.opened \in BOOLEAN
          /\ (\A x \in Content \ {M!NULL} : x.nr \in Nat)
          /\ s.mcontent \in Content /\ s.pending \in Content /\ s.freed \subseteq Content
      BY DEF MenuInv, MenuTypes, Content
    <2>8. MenuLoads'
      BY <2>2, <2>3, <2>5, <2>7 DEF MenuInv, MenuLoads, Older
    <2>9. m \notin freed /\ m \notin s.freed /\ (m # M!NULL => m # s.mcontent)
      <3>1. m # M!NULL => ~ Older(m, s.loads)
        BY <2>2, <2>7 DEF Older
      <3>2. M!NULL \notin s.freed
        BY DEF MenuInv, MenuAlive
      <3> QED BY <3>1, <3>2, <2>3 DEF MenuInv, MenuLoads
    <2>10. MenuAlive'
      BY <2>3, <2>5, <2>7, <2>9 DEF MenuInv, MenuAlive
    <2>11. FreshNext'
      <3>1. s.opened \/ s.pending = M!NULL
        BY DEF MenuInv, MenuAlive
      <3> QED BY <3>1, <2>2, <2>5, <2>7 DEF FreshNext, OfDisk, none
    <2> QED BY <2>6, <2>8, <2>10, <2>11 DEF MenuInv
  <1>3. CASE M!Popup
    BY <1>3 DEF M!Popup, MenuInv, MenuTypes, MenuLoads, MenuAlive, FreshNext, OfDisk, Content, Older
  <1>4. CASE M!Picked
    <2> DEFINE freed == s.freed \cup ({s.mcontent} \ {M!NULL})
    <2>1. s' = IF s.pending = M!NULL
                THEN [s EXCEPT !.opened = FALSE, !.shown = M!NULL]
                ELSE [s EXCEPT !.opened = FALSE, !.shown = M!NULL, !.freed = freed,
                                !.mcontent = s.pending, !.menu = s.pending, !.pending = M!NULL]
      BY <1>4 DEF M!Picked, MenuInv, MenuTypes, M!Setup, M!Delete
    <2>2. freed \in SUBSET Content /\ M!NULL \notin freed /\ (\A x \in freed : Older(x, s.loads))
      BY DEF MenuInv, MenuTypes, MenuLoads, MenuAlive
    <2>3. s.pending # M!NULL => s.pending \notin freed
      BY DEF MenuInv, MenuAlive
    <2> HIDE DEF freed
    <2>4. /\ s'.disk = s.disk /\ s'.loads = s.loads /\ s'.opened = FALSE /\ s'.shown = M!NULL
          /\ s'.unseen = s.unseen /\ s'.unswapped = s.unswapped /\ s'.timers = s.timers
          /\ s'.pending = M!NULL
          /\ s.pending = M!NULL => /\ s'.mcontent = s.mcontent /\ s'.menu = s.menu
                                  /\ s'.freed = s.freed
          /\ s.pending # M!NULL => /\ s'.mcontent = s.pending /\ s'.menu = s.pending
                                  /\ s'.freed = freed
      BY <2>1 DEF MenuInv, MenuTypes
    <2>5. MenuTypes'
      BY <2>1, <2>2 DEF MenuInv, MenuTypes, Content
    <2>6. MenuLoads'
      BY <2>2, <2>4 DEF MenuInv, MenuLoads, Older
    <2>7. MenuAlive'
      BY <2>2, <2>3, <2>4 DEF MenuInv, MenuAlive
    <2>8. FreshNext'
      BY <2>4 DEF MenuInv, FreshNext, OfDisk
    <2> QED BY <2>5, <2>6, <2>7, <2>8 DEF MenuInv
  <1>5. CASE M!Tick
    BY <1>5 DEF M!Tick, MenuInv, MenuTypes, MenuLoads, MenuAlive, FreshNext, OfDisk, Content, Older
  <1>6. CASE UNCHANGED s
    BY <1>6 DEF MenuInv, MenuTypes, MenuLoads, MenuAlive, FreshNext, OfDisk, Older
  <1> QED BY <1>1, <1>2, <1>3, <1>4, <1>5, <1>6 DEF M!Next

(* which is what the menu promises. *)
LEMMA MenuPromises == MenuInv => M!MenuFresh
  BY DEF MenuInv, MenuAlive, FreshNext, OfDisk, M!MenuFresh

----------------------------------------------------------------------------
(* The icons of the desktop.                                               *)

Desk == [ kids : Seq(Icons), sel : Seq(Icons), lit : SUBSET Icons, ghost : SUBSET Icons,
          moving : BOOLEAN, armed : BOOLEAN, band : BOOLEAN,
          below : Icons \cup {D!Background}, held : SUBSET (1..3), pushed : BOOLEAN,
          lost : SUBSET Icons, crash : BOOLEAN, odd : BOOLEAN, edit : Icons \cup {"no"} ]

(* A selected icon is focused, even one that is not on the desktop any     *)
(* more and may come back; and the focused icons there are selected.       *)
SelSound(d) ==
    /\ ToSet(d.sel) \subseteq d.lit
    /\ d.lit \cup d.ghost \subseteq ToSet(d.kids) \cup d.lost
    /\ ~ d.band => d.lit \cap ToSet(d.kids) \subseteq ToSet(d.sel)

(* As long as one button at a time is used there is either a band or       *)
(* icons are dragged, and only until the button is released.               *)
OneButton(d) ==
    /\ \A b, c \in d.held : b = c
    /\ d.pushed = (d.held # {})
    /\ d.band => d.pushed /\ d.sel = <<>>
    /\ d.ghost # {} => d.pushed /\ d.moving /\ ~ d.band
    /\ d.ghost \subseteq ToSet(d.sel)

DragSound(d) ==
    /\ ~ d.odd /\ ~ d.crash => OneButton(d)
    /\ d.lost = {} => ~ d.crash

DeskInv == s \in Desk /\ SelSound(s) /\ DragSound(s)

(* What a press leaves alone, when it opens no menu or does. *)
KeepsDrag(d, e) ==
    /\ e.ghost = d.ghost /\ e.band = d.band /\ e.odd = d.odd /\ e.crash = d.crash
    /\ d.lost \subseteq e.lost
    /\ \/ e.held = d.held /\ e.pushed = d.pushed
       \/ e.held = {} /\ e.pushed = FALSE

(* The operators that Desktop.tla has from its libraries. *)
LEMMA DeskOperators ==
    \A q, k : /\ D!ToSet(q) = ToSet(q) /\ D!Last(q) = Last(q)
              /\ D!Sieve(q, k) = Sieve(q, k)
  BY DEF D!ToSet, ToSet, D!Last, Last, D!Sieve, Sieve

(* Before the first press there is nothing selected or dragged. *)
LEMMA DeskInit == D!Init => DeskInv
  <1> SUFFICES ASSUME D!Init PROVE DeskInv
    OBVIOUS
  <1>1. PICK kids \in {<<>>} \cup (Icons \X Icons) :
           D!IsInjective(kids) /\
           s = [ kids   |-> kids, sel |-> <<>>, lit |-> {}, ghost |-> {}, moving |-> FALSE,
                 armed  |-> FALSE, band |-> FALSE, below |-> D!Background, held |-> {},
                 pushed |-> FALSE, lost |-> {}, crash |-> FALSE, odd |-> FALSE, edit |-> "no" ]
    BY DEF D!Init
  <1>2. kids \in Seq(Icons) /\ <<>> \in Seq(Icons)
    <2>1. <<>> \in Seq(Icons)
      OBVIOUS
    <2>2. ASSUME NEW a \in Icons, NEW b \in Icons PROVE <<a, b>> \in Seq(Icons)
      OBVIOUS
    <2>3. \A k \in Icons \X Icons : \E a, b \in Icons : k = <<a, b>>
      OBVIOUS
    <2>4. ASSUME NEW k \in Icons \X Icons PROVE k \in Seq(Icons)
      <3>1. PICK a, b \in Icons : k = <<a, b>>
        BY <2>3
      <3> QED BY <2>2, <3>1
    <2> QED BY <2>1, <2>4
  <1>3. ToSet(<<>>) = {}
    BY DEF ToSet
  <1>4. s \in Desk
    BY <1>1, <1>2 DEF Desk
  <1>5. /\ s.sel = <<>> /\ s.lit = {} /\ s.ghost = {} /\ s.held = {} /\ s.lost = {}
        /\ s.pushed = FALSE /\ s.crash = FALSE /\ s.band = FALSE
    BY <1>1
  <1>6. ToSet(s.sel) = {}
    BY <1>3, <1>5
  <1>7. SelSound(s)
    BY <1>5, <1>6 DEF SelSound
  <1>8. DragSound(s)
    BY <1>5, <1>6 DEF DragSound, OneButton
  <1> QED BY <1>4, <1>7, <1>8 DEF DeskInv

(* ToTop() leaves the other icons on the desktop, *)
LEMMA ToTopDesk ==
    ASSUME NEW d \in Desk, NEW i \in Icons
    PROVE  /\ D!ToTop(d, i) \in Desk
           /\ ToSet(D!ToTop(d, i).kids) = ToSet(d.kids) \cup {i}
           /\ D!ToTop(d, i) = [d EXCEPT !.kids = D!ToTop(d, i).kids]
  <1> DEFINE k == Append(Sieve(d.kids, Icons \ {i}), i)
  <1>1. d.kids \in Seq(Icons) /\ ToSet(d.kids) \subseteq Icons
    BY ToSetOfSeq DEF Desk
  <1>2. /\ Sieve(d.kids, Icons \ {i}) \in Seq(Icons)
        /\ ToSet(Sieve(d.kids, Icons \ {i})) = ToSet(d.kids) \cap (Icons \ {i})
    BY <1>1, SieveElements
  <1>3. k \in Seq(Icons) /\ ToSet(k) = ToSet(d.kids) \cup {i}
    <2>1. k \in Seq(Icons) /\ ToSet(k) = ToSet(Sieve(d.kids, Icons \ {i})) \cup {i}
      BY <1>2, AppendElements
    <2> HIDE DEF k
    <2> QED BY <1>1, <1>2, <2>1
  <1>4. D!ToTop(d, i) = [d EXCEPT !.kids = k]
    BY DeskOperators DEF D!ToTop
  <1> HIDE DEF k
  <1>5. [d EXCEPT !.kids = k].kids = k /\ [d EXCEPT !.kids = k] \in Desk
    BY <1>3 DEF Desk
  <1> QED BY <1>3, <1>4, <1>5

(* and so does remove_icon(). *)
LEMMA RemoveIconDesk ==
    ASSUME NEW d \in Desk, NEW i \in Icons
    PROVE  LET e == D!RemoveIcon(d, i)
           IN  /\ e \in Desk /\ ToSet(e.kids) = ToSet(d.kids) \ {i}
               /\ e.lost = d.lost \cup {i}
               /\ e = [d EXCEPT !.kids = e.kids, !.lost = e.lost]
  <1> DEFINE k == Sieve(d.kids, Icons \ {i})
             l == d.lost \cup {i}
  <1>1. d.kids \in Seq(Icons) /\ ToSet(d.kids) \subseteq Icons
    BY ToSetOfSeq DEF Desk
  <1>2. k \in Seq(Icons) /\ ToSet(k) = ToSet(d.kids) \ {i}
    BY <1>1, SieveElements
  <1>3. D!RemoveIcon(d, i) = [d EXCEPT !.kids = k, !.lost = l]
    BY DeskOperators DEF D!RemoveIcon
  <1>4. l \in SUBSET Icons
    BY DEF Desk
  <1> HIDE DEF k, l
  <1>5. /\ [d EXCEPT !.kids = k, !.lost = l] \in Desk
        /\ [d EXCEPT !.kids = k, !.lost = l].kids = k
        /\ [d EXCEPT !.kids = k, !.lost = l].lost = l
    BY <1>2, <1>4 DEF Desk
  <1> QED BY <1>2, <1>3, <1>5 DEF l

(* A press: what it does to the selection. *)
LEMMA ClearDesk ==
    ASSUME NEW d \in Desk, SelSound(d)
    PROVE  LET e == D!ClearSelection(d)
           IN  /\ e \in Desk /\ SelSound(e) /\ KeepsDrag(d, e)
               /\ e.kids = d.kids /\ e.lost = d.lost /\ e.held = d.held /\ e.pushed = d.pushed
  <1> DEFINE l == d.lit \ ToSet(d.kids)
             n == <<>>
             e == [d EXCEPT !.lit = l, !.sel = n]
  <1>1. d.sel = <<>> => D!ClearSelection(d) = d
    BY DEF D!ClearSelection
  <1>2. d.sel # <<>> => D!ClearSelection(d) = e
    BY DeskOperators DEF D!ClearSelection, D!UnfocusAll
  <1>3. l \in SUBSET Icons /\ n \in Seq(Icons) /\ ToSet(n) = {}
    BY DEF Desk, ToSet
  <1>4. l \cap ToSet(d.kids) = {} /\ l \subseteq d.lit
    OBVIOUS
  <1> HIDE DEF l, n
  <1>5. /\ e \in Desk /\ e.lit = l /\ e.sel = n /\ e.kids = d.kids /\ e.lost = d.lost
        /\ e.held = d.held /\ e.pushed = d.pushed /\ e.ghost = d.ghost /\ e.band = d.band
        /\ e.odd = d.odd /\ e.crash = d.crash
    BY <1>3 DEF Desk
  <1> HIDE DEF e
  <1>6. SelSound(e)
    BY <1>3, <1>4, <1>5 DEF SelSound
  <1>7. KeepsDrag(d, e) /\ KeepsDrag(d, d)
    BY <1>5 DEF KeepsDrag
  <1> QED BY <1>1, <1>2, <1>5, <1>6, <1>7

(* One icon is selected in place of the others: the desktop stays right. *)
LEMMA SelectOnlyDesk ==
    ASSUME NEW d \in Desk, SelSound(d), NEW i \in ToSet(d.kids)
    PROVE  LET e == D!SelectOnly(d, i)
           IN  /\ e \in Desk /\ SelSound(e) /\ KeepsDrag(d, e)
               /\ e.kids = d.kids /\ e.lost = d.lost /\ e.held = d.held /\ e.pushed = d.pushed
  <1> DEFINE l == (d.lit \ ToSet(d.kids)) \cup {i}
             n == <<i>>
             e == [d EXCEPT !.lit = l, !.sel = n]
  <1>1. i \in Icons
    BY ToSetOfSeq DEF Desk
  <1>2. D!SelectOnly(d, i) = e
    BY DeskOperators DEF D!SelectOnly, D!UnfocusAll, Desk
  <1>3. l \in SUBSET Icons /\ n \in Seq(Icons) /\ ToSet(n) = {i}
    <2>1. n \in Seq(Icons) /\ ToSet(n) = {i}
      BY <1>1, EmptySeq, ToSetOfSeq
    <2> QED BY <1>1, <2>1 DEF Desk
  <1>4. l \cap ToSet(d.kids) = {i} /\ l \subseteq d.lit \cup {i} /\ i \in l
    OBVIOUS
  <1> HIDE DEF l, n
  <1>5. /\ e \in Desk /\ e.lit = l /\ e.sel = n /\ e.kids = d.kids /\ e.lost = d.lost
        /\ e.held = d.held /\ e.pushed = d.pushed /\ e.ghost = d.ghost /\ e.band = d.band
        /\ e.odd = d.odd /\ e.crash = d.crash
    BY <1>3 DEF Desk
  <1> HIDE DEF e
  <1>6. SelSound(e)
    BY <1>3, <1>4, <1>5 DEF SelSound
  <1>7. KeepsDrag(d, e)
    BY <1>5 DEF KeepsDrag
  <1> QED BY <1>2, <1>5, <1>6, <1>7

(* One icon more is selected, or one less. *)
LEMMA SelectDesk ==
    ASSUME NEW d \in Desk, SelSound(d), NEW i \in ToSet(d.kids)
    PROVE  LET e == D!Select(d, i)
           IN  e \in Desk /\ SelSound(e) /\ KeepsDrag(d, e)
  <1> DEFINE l == d.lit \cup {i}
             n == Append(d.sel, i)
             e == [d EXCEPT !.sel = n, !.lit = l]
  <1>1. i \in Icons
    BY ToSetOfSeq DEF Desk
  <1>2. D!Select(d, i) = IF i \in ToSet(d.sel) THEN d ELSE e
    BY DeskOperators DEF D!Select
  <1>3. l \in SUBSET Icons /\ n \in Seq(Icons) /\ ToSet(n) = ToSet(d.sel) \cup {i}
    BY <1>1, AppendElements DEF Desk
  <1> HIDE DEF n
  <1>5. /\ e \in Desk /\ e.lit = l /\ e.sel = n /\ e.kids = d.kids /\ e.lost = d.lost
        /\ e.held = d.held /\ e.pushed = d.pushed /\ e.ghost = d.ghost /\ e.band = d.band
        /\ e.odd = d.odd /\ e.crash = d.crash
    BY <1>3 DEF Desk
  <1> HIDE DEF e
  <1>6. SelSound(e)
    BY <1>3, <1>5 DEF SelSound
  <1>7. KeepsDrag(d, e) /\ KeepsDrag(d, d)
    BY <1>5 DEF KeepsDrag
  <1> QED BY <1>2, <1>5, <1>6, <1>7

(* AfterMenu() as well keeps the selection and what is dragged. *)
LEMMA AfterMenuDesk ==
    ASSUME NEW d \in Desk, NEW e \in Desk, SelSound(e), KeepsDrag(d, e)
    PROVE  LET f == D!AfterMenu(e)
           IN  f \in Desk /\ SelSound(f) /\ KeepsDrag(d, f)
  <1> DEFINE b == D!Background
             h == {}
             f == [e EXCEPT !.held = h, !.pushed = FALSE, !.below = b]
  <1>1. D!AfterMenu(e) = f
    BY DEF D!AfterMenu
  <1>2. b \in Icons \cup {D!Background} /\ h \in SUBSET (1..3)
    OBVIOUS
  <1> HIDE DEF b, h
  <1>3. /\ f \in Desk /\ f.held = h /\ f.pushed = FALSE
        /\ f.lit = e.lit /\ f.sel = e.sel /\ f.kids = e.kids /\ f.lost = e.lost
        /\ f.ghost = e.ghost /\ f.band = e.band /\ f.odd = e.odd /\ f.crash = e.crash
    BY <1>2 DEF Desk
  <1> HIDE DEF f
  <1> QED BY <1>1, <1>3 DEF SelSound, KeepsDrag, h

(* A new icon is not selected, focused or dragged. *)
LEMMA NewIconDesk ==
    ASSUME NEW d \in Desk, SelSound(d), NEW i \in Icons, i \notin ToSet(d.kids), i \notin d.lost
    PROVE  LET e == [d EXCEPT !.kids = Append(@, i)]
           IN  /\ e \in Desk /\ SelSound(e) /\ KeepsDrag(d, e)
  <1> DEFINE k == Append(d.kids, i)
             e == [d EXCEPT !.kids = k]
  <1>1. k \in Seq(Icons) /\ ToSet(k) = ToSet(d.kids) \cup {i}
    BY AppendElements DEF Desk
  <1> HIDE DEF k
  <1>2. /\ e \in Desk /\ e.kids = k /\ e.held = d.held /\ e.pushed = d.pushed
        /\ e.lit = d.lit /\ e.sel = d.sel /\ e.lost = d.lost
        /\ e.ghost = d.ghost /\ e.band = d.band /\ e.odd = d.odd /\ e.crash = d.crash
    BY <1>1 DEF Desk
  <1> HIDE DEF e
  <1>3. SelSound(e) /\ KeepsDrag(d, e)
    BY <1>1, <1>2 DEF SelSound, KeepsDrag
  <1> QED BY <1>2, <1>3 DEF e, k

(* Removing an icon keeps the selection sound, though the icon may be in it. *)
LEMMA RemovedDesk ==
    ASSUME NEW d \in Desk, SelSound(d), NEW i \in Icons
    PROVE  LET e == D!RemoveIcon(d, i)
           IN  e \in Desk /\ SelSound(e) /\ KeepsDrag(d, e)
  <1> DEFINE e == D!RemoveIcon(d, i)
  <1>1. /\ e \in Desk /\ ToSet(e.kids) = ToSet(d.kids) \ {i}
        /\ e.lost = d.lost \cup {i}
        /\ e = [d EXCEPT !.kids = e.kids, !.lost = e.lost]
    BY RemoveIconDesk
  <1> DEFINE k == e.kids
             l == e.lost
  <1>2. e = [d EXCEPT !.kids = k, !.lost = l]
    BY <1>1
  <1> HIDE DEF k, l
  <1>3. /\ e.lit = d.lit /\ e.sel = d.sel /\ e.held = d.held /\ e.pushed = d.pushed
        /\ e.ghost = d.ghost /\ e.band = d.band /\ e.odd = d.odd /\ e.crash = d.crash
    BY <1>2 DEF Desk
  <1> HIDE DEF e
  <1> QED BY <1>1, <1>3 DEF SelSound, KeepsDrag, e

(* Every press on the desktop, *)
LEMMA PressBackgroundDesk ==
    ASSUME NEW d \in Desk, SelSound(d), NEW b \in 1..3, NEW e \in D!PressBackground(b, d),
           d.kids = s.kids, d.lost = s.lost
    PROVE  e \in Desk /\ SelSound(e) /\ KeepsDrag(d, e)
  <1> DEFINE c == D!ClearSelection(d)
  <1>1. /\ c \in Desk /\ SelSound(c) /\ KeepsDrag(d, c)
        /\ c.kids = d.kids /\ c.lost = d.lost /\ c.held = d.held /\ c.pushed = d.pushed
    BY ClearDesk
  <1>2. e \in IF b = 3 THEN D!DesktopMenu(c) ELSE {[c EXCEPT !.armed = @ \/ b = 1]}
    BY DEF D!PressBackground
  <1> HIDE DEF c
  <1>3. CASE b = 3
    <2>1. \/ e = D!AfterMenu(c)
          \/ \E i \in D!Fresh : e = D!AfterMenu([c EXCEPT !.kids = Append(@, i)])
      BY <1>2, <1>3 DEF D!DesktopMenu
    <2>2. CASE e = D!AfterMenu(c)
      BY <1>1, <2>2, AfterMenuDesk
    <2>3. ASSUME NEW i \in D!Fresh, e = D!AfterMenu([c EXCEPT !.kids = Append(@, i)])
          PROVE  e \in Desk /\ SelSound(e) /\ KeepsDrag(d, e)
      <3> DEFINE n == [c EXCEPT !.kids = Append(@, i)]
      <3>1. i \in Icons /\ i \notin ToSet(c.kids) /\ i \notin c.lost
        BY <1>1, DeskOperators DEF D!Fresh, D!OnDesk
      <3>2. n \in Desk /\ SelSound(n) /\ KeepsDrag(c, n)
        BY <1>1, <3>1, NewIconDesk
      <3> HIDE DEF n
      <3>3. KeepsDrag(d, n)
        BY <1>1, <3>2 DEF KeepsDrag
      <3>4. e = D!AfterMenu(n)
        BY <2>3 DEF n
      <3> QED BY <3>2, <3>3, <3>4, AfterMenuDesk
    <2> QED BY <2>1, <2>2, <2>3
  <1>4. CASE b # 3
    <2> DEFINE m == c.armed \/ b = 1
    <2>1. e = [c EXCEPT !.armed = m]
      BY <1>2, <1>4
    <2>2. m \in BOOLEAN
      OBVIOUS
    <2> HIDE DEF m
    <2>3. /\ e \in Desk /\ e.lit = c.lit /\ e.sel = c.sel /\ e.kids = c.kids /\ e.lost = c.lost
          /\ e.held = c.held /\ e.pushed = c.pushed
          /\ e.ghost = c.ghost /\ e.band = c.band /\ e.odd = c.odd /\ e.crash = c.crash
      BY <1>1, <2>1, <2>2 DEF Desk
    <2> QED BY <1>1, <2>3 DEF SelSound, KeepsDrag
  <1> QED BY <1>3, <1>4

(* and every press on an icon. *)
LEMMA PressIconDesk ==
    ASSUME NEW d \in Desk, SelSound(d), NEW b \in 1..3, NEW shift \in BOOLEAN,
           NEW i \in ToSet(d.kids), NEW e \in D!PressIcon(b, shift, d, i)
    PROVE  e \in Desk /\ SelSound(e) /\ KeepsDrag(d, e)
  <1>1. i \in Icons
    BY ToSetOfSeq DEF Desk
  <1> DEFINE c == D!Selected(d, b, i)
  <1>2. c = d \/ c = D!SelectOnly(d, i)
    BY DEF D!Selected
  <1>3. KeepsDrag(d, d)
    BY DEF KeepsDrag
  <1>4. c \in Desk /\ SelSound(c) /\ KeepsDrag(d, c)
    BY <1>2, <1>3, SelectOnlyDesk
  <1> HIDE DEF c
  <1>5. \/ e = D!Select(d, i)
        \/ e = c
        \/ e \in D!IconMenu(c, i)
    BY DEF D!PressIcon, c
  <1>6. CASE e \in D!IconMenu(c, i)
    <2> DEFINE r == D!RemoveIcon(c, i)
               w == [c EXCEPT !.edit = i]
    <2>1. e = D!AfterMenu(c) \/ e = D!AfterMenu(r) \/ e = D!AfterMenu(w)
      BY <1>6 DEF D!IconMenu
    <2>2. r \in Desk /\ SelSound(r) /\ KeepsDrag(d, r)
      <3>1. r \in Desk /\ SelSound(r) /\ KeepsDrag(c, r)
        BY <1>1, <1>4, RemovedDesk
      <3> HIDE DEF r
      <3> QED BY <1>4, <3>1 DEF KeepsDrag
    <2>3. w \in Desk /\ SelSound(w) /\ KeepsDrag(d, w)
      <3>1. /\ w \in Desk /\ w.lit = c.lit /\ w.sel = c.sel /\ w.kids = c.kids
            /\ w.lost = c.lost /\ w.held = c.held /\ w.pushed = c.pushed
            /\ w.ghost = c.ghost /\ w.band = c.band /\ w.odd = c.odd /\ w.crash = c.crash
        BY <1>1, <1>4 DEF Desk
      <3> HIDE DEF w
      <3> QED BY <1>4, <3>1 DEF SelSound, KeepsDrag
    <2> HIDE DEF r, w
    <2> QED BY <1>4, <2>1, <2>2, <2>3, AfterMenuDesk
  <1> QED BY <1>4, <1>5, <1>6, SelectDesk

(* A button that goes down. *)
LEMMA PushDesk ==
    ASSUME DeskInv, NEW b \in 1..3, NEW t \in Icons \cup {D!Background}, NEW shift \in BOOLEAN,
           D!Push(b, t, shift)
    PROVE  DeskInv'
  <1> DEFINE h == s.held \cup {b}
             o == s.odd \/ s.held # {}
             d == [s EXCEPT !.held = h, !.below = t, !.pushed = TRUE, !.odd = o]
  <1>1. D!Down(s, b, t) = d
    BY DEF D!Down
  <1>2. h \in SUBSET (1..3) /\ o \in BOOLEAN /\ t \in Icons \cup {D!Background}
    BY DEF DeskInv, Desk
  <1>3. \/ s' \in D!PressBackground(b, D!Down(s, b, t))
        \/ t \in D!OnDesk /\ s' \in D!PressIcon(b, shift, D!Down(s, b, t), t)
    BY DEF D!Push
  <1>4. ~ o => ~ s.odd /\ s.held = {} /\ h = {b}
    BY DEF DeskInv, Desk
  <1> HIDE DEF h, o
  <1>5. /\ d \in Desk /\ d.held = h /\ d.odd = o /\ d.pushed = TRUE
        /\ d.lit = s.lit /\ d.sel = s.sel /\ d.kids = s.kids /\ d.lost = s.lost
        /\ d.ghost = s.ghost /\ d.band = s.band /\ d.crash = s.crash
    BY <1>2 DEF DeskInv, Desk
  <1> HIDE DEF d
  <1>6. SelSound(d)
    BY <1>5 DEF DeskInv, SelSound
  <1>7. s' \in Desk /\ SelSound(s') /\ KeepsDrag(d, s')
    <2>1. CASE s' \in D!PressBackground(b, d)
      BY <1>5, <1>6, <2>1, PressBackgroundDesk
    <2>2. CASE t \in D!OnDesk /\ s' \in D!PressIcon(b, shift, d, t)
      <3>1. t \in ToSet(d.kids)
        BY <1>5, <2>2, DeskOperators DEF D!OnDesk
      <3> QED BY <1>5, <1>6, <2>2, <3>1, PressIconDesk
    <2> QED BY <1>1, <1>3, <2>1, <2>2
  <1>8. DragSound(s')
    <2>1. s'.lost = {} => ~ s'.crash
      BY <1>5, <1>7 DEF DeskInv, DragSound, KeepsDrag
    <2>2. ASSUME ~ s'.odd, ~ s'.crash PROVE OneButton(s')
      <3>1. ~ o /\ ~ s.odd /\ s.held = {} /\ h = {b} /\ ~ s.crash
        BY <1>4, <1>5, <1>7, <2>2 DEF KeepsDrag
      <3>2. ~ s.band /\ s.ghost = {}
        BY <3>1 DEF DeskInv, DragSound, OneButton, Desk
      <3>3. s'.ghost = {} /\ ~ s'.band
        BY <1>5, <1>7, <3>2 DEF KeepsDrag
      <3>4. s'.held \subseteq {b} /\ s'.pushed = (s'.held # {})
        BY <1>5, <1>7, <3>1 DEF KeepsDrag
      <3> QED BY <3>3, <3>4 DEF OneButton
    <2> QED BY <2>1, <2>2 DEF DragSound
  <1> QED BY <1>7, <1>8 DEF DeskInv

(* move_selection(), while dragging and at the end of it. *)
LEMMA MoveSelectionDesk ==
    ASSUME NEW d \in Desk, SelSound(d), NEW apply \in BOOLEAN, d.sel # <<>>
    PROVE  LET e == D!MoveSelection(d, apply)
           IN  /\ e \in Desk /\ SelSound(e)
               /\ e.held = d.held /\ e.pushed = d.pushed /\ e.band = d.band /\ e.odd = d.odd
               /\ e.sel = d.sel /\ e.lost = d.lost /\ e.moving = d.moving
               /\ e.crash => d.crash \/ d.lost # {}
               /\ ~ e.crash => e.ghost = IF apply THEN d.ghost \ ToSet(d.sel)
                                         ELSE d.ghost \cup ToSet(d.sel)
  <1> DEFINE e == D!MoveSelection(d, apply)
             g == IF apply THEN d.ghost \ ToSet(d.sel) ELSE d.ghost \cup ToSet(d.sel)
             c == [d EXCEPT !.ghost = g]
             i == Last(d.sel)
             t == D!ToTop(c, i)
  <1>1. ToSet(d.sel) \subseteq Icons /\ i \in ToSet(d.sel) /\ i \in Icons
    BY ToSetOfSeq DEF Desk
  <1>2. e = IF apply /\ ~ ToSet(d.sel) \subseteq ToSet(d.kids) THEN [d EXCEPT !.crash = TRUE] ELSE t
    BY DeskOperators DEF D!MoveSelection
  <1>3. g \in SUBSET Icons /\ g \subseteq d.ghost \cup ToSet(d.sel)
    BY <1>1 DEF Desk
  <1>4. g = IF apply THEN d.ghost \ ToSet(d.sel) ELSE d.ghost \cup ToSet(d.sel)
    OBVIOUS
  <1> HIDE DEF g
  <1>5. /\ c \in Desk /\ c.ghost = g /\ c.kids = d.kids /\ c.lit = d.lit /\ c.sel = d.sel
        /\ c.lost = d.lost /\ c.held = d.held /\ c.pushed = d.pushed /\ c.band = d.band
        /\ c.odd = d.odd /\ c.crash = d.crash /\ c.moving = d.moving
    BY <1>3 DEF Desk
  <1> HIDE DEF c, i
  <1>6. t \in Desk /\ ToSet(t.kids) = ToSet(c.kids) \cup {i} /\ t = [c EXCEPT !.kids = t.kids]
    BY <1>1, <1>5, ToTopDesk
  <1> DEFINE k == t.kids
  <1>7. t = [c EXCEPT !.kids = k]
    BY <1>6
  <1> HIDE DEF k
  <1>8. /\ t.ghost = g /\ t.lit = d.lit /\ t.sel = d.sel
        /\ t.lost = d.lost /\ t.held = d.held /\ t.pushed = d.pushed /\ t.band = d.band
        /\ t.odd = d.odd /\ t.crash = d.crash /\ t.moving = d.moving
    BY <1>5, <1>7 DEF Desk
  <1> HIDE DEF t
  <1>9. SelSound(t)
    BY <1>1, <1>3, <1>5, <1>6, <1>8 DEF SelSound
  <1>10. CASE apply /\ ~ ToSet(d.sel) \subseteq ToSet(d.kids)
    <2>1. d.lost # {}
      BY <1>10 DEF SelSound
    <2>2. e = [d EXCEPT !.crash = TRUE]
      BY <1>2, <1>10
    <2>3. /\ e \in Desk /\ e.ghost = d.ghost /\ e.kids = d.kids /\ e.lit = d.lit /\ e.sel = d.sel
          /\ e.lost = d.lost /\ e.held = d.held /\ e.pushed = d.pushed /\ e.band = d.band
          /\ e.odd = d.odd /\ e.crash = TRUE /\ e.moving = d.moving
      BY <2>2 DEF Desk
    <2> HIDE DEF e
    <2>4. SelSound(e)
      BY <2>3 DEF SelSound
    <2> QED BY <2>1, <2>3, <2>4 DEF e
  <1>11. CASE ~ (apply /\ ~ ToSet(d.sel) \subseteq ToSet(d.kids))
    <2>1. e = t
      BY <1>2, <1>11
    <2> HIDE DEF e
    <2> QED BY <1>4, <1>6, <1>8, <1>9, <2>1 DEF e
  <1> QED BY <1>10, <1>11

(* Motion while a button is held. *)
LEMMA DragDesk ==
    ASSUME DeskInv, D!Drag
    PROVE  DeskInv'
  <1> DEFINE d == [s EXCEPT !.moving = TRUE]
  <1>1. /\ d \in Desk /\ d.moving = TRUE /\ d.ghost = s.ghost /\ d.kids = s.kids /\ d.lit = s.lit
        /\ d.sel = s.sel /\ d.lost = s.lost /\ d.held = s.held /\ d.pushed = s.pushed
        /\ d.band = s.band /\ d.odd = s.odd /\ d.crash = s.crash /\ d.armed = s.armed
    BY DEF DeskInv, Desk
  <1>2. s.pushed
    BY DEF D!Drag
  <1>3. \/ d.sel # <<>> /\ s' = D!MoveSelection(d, FALSE)
        \/ d.sel = <<>> /\ \E area \in SUBSET D!OnDesk : s' = D!InArea(d, area)
        \/ s' = d
    BY DEF D!Drag
  <1> HIDE DEF d
  <1>4. SelSound(d) /\ DragSound(d)
    BY <1>1, <1>2 DEF DeskInv, SelSound, DragSound, OneButton
  <1>5. CASE d.sel # <<>> /\ s' = D!MoveSelection(d, FALSE)
    <2>1. FALSE \in BOOLEAN
      OBVIOUS
    <2>2. /\ s' \in Desk /\ SelSound(s')
          /\ s'.held = d.held /\ s'.pushed = d.pushed /\ s'.band = d.band /\ s'.odd = d.odd
          /\ s'.sel = d.sel /\ s'.lost = d.lost /\ s'.moving = d.moving
          /\ s'.crash => d.crash \/ d.lost # {}
          /\ ~ s'.crash => s'.ghost = d.ghost \cup ToSet(d.sel)
      BY <1>1, <1>4, <1>5, <2>1, MoveSelectionDesk
    <2>3. ~ s'.crash => ~ d.crash
      BY <1>5, DeskOperators DEF D!MoveSelection, D!ToTop, Desk
    <2>4. DragSound(s')
      <3>1. s'.lost = {} => ~ s'.crash
        BY <1>4, <2>2 DEF DragSound
      <3>2. ASSUME ~ s'.odd, ~ s'.crash PROVE OneButton(s')
        <4>1. OneButton(d)
          BY <1>4, <2>2, <2>3, <3>2 DEF DragSound
        <4>2. ~ d.band
          BY <1>5, <4>1 DEF OneButton
        <4>3. d.moving /\ d.pushed
          BY <1>1, <1>2
        <4>4. s'.ghost \subseteq ToSet(s'.sel)
          BY <2>2, <3>2, <4>1 DEF OneButton
        <4> QED BY <2>2, <4>1, <4>2, <4>3, <4>4 DEF OneButton
      <3> QED BY <3>1, <3>2 DEF DragSound
    <2> QED BY <2>2, <2>4 DEF DeskInv
  <1>6. CASE d.sel = <<>> /\ \E area \in SUBSET D!OnDesk : s' = D!InArea(d, area)
    <2>1. PICK area \in SUBSET ToSet(d.kids) : s' = D!InArea(d, area)
      BY <1>1, <1>6, DeskOperators DEF D!OnDesk
    <2> DEFINE l == (d.lit \ ToSet(d.kids)) \cup area
    <2>2. s' = [d EXCEPT !.band = TRUE, !.lit = l]
      BY <2>1, DeskOperators DEF D!InArea
    <2>3. l \in SUBSET Icons /\ l \subseteq d.lit \cup ToSet(d.kids)
      <3>1. ToSet(d.kids) \subseteq Icons
        BY <1>1, ToSetOfSeq DEF Desk
      <3> QED BY <1>1, <3>1 DEF Desk
    <2> HIDE DEF l
    <2>4. /\ s' \in Desk /\ s'.band = TRUE /\ s'.lit = l
          /\ s'.ghost = d.ghost /\ s'.kids = d.kids /\ s'.moving = d.moving
          /\ s'.sel = d.sel /\ s'.lost = d.lost /\ s'.held = d.held /\ s'.pushed = d.pushed
          /\ s'.odd = d.odd /\ s'.crash = d.crash
      BY <1>1, <2>2, <2>3 DEF Desk
    <2>5. ToSet(d.sel) = {}
      BY <1>1, <1>6, ToSetOfSeq DEF Desk
    <2>6. SelSound(s')
      BY <1>4, <2>3, <2>4, <2>5 DEF SelSound
    <2>7. DragSound(s')
      BY <1>1, <1>2, <1>4, <1>6, <2>4, <2>5 DEF DragSound, OneButton
    <2> QED BY <2>4, <2>6, <2>7 DEF DeskInv
  <1>7. CASE s' = d
    BY <1>1, <1>4, <1>7 DEF DeskInv
  <1> QED BY <1>3, <1>5, <1>6, <1>7

(* The band's end: what it has focused is the selection, *)
LEMMA EndBandDesk ==
    ASSUME NEW d \in Desk, SelSound(d),
           d.lost = {} => ~ d.crash, ~ d.odd => d.held = {} /\ d.pushed = FALSE,
           ~ d.odd /\ ~ d.crash => d.ghost = {}
    PROVE  D!EndBand(d) \in Desk /\ SelSound(D!EndBand(d)) /\ DragSound(D!EndBand(d))
  <1> DEFINE n == Sieve(d.kids, d.lit)
             e == [d EXCEPT !.band = FALSE, !.armed = FALSE, !.sel = n]
  <1>1. D!EndBand(d) = e
    BY DeskOperators DEF D!EndBand
  <1>2. n \in Seq(Icons) /\ ToSet(n) = ToSet(d.kids) \cap d.lit
    BY SieveElements DEF Desk
  <1> HIDE DEF n
  <1>3. /\ e \in Desk /\ e.band = FALSE /\ e.sel = n
        /\ e.ghost = d.ghost /\ e.kids = d.kids /\ e.moving = d.moving
        /\ e.lit = d.lit /\ e.lost = d.lost /\ e.held = d.held /\ e.pushed = d.pushed
        /\ e.odd = d.odd /\ e.crash = d.crash
    BY <1>2 DEF Desk
  <1> HIDE DEF e
  <1>4. SelSound(e)
    BY <1>2, <1>3 DEF SelSound
  <1>5. DragSound(e)
    BY <1>3 DEF DragSound, OneButton
  <1> QED BY <1>1, <1>3, <1>4, <1>5

(* and the end of a drag, which leaves no window of an icon behind. *)
LEMMA EndMoveDesk ==
    ASSUME NEW d \in Desk, SelSound(d), d.lost = {} => ~ d.crash,
           ~ d.odd => d.held = {} /\ d.pushed = FALSE /\ ~ d.band,
           ~ d.odd /\ ~ d.crash =>
               d.ghost \subseteq ToSet(d.sel) /\ (d.ghost # {} => d.moving)
    PROVE  D!EndMove(d) \in Desk /\ SelSound(D!EndMove(d)) /\ DragSound(D!EndMove(d))
  <1> DEFINE c == IF d.moving THEN D!MoveSelection(d, TRUE) ELSE d
             e == [c EXCEPT !.moving = FALSE]
  <1>1. D!EndMove(d) = e
    BY DEF D!EndMove
  <1>2. /\ c \in Desk /\ SelSound(c) /\ c.held = d.held /\ c.pushed = d.pushed
        /\ c.band = d.band /\ c.odd = d.odd /\ c.lost = d.lost
        /\ c.crash => d.crash \/ d.lost # {}
        /\ ~ c.odd /\ ~ c.crash /\ ~ d.crash => c.ghost = {}
        /\ ~ c.crash => ~ d.crash
    <2>1. CASE ~ d.moving
      BY <2>1
    <2>2. CASE d.moving /\ d.sel = <<>>
      <3>1. c = d
        BY <2>2 DEF D!MoveSelection
      <3>2. ToSet(d.sel) = {}
        BY <2>2, ToSetOfSeq DEF Desk
      <3> HIDE DEF c
      <3> QED BY <3>1, <3>2
    <2>3. CASE d.moving /\ d.sel # <<>>
      <3>1. c = D!MoveSelection(d, TRUE)
        BY <2>3
      <3>2. ~ c.crash => ~ d.crash
        BY <2>3, <3>1, DeskOperators DEF D!MoveSelection, D!ToTop, Desk
      <3> HIDE DEF c
      <3>3. TRUE \in BOOLEAN
        OBVIOUS
      <3>4. /\ c \in Desk /\ SelSound(c)
            /\ c.held = d.held /\ c.pushed = d.pushed /\ c.band = d.band /\ c.odd = d.odd
            /\ c.sel = d.sel /\ c.lost = d.lost /\ c.moving = d.moving
            /\ c.crash => d.crash \/ d.lost # {}
            /\ ~ c.crash => c.ghost = d.ghost \ ToSet(d.sel)
        BY <2>3, <3>1, <3>3, MoveSelectionDesk
      <3> QED BY <3>2, <3>4
    <2> QED BY <2>1, <2>2, <2>3
  <1> HIDE DEF c
  <1>3. /\ e \in Desk /\ e.moving = FALSE
        /\ e.ghost = c.ghost /\ e.kids = c.kids /\ e.band = c.band /\ e.sel = c.sel
        /\ e.lit = c.lit /\ e.lost = c.lost /\ e.held = c.held /\ e.pushed = c.pushed
        /\ e.odd = c.odd /\ e.crash = c.crash
    BY <1>2 DEF Desk
  <1> HIDE DEF e
  <1>4. SelSound(e)
    BY <1>2, <1>3 DEF SelSound
  <1>5. DragSound(e)
    BY <1>2, <1>3 DEF DragSound, OneButton
  <1> QED BY <1>1, <1>3, <1>4, <1>5

(* A button that goes up ends one or the other. *)
LEMMA ReleaseDesk ==
    ASSUME DeskInv, NEW b \in 1..3, D!Release(b)
    PROVE  DeskInv'
  <1> DEFINE h == s.held \ {b}
             d == [s EXCEPT !.held = h, !.pushed = FALSE]
  <1>1. h \in SUBSET (1..3) /\ b \in s.held
    BY DEF D!Release, DeskInv, Desk
  <1>2. s' = IF d.band THEN D!EndBand(d) ELSE D!EndMove(d)
    BY DEF D!Release
  <1>3. ~ s.odd /\ ~ s.crash => h = {}
    BY <1>1 DEF DeskInv, DragSound, OneButton
  <1> HIDE DEF h
  <1>4. /\ d \in Desk /\ d.held = h /\ d.pushed = FALSE
        /\ d.ghost = s.ghost /\ d.kids = s.kids /\ d.lit = s.lit /\ d.moving = s.moving
        /\ d.sel = s.sel /\ d.lost = s.lost /\ d.band = s.band /\ d.odd = s.odd /\ d.crash = s.crash
    BY <1>1 DEF DeskInv, Desk
  <1> HIDE DEF d
  <1>5. SelSound(d) /\ ~ s.crash
    BY <1>4 DEF DeskInv, SelSound, D!Release, D!Usable
  <1>6. ~ s.odd => OneButton(s)
    BY <1>5 DEF DeskInv, DragSound
  <1>7. CASE d.band
    <2>1. ~ d.odd => d.ghost = {}
      BY <1>4, <1>6, <1>7 DEF OneButton
    <2> QED BY <1>2, <1>3, <1>4, <1>5, <1>7, <2>1, EndBandDesk DEF DeskInv
  <1>8. CASE ~ d.band
    <2>1. ~ d.odd => d.ghost \subseteq ToSet(d.sel) /\ (d.ghost # {} => d.moving)
      BY <1>4, <1>6 DEF OneButton
    <2> QED BY <1>2, <1>3, <1>4, <1>5, <1>8, <2>1, EndMoveDesk DEF DeskInv
  <1> QED BY <1>7, <1>8

(* What the dialog does to an icon changes nothing that is dragged. *)
LEMMA EditDesk ==
    ASSUME DeskInv, D!EditOk \/ D!EditCancel
    PROVE  DeskInv'
  <1>1. KeepsDrag(s, s)
    BY DEF KeepsDrag
  <1> DEFINE no == "no"
             i == s.edit
             r == D!RemoveIcon(s, i)
             e == [r EXCEPT !.edit = no]
             c == [s EXCEPT !.edit = no]
  <1>2. no \in Icons \cup {"no"}
    OBVIOUS
  <1>3. \/ s' = c
        \/ s.edit # "no" /\ s' = e
        \/ s.edit # "no" /\ \E j \in D!Fresh : s' = [e EXCEPT !.kids = Append(@, j)]
    BY DEF D!EditOk, D!EditCancel
  <1> HIDE DEF no
  <1>4. /\ c \in Desk /\ c.ghost = s.ghost /\ c.kids = s.kids /\ c.lit = s.lit /\ c.moving = s.moving
        /\ c.sel = s.sel /\ c.lost = s.lost /\ c.band = s.band /\ c.odd = s.odd /\ c.crash = s.crash
        /\ c.held = s.held /\ c.pushed = s.pushed
    BY <1>2 DEF DeskInv, Desk
  <1> HIDE DEF c
  <1>5. CASE s' = c
    BY <1>4, <1>5 DEF DeskInv, SelSound, DragSound, OneButton
  <1>6. ASSUME s.edit # "no"
        PROVE  /\ e \in Desk /\ SelSound(e) /\ DragSound(e)
               /\ ToSet(e.kids) \subseteq ToSet(s.kids) \cup s.lost
               /\ e.lost = s.lost \cup {i} /\ e.lit = s.lit
    <2>1. i \in Icons
      BY <1>6 DEF DeskInv, Desk
    <2>2. /\ r \in Desk /\ ToSet(r.kids) = ToSet(s.kids) \ {i} /\ r.lost = s.lost \cup {i}
          /\ r = [s EXCEPT !.kids = r.kids, !.lost = r.lost] /\ SelSound(r)
      BY <2>1, RemoveIconDesk, RemovedDesk DEF DeskInv
    <2> DEFINE k == r.kids
               l == r.lost
    <2>3. r = [s EXCEPT !.kids = k, !.lost = l]
      BY <2>2
    <2> HIDE DEF k, l
    <2>4. /\ r.ghost = s.ghost /\ r.lit = s.lit /\ r.moving = s.moving
          /\ r.sel = s.sel /\ r.band = s.band /\ r.odd = s.odd /\ r.crash = s.crash
          /\ r.held = s.held /\ r.pushed = s.pushed
      BY <2>3 DEF DeskInv, Desk
    <2> HIDE DEF r
    <2>5. /\ e \in Desk /\ e.ghost = r.ghost /\ e.lit = r.lit /\ e.moving = r.moving
          /\ e.sel = r.sel /\ e.band = r.band /\ e.odd = r.odd /\ e.crash = r.crash
          /\ e.held = r.held /\ e.pushed = r.pushed /\ e.kids = r.kids /\ e.lost = r.lost
      BY <1>2, <2>2 DEF Desk
    <2> HIDE DEF e, i
    <2>6. SelSound(e)
      BY <2>2, <2>5 DEF SelSound
    <2>7. DragSound(e)
      BY <2>2, <2>4, <2>5 DEF DeskInv, DragSound, OneButton
    <2> QED BY <2>2, <2>4, <2>5, <2>6, <2>7
  <1>7. CASE s.edit # "no" /\ s' = e
    BY <1>6, <1>7 DEF DeskInv
  <1>8. ASSUME s.edit # "no", NEW j \in D!Fresh, s' = [e EXCEPT !.kids = Append(@, j)]
        PROVE  DeskInv'
    <2>1. j \in Icons /\ j \notin ToSet(s.kids) /\ j \notin s.lost
      BY DeskOperators DEF D!Fresh, D!OnDesk
    <2>2. CASE j = i
      <3> DEFINE k == Append(e.kids, j)
      <3>1. /\ e \in Desk /\ SelSound(e) /\ DragSound(e)
            /\ e.lost = s.lost \cup {i} /\ e.lit = s.lit
        BY <1>6, <1>8
      <3>2. k \in Seq(Icons) /\ ToSet(k) = ToSet(e.kids) \cup {j}
        BY <2>1, <3>1, AppendElements DEF Desk
      <3>3. s' = [e EXCEPT !.kids = k]
        BY <1>8
      <3> HIDE DEF k, e
      <3>4. /\ s' \in Desk /\ s'.kids = k /\ s'.ghost = e.ghost /\ s'.lit = e.lit
            /\ s'.moving = e.moving /\ s'.sel = e.sel /\ s'.band = e.band /\ s'.odd = e.odd
            /\ s'.crash = e.crash /\ s'.held = e.held /\ s'.pushed = e.pushed /\ s'.lost = e.lost
        BY <3>1, <3>2, <3>3 DEF Desk
      <3>5. j \notin e.lit
        BY <2>1, <3>1 DEF DeskInv, SelSound
      <3>6. SelSound(s')
        BY <3>1, <3>2, <3>4, <3>5 DEF SelSound
      <3> QED BY <3>1, <3>4, <3>6 DEF DeskInv, DragSound, OneButton
    <2>3. CASE j # i
      <3>1. e \in Desk /\ SelSound(e) /\ DragSound(e) /\ j \notin ToSet(e.kids) /\ j \notin e.lost
        BY <1>6, <1>8, <2>1, <2>3
      <3> HIDE DEF e
      <3>2. s' \in Desk /\ SelSound(s') /\ KeepsDrag(e, s')
        BY <1>8, <2>1, <3>1, NewIconDesk
      <3> DEFINE k == Append(e.kids, j)
      <3>3. s' = [e EXCEPT !.kids = k] /\ k \in Seq(Icons)
        BY <1>8, <2>1, <3>1, AppendElements DEF Desk
      <3> HIDE DEF k
      <3>4. /\ s'.moving = e.moving /\ s'.sel = e.sel /\ s'.held = e.held /\ s'.pushed = e.pushed
            /\ s'.ghost = e.ghost /\ s'.band = e.band /\ s'.odd = e.odd /\ s'.crash = e.crash
            /\ s'.lost = e.lost
        BY <3>1, <3>3 DEF Desk
      <3> QED BY <3>1, <3>2, <3>4 DEF DeskInv, DragSound, OneButton
    <2> QED BY <2>2, <2>3
  <1> QED BY <1>3, <1>5, <1>7, <1>8

(* Every event keeps the selection and what is dragged sound. *)
LEMMA DeskStep == DeskInv /\ [D!Next]_s => DeskInv'
  <1> SUFFICES ASSUME DeskInv, [D!Next]_s PROVE DeskInv'
    OBVIOUS
  <1>1. CASE \E b \in 1..3, t \in Icons \cup {D!Background}, shift \in BOOLEAN : D!Push(b, t, shift)
    BY <1>1, PushDesk
  <1>2. CASE D!Drag
    BY <1>2, DragDesk
  <1>3. CASE \E b \in 1..3 : D!Release(b)
    BY <1>3, ReleaseDesk
  <1>4. CASE D!EditOk \/ D!EditCancel
    BY <1>4, EditDesk
  <1>5. CASE UNCHANGED s
    BY <1>5 DEF DeskInv, SelSound, DragSound, OneButton
  <1> QED BY <1>1, <1>2, <1>3, <1>4, <1>5 DEF D!Next

(* What the run checks of the desktop. *)
LEMMA DeskPromises == DeskInv => D!SelectionShown /\ D!DragEnds
  <1> SUFFICES ASSUME DeskInv PROVE D!SelectionShown /\ D!DragEnds
    OBVIOUS
  <1>1. D!SelectionShown
    BY DeskOperators DEF DeskInv, SelSound, D!SelectionShown, D!OnDesk
  <1>2. D!DragEnds
    BY DeskOperators DEF DeskInv, SelSound, DragSound, OneButton, D!DragEnds, D!OnDesk
  <1> QED BY <1>1, <1>2

----------------------------------------------------------------------------
(* The panel.                                                              *)

Pan == [ screen : Screens, perc : Percents, px : Int, hx : Int, hidden : BOOLEAN,
         kids : BOOLEAN, strut : {"none", "panel", "line"}, timers : Nat, stop : Int,
         oldpx : Int, oldhx : Int, icons : Seq(TrayWindows), alive : SUBSET TrayWindows,
         reports : Seq(TrayWindows), twice : SUBSET TrayWindows, lost : SUBSET TrayWindows,
         late : BOOLEAN, resized : BOOLEAN, redone : BOOLEAN ]

(* Where do_layout() puts the hider, and where the hidden panel is.        *)
AtRight(p) == A!PanelW(p) - A!INITIAL_SPACING - A!HiderW
Away(p) == p.screen - A!HiderW

(* The panel is hidden or not, whatever timeouts are pending; what is kept *)
(* for its way back is right as soon as one is.                            *)
Hidden(p) ==
    /\ p.px = p.stop /\ p.stop = Away(p) /\ ~ p.kids
    /\ p.oldpx = A!Home(p) /\ p.oldhx = AtRight(p)
    /\ ~ p.redone => p.hx = A!BoxDx
    /\ p.perc = 100 => p.strut = "line"

Shown(p) ==
    /\ p.kids /\ p.hx = AtRight(p)
    /\ p.timers = 0 => p.px = A!Home(p)
    /\ p.timers > 0 => p.stop = Away(p) /\ p.oldpx = A!Home(p)
    /\ p.perc = 100 => p.strut = "panel"

SlideSound(p) ==
    ~ p.late /\ ~ p.resized => (p.hidden => Hidden(p)) /\ (~ p.hidden => Shown(p))

(* An icon that is there twice was docked twice. *)
TraySound(p) ==
    /\ \A w \in ToSet(p.icons) :
          w \in p.alive \cup ToSet(p.reports) \cup p.twice \cup p.lost
    /\ \A i, j \in 1..Len(p.icons) : p.icons[i] = p.icons[j] /\ i # j => p.icons[i] \in p.twice

PanInv == s \in Pan /\ SlideSound(s) /\ TraySound(s)

SameSlide(p, q) ==
    /\ p.screen = q.screen /\ p.perc = q.perc /\ p.px = q.px /\ p.hx = q.hx
    /\ p.hidden = q.hidden /\ p.kids = q.kids /\ p.strut = q.strut /\ p.timers = q.timers
    /\ p.stop = q.stop /\ p.oldpx = q.oldpx /\ p.oldhx = q.oldhx
    /\ p.late = q.late /\ p.resized = q.resized /\ p.redone = q.redone

SameTray(p, q) ==
    /\ p.icons = q.icons /\ p.alive = q.alive /\ p.reports = q.reports
    /\ p.twice = q.twice /\ p.lost = q.lost

(* The operators that Panel.tla has from its libraries. *)
LEMMA PanOperators ==
    \A q, e : A!ToSet(q) = ToSet(q) /\ A!RemoveFirst(q, e) = RemoveFirst(q, e)
  BY DEF A!ToSet, ToSet, A!RemoveFirst, RemoveFirst, A!RemoveAt, RemoveAt,
         A!SelectInSeq, SelectInSeq, A!Min, Min

(* The panel's width and place follow from the screen and the percentage. *)
LEMMA PanPlace ==
    /\ \A p \in Pan : A!PanelW(p) \in Int /\ A!Home(p) \in Int /\ AtRight(p) \in Int /\ Away(p) \in Int
    /\ \A p, q \in Pan : p.screen = q.screen /\ p.perc = q.perc
          => /\ A!PanelW(p) = A!PanelW(q) /\ A!Home(p) = A!Home(q)
             /\ AtRight(p) = AtRight(q) /\ Away(p) = Away(q)
  <1>1. ASSUME NEW p \in Pan
        PROVE  A!PanelW(p) \in Int /\ A!Home(p) \in Int /\ AtRight(p) \in Int /\ Away(p) \in Int
    <2>1. p.perc \in Nat /\ p.screen \in Nat
      BY ShellAssumption DEF Pan
    <2>2. p.perc * p.screen \in Nat
      BY <2>1
    <2> DEFINE m == p.perc * p.screen
    <2> HIDE DEF m
    <2>3. m \in Nat => m \div 100 \in Int
      OBVIOUS
    <2>4. A!PanelW(p) \in Int
      BY <2>2, <2>3 DEF A!PanelW, m
    <2>5. A!Home(p) \in Int
      BY <2>1, <2>4 DEF A!Home
    <2> QED BY <2>1, <2>4, <2>5 DEF AtRight, Away, A!INITIAL_SPACING, A!HiderW
  <1>2. ASSUME NEW p \in Pan, NEW q \in Pan, p.screen = q.screen, p.perc = q.perc
        PROVE  /\ A!PanelW(p) = A!PanelW(q) /\ A!Home(p) = A!Home(q)
               /\ AtRight(p) = AtRight(q) /\ Away(p) = Away(q)
    BY <1>2 DEF A!PanelW, A!Home, AtRight, Away
  <1> QED BY <1>1, <1>2

(* A handler that leaves the slide, or the tray, alone. *)
LEMMA SameSound ==
    ASSUME NEW p \in Pan, NEW q \in Pan
    PROVE  /\ SlideSound(p) /\ SameSlide(p, q) => SlideSound(q)
           /\ TraySound(p) /\ SameTray(p, q) => TraySound(q)
  <1>1. SlideSound(p) /\ SameSlide(p, q) => SlideSound(q)
    BY PanPlace DEF SlideSound, SameSlide, Hidden, Shown
  <1>2. TraySound(p) /\ SameTray(p, q) => TraySound(q)
    BY DEF TraySound, SameTray
  <1> QED BY <1>1, <1>2

(* do_layout() for an icon that comes or goes. *)
LEMMA RelayoutPan ==
    ASSUME NEW p \in Pan, SlideSound(p), TraySound(p)
    PROVE  A!Relayout(p) \in Pan /\ SlideSound(A!Relayout(p)) /\ SameTray(p, A!Relayout(p))
  <1> DEFINE h == AtRight(p)
             r == p.redone \/ p.hidden
             q == [p EXCEPT !.hx = h, !.redone = r]
  <1>1. A!Relayout(p) = q
    BY DEF A!Relayout, A!DoLayout, AtRight, Pan
  <1>2. h \in Int /\ r \in BOOLEAN /\ (p.hidden => r)
    BY PanPlace DEF Pan
  <1>3. h = AtRight(p)
    OBVIOUS
  <1> HIDE DEF h, r
  <1>4. /\ q \in Pan /\ SameTray(p, q) /\ q.hx = h /\ q.redone = r
        /\ q.screen = p.screen /\ q.perc = p.perc /\ q.px = p.px
        /\ q.hidden = p.hidden /\ q.kids = p.kids /\ q.strut = p.strut /\ q.timers = p.timers
        /\ q.stop = p.stop /\ q.oldpx = p.oldpx /\ q.oldhx = p.oldhx
        /\ q.late = p.late /\ q.resized = p.resized
    BY <1>2 DEF Pan, SameTray
  <1> HIDE DEF q
  <1>5. /\ A!PanelW(p) = A!PanelW(q) /\ A!Home(p) = A!Home(q)
        /\ AtRight(p) = AtRight(q) /\ Away(p) = Away(q)
    BY <1>4, PanPlace
  <1>6. SlideSound(q)
    BY <1>2, <1>3, <1>4, <1>5 DEF SlideSound, Hidden, Shown
  <1> QED BY <1>1, <1>4, <1>6

(* show(): the panel is where it belongs and has no icons. *)
LEMMA PanInit == A!Init => PanInv
  <1> SUFFICES ASSUME A!Init PROVE PanInv
    OBVIOUS
  <1>1. PICK screen \in Screens, perc \in Percents :
          s = A!ApplyStruts(A!UpdateSizeAndPos(
                [ screen |-> screen, perc |-> perc, px |-> 0, hx |-> 0, hidden |-> FALSE,
                  kids |-> TRUE, strut |-> "none", timers |-> 0, stop |-> 0, oldpx |-> 0,
                  oldhx |-> 0, icons |-> <<>>, alive |-> TrayWindows, reports |-> <<>>,
                  twice |-> {}, lost |-> {}, late |-> FALSE, resized |-> FALSE,
                  redone |-> FALSE ]), TRUE)
    BY DEF A!Init
  <1> DEFINE p == [ screen |-> screen, perc |-> perc, px |-> 0, hx |-> 0, hidden |-> FALSE,
                    kids |-> TRUE, strut |-> "none", timers |-> 0, stop |-> 0, oldpx |-> 0,
                    oldhx |-> 0, icons |-> <<>>, alive |-> TrayWindows, reports |-> <<>>,
                    twice |-> {}, lost |-> {}, late |-> FALSE, resized |-> FALSE,
                    redone |-> FALSE ]
             x == A!Home(p)
             h == AtRight(p)
             u == IF p.perc < 100 THEN p.strut ELSE "panel"
             q == [p EXCEPT !.hx = h, !.px = x, !.strut = u]
  <1>2. p \in Pan
    <2>1. <<>> \in Seq(TrayWindows)
      OBVIOUS
    <2> QED BY <2>1 DEF Pan
  <1>3. /\ p.hidden = FALSE /\ p.kids = TRUE /\ p.timers = 0 /\ p.icons = <<>>
    OBVIOUS
  <1>4. s = A!ApplyStruts(A!UpdateSizeAndPos(p), TRUE)
    BY <1>1
  <1> HIDE DEF p
  <1>5. A!UpdateSizeAndPos(p) = [p EXCEPT !.hx = h, !.px = x]
    BY DEF A!UpdateSizeAndPos, A!DoLayout, AtRight
  <1>6. s = q
    <2> DEFINE l == [p EXCEPT !.hx = h, !.px = x]
    <2> HIDE DEF h, x
    <2>1. l.perc = p.perc /\ l.strut = p.strut
      BY <1>2 DEF Pan
    <2>2. s = A!ApplyStruts(l, TRUE)
      BY <1>4, <1>5
    <2>3. A!ApplyStruts(l, TRUE) = [l EXCEPT !.strut = u]
      BY <2>1 DEF A!ApplyStruts
    <2> QED BY <2>2, <2>3
  <1>7. h \in Int /\ x \in Int
    BY <1>2, PanPlace
  <1>8. u \in {"none", "panel", "line"} /\ (p.perc = 100 => u = "panel")
    BY <1>2 DEF Pan
  <1>9. h = AtRight(p) /\ x = A!Home(p)
    OBVIOUS
  <1> HIDE DEF h, x, u
  <1>10. /\ q \in Pan /\ SameTray(p, q) /\ q.hx = h /\ q.px = x /\ q.strut = u
         /\ q.screen = p.screen /\ q.perc = p.perc
         /\ q.hidden = p.hidden /\ q.kids = p.kids /\ q.timers = p.timers
    BY <1>2, <1>7, <1>8 DEF Pan, SameTray
  <1> HIDE DEF q
  <1>11. A!Home(q) = A!Home(p) /\ AtRight(q) = AtRight(p)
    BY <1>2, <1>10, PanPlace
  <1>12. SlideSound(q)
    BY <1>3, <1>8, <1>9, <1>10, <1>11 DEF SlideSound, Shown
  <1>13. TraySound(q)
    <2>1. q.icons = <<>> /\ ToSet(<<>>) = {} /\ 1..Len(<<>>) = {}
      BY <1>3, <1>10 DEF SameTray, ToSet
    <2> QED BY <2>1 DEF TraySound
  <1> QED BY <1>6, <1>10, <1>12, <1>13 DEF PanInv

(* A click on the hider's button. *)
LEMMA ClickPan ==
    ASSUME PanInv, A!Click
    PROVE  PanInv'
  <1> DEFINE n == s.timers + 1
             x == s.px
             a == Away(s)
             l == s.late \/ s.px # A!Home(s)
  <1>1. n \in Nat /\ n > 0 /\ x \in Int /\ a \in Int /\ l \in BOOLEAN
    BY PanPlace DEF PanInv, Pan
  <1>2. ~ l => ~ s.late /\ x = A!Home(s)
    OBVIOUS
  <1>3. a = Away(s) /\ x = s.px
    OBVIOUS
  <1>4. CASE s.hidden
    <2>1. s' = [s EXCEPT !.timers = n]
      BY <1>4 DEF A!Click, A!PanelShow
    <2> HIDE DEF n
    <2>2. /\ s' \in Pan /\ SameTray(s, s') /\ s'.hx = s.hx /\ s'.redone = s.redone
          /\ s'.screen = s.screen /\ s'.perc = s.perc /\ s'.px = s.px
          /\ s'.hidden = s.hidden /\ s'.kids = s.kids /\ s'.strut = s.strut
          /\ s'.stop = s.stop /\ s'.oldpx = s.oldpx /\ s'.oldhx = s.oldhx
          /\ s'.late = s.late /\ s'.resized = s.resized
      BY <1>1, <2>1 DEF PanInv, Pan, SameTray
    <2>3. A!Home(s') = A!Home(s) /\ AtRight(s') = AtRight(s) /\ Away(s') = Away(s)
      BY <2>2, PanPlace DEF PanInv
    <2>4. SlideSound(s')
      BY <1>4, <2>2, <2>3 DEF PanInv, SlideSound, Hidden
    <2> QED BY <2>2, <2>4, SameSound DEF PanInv
  <1>5. CASE ~ s.hidden
    <2>1. s' = [s EXCEPT !.stop = a, !.oldpx = x, !.timers = n, !.late = l]
      BY <1>5 DEF A!Click, A!PanelHide, Away, PanInv, Pan
    <2> HIDE DEF n, x, a, l
    <2>2. /\ s' \in Pan /\ SameTray(s, s') /\ s'.hx = s.hx /\ s'.timers = n
          /\ s'.screen = s.screen /\ s'.perc = s.perc /\ s'.px = s.px
          /\ s'.hidden = s.hidden /\ s'.kids = s.kids /\ s'.strut = s.strut
          /\ s'.stop = a /\ s'.oldpx = x
          /\ s'.late = l /\ s'.resized = s.resized
      BY <1>1, <2>1 DEF PanInv, Pan, SameTray
    <2>3. A!Home(s') = A!Home(s) /\ AtRight(s') = AtRight(s) /\ Away(s') = Away(s)
      BY <2>2, PanPlace DEF PanInv
    <2>4. SlideSound(s')
      BY <1>1, <1>2, <1>3, <1>5, <2>2, <2>3 DEF PanInv, SlideSound, Shown
    <2> QED BY <2>2, <2>4, SameSound DEF PanInv
  <1> QED BY <1>4, <1>5 DEF PanInv, Pan

(* apply_struts() *)
LEMMA StrutPan ==
    ASSUME NEW p \in Pan, NEW apply \in BOOLEAN
    PROVE  \E u \in {"none", "panel", "line"} :
              /\ A!ApplyStruts(p, apply) = [p EXCEPT !.strut = u]
              /\ p.perc = 100 => u = IF apply THEN "panel" ELSE "line"
  <1> DEFINE u == IF p.perc < 100 THEN p.strut ELSE IF apply THEN "panel" ELSE "line"
  <1>1. A!ApplyStruts(p, apply) = [p EXCEPT !.strut = u]
    BY DEF A!ApplyStruts
  <1>2. u \in {"none", "panel", "line"} /\ (p.perc = 100 => u = IF apply THEN "panel" ELSE "line")
    BY DEF Pan
  <1> HIDE DEF u
  <1> QED BY <1>1, <1>2

(* The end of the way out, *)
LEMMA PostHidePan ==
    ASSUME PanInv, ~ s.hidden, s.timers > 0, s' = A!PostHide(s)
    PROVE  PanInv'
  <1>1. s \in Pan /\ FALSE \in BOOLEAN
    BY DEF PanInv
  <1>2. PICK u \in {"none", "panel", "line"} :
           /\ A!ApplyStruts(s, FALSE) = [s EXCEPT !.strut = u]
           /\ s.perc = 100 => u = "line"
    BY <1>1, StrutPan
  <1> DEFINE n == s.timers - 1
             b == A!BoxDx
             p == [s EXCEPT !.strut = u, !.timers = n]
             x == s.stop
             h == s.hx
             q == [p EXCEPT !.px = x, !.kids = FALSE, !.oldhx = h, !.hx = b, !.hidden = TRUE]
  <1>3. s' = q
    BY <1>1, <1>2 DEF A!PostHide, Pan
  <1>4. n \in Nat /\ b \in Int /\ x \in Int /\ h \in Int
    BY DEF PanInv, Pan, A!BoxDx
  <1>5. b = A!BoxDx /\ x = s.stop /\ h = s.hx
    OBVIOUS
  <1> HIDE DEF n, b, x, h
  <1>6. /\ p \in Pan /\ SameTray(s, p) /\ p.strut = u
        /\ p.screen = s.screen /\ p.perc = s.perc
        /\ p.stop = s.stop /\ p.oldpx = s.oldpx /\ p.late = s.late /\ p.resized = s.resized
    BY <1>2, <1>4 DEF PanInv, Pan, SameTray
  <1> HIDE DEF p
  <1>7. /\ q \in Pan /\ SameTray(p, q) /\ q.px = x /\ q.kids = FALSE /\ q.oldhx = h /\ q.hx = b
        /\ q.hidden = TRUE /\ q.strut = p.strut /\ q.screen = p.screen /\ q.perc = p.perc
        /\ q.stop = p.stop /\ q.oldpx = p.oldpx /\ q.late = p.late /\ q.resized = p.resized
    BY <1>4, <1>6 DEF Pan, SameTray
  <1> HIDE DEF q
  <1>8. A!Home(q) = A!Home(s) /\ AtRight(q) = AtRight(s) /\ Away(q) = Away(s)
    BY <1>1, <1>6, <1>7, PanPlace
  <1>9. SlideSound(q)
    BY <1>2, <1>5, <1>6, <1>7, <1>8 DEF PanInv, SlideSound, Hidden, Shown
  <1>10. TraySound(q)
    BY <1>1, <1>6, <1>7, SameSound DEF PanInv
  <1> QED BY <1>3, <1>7, <1>9, <1>10 DEF PanInv

(* and of the way back. *)
LEMMA PostShowPan ==
    ASSUME PanInv, s.hidden, s.timers > 0, s' = A!PostShow(s)
    PROVE  PanInv'
  <1>1. s \in Pan /\ TRUE \in BOOLEAN
    BY DEF PanInv
  <1>2. PICK u \in {"none", "panel", "line"} :
           /\ A!ApplyStruts(s, TRUE) = [s EXCEPT !.strut = u]
           /\ s.perc = 100 => u = "panel"
    BY <1>1, StrutPan
  <1> DEFINE n == s.timers - 1
             p == [s EXCEPT !.strut = u, !.timers = n]
             x == s.oldpx
             h == s.oldhx
             q == [p EXCEPT !.px = x, !.kids = TRUE, !.hx = h, !.hidden = FALSE, !.redone = FALSE]
  <1>3. s' = q
    BY <1>1, <1>2 DEF A!PostShow, Pan
  <1>4. n \in Nat /\ x \in Int /\ h \in Int
    BY DEF PanInv, Pan
  <1>5. x = s.oldpx /\ h = s.oldhx
    OBVIOUS
  <1> HIDE DEF n, x, h
  <1>6. /\ p \in Pan /\ SameTray(s, p) /\ p.strut = u
        /\ p.screen = s.screen /\ p.perc = s.perc
        /\ p.stop = s.stop /\ p.oldpx = s.oldpx /\ p.late = s.late /\ p.resized = s.resized
    BY <1>2, <1>4 DEF PanInv, Pan, SameTray
  <1> HIDE DEF p
  <1>7. /\ q \in Pan /\ SameTray(p, q) /\ q.px = x /\ q.kids = TRUE /\ q.hx = h
        /\ q.hidden = FALSE /\ q.strut = p.strut /\ q.screen = p.screen /\ q.perc = p.perc
        /\ q.stop = p.stop /\ q.oldpx = p.oldpx /\ q.late = p.late /\ q.resized = p.resized
    BY <1>4, <1>6 DEF Pan, SameTray
  <1> HIDE DEF q
  <1>8. A!Home(q) = A!Home(s) /\ AtRight(q) = AtRight(s) /\ Away(q) = Away(s)
    BY <1>1, <1>6, <1>7, PanPlace
  <1>9. SlideSound(q)
    BY <1>2, <1>5, <1>6, <1>7, <1>8 DEF PanInv, SlideSound, Hidden, Shown
  <1>10. TraySound(q)
    BY <1>1, <1>6, <1>7, SameSound DEF PanInv
  <1> QED BY <1>3, <1>7, <1>9, <1>10 DEF PanInv

(* A timeout: a step on the way, or its end. *)
LEMMA AnimatePan ==
    ASSUME PanInv, A!Animate
    PROVE  PanInv'
  <1>1. s.timers > 0
    BY DEF A!Animate
  <1>2. \/ ~ s.hidden /\ \E x \in Int : s' = [s EXCEPT !.px = x]
        \/ s.hidden /\ s.px > s.stop /\ \E x \in Int : s' = [s EXCEPT !.px = x]
        \/ ~ s.hidden /\ s' = A!PostHide(s)
        \/ s.hidden /\ s' = A!PostShow(s)
    BY DEF A!Animate, PanInv, Pan, A!PANEL_ANIM_SPEED
  <1>3. ASSUME NEW x \in Int, s' = [s EXCEPT !.px = x], ~ s.hidden \/ s.px > s.stop
        PROVE  PanInv'
    <2>1. /\ s' \in Pan /\ SameTray(s, s') /\ s'.hx = s.hx /\ s'.timers = s.timers
          /\ s'.screen = s.screen /\ s'.perc = s.perc
          /\ s'.hidden = s.hidden /\ s'.kids = s.kids /\ s'.strut = s.strut
          /\ s'.stop = s.stop /\ s'.oldpx = s.oldpx
          /\ s'.late = s.late /\ s'.resized = s.resized
      BY <1>3 DEF PanInv, Pan, SameTray
    <2>2. A!Home(s') = A!Home(s) /\ AtRight(s') = AtRight(s) /\ Away(s') = Away(s)
      BY <2>1, PanPlace DEF PanInv
    <2>3. s.hidden => s.px # s.stop
      BY <1>3 DEF PanInv, Pan
    <2>4. s.timers # 0
      BY <1>1
    <2>5. SlideSound(s')
      BY <2>1, <2>2, <2>3, <2>4 DEF PanInv, SlideSound, Hidden, Shown
    <2> QED BY <2>1, <2>5, SameSound DEF PanInv
  <1> QED BY <1>1, <1>2, <1>3, PostHidePan, PostShowPan

(* A new size of the screen. *)
LEMMA ResizePan ==
    ASSUME PanInv, A!Resize
    PROVE  PanInv'
  <1>1. PICK screen \in Screens :
           s' = A!UpdateSizeAndPos([s EXCEPT !.screen = screen,
                                      !.resized = @ \/ s.hidden \/ s.timers > 0])
    BY DEF A!Resize
  <1> DEFINE r == s.resized \/ s.hidden \/ s.timers > 0
             p == [s EXCEPT !.screen = screen, !.resized = r]
             x == A!Home(p)
             h == AtRight(p)
             q == [p EXCEPT !.hx = h, !.px = x]
  <1>2. r \in BOOLEAN /\ (~ r => ~ s.resized /\ ~ s.hidden /\ s.timers = 0)
    BY DEF PanInv, Pan
  <1>3. s' = A!UpdateSizeAndPos(p)
    BY <1>1 DEF PanInv, Pan
  <1> HIDE DEF r
  <1>4. /\ p \in Pan /\ SameTray(s, p) /\ p.resized = r /\ p.late = s.late /\ p.hidden = s.hidden
        /\ p.kids = s.kids /\ p.strut = s.strut /\ p.timers = s.timers /\ p.perc = s.perc
    BY <1>2 DEF PanInv, Pan, SameTray
  <1> HIDE DEF p
  <1>5. s' = q
    BY <1>3, <1>4 DEF A!UpdateSizeAndPos, A!DoLayout, AtRight, Pan
  <1>6. h \in Int /\ x \in Int
    BY <1>4, PanPlace
  <1>7. h = AtRight(p) /\ x = A!Home(p)
    OBVIOUS
  <1> HIDE DEF h, x
  <1>8. /\ q \in Pan /\ SameTray(p, q) /\ q.hx = h /\ q.px = x /\ q.resized = p.resized
        /\ q.late = p.late /\ q.hidden = p.hidden /\ q.kids = p.kids /\ q.strut = p.strut
        /\ q.timers = p.timers /\ q.screen = p.screen /\ q.perc = p.perc
    BY <1>4, <1>6 DEF Pan, SameTray
  <1> HIDE DEF q
  <1>9. A!Home(q) = A!Home(p) /\ AtRight(q) = AtRight(p)
    BY <1>4, <1>8, PanPlace
  <1>10. SlideSound(q)
    BY <1>2, <1>4, <1>7, <1>8, <1>9 DEF PanInv, SlideSound, Shown
  <1>11. TraySound(q)
    BY <1>4, <1>8, SameSound DEF PanInv
  <1> QED BY <1>5, <1>8, <1>10, <1>11 DEF PanInv

(* A window is docked, and may die meanwhile. *)
LEMMA DockPan ==
    ASSUME PanInv, NEW w \in TrayWindows, A!Dock(w)
    PROVE  PanInv'
  <1> DEFINE ic == Append(s.icons, w)
             tw == IF w \in ToSet(s.icons) THEN s.twice \cup {w} ELSE s.twice
             p == [s EXCEPT !.icons = ic, !.twice = tw]
             q == A!Relayout(p)
             al == q.alive \ {w}
             lo == q.lost \cup {w}
  <1>1. s' = q \/ s' = [q EXCEPT !.alive = al, !.lost = lo]
    <2>1. A!ToSet(s.icons) = ToSet(s.icons)
      BY PanOperators
    <2> QED BY <2>1 DEF A!Dock
  <1>2. ic \in Seq(TrayWindows) /\ ToSet(ic) = ToSet(s.icons) \cup {w}
    BY AppendElements DEF PanInv, Pan
  <1>3. /\ Len(s.icons) \in Nat /\ Len(ic) = Len(s.icons) + 1 /\ ic[Len(s.icons) + 1] = w
        /\ \A j \in 1..Len(s.icons) : ic[j] = s.icons[j]
    BY AppendProperties, LenProperties DEF PanInv, Pan
  <1>4. tw \in SUBSET TrayWindows /\ s.twice \subseteq tw /\ (w \in ToSet(s.icons) => w \in tw)
    BY DEF PanInv, Pan
  <1>5. w \in s.alive
    BY DEF A!Dock
  <1> HIDE DEF ic, tw
  <1>6. /\ p \in Pan /\ SameSlide(s, p) /\ p.icons = ic /\ p.twice = tw
        /\ p.alive = s.alive /\ p.reports = s.reports /\ p.lost = s.lost
    BY <1>2, <1>4 DEF PanInv, Pan, SameSlide
  <1> HIDE DEF p
  <1>7. ASSUME NEW i \in 1..Len(ic), NEW j \in 1..Len(ic), ic[i] = ic[j], i # j
        PROVE  ic[i] \in tw
    <2>1. \A k \in 1..Len(ic) : k \in 1..Len(s.icons) \/ k = Len(s.icons) + 1
      BY <1>3
    <2>2. \A k \in 1..Len(s.icons) : s.icons[k] \in ToSet(s.icons)
      BY LenProperties DEF ToSet, PanInv, Pan
    <2>3. CASE i \in 1..Len(s.icons) /\ j \in 1..Len(s.icons)
      BY <2>3, <1>3, <1>4, <1>7 DEF PanInv, TraySound
    <2> QED BY <2>1, <2>2, <2>3, <1>3, <1>4, <1>7
  <1>8. TraySound(p)
    BY <1>2, <1>4, <1>5, <1>6, <1>7 DEF PanInv, TraySound
  <1>9. SlideSound(p)
    BY <1>6, SameSound DEF PanInv
  <1>10. q \in Pan /\ SlideSound(q) /\ SameTray(p, q)
    BY <1>6, <1>8, <1>9, RelayoutPan
  <1>11. TraySound(q)
    BY <1>6, <1>8, <1>10, SameSound
  <1>12. al \in SUBSET TrayWindows /\ lo \in SUBSET TrayWindows
    BY <1>10 DEF Pan
  <1>13. \A v : v \in q.alive \cup q.lost => v \in al \cup lo
    OBVIOUS
  <1> HIDE DEF q, al, lo
  <1>14. CASE s' = [q EXCEPT !.alive = al, !.lost = lo]
    <2>1. /\ s' \in Pan /\ SameSlide(q, s') /\ s'.alive = al /\ s'.lost = lo
          /\ s'.icons = q.icons /\ s'.reports = q.reports /\ s'.twice = q.twice
      BY <1>10, <1>12, <1>14 DEF Pan, SameSlide
    <2>2. TraySound(s')
      BY <2>1, <1>11, <1>13 DEF TraySound
    <2>3. SlideSound(s')
      BY <2>1, <1>10, SameSound
    <2> QED BY <2>1, <2>2, <2>3 DEF PanInv
  <1>15. CASE s' = q
    BY <1>10, <1>11, <1>15 DEF PanInv
  <1> QED BY <1>1, <1>14, <1>15

(* A window dies: if it is an icon, the death is reported. *)
LEMMA DiesPan ==
    ASSUME PanInv, NEW w \in TrayWindows, A!Dies(w)
    PROVE  PanInv'
  <1> DEFINE al == s.alive \ {w}
             re == IF w \in ToSet(s.icons) THEN Append(s.reports, w) ELSE s.reports
  <1>1. s' = [s EXCEPT !.alive = al, !.reports = re]
    <2>1. A!ToSet(s.icons) = ToSet(s.icons)
      BY PanOperators
    <2> QED BY <2>1 DEF A!Dies
  <1>2. al \in SUBSET TrayWindows /\ re \in Seq(TrayWindows) /\ ToSet(s.reports) \subseteq ToSet(re)
    BY AppendElements DEF PanInv, Pan
  <1>3. w \in ToSet(s.icons) => w \in ToSet(re)
    BY AppendElements DEF PanInv, Pan
  <1>4. \A v \in s.alive : v \in al \/ v = w
    OBVIOUS
  <1> HIDE DEF al, re
  <1>5. /\ s' \in Pan /\ SameSlide(s, s') /\ s'.alive = al /\ s'.reports = re
        /\ s'.icons = s.icons /\ s'.twice = s.twice /\ s'.lost = s.lost
    BY <1>1, <1>2 DEF PanInv, Pan, SameSlide
  <1>6. TraySound(s')
    BY <1>2, <1>3, <1>4, <1>5 DEF PanInv, TraySound
  <1>7. SlideSound(s')
    BY <1>5, SameSound DEF PanInv
  <1> QED BY <1>5, <1>6, <1>7 DEF PanInv

(* A report is read: the first icon of the window goes, and if there is    *)
(* another one it was docked twice.                                        *)
LEMMA ReportPan ==
    ASSUME PanInv, A!Report
    PROVE  PanInv'
  <1> DEFINE w == Head(s.reports)
             re == Tail(s.reports)
             ic == RemoveFirst(s.icons, w)
             p == [s EXCEPT !.reports = re]
             q == [s EXCEPT !.reports = re, !.icons = ic]
  <1>1. s' = IF w \in ToSet(s.icons) THEN A!Relayout(q) ELSE p
    <2>1. A!ToSet(s.icons) = ToSet(s.icons) /\ A!RemoveFirst(s.icons, w) = ic
      BY PanOperators
    <2>2. p.icons = s.icons /\ [p EXCEPT !.icons = ic] = q
      BY DEF PanInv, Pan
    <2>3. s' = IF w \in A!ToSet(p.icons)
               THEN A!Relayout([p EXCEPT !.icons = A!RemoveFirst(p.icons, w)])
               ELSE p
      BY DEF A!Report
    <2> HIDE DEF w, ic, p, q
    <2> QED BY <2>1, <2>2, <2>3
  <1>2. s.reports # <<>> /\ s.reports \in Seq(TrayWindows) /\ s.icons \in Seq(TrayWindows)
    BY DEF A!Report, PanInv, Pan
  <1>3. w \in TrayWindows /\ re \in Seq(TrayWindows) /\ ToSet(s.reports) = {w} \cup ToSet(re)
    BY <1>2, TailElements
  <1> HIDE DEF w, re
  <1>4. CASE w \notin ToSet(s.icons)
    <2>1. /\ p \in Pan /\ SameSlide(s, p) /\ p.reports = re /\ p.icons = s.icons
          /\ p.alive = s.alive /\ p.twice = s.twice /\ p.lost = s.lost
      BY <1>3 DEF PanInv, Pan, SameSlide
    <2> HIDE DEF p
    <2>2. TraySound(p)
      BY <1>3, <1>4, <2>1 DEF PanInv, TraySound
    <2>3. SlideSound(p)
      BY <2>1, SameSound DEF PanInv
    <2> QED BY <1>1, <1>4, <2>1, <2>2, <2>3 DEF PanInv
  <1>5. CASE w \in ToSet(s.icons)
    <2>1. PICK i \in 1..Len(s.icons) : s.icons[i] = w /\ ic = RemoveAt(s.icons, i)
      BY <1>2, <1>5, RemoveFirstIs
    <2> HIDE DEF ic
    <2>2. /\ ic \in Seq(TrayWindows) /\ Len(ic) = Len(s.icons) - 1
          /\ \A j \in 1..(Len(s.icons) - 1) :
               ic[j] = IF j < i THEN s.icons[j] ELSE s.icons[j + 1]
      BY <1>2, <2>1, RemoveAtElements
    <2>3. /\ Len(s.icons) \in Nat /\ DOMAIN s.icons = 1..Len(s.icons)
          /\ DOMAIN ic = 1..Len(ic)
      BY <1>2, <2>2, LenProperties
    <2> DEFINE old(j) == IF j < i THEN j ELSE j + 1
    <2>4. \A j \in 1..Len(ic) : /\ old(j) \in 1..Len(s.icons) /\ old(j) # i
                                /\ ic[j] = s.icons[old(j)]
      BY <2>2, <2>3
    <2>5. \A j, k \in 1..Len(ic) : old(j) = old(k) => j = k
      BY <2>2, <2>3
    <2> HIDE DEF old
    <2>6. /\ q \in Pan /\ SameSlide(s, q) /\ q.reports = re /\ q.icons = ic
          /\ q.alive = s.alive /\ q.twice = s.twice /\ q.lost = s.lost
      BY <1>3, <2>2 DEF PanInv, Pan, SameSlide
    <2> HIDE DEF q
    <2>7. \A k, l \in 1..Len(s.icons) :
             s.icons[k] = s.icons[l] /\ k # l => s.icons[k] \in s.twice
      BY DEF PanInv, TraySound
    <2>8. ASSUME NEW v \in ToSet(ic)
          PROVE  v \in s.alive \cup ToSet(re) \cup s.twice \cup s.lost
      <3>1. PICK j \in 1..Len(ic) : ic[j] = v
        BY <2>3 DEF ToSet
      <3>2. old(j) \in 1..Len(s.icons) /\ old(j) # i /\ v = s.icons[old(j)]
        BY <2>4, <3>1
      <3>3. v \in ToSet(s.icons)
        BY <3>2, <2>3 DEF ToSet
      <3>4. v = w => v \in s.twice
        BY <3>2, <2>1, <2>7
      <3>5. v \in s.alive \cup ToSet(s.reports) \cup s.twice \cup s.lost
        BY <3>3 DEF PanInv, TraySound
      <3> QED BY <3>4, <3>5, <1>3
    <2>9. ASSUME NEW j \in 1..Len(ic), NEW k \in 1..Len(ic), ic[j] = ic[k], j # k
          PROVE  ic[j] \in s.twice
      <3>1. old(j) # old(k) /\ s.icons[old(j)] = s.icons[old(k)]
        BY <2>4, <2>5, <2>9
      <3>2. old(j) \in 1..Len(s.icons) /\ old(k) \in 1..Len(s.icons)
        BY <2>4
      <3> QED BY <3>1, <3>2, <2>7, <2>4
    <2>10. TraySound(q)
      BY <2>6, <2>8, <2>9 DEF TraySound
    <2>11. SlideSound(q)
      BY <2>6, SameSound DEF PanInv
    <2>12. /\ A!Relayout(q) \in Pan /\ SlideSound(A!Relayout(q))
           /\ SameTray(q, A!Relayout(q))
      BY <2>6, <2>10, <2>11, RelayoutPan
    <2>13. TraySound(A!Relayout(q))
      BY <2>6, <2>10, <2>12, SameSound
    <2> QED BY <1>1, <1>5, <2>12, <2>13 DEF PanInv
  <1> QED BY <1>4, <1>5

(* Every step of the panel keeps its invariant, *)
LEMMA PanStep == PanInv /\ [A!Next]_s => PanInv'
  <1> SUFFICES ASSUME PanInv, [A!Next]_s PROVE PanInv'
    OBVIOUS
  <1>1. CASE A!Next
    BY <1>1, ClickPan, AnimatePan, ResizePan, ReportPan, DockPan, DiesPan DEF A!Next
  <1>2. CASE UNCHANGED s
    BY <1>2 DEF PanInv
  <1> QED BY <1>1, <1>2

(* which is what the panel promises: the hidden hider is on any screen     *)
(* that has room for it.                                                   *)
LEMMA PanPromises == PanInv => A!PanelSettled /\ A!TrayAlive
  <1> SUFFICES ASSUME PanInv PROVE A!PanelSettled /\ A!TrayAlive
    OBVIOUS
  <1>1. A!TrayAlive
    BY PanOperators DEF PanInv, TraySound, A!TrayAlive
  <1>2. /\ s.screen \in Nat /\ s.screen >= 10 /\ s.px \in Int /\ s.hx \in Int
        /\ A!PanelW(s) \in Int /\ A!Home(s) \in Int
    BY ShellAssumption, PanPlace DEF PanInv, Pan
  <1>3. ASSUME s.timers = 0, ~ s.late, ~ s.resized, s.hidden
        PROVE  /\ ~ s.kids /\ s.px = s.screen - A!HiderW
               /\ ~ s.redone => A!OnScreen(A!HiderX(s), s)
               /\ s.perc = 100 => s.strut = "line"
    <2>1. Hidden(s)
      BY <1>3 DEF PanInv, SlideSound
    <2>2. s.px = s.screen - 10 /\ (~ s.redone => s.hx = 2)
      BY <2>1 DEF Hidden, Away, A!HiderW, A!BoxDx
    <2>3. ~ s.redone => A!OnScreen(A!HiderX(s), s)
      BY <2>2, <1>2 DEF A!OnScreen, A!HiderX
    <2> QED BY <2>1, <2>2, <2>3 DEF Hidden, A!HiderW
  <1>4. ASSUME s.timers = 0, ~ s.late, ~ s.resized, ~ s.hidden
        PROVE  /\ s.kids /\ s.px = A!Home(s)
               /\ A!HiderX(s) = A!Home(s) + A!PanelW(s) - A!INITIAL_SPACING - A!HiderW
               /\ s.perc = 100 => s.strut = "panel"
    <2>1. Shown(s)
      BY <1>4 DEF PanInv, SlideSound
    <2>2. s.hx = A!PanelW(s) - 5 - 10 /\ s.px = A!Home(s)
      BY <2>1, <1>4 DEF Shown, AtRight, A!INITIAL_SPACING, A!HiderW
    <2>3. A!HiderX(s) = A!Home(s) + A!PanelW(s) - A!INITIAL_SPACING - A!HiderW
      BY <2>2, <1>2 DEF A!HiderX, A!INITIAL_SPACING, A!HiderW
    <2> QED BY <2>1, <2>2, <2>3 DEF Shown
  <1> QED BY <1>1, <1>3, <1>4 DEF A!PanelSettled

----------------------------------------------------------------------------
(* The command dialog.                                                     *)

Dlg == [ mapped : BOOLEAN, buf : Text, pos : Nat, off : Nat, on : Text, res : Text,
         posOn : Nat, list : Seq(Text), it : Nat \ {0}, hist : Seq(Text), hit : Nat,
         new : Text ]

(* The cursor is in the text and the iterator in the history, whatever is  *)
(* drawn.                                                                  *)
InText(d) ==
    /\ d.pos <= Len(d.buf)
    /\ d.mapped => d.hit >= 1 /\ d.hit <= Len(d.hist) + 1

(* What a completion of the last word of a text makes of it.               *)
LastWordOf(d) ==
    /\ d.pos = Len(d.buf) /\ Len(d.buf) >= Len(d.on)
    /\ \/ d.buf = d.on
       \/ \E w \in ToSet(Dictionary), n \in 0..Len(d.on) :
             LET word == SubSeq(d.on, n + 1, Len(d.on))
             IN  /\ P!Blank \notin ToSet(word) /\ (n > 0 => d.on[n] = P!Blank)
                 /\ P!IsPrefix(word, w)
                 /\ d.buf = SubSeq(d.on, 1, n) \o w

(* The completions kept are those of the text that is completed.           *)
Completions(d) ==
    \A w \in ToSet(d.list) : w \in ToSet(Dictionary) /\ P!IsPrefix(P!WordAt(d.on, d.posOn), w)

AtEnd(d) == d.on # <<>> /\ d.posOn = Len(d.on)

(* A text that is no longer the last result is a shorter one, for only     *)
(* erasing leaves the completion running.                                  *)
Completing(d) ==
    /\ ~ d.mapped => d.on = <<>> /\ d.res = <<>>
    /\ d.on # <<>> => d.posOn <= Len(d.on) /\ Completions(d)
    /\ d.res # <<>> => d.buf = d.res \/ Len(d.buf) < Len(d.res)
    /\ AtEnd(d) /\ d.list # <<>> => d.res # <<>>
    /\ AtEnd(d) /\ d.res # <<>> /\ d.buf = d.res => LastWordOf(d)

Drawn(d) == d.off <= d.pos /\ d.pos - d.off <= Width

PromptInv == s \in Dlg /\ InText(s) /\ Completing(s) /\ Drawn(s)

(* The operators that Prompt.tla has from its libraries. *)
LEMMA PromptOperators ==
    \A q, e, i : /\ P!ToSet(q) = ToSet(q) /\ P!Sieve(q, e) = Sieve(q, e)
                 /\ P!RemoveAt(q, i) = RemoveAt(q, i) /\ P!InsertAt(q, i, e) = InsertAt(q, i, e)
  BY DEF P!ToSet, ToSet, P!Sieve, Sieve, P!RemoveAt, RemoveAt, P!InsertAt, InsertAt

(* No text, and the blank is a letter. *)
LEMMA EmptyText ==
    /\ <<>> \in Text /\ <<>> \in Seq(Text) /\ Len(<<>>) = 0 /\ P!Blank \in Letters
    /\ \A t \in Text : Len(t) \in Nat /\ (Len(t) = 0 <=> t = <<>>)
    /\ \A q \in Seq(Text) : Len(q) \in Nat
  <1>1. <<>> \in Text /\ <<>> \in Seq(Text) /\ Len(<<>>) = 0
    BY DEF Text
  <1>2. P!Blank \in Letters
    BY DEF Letters
  <1>3. ASSUME NEW t \in Text PROVE Len(t) \in Nat /\ (Len(t) = 0 <=> t = <<>>)
    BY EmptySeq, LenProperties DEF Text
  <1>4. \A q \in Seq(Text) : Len(q) \in Nat
    BY LenProperties
  <1> QED BY <1>1, <1>2, <1>3, <1>4

(* A part of a text. *)
LEMMA PartOfText ==
    ASSUME NEW t \in Text, NEW i \in Nat, NEW j \in Nat, i <= j, j <= Len(t)
    PROVE  /\ SubSeq(t, i + 1, j) \in Text /\ Len(SubSeq(t, i + 1, j)) = j - i
           /\ \A k \in 1..(j - i) : SubSeq(t, i + 1, j)[k] = t[i + k]
  <1>1. Len(t) \in Nat
    BY EmptyText
  <1>2. i + 1 \in 1..(Len(t) + 1) /\ j \in i..Len(t)
    BY <1>1
  <1> DEFINE r == SubSeq(t, i + 1, j)
  <1>3. /\ r \in Text /\ Len(r) = IF i + 1 <= j THEN j - (i + 1) + 1 ELSE 0
        /\ \A k \in 1..(j - i) : r[k] = t[i + k]
    BY <1>1, <1>2 DEF Text
  <1>4. Len(r) = j - i
    BY <1>1, <1>2, <1>3
  <1> QED BY <1>3, <1>4

(* Where the word at a position begins and ends: in the text. *)
LEMMA WordPlace ==
    ASSUME NEW t \in Text, NEW pos \in Nat
    PROVE  P!WordBegin(t, pos) \in 0..Len(t) /\ P!WordEnd(t, pos) \in 0..Len(t)
  <1>1. Len(t) \in Nat
    BY EmptyText
  <1> DEFINE B == P!BlanksBefore(t, pos)
             F == P!BlanksFrom(t, pos)
  <1>2. B \subseteq 0..(Len(t) - 1) /\ F \subseteq 0..(Len(t) - 1)
    BY DEF P!BlanksBefore, P!BlanksFrom
  <1> HIDE DEF B, F
  <1>3. P!WordBegin(t, pos) \in 0..Len(t)
    <2>1. CASE B = {}
      BY <2>1, <1>1 DEF P!WordBegin, B
    <2>2. CASE B # {}
      <3>1. B \subseteq 0..Len(t)
        BY <1>1, <1>2
      <3>2. \E m \in B : \A k \in B : k <= m
        BY <3>1, <2>2, <1>1, Greatest
      <3> DEFINE m == CHOOSE i \in B : \A j \in B : j <= i
      <3>3. m \in B
        BY <3>2
      <3>4. P!WordBegin(t, pos) = 1 + m
        BY <2>2 DEF P!WordBegin, B
      <3> HIDE DEF m
      <3> QED BY <3>3, <3>4, <1>1, <1>2
    <2> QED BY <2>1, <2>2
  <1>4. P!WordEnd(t, pos) \in 0..Len(t)
    <2>1. CASE F = {} \/ pos \in F
      BY <2>1, <1>1 DEF P!WordEnd, F
    <2>2. CASE F # {} /\ pos \notin F
      <3>1. F \subseteq Nat
        BY <1>2
      <3>2. \E m \in F : \A k \in F : m <= k
        BY <3>1, <2>2, Least
      <3> DEFINE m == CHOOSE i \in F : \A j \in F : i <= j
      <3>3. m \in F
        BY <3>2
      <3>4. P!WordEnd(t, pos) = m
        BY <2>2 DEF P!WordEnd, F
      <3> HIDE DEF m
      <3> QED BY <3>3, <3>4, <1>1, <1>2
    <2> QED BY <2>1, <2>2
  <1> QED BY <1>3, <1>4

(* The last word is what follows the last blank. *)
LEMMA LastWord ==
    ASSUME NEW t \in Text, NEW pos \in Nat, pos >= Len(t)
    PROVE  /\ P!WordEnd(t, pos) = Len(t)
           /\ P!WordBegin(t, pos) = P!WordBegin(t, Len(t))
           /\ P!WordBegin(t, pos) > 0 => t[P!WordBegin(t, pos)] = P!Blank
           /\ P!Blank \notin ToSet(SubSeq(t, P!WordBegin(t, pos) + 1, Len(t)))
  <1>1. Len(t) \in Nat
    BY EmptyText
  <1> DEFINE B == {i \in 0..(Len(t) - 1) : t[i + 1] = P!Blank}
             n == IF B = {} THEN 0 ELSE 1 + CHOOSE i \in B : \A j \in B : j <= i
  <1>2. P!BlanksBefore(t, pos) = B /\ P!BlanksBefore(t, Len(t)) = B
    BY <1>1 DEF P!BlanksBefore
  <1>3. P!BlanksFrom(t, pos) = {}
    BY <1>1 DEF P!BlanksFrom
  <1>4. P!WordEnd(t, pos) = Len(t)
    BY <1>3 DEF P!WordEnd
  <1>5. B \subseteq 0..Len(t) /\ \A j \in B : t[j + 1] = P!Blank
    BY <1>1
  <1>6. \A i \in 0..(Len(t) - 1) : t[i + 1] = P!Blank => i \in B
    OBVIOUS
  <1> HIDE DEF B
  <1>7. P!WordBegin(t, pos) = n /\ P!WordBegin(t, Len(t)) = n
    BY <1>2 DEF P!WordBegin
  <1>8. n \in 0..Len(t)
    BY <1>7, WordPlace
  <1>9. /\ n > 0 => n - 1 \in B
        /\ \A j \in B : j <= n - 1
    <2>1. CASE B = {}
      BY <2>1
    <2>2. CASE B # {}
      <3>2. \E m \in B : \A k \in B : k <= m
        BY <1>5, <2>2, <1>1, Greatest
      <3> DEFINE m == CHOOSE i \in B : \A j \in B : j <= i
      <3>3. m \in B /\ \A j \in B : j <= m
        BY <3>2
      <3>4. n = 1 + m
        BY <2>2
      <3> HIDE DEF m, n
      <3>5. m \in Int /\ n - 1 = m
        BY <1>5, <3>3, <3>4
      <3> QED BY <3>3, <3>5
    <2> QED BY <2>1, <2>2
  <1> HIDE DEF n
  <1>10. n > 0 => t[n] = P!Blank
    <2>1. (n - 1) + 1 = n
      BY <1>8
    <2> QED BY <2>1, <1>5, <1>9
  <1>11. P!Blank \notin ToSet(SubSeq(t, n + 1, Len(t)))
    <2>1. SUFFICES ASSUME P!Blank \in ToSet(SubSeq(t, n + 1, Len(t))) PROVE FALSE
      OBVIOUS
    <2>2. /\ SubSeq(t, n + 1, Len(t)) \in Text
          /\ Len(SubSeq(t, n + 1, Len(t))) = Len(t) - n
          /\ \A k \in 1..(Len(t) - n) : SubSeq(t, n + 1, Len(t))[k] = t[n + k]
      BY <1>1, <1>8, PartOfText
    <2>3. DOMAIN SubSeq(t, n + 1, Len(t)) = 1..(Len(t) - n)
      BY <2>2, LenProperties DEF Text
    <2>4. PICK k \in 1..(Len(t) - n) : SubSeq(t, n + 1, Len(t))[k] = P!Blank
      BY <2>1, <2>3 DEF ToSet
    <2>5. t[n + k] = P!Blank
      BY <2>2, <2>4
    <2>6. n + k - 1 \in 0..(Len(t) - 1) /\ (n + k - 1) + 1 = n + k
      BY <1>1, <1>8
    <2>7. n + k - 1 \in B
      BY <2>5, <2>6, <1>6
    <2>8. n + k - 1 <= n - 1
      BY <2>7, <1>9
    <2> QED BY <2>8, <1>8
  <1> QED BY <1>4, <1>7, <1>10, <1>11

(* The first character drawn is such that the cursor is drawn too. *)
LEMMA FirstShownPrompt ==
    ASSUME NEW t \in Text, NEW pos \in Nat, pos <= Len(t)
    PROVE  /\ P!FirstShown(t, pos) \in Nat /\ P!FirstShown(t, pos) <= pos
           /\ pos - P!FirstShown(t, pos) <= Width
  <1>1. Len(t) \in Nat /\ Width \in Nat
    BY EmptyText, ShellAssumption
  <1>2. CASE pos > Width
    <2> DEFINE O == {o \in 0..pos : o = pos \/ Len(t) - o < Width}
    <2>1. O \subseteq Nat /\ pos \in O
      OBVIOUS
    <2>2. PICK m \in O : \A q \in O : m <= q
      BY <2>1, Least
    <2>3. m \in 0..pos /\ (m = pos \/ Len(t) - m < Width)
      OBVIOUS
    <2>4. \A q \in 0..(m - 1) : Len(t) - q >= Width
      <3> SUFFICES ASSUME NEW q \in 0..(m - 1), ~ (Len(t) - q >= Width) PROVE FALSE
        OBVIOUS
      <3>1. q \in O
        BY <1>1, <2>3
      <3> QED BY <3>1, <2>2, <2>3
    <2> DEFINE f == CHOOSE o \in 0..pos :
                       /\ o = pos \/ Len(t) - o < Width
                       /\ \A q \in 0..(o - 1) : Len(t) - q >= Width
    <2>5. f \in 0..pos /\ (f = pos \/ Len(t) - f < Width)
      BY <2>3, <2>4
    <2>6. P!FirstShown(t, pos) = f
      BY <1>2 DEF P!FirstShown
    <2> HIDE DEF f
    <2> QED BY <2>5, <2>6, <1>1
  <1>3. CASE ~ (pos > Width)
    BY <1>3, <1>1 DEF P!FirstShown
  <1> QED BY <1>2, <1>3

(* bufChanged() after a key. *)
LEMMA ChangedPrompt ==
    ASSUME NEW d \in Dlg, InText(d), Completing(d), s' = P!Changed(d)
    PROVE  PromptInv'
  <1> DEFINE o == P!FirstShown(d.buf, d.pos)
  <1>1. d.buf \in Text /\ d.pos \in Nat /\ d.pos <= Len(d.buf)
    BY DEF Dlg, InText
  <1>2. o \in Nat /\ o <= d.pos /\ d.pos - o <= Width
    BY <1>1, FirstShownPrompt
  <1>3. s' = [d EXCEPT !.off = o]
    BY DEF P!Changed
  <1> HIDE DEF o
  <1>4. /\ s' \in Dlg /\ s'.off = o /\ s'.mapped = d.mapped /\ s'.buf = d.buf /\ s'.pos = d.pos
        /\ s'.on = d.on /\ s'.res = d.res /\ s'.posOn = d.posOn /\ s'.list = d.list
        /\ s'.hist = d.hist /\ s'.hit = d.hit
    BY <1>2, <1>3 DEF Dlg
  <1>5. InText(s')
    BY <1>4 DEF InText
  <1>6. Completing(s')
    BY <1>4 DEF Completing, AtEnd, Completions, LastWordOf
  <1>7. Drawn(s')
    BY <1>2, <1>4 DEF Drawn
  <1> QED BY <1>4, <1>5, <1>6, <1>7 DEF PromptInv

(* A completion that is given up. *)
LEMMA ResetPrompt ==
    ASSUME NEW d \in Dlg, InText(d)
    PROVE  P!CompleteReset(d) \in Dlg /\ InText(P!CompleteReset(d)) /\ Completing(P!CompleteReset(d))
  <1> DEFINE e == <<>>
             z == 0
             r == [d EXCEPT !.on = e, !.res = e, !.posOn = z]
  <1>1. P!CompleteReset(d) = r
    BY DEF P!CompleteReset, P!Nothing
  <1>2. e \in Text /\ z \in Nat /\ e = <<>>
    BY EmptyText
  <1> HIDE DEF e, z
  <1>3. /\ r \in Dlg /\ r.on = e /\ r.res = e /\ r.mapped = d.mapped /\ r.buf = d.buf
        /\ r.pos = d.pos /\ r.hist = d.hist /\ r.hit = d.hit
    BY <1>2 DEF Dlg
  <1> HIDE DEF r
  <1>4. InText(r) /\ Completing(r)
    BY <1>2, <1>3 DEF InText, Completing, AtEnd
  <1> QED BY <1>1, <1>3, <1>4

(* A key that ends the completion, whatever it does to the text. *)
LEMMA KeyPrompt ==
    ASSUME NEW d \in Dlg, InText(d), P!Key(P!CompleteReset(d))
    PROVE  PromptInv'
  BY ResetPrompt, ChangedPrompt DEF P!Key

(* bufClear() *)
LEMMA ClearPrompt ==
    ASSUME NEW d \in Dlg
    PROVE  LET r == P!BufClear(d)
           IN  /\ r \in Dlg /\ r.buf = <<>> /\ r.pos = 0 /\ r.off = 0 /\ r.on = <<>> /\ r.res = <<>>
               /\ r.mapped = d.mapped /\ r.hist = d.hist /\ r.hit = d.hit
  <1> DEFINE e == <<>>
             z == 0
             p == [d EXCEPT !.on = e, !.res = e, !.posOn = z]
             r == [p EXCEPT !.buf = e, !.pos = z, !.off = z]
  <1>1. P!BufClear(d) = r
    BY DEF P!BufClear, P!CompleteReset, P!Nothing
  <1>2. e \in Text /\ z \in Nat /\ e = <<>> /\ z = 0
    BY EmptyText
  <1> HIDE DEF e, z
  <1>3. /\ p \in Dlg /\ p.on = e /\ p.res = e /\ p.mapped = d.mapped
        /\ p.hist = d.hist /\ p.hit = d.hit
    BY <1>2 DEF Dlg
  <1> HIDE DEF p
  <1>4. /\ r \in Dlg /\ r.buf = e /\ r.pos = z /\ r.off = z /\ r.on = p.on /\ r.res = p.res
        /\ r.mapped = p.mapped /\ r.hist = p.hist /\ r.hit = p.hit
    BY <1>2, <1>3 DEF Dlg
  <1> HIDE DEF r
  <1> QED BY <1>1, <1>2, <1>3, <1>4

(* The text and the cursor that a key leaves, if it does nothing else. *)
LEMMA EditPrompt ==
    ASSUME NEW d \in Dlg, InText(d), NEW t \in Text, NEW p \in Nat, p <= Len(t)
    PROVE  LET r == [d EXCEPT !.buf = t, !.pos = p]
           IN  r \in Dlg /\ InText(r) /\ r.mapped = d.mapped
  <1> DEFINE r == [d EXCEPT !.buf = t, !.pos = p]
  <1>1. /\ r \in Dlg /\ r.buf = t /\ r.pos = p /\ r.mapped = d.mapped
        /\ r.hist = d.hist /\ r.hit = d.hit
    BY DEF Dlg
  <1> HIDE DEF r
  <1>2. InText(r)
    BY <1>1 DEF InText
  <1> QED BY <1>1, <1>2 DEF r

(* A character is typed, *)
LEMMA InsertPrompt ==
    ASSUME PromptInv, P!Insert
    PROVE  PromptInv'
  <1>1. PICK c \in Chars \cup {P!Blank} : P!Key(P!CompleteReset(P!Put(s, c)))
    BY DEF P!Insert
  <1> DEFINE t == InsertAt(s.buf, s.pos + 1, c)
             p == s.pos + 1
             r == [s EXCEPT !.buf = t, !.pos = p]
  <1>2. s \in Dlg /\ InText(s) /\ s.buf \in Text /\ s.pos \in Nat /\ Len(s.buf) \in Nat
        /\ s.pos <= Len(s.buf)
    BY EmptyText DEF PromptInv, Dlg, InText
  <1>3. P!InsertAt(s.buf, s.pos + 1, c) = t
    BY PromptOperators
  <1>4. P!Put(s, c) = r
    BY <1>3 DEF P!Put
  <1>5. c \in Letters /\ s.pos + 1 \in 1..(Len(s.buf) + 1) /\ s.buf \in Seq(Letters)
    BY <1>2 DEF Letters, Text
  <1>6. t \in Text /\ Len(t) = Len(s.buf) + 1
    BY <1>5, InsertAtElements DEF Text
  <1>7. p \in Nat /\ p <= Len(t)
    BY <1>2, <1>6
  <1> HIDE DEF t, p
  <1>8. r \in Dlg /\ InText(r)
    BY <1>2, <1>6, <1>7, EditPrompt
  <1> QED BY <1>1, <1>4, <1>8, KeyPrompt

(* erased, which shortens a text that is a completion, *)
LEMMA ErasePrompt ==
    ASSUME PromptInv, P!Erase
    PROVE  PromptInv'
  <1> DEFINE t == RemoveAt(s.buf, s.pos)
             p == s.pos - 1
             r == [s EXCEPT !.buf = t, !.pos = p]
  <1>1. s \in Dlg /\ InText(s) /\ Completing(s) /\ s.buf \in Text /\ s.pos \in Nat
        /\ Len(s.buf) \in Nat /\ s.pos <= Len(s.buf)
    BY EmptyText DEF PromptInv, Dlg, InText
  <1>2. CASE s.pos = 0
    <2>1. P!BufRemove(s) = s
      BY <1>2 DEF P!BufRemove
    <2> QED BY <1>1, <2>1, ChangedPrompt DEF P!Erase, P!Key
  <1>3. CASE s.pos # 0
    <2>1. P!RemoveAt(s.buf, s.pos) = t
      BY PromptOperators
    <2>2. ~ (s.pos > Len(s.buf) \/ s.pos = 0)
      BY <1>1, <1>3
    <2>3. P!BufRemove(s) = r
      BY <2>1, <2>2 DEF P!BufRemove
    <2>4. s.pos \in 1..Len(s.buf) /\ s.buf \in Seq(Letters)
      BY <1>1, <1>3 DEF Text
    <2>5. t \in Text /\ Len(t) = Len(s.buf) - 1
      BY <2>4, RemoveAtElements DEF Text
    <2>6. p \in Nat /\ p <= Len(t)
      BY <1>1, <1>3, <2>5
    <2> HIDE DEF t, p
    <2>7. r \in Dlg /\ InText(r)
      BY <1>1, <2>5, <2>6, EditPrompt
    <2>8. /\ r.buf = t /\ r.mapped = s.mapped /\ r.on = s.on /\ r.res = s.res
          /\ r.posOn = s.posOn /\ r.list = s.list
      BY DEF PromptInv, Dlg
    <2> HIDE DEF r
    <2>9. /\ (AtEnd(r) <=> AtEnd(s)) /\ (Completions(r) <=> Completions(s))
      BY <2>8 DEF AtEnd, Completions
    <2>10. s.res \in Text /\ Len(s.res) \in Nat
      BY EmptyText DEF PromptInv, Dlg
    <2>11. s.res # <<>> => Len(t) < Len(s.res)
      BY <1>1, <2>5, <2>10 DEF Completing
    <2>12. s.res # <<>> => t # s.res
      BY <2>5, <2>10, <2>11
    <2>13. Completing(r)
      BY <1>1, <2>8, <2>9, <2>11, <2>12 DEF Completing
    <2> QED BY <2>3, <2>7, <2>13, ChangedPrompt DEF P!Erase, P!Key
  <1> QED BY <1>2, <1>3

(* or all of it, or what is behind the cursor; *)
LEMMA ClearKillPrompt ==
    ASSUME PromptInv, P!Clear \/ P!Kill
    PROVE  PromptInv'
  <1>1. s \in Dlg /\ InText(s) /\ s.buf \in Text /\ s.pos \in Nat
        /\ Len(s.buf) \in Nat /\ s.pos <= Len(s.buf)
    BY EmptyText DEF PromptInv, Dlg, InText
  <1>2. CASE P!Clear
    <2> DEFINE r == P!BufClear(s)
    <2>1. /\ r \in Dlg /\ r.buf = <<>> /\ r.pos = 0 /\ r.on = <<>> /\ r.res = <<>>
          /\ r.mapped = s.mapped /\ r.hist = s.hist /\ r.hit = s.hit
      BY <1>1, ClearPrompt
    <2>2. s' = P!Changed(r)
      BY <1>2 DEF P!Clear, P!Key
    <2> HIDE DEF r
    <2>3. InText(r) /\ Completing(r)
      BY <1>1, <2>1, EmptyText DEF InText, Completing, AtEnd
    <2> QED BY <2>1, <2>2, <2>3, ChangedPrompt
  <1>3. CASE P!Kill
    <2> DEFINE t == SubSeq(s.buf, 1, s.pos)
               p == s.pos
               r == [s EXCEPT !.buf = t, !.pos = p]
    <2>1. P!BufKill(s) = r
      BY <1>1 DEF P!BufKill, Dlg
    <2>2. t = SubSeq(s.buf, 0 + 1, s.pos)
      OBVIOUS
    <2>3. t \in Text /\ Len(t) = s.pos
      BY <1>1, <2>2, PartOfText
    <2>4. p \in Nat /\ p <= Len(t)
      BY <1>1, <2>3
    <2> HIDE DEF t, p
    <2>5. r \in Dlg /\ InText(r)
      BY <1>1, <2>3, <2>4, EditPrompt
    <2> QED BY <1>3, <2>1, <2>5, KeyPrompt DEF P!Kill
  <1> QED BY <1>2, <1>3

(* the cursor moves; *)
LEMMA CursorPrompt ==
    ASSUME PromptInv, P!Cursor
    PROVE  PromptInv'
  <1>1. s \in Dlg /\ InText(s) /\ s.buf \in Text /\ s.pos \in Nat
        /\ Len(s.buf) \in Nat /\ s.pos <= Len(s.buf)
    BY EmptyText DEF PromptInv, Dlg, InText
  <1>2. PICK p \in Nat : p <= Len(s.buf) /\ P!Key(P!CompleteReset([s EXCEPT !.pos = p]))
    <2>1. CASE P!Key(P!CompleteReset(P!Right(s)))
      BY <2>1, <1>1 DEF P!Right
    <2>2. CASE P!Key(P!CompleteReset(P!Left(s)))
      <3> DEFINE p == IF s.pos = 0 THEN 0 ELSE s.pos - 1
      <3>1. p \in Nat /\ p <= Len(s.buf)
        BY <1>1
      <3>2. P!Left(s) = [s EXCEPT !.pos = p]
        BY DEF P!Left
      <3> HIDE DEF p
      <3> QED BY <2>2, <3>1, <3>2
    <2>3. CASE P!Key(P!CompleteReset([s EXCEPT !.pos = 0]))
      BY <2>3, <1>1
    <2>4. CASE P!Key(P!CompleteReset([s EXCEPT !.pos = Len(s.buf)]))
      BY <2>4, <1>1
    <2> QED BY <2>1, <2>2, <2>3, <2>4 DEF P!Cursor
  <1>3. [s EXCEPT !.pos = p] = [s EXCEPT !.buf = s.buf, !.pos = p]
    BY <1>1 DEF Dlg
  <1>4. [s EXCEPT !.pos = p] \in Dlg /\ InText([s EXCEPT !.pos = p])
    BY <1>1, <1>2, <1>3, EditPrompt
  <1> QED BY <1>2, <1>4, KeyPrompt

(* the history is gone through: its iterator stays in it. *)
LEMMA HistoryPrompt ==
    ASSUME PromptInv, P!History
    PROVE  PromptInv'
  <1>1. /\ s \in Dlg /\ InText(s) /\ s.mapped /\ s.buf \in Text /\ s.new \in Text
        /\ s.hist \in Seq(Text) /\ Len(s.hist) \in Nat /\ s.hit \in Nat
        /\ s.hit >= 1 /\ s.hit <= Len(s.hist) + 1
    BY EmptyText DEF PromptInv, Dlg, InText, P!History, P!Key
  <1>2. \A i \in 1..Len(s.hist) : s.hist[i] \in Text
    BY <1>1
  <1>3. ASSUME NEW t \in Text, NEW h \in Nat, NEW n \in Text, h >= 1, h <= Len(s.hist) + 1,
               s' = P!Changed(P!CompleteReset(
                       [s EXCEPT !.hit = h, !.buf = t, !.pos = Len(t), !.new = n]))
        PROVE  PromptInv'
    <2> DEFINE p == Len(t)
               r == [s EXCEPT !.hit = h, !.buf = t, !.pos = p, !.new = n]
    <2>1. p \in Nat /\ p = Len(t)
      BY EmptyText
    <2>2. s' = P!Changed(P!CompleteReset(r))
      BY <1>3
    <2> HIDE DEF p
    <2>3. /\ r \in Dlg /\ r.buf = t /\ r.pos = p /\ r.mapped = s.mapped
          /\ r.hist = s.hist /\ r.hit = h
      BY <1>1, <2>1 DEF Dlg
    <2> HIDE DEF r
    <2>4. InText(r)
      BY <1>3, <2>1, <2>3 DEF InText
    <2> QED BY <2>2, <2>3, <2>4, ResetPrompt, ChangedPrompt
  <1>4. CASE P!Key(P!CompleteReset(P!HistNext(s)))
    <2>1. CASE s.hit > Len(s.hist)
      <3>1. P!HistNext(s) = s
        BY <2>1 DEF P!HistNext
      <3> QED BY <3>1, <1>1, <1>4, KeyPrompt
    <2>2. CASE ~ (s.hit > Len(s.hist))
      <3> DEFINE t == IF s.hit = Len(s.hist) THEN s.new ELSE s.hist[s.hit + 1]
                 h == s.hit + 1
                 n == IF s.hit = Len(s.hist) THEN P!Nothing ELSE s.new
      <3>1. P!HistNext(s) = [s EXCEPT !.hit = h, !.buf = t, !.pos = Len(t), !.new = n]
        BY <2>2 DEF P!HistNext
      <3>2. h \in Nat /\ h >= 1 /\ h <= Len(s.hist) + 1
        BY <1>1, <2>2
      <3>3. n \in Text
        BY <1>1, EmptyText DEF P!Nothing
      <3>4. s.hit # Len(s.hist) => s.hit + 1 \in 1..Len(s.hist)
        BY <1>1, <2>2
      <3>5. t \in Text
        BY <1>1, <1>2, <3>4
      <3> HIDE DEF t, h, n
      <3>6. s' = P!Changed(P!CompleteReset(
                    [s EXCEPT !.hit = h, !.buf = t, !.pos = Len(t), !.new = n]))
        BY <1>4, <3>1 DEF P!Key
      <3> QED BY <1>3, <3>2, <3>3, <3>5, <3>6
    <2> QED BY <2>1, <2>2
  <1>5. CASE P!Key(P!CompleteReset(P!HistPrev(s)))
    <2>1. CASE s.hit = 1
      <3>1. P!HistPrev(s) = s
        BY <2>1 DEF P!HistPrev
      <3> QED BY <3>1, <1>1, <1>5, KeyPrompt
    <2>2. CASE s.hit # 1
      <3> DEFINE t == s.hist[s.hit - 1]
                 h == s.hit - 1
                 n == IF s.hit > Len(s.hist) THEN s.buf ELSE s.new
      <3>1. P!HistPrev(s) = [s EXCEPT !.new = n, !.hit = h, !.buf = t, !.pos = Len(t)]
        BY <2>2 DEF P!HistPrev
      <3>2. [s EXCEPT !.new = n, !.hit = h, !.buf = t, !.pos = Len(t)]
            = [s EXCEPT !.hit = h, !.buf = t, !.pos = Len(t), !.new = n]
        BY <1>1 DEF Dlg
      <3>3. h \in Nat /\ h >= 1 /\ h <= Len(s.hist) + 1 /\ s.hit - 1 \in 1..Len(s.hist)
        BY <1>1, <2>2
      <3>4. n \in Text
        BY <1>1
      <3>5. t \in Text
        BY <1>2, <3>3
      <3> HIDE DEF t, h, n
      <3>6. s' = P!Changed(P!CompleteReset(
                    [s EXCEPT !.hit = h, !.buf = t, !.pos = Len(t), !.new = n]))
        BY <1>5, <3>1, <3>2 DEF P!Key
      <3> QED BY <1>3, <3>3, <3>4, <3>5, <3>6
    <2> QED BY <2>1, <2>2
  <1> QED BY <1>4, <1>5 DEF P!History

(* The completion is given up: the text and the cursor are what they were. *)
LEMMA AbortPrompt ==
    ASSUME PromptInv, P!Abort
    PROVE  PromptInv'
  <1>1. s \in Dlg /\ InText(s) /\ Completing(s) /\ s.on \in Text /\ s.posOn \in Nat
    BY DEF PromptInv, Dlg
  <1>2. CASE s.on = <<>>
    <2>1. P!CompleteAbort(s) = P!CompleteReset(s)
      BY <1>2 DEF P!CompleteAbort, P!Nothing
    <2> QED BY <1>1, <2>1, KeyPrompt DEF P!Abort
  <1>3. CASE s.on # <<>>
    <2> DEFINE t == s.on
               p == s.posOn
               r == [s EXCEPT !.buf = t, !.pos = p]
    <2>1. P!CompleteAbort(s) = P!CompleteReset(r)
      BY <1>3 DEF P!CompleteAbort, P!Nothing
    <2>2. t \in Text /\ p \in Nat /\ p <= Len(t)
      BY <1>1, <1>3 DEF Completing
    <2> HIDE DEF t, p
    <2>3. r \in Dlg /\ InText(r)
      BY <1>1, <2>2, EditPrompt
    <2> QED BY <2>1, <2>3, KeyPrompt DEF P!Abort
  <1> QED BY <1>2, <1>3

(* The dialog is closed, *)
LEMMA UnmappedPrompt ==
    ASSUME NEW d \in Dlg
    PROVE  LET r == P!Unmapped(d)
           IN  /\ r \in Dlg /\ r.buf = <<>> /\ r.pos = 0 /\ r.off = 0 /\ r.on = <<>> /\ r.res = <<>>
               /\ r.mapped = FALSE
  <1> DEFINE p == P!BufClear(d)
             f == FALSE
             r == [p EXCEPT !.mapped = f]
  <1>1. P!Unmapped(d) = r
    BY DEF P!Unmapped
  <1>2. /\ p \in Dlg /\ p.buf = <<>> /\ p.pos = 0 /\ p.off = 0 /\ p.on = <<>> /\ p.res = <<>>
    BY ClearPrompt
  <1> HIDE DEF p
  <1>3. f \in BOOLEAN /\ f = FALSE
    OBVIOUS
  <1> HIDE DEF f
  <1>4. /\ r \in Dlg /\ r.buf = p.buf /\ r.pos = p.pos /\ r.off = p.off /\ r.on = p.on
        /\ r.res = p.res /\ r.mapped = f
    BY <1>2, <1>3 DEF Dlg
  <1> HIDE DEF r
  <1> QED BY <1>1, <1>2, <1>3, <1>4

(* without or with its line going to the end of the history; *)
LEMMA ClosedPrompt ==
    ASSUME NEW d \in Dlg, d.buf = <<>>, d.pos = 0, d.off = 0, d.on = <<>>, d.res = <<>>,
           d.mapped = FALSE, s' = d
    PROVE  PromptInv'
  <1>1. InText(d) /\ Drawn(d)
    BY EmptyText, ShellAssumption DEF InText, Drawn
  <1>2. Completing(d)
    BY DEF Completing, AtEnd
  <1> QED BY <1>1, <1>2 DEF PromptInv

(* The dialog is closed. *)
LEMMA ClosePrompt ==
    ASSUME PromptInv, P!Close \/ P!Exec
    PROVE  PromptInv'
  <1> DEFINE u == P!Unmapped(s)
  <1>1. s \in Dlg /\ s.hist \in Seq(Text) /\ s.buf \in Text
    BY DEF PromptInv, Dlg
  <1>2. /\ u \in Dlg /\ u.buf = <<>> /\ u.pos = 0 /\ u.off = 0 /\ u.on = <<>> /\ u.res = <<>>
        /\ u.mapped = FALSE
    BY <1>1, UnmappedPrompt
  <1>3. CASE P!Close
    <2>1. s' = u
      BY <1>3 DEF P!Close
    <2> HIDE DEF u
    <2> QED BY <1>2, <2>1, ClosedPrompt
  <1>4. CASE P!Exec
    <2> DEFINE h == P!PushBack(s)
               g == IF Len(h) > HistorySize THEN Tail(h) ELSE h
               q == IF HistoryUnique THEN Sieve(s.hist, ToSet(s.hist) \ {s.buf}) ELSE s.hist
               r == [u EXCEPT !.hist = g]
    <2>1. P!Sieve(s.hist, P!ToSet(s.hist) \ {s.buf}) = Sieve(s.hist, ToSet(s.hist) \ {s.buf})
      <3>1. P!ToSet(s.hist) = ToSet(s.hist)
        BY PromptOperators
      <3> DEFINE k == ToSet(s.hist) \ {s.buf}
      <3>2. P!Sieve(s.hist, k) = Sieve(s.hist, k)
        BY PromptOperators
      <3> QED BY <3>1, <3>2
    <2>2. h = Append(q, s.buf)
      BY <2>1 DEF P!PushBack
    <2>3. q \in Seq(Text)
      BY <1>1, SieveElements
    <2> HIDE DEF q
    <2>4. h \in Seq(Text) /\ h # <<>>
      <3>1. Append(q, s.buf) \in Seq(Text) /\ ToSet(Append(q, s.buf)) = ToSet(q) \cup {s.buf}
        BY <1>1, <2>3, AppendElements
      <3>2. Append(q, s.buf) # <<>>
        BY <3>1, ToSetOfSeq
      <3> QED BY <2>2, <3>1, <3>2
    <2>5. s' = r
      BY <1>4 DEF P!Exec
    <2> HIDE DEF h
    <2>6. g \in Seq(Text)
      BY <2>4, TailElements
    <2> HIDE DEF g, u
    <2>7. /\ r \in Dlg /\ r.buf = u.buf /\ r.pos = u.pos /\ r.off = u.off /\ r.on = u.on
          /\ r.res = u.res /\ r.mapped = u.mapped
      BY <1>2, <2>6 DEF Dlg
    <2> HIDE DEF r
    <2> QED BY <1>2, <2>5, <2>7, ClosedPrompt
  <1> QED BY <1>3, <1>4

(* it is opened again, at the end of the history. *)
LEMMA MapPrompt ==
    ASSUME PromptInv, P!Map
    PROVE  PromptInv'
  <1>1. PICK t \in Starts :
           s' = P!Changed([s EXCEPT !.mapped = TRUE, !.hit = Len(s.hist) + 1,
                                    !.new = P!Nothing, !.buf = t, !.pos = Len(t)])
    BY DEF P!Map
  <1> DEFINE h == Len(s.hist) + 1
             n == P!Nothing
             p == Len(t)
             m == TRUE
             q == [s EXCEPT !.mapped = m, !.hit = h, !.new = n]
             r == [q EXCEPT !.buf = t, !.pos = p]
  <1>2. s' = P!Changed(r)
    BY <1>1
  <1>3. /\ s \in Dlg /\ t \in Text /\ h \in Nat /\ h >= 1 /\ n \in Text /\ p \in Nat
        /\ p = Len(t) /\ m \in BOOLEAN /\ h = Len(s.hist) + 1 /\ h <= Len(s.hist) + 1
    BY EmptyText, ShellAssumption DEF PromptInv, Dlg, P!Nothing
  <1>4. s.on = <<>> /\ s.res = <<>>
    BY DEF PromptInv, Completing, P!Map
  <1> HIDE DEF h, n, p, m
  <1>5. /\ q \in Dlg /\ q.hit = h /\ q.hist = s.hist /\ q.on = s.on /\ q.res = s.res
    BY <1>3 DEF Dlg
  <1> HIDE DEF q
  <1>6. /\ r \in Dlg /\ r.hit = q.hit /\ r.hist = q.hist /\ r.on = q.on /\ r.res = q.res
        /\ r.buf = t /\ r.pos = p
    BY <1>3, <1>5 DEF Dlg
  <1> HIDE DEF r
  <1>7. InText(r)
    <2>1. r.pos <= Len(r.buf)
      BY <1>3, <1>6, EmptyText
    <2>2. r.hit >= 1 /\ r.hit <= Len(r.hist) + 1
      BY <1>3, <1>5, <1>6
    <2> QED BY <2>1, <2>2 DEF InText
  <1>8. Completing(r)
    BY <1>4, <1>5, <1>6 DEF Completing, AtEnd
  <1> QED BY <1>2, <1>6, <1>7, <1>8, ChangedPrompt

(* A completion put in its place: the cursor is in the text that results.  *)
Completed(c, t, pos, list, it) ==
    /\ c.buf \in Text /\ c.pos \in Nat /\ c.pos <= Len(c.buf) /\ c.it \in Nat \ {0}
    /\ it > Len(list) => c.buf = t /\ c.pos = Len(t)
    /\ it <= Len(list) /\ pos >= Len(t) =>
         /\ c.buf = SubSeq(t, 1, P!WordBegin(t, pos)) \o list[it]
         /\ Len(c.buf) = P!WordBegin(t, pos) + Len(list[it])
         /\ c.pos = Len(c.buf)

(* That is what do_complete() does. *)
LEMMA CompletedText ==
    ASSUME NEW t \in Text, NEW pos \in Nat, NEW list \in Seq(Text), NEW it \in Nat \ {0}
    PROVE  Completed(P!DoComplete(t, pos, list, it), t, pos, list, it)
  <1> DEFINE b == P!WordBegin(t, pos)
             e == P!WordEnd(t, pos)
             u == SubSeq(t, 1, b)
             w == list[it]
             v == SubSeq(t, e + 1, Len(t))
             x == u \o w
             c == P!DoComplete(t, pos, list, it)
  <1>1. Len(t) \in Nat /\ Len(list) \in Nat
    BY EmptyText
  <1>2. CASE it > Len(list)
    <2>1. c = [buf |-> t, pos |-> Len(t), it |-> 1]
      BY <1>2 DEF P!DoComplete
    <2> HIDE DEF c
    <2>2. c.buf = t /\ c.pos = Len(t) /\ c.it = 1
      BY <2>1
    <2>3. ~ (it <= Len(list))
      BY <1>1, <1>2
    <2> QED BY <2>2, <2>3, <1>1 DEF c, Completed
  <1>3. CASE ~ (it > Len(list))
    <2>1. b \in 0..Len(t) /\ e \in 0..Len(t)
      BY WordPlace
    <2>2. pos >= Len(t) => e = Len(t)
      BY LastWord
    <2>3. w \in Text /\ Len(w) \in Nat
      <3>1. it \in 1..Len(list)
        BY <1>1, <1>3
      <3> QED BY <3>1, EmptyText
    <2>4. c = [buf |-> x \o v, pos |-> b + Len(w), it |-> it + 1]
      BY <1>3 DEF P!DoComplete
    <2> HIDE DEF b, e, w, c
    <2>5. u = SubSeq(t, 0 + 1, b)
      OBVIOUS
    <2>6. u \in Text /\ Len(u) = b
      <3>1. 0 \in Nat /\ b \in Nat /\ 0 <= b /\ b <= Len(t)
        BY <2>1, <1>1
      <3>2. SubSeq(t, 0 + 1, b) \in Text /\ Len(SubSeq(t, 0 + 1, b)) = b - 0
        BY <3>1, PartOfText
      <3> QED BY <3>1, <3>2, <2>5
    <2>7. v \in Text /\ Len(v) = Len(t) - e
      <3>1. e \in Nat /\ Len(t) \in Nat /\ e <= Len(t) /\ Len(t) <= Len(t)
        BY <2>1, <1>1
      <3> QED BY <3>1, PartOfText
    <2> HIDE DEF u, v
    <2>8. x \in Text /\ Len(x) = b + Len(w)
      BY <2>3, <2>6, ConcatProperties DEF Text
    <2> HIDE DEF x
    <2>9. x \o v \in Text /\ Len(x \o v) = Len(x) + Len(v)
      BY <2>7, <2>8, ConcatProperties DEF Text
    <2>10. v = <<>> => x \o v = x
      BY <2>8 DEF Text
    <2>11. pos >= Len(t) => v = <<>>
      BY <2>2, <2>7, EmptyText, <1>1
    <2>12. c.buf = x \o v /\ c.pos = b + Len(w) /\ c.it = it + 1
      BY <2>4
    <2>13. c.buf \in Text /\ c.pos \in Nat /\ c.it \in Nat \ {0}
      BY <2>1, <2>3, <2>9, <2>12
    <2>14. c.pos <= Len(c.buf)
      BY <2>1, <2>7, <2>8, <2>9, <2>12, <2>3, <1>1
    <2>15. pos >= Len(t) => c.buf = u \o w /\ Len(c.buf) = b + Len(w) /\ c.pos = Len(c.buf)
      BY <2>8, <2>10, <2>11, <2>12 DEF x
    <2> QED BY <1>3, <2>13, <2>14, <2>15 DEF b, u, w, c, Completed
  <1> QED BY <1>2, <1>3

(* At the end of the text it is the last word that is completed. *)
LEMMA CompletedLastWord ==
    ASSUME NEW t \in Text, NEW pos \in Nat, pos >= Len(t), NEW w \in Text,
           P!IsPrefix(P!WordAt(t, Len(t)), w)
    PROVE  LET n == P!WordBegin(t, pos)
               word == SubSeq(t, n + 1, Len(t))
           IN  /\ n \in 0..Len(t) /\ P!Blank \notin ToSet(word) /\ (n > 0 => t[n] = P!Blank)
               /\ P!IsPrefix(word, w) /\ n + Len(w) >= Len(t)
  <1> DEFINE n == P!WordBegin(t, pos)
             word == SubSeq(t, n + 1, Len(t))
  <1>1. Len(t) \in Nat /\ Len(w) \in Nat
    BY EmptyText
  <1>2. n = P!WordBegin(t, Len(t)) /\ P!WordEnd(t, Len(t)) = Len(t)
    BY <1>1, LastWord
  <1>3. n \in 0..Len(t) /\ P!Blank \notin ToSet(word) /\ (n > 0 => t[n] = P!Blank)
    BY WordPlace, LastWord
  <1>4. P!WordAt(t, Len(t)) = word
    BY <1>2 DEF P!WordAt
  <1> HIDE DEF n
  <1>5. Len(word) = Len(t) - n
    BY <1>1, <1>3, PartOfText
  <1> HIDE DEF word
  <1>6. P!IsPrefix(word, w)
    BY <1>4
  <1>7. Len(word) <= Len(w)
    BY <1>6 DEF P!IsPrefix
  <1>8. n + Len(w) >= Len(t)
    BY <1>1, <1>3, <1>5, <1>7
  <1> QED BY <1>3, <1>6, <1>8 DEF n, word

(* What findFirst has found, when the text has changed since the last one. *)
LEMMA FoundPrompt ==
    ASSUME NEW t \in Text, NEW pos \in Nat
    PROVE  /\ P!FindCompletions(t, pos) \in Seq(Text)
           /\ \A w \in ToSet(P!FindCompletions(t, pos)) :
                 w \in ToSet(Dictionary) /\ P!IsPrefix(P!WordAt(t, pos), w)
  <1> DEFINE k == {w \in ToSet(Dictionary) : P!IsPrefix(P!WordAt(t, pos), w)}
             l == P!FindCompletions(t, pos)
  <1>1. P!ToSet(Dictionary) = ToSet(Dictionary) /\ P!Sieve(Dictionary, k) = Sieve(Dictionary, k)
    BY PromptOperators
  <1>2. l = <<>> \/ l = Sieve(Dictionary, k)
    BY <1>1 DEF P!FindCompletions
  <1>3. Sieve(Dictionary, k) \in Seq(Text) /\ ToSet(Sieve(Dictionary, k)) = ToSet(Dictionary) \cap k
    BY ShellAssumption, SieveElements
  <1>4. <<>> \in Seq(Text) /\ ToSet(<<>>) = {}
    BY ToSetOfSeq, EmptyText
  <1>5. \A w \in k : P!IsPrefix(P!WordAt(t, pos), w)
    OBVIOUS
  <1> HIDE DEF k, l
  <1> QED BY <1>2, <1>3, <1>4, <1>5 DEF l

(* The completion begins, or goes on. *)
LEMMA FindPrompt ==
    ASSUME PromptInv, s.mapped
    PROVE  LET f == P!FindFirst(s)
           IN  /\ f \in Dlg /\ InText(f) /\ f.mapped
               /\ f.on # <<>> => f.posOn <= Len(f.on) /\ Completions(f)
               /\ f.list = <<>> => Completing(f)
               /\ AtEnd(f) /\ f.list # <<>> => f.pos >= Len(f.on)
  <1>1. /\ s \in Dlg /\ InText(s) /\ Completing(s) /\ s.buf \in Text /\ s.pos \in Nat
        /\ s.pos <= Len(s.buf) /\ Len(s.buf) \in Nat /\ s.on \in Text /\ Len(s.on) \in Nat
    BY EmptyText DEF PromptInv, Dlg, InText
  <1>2. CASE s.buf = s.res
    <2>1. P!FindFirst(s) = s
      BY <1>2 DEF P!FindFirst
    <2>2. s.on # <<>> => s.posOn <= Len(s.on) /\ Completions(s)
      BY <1>1 DEF Completing
    <2>3. AtEnd(s) /\ s.list # <<>> => s.pos >= Len(s.on)
      <3>1. AtEnd(s) /\ s.list # <<>> => s.pos = Len(s.buf) /\ Len(s.buf) >= Len(s.on)
        BY <1>1, <1>2 DEF Completing, LastWordOf
      <3> QED BY <3>1
    <2> QED BY <1>1, <2>1, <2>2, <2>3
  <1>3. CASE s.buf # s.res
    <2> DEFINE l == P!FindCompletions(s.buf, s.pos)
               t == s.buf
               p == s.pos
               i == 1
               f == [s EXCEPT !.on = t, !.posOn = p, !.it = i, !.list = l]
    <2>1. P!FindFirst(s) = f
      BY <1>3 DEF P!FindFirst
    <2>2. /\ l \in Seq(Text)
          /\ \A w \in ToSet(l) : w \in ToSet(Dictionary) /\ P!IsPrefix(P!WordAt(t, p), w)
      BY <1>1, FoundPrompt
    <2>3. t \in Text /\ p \in Nat /\ i \in Nat \ {0} /\ t = s.buf /\ p = s.pos /\ p <= Len(t)
      BY <1>1
    <2> HIDE DEF l, t, p, i
    <2>4. /\ f \in Dlg /\ f.on = t /\ f.posOn = p /\ f.list = l /\ f.mapped = s.mapped
          /\ f.buf = s.buf /\ f.pos = s.pos /\ f.res = s.res /\ f.hit = s.hit /\ f.hist = s.hist
      BY <1>1, <2>2, <2>3 DEF Dlg
    <2> HIDE DEF f
    <2>5. InText(f)
      BY <1>1, <2>4 DEF InText
    <2>6. f.posOn <= Len(f.on) /\ Completions(f)
      BY <2>2, <2>3, <2>4 DEF Completions
    <2>7. AtEnd(f) => f.pos = Len(f.on)
      BY <2>3, <2>4 DEF AtEnd
    <2>8. f.res # <<>> => f.buf = f.res \/ Len(f.buf) < Len(f.res)
      BY <1>1, <2>4 DEF Completing
    <2>9. f.list = <<>> => Completing(f)
      BY <1>3, <2>4, <2>6, <2>8 DEF Completing
    <2> QED BY <1>1, <2>1, <2>3, <2>4, <2>5, <2>6, <2>7, <2>9
  <1> QED BY <1>2, <1>3

(* The key is pressed. *)
LEMMA TabPrompt ==
    ASSUME PromptInv, P!Tab
    PROVE  PromptInv'
  <1> DEFINE f == P!FindFirst(s)
  <1>1. s.mapped /\ s' = P!Changed(P!InsertNext(f))
    BY DEF P!Tab, P!Key, P!Complete
  <1>2. /\ f \in Dlg /\ InText(f) /\ f.mapped
        /\ f.on # <<>> => f.posOn <= Len(f.on) /\ Completions(f)
        /\ f.list = <<>> => Completing(f)
        /\ AtEnd(f) /\ f.list # <<>> => f.pos >= Len(f.on)
    BY <1>1, FindPrompt
  <1> HIDE DEF f
  <1>3. CASE f.list = <<>>
    <2>1. P!InsertNext(f) = f
      BY <1>3 DEF P!InsertNext
    <2> QED BY <1>1, <1>2, <1>3, <2>1, ChangedPrompt
  <1>4. CASE f.list # <<>>
    <2> DEFINE c == P!DoComplete(f.on, f.pos, f.list, f.it)
               t == c.buf
               p == c.pos
               i == c.it
               r == [f EXCEPT !.buf = t, !.pos = p, !.it = i, !.res = t]
    <2>1. P!InsertNext(f) = r
      BY <1>4 DEF P!InsertNext
    <2>2. /\ f.on \in Text /\ f.pos \in Nat /\ f.list \in Seq(Text) /\ f.it \in Nat \ {0}
          /\ Len(f.on) \in Nat /\ Len(f.list) \in Nat
      BY <1>2, EmptyText DEF Dlg
    <2>3. /\ t \in Text /\ p \in Nat /\ p <= Len(t) /\ i \in Nat \ {0}
          /\ f.it > Len(f.list) => t = f.on /\ p = Len(f.on)
          /\ f.it <= Len(f.list) /\ f.pos >= Len(f.on) =>
               /\ t = SubSeq(f.on, 1, P!WordBegin(f.on, f.pos)) \o f.list[f.it]
               /\ Len(t) = P!WordBegin(f.on, f.pos) + Len(f.list[f.it])
               /\ p = Len(t)
      <3>1. Completed(c, f.on, f.pos, f.list, f.it)
        BY <2>2, CompletedText
      <3> HIDE DEF c
      <3> QED BY <3>1 DEF Completed
    <2> HIDE DEF t, p, i
    <2>4. /\ r \in Dlg /\ r.buf = t /\ r.pos = p /\ r.res = t /\ r.mapped = f.mapped
          /\ r.on = f.on /\ r.posOn = f.posOn /\ r.list = f.list
          /\ r.hit = f.hit /\ r.hist = f.hist
      BY <1>2, <2>3 DEF Dlg
    <2> HIDE DEF r
    <2>5. InText(r)
      BY <1>2, <2>3, <2>4 DEF InText
    <2>6. (AtEnd(r) <=> AtEnd(f)) /\ (Completions(r) <=> Completions(f))
      BY <2>4 DEF AtEnd, Completions
    <2>7. ASSUME AtEnd(f)
          PROVE  p = Len(t) /\ Len(t) >= Len(f.on) /\ LastWordOf(r)
      <3>1. f.pos >= Len(f.on) /\ f.posOn = Len(f.on) /\ Completions(f)
        BY <2>7, <1>2, <1>4 DEF AtEnd
      <3>2. CASE f.it > Len(f.list)
        BY <3>2, <2>2, <2>3, <2>4 DEF LastWordOf
      <3>3. CASE f.it <= Len(f.list)
        <4> DEFINE w == f.list[f.it]
                   n == P!WordBegin(f.on, f.pos)
        <4>1. f.it \in 1..Len(f.list)
          BY <3>3, <2>2
        <4>2. w \in Text /\ w \in ToSet(f.list)
          BY <4>1, <2>2, LenProperties DEF ToSet
        <4>3. w \in ToSet(Dictionary) /\ P!IsPrefix(P!WordAt(f.on, Len(f.on)), w)
          BY <3>1, <4>2 DEF Completions
        <4> HIDE DEF w
        <4>4. /\ n \in 0..Len(f.on) /\ P!Blank \notin ToSet(SubSeq(f.on, n + 1, Len(f.on)))
              /\ (n > 0 => f.on[n] = P!Blank)
              /\ P!IsPrefix(SubSeq(f.on, n + 1, Len(f.on)), w) /\ n + Len(w) >= Len(f.on)
          BY <2>2, <3>1, <4>2, <4>3, CompletedLastWord
        <4>5. t = SubSeq(f.on, 1, n) \o w /\ Len(t) = n + Len(w) /\ p = Len(t)
          BY <2>3, <3>1, <3>3 DEF w
        <4> HIDE DEF n
        <4>6. Len(t) >= Len(f.on)
          BY <4>4, <4>5
        <4>7. LastWordOf(r)
          BY <2>4, <4>3, <4>4, <4>5, <4>6 DEF LastWordOf
        <4> QED BY <4>5, <4>6, <4>7
      <3> QED BY <3>2, <3>3, <2>2
    <2>8. AtEnd(f) => t # <<>>
      <3>1. AtEnd(f) => Len(f.on) # 0
        BY <2>2, EmptyText DEF AtEnd
      <3>2. AtEnd(f) => Len(t) # 0
        BY <3>1, <2>2, <2>3, <2>7, EmptyText
      <3> QED BY <3>2, EmptyText
    <2>9. Completing(r)
      BY <1>2, <2>4, <2>6, <2>7, <2>8 DEF Completing
    <2> QED BY <1>1, <2>1, <2>4, <2>5, <2>9, ChangedPrompt
  <1> QED BY <1>3, <1>4

(* The dialog is closed at first, *)
LEMMA PromptInit == P!Init => PromptInv
  <1> SUFFICES ASSUME P!Init PROVE PromptInv
    OBVIOUS
  <1> DEFINE e == <<>>
             z == 0
             i == 1
             f == FALSE
             d == [ mapped |-> f, buf |-> e, pos |-> z, off |-> z, on |-> e, res |-> e,
                    posOn |-> z, list |-> e, it |-> i, hist |-> e, hit |-> i, new |-> e ]
  <1>1. s = d
    BY DEF P!Init, P!Nothing
  <1>2. /\ e \in Text /\ e \in Seq(Text) /\ Len(e) = 0 /\ z \in Nat /\ i \in Nat \ {0}
        /\ f \in BOOLEAN /\ e = <<>> /\ z = 0 /\ f = FALSE
    BY EmptyText
  <1> HIDE DEF e, z, i, f
  <1>3. /\ d \in Dlg /\ d.buf = e /\ d.pos = z /\ d.off = z /\ d.on = e /\ d.res = e
        /\ d.mapped = f
    BY <1>2 DEF Dlg
  <1> HIDE DEF d
  <1>4. InText(s) /\ Drawn(s)
    BY <1>1, <1>2, <1>3, ShellAssumption DEF InText, Drawn
  <1>5. Completing(s)
    BY <1>1, <1>2, <1>3 DEF Completing, AtEnd
  <1> QED BY <1>1, <1>3, <1>4, <1>5 DEF PromptInv

(* every key keeps the invariant, *)
LEMMA PromptStays == PromptInv /\ [P!Next]_s => PromptInv'
  <1> SUFFICES ASSUME PromptInv, [P!Next]_s PROVE PromptInv'
    OBVIOUS
  <1>1. CASE P!Next
    BY <1>1, MapPrompt, ClosePrompt, InsertPrompt, ErasePrompt, ClearKillPrompt, CursorPrompt,
       HistoryPrompt, TabPrompt, AbortPrompt DEF P!Next
  <1>2. CASE UNCHANGED s
    BY <1>2 DEF PromptInv
  <1> QED BY <1>1, <1>2

(* which is what the dialog promises. *)
LEMMA PromptPromises == PromptInv => P!CursorInText /\ P!CompletesLastWord
  <1> SUFFICES ASSUME PromptInv PROVE P!CursorInText /\ P!CompletesLastWord
    OBVIOUS
  <1>1. P!CursorInText
    <2>1. s.pos \in Nat /\ Len(s.buf) \in Nat /\ s.hit \in Nat /\ Len(s.hist) \in Nat
      BY EmptyText DEF PromptInv, Dlg
    <2> QED BY <2>1 DEF PromptInv, InText, Drawn, P!CursorInText
  <1>2. P!CompletesLastWord
    <2> SUFFICES ASSUME s.on # P!Nothing, s.posOn = Len(s.on), s.res # P!Nothing, s.buf = s.res
                 PROVE  /\ s.pos = Len(s.buf)
                        /\ \/ s.buf = s.on
                           \/ \E w \in P!ToSet(Dictionary), n \in 0..Len(s.on) :
                                LET word == SubSeq(s.on, n + 1, Len(s.on))
                                IN  /\ P!Blank \notin P!ToSet(word)
                                    /\ (n > 0 => s.on[n] = P!Blank)
                                    /\ P!IsPrefix(word, w)
                                    /\ s.buf = SubSeq(s.on, 1, n) \o w
      BY DEF P!CompletesLastWord
    <2>1. LastWordOf(s)
      BY DEF PromptInv, Completing, AtEnd, P!Nothing
    <2>2. P!ToSet(Dictionary) = ToSet(Dictionary)
          /\ \A n : P!ToSet(SubSeq(s.on, n + 1, Len(s.on))) = ToSet(SubSeq(s.on, n + 1, Len(s.on)))
      BY PromptOperators
    <2> QED BY <2>1, <2>2 DEF LastWordOf
  <1> QED BY <1>1, <1>2

----------------------------------------------------------------------------
(* The four together.  Each step is one of the program that runs.          *)
ShellInv ==
    /\ which = "desktop"    => DeskInv
    /\ which = "panel"      => PanInv
    /\ which = "start_menu" => MenuInv
    /\ which = "prompt"     => PromptInv

(* The program that is started satisfies its invariant, *)
LEMMA ShellStarts == ShellInit => ShellInv
  BY DeskInit, PanInit, MenuInit, PromptInit DEF ShellInit, ShellInv

(* and whatever it does keeps it. *)
LEMMA ShellStays == ShellInv /\ [ShellNext]_<<which, s>> => ShellInv'
  <1> SUFFICES ASSUME ShellInv, [ShellNext]_<<which, s>> PROVE ShellInv'
    OBVIOUS
  <1>1. CASE DesktopStep
    BY <1>1, DeskStep DEF ShellInv, DesktopStep
  <1>2. CASE PanelStep
    BY <1>2, PanStep DEF ShellInv, PanelStep
  <1>3. CASE StartMenuStep
    BY <1>3, MenuStep DEF ShellInv, StartMenuStep
  <1>4. CASE PromptStep
    BY <1>4, PromptStays DEF ShellInv, PromptStep
  <1>5. CASE CalcStep \/ HarbourStep
    BY <1>5 DEF ShellInv, CalcStep, HarbourStep
  <1>6. CASE UNCHANGED <<which, s>>
    <2>1. which' = which /\ s' = s
      BY <1>6
    <2>2. (which = "desktop" => DeskInv') /\ (which = "panel" => PanInv')
      BY <2>1, DeskStep, PanStep DEF ShellInv
    <2>3. (which = "start_menu" => MenuInv') /\ (which = "prompt" => PromptInv')
      BY <2>1, MenuStep, PromptStays DEF ShellInv
    <2> QED BY <2>1, <2>2, <2>3 DEF ShellInv
  <1> QED BY <1>1, <1>2, <1>3, <1>4, <1>5, <1>6 DEF ShellNext

(* The invariant of the four. *)
LEMMA ShellInvariant == ShellSpec => []ShellInv
  BY ShellStarts, ShellStays, PTL DEF ShellSpec

(* ede-desktop: for any number of icons, clicks and edits of the icon      *)
(* files, the icons that are drawn selected are those the selection list   *)
(* has, each once, and a drag that ends leaves no ghost window behind.     *)
THEOREM DesktopIsRight == ShellSpec => []DesktopRight
  <1>1. ShellInv => DesktopRight
    BY DeskPromises DEF ShellInv, DesktopRight
  <1> QED BY <1>1, ShellInvariant, PTL

(* ede-panel: on any screen with room for the hider, whatever is clicked   *)
(* while the timeouts run, the panel comes to rest where it belongs; and   *)
(* the tray shows no dead icon but those TrayAlive names.                  *)
THEOREM PanelIsRight == ShellSpec => []PanelRight
  <1>1. ShellInv => PanelRight
    BY PanPromises DEF ShellInv, PanelRight
  <1> QED BY <1>1, ShellInvariant, PTL

(* The start menu: for any number of changes, once the updates are done    *)
(* the menu shown next is the one of the files on the disk, and a menu     *)
(* that is open is never one that reload_menu() has deleted.               *)
THEOREM StartMenuIsRight == ShellSpec => []StartMenuRight
  <1>1. ShellInv => StartMenuRight
    BY MenuPromises DEF ShellInv, StartMenuRight
  <1> QED BY <1>1, ShellInvariant, PTL

(* pekwm's command dialog: for texts, histories and dictionaries of any    *)
(* length, whatever sequence of keys is pressed, the cursor and the        *)
(* history's iterator are where the code may use them, and a completion    *)
(* asked for at the end of a text completes its last word.                 *)
THEOREM PromptIsRight == ShellSpec => []PromptRight
  <1>1. ShellInv => PromptRight
    BY PromptPromises DEF ShellInv, PromptRight
  <1> QED BY <1>1, ShellInvariant, PTL

----------------------------------------------------------------------------
(* The taskbar.                                                            *)

TaskTypes ==
    /\ clients \in Seq(Windows) /\ IsInjective(clients)
    /\ children \in Seq(Windows) /\ IsInjective(children)
    /\ events \in Seq(Events)
    /\ desktop \in [Windows -> Workspaces \cup {AllWorkspaces}]
    /\ wspace \in [Windows -> Workspaces \cup {AllWorkspaces, None}]

(* The events are told apart. *)
LEMMA EventsApart ==
    /\ {List, Active, Workspace} \subseteq Events
    /\ List # Active /\ List # Workspace /\ Active # Workspace
    /\ \A w \in Windows : Desktop(w) \in Events /\ Desktop(w) \notin {List, Active, Workspace}
    /\ \A v, w \in Windows : Desktop(v) = Desktop(w) => v = w
  <1>1. List.type = "list" /\ Active.type = "active" /\ Workspace.type = "workspace"
    BY DEF List, Active, Workspace
  <1>2. \A w : Desktop(w).type = "desktop" /\ Desktop(w).window = w
    BY DEF Desktop
  <1>3. {List, Active, Workspace} \subseteq Events /\ \A w \in Windows : Desktop(w) \in Events
    BY DEF Events
  <1>4. List # Active /\ List # Workspace /\ Active # Workspace
    BY <1>1
  <1>5. \A w : Desktop(w) \notin {List, Active, Workspace}
    BY <1>1, <1>2
  <1>6. \A v, w \in Windows : Desktop(v) = Desktop(w) => v = w
    BY <1>2
  <1> QED BY <1>3, <1>4, <1>5, <1>6

(* An event is posted: the changes of the list that wait are one more when *)
(* it is one,                                                              *)
LEMMA Posted ==
    ASSUME TaskTypes, NEW e \in Events, Post(e)
    PROVE  /\ events' \in Seq(Events)
           /\ ToSet(events') = ToSet(events) \cup {e}
           /\ Pending(List) \in Nat
           /\ Pending(List)' = IF e = List THEN Pending(List) + 1 ELSE Pending(List)
  <1>1. events \in Seq(Events) /\ events' = Append(events, e)
    BY DEF TaskTypes, Post
  <1>2. Append(events, e) \in Seq(Events) /\ ToSet(Append(events, e)) = ToSet(events) \cup {e}
    BY <1>1, AppendElements
  <1>3. Count(events, List) \in Nat
    BY <1>1, CountNat
  <1>4. Count(Append(events, e), List) = IF e = List THEN Count(events, List) + 1 ELSE Count(events, List)
    BY <1>1, CountAppend
  <1>5. Pending(List) = Count(events, List)
    BY DEF Pending, Count
  <1>6. Pending(List)' = Count(events', List)
    BY DEF Pending, Count
  <1> QED BY <1>1, <1>2, <1>3, <1>4, <1>5, <1>6

(* and one less when it is handled. *)
LEMMA Taken ==
    ASSUME TaskTypes, NEW e \in Events, Take(e)
    PROVE  /\ events' \in Seq(Events)
           /\ ToSet(events) = ToSet(events') \cup {e}
           /\ Pending(List)' \in Nat
           /\ Pending(List) = IF e = List THEN Pending(List)' + 1 ELSE Pending(List)'
           /\ Pending(List) = 0 <=> List \notin ToSet(events)
  <1>1. events \in Seq(Events) /\ events # <<>> /\ Head(events) = e /\ events' = Tail(events)
    BY DEF TaskTypes, Take
  <1>2. Tail(events) \in Seq(Events) /\ ToSet(events) = {e} \cup ToSet(Tail(events))
    BY <1>1, TailElements
  <1>3. Count(Tail(events), List) \in Nat
    BY <1>2, CountNat
  <1>4. Count(events, List) = IF e = List THEN Count(Tail(events), List) + 1 ELSE Count(Tail(events), List)
    BY <1>1, CountTail
  <1>5. Pending(List) = Count(events, List)
    BY DEF Pending, Count
  <1>6. Pending(List)' = Count(events', List)
    BY DEF Pending, Count
  <1>7. Count(events, List) = 0 <=> List \notin ToSet(events)
    BY <1>1, CountNat
  <1> QED BY <1>1, <1>2, <1>3, <1>4, <1>5, <1>6, <1>7

(* Whether the loop of update_task_buttons removes the button at i. *)
Removes(g, i) == i > 0 /\ children[i] \notin Mapped /\ ~ g[i - 1]

(* There is such a function up to any place, *)
LEMMA RemovedExists ==
    ASSUME NEW k \in Nat
    PROVE  \E g : g = [i \in 0..k |-> Removes(g, i)]
  <1> DEFINE T == {n \in Nat : \E g : g = [i \in 0..n |-> Removes(g, i)]}
  <1>1. 0 \in T
    <2> DEFINE g == [i \in 0..0 |-> FALSE]
    <2>1. \A i \in 0..0 : Removes(g, i) = FALSE
      BY DEF Removes
    <2>2. g = [i \in 0..0 |-> Removes(g, i)]
      BY <2>1
    <2> QED BY <2>2
  <1>2. ASSUME NEW n \in Nat, n \in T
        PROVE  n + 1 \in T
    <2>1. PICK g : g = [i \in 0..n |-> Removes(g, i)]
      BY <1>2
    <2> DEFINE h == [i \in 0..(n + 1) |-> IF i = n + 1 THEN Removes(g, i) ELSE g[i]]
    <2>2. \A i \in 0..n : g[i] = Removes(g, i)
      BY <2>1
    <2>3. \A i \in 0..(n + 1) : i > 0 => h[i - 1] = g[i - 1]
      OBVIOUS
    <2>4. \A i \in 0..(n + 1) : Removes(h, i) = Removes(g, i)
      <3> HIDE DEF h
      <3> QED BY <2>3 DEF Removes
    <2>5. \A i \in 0..(n + 1) : h[i] = Removes(h, i)
      BY <2>2, <2>4
    <2>6. h = [i \in 0..(n + 1) |-> Removes(h, i)]
      <3>1. h = [i \in 0..(n + 1) |-> h[i]]
        OBVIOUS
      <3> HIDE DEF h
      <3> QED BY <2>5, <3>1
    <2> HIDE DEF h
    <2> QED BY <2>6
  <1> HIDE DEF T
  <1>3. \A n \in 0..(k - 1) : n \in T => n + 1 \in T
    BY <1>2
  <1>4. \A n \in 0..k : n \in T
    BY <1>1, <1>3, Upward
  <1>5. k \in T
    BY <1>4
  <1> QED BY <1>5 DEF T

(* The buttons kept are among those that were, keep their order, and have  *)
(* all those with a window; one without a window goes when there is any.   *)
LEMMA KeptAre ==
    ASSUME TaskTypes
    PROVE  /\ Kept \in Seq(Windows) /\ IsInjective(Kept)
           /\ ToSet(Kept) \subseteq Buttons
           /\ Buttons \cap Mapped \subseteq ToSet(Kept)
           /\ Buttons \subseteq Mapped \/ \E b \in Buttons \ Mapped : b \notin ToSet(Kept)
           /\ \E keep : Kept = Sieve(children, keep)
  <1> DEFINE f == CHOOSE g : g = [i \in 0..Len(children) |->
                                    i > 0 /\ children[i] \notin Mapped /\ ~ g[i - 1]]
             keep == {children[i] : i \in {j \in DOMAIN children : ~ f[j]}}
  <1>1. Kept = Sieve(children, keep)
    BY DEF Kept
  <1>2. children \in Seq(Windows) /\ Len(children) \in Nat /\ DOMAIN children = 1..Len(children)
        /\ IsInjective(children)
    BY LenProperties DEF TaskTypes
  <1>3. \E g : g = [i \in 0..Len(children) |->
                      i > 0 /\ children[i] \notin Mapped /\ ~ g[i - 1]]
    BY <1>2, RemovedExists DEF Removes
  <1>4. f = [i \in 0..Len(children) |-> i > 0 /\ children[i] \notin Mapped /\ ~ f[i - 1]]
    BY <1>3
  <1> HIDE DEF f
  <1>5. /\ \A i \in 1..Len(children) : f[i] => children[i] \notin Mapped
        /\ \A i \in 1..Len(children) : children[i] \notin Mapped /\ ~ f[i - 1] => f[i]
        /\ ~ f[0]
    <2>1. \A i \in 0..Len(children) : f[i] = (i > 0 /\ children[i] \notin Mapped /\ ~ f[i - 1])
      BY <1>4
    <2>2. 0 \in 0..Len(children)
      BY <1>2
    <2>3. \A i \in 1..Len(children) : i \in 0..Len(children) /\ i > 0
      BY <1>2
    <2>4. ~ (0 > 0)
      OBVIOUS
    <2> QED BY <2>1, <2>2, <2>3, <2>4
  <1>6. /\ Kept \in Seq(Windows) /\ IsInjective(Kept)
        /\ ToSet(Kept) = Buttons \cap keep
    BY <1>1, <1>2, SieveElements DEF Buttons
  <1>7. Buttons \cap Mapped \subseteq keep
    <2>1. SUFFICES ASSUME NEW b \in Buttons \cap Mapped PROVE b \in keep
      OBVIOUS
    <2>2. PICK i \in 1..Len(children) : children[i] = b
      BY <1>2 DEF Buttons, ToSet
    <2> QED BY <1>2, <1>5, <2>2
  <1>8. ASSUME ~ (Buttons \subseteq Mapped)
        PROVE  \E b \in Buttons \ Mapped : b \notin keep
    <2> DEFINE G == {i \in 1..Len(children) : children[i] \notin Mapped}
    <2>1. G \subseteq Nat /\ G # {}
      BY <1>2, <1>8 DEF Buttons, ToSet
    <2>2. PICK m \in G : \A i \in G : m <= i
      BY <2>1, Least
    <2>3. m \in 1..Len(children) /\ children[m] \notin Mapped
      BY <2>2
    <2>4. ~ f[m - 1]
      <3>1. CASE m = 1
        BY <1>5, <3>1
      <3>2. CASE m # 1
        <4>1. m - 1 \in 1..Len(children) /\ m - 1 \notin G
          BY <1>2, <2>2, <2>3, <3>2
        <4> QED BY <1>5, <4>1
      <3> QED BY <3>1, <3>2
    <2>5. f[m]
      BY <1>5, <2>3, <2>4
    <2>6. \A i \in 1..Len(children) : children[i] = children[m] => i = m
      BY <1>2, <2>3 DEF IsInjective
    <2>7. children[m] \notin keep
      BY <1>2, <2>5, <2>6
    <2>8. children[m] \in Buttons
      BY <1>2, <2>3 DEF Buttons, ToSet
    <2> QED BY <2>3, <2>7, <2>8
  <1> HIDE DEF keep
  <1> QED BY <1>1, <1>6, <1>7, <1>8

(* The buttons made are those of the mapped windows without one. *)
LEMMA AddedAre ==
    ASSUME TaskTypes
    PROVE  /\ Added \in Seq(Windows) /\ IsInjective(Added)
           /\ ToSet(Added) = Mapped \ ToSet(Kept)
           /\ Kept \o Added \in Seq(Windows) /\ IsInjective(Kept \o Added)
           /\ ToSet(Kept \o Added) = ToSet(Kept) \cup ToSet(Added)
  <1>1. clients \in Seq(Windows) /\ IsInjective(clients) /\ Mapped \subseteq Windows
    BY ToSetOfSeq DEF TaskTypes, Mapped
  <1>2. /\ Added \in Seq(Windows) /\ IsInjective(Added)
        /\ ToSet(Added) = ToSet(clients) \cap (Windows \ ToSet(Kept))
    BY <1>1, SieveElements DEF Added
  <1>3. ToSet(Added) = Mapped \ ToSet(Kept)
    BY <1>1, <1>2 DEF Mapped
  <1>4. Kept \in Seq(Windows) /\ IsInjective(Kept)
    BY KeptAre
  <1>5. ToSet(Kept) \cap ToSet(Added) = {}
    BY <1>3
  <1> QED BY <1>2, <1>3, <1>4, <1>5, ConcatApart


(* What relates the workspaces noted, the buttons shown and the events on  *)
(* their way: the buttons shown are those on the workspace the panel has   *)
(* noted; that is the current one, unless a change of it is on its way or  *)
(* was missed; and the workspace a button has noted is that of its window, *)
(* unless a change of that is on its way or went unnoticed.                *)
ShownAsNoted == visible = {w \in Buttons : VisibleOn(current_workspace, wspace[w])}
WorkspaceNoted == Workspace \in ToSet(events) \/ missed \/ current_workspace = current
DesktopsNoted ==
    \A w \in Buttons \ lost : Desktop(w) \in ToSet(events) \/ wspace[w] = desktop[w]

TaskInv == TaskTypes /\ ShownAsNoted /\ WorkspaceNoted /\ DesktopsNoted /\ ButtonsFollow

(* A button's window that goes leaves at most one button more without a    *)
(* window, one that comes leaves none more.                                *)
LEMMA OneMoreAtMost ==
    ASSUME NEW B, NEW K, NEW w, IsFiniteSet(B)
    PROVE  /\ Cardinality(B \ K) \in Nat /\ Cardinality(B \ (K \ {w})) \in Nat
           /\ Cardinality(B \ (K \ {w})) <= Cardinality(B \ K) + 1
  <1> DEFINE G == B \ K
             E == B \ (K \ {w})
  <1>1. IsFiniteSet(G) /\ IsFiniteSet(E)
    BY FS_Subset
  <1>2. E \subseteq G \cup {w}
    OBVIOUS
  <1> HIDE DEF G, E
  <1>3. IsFiniteSet(G \cup {w})
    BY <1>1, FS_AddElement
  <1>4. Cardinality(G \cup {w}) = (IF w \in G THEN Cardinality(G) ELSE Cardinality(G) + 1)
    BY <1>1, FS_AddElement
  <1>5. Cardinality(E) <= Cardinality(G \cup {w})
    BY <1>2, <1>3, FS_Subset
  <1>6. Cardinality(G) \in Nat /\ Cardinality(E) \in Nat
    BY <1>1, FS_CardinalityType
  <1>7. Cardinality(E) <= Cardinality(G) + 1
    BY <1>4, <1>5, <1>6
  <1> QED BY <1>6, <1>7 DEF G, E

(* Part of a finite set is no larger. *)
LEMMA NoMoreThan ==
    ASSUME NEW S, NEW T, S \subseteq T, IsFiniteSet(T)
    PROVE  Cardinality(S) \in Nat /\ Cardinality(T) \in Nat /\ Cardinality(S) <= Cardinality(T)
  <1>1. IsFiniteSet(S) /\ Cardinality(S) <= Cardinality(T)
    BY FS_Subset
  <1>2. Cardinality(S) \in Nat
    BY <1>1, FS_CardinalityType
  <1>3. Cardinality(T) \in Nat
    BY FS_CardinalityType
  <1> QED BY <1>1, <1>2, <1>3

(* At the start the taskbar is right. *)
LEMMA TaskStarts ==
    Init => TaskInv
  <1> SUFFICES ASSUME Init PROVE TaskInv
    OBVIOUS
  <1>1. PICK T \in SUBSET Windows : clients \in SetToSeqs(T)
    BY DEF Init, SetToAllKPermutations
  <1>2. IsFiniteSet(T)
    BY TaskbarAssumption, FS_Subset
  <1>3. Cardinality(T) \in Nat
    BY <1>2, FS_CardinalityType
  <1>4. /\ clients \in [1..Cardinality(T) -> T]
        /\ \A i, j \in 1..Cardinality(T) : i # j => clients[i] # clients[j]
    BY <1>1 DEF SetToSeqs
  <1>5. clients \in Seq(Windows)
    BY <1>3, <1>4, SeqDef
  <1>6. IsInjective(clients)
    BY <1>4 DEF IsInjective
  <1>7. children = clients /\ events = <<>> /\ current_workspace = current
    BY DEF Init
  <1>8. Mapped \subseteq Windows /\ Buttons = Mapped
    BY <1>5, <1>7, ToSetOfSeq DEF Mapped, Buttons
  <1>9. /\ desktop \in [Windows -> Workspaces \cup {AllWorkspaces}]
        /\ wspace \in [Windows -> Workspaces \cup {AllWorkspaces, None}]
        /\ \A w \in Mapped : wspace[w] = desktop[w]
    BY <1>8 DEF Init
  <1>10. TaskTypes
    <2>1. events \in Seq(Events)
      BY <1>7
    <2> QED BY <1>5, <1>6, <1>7, <1>9, <2>1 DEF TaskTypes
  <1>11. ShownAsNoted
    BY <1>7, <1>8, <1>9 DEF ShownAsNoted, Init
  <1>12. WorkspaceNoted /\ DesktopsNoted
    BY <1>7, <1>8, <1>9 DEF WorkspaceNoted, DesktopsNoted
  <1>13. ButtonsFollow
    <2>1. Buttons \ Mapped = {}
      BY <1>8
    <2>2. Cardinality(Buttons \ Mapped) = 0
      BY <2>1, FS_EmptySet
    <2>3. Pending(List) \in Nat
      <3>1. Count(events, List) \in Nat
        BY <1>10, CountNat DEF TaskTypes
      <3> QED BY <3>1 DEF Pending, Count
    <2> QED BY <1>6, <1>7, <1>8, <2>2, <2>3 DEF ButtonsFollow
  <1> QED BY <1>10, <1>11, <1>12, <1>13 DEF TaskInv

(* The other clients and the window manager keep it. *)
LEMMA DesktopsKeep ==
    ASSUME TaskInv, Desktops
    PROVE  TaskInv'
  <1>1. /\ TaskTypes /\ ShownAsNoted /\ WorkspaceNoted /\ DesktopsNoted
        /\ Cardinality(Buttons \ Mapped) <= Pending(List)
        /\ IsInjective(children)
        /\ Pending(List) = 0 => Mapped \subseteq Buttons
    BY DEF TaskInv, ButtonsFollow
  <1>2. /\ UNCHANGED <<children, wspace, visible, current_workspace, missed, lost>>
        /\ Buttons' = Buttons
    BY DEF Desktops, Buttons
  <1>3. /\ clients \in Seq(Windows) /\ IsInjective(clients) /\ children \in Seq(Windows)
        /\ desktop \in [Windows -> Workspaces \cup {AllWorkspaces}]
        /\ wspace \in [Windows -> Workspaces \cup {AllWorkspaces, None}]
        /\ Mapped \subseteq Windows
    BY <1>1, ToSetOfSeq DEF TaskTypes, Mapped
  <1>4. IsFiniteSet(Buttons) /\ Buttons \subseteq Windows
    BY <1>3, FiniteElements DEF Buttons
  <1>5. ShownAsNoted'
    BY <1>1, <1>2 DEF ShownAsNoted
  <1>6. ASSUME NEW e \in Events, Post(e), e = List => UNCHANGED <<desktop, current>>,
               \/ e = List
               \/ e # List /\ clients' = clients /\ (current' = current \/ e = Workspace)
                  /\ \A w \in Windows : desktop'[w] = desktop[w] \/ e = Desktop(w),
               clients' \in Seq(Windows), IsInjective(clients'),
               desktop' \in [Windows -> Workspaces \cup {AllWorkspaces}],
               Cardinality(Buttons \ Mapped') <= Pending(List)'
        PROVE  TaskInv'
    <2>1. /\ events' \in Seq(Events) /\ ToSet(events') = ToSet(events) \cup {e}
          /\ Pending(List) \in Nat
          /\ Pending(List)' = IF e = List THEN Pending(List) + 1 ELSE Pending(List)
      BY <1>1, <1>6, Posted
    <2>2. TaskTypes'
      BY <1>1, <1>2, <1>6, <2>1 DEF TaskTypes
    <2>3. WorkspaceNoted'
      BY <1>1, <1>2, <1>6, <2>1 DEF WorkspaceNoted
    <2>4. DesktopsNoted'
      BY <1>1, <1>2, <1>4, <1>6, <2>1 DEF DesktopsNoted
    <2>5. Pending(List)' = 0 => Mapped' \subseteq Buttons'
      BY <1>1, <1>2, <1>6, <2>1 DEF Mapped
    <2>6. ButtonsFollow'
      BY <1>1, <1>2, <1>6, <2>5 DEF ButtonsFollow
    <2> QED BY <1>5, <2>2, <2>3, <2>4, <2>6 DEF TaskInv
  <1>7. ASSUME NEW w \in Windows, Map(w)
        PROVE  TaskInv'
    <2>1. /\ clients' = Append(clients, w) /\ Post(List) /\ UNCHANGED <<desktop, current>>
          /\ w \notin Mapped
      BY <1>7 DEF Map
    <2>2. /\ clients' \in Seq(Windows) /\ IsInjective(clients') /\ Mapped' = Mapped \cup {w}
      BY <1>3, <2>1, AppendOne DEF Mapped
    <2>3. Pending(List)' = Pending(List) + 1 /\ Pending(List) \in Nat
      BY <1>1, <2>1, Posted, EventsApart
    <2>4. /\ Cardinality(Buttons \ Mapped') <= Cardinality(Buttons \ Mapped)
          /\ Cardinality(Buttons \ Mapped') \in Nat /\ Cardinality(Buttons \ Mapped) \in Nat
      <3>1. Buttons \ Mapped' \subseteq Buttons \ Mapped
        BY <2>2
      <3>2. IsFiniteSet(Buttons \ Mapped)
        BY <1>4, FS_Subset
      <3> QED BY <3>1, <3>2, NoMoreThan
    <2>5. Cardinality(Buttons \ Mapped') <= Pending(List)'
      BY <1>1, <2>2, <2>3, <2>4
    <2> QED BY <1>3, <1>6, <2>1, <2>2, <2>5, EventsApart
  <1>8. ASSUME NEW w \in Windows, Unmap(w)
        PROVE  TaskInv'
    <2>1. /\ clients' = RemoveFirst(clients, w) /\ Post(List) /\ UNCHANGED <<desktop, current>>
          /\ w \in Mapped
      BY <1>8 DEF Unmap
    <2>2. PICK i \in 1..Len(clients) : clients[i] = w /\ clients' = RemoveAt(clients, i)
      BY <1>3, <2>1, RemoveFirstIs DEF Mapped
    <2>3. /\ clients' \in Seq(Windows) /\ IsInjective(clients') /\ Mapped' = Mapped \ {w}
      BY <1>3, <2>2, RemoveOne DEF Mapped
    <2>4. Pending(List)' = Pending(List) + 1 /\ Pending(List) \in Nat
      BY <1>1, <2>1, Posted, EventsApart
    <2>5. /\ Cardinality(Buttons \ (Mapped \ {w})) <= Cardinality(Buttons \ Mapped) + 1
          /\ Cardinality(Buttons \ Mapped) \in Nat /\ Cardinality(Buttons \ (Mapped \ {w})) \in Nat
      <3> DEFINE B == Buttons
                 K == Mapped
      <3> HIDE DEF B, K
      <3>1. IsFiniteSet(B)
        BY <1>4 DEF B
      <3>2. /\ Cardinality(B \ (K \ {w})) <= Cardinality(B \ K) + 1
            /\ Cardinality(B \ K) \in Nat /\ Cardinality(B \ (K \ {w})) \in Nat
        BY <3>1, OneMoreAtMost
      <3> QED BY <3>2 DEF B, K
    <2>6. Cardinality(Buttons \ Mapped') <= Pending(List)'
      BY <1>1, <2>3, <2>4, <2>5
    <2> QED BY <1>3, <1>6, <2>1, <2>3, <2>6, EventsApart
  <1>9. ASSUME NEW w \in Windows \cup {None}, Focus(w)
        PROVE  TaskInv'
    <2>1. Post(Active) /\ UNCHANGED <<clients, desktop, current>> /\ Mapped' = Mapped
      BY <1>9 DEF Focus, Mapped
    <2>2. Pending(List)' = Pending(List)
      BY <1>1, <2>1, Posted, EventsApart
    <2> QED BY <1>1, <1>3, <1>6, <2>1, <2>2, EventsApart
  <1>10. ASSUME NEW d \in Workspaces, SwitchWorkspace(d)
         PROVE  TaskInv'
    <2>1. Post(Workspace) /\ UNCHANGED <<clients, desktop>> /\ Mapped' = Mapped
      BY <1>10 DEF SwitchWorkspace, Mapped
    <2>2. Pending(List)' = Pending(List)
      BY <1>1, <2>1, Posted, EventsApart
    <2> QED BY <1>1, <1>3, <1>6, <2>1, <2>2, EventsApart
  <1>11. ASSUME NEW w \in Windows, NEW d \in Workspaces \cup {AllWorkspaces}, MoveTo(w, d)
         PROVE  TaskInv'
    <2>1. /\ UNCHANGED <<clients, current>> /\ Mapped' = Mapped
          /\ desktop' = [desktop EXCEPT ![w] = d]
          /\ Post(Desktop(w)) \/ (w \notin Buttons /\ UNCHANGED events)
      BY <1>11 DEF MoveTo, Mapped
    <2>2. /\ desktop' \in [Windows -> Workspaces \cup {AllWorkspaces}]
          /\ \A v \in Windows : desktop'[v] = desktop[v] \/ v = w
      BY <1>3, <2>1
    <2>3. CASE Post(Desktop(w))
      <3>1. Pending(List)' = Pending(List)
        BY <1>1, <2>3, Posted, EventsApart
      <3> QED BY <1>1, <1>3, <1>6, <2>1, <2>2, <2>3, <3>1, EventsApart
    <2>4. CASE w \notin Buttons /\ UNCHANGED events
      <3>1. TaskTypes' /\ WorkspaceNoted'
        BY <1>1, <1>2, <2>1, <2>2, <2>4 DEF TaskTypes, WorkspaceNoted
      <3>2. DesktopsNoted'
        BY <1>1, <1>2, <1>4, <2>2, <2>4 DEF DesktopsNoted
      <3>3. Pending(List)' = Pending(List)
        BY <2>4 DEF Pending
      <3>4. ButtonsFollow'
        BY <1>1, <1>2, <2>1, <3>3 DEF ButtonsFollow
      <3> QED BY <1>5, <3>1, <3>2, <3>4 DEF TaskInv
    <2> QED BY <2>1, <2>3, <2>4
  <1> QED BY <1>7, <1>8, <1>9, <1>10, <1>11 DEF Desktops


(* A handler that leaves the buttons and the windows as they are keeps     *)
(* them in step.                                                           *)
LEMMA FollowStays ==
    ASSUME ButtonsFollow, UNCHANGED clients, Pending(List)' = Pending(List),
           Buttons' = Buttons, IsInjective(children')
    PROVE  ButtonsFollow'
  <1>1. Mapped' = Mapped
    BY DEF Mapped
  <1>2. Cardinality(Buttons' \ Mapped') = Cardinality(Buttons \ Mapped)
    BY <1>1
  <1> QED BY <1>1, <1>2 DEF ButtonsFollow

(* update_task_buttons keeps it: the list of buttons is cleared or brought *)
(* up to date, and one of the buttons without a window goes if any.        *)
LEMMA ListKeeps ==
    ASSUME TaskInv, ListChanged
    PROVE  TaskInv'
  <1>1. /\ TaskTypes /\ ShownAsNoted /\ WorkspaceNoted /\ DesktopsNoted
        /\ Cardinality(Buttons \ Mapped) <= Pending(List)
        /\ IsInjective(children)
        /\ Pending(List) = 0 => Mapped \subseteq Buttons
    BY DEF TaskInv, ButtonsFollow
  <1>2. /\ Take(List) /\ UNCHANGED <<clients, current, current_workspace, missed>>
        /\ Mapped' = Mapped
    BY DEF ListChanged, xserver, Mapped
  <1>3. /\ events' \in Seq(Events) /\ ToSet(events) = ToSet(events') \cup {List}
        /\ Pending(List)' \in Nat /\ Pending(List) = Pending(List)' + 1
    BY <1>1, <1>2, Taken, EventsApart
  <1>4. /\ clients \in Seq(Windows) /\ IsInjective(clients) /\ children \in Seq(Windows)
        /\ desktop \in [Windows -> Workspaces \cup {AllWorkspaces}]
        /\ wspace \in [Windows -> Workspaces \cup {AllWorkspaces, None}]
        /\ Mapped \subseteq Windows /\ Buttons \subseteq Windows
    BY <1>1, ToSetOfSeq DEF TaskTypes, Mapped, Buttons
  <1>5. WorkspaceNoted'
    BY <1>1, <1>2, <1>3, EventsApart DEF WorkspaceNoted
  <1>6. CASE UpdateTaskButtons
    <2> DEFINE kept == ToSet(Kept)
               added == ToSet(Added)
               shown == (visible \cap kept)
                          \cup {w \in added : VisibleOn(current_workspace, desktop[w])}
    <2>1. /\ children' = Kept \o Added
          /\ wspace' = [w \in Windows |-> IF w \in added THEN desktop[w]
                                     ELSE IF w \in kept THEN wspace[w] ELSE None]
          /\ visible' = shown
          /\ desktop' \in [Windows -> Workspaces \cup {AllWorkspaces}]
          /\ \A w \in Windows \ added : desktop'[w] = desktop[w]
          /\ lost' = (lost \cap kept) \cup {w \in added : desktop'[w] # desktop[w]}
      BY <1>6 DEF UpdateTaskButtons, MovedUnnoticed
    <2>2. /\ Kept \in Seq(Windows) /\ IsInjective(Kept)
          /\ kept \subseteq Buttons /\ Buttons \cap Mapped \subseteq kept
          /\ Buttons \subseteq Mapped \/ \E b \in Buttons \ Mapped : b \notin kept
      BY <1>1, KeptAre
    <2>3. /\ added = Mapped \ kept
          /\ children' \in Seq(Windows) /\ IsInjective(children')
          /\ Buttons' = kept \cup added
      BY <1>1, <2>1, AddedAre DEF Buttons
    <2> HIDE DEF kept, added
    <2>4. /\ wspace' \in [Windows -> Workspaces \cup {AllWorkspaces, None}]
          /\ \A w \in added : wspace'[w] = desktop[w]
          /\ \A w \in kept : wspace'[w] = wspace[w]
      BY <1>4, <2>1, <2>2, <2>3
    <2>5. TaskTypes'
      BY <1>1, <1>2, <1>3, <2>1, <2>3, <2>4 DEF TaskTypes
    <2>6. ShownAsNoted'
      <3>1. \A w \in kept \cup added : w \in shown <=> VisibleOn(current_workspace, wspace'[w])
        BY <1>1, <2>2, <2>3, <2>4 DEF ShownAsNoted
      <3>2. shown \subseteq kept \cup added
        OBVIOUS
      <3> QED BY <1>2, <2>1, <2>3, <3>1, <3>2 DEF ShownAsNoted
    <2>7. DesktopsNoted'
      <3>1. SUFFICES ASSUME NEW w \in Buttons' \ lost'
                     PROVE  Desktop(w) \in ToSet(events') \/ wspace'[w] = desktop'[w]
        BY DEF DesktopsNoted
      <3>2. w \in kept \cup added /\ w \in Windows
        BY <1>4, <2>2, <2>3, <3>1
      <3>3. CASE w \in added
        BY <2>1, <2>4, <3>1, <3>3
      <3>4. CASE w \in kept /\ w \notin added
        <4>1. w \in Buttons \ lost /\ desktop'[w] = desktop[w] /\ wspace'[w] = wspace[w]
          BY <2>1, <2>2, <2>4, <3>1, <3>2, <3>4
        <4> QED BY <1>1, <1>3, <3>2, <4>1, EventsApart DEF DesktopsNoted
      <3> QED BY <3>2, <3>3, <3>4
    <2>8. Cardinality(Buttons' \ Mapped') <= Pending(List)'
      <3>1. IsFiniteSet(Buttons \ Mapped)
        BY <1>4, FiniteElements, FS_Subset DEF Buttons
      <3>2. CASE Buttons \subseteq Mapped
        <4>1. Buttons' \ Mapped' = {}
          BY <1>2, <2>2, <2>3, <3>2
        <4>2. Cardinality({}) = 0
          BY FS_EmptySet
        <4>3. Cardinality(Buttons' \ Mapped') = 0
          BY <4>1, <4>2
        <4> QED BY <1>3, <4>3
      <3>3. ASSUME NEW b \in Buttons \ Mapped, b \notin kept
            PROVE  Cardinality(Buttons' \ Mapped') <= Pending(List)'
        <4> DEFINE G == Buttons \ Mapped
        <4>1. Buttons' \ Mapped' \subseteq G \ {b}
          BY <1>2, <2>2, <2>3, <3>3
        <4>2. b \in G /\ IsFiniteSet(G)
          BY <3>1, <3>3
        <4>3. Cardinality(G) \in Nat /\ Cardinality(G) <= Pending(List)
          BY <1>1, <4>2, FS_CardinalityType
        <4> HIDE DEF G
        <4>4. IsFiniteSet(G \ {b}) /\ Cardinality(G \ {b}) = Cardinality(G) - 1
          BY <4>2, FS_RemoveElement
        <4>5. /\ Cardinality(Buttons' \ Mapped') <= Cardinality(G \ {b})
              /\ Cardinality(Buttons' \ Mapped') \in Nat
          BY <4>1, <4>4, NoMoreThan
        <4> QED BY <1>3, <4>3, <4>4, <4>5
      <3> QED BY <2>2, <3>2, <3>3
    <2>9. ButtonsFollow'
      BY <1>2, <2>2, <2>3, <2>8 DEF ButtonsFollow
    <2> QED BY <1>5, <2>5, <2>6, <2>7, <2>9 DEF TaskInv
  <1>7. CASE ClearTaskButtons
    <2>1. /\ clients = <<>> /\ children' = <<>> /\ visible' = {}
          /\ wspace' = [w \in Windows |-> None]
          /\ desktop' = desktop
      BY <1>7 DEF ClearTaskButtons
    <2>2. /\ children' \in Seq(Windows) /\ IsInjective(children') /\ Buttons' = {}
          /\ Mapped = {}
      <3>1. Buttons' = {} /\ Mapped = {}
        BY <2>1 DEF Buttons, Mapped, ToSet
      <3>2. children' \in Seq(Windows)
        BY <2>1
      <3>3. IsInjective(children')
        BY <2>1 DEF IsInjective
      <3> QED BY <3>1, <3>2, <3>3
    <2>3. wspace' \in [Windows -> Workspaces \cup {AllWorkspaces, None}]
      BY <2>1
    <2>4. TaskTypes'
      BY <1>1, <1>2, <1>3, <2>1, <2>2, <2>3 DEF TaskTypes
    <2>5. ShownAsNoted' /\ DesktopsNoted'
      BY <2>1, <2>2 DEF ShownAsNoted, DesktopsNoted
    <2>6. Cardinality(Buttons' \ Mapped') <= Pending(List)'
      <3>1. Buttons' \ Mapped' = {}
        BY <2>2
      <3>2. Cardinality({}) = 0
        BY FS_EmptySet
      <3>3. Cardinality(Buttons' \ Mapped') = 0
        BY <3>1, <3>2
      <3> QED BY <1>3, <3>3
    <2>7. ButtonsFollow'
      BY <1>2, <2>2, <2>6 DEF ButtonsFollow
    <2> QED BY <1>5, <2>4, <2>5, <2>7 DEF TaskInv
  <1> QED BY <1>6, <1>7 DEF ListChanged

(* The handlers of the other events keep it. *)
LEMMA OthersKeep ==
    ASSUME TaskInv,
           ActiveChanged \/ WorkspaceChanged \/ \E w \in Windows : DesktopChanged(w)
    PROVE  TaskInv'
  <1>1. /\ TaskTypes /\ ShownAsNoted /\ WorkspaceNoted /\ DesktopsNoted /\ ButtonsFollow
    BY DEF TaskInv
  <1>2. /\ clients \in Seq(Windows) /\ IsInjective(clients)
        /\ children \in Seq(Windows) /\ IsInjective(children)
        /\ desktop \in [Windows -> Workspaces \cup {AllWorkspaces}]
        /\ wspace \in [Windows -> Workspaces \cup {AllWorkspaces, None}]
        /\ Buttons \subseteq Windows
    BY <1>1, ToSetOfSeq DEF TaskTypes, Buttons
  <1>3. ASSUME NEW e \in Events \ {List}, Take(e),
               UNCHANGED <<clients, desktop, current, children>>,
               wspace' \in [Windows -> Workspaces \cup {AllWorkspaces, None}]
        PROVE  TaskTypes' /\ ButtonsFollow' /\ Buttons' = Buttons
               /\ ToSet(events) = ToSet(events') \cup {e}
    <2>1. /\ events' \in Seq(Events) /\ ToSet(events) = ToSet(events') \cup {e}
          /\ Pending(List) = Pending(List)'
      BY <1>1, <1>3, Taken
    <2>2. Buttons' = Buttons
      BY <1>3 DEF Buttons
    <2>3. TaskTypes'
      BY <1>1, <1>3, <2>1 DEF TaskTypes
    <2>4. IsInjective(children')
      BY <1>2, <1>3
    <2>5. ButtonsFollow'
      BY <1>1, <1>3, <2>1, <2>2, <2>4, FollowStays
    <2> QED BY <2>1, <2>2, <2>3, <2>5
  <1>4. CASE ActiveChanged
    <2>1. /\ Take(Active)
          /\ UNCHANGED <<clients, desktop, current, children>>
          /\ UNCHANGED <<wspace, visible, current_workspace, missed, lost>>
      BY <1>4 DEF ActiveChanged, xserver
    <2>2. /\ TaskTypes' /\ ButtonsFollow' /\ Buttons' = Buttons
          /\ ToSet(events) = ToSet(events') \cup {Active}
      BY <1>2, <1>3, <2>1, EventsApart
    <2>3. ShownAsNoted' /\ WorkspaceNoted' /\ DesktopsNoted'
      BY <1>1, <1>2, <2>1, <2>2, EventsApart DEF ShownAsNoted, WorkspaceNoted, DesktopsNoted
    <2> QED BY <2>2, <2>3 DEF TaskInv
  <1>5. CASE WorkspaceChanged
    <2>1. /\ Take(Workspace)
          /\ UNCHANGED <<clients, desktop, current, children>>
          /\ UNCHANGED <<wspace, lost>> /\ missed' = (children = <<>>)
      BY <1>5 DEF WorkspaceChanged, xserver
    <2>2. /\ TaskTypes' /\ ButtonsFollow' /\ Buttons' = Buttons
          /\ ToSet(events) = ToSet(events') \cup {Workspace}
      BY <1>2, <1>3, <2>1, EventsApart
    <2>3. DesktopsNoted'
      BY <1>1, <1>2, <2>1, <2>2, EventsApart DEF DesktopsNoted
    <2>4. CASE children = <<>>
      <3>1. UNCHANGED <<current_workspace, visible>> /\ missed'
        BY <1>5, <2>1, <2>4 DEF WorkspaceChanged
      <3> QED BY <1>1, <2>1, <2>2, <2>3, <3>1 DEF TaskInv, ShownAsNoted, WorkspaceNoted
    <2>5. CASE children # <<>>
      <3>1. /\ current_workspace' = current
            /\ visible' = {w \in Buttons : VisibleOn(current, wspace[w])}
        BY <1>5, <2>5 DEF WorkspaceChanged
      <3> QED BY <1>1, <2>1, <2>2, <2>3, <3>1 DEF TaskInv, ShownAsNoted, WorkspaceNoted
    <2> QED BY <2>4, <2>5
  <1>6. ASSUME NEW w \in Windows, DesktopChanged(w)
        PROVE  TaskInv'
    <2>1. /\ Take(Desktop(w))
          /\ UNCHANGED <<clients, desktop, current, children>>
          /\ UNCHANGED <<current_workspace, missed>> /\ lost' = lost \ {w}
      BY <1>6 DEF DesktopChanged, xserver
    <2>2. wspace' \in [Windows -> Workspaces \cup {AllWorkspaces, None}]
      BY <1>2, <1>6 DEF DesktopChanged
    <2>3. Desktop(w) \in Events \ {List} /\ Desktop(w) # Workspace
      BY EventsApart
    <2>4. /\ TaskTypes' /\ ButtonsFollow' /\ Buttons' = Buttons
          /\ ToSet(events) = ToSet(events') \cup {Desktop(w)}
      BY <1>3, <2>1, <2>2, <2>3
    <2>5. WorkspaceNoted'
      BY <1>1, <2>1, <2>3, <2>4 DEF WorkspaceNoted
    <2>6. CASE w \in Buttons
      <3>1. /\ wspace' = [wspace EXCEPT ![w] = desktop[w]]
            /\ visible' = IF VisibleOn(current_workspace, desktop[w])
                          THEN visible \cup {w} ELSE visible \ {w}
        BY <1>6, <2>6 DEF DesktopChanged
      <3>2. wspace'[w] = desktop[w] /\ \A v \in Windows : v # w => wspace'[v] = wspace[v]
        BY <1>2, <3>1
      <3>3. \A v \in Buttons : v \in visible' <=> VisibleOn(current_workspace, wspace'[v])
        BY <1>1, <1>2, <2>6, <3>1, <3>2 DEF ShownAsNoted
      <3>4. visible' \subseteq Buttons
        BY <1>1, <2>6, <3>1 DEF ShownAsNoted
      <3>5. ShownAsNoted'
        BY <2>1, <2>4, <3>3, <3>4 DEF ShownAsNoted
      <3>6. DesktopsNoted'
        BY <1>1, <1>2, <2>1, <2>4, <3>2, EventsApart DEF DesktopsNoted
      <3> QED BY <2>4, <2>5, <3>5, <3>6 DEF TaskInv
    <2>7. CASE w \notin Buttons
      <3>1. UNCHANGED <<wspace, visible>>
        BY <1>6, <2>7 DEF DesktopChanged
      <3>2. ShownAsNoted'
        BY <1>1, <2>1, <2>4, <3>1 DEF ShownAsNoted
      <3>3. DesktopsNoted'
        BY <1>1, <1>2, <2>1, <2>4, <2>7, <3>1, EventsApart DEF DesktopsNoted
      <3> QED BY <2>4, <2>5, <3>2, <3>3 DEF TaskInv
    <2> QED BY <2>6, <2>7
  <1> QED BY <1>4, <1>5, <1>6


(* A click keeps it: the taskbar changes only what is active. *)
LEMMA ClickKeeps ==
    ASSUME TaskInv, NEW b \in Windows, Click(b)
    PROVE  TaskInv'
  <1>1. /\ TaskTypes /\ ShownAsNoted /\ WorkspaceNoted /\ DesktopsNoted /\ ButtonsFollow
    BY DEF TaskInv
  <1>2. /\ UNCHANGED <<clients, desktop, current, children>>
        /\ UNCHANGED <<wspace, visible, current_workspace, missed, lost>>
        /\ Buttons' = Buttons /\ IsInjective(children')
    BY <1>1 DEF Click, Buttons, TaskTypes
  <1>3. Post(Active) \/ UNCHANGED events
    BY DEF Click, ClickActive, ClickOther, InPlaceOf, Minimize, Activate
  <1>4. /\ events' \in Seq(Events) /\ ToSet(events) \subseteq ToSet(events')
        /\ Pending(List)' = Pending(List)
    <2>1. CASE Post(Active)
      BY <1>1, <2>1, Posted, EventsApart
    <2>2. CASE UNCHANGED events
      BY <1>1, <2>2 DEF TaskTypes, Pending
    <2> QED BY <1>3, <2>1, <2>2
  <1>5. TaskTypes'
    BY <1>1, <1>2, <1>4 DEF TaskTypes
  <1>6. ShownAsNoted' /\ WorkspaceNoted' /\ DesktopsNoted'
    BY <1>1, <1>2, <1>4 DEF ShownAsNoted, WorkspaceNoted, DesktopsNoted
  <1>7. ButtonsFollow'
    BY <1>1, <1>2, <1>4, FollowStays
  <1> QED BY <1>5, <1>6, <1>7 DEF TaskInv

(* A button dropped on another: the buttons are the same, and all but it   *)
(* stay in their order.                                                    *)
LEMMA DropMoves ==
    ASSUME TaskInv, NEW b \in Windows, NEW o \in Windows, Drop(b, o)
    PROVE  /\ children' \in Seq(Windows) /\ IsInjective(children') /\ Buttons' = Buttons
           /\ \A v, w \in Buttons \ {b} : Precedes(children, v, w) => Precedes(children', v, w)
  <1>1. /\ children \in Seq(Windows) /\ IsInjective(children)
        /\ b \in Buttons
    BY DEF TaskInv, TaskTypes, ShownAsNoted, Drop
  <1>2. PICK i \in DOMAIN children :
             children[i] = o /\ children' = InsertAt(RemoveFirst(children, b), i, b)
    BY DEF Drop
  <1>3. PICK k \in 1..Len(children) :
             children[k] = b /\ RemoveFirst(children, b) = RemoveAt(children, k)
    BY <1>1, RemoveFirstIs DEF Buttons
  <1> DEFINE r == RemoveAt(children, k)
             q == InsertAt(r, i, b)
             n == Len(children)
  <1>4. n \in Nat /\ DOMAIN children = 1..n /\ i \in 1..n /\ k \in 1..n
    BY <1>1, LenProperties
  <1>5. /\ r \in Seq(Windows) /\ Len(r) = n - 1 /\ IsInjective(r) /\ ToSet(r) = Buttons \ {b}
    BY <1>1, <1>3, RemoveOne DEF Buttons
  <1>6. \A j \in 1..(n - 1) : r[j] = IF j < k THEN children[j] ELSE children[j + 1]
    BY <1>1, RemoveAtElements
  <1> HIDE DEF r
  <1>7. i \in 1..(Len(r) + 1) /\ b \notin ToSet(r)
    BY <1>4, <1>5
  <1>8. /\ q \in Seq(Windows) /\ Len(q) = n /\ IsInjective(q) /\ ToSet(q) = Buttons
    <2>1. r \in Seq(Windows) /\ IsInjective(r)
      BY <1>5
    <2>2. /\ InsertAt(r, i, b) \in Seq(Windows) /\ Len(InsertAt(r, i, b)) = Len(r) + 1
          /\ IsInjective(InsertAt(r, i, b))
          /\ ToSet(InsertAt(r, i, b)) = ToSet(r) \cup {b}
      BY <1>7, <2>1, InsertOne
    <2> QED BY <1>1, <1>4, <1>5, <2>2
  <1>9. \A j \in 1..n : q[j] = IF j < i THEN r[j] ELSE IF j = i THEN b ELSE r[j - 1]
    <2>1. \A j \in 1..(Len(r) + 1) : q[j] = IF j < i THEN r[j] ELSE IF j = i THEN b ELSE r[j - 1]
      <3>1. r \in Seq(Windows)
        BY <1>5
      <3>2. /\ InsertAt(r, i, b) \in Seq(Windows)
            /\ Len(InsertAt(r, i, b)) = Len(r) + 1
            /\ \A j \in 1..(Len(r) + 1) :
                 InsertAt(r, i, b)[j] = IF j < i THEN r[j] ELSE IF j = i THEN b ELSE r[j - 1]
        BY <1>7, <3>1, InsertAtElements, SMTT(40)
      <3> QED BY <3>2
    <2> QED BY <1>4, <1>5, <2>1
  <1>10. children' = q
    BY <1>2, <1>3 DEF r
  <1>11. DOMAIN q = 1..n
    BY <1>8, LenProperties
  <1> HIDE DEF q
  <1>12. ASSUME NEW v \in Buttons \ {b}, NEW w \in Buttons \ {b}, Precedes(children, v, w)
         PROVE  Precedes(q, v, w)
    <2>1. PICK x, y \in 1..n : x < y /\ children[x] = v /\ children[y] = w
      BY <1>4, <1>12 DEF Precedes
    <2>2. x # k /\ y # k
      BY <1>3, <2>1
    <2>3. PICK x1, y1 \in 1..(n - 1) : x1 < y1 /\ r[x1] = v /\ r[y1] = w
      <3> DEFINE sh(z) == IF z < k THEN z ELSE z - 1
      <3>1. sh(x) \in 1..(n - 1) /\ sh(y) \in 1..(n - 1) /\ sh(x) < sh(y)
        BY <1>4, <2>1, <2>2
      <3>2. r[sh(x)] = v /\ r[sh(y)] = w
        <4>1. \A z \in 1..n : z < k => r[z] = children[z]
          BY <1>4, <1>6
        <4>2. \A z \in 1..n : z > k => r[z - 1] = children[z]
          BY <1>4, <1>6
        <4>3. \A z \in 1..n : z # k => r[sh(z)] = children[z]
          BY <1>4, <4>1, <4>2
        <4> QED BY <2>1, <2>2, <4>3
      <3> HIDE DEF sh
      <3> QED BY <3>1, <3>2
    <2>4. PICK x2, y2 \in 1..n : x2 < y2 /\ q[x2] = v /\ q[y2] = w
      <3> DEFINE sh(z) == IF z < i THEN z ELSE z + 1
      <3>1. sh(x1) \in 1..n /\ sh(y1) \in 1..n /\ sh(x1) < sh(y1)
        BY <1>4, <2>3
      <3>2. q[sh(x1)] = v /\ q[sh(y1)] = w
        BY <1>4, <1>9, <2>3, <3>1
      <3> HIDE DEF sh
      <3> QED BY <3>1, <3>2
    <2> QED BY <1>11, <2>4 DEF Precedes
  <1>13. Buttons' = Buttons
    BY <1>8, <1>10 DEF Buttons
  <1> QED BY <1>8, <1>10, <1>12, <1>13

(* A drop keeps it. *)
LEMMA DropKeeps ==
    ASSUME TaskInv, NEW b \in Windows, NEW o \in Windows, Drop(b, o)
    PROVE  TaskInv'
  <1>1. /\ TaskTypes /\ ShownAsNoted /\ WorkspaceNoted /\ DesktopsNoted /\ ButtonsFollow
    BY DEF TaskInv
  <1>2. /\ UNCHANGED <<clients, desktop, current, events>>
        /\ UNCHANGED <<wspace, visible, current_workspace, missed, lost>>
    BY DEF Drop, xserver
  <1>3. children' \in Seq(Windows) /\ IsInjective(children') /\ Buttons' = Buttons
    BY DropMoves
  <1>4. TaskTypes'
    BY <1>1, <1>2, <1>3 DEF TaskTypes
  <1>5. ShownAsNoted' /\ WorkspaceNoted' /\ DesktopsNoted'
    BY <1>1, <1>2, <1>3 DEF ShownAsNoted, WorkspaceNoted, DesktopsNoted
  <1>6. Pending(List)' = Pending(List)
    BY <1>2 DEF Pending
  <1>7. ButtonsFollow'
    BY <1>1, <1>2, <1>3, <1>6, FollowStays
  <1> QED BY <1>4, <1>5, <1>7 DEF TaskInv

(* Every step keeps it. *)
LEMMA TaskStays ==
    TaskInv /\ [Next]_vars => TaskInv'
  <1> SUFFICES ASSUME TaskInv, [Next]_vars PROVE TaskInv'
    OBVIOUS
  <1>1. CASE UNCHANGED vars
    BY <1>1 DEF vars, xserver, TaskInv, TaskTypes, ShownAsNoted, WorkspaceNoted, DesktopsNoted,
                ButtonsFollow, Pending, Mapped, Buttons
  <1>2. CASE Next
    BY <1>2, DesktopsKeep, ListKeeps, OthersKeep, ClickKeeps, DropKeeps DEF Next
  <1> QED BY <1>1, <1>2

(* So it always holds. *)
LEMMA TaskInvariant ==
    Spec => []TaskInv
  BY TaskStarts, TaskStays, PTL DEF Spec

(* However the events of the X server and the handlers of the panel        *)
(* alternate, there are never more buttons without a window than changes   *)
(* of the list to handle, no window has two, and with none to handle none  *)
(* is without one: for any number of windows, workspaces and events.       *)
THEOREM ButtonsFollowWindows ==
    Spec => []ButtonsFollow
  <1>1. TaskInv => ButtonsFollow
    BY DEF TaskInv
  <1> QED BY <1>1, TaskInvariant, PTL

(* With all events handled the buttons shown are those of the workspace,   *)
(* unless the change of it met an empty taskbar, and except for a window   *)
(* moved while its button was made (Taskbar.cpp:194 to :205).              *)
THEOREM ButtonsShown ==
    Spec => []ShownAreHere
  <1>1. ASSUME TaskInv, events = <<>>, ~ missed
        PROVE  \A w \in Buttons \ lost : w \in visible <=> VisibleOn(current, desktop[w])
    <2>1. ToSet(events) = {}
      BY <1>1 DEF ToSet
    <2> QED BY <1>1, <2>1 DEF TaskInv, ShownAsNoted, WorkspaceNoted, DesktopsNoted
  <1>2. TaskInv => ShownAreHere
    BY <1>1 DEF ShownAreHere
  <1> QED BY <1>2, TaskInvariant, PTL


(* update_task_buttons keeps the order of the buttons that stay. *)
LEMMA UpdateKeepsOrder ==
    ASSUME TaskInv, UpdateTaskButtons
    PROVE  \A v, w \in Buttons \cap ToSet(children') :
             Precedes(children, v, w) => Precedes(children', v, w)
  <1>1. TaskTypes /\ children \in Seq(Windows)
    BY DEF TaskInv, TaskTypes
  <1>2. children' = Kept \o Added
    BY DEF UpdateTaskButtons
  <1>3. /\ Kept \in Seq(Windows) /\ Added \in Seq(Windows)
        /\ ToSet(Kept) \subseteq Buttons /\ Buttons \cap Mapped \subseteq ToSet(Kept)
        /\ ToSet(children') = ToSet(Kept) \cup ToSet(Added)
        /\ ToSet(Added) = Mapped \ ToSet(Kept)
    BY <1>1, <1>2, KeptAre, AddedAre
  <1>4. Buttons \cap ToSet(children') \subseteq ToSet(Kept)
    BY <1>3
  <1>5. PICK keep : Kept = Sieve(children, keep)
    BY <1>1, KeptAre
  <1>6. ToSet(Kept) = ToSet(children) \cap keep
    BY <1>1, <1>5, SieveElements
  <1> DEFINE q == Kept
             p == Added
             r == q \o p
  <1>7. /\ Len(r) = Len(q) + Len(p) /\ r \in Seq(Windows)
        /\ \A j \in 1..(Len(q) + Len(p)) : r[j] = IF j <= Len(q) THEN q[j] ELSE p[j - Len(q)]
    <2> HIDE DEF q, p
    <2>1. q \in Seq(Windows) /\ p \in Seq(Windows)
      BY <1>3 DEF q, p
    <2> QED BY <2>1, ConcatProperties
  <1>8. Len(q) \in Nat /\ Len(p) \in Nat /\ DOMAIN r = 1..(Len(q) + Len(p))
    BY <1>3, <1>7, LenProperties
  <1>9. DOMAIN children = 1..Len(children)
    BY <1>1, LenProperties
  <1>10. ASSUME NEW v \in ToSet(q), NEW w \in ToSet(q), Precedes(children, v, w)
         PROVE  Precedes(r, v, w)
    <2>1. Before(children, v, w)
      BY <1>9, <1>10 DEF Precedes, Before
    <2>2. v \in keep /\ w \in keep
      BY <1>6, <1>10
    <2>3. Before(Sieve(children, keep), v, w)
      BY <1>1, <2>1, <2>2, SieveOrder
    <2>4. PICK k, l \in 1..Len(q) : k < l /\ q[k] = v /\ q[l] = w
      BY <1>5, <2>3 DEF Before
    <2> HIDE DEF q, p, r
    <2>5. r[k] = v /\ r[l] = w /\ k \in DOMAIN r /\ l \in DOMAIN r
      BY <1>7, <1>8, <2>4
    <2> QED BY <2>4, <2>5 DEF Precedes
  <1> QED BY <1>2, <1>4, <1>10

(* Only the button that is dragged changes its place among the others, in  *)
(* any step: no event reorders the taskbar.                                *)
THEOREM OrderOfButtonsKept ==
    Spec => OrderKept
  <1> DEFINE InOrder == \E b \in Windows \cup {None} :
                        \A v, w \in (Buttons \cap ToSet(children')) \ {b} :
                          Precedes(children, v, w) => Precedes(children', v, w)
  <1>1. ASSUME TaskInv, [Next]_vars
        PROVE  [InOrder]_vars
    <2>1. CASE children' = children
      BY <2>1
    <2>2. CASE UpdateTaskButtons
      BY <1>1, <2>2, UpdateKeepsOrder
    <2>3. CASE ClearTaskButtons
      <3>1. ToSet(children') = {}
        BY <2>3 DEF ClearTaskButtons, ToSet
      <3> QED BY <3>1
    <2>4. ASSUME NEW b \in Windows, NEW o \in Windows, Drop(b, o)
          PROVE  InOrder
      <3>1. \A v, w \in Buttons \ {b} : Precedes(children, v, w) => Precedes(children', v, w)
        BY <1>1, <2>4, DropMoves
      <3> QED BY <3>1
    <2>5. \/ children' = children
          \/ UpdateTaskButtons \/ ClearTaskButtons
          \/ \E b, o \in Windows : Drop(b, o)
      BY <1>1 DEF Next, vars, Desktops, ListChanged, ActiveChanged, WorkspaceChanged,
                  DesktopChanged, Click
    <2> QED BY <2>1, <2>2, <2>3, <2>4, <2>5
  <1>2. TaskInv /\ [Next]_vars => [InOrder]_vars
    BY <1>1
  <1>3. Spec => [][InOrder]_vars
    BY <1>2, TaskInvariant, PTL DEF Spec
  <1> QED BY <1>3 DEF OrderKept

(* The window a click activates in place of the one it minimizes is on the *)
(* workspace the user sees.                                                *)
THEOREM NextShown ==
    Spec => NextIsVisible
  <1> DEFINE AreHere == \A b \in visible :
               b \in iconic' \ iconic /\ curr_active' \in Buttons \ {curr_active}
               => curr_active' \in visible
  <1>1. ASSUME TaskInv, [Next]_vars
        PROVE  AreHere
    <2>1. SUFFICES ASSUME NEW b \in visible, b \in iconic' \ iconic,
                          curr_active' \in Buttons \ {curr_active}
                   PROVE  curr_active' \in visible
      OBVIOUS
    <2>2. PICK w \in Windows : Click(w)
      BY <1>1, <2>1 DEF Next, vars, xserver, Desktops, Map, Unmap, Focus, SwitchWorkspace, MoveTo,
                        ListChanged, ActiveChanged, WorkspaceChanged, DesktopChanged, Drop
    <2>3. ClickActive(w)
      BY <2>1, <2>2 DEF Click, ClickOther, Activate
    <2>4. CASE NextAfter(w) /\ InPlaceOf(w, prev_active) /\ curr_active' = prev_active
      <3>1. prev_active \in Buttons /\ wspace[prev_active] = wspace[w] /\ w \in visible
        BY <2>2, <2>4 DEF NextAfter, Click
      <3> QED BY <1>1, <2>4, <3>1 DEF TaskInv, ShownAsNoted
    <2>5. CASE curr_active' = Freed
      <3>1. Buttons \subseteq Windows
        BY <1>1, ToSetOfSeq DEF TaskInv, TaskTypes, Buttons
      <3> QED BY <2>1, <2>5, <3>1, TaskbarAssumption
    <2>6. CASE UNCHANGED curr_active
      BY <2>1, <2>6
    <2> QED BY <2>3, <2>4, <2>5, <2>6 DEF ClickActive
  <1>2. TaskInv /\ [Next]_vars => [AreHere]_vars
    BY <1>1
  <1>3. Spec => [][AreHere]_vars
    BY <1>2, TaskInvariant, PTL DEF Spec
  <1> QED BY <1>3 DEF NextIsVisible
=============================================================================

--------------------------- MODULE HarbourProofs ---------------------------
(***************************************************************************)
(* Theorems about the harbour and the calculator of Shell.tla, for any     *)
(* number of dock apps, operators and keys, and about Xsm.tla, for any     *)
(* settings, colours and disturbances.                                     *)
(***************************************************************************)
EXTENDS Shell, Xsm, SequenceLemmas

----------------------------------------------------------------------------
(* The harbour.                                                            *)

HarbFields == {"config", "list", "at", "len", "mapped", "hidden", "size", "loose", "stale", "late"}

HarbForm(t) ==
    /\ DOMAIN t = HarbFields
    /\ t.config \in H!Configs
    /\ t.list \in Seq(Apps) /\ IsInjective(t.list)
    /\ t.at \in [Apps -> Int] /\ t.len \in [Apps -> Nat \ {0}]
    /\ t.loose \subseteq Apps

(* Two apps of which one ends before the other begins.                     *)
ApartIn(t, d, e) == ~ H!Overlap(t, d, t.at[e], t.len[e])

(* Without HarbourSort: those that were placed are apart, but for d.       *)
FreeBut(t, d) ==
    \A e, f \in ToSet(t.list) \ (t.loose \cup {d}) : e # f => ApartIn(t, e, f)

Free(t) == \A e, f \in ToSet(t.list) \ t.loose : e # f => ApartIn(t, e, f)

(* With it: an app is before the next ones by its position,                *)
Class(d) == IF Position[d] > 0 THEN 1 ELSE IF Position[d] = 0 THEN 2 ELSE 3
NotAfter(d, e) == Class(d) < Class(e) \/ (Class(d) = Class(e) /\ Position[d] <= Position[e])
Ranked(q) == \A i, j \in 1..Len(q) : i < j => NotAfter(q[i], q[j])

(* and each begins where the one before it ends, or later, in the          *)
(* direction in which they are placed - if that is the right one.          *)
GoesRight(t) == ~ (t.config.sort = "horizontal" /\ t.config.backwards)

Lined(t) ==
    \A i, j \in 1..Len(t.list) : i < j =>
        IF t.config.backwards
        THEN t.at[t.list[j]] + t.len[t.list[j]] <= t.at[t.list[i]]
        ELSE t.at[t.list[i]] + t.len[t.list[i]] <= t.at[t.list[j]]

Arranged(t) ==
    IF t.config.sort = "no" THEN Free(t)
    ELSE Ranked(t.list) /\ (GoesRight(t) /\ t.loose = {} => Lined(t))

(* The strut, and what is mapped.                                          *)
Strut(t) == H!Max({0} \cup {t.len[d] : d \in ToSet(t.list)})
StrutNoted(t) == ~ t.stale => t.size = Strut(t)
MappedOf(t) ==
    /\ t.hidden \in BOOLEAN
    /\ t.mapped = IF t.hidden THEN t.late ELSE ToSet(t.list)

HarbInv == HarbForm(s) /\ Arranged(s) /\ StrutNoted(s) /\ MappedOf(s)

(* The library's operators are the same in the harbour. *)
LEMMA HarbourOperators ==
    \A q, e, i : /\ H!ToSet(q) = ToSet(q) /\ H!Sieve(q, e) = Sieve(q, e)
                 /\ H!InsertAt(q, i, e) = InsertAt(q, i, e)
  BY DEF H!ToSet, ToSet, H!Sieve, Sieve, H!InsertAt, InsertAt

(* What the app that is placed does not find in its way is apart from it.  *)
LEMMA NoneInTheWay ==
    ASSUME NEW t, HarbForm(t), NEW d \in Apps, NEW from \in Int
    PROVE  /\ H!InTheWay(t, d, from) \in Seq(Apps)
           /\ H!InTheWay(t, d, from) # <<>> => Head(H!InTheWay(t, d, from)) \in Apps
           /\ H!InTheWay(t, d, from) = <<>> =>
                \A e \in ToSet(t.list) \ {d} : ~ H!Overlap(t, e, from, t.len[d])
  <1> DEFINE k == {e \in Apps : e # d /\ H!Overlap(t, e, from, t.len[d])}
             q == H!InTheWay(t, d, from)
  <1>1. q = Sieve(t.list, k)
    BY HarbourOperators DEF H!InTheWay
  <1>2. t.list \in Seq(Apps)
    BY DEF HarbForm
  <1> HIDE DEF q, k
  <1>3. q \in Seq(Apps) /\ ToSet(q) = ToSet(t.list) \cap k
    BY <1>1, <1>2, SieveElements
  <1>4. ToSet(q) \subseteq Apps /\ ToSet(t.list) \subseteq Apps
        /\ (q = <<>> <=> ToSet(q) = {}) /\ (q # <<>> => Head(q) \in ToSet(q))
    BY <1>2, <1>3, ToSetOfSeq
  <1>5. q = <<>> => \A e \in ToSet(t.list) \ {d} : ~ H!Overlap(t, e, from, t.len[d])
    BY <1>3, <1>4 DEF k
  <1> QED BY <1>3, <1>4, <1>5 DEF q

LEMMA PlacesAreNumbers ==
    ASSUME NEW t, HarbForm(t), NEW d \in Apps
    PROVE  H!FirstPlace(t, d) \in Int /\ \A x \in Int : H!NextPlace(t, d, x) \in Int
  <1>1. H!FirstPlace(t, d) \in Int
    BY ShellAssumption DEF HarbForm, H!FirstPlace, H!HeadEnd
  <1>2. ASSUME NEW x \in Int
        PROVE  H!NextPlace(t, d, x) \in Int
    <2> DEFINE q == H!InTheWay(t, d, x)
    <2>1. CASE q = <<>>
      BY <2>1 DEF H!NextPlace
    <2>2. CASE q # <<>>
      <3> DEFINE e == Head(q)
      <3>1. e \in Apps
        BY <2>2, NoneInTheWay
      <3>2. H!NextPlace(t, d, x) = IF t.config.backwards THEN t.at[e] - t.len[d] ELSE t.at[e] + t.len[e]
        BY <2>2 DEF H!NextPlace, H!End
      <3> HIDE DEF e
      <3> QED BY <3>1, <3>2 DEF HarbForm
    <2> QED BY <2>1, <2>2
  <1> QED BY <1>1, <1>2

(* A function that is defined from each number to the next exists.         *)
StepOf(g, a, next, i) == IF i = 0 THEN a ELSE next[i][g[i - 1]]

IsStepwise(g, S, a, next, k) ==
    /\ g = [i \in 0..k |-> StepOf(g, a, next, i)]
    /\ \A i \in 0..k : g[i] \in S

LEMMA Stepwise ==
    ASSUME NEW S, NEW a \in S, NEW k \in Nat, NEW next \in [1..k -> [S -> S]]
    PROVE  \E g : IsStepwise(g, S, a, next, k)
  <1> DEFINE T == {m \in Nat : \E g : IsStepwise(g, S, a, next, m)}
  <1>1. 0 \in T
    <2> DEFINE g == [i \in 0..0 |-> a]
    <2>1. IsStepwise(g, S, a, next, 0)
      BY DEF IsStepwise, StepOf
    <2> QED BY <2>1
  <1>2. ASSUME NEW m \in 0..(k - 1), m \in T
        PROVE  m + 1 \in T
    <2>0. \E g : IsStepwise(g, S, a, next, m)
      BY <1>2
    <2>1. m \in Nat /\ \A i \in 0..(m + 1) : (i \in 0..m \/ i = m + 1) /\ (i # 0 => i - 1 \in 0..m)
      OBVIOUS
    <2>2. PICK g : IsStepwise(g, S, a, next, m)
      BY <2>0
    <2> DEFINE h == [i \in 0..(m + 1) |-> IF i = m + 1 THEN StepOf(g, a, next, i) ELSE g[i]]
    <2>3. \A i \in 0..m : g[i] = StepOf(g, a, next, i) /\ g[i] \in S
      BY <2>2 DEF IsStepwise
    <2>4. /\ \A i \in 0..m : h[i] = g[i]
          /\ h[m + 1] = StepOf(g, a, next, m + 1)
          /\ h = [i \in 0..(m + 1) |-> h[i]]
      BY <2>1
    <2> HIDE DEF h
    <2>5. \A i \in 0..(m + 1) : i # 0 => h[i - 1] = g[i - 1]
      BY <2>1, <2>4
    <2>6. \A i \in 0..(m + 1) : StepOf(h, a, next, i) = StepOf(g, a, next, i)
      BY <2>5 DEF StepOf
    <2>7. \A i \in 0..(m + 1) : h[i] = StepOf(h, a, next, i)
      BY <2>1, <2>3, <2>4, <2>6
    <2>8. StepOf(g, a, next, m + 1) \in S
      <3>1. g[m] \in S /\ m + 1 \in 1..k
        BY <2>1, <2>3
      <3>2. next[m + 1] \in [S -> S]
        BY <3>1
      <3>3. next[m + 1][g[m]] \in S
        BY <3>1, <3>2
      <3>4. StepOf(g, a, next, m + 1) = next[m + 1][g[m]]
        BY <2>1 DEF StepOf
      <3> QED BY <3>3, <3>4
    <2>9. \A i \in 0..(m + 1) : h[i] \in S
      BY <2>1, <2>3, <2>4, <2>8
    <2>10. IsStepwise(h, S, a, next, m + 1)
      BY <2>4, <2>7, <2>9 DEF IsStepwise
    <2> QED BY <2>1, <2>10
  <1> HIDE DEF T
  <1>3. \A m \in 0..k : m \in T
    BY <1>1, <1>2, Upward
  <1>4. k \in T
    BY <1>3
  <1> QED BY <1>4 DEF T

LEMMA LastPlaceIs ==
    ASSUME NEW t, HarbForm(t), NEW d \in Apps
    PROVE  H!LastPlace(t, d) \in Int
  <1> DEFINE k == Len(t.list)
             a == H!FirstPlace(t, d)
             next == [i \in 1..k |-> [x \in Int |-> H!NextPlace(t, d, x)]]
             r == CHOOSE r : r = [n \in 0..Len(t.list) |->
                                    IF n = 0 THEN H!FirstPlace(t, d)
                                    ELSE H!NextPlace(t, d, r[n - 1])]
  <1>1. k \in Nat /\ k = Len(t.list)
    BY DEF HarbForm
  <1>2. H!LastPlace(t, d) = r[k]
    BY DEF H!LastPlace
  <1>3. a \in Int /\ \A x \in Int : H!NextPlace(t, d, x) \in Int
    BY PlacesAreNumbers
  <1>4. \E g : g = [n \in 0..Len(t.list) |-> IF n = 0 THEN a ELSE H!NextPlace(t, d, g[n - 1])]
    <2>1. next \in [1..k -> [Int -> Int]]
      BY <1>3
    <2>2. \A i \in 1..k, x \in Int : next[i][x] = H!NextPlace(t, d, x)
      OBVIOUS
    <2> HIDE DEF next, a
    <2>3. PICK g : IsStepwise(g, Int, a, next, k)
      BY <1>1, <1>3, <2>1, Stepwise
    <2> HIDE DEF k
    <2>4. \A n \in 0..k : n # 0 => n \in 1..k /\ g[n - 1] \in Int
      BY <1>1, <2>3 DEF IsStepwise
    <2>5. \A n \in 0..k : StepOf(g, a, next, n) = IF n = 0 THEN a ELSE H!NextPlace(t, d, g[n - 1])
      BY <2>2, <2>4 DEF StepOf
    <2>6. g = [n \in 0..k |-> IF n = 0 THEN a ELSE H!NextPlace(t, d, g[n - 1])]
      BY <2>3, <2>5 DEF IsStepwise
    <2> QED BY <1>1, <2>6
  <1>5. r = [n \in 0..Len(t.list) |-> IF n = 0 THEN a ELSE H!NextPlace(t, d, r[n - 1])]
    BY <1>4
  <1> HIDE DEF r, k, a
  <1> DEFINE T == {n \in 0..k : r[n] \in Int}
  <1>6. r[0] = a /\ \A n \in 0..(k - 1) : r[n + 1] = H!NextPlace(t, d, r[n])
    BY <1>1, <1>5
  <1>7. 0 \in T
    BY <1>1, <1>3, <1>6
  <1>8. ASSUME NEW n \in 0..(k - 1), n \in T
        PROVE  n + 1 \in T
    <2>1. r[n] \in Int /\ n + 1 \in 0..k
      BY <1>1, <1>8
    <2>2. r[n + 1] \in Int
      BY <1>3, <1>6, <2>1
    <2> QED BY <2>1, <2>2
  <1> HIDE DEF T
  <1>9. \A n \in 0..k : n \in T
    BY <1>1, <1>7, <1>8, Upward
  <1>10. k \in T
    BY <1>1, <1>9
  <1> QED BY <1>2, <1>10 DEF T

(* What is the same after apps were placed.                                *)
SameBut(t, u) ==
    /\ u.config = t.config /\ u.list = t.list /\ u.len = t.len /\ u.mapped = t.mapped
    /\ u.hidden = t.hidden /\ u.size = t.size /\ u.stale = t.stale /\ u.late = t.late

(* An app is placed: it is dropped from the loose ones where it is apart   *)
(* from all others only.                                                   *)
LEMMA PlaceOne ==
    ASSUME NEW t, HarbForm(t), NEW d \in Apps
    PROVE  \E x \in Int, l \in SUBSET Apps :
             /\ H!PlaceDockApp(t, d) = [t EXCEPT !.at = [@ EXCEPT ![d] = x], !.loose = l]
             /\ t.loose \subseteq l \cup {d}
             /\ d \notin l => \A e \in ToSet(t.list) \ {d} : ~ H!Overlap(t, e, x, t.len[d])
  <1>1. H!LastPlace(t, d) \in Int /\ H!FirstPlace(t, d) \in Int /\ t.loose \subseteq Apps
    BY LastPlaceIs, PlacesAreNumbers DEF HarbForm
  <1>2. CASE H!Found(t, d)
    <2> DEFINE x == H!LastPlace(t, d)
               l == t.loose \ {d}
    <2>1. H!PlaceDockApp(t, d) = [t EXCEPT !.at = [@ EXCEPT ![d] = x], !.loose = l]
      BY <1>2 DEF H!PlaceDockApp
    <2>2. \A e \in ToSet(t.list) \ {d} : ~ H!Overlap(t, e, x, t.len[d])
      BY <1>1, <1>2, NoneInTheWay DEF H!Found
    <2> QED BY <1>1, <2>1, <2>2
  <1>3. CASE ~ H!Found(t, d)
    <2> DEFINE x == H!FirstPlace(t, d)
               l == t.loose \cup {d}
    <2>1. H!PlaceDockApp(t, d) = [t EXCEPT !.at = [@ EXCEPT ![d] = x], !.loose = l]
      BY <1>3 DEF H!PlaceDockApp
    <2> QED BY <1>1, <2>1
  <1> QED BY <1>2, <1>3

(* The others were apart, so all are.                                      *)
LEMMA PlacedFree ==
    ASSUME NEW t, HarbForm(t), NEW d \in Apps
    PROVE  LET u == H!PlaceDockApp(t, d)
           IN  /\ HarbForm(u) /\ SameBut(t, u)
               /\ FreeBut(t, d) => Free(u)
  <1>1. PICK x \in Int, l \in SUBSET Apps :
             /\ H!PlaceDockApp(t, d) = [t EXCEPT !.at = [@ EXCEPT ![d] = x], !.loose = l]
             /\ t.loose \subseteq l \cup {d}
             /\ d \notin l => \A e \in ToSet(t.list) \ {d} : ~ H!Overlap(t, e, x, t.len[d])
    BY PlaceOne
  <1> DEFINE u == [t EXCEPT !.at = [@ EXCEPT ![d] = x], !.loose = l]
  <1>2. DOMAIN t = HarbFields /\ t.at \in [Apps -> Int] /\ t.len \in [Apps -> Nat \ {0}]
    BY DEF HarbForm
  <1>3. /\ DOMAIN u = HarbFields /\ SameBut(t, u) /\ u.loose = l
        /\ u.at = [t.at EXCEPT ![d] = x]
    BY <1>2 DEF HarbFields, SameBut
  <1> HIDE DEF u
  <1>4. HarbForm(u)
    BY <1>2, <1>3 DEF HarbForm, SameBut
  <1>5. ASSUME FreeBut(t, d)
        PROVE  Free(u)
    <2>1. SUFFICES ASSUME NEW e \in ToSet(t.list) \ l, NEW f \in ToSet(t.list) \ l, e # f
                   PROVE  ApartIn(u, e, f)
      BY <1>3 DEF Free, SameBut
    <2>2. e \in Apps /\ f \in Apps
      BY ToSetOfSeq DEF HarbForm
    <2>3. u.len = t.len
      BY <1>3 DEF SameBut
    <2>4. CASE e # d /\ f # d
      <3>1. ApartIn(t, e, f)
        BY <1>1, <1>5, <2>1, <2>4 DEF FreeBut
      <3>2. u.at[e] = t.at[e] /\ u.at[f] = t.at[f]
        BY <1>2, <1>3, <2>2, <2>4
      <3> QED BY <2>3, <3>1, <3>2 DEF ApartIn, H!Overlap, H!End
    <2>5. CASE f = d
      <3>1. ~ H!Overlap(t, e, x, t.len[d])
        BY <1>1, <2>1, <2>5
      <3>2. u.at[e] = t.at[e] /\ u.at[f] = x
        BY <1>2, <1>3, <2>1, <2>2, <2>5
      <3> QED BY <2>3, <2>5, <3>1, <3>2 DEF ApartIn, H!Overlap, H!End
    <2>6. CASE e = d
      <3>1. ~ H!Overlap(t, f, x, t.len[d])
        BY <1>1, <2>1, <2>6
      <3>2. u.at[f] = t.at[f] /\ u.at[e] = x
        BY <1>2, <1>3, <2>1, <2>2, <2>6
      <3>3. t.at[f] \in Int /\ t.len[f] \in Nat /\ t.len[d] \in Nat
        BY <1>2, <2>2
      <3>4. ~ (t.at[f] < x + t.len[d] /\ t.at[f] + t.len[f] > x)
        BY <3>1 DEF H!Overlap, H!End
      <3>5. ~ (x < t.at[f] + t.len[f] /\ x + t.len[d] > t.at[f])
        BY <3>3, <3>4
      <3> QED BY <2>3, <2>6, <3>2, <3>5 DEF ApartIn, H!Overlap, H!End
    <2> QED BY <2>4, <2>5, <2>6
  <1> QED BY <1>1, <1>3, <1>4, <1>5 DEF u

(* The states after each app, up to the k-th.                              *)
AllStep(g, t, i) == IF i = 0 THEN t ELSE H!PlaceDockApp(g[i - 1], t.list[i])

IsAll(g, t, k) == g = [i \in 0..k |-> AllStep(g, t, i)]

LEMMA AllExist ==
    ASSUME NEW t, NEW k \in Nat
    PROVE  \E g : IsAll(g, t, k)
  <1> DEFINE T == {m \in Nat : \E g : IsAll(g, t, m)}
  <1>1. 0 \in T
    <2> DEFINE g == [i \in 0..0 |-> t]
    <2>1. IsAll(g, t, 0)
      BY DEF IsAll, AllStep
    <2> QED BY <2>1
  <1>2. ASSUME NEW m \in Nat, m \in T
        PROVE  m + 1 \in T
    <2>1. PICK g : IsAll(g, t, m)
      BY <1>2
    <2> DEFINE h == [i \in 0..(m + 1) |-> IF i = m + 1 THEN AllStep(g, t, i) ELSE g[i]]
    <2>2. \A i \in 0..m : g[i] = AllStep(g, t, i)
      BY <2>1 DEF IsAll
    <2>3. \A i \in 0..(m + 1) : i # 0 => h[i - 1] = g[i - 1]
      OBVIOUS
    <2>4. \A i \in 0..(m + 1) : AllStep(h, t, i) = AllStep(g, t, i)
      <3> HIDE DEF h
      <3> QED BY <2>3 DEF AllStep
    <2>5. \A i \in 0..(m + 1) : h[i] = AllStep(h, t, i)
      BY <2>2, <2>4
    <2>6. IsAll(h, t, m + 1)
      <3>1. h = [i \in 0..(m + 1) |-> h[i]]
        OBVIOUS
      <3> HIDE DEF h
      <3> QED BY <2>5, <3>1 DEF IsAll
    <2> QED BY <2>6
  <1> HIDE DEF T
  <1>3. \A m \in 0..(k - 1) : m \in T => m + 1 \in T
    BY <1>2
  <1>4. \A m \in 0..k : m \in T
    BY <1>1, <1>3, Upward
  <1>5. k \in T
    BY <1>4
  <1> QED BY <1>5 DEF T

(* Placing all of them keeps them so.                                      *)
LEMMA AllPlacedFree ==
    ASSUME NEW t, HarbForm(t), Free(t)
    PROVE  LET u == H!PlaceDockApps(t)
           IN  HarbForm(u) /\ SameBut(t, u) /\ Free(u)
  <1> DEFINE k == Len(t.list)
             r == CHOOSE r : r = [n \in 0..Len(t.list) |->
                                    IF n = 0 THEN t ELSE H!PlaceDockApp(r[n - 1], t.list[n])]
  <1>1. k \in Nat /\ k = Len(t.list) /\ \A n \in 1..k : t.list[n] \in Apps
    BY DEF HarbForm
  <1>2. H!PlaceDockApps(t) = r[k]
    BY DEF H!PlaceDockApps
  <1>3. \E g : g = [n \in 0..Len(t.list) |->
                      IF n = 0 THEN t ELSE H!PlaceDockApp(g[n - 1], t.list[n])]
    <2>1. \E g : IsAll(g, t, Len(t.list))
      BY <1>1, AllExist
    <2> QED BY <2>1 DEF IsAll, AllStep
  <1>4. r = [n \in 0..Len(t.list) |-> IF n = 0 THEN t ELSE H!PlaceDockApp(r[n - 1], t.list[n])]
    BY <1>3
  <1> HIDE DEF r, k
  <1> DEFINE Good(u) == HarbForm(u) /\ SameBut(t, u) /\ Free(u)
             T == {n \in 0..k : Good(r[n])}
  <1>5. r[0] = t /\ \A n \in 0..(k - 1) : r[n + 1] = H!PlaceDockApp(r[n], t.list[n + 1])
    BY <1>1, <1>4
  <1>6. 0 \in T
    BY <1>1, <1>5 DEF SameBut
  <1>7. ASSUME NEW n \in 0..(k - 1), n \in T
         PROVE  n + 1 \in T
    <2>1. Good(r[n]) /\ n + 1 \in 0..k /\ t.list[n + 1] \in Apps
      BY <1>1, <1>7
    <2>2. FreeBut(r[n], t.list[n + 1])
      BY <2>1 DEF Free, FreeBut
    <2>3. /\ HarbForm(r[n + 1]) /\ SameBut(r[n], r[n + 1]) /\ Free(r[n + 1])
      BY <1>5, <2>1, <2>2, PlacedFree
    <2>4. SameBut(t, r[n + 1])
      BY <2>1, <2>3 DEF SameBut
    <2> QED BY <2>1, <2>3, <2>4
  <1> HIDE DEF T
  <1>8. \A n \in 0..k : n \in T
    BY <1>1, <1>6, <1>7, Upward
  <1>9. k \in T
    BY <1>1, <1>8
  <1> QED BY <1>2, <1>9 DEF T

----------------------------------------------------------------------------
(* Where the sorted apps end. *)
LEMMA ReachedIs ==
    ASSUME NEW t, HarbForm(t)
    PROVE  LET x == H!Reached(t)
           IN  /\ \A n \in 0..Len(t.list) : x[n] \in Int
               /\ \A n \in 1..Len(t.list) :
                    x[n] = IF t.config.backwards /\ t.config.sort = "vertical"
                           THEN x[n - 1] - t.len[t.list[n]] ELSE x[n - 1] + t.len[t.list[n]]
  <1> DEFINE k == Len(t.list)
             a == IF t.config.backwards THEN H!HeadEnd ELSE HeadX
             turns == t.config.backwards /\ t.config.sort = "vertical"
             l(n) == t.len[t.list[n]]
             next == [i \in 1..k |-> [x \in Int |-> IF turns THEN x - l(i) ELSE x + l(i)]]
             r == CHOOSE r : r = [n \in 0..Len(t.list) |->
                      IF n = 0 THEN IF t.config.backwards THEN H!HeadEnd ELSE HeadX
                      ELSE IF t.config.backwards /\ t.config.sort = "vertical"
                           THEN r[n - 1] - t.len[t.list[n]] ELSE r[n - 1] + t.len[t.list[n]]]
  <1>1. k \in Nat /\ k = Len(t.list) /\ a \in Int
    BY ShellAssumption DEF HarbForm, H!HeadEnd
  <1>2. \A n \in 1..k : l(n) \in Nat
    BY DEF HarbForm
  <1>3. H!Reached(t) = r
    BY DEF H!Reached
  <1>4. \E g : g = [n \in 0..Len(t.list) |->
                      IF n = 0 THEN a ELSE IF turns THEN g[n - 1] - l(n) ELSE g[n - 1] + l(n)]
    <2> HIDE DEF k, a, turns, l
    <2>1. next \in [1..k -> [Int -> Int]]
      BY <1>2
    <2>2. \A i \in 1..k, x \in Int : next[i][x] = IF turns THEN x - l(i) ELSE x + l(i)
      OBVIOUS
    <2> HIDE DEF next
    <2>3. PICK g : IsStepwise(g, Int, a, next, k)
      BY <1>1, <2>1, Stepwise
    <2>4. \A n \in 0..k : n # 0 => n \in 1..k /\ g[n - 1] \in Int
      BY <1>1, <2>3 DEF IsStepwise
    <2>5. \A n \in 0..k : StepOf(g, a, next, n)
                          = IF n = 0 THEN a ELSE IF turns THEN g[n - 1] - l(n) ELSE g[n - 1] + l(n)
      BY <2>2, <2>4 DEF StepOf
    <2>6. g = [n \in 0..k |->
                 IF n = 0 THEN a ELSE IF turns THEN g[n - 1] - l(n) ELSE g[n - 1] + l(n)]
      BY <2>3, <2>5 DEF IsStepwise
    <2> QED BY <1>1, <2>6
  <1>5. r = [n \in 0..Len(t.list) |->
               IF n = 0 THEN a ELSE IF turns THEN r[n - 1] - l(n) ELSE r[n - 1] + l(n)]
    BY <1>4
  <1> HIDE DEF r, k, a, turns, l
  <1>6. r[0] = a /\ \A n \in 1..k : r[n] = IF turns THEN r[n - 1] - l(n) ELSE r[n - 1] + l(n)
    <2>1. \A n \in 0..k : r[n] = IF n = 0 THEN a
                                ELSE IF turns THEN r[n - 1] - l(n) ELSE r[n - 1] + l(n)
      BY <1>1, <1>5
    <2>2. 0 \in 0..k /\ \A n \in 1..k : n \in 0..k /\ n # 0
      BY <1>1
    <2> QED BY <2>1, <2>2
  <1> DEFINE T == {n \in 0..k : r[n] \in Int}
  <1>7. 0 \in T
    BY <1>1, <1>6
  <1>8. ASSUME NEW n \in 0..(k - 1), n \in T
        PROVE  n + 1 \in T
    <2>1. r[n] \in Int /\ n + 1 \in 1..k /\ (n + 1) - 1 = n
      BY <1>1, <1>8
    <2>2. r[n + 1] = (IF turns THEN r[n] - l(n + 1) ELSE r[n] + l(n + 1))
      BY <1>6, <2>1
    <2>3. r[n + 1] \in Int
      BY <1>2, <2>1, <2>2
    <2> QED BY <2>1, <2>3
  <1> HIDE DEF T
  <1>9. \A n \in 0..k : n \in T
    BY <1>1, <1>7, <1>8, Upward
  <1>10. \A n \in 0..k : r[n] \in Int
    BY <1>9 DEF T
  <1> QED BY <1>1, <1>3, <1>6, <1>10 DEF turns, l

(* Each ends farther than those before it. *)
LEMMA ReachedMovesOn ==
    ASSUME NEW t, HarbForm(t), t.config.sort # "no", GoesRight(t)
    PROVE  LET x == H!Reached(t)
           IN  \A j \in 0..Len(t.list) : \A i \in 0..j :
                 IF t.config.backwards THEN x[j] <= x[i] ELSE x[i] <= x[j]
  <1> DEFINE k == Len(t.list)
             x == H!Reached(t)
             l(n) == t.len[t.list[n]]
             T == {j \in 0..k : \A i \in 0..j :
                     IF t.config.backwards THEN x[j] <= x[i] ELSE x[i] <= x[j]}
  <1>1. k \in Nat /\ \A n \in 1..k : l(n) \in Nat
    BY DEF HarbForm
  <1>2. t.config.backwards \in BOOLEAN /\ (t.config.backwards => t.config.sort = "vertical")
    BY DEF HarbForm, H!Configs, GoesRight
  <1>3. /\ \A n \in 0..k : x[n] \in Int
        /\ \A n \in 1..k : x[n] = IF t.config.backwards THEN x[n - 1] - l(n) ELSE x[n - 1] + l(n)
    BY <1>2, ReachedIs
  <1> HIDE DEF k, x, l
  <1>4. 0 \in T
    BY <1>1, <1>3
  <1>5. ASSUME NEW j \in 0..(k - 1), j \in T
        PROVE  j + 1 \in T
    <2>1. j \in 0..k /\ j + 1 \in 1..k /\ (j + 1) - 1 = j /\ j + 1 \in 0..k
      BY <1>1
    <2>2. x[j + 1] = IF t.config.backwards THEN x[j] - l(j + 1) ELSE x[j] + l(j + 1)
      BY <1>3, <2>1
    <2>3. x[j] \in Int /\ l(j + 1) \in Nat /\ x[j + 1] \in Int
      BY <1>1, <1>3, <2>1
    <2>4. ASSUME NEW i \in 0..(j + 1)
          PROVE  IF t.config.backwards THEN x[j + 1] <= x[i] ELSE x[i] <= x[j + 1]
      <3>1. CASE i = j + 1
        BY <2>3, <3>1
      <3>2. CASE i # j + 1
        <4>1. i \in 0..j /\ i \in 0..k
          BY <1>1, <2>1, <3>2
        <4>2. x[i] \in Int
          BY <1>3, <4>1
        <4>3. IF t.config.backwards THEN x[j] <= x[i] ELSE x[i] <= x[j]
          BY <1>5, <4>1
        <4> QED BY <1>2, <2>2, <2>3, <4>2, <4>3
      <3> QED BY <3>1, <3>2
    <2> QED BY <2>1, <2>4
  <1> HIDE DEF T
  <1>6. \A j \in 0..k : j \in T
    BY <1>1, <1>4, <1>5, Upward
  <1> QED BY <1>6 DEF T, k, x

(* Sorted apps are lined up. *)
LEMMA SortedLined ==
    ASSUME NEW t, HarbForm(t), t.config.sort # "no"
    PROVE  LET u == H!PlaceDockAppsSorted(t)
           IN  HarbForm(u) /\ SameBut(t, u) /\ (GoesRight(t) => Lined(u))
  <1> DEFINE x == H!Reached(t)
             back == t.config.backwards
             Number(d) == CHOOSE n \in DOMAIN t.list : t.list[n] = d
             Start(d) == x[Number(d) - 1] - (IF back THEN t.len[d] ELSE 0)
             a == [d \in Apps |-> IF d \in H!ToSet(t.list) THEN Start(d) ELSE t.at[d]]
             e == {}
             u == [t EXCEPT !.at = a, !.loose = e]
  <1>1. H!PlaceDockAppsSorted(t) = u
    BY DEF H!PlaceDockAppsSorted
  <1>2. /\ DOMAIN t = HarbFields /\ t.list \in Seq(Apps) /\ IsInjective(t.list)
        /\ t.at \in [Apps -> Int] /\ t.len \in [Apps -> Nat \ {0}] /\ back \in BOOLEAN
        /\ DOMAIN t.list = 1..Len(t.list) /\ Len(t.list) \in Nat
        /\ H!ToSet(t.list) = ToSet(t.list)
    BY HarbourOperators DEF HarbForm, H!Configs
  <1>3. \A n \in 0..Len(t.list) : x[n] \in Int
    BY ReachedIs
  <1>4. ASSUME NEW i \in 1..Len(t.list)
        PROVE  /\ t.list[i] \in Apps
               /\ Number(t.list[i]) = i
               /\ a[t.list[i]] = x[i - 1] - (IF back THEN t.len[t.list[i]] ELSE 0)
               /\ a[t.list[i]] \in Int
    <2>1. t.list[i] \in Apps /\ t.list[i] \in ToSet(t.list) /\ t.list[i] \in H!ToSet(t.list)
      BY <1>2 DEF ToSet
    <2>2. \A n \in DOMAIN t.list : t.list[n] = t.list[i] => n = i
      BY <1>2 DEF IsInjective
    <2>3. Number(t.list[i]) = i
      BY <1>2, <2>2
    <2> HIDE DEF Number
    <2>4. a[t.list[i]] = x[i - 1] - (IF back THEN t.len[t.list[i]] ELSE 0)
      BY <2>1, <2>3
    <2>5. x[i - 1] \in Int /\ t.len[t.list[i]] \in Nat
      BY <1>2, <1>3, <2>1
    <2> HIDE DEF a, x, back
    <2> QED BY <1>2, <2>1, <2>3, <2>4, <2>5
  <1>5. a \in [Apps -> Int]
    <2>1. ASSUME NEW d \in Apps
          PROVE  a[d] \in Int
      <3>1. CASE d \in ToSet(t.list)
        <4>1. PICK i \in 1..Len(t.list) : t.list[i] = d
          BY <1>2, <3>1 DEF ToSet
        <4> QED BY <1>4, <4>1
      <3>2. CASE d \notin ToSet(t.list)
        BY <1>2, <3>2
      <3> QED BY <3>1, <3>2
    <2>2. a = [d \in Apps |-> a[d]]
      OBVIOUS
    <2> HIDE DEF a
    <2> QED BY <2>1, <2>2
  <1>6. e = {}
    OBVIOUS
  <1> HIDE DEF a, x, e
  <1>7. DOMAIN u = HarbFields /\ SameBut(t, u) /\ u.loose = e /\ u.at = a
    BY <1>2 DEF HarbFields, SameBut
  <1> HIDE DEF u
  <1>8. HarbForm(u)
    BY <1>2, <1>5, <1>6, <1>7 DEF HarbForm, SameBut
  <1>9. ASSUME GoesRight(t)
        PROVE  Lined(u)
    <2>1. SUFFICES ASSUME NEW i \in 1..Len(t.list), NEW j \in 1..Len(t.list), i < j
                   PROVE  IF back
                          THEN a[t.list[j]] + t.len[t.list[j]] <= a[t.list[i]]
                          ELSE a[t.list[i]] + t.len[t.list[i]] <= a[t.list[j]]
      BY <1>7 DEF Lined, SameBut
    <2>2. IF back THEN x[j - 1] <= x[i] ELSE x[i] <= x[j - 1]
      <3>1. Len(t.list) \in Nat
        BY <1>2
      <3>2. j - 1 \in 0..Len(t.list) /\ i \in 0..(j - 1)
        BY <2>1, <3>1
      <3> QED BY <1>9, <3>2, ReachedMovesOn DEF x
    <2>3. x[i] = IF back THEN x[i - 1] - t.len[t.list[i]] ELSE x[i - 1] + t.len[t.list[i]]
      <3>1. back => t.config.sort = "vertical"
        BY <1>9 DEF GoesRight, HarbForm, H!Configs
      <3> QED BY <3>1, ReachedIs DEF x
    <2>4. /\ a[t.list[i]] = x[i - 1] - (IF back THEN t.len[t.list[i]] ELSE 0)
          /\ a[t.list[j]] = x[j - 1] - (IF back THEN t.len[t.list[j]] ELSE 0)
      BY <1>4
    <2>5. /\ x[i] \in Int /\ x[i - 1] \in Int /\ x[j - 1] \in Int
          /\ t.len[t.list[i]] \in Nat /\ t.len[t.list[j]] \in Nat
      <3>1. i \in 0..Len(t.list) /\ i - 1 \in 0..Len(t.list) /\ j - 1 \in 0..Len(t.list)
        BY <1>2
      <3> QED BY <1>2, <1>3, <1>4, <3>1
    <2> HIDE DEF back
    <2>6. CASE back
      BY <2>2, <2>3, <2>4, <2>5, <2>6
    <2>7. CASE ~ back
      BY <2>2, <2>3, <2>4, <2>5, <2>7
    <2> QED BY <2>6, <2>7
  <1> QED BY <1>1, <1>7, <1>8, <1>9

(* The order of the positions, and what Before has of it. *)
LEMMA OrderOfPositions ==
    /\ \A d, e, f \in Apps : NotAfter(d, e) /\ NotAfter(e, f) => NotAfter(d, f)
    /\ \A d, e \in Apps : /\ H!Before(d, e) => NotAfter(d, e)
                          /\ ~ H!Before(d, e) => NotAfter(e, d)
                          /\ NotAfter(d, e) => ~ H!Before(e, d) \/ H!Before(d, e)
  <1>1. \A d \in Apps : Position[d] \in Int /\ Class(d) \in 1..3 /\ H!Rank(d)[1] = Class(d)
    BY ShellAssumption DEF Class, H!Rank
  <1>2. \A d, e \in Apps :
          H!Before(d, e) <=>
            IF Class(d) = 1 THEN Class(e) > 1 \/ Position[d] <= Position[e]
            ELSE Class(e) > Class(d) \/ (Class(d) = 3 /\ Class(e) = 3 /\ Position[d] < Position[e])
    <2> TAKE d, e \in Apps
    <2>1. /\ Position[d] \in Int /\ H!Rank(d)[1] = Class(d) /\ H!Rank(e)[1] = Class(e)
          /\ (Position[d] > 0 <=> Class(d) = 1) /\ (Position[d] < 0 <=> Class(d) = 3)
      BY <1>1 DEF Class
    <2> QED BY <2>1 DEF H!Before
  <1>3. \A d \in Apps : /\ (Position[d] > 0 <=> Class(d) = 1) /\ (Position[d] = 0 <=> Class(d) = 2)
                        /\ (Position[d] < 0 <=> Class(d) = 3)
    BY <1>1 DEF Class
  <1>4. ASSUME NEW d \in Apps, NEW e \in Apps
        PROVE  /\ H!Before(d, e) => NotAfter(d, e)
               /\ ~ H!Before(d, e) => NotAfter(e, d)
               /\ NotAfter(d, e) => ~ H!Before(e, d) \/ H!Before(d, e)
    BY <1>1, <1>2, <1>3 DEF NotAfter
  <1>5. ASSUME NEW d \in Apps, NEW e \in Apps, NEW f \in Apps, NotAfter(d, e), NotAfter(e, f)
        PROVE  NotAfter(d, f)
    BY <1>1, <1>5 DEF NotAfter
  <1> QED BY <1>4, <1>5

(* insertDockAppSorted() keeps the order. *)
LEMMA InsertedRanked ==
    ASSUME NEW q \in Seq(Apps), IsInjective(q), NEW d \in Apps, d \notin ToSet(q)
    PROVE  LET r == H!InsertSorted(q, d)
           IN  /\ r \in Seq(Apps) /\ IsInjective(r) /\ ToSet(r) = ToSet(q) \cup {d}
               /\ Ranked(q) => Ranked(r)
  <1> DEFINE k == {i \in DOMAIN q : H!Before(d, q[i])}
             r == H!InsertSorted(q, d)
  <1>1. DOMAIN q = 1..Len(q) /\ Len(q) \in Nat /\ \A i \in 1..Len(q) : q[i] \in Apps
    OBVIOUS
  <1>2. CASE k = {}
    <2>1. r = Append(q, d)
      BY <1>2 DEF H!InsertSorted
    <2>2. r \in Seq(Apps) /\ IsInjective(r) /\ ToSet(r) = ToSet(q) \cup {d}
      BY <2>1, AppendOne
    <2>3. \A i \in 1..Len(q) : NotAfter(q[i], d)
      BY <1>1, <1>2, OrderOfPositions
    <2>4. Len(r) = Len(q) + 1 /\ r[Len(q) + 1] = d /\ \A i \in 1..Len(q) : r[i] = q[i]
      BY <2>1, AppendProperties
    <2> HIDE DEF r
    <2>5. Ranked(q) => Ranked(r)
      <3> SUFFICES ASSUME Ranked(q), NEW i \in 1..Len(r), NEW j \in 1..Len(r), i < j
                   PROVE  NotAfter(r[i], r[j])
        BY DEF Ranked
      <3>1. CASE j = Len(q) + 1
        BY <1>1, <2>3, <2>4, <3>1
      <3>2. CASE j # Len(q) + 1
        BY <1>1, <2>4, <3>2 DEF Ranked
      <3> QED BY <3>1, <3>2
    <2> QED BY <2>2, <2>5 DEF r
  <1>3. CASE k # {}
    <2> DEFINE m == CHOOSE i \in k : \A j \in k : i <= j
    <2>1. r = InsertAt(q, m, d)
      BY <1>3, HarbourOperators DEF H!InsertSorted
    <2>2. m \in k /\ \A j \in k : m <= j
      <3>1. k \subseteq Nat
        BY <1>1
      <3>2. \E i \in k : \A j \in k : i <= j
        BY <1>3, <3>1, Least
      <3> QED BY <3>2
    <2> HIDE DEF m
    <2>3. m \in 1..Len(q) /\ H!Before(d, q[m]) /\ \A i \in 1..(m - 1) : ~ H!Before(d, q[i])
      BY <1>1, <2>2
    <2>4. NotAfter(d, q[m]) /\ \A i \in 1..(m - 1) : NotAfter(q[i], d)
      BY <1>1, <2>3, OrderOfPositions
    <2>5. m \in 1..(Len(q) + 1)
      BY <1>1, <2>3
    <2> HIDE DEF r
    <2>6. r \in Seq(Apps) /\ IsInjective(r) /\ ToSet(r) = ToSet(q) \cup {d} /\ Len(r) = Len(q) + 1
      BY <2>1, <2>5, InsertOne
    <2>7. \A j \in 1..(Len(q) + 1) : r[j] = IF j < m THEN q[j] ELSE IF j = m THEN d ELSE q[j - 1]
      <3>1. \A j \in 1..(Len(q) + 1) :
              InsertAt(q, m, d)[j] = IF j < m THEN q[j] ELSE IF j = m THEN d ELSE q[j - 1]
        BY <2>5, InsertAtElements
      <3> QED BY <2>1, <3>1
    <2> HIDE DEF k
    <2>8. Ranked(q) => Ranked(r)
      <3> SUFFICES ASSUME Ranked(q), NEW i \in 1..Len(r), NEW j \in 1..Len(r), i < j
                   PROVE  NotAfter(r[i], r[j])
        BY DEF Ranked
      <3>1. \A n \in m..Len(q) : NotAfter(d, q[n])
        <4> TAKE n \in m..Len(q)
        <4>1. n = m \/ NotAfter(q[m], q[n])
          BY <1>1, <2>3 DEF Ranked
        <4>2. q[m] \in Apps /\ q[n] \in Apps
          BY <1>1, <2>3
        <4> QED BY <2>4, <4>1, <4>2, OrderOfPositions
      <3>2. \A n, p \in 1..Len(q) : n < p => NotAfter(q[n], q[p])
        BY DEF Ranked
      <3>3. CASE i < m /\ j < m
        BY <1>1, <2>3, <2>6, <2>7, <3>2, <3>3
      <3>4. CASE i < m /\ j = m
        BY <1>1, <2>3, <2>4, <2>6, <2>7, <3>4
      <3>5. CASE i < m /\ j > m
        BY <1>1, <2>3, <2>6, <2>7, <3>2, <3>5
      <3>6. CASE i = m
        BY <1>1, <2>3, <2>6, <2>7, <3>1, <3>6
      <3>7. CASE i > m
        BY <1>1, <2>3, <2>6, <2>7, <3>2, <3>7
      <3> QED BY <1>1, <2>3, <3>3, <3>4, <3>5, <3>6, <3>7
    <2> QED BY <2>6, <2>8 DEF r
  <1> QED BY <1>2, <1>3

(* Without an app the others are in the same order. *)
LEMMA SievedRanked ==
    ASSUME NEW q \in Seq(Apps), IsInjective(q), Ranked(q), NEW d
    PROVE  Ranked(Sieve(q, Apps \ {d}))
  <1> DEFINE r == Sieve(q, Apps \ {d})
  <1>1. /\ r \in Seq(Apps) /\ IsInjective(r) /\ ToSet(r) = ToSet(q) \cap (Apps \ {d})
        /\ DOMAIN q = 1..Len(q) /\ DOMAIN r = 1..Len(r)
    BY SieveElements
  <1> SUFFICES ASSUME NEW i \in 1..Len(r), NEW j \in 1..Len(r), i < j
               PROVE  NotAfter(r[i], r[j])
    BY DEF Ranked
  <1>2. r[i] \in ToSet(r) /\ r[j] \in ToSet(r) /\ r[i] # r[j]
    <2>1. DOMAIN r = 1..Len(r)
      BY <1>1
    <2> HIDE DEF r
    <2> QED BY <1>1, <2>1 DEF ToSet, IsInjective
  <1>3. PICK n \in 1..Len(q), p \in 1..Len(q) : q[n] = r[i] /\ q[p] = r[j]
    BY <1>1, <1>2 DEF ToSet
  <1>4. n < p
    <2>1. n # p
      BY <1>2, <1>3
    <2>2. ~ (p < n)
      <3> SUFFICES ASSUME p < n PROVE FALSE
        OBVIOUS
      <3>1. Before(q, r[j], r[i])
        BY <1>3 DEF Before
      <3>2. r[i] \in Apps \ {d} /\ r[j] \in Apps \ {d}
        BY <1>1, <1>2
      <3>3. Before(r, r[j], r[i])
        BY <3>1, <3>2, SieveOrder
      <3> HIDE DEF r
      <3>4. PICK b \in 1..Len(r), c \in 1..Len(r) : b < c /\ r[b] = r[j] /\ r[c] = r[i]
        BY <3>3 DEF Before
      <3>5. b = j /\ c = i
        BY <1>1, <3>4 DEF IsInjective
      <3> QED BY <1>1, <3>4, <3>5
    <2> QED BY <2>1, <2>2
  <1> QED BY <1>3, <1>4 DEF Ranked

----------------------------------------------------------------------------
(* The operations of the harbour.                                          *)
HarbGood(t) == HarbForm(t) /\ Arranged(t) /\ MappedOf(t)

(* updateHarbourSize() notes the strut and changes nothing else. *)
LEMMA UpdatedHarbour ==
    ASSUME NEW t, HarbGood(t), s' = H!UpdateHarbourSize(t)
    PROVE  HarbInv'
  <1> DEFINE m == Strut(t)
             f == FALSE
             u == [t EXCEPT !.size = m, !.stale = f]
  <1>1. s' = u
    BY HarbourOperators DEF H!UpdateHarbourSize, Strut
  <1>2. DOMAIN t = HarbFields
    BY DEF HarbGood, HarbForm
  <1>3. f = FALSE /\ m = Strut(t)
    OBVIOUS
  <1> HIDE DEF m, f
  <1>4. /\ DOMAIN u = HarbFields /\ u.config = t.config /\ u.list = t.list /\ u.at = t.at
        /\ u.len = t.len /\ u.mapped = t.mapped /\ u.hidden = t.hidden /\ u.loose = t.loose
        /\ u.late = t.late /\ u.size = m
    BY <1>2 DEF HarbFields
  <1> HIDE DEF u
  <1>5. HarbForm(u)
    BY <1>4 DEF HarbGood, HarbForm
  <1>6. Arranged(u)
    BY <1>4 DEF HarbGood, Arranged, Free, ApartIn, H!Overlap, H!End, GoesRight, Lined
  <1>7. StrutNoted(u)
    <2>1. Strut(u) = Strut(t)
      BY <1>4 DEF Strut
    <2> QED BY <1>3, <1>4, <2>1 DEF StrutNoted
  <1>8. MappedOf(u)
    BY <1>4 DEF HarbGood, MappedOf
  <1> QED BY <1>1, <1>5, <1>6, <1>7, <1>8 DEF HarbInv

(* What sorting leaves is good. *)
LEMMA SortedGood ==
    ASSUME NEW t, HarbForm(t), t.config.sort # "no", Ranked(t.list), MappedOf(t)
    PROVE  HarbGood(H!PlaceDockAppsSorted(t))
  <1> DEFINE u == H!PlaceDockAppsSorted(t)
  <1>1. HarbForm(u) /\ SameBut(t, u) /\ (GoesRight(t) => Lined(u))
    BY SortedLined
  <1> HIDE DEF u
  <1>2. Arranged(u)
    BY <1>1 DEF Arranged, SameBut, GoesRight
  <1>3. MappedOf(u)
    BY <1>1 DEF MappedOf, SameBut
  <1> QED BY <1>1, <1>2, <1>3 DEF HarbGood, u

(* And what placing where there is room leaves. *)
LEMMA PlacedGood ==
    ASSUME NEW t, HarbForm(t), t.config.sort = "no", NEW u, HarbForm(u), SameBut(t, u), Free(u),
           MappedOf(t)
    PROVE  HarbGood(u)
  BY DEF HarbGood, SameBut, Arranged, MappedOf

LEMMA AddHarbour ==
    ASSUME HarbInv, NEW d \in Apps, H!AddDockApp(d)
    PROVE  HarbInv'
  <1>1. /\ HarbForm(s) /\ Arranged(s) /\ MappedOf(s)
        /\ DOMAIN s = HarbFields /\ s.list \in Seq(Apps) /\ IsInjective(s.list)
        /\ s.at \in [Apps -> Int] /\ s.len \in [Apps -> Nat \ {0}] /\ s.hidden \in BOOLEAN
    BY DEF HarbInv, HarbForm, MappedOf
  <1>2. d \notin ToSet(s.list)
    BY HarbourOperators DEF H!AddDockApp
  <1> DEFINE N(len) == [s EXCEPT !.len[d] = len, !.mapped = @ \cup {d},
                                 !.late = IF s.hidden THEN @ \cup {d} ELSE @]
  <1>3. PICK len \in Sizes :
          s' = H!UpdateHarbourSize(
                 IF N(len).config.sort # "no"
                 THEN H!PlaceDockAppsSorted([N(len) EXCEPT !.list = H!InsertSorted(@, d)])
                 ELSE H!PlaceDockApp([N(len) EXCEPT !.list = Append(@, d)], d))
    BY DEF H!AddDockApp
  <1> DEFINE l == [s.len EXCEPT ![d] = len]
             m == s.mapped \cup {d}
             a == IF s.hidden THEN s.late \cup {d} ELSE s.late
             t == [s EXCEPT !.len = l, !.mapped = m, !.late = a]
  <1>4. N(len) = t
    BY <1>1 DEF HarbFields
  <1>5. l \in [Apps -> Nat \ {0}] /\ \A e \in Apps : e # d => l[e] = s.len[e]
    BY <1>1, ShellAssumption
  <1>6. m = (IF s.hidden THEN a ELSE ToSet(s.list) \cup {d})
    BY <1>1 DEF MappedOf
  <1> HIDE DEF l, m, a, N
  <1>7. /\ DOMAIN t = HarbFields /\ t.len = l /\ t.mapped = m /\ t.late = a
        /\ t.config = s.config /\ t.list = s.list /\ t.at = s.at /\ t.hidden = s.hidden
        /\ t.loose = s.loose
    BY <1>1 DEF HarbFields
  <1> HIDE DEF t
  <1>8. ASSUME NEW q \in Seq(Apps), IsInjective(q), ToSet(q) = ToSet(s.list) \cup {d}
        PROVE  LET u == [t EXCEPT !.list = q]
               IN  /\ HarbForm(u) /\ MappedOf(u) /\ u.list = q /\ u.config = s.config
                   /\ u.at = s.at /\ u.len = l /\ u.loose = s.loose
    <2> DEFINE u == [t EXCEPT !.list = q]
    <2>1. /\ DOMAIN u = HarbFields /\ u.len = l /\ u.mapped = m /\ u.late = a
          /\ u.config = s.config /\ u.list = q /\ u.at = s.at /\ u.hidden = s.hidden
          /\ u.loose = s.loose
      BY <1>7 DEF HarbFields
    <2> HIDE DEF u
    <2>2. HarbForm(u)
      BY <1>1, <1>5, <1>8, <2>1 DEF HarbForm
    <2>3. MappedOf(u)
      BY <1>1, <1>6, <1>8, <2>1 DEF MappedOf
    <2> QED BY <2>1, <2>2, <2>3 DEF u
  <1>9. CASE s.config.sort # "no"
    <2> DEFINE q == H!InsertSorted(s.list, d)
               u == [t EXCEPT !.list = q]
    <2>1. s' = H!UpdateHarbourSize(H!PlaceDockAppsSorted(u))
      BY <1>3, <1>4, <1>7, <1>9
    <2>2. q \in Seq(Apps) /\ IsInjective(q) /\ ToSet(q) = ToSet(s.list) \cup {d} /\ Ranked(q)
      <3>1. Ranked(s.list)
        BY <1>1, <1>9 DEF Arranged
      <3> QED BY <1>1, <1>2, <3>1, InsertedRanked
    <2> HIDE DEF q
    <2>3. HarbForm(u) /\ MappedOf(u) /\ u.list = q /\ u.config = s.config
      BY <1>8, <2>2
    <2> HIDE DEF u
    <2>4. HarbGood(H!PlaceDockAppsSorted(u))
      BY <1>9, <2>2, <2>3, SortedGood
    <2> QED BY <2>1, <2>4, UpdatedHarbour
  <1>10. CASE s.config.sort = "no"
    <2> DEFINE q == Append(s.list, d)
               u == [t EXCEPT !.list = q]
    <2>1. s' = H!UpdateHarbourSize(H!PlaceDockApp(u, d))
      BY <1>3, <1>4, <1>7, <1>10
    <2>2. q \in Seq(Apps) /\ IsInjective(q) /\ ToSet(q) = ToSet(s.list) \cup {d}
      BY <1>1, <1>2, AppendOne
    <2> HIDE DEF q
    <2>3. /\ HarbForm(u) /\ MappedOf(u) /\ u.list = q /\ u.config = s.config
          /\ u.at = s.at /\ u.len = l /\ u.loose = s.loose
      BY <1>8, <2>2
    <2> HIDE DEF u
    <2>4. FreeBut(u, d)
      <3> SUFFICES ASSUME NEW e \in ToSet(u.list) \ (u.loose \cup {d}),
                          NEW f \in ToSet(u.list) \ (u.loose \cup {d}), e # f
                   PROVE  ApartIn(u, e, f)
        BY DEF FreeBut
      <3>1. ApartIn(s, e, f)
        BY <1>1, <1>10, <2>2, <2>3 DEF Arranged, Free
      <3>2. e \in Apps /\ f \in Apps
        BY <1>1, <2>2, <2>3, ToSetOfSeq
      <3>3. u.len[e] = s.len[e] /\ u.len[f] = s.len[f] /\ u.at = s.at
        BY <1>5, <2>3, <3>2
      <3> QED BY <3>1, <3>3 DEF ApartIn, H!Overlap, H!End
    <2>5. LET p == H!PlaceDockApp(u, d) IN HarbForm(p) /\ SameBut(u, p) /\ Free(p)
      BY <2>3, <2>4, PlacedFree
    <2>6. HarbGood(H!PlaceDockApp(u, d))
      BY <1>10, <2>3, <2>5, PlacedGood
    <2> QED BY <2>1, <2>6, UpdatedHarbour
  <1> QED BY <1>9, <1>10

LEMMA RemoveHarbour ==
    ASSUME HarbInv, NEW d \in Apps, H!RemoveDockApp(d)
    PROVE  HarbInv'
  <1>1. /\ HarbForm(s) /\ Arranged(s) /\ MappedOf(s)
        /\ DOMAIN s = HarbFields /\ s.list \in Seq(Apps) /\ IsInjective(s.list)
        /\ s.at \in [Apps -> Int] /\ s.len \in [Apps -> Nat \ {0}] /\ s.hidden \in BOOLEAN
    BY DEF HarbInv, HarbForm, MappedOf
  <1> DEFINE q == Sieve(s.list, Apps \ {d})
             x == [s.at EXCEPT ![d] = HeadX]
             l == [s.len EXCEPT ![d] = 1]
             m == s.mapped \ {d}
             o == s.loose \ {d}
             a == s.late \ {d}
             t1 == [s EXCEPT !.list = q, !.at = x, !.len = l]
             t == [t1 EXCEPT !.mapped = m, !.loose = o, !.late = a]
  <1>2. s' = H!UpdateHarbourSize(IF t.config.sort # "no" /\ t.list # <<>>
                                 THEN H!PlaceDockAppsSorted(t) ELSE t)
    <2> DEFINE p == H!Sieve(s.list, Apps \ {d})
               w == [s EXCEPT !.list = p, !.at[d] = HeadX, !.len[d] = 1,
                              !.mapped = @ \ {d}, !.loose = @ \ {d}, !.late = @ \ {d}]
    <2>1. s' = H!UpdateHarbourSize(IF w.config.sort # "no" /\ w.list # <<>>
                                   THEN H!PlaceDockAppsSorted(w) ELSE w)
      BY DEF H!RemoveDockApp
    <2>2. p = q
      BY HarbourOperators
    <2>3. w = t
      <3> HIDE DEF p, q
      <3> QED BY <1>1, <2>2 DEF HarbFields
    <2> HIDE DEF w, t
    <2> QED BY <2>1, <2>3
  <1>3. q \in Seq(Apps) /\ IsInjective(q) /\ ToSet(q) = ToSet(s.list) \cap (Apps \ {d})
    BY <1>1, SieveElements
  <1>4. /\ x \in [Apps -> Int] /\ l \in [Apps -> Nat \ {0}]
        /\ \A e \in Apps : e # d => x[e] = s.at[e] /\ l[e] = s.len[e]
    BY <1>1, ShellAssumption
  <1>5. ToSet(s.list) \subseteq Apps
    BY <1>1, ToSetOfSeq
  <1>6. o \subseteq Apps /\ m = (IF s.hidden THEN a ELSE ToSet(q)) /\ o = s.loose \ {d}
    BY <1>1, <1>3, <1>5 DEF MappedOf, HarbForm
  <1>7. q = <<>> \/ q # <<>>
    OBVIOUS
  <1>8. s.config.sort # "no" => Ranked(q)
    BY <1>1, SievedRanked DEF Arranged
  <1> HIDE DEF q, x, l, m, o, a
  <1>9. /\ DOMAIN t1 = HarbFields /\ t1.list = q /\ t1.at = x /\ t1.len = l
        /\ t1.config = s.config /\ t1.hidden = s.hidden
    BY <1>1 DEF HarbFields
  <1> HIDE DEF t1
  <1>10. /\ DOMAIN t = HarbFields /\ t.list = q /\ t.at = x /\ t.len = l
         /\ t.config = s.config /\ t.hidden = s.hidden
         /\ t.mapped = m /\ t.loose = o /\ t.late = a
    BY <1>9 DEF HarbFields
  <1> HIDE DEF t
  <1>11. HarbForm(t) /\ MappedOf(t)
    BY <1>1, <1>3, <1>4, <1>6, <1>10 DEF HarbForm, MappedOf
  <1>12. CASE s.config.sort # "no" /\ q # <<>>
    <2>1. HarbGood(H!PlaceDockAppsSorted(t))
      BY <1>8, <1>10, <1>11, <1>12, SortedGood
    <2> QED BY <1>2, <1>10, <1>12, <2>1, UpdatedHarbour
  <1>13. CASE s.config.sort # "no" /\ q = <<>>
    <2>1. Len(q) = 0
      BY <1>13
    <2>2. Arranged(t)
      BY <1>8, <1>10, <1>13, <2>1 DEF Arranged, Lined
    <2>3. HarbGood(t)
      BY <1>11, <2>2 DEF HarbGood
    <2> QED BY <1>2, <1>10, <1>13, <2>3, UpdatedHarbour
  <1>14. CASE s.config.sort = "no"
    <2>1. Free(t)
      <3> SUFFICES ASSUME NEW e \in ToSet(t.list) \ t.loose, NEW f \in ToSet(t.list) \ t.loose,
                          e # f
                   PROVE  ApartIn(t, e, f)
        BY DEF Free
      <3>1. e \in ToSet(s.list) \ s.loose /\ f \in ToSet(s.list) \ s.loose /\ e # d /\ f # d
            /\ e \in Apps /\ f \in Apps
        BY <1>3, <1>6, <1>10
      <3>2. ApartIn(s, e, f)
        BY <1>1, <1>14, <3>1 DEF Arranged, Free
      <3>3. t.at[e] = s.at[e] /\ t.at[f] = s.at[f] /\ t.len[e] = s.len[e] /\ t.len[f] = s.len[f]
        BY <1>4, <1>10, <3>1
      <3> QED BY <3>2, <3>3 DEF ApartIn, H!Overlap, H!End
    <2>2. HarbGood(t)
      BY <1>10, <1>11, <1>14, <2>1 DEF HarbGood, Arranged
    <2> QED BY <1>2, <1>10, <1>14, <2>2, UpdatedHarbour
  <1> QED BY <1>12, <1>13, <1>14

LEMMA ReloadHarbour ==
    ASSUME HarbInv, H!Reload
    PROVE  HarbInv'
  <1>1. HarbForm(s) /\ Arranged(s) /\ MappedOf(s)
    BY DEF HarbInv
  <1>2. CASE s.config.sort = "no"
    <2>1. Free(s)
      BY <1>1, <1>2 DEF Arranged
    <2>2. LET u == H!PlaceDockApps(s) IN HarbForm(u) /\ SameBut(s, u) /\ Free(u)
      BY <1>1, <2>1, AllPlacedFree
    <2>3. HarbGood(H!PlaceDockApps(s))
      BY <1>1, <1>2, <2>2, PlacedGood
    <2> QED BY <1>2, <2>3, UpdatedHarbour DEF H!Reload
  <1>3. CASE s.config.sort # "no" /\ s.list # <<>>
    <2>1. HarbGood(H!PlaceDockAppsSorted(s))
      BY <1>1, <1>3, SortedGood DEF Arranged
    <2> QED BY <1>3, <2>1, UpdatedHarbour DEF H!Reload
  <1>4. CASE s.config.sort # "no" /\ s.list = <<>>
    <2>1. HarbGood(s)
      BY <1>1 DEF HarbGood
    <2> QED BY <1>4, <2>1, UpdatedHarbour DEF H!Reload
  <1> QED BY <1>2, <1>3, <1>4

(* An app that is dragged or resized is loose, and the others stay. *)
LEMMA LoosedHarbour ==
    ASSUME HarbInv, NEW d \in Apps, NEW t, DOMAIN t = HarbFields,
           t.config = s.config, t.list = s.list, t.mapped = s.mapped, t.hidden = s.hidden,
           t.late = s.late, t.loose = s.loose \cup {d},
           t.at \in [Apps -> Int], t.len \in [Apps -> Nat \ {0}],
           \A e \in Apps : e # d => t.at[e] = s.at[e] /\ t.len[e] = s.len[e]
    PROVE  HarbForm(t) /\ Arranged(t) /\ MappedOf(t)
  <1>1. HarbForm(t) /\ MappedOf(t)
    BY DEF HarbInv, HarbForm, MappedOf
  <1>2. CASE s.config.sort # "no"
    BY <1>1, <1>2 DEF HarbInv, Arranged
  <1>3. CASE s.config.sort = "no"
    <2> SUFFICES ASSUME NEW e \in ToSet(t.list) \ t.loose, NEW f \in ToSet(t.list) \ t.loose,
                        e # f
                 PROVE  ApartIn(t, e, f)
      BY <1>1, <1>3 DEF Arranged, Free
    <2>1. e \in ToSet(s.list) \ s.loose /\ f \in ToSet(s.list) \ s.loose /\ e # d /\ f # d
      OBVIOUS
    <2>2. ToSet(s.list) \subseteq Apps
      BY ToSetOfSeq DEF HarbInv, HarbForm
    <2>3. ApartIn(s, e, f)
      BY <1>3, <2>1 DEF HarbInv, Arranged, Free
    <2>4. t.at[e] = s.at[e] /\ t.at[f] = s.at[f] /\ t.len[e] = s.len[e] /\ t.len[f] = s.len[f]
      BY <2>1, <2>2
    <2> QED BY <2>3, <2>4 DEF ApartIn, H!Overlap, H!End
  <1> QED BY <1>1, <1>2, <1>3

LEMMA DragHarbour ==
    ASSUME HarbInv, NEW d \in Apps, H!Drag(d)
    PROVE  HarbInv'
  <1>1. /\ DOMAIN s = HarbFields /\ s.at \in [Apps -> Int] /\ s.len \in [Apps -> Nat \ {0}]
    BY DEF HarbInv, HarbForm
  <1>2. PICK x \in HeadX..(H!HeadEnd - s.len[d]) :
          s' = [s EXCEPT !.at[d] = x, !.loose = @ \cup {d}]
    BY DEF H!Drag
  <1> DEFINE a == [s.at EXCEPT ![d] = x]
             o == s.loose \cup {d}
             t == [s EXCEPT !.at = a, !.loose = o]
  <1>3. s' = t
    BY <1>1, <1>2 DEF HarbFields
  <1>4. a \in [Apps -> Int] /\ (\A e \in Apps : e # d => a[e] = s.at[e]) /\ o = s.loose \cup {d}
    BY <1>1, ShellAssumption
  <1> HIDE DEF a, o
  <1>5. /\ DOMAIN t = HarbFields /\ t.config = s.config /\ t.list = s.list /\ t.len = s.len
        /\ t.mapped = s.mapped /\ t.hidden = s.hidden /\ t.size = s.size /\ t.stale = s.stale
        /\ t.late = s.late /\ t.at = a /\ t.loose = o
    BY <1>1 DEF HarbFields
  <1> HIDE DEF t
  <1>6. HarbForm(t) /\ Arranged(t) /\ MappedOf(t)
    BY <1>1, <1>4, <1>5, LoosedHarbour
  <1>7. StrutNoted(t)
    BY <1>5 DEF HarbInv, StrutNoted, Strut
  <1> QED BY <1>3, <1>6, <1>7 DEF HarbInv

LEMMA ResizeHarbour ==
    ASSUME HarbInv, NEW d \in Apps, H!Resize(d)
    PROVE  HarbInv'
  <1>1. /\ DOMAIN s = HarbFields /\ s.at \in [Apps -> Int] /\ s.len \in [Apps -> Nat \ {0}]
    BY DEF HarbInv, HarbForm
  <1>2. PICK len \in Sizes :
          s' = [s EXCEPT !.len[d] = len, !.at[d] = H!Inside(@, len),
                         !.loose = @ \cup {d}, !.stale = TRUE]
    BY DEF H!Resize
  <1> DEFINE p == H!Inside(s.at[d], len)
             a == [s.at EXCEPT ![d] = p]
             l == [s.len EXCEPT ![d] = len]
             o == s.loose \cup {d}
             b == TRUE
             t == [s EXCEPT !.len = l, !.at = a, !.loose = o, !.stale = b]
  <1>3. s' = t
    <2> HIDE DEF b
    <2>1. b = TRUE
      BY DEF b
    <2>2. s' = [s EXCEPT !.len[d] = len, !.at[d] = H!Inside(@, len), !.loose = @ \cup {d}, !.stale = b]
      BY <1>2, <2>1
    <2> QED BY <1>1, <2>2 DEF HarbFields
  <1>4. p \in Int
    BY <1>1, ShellAssumption DEF H!Inside, H!HeadEnd
  <1> HIDE DEF p
  <1>5. /\ a \in [Apps -> Int] /\ l \in [Apps -> Nat \ {0}] /\ o = s.loose \cup {d}
        /\ \A e \in Apps : e # d => a[e] = s.at[e] /\ l[e] = s.len[e]
        /\ b = TRUE
    BY <1>1, <1>4, ShellAssumption
  <1> HIDE DEF a, l, o, b
  <1>6. /\ DOMAIN t = HarbFields /\ t.config = s.config /\ t.list = s.list /\ t.len = l
        /\ t.mapped = s.mapped /\ t.hidden = s.hidden /\ t.stale = b
        /\ t.late = s.late /\ t.at = a /\ t.loose = o
    BY <1>1 DEF HarbFields
  <1> HIDE DEF t
  <1>7. HarbForm(t) /\ Arranged(t) /\ MappedOf(t)
    BY <1>1, <1>5, <1>6, LoosedHarbour
  <1>8. StrutNoted(t)
    BY <1>5, <1>6 DEF StrutNoted
  <1> QED BY <1>3, <1>7, <1>8 DEF HarbInv

LEMMA HideHarbour ==
    ASSUME HarbInv, H!SetStateHidden
    PROVE  HarbInv'
  <1>1. DOMAIN s = HarbFields /\ s.hidden \in BOOLEAN
    BY DEF HarbInv, HarbForm, MappedOf
  <1> DEFINE h == ~ s.hidden
             a == {}
             m == IF s.hidden THEN ToSet(s.list) ELSE {}
             t == [s EXCEPT !.hidden = h, !.late = a, !.mapped = m]
  <1>2. s' = t
    BY HarbourOperators DEF H!SetStateHidden
  <1>3. h \in BOOLEAN /\ m = (IF h THEN a ELSE ToSet(s.list))
    BY <1>1
  <1> HIDE DEF h, a, m
  <1>4. /\ DOMAIN t = HarbFields /\ t.config = s.config /\ t.list = s.list /\ t.len = s.len
        /\ t.at = s.at /\ t.loose = s.loose /\ t.size = s.size /\ t.stale = s.stale
        /\ t.hidden = h /\ t.late = a /\ t.mapped = m
    BY <1>1 DEF HarbFields
  <1> HIDE DEF t
  <1>5. HarbForm(t)
    BY <1>4 DEF HarbInv, HarbForm
  <1>6. Arranged(t)
    BY <1>4 DEF HarbInv, Arranged, Free, ApartIn, H!Overlap, H!End, GoesRight, Lined
  <1>7. StrutNoted(t) /\ MappedOf(t)
    BY <1>3, <1>4 DEF HarbInv, StrutNoted, Strut, MappedOf
  <1> QED BY <1>2, <1>5, <1>6, <1>7 DEF HarbInv

(* At the start the harbour is empty, *)
LEMMA HarbourInit == H!Init => HarbInv
  <1> SUFFICES ASSUME H!Init PROVE HarbInv
    OBVIOUS
  <1>1. PICK c \in H!Configs :
          s = [ config |-> c, list |-> <<>>, at |-> [d \in Apps |-> HeadX],
                len |-> [d \in Apps |-> 1], mapped |-> {}, hidden |-> FALSE, size |-> 0,
                loose |-> {}, stale |-> FALSE, late |-> {} ]
    BY DEF H!Init
  <1> DEFINE q == <<>>
             x == [d \in Apps |-> HeadX]
             l == [d \in Apps |-> 1]
             n == {}
             f == FALSE
             z == 0
             t == [ config |-> c, list |-> q, at |-> x, len |-> l, mapped |-> n, hidden |-> f,
                    size |-> z, loose |-> n, stale |-> f, late |-> n ]
  <1>2. s = t
    BY <1>1
  <1>3. /\ q \in Seq(Apps) /\ IsInjective(q) /\ Len(q) = 0 /\ ToSet(q) = {}
        /\ x \in [Apps -> Int] /\ l \in [Apps -> Nat \ {0}] /\ n = {} /\ f = FALSE /\ z = 0
    BY ShellAssumption DEF IsInjective, ToSet
  <1> HIDE DEF q, x, l, n, f, z
  <1>4. /\ DOMAIN t = HarbFields /\ t.config = c /\ t.list = q /\ t.at = x /\ t.len = l
        /\ t.mapped = n /\ t.hidden = f /\ t.size = z /\ t.loose = n /\ t.stale = f /\ t.late = n
    BY DEF HarbFields
  <1> HIDE DEF t
  <1>5. HarbForm(t)
    BY <1>3, <1>4 DEF HarbForm
  <1>6. Arranged(t)
    BY <1>3, <1>4 DEF Arranged, Free, Ranked, Lined
  <1>7. StrutNoted(t)
    <2>1. {0} \cup {t.len[d] : d \in ToSet(t.list)} = {0}
      BY <1>3, <1>4
    <2>2. H!Max({0}) = 0
      BY DEF H!Max
    <2> QED BY <1>3, <1>4, <2>1, <2>2 DEF StrutNoted, Strut
  <1>8. MappedOf(t)
    BY <1>3, <1>4 DEF MappedOf
  <1> QED BY <1>2, <1>5, <1>6, <1>7, <1>8 DEF HarbInv

(* every operation keeps the invariant, *)
LEMMA HarbourStays == HarbInv /\ [H!Next]_s => HarbInv'
  <1> SUFFICES ASSUME HarbInv, [H!Next]_s PROVE HarbInv'
    OBVIOUS
  <1>1. CASE H!Next
    BY <1>1, AddHarbour, RemoveHarbour, DragHarbour, ResizeHarbour, ReloadHarbour, HideHarbour
       DEF H!Next
  <1>2. CASE UNCHANGED s
    BY <1>2 DEF HarbInv
  <1> QED BY <1>1, <1>2

(* which is what the harbour promises. *)
LEMMA HarbourPromises == HarbInv => H!DockAppsApart /\ H!StrutFits
  <1> SUFFICES ASSUME HarbInv PROVE H!DockAppsApart /\ H!StrutFits
    OBVIOUS
  <1>1. /\ HarbForm(s) /\ s.list \in Seq(Apps) /\ s.at \in [Apps -> Int]
        /\ s.len \in [Apps -> Nat \ {0}] /\ DOMAIN s.list = 1..Len(s.list)
        /\ s.config.backwards \in BOOLEAN /\ H!ToSet(s.list) = ToSet(s.list)
    BY HarbourOperators DEF HarbInv, HarbForm, H!Configs
  <1>2. H!StrutFits
    BY <1>1 DEF HarbInv, StrutNoted, Strut, MappedOf, H!StrutFits
  <1>3. CASE s.config.sort = "no"
    BY <1>1, <1>2, <1>3 DEF HarbInv, Arranged, Free, ApartIn, H!DockAppsApart, H!Apart
  <1>4. CASE s.config.sort # "no" /\ GoesRight(s) /\ s.loose = {}
    <2> SUFFICES ASSUME NEW i \in 1..Len(s.list), NEW j \in 1..Len(s.list), i < j
                 PROVE  /\ H!Apart(s.list[i], s.list[j])
                        /\ s.config.backwards <=> s.at[s.list[j]] < s.at[s.list[i]]
                        /\ ~ H!Before(s.list[j], s.list[i]) \/ H!Before(s.list[i], s.list[j])
      BY <1>1, <1>2, <1>4 DEF H!DockAppsApart
    <2> DEFINE d == s.list[i]
               e == s.list[j]
    <2>1. d \in Apps /\ e \in Apps
      BY <1>1
    <2>2. NotAfter(d, e)
      BY <1>4 DEF HarbInv, Arranged, Ranked
    <2>3. IF s.config.backwards THEN s.at[e] + s.len[e] <= s.at[d]
          ELSE s.at[d] + s.len[d] <= s.at[e]
      BY <1>4 DEF HarbInv, Arranged, Lined
    <2> HIDE DEF d, e
    <2>4. s.at[d] \in Int /\ s.at[e] \in Int /\ s.len[d] \in Nat \ {0} /\ s.len[e] \in Nat \ {0}
      BY <1>1, <2>1
    <2>5. s.config.backwards <=> s.at[e] < s.at[d]
      <3>1. CASE s.config.backwards
        BY <2>3, <2>4, <3>1
      <3>2. CASE ~ s.config.backwards
        BY <2>3, <2>4, <3>2
      <3> QED BY <3>1, <3>2
    <2>6. H!Apart(d, e)
      BY <1>1, <2>3, <2>4 DEF H!Apart, H!Overlap, H!End
    <2>7. ~ H!Before(e, d) \/ H!Before(d, e)
      BY <2>1, <2>2, OrderOfPositions
    <2> QED BY <2>5, <2>6, <2>7 DEF d, e
  <1>5. CASE s.config.sort # "no" /\ ~ (GoesRight(s) /\ s.loose = {})
    BY <1>2, <1>5 DEF H!DockAppsApart, GoesRight
  <1> QED BY <1>2, <1>3, <1>4, <1>5

----------------------------------------------------------------------------
(* The stack of the calculator.                                            *)

CalcFields == {"priority", "value", "oper", "start", "ready", "lost", "line", "good",
               "asked", "result"}

CalcForm(t) ==
    /\ DOMAIN t = CalcFields
    /\ t.priority \in [Operators -> Levels]
    /\ t.oper \in Seq(Operators) /\ t.start \in Seq(Nat)

(* The brackets that are open start below the top, one above the other,    *)
(* and the priorities rise but where one starts.                           *)
Rising(p, oper, start) ==
    /\ \A b \in 1..Len(start) : start[b] <= Len(oper)
    /\ \A b, c \in 1..Len(start) : b < c => start[b] <= start[c]
    /\ \A i \in 1..(Len(oper) - 1) :
         p[oper[i]] < p[oper[i + 1]] \/ \E b \in 1..Len(start) : start[b] = i

CalcInv == CalcForm(s) /\ (~ s.lost => Rising(s.priority, s.oper, s.start))

SameStack(t, u) ==
    /\ DOMAIN u = CalcFields
    /\ u.priority = t.priority /\ u.oper = t.oper /\ u.start = t.start /\ u.lost = t.lost

(* Between two brackets there are no more operators than priorities. *)
LEMMA RiseIsBounded ==
    ASSUME NEW p \in [Operators -> Levels], NEW q \in Seq(Operators),
           NEW lo \in Nat, NEW hi \in Nat, lo <= hi, hi <= Len(q),
           \A i \in (lo + 1)..(hi - 1) : p[q[i]] < p[q[i + 1]]
    PROVE  Cardinality(Levels) \in Nat /\ hi - lo <= Cardinality(Levels)
  <1> DEFINE v == [i \in (lo + 1)..hi |-> p[q[i]]]
  <1>1. Levels \subseteq Nat /\ IsFiniteSet(Levels) /\ Cardinality(Levels) \in Nat
    BY ShellAssumption, FS_CardinalityType
  <1>2. \A i \in (lo + 1)..hi : q[i] \in Operators /\ v[i] = p[q[i]] /\ v[i] \in Levels
    OBVIOUS
  <1>3. v \in [(lo + 1)..hi -> Levels]
    BY <1>2
  <1> DEFINE T == {n \in Nat : \A i, j \in (lo + 1)..hi : i < j /\ j = i + 1 + n => v[i] < v[j]}
  <1>4. \A i \in (lo + 1)..(hi - 1) : v[i] < v[i + 1]
    <2>1. \A i \in (lo + 1)..(hi - 1) : i \in (lo + 1)..hi /\ i + 1 \in (lo + 1)..hi
      OBVIOUS
    <2> QED BY <1>2, <2>1
  <1> HIDE DEF v
  <1>5. 0 \in T
    BY <1>4
  <1>6. ASSUME NEW n \in 0..(hi - 1), n \in T
        PROVE  n + 1 \in T
    <2> SUFFICES ASSUME NEW i \in (lo + 1)..hi, NEW j \in (lo + 1)..hi, j = i + 1 + (n + 1)
                 PROVE  v[i] < v[j]
      OBVIOUS
    <2>1. j - 1 \in (lo + 1)..hi /\ j - 1 = i + 1 + n /\ i < j - 1
          /\ j - 1 \in (lo + 1)..(hi - 1) /\ (j - 1) + 1 = j
      OBVIOUS
    <2>2. v[i] < v[j - 1]
      BY <1>6, <2>1
    <2>3. v[j - 1] < v[j]
      BY <1>4, <2>1
    <2>4. v[i] \in Nat /\ v[j - 1] \in Nat /\ v[j] \in Nat
      BY <1>1, <1>2, <2>1
    <2> QED BY <2>2, <2>3, <2>4
  <1> HIDE DEF T
  <1>7. \A n \in 0..hi : n \in T
    BY <1>5, <1>6, Upward
  <1>8. \A i, j \in (lo + 1)..hi : i < j => v[i] < v[j]
    <2> TAKE i, j \in (lo + 1)..hi
    <2>1. i < j => j - i - 1 \in 0..hi /\ j = i + 1 + (j - i - 1)
      OBVIOUS
    <2> QED BY <1>7, <2>1 DEF T
  <1>9. v \in Injection((lo + 1)..hi, Levels)
    <2>1. \A i, j \in (lo + 1)..hi : v[i] = v[j] => i = j
      <3> TAKE i, j \in (lo + 1)..hi
      <3>1. v[i] \in Nat /\ v[j] \in Nat
        BY <1>1, <1>2
      <3> QED BY <1>8, <3>1
    <2> QED BY <1>3, <2>1 DEF Injection, IsInjective
  <1>10. Cardinality((lo + 1)..hi) <= Cardinality(Levels)
    BY <1>1, <1>9, FS_Injection
  <1>11. Cardinality((lo + 1)..hi) = IF lo + 1 > hi THEN 0 ELSE hi - (lo + 1) + 1
    BY FS_Interval
  <1> QED BY <1>1, <1>10, <1>11

(* So what is pending has a bound, by priorities and brackets. *)
LEMMA StackIsBounded ==
    ASSUME NEW p \in [Operators -> Levels], NEW oper \in Seq(Operators), NEW start \in Seq(Nat),
           Rising(p, oper, start)
    PROVE  Len(oper) <= Cardinality(Levels) * (Len(start) + 1)
  <1> DEFINE k == Len(start)
             m == Cardinality(Levels)
             at(b) == IF b = 0 THEN 0 ELSE IF b = k + 1 THEN Len(oper) ELSE start[b]
             T == {b \in 0..(k + 1) : at(b) <= m * b}
  <1>1. k \in Nat /\ m \in Nat /\ Len(oper) \in Nat
    BY ShellAssumption, FS_CardinalityType
  <1>2. \A b \in 0..(k + 1) : at(b) \in Nat /\ at(b) <= Len(oper)
    BY <1>1 DEF Rising
  <1>3. ASSUME NEW b \in 0..k
        PROVE  at(b) <= at(b + 1) /\ at(b + 1) - at(b) <= m
    <2> DEFINE lo == at(b)
               hi == at(b + 1)
    <2>1. b \in 0..(k + 1) /\ b + 1 \in 0..(k + 1)
      BY <1>1
    <2>2. lo \in Nat /\ hi \in Nat /\ hi <= Len(oper)
      BY <1>2, <2>1
    <2>3. lo <= hi
      BY <1>1 DEF Rising
    <2>4. \A c \in 1..k : (c <= b => start[c] <= lo) /\ (c > b => hi <= start[c])
      <3> TAKE c \in 1..k
      <3>1. CASE c < b
        <4>1. b \in 1..k /\ b # k + 1 /\ b # 0 /\ lo = start[b]
          BY <1>1, <3>1
        <4> QED BY <1>1, <3>1, <4>1 DEF Rising
      <3>2. CASE c = b
        BY <1>1, <3>2
      <3>3. CASE c = b + 1
        BY <1>1, <3>3
      <3>4. CASE c > b + 1
        <4>1. b + 1 \in 1..k /\ b + 1 # k + 1 /\ b + 1 # 0
          BY <1>1, <3>4
        <4>2. hi = start[b + 1]
          BY <4>1
        <4> HIDE DEF hi
        <4> QED BY <1>1, <3>4, <4>1, <4>2 DEF Rising
      <3> QED BY <1>1, <3>1, <3>2, <3>3, <3>4
    <2> HIDE DEF lo, hi
    <2>5. ASSUME NEW i \in (lo + 1)..(hi - 1)
          PROVE  p[oper[i]] < p[oper[i + 1]]
      <3>1. i \in 1..(Len(oper) - 1)
        BY <1>1, <2>2
      <3>2. ASSUME NEW c \in 1..k, start[c] = i
            PROVE  FALSE
        BY <1>1, <2>2, <2>4, <3>2
      <3> QED BY <3>1, <3>2 DEF Rising
    <2>6. hi - lo <= m
      BY <2>2, <2>3, <2>5, RiseIsBounded
    <2> QED BY <2>3, <2>6 DEF lo, hi
  <1>4. at(0) = 0 /\ at(k + 1) = Len(oper)
    BY <1>1
  <1> HIDE DEF k, m, at
  <1>5. 0 \in T
    BY <1>1, <1>4
  <1>6. ASSUME NEW b \in 0..((k + 1) - 1), b \in T
        PROVE  b + 1 \in T
    <2>1. b \in 0..k /\ b + 1 \in 0..(k + 1) /\ b \in 0..(k + 1)
      BY <1>1
    <2>2. at(b) <= m * b /\ at(b + 1) - at(b) <= m
      BY <1>3, <1>6, <2>1
    <2>3. at(b) \in Nat /\ at(b + 1) \in Nat
      BY <1>2, <2>1
    <2>4. m * (b + 1) = m * b + m /\ m * b \in Nat
      BY <1>1
    <2>5. at(b + 1) <= m * (b + 1)
      BY <1>1, <2>2, <2>3, <2>4
    <2> QED BY <2>1, <2>5
  <1> HIDE DEF T
  <1>7. \A b \in 0..(k + 1) : b \in T
    <2>1. k + 1 \in Nat
      BY <1>1
    <2> QED BY <1>5, <1>6, <2>1, Upward
  <1>8. k + 1 \in T
    BY <1>1, <1>7
  <1>9. at(k + 1) <= m * (k + 1)
    BY <1>8 DEF T
  <1> QED BY <1>4, <1>9 DEF k, m

(* What does not touch the stack. *)
LEMMA StackStays ==
    ASSUME NEW t, DOMAIN t = CalcFields, NEW v
    PROVE  /\ SameStack(t, C!Bad(t)) /\ SameStack(t, C!Typed(t, v)) /\ SameStack(t, C!Put(t, v))
           /\ SameStack(t, t)
  <1>1. SameStack(t, C!Bad(t))
    <2> DEFINE f == FALSE
               e == <<>>
               w == [i \in DOMAIN t.value |-> C!Zero]
    <2>1. C!Bad(t) = [t EXCEPT !.good = f, !.line = e, !.value = w]
      BY DEF C!Bad
    <2> HIDE DEF f, e, w
    <2> QED BY <2>1 DEF SameStack, CalcFields
  <1>2. SameStack(t, C!Typed(t, v))
    BY DEF SameStack, CalcFields, C!Typed
  <1>3. SameStack(t, C!Put(t, v))
    <2> DEFINE w == [t.value EXCEPT ![Len(t.value)] = v]
    <2>1. C!Put(t, v) = [t EXCEPT !.value = w]
      BY DEF C!Put, CalcFields
    <2> HIDE DEF w
    <2> QED BY <2>1 DEF SameStack, CalcFields
  <1> QED BY <1>1, <1>2, <1>3 DEF SameStack

(* What each key forgets of the last evaluation. *)
LEMMA AnswerForgotten ==
    ASSUME NEW t, DOMAIN t = CalcFields, NEW r, NEW a, NEW v
    PROVE  /\ SameStack(t, [t EXCEPT !.asked = a, !.result = v])
           /\ SameStack(t, [t EXCEPT !.ready = r, !.asked = a, !.result = v])
  BY DEF SameStack, CalcFields

LEMMA SameStackAgain ==
    ASSUME NEW t, NEW u, NEW v, SameStack(t, u), SameStack(u, v)
    PROVE  SameStack(t, v)
  BY DEF SameStack

LEMMA CalcSame ==
    ASSUME CalcInv, SameStack(s, s')
    PROVE  CalcInv'
  BY DEF CalcInv, CalcForm, SameStack

(* Operators are applied down to n. *)
LEMMA Collapsed ==
    ASSUME NEW t, CalcForm(t), NEW n \in 0..Len(t.oper)
    PROVE  LET u == C!Collapse(t, n)
           IN  /\ CalcForm(u) /\ u.priority = t.priority /\ u.start = t.start /\ u.lost = t.lost
               /\ Len(u.oper) = n /\ \A i \in 1..n : u.oper[i] = t.oper[i]
  <1> DEFINE q == SubSeq(t.oper, 1, n)
             v == Append(SubSeq(t.value, 1, n), C!Applied(t, n))
             u == [t EXCEPT !.value = v, !.oper = q]
  <1>1. C!Collapse(t, n) = u
    BY DEF C!Collapse
  <1>2. q \in Seq(Operators) /\ Len(q) = n /\ \A i \in 1..n : q[i] = t.oper[i]
    <2>1. t.oper \in Seq(Operators) /\ n \in Int /\ n >= 0
      BY DEF CalcForm
    <2>2. \A i \in 1..n : t.oper[i] \in Operators
      BY <2>1
    <2>3. /\ q \in Seq(Operators) /\ Len(q) = IF 1 <= n THEN n - 1 + 1 ELSE 0
          /\ \A i \in 1..(n - 1 + 1) : q[i] = t.oper[1 + i - 1]
      BY <2>1, <2>2, SubSeqProperties
    <2> HIDE DEF q
    <2> QED BY <2>1, <2>3
  <1> HIDE DEF q, v
  <1>3. /\ DOMAIN u = CalcFields /\ u.priority = t.priority /\ u.start = t.start
        /\ u.lost = t.lost /\ u.oper = q
    BY DEF CalcForm, CalcFields
  <1> HIDE DEF u
  <1>4. CalcForm(u)
    BY <1>2, <1>3 DEF CalcForm
  <1> QED BY <1>1, <1>2, <1>3, <1>4

(* Where the loop of handle_operator() stops. *)
LEMMA StopsBelow ==
    ASSUME NEW t, CalcForm(t), Rising(t.priority, t.oper, t.start), NEW o \in Operators
    PROVE  LET n == C!StopsAt(t, o)
           IN  /\ n \in 0..Len(t.oper) /\ \A b \in 1..Len(t.start) : t.start[b] <= n
               /\ \/ t.priority[t.oper[n]] < t.priority[o]
                  \/ n = 0 \/ \E b \in 1..Len(t.start) : t.start[b] = n
  <1> DEFINE lowest == C!Bottom(t)
             lower == {i \in (lowest + 1)..C!Top(t) : t.priority[t.oper[i]] < t.priority[o]}
             T == lower \cup {lowest}
             n == C!StopsAt(t, o)
  <1>1. t.start \in Seq(Nat) /\ t.oper \in Seq(Operators) /\ Len(t.start) \in Nat
        /\ Len(t.oper) \in Nat /\ C!Top(t) = Len(t.oper)
    BY DEF CalcForm, C!Top
  <1>2. /\ lowest \in 0..Len(t.oper) /\ \A b \in 1..Len(t.start) : t.start[b] <= lowest
        /\ lowest = 0 \/ \E b \in 1..Len(t.start) : t.start[b] = lowest
    <2>1. C!Last(t.start) = t.start[Len(t.start)]
      BY DEF C!Last
    <2>2. CASE t.start = <<>>
      BY <1>1, <2>2 DEF C!Bottom
    <2>3. CASE t.start # <<>>
      <3>1. lowest = t.start[Len(t.start)] /\ Len(t.start) \in 1..Len(t.start)
        BY <1>1, <2>1, <2>3 DEF C!Bottom
      <3> HIDE DEF lowest
      <3>2. lowest \in Nat /\ lowest <= Len(t.oper)
        BY <1>1, <3>1 DEF Rising
      <3>3. \A b \in 1..Len(t.start) : t.start[b] <= lowest
        <4> TAKE b \in 1..Len(t.start)
        <4>1. CASE b = Len(t.start)
          BY <3>1, <3>2, <4>1
        <4>2. CASE b # Len(t.start)
          <5>1. b < Len(t.start)
            BY <1>1, <4>2
          <5> QED BY <3>1, <5>1 DEF Rising
        <4> QED BY <4>1, <4>2
      <3> QED BY <1>1, <3>1, <3>2, <3>3
    <2> QED BY <2>2, <2>3
  <1>3. n = CHOOSE u \in T : \A v \in lower : v <= u
    BY DEF C!StopsAt
  <1> HIDE DEF lowest
  <1>4. T \subseteq 0..Len(t.oper) /\ lowest \in T /\ \A u \in T : lowest <= u
    BY <1>1, <1>2
  <1>5. \A u \in lower : t.priority[t.oper[u]] < t.priority[o]
    OBVIOUS
  <1>6. \A u \in T : u \in lower \/ u = lowest
    OBVIOUS
  <1>7. lower \subseteq T
    OBVIOUS
  <1> HIDE DEF lower, T, n
  <1>8. \E u \in T : \A v \in T : v <= u
    BY <1>1, <1>4, Greatest
  <1>9. \E u \in T : \A v \in lower : v <= u
    BY <1>7, <1>8
  <1>10. n \in T
    BY <1>3, <1>9
  <1>11. n \in 0..Len(t.oper) /\ lowest <= n
    BY <1>4, <1>10
  <1>12. \A b \in 1..Len(t.start) : t.start[b] <= n
    <2> TAKE b \in 1..Len(t.start)
    <2>1. t.start[b] \in Nat /\ t.start[b] <= lowest
      BY <1>1, <1>2
    <2> QED BY <1>2, <1>11, <2>1
  <1>13. \/ t.priority[t.oper[n]] < t.priority[o]
         \/ n = 0 \/ \E b \in 1..Len(t.start) : t.start[b] = n
    BY <1>2, <1>5, <1>6, <1>10
  <1> QED BY <1>11, <1>12, <1>13 DEF n

(* Operators down to a place of no bracket are applied, and one is pushed. *)
LEMMA OperatorCalc ==
    ASSUME CalcInv, ~ s.lost, NEW o \in Operators, C!HandleOperator(o)
    PROVE  CalcInv'
  <1> DEFINE e == <<>>
             z == C!Zero
             r == [s EXCEPT !.asked = e, !.result = z]
             t == IF r.good /\ ~ C!Ends(r.line) THEN C!Bad(r) ELSE r
             n == C!StopsAt(t, o)
             u == C!Collapse(t, n)
             v == C!PushOperator(u, o)
  <1>1. s' = C!Typed(v, o)
    BY DEF C!HandleOperator
  <1>2. DOMAIN s = CalcFields /\ CalcForm(s) /\ Rising(s.priority, s.oper, s.start)
    BY DEF CalcInv, CalcForm
  <1>3. SameStack(s, r)
    <2> HIDE DEF e, z
    <2> QED BY <1>2, AnswerForgotten
  <1>4. SameStack(s, t)
    <2> HIDE DEF r
    <2>1. DOMAIN r = CalcFields
      BY <1>3 DEF SameStack
    <2> QED BY <1>3, <2>1, StackStays, SameStackAgain
  <1> HIDE DEF t
  <1>5. CalcForm(t) /\ Rising(t.priority, t.oper, t.start)
    BY <1>2, <1>4 DEF CalcForm, SameStack
  <1>6. /\ n \in 0..Len(t.oper) /\ \A b \in 1..Len(t.start) : t.start[b] <= n
        /\ \/ t.priority[t.oper[n]] < t.priority[o]
           \/ n = 0 \/ \E b \in 1..Len(t.start) : t.start[b] = n
    BY <1>5, StopsBelow
  <1> HIDE DEF n
  <1>7. /\ CalcForm(u) /\ u.priority = t.priority /\ u.start = t.start /\ u.lost = t.lost
        /\ Len(u.oper) = n /\ \A i \in 1..n : u.oper[i] = t.oper[i]
    BY <1>5, <1>6, Collapsed
  <1> HIDE DEF u
  <1> DEFINE q == Append(u.oper, o)
  <1>8. /\ q \in Seq(Operators) /\ Len(q) = n + 1 /\ q[n + 1] = o
        /\ \A i \in 1..n : q[i] = t.oper[i]
    <2>1. u.oper \in Seq(Operators)
      BY <1>7 DEF CalcForm
    <2>2. /\ q \in Seq(Operators) /\ Len(q) = Len(u.oper) + 1 /\ q[Len(u.oper) + 1] = o
          /\ \A i \in 1..Len(u.oper) : q[i] = u.oper[i]
      BY <2>1, AppendProperties
    <2> HIDE DEF q
    <2> QED BY <1>7, <2>2
  <1>9. /\ DOMAIN v = CalcFields /\ v.priority = t.priority /\ v.start = t.start
        /\ v.lost = t.lost /\ v.oper = q
    <2> DEFINE w == Append(u.value, C!Zero)
               f == FALSE
    <2>1. v = [u EXCEPT !.oper = q, !.value = w, !.ready = f]
      BY DEF C!PushOperator
    <2> HIDE DEF w, f, q, v
    <2> QED BY <1>7, <2>1 DEF CalcForm, CalcFields
  <1> HIDE DEF v, q
  <1>10. SameStack(v, s')
    BY <1>1, <1>9, StackStays
  <1>11. Rising(t.priority, q, t.start)
    <2>1. \A b \in 1..Len(t.start) : t.start[b] <= Len(q)
      <3> TAKE b \in 1..Len(t.start)
      <3>1. t.start[b] \in Nat /\ t.start[b] <= n
        BY <1>5, <1>6 DEF CalcForm
      <3> QED BY <1>6, <1>8, <3>1
    <2>2. ASSUME NEW i \in 1..(Len(q) - 1)
          PROVE  t.priority[q[i]] < t.priority[q[i + 1]] \/ \E b \in 1..Len(t.start) : t.start[b] = i
      <3>1. i \in 1..n /\ q[i] = t.oper[i]
        BY <1>6, <1>8
      <3>2. CASE i = n
        BY <1>6, <1>8, <3>1, <3>2
      <3>3. CASE i # n
        <4>1. i \in 1..(Len(t.oper) - 1) /\ i + 1 \in 1..n /\ q[i + 1] = t.oper[i + 1]
          <5>1. t.oper \in Seq(Operators)
            BY <1>5 DEF CalcForm
          <5>2. Len(t.oper) \in Nat
            BY <5>1
          <5>3. i \in 1..(Len(t.oper) - 1) /\ i + 1 \in 1..n
            BY <1>6, <3>1, <3>3, <5>2
          <5> QED BY <1>8, <5>3
        <4> QED BY <1>5, <3>1, <4>1 DEF Rising
      <3> QED BY <3>2, <3>3
    <2> QED BY <1>5, <2>1, <2>2 DEF Rising
  <1>12. CalcForm(s') /\ Rising(s'.priority, s'.oper, s'.start)
    BY <1>5, <1>8, <1>9, <1>10, <1>11 DEF CalcForm, SameStack
  <1> QED BY <1>12 DEF CalcInv

(* A bracket is opened at the top. *)
LEMMA OpenCalc ==
    ASSUME CalcInv, ~ s.lost, C!LeftBracket
    PROVE  CalcInv'
  <1> DEFINE q == Append(s.start, C!Top(s))
             f == TRUE
             e == <<>>
             z == C!Zero
             r == [s EXCEPT !.start = q, !.ready = f, !.asked = e, !.result = z]
             w == IF r.line # <<>> /\ C!Last(r.line) = C!Num THEN C!Front(r.line) ELSE r.line
             y == [r EXCEPT !.line = w]
  <1>1. DOMAIN s = CalcFields /\ CalcForm(s) /\ Rising(s.priority, s.oper, s.start)
    BY DEF CalcInv, CalcForm
  <1>2. s' = r \/ s' = C!Typed(y, C!Open) \/ s' = C!Bad(r)
    <2>1. DOMAIN r = CalcFields
      BY <1>1 DEF CalcFields
    <2>2. [r EXCEPT !.line = IF @ # <<>> /\ C!Last(@) = C!Num THEN C!Front(@) ELSE @] = y
      BY <2>1 DEF CalcFields
    <2> HIDE DEF y
    <2> QED BY <2>2 DEF C!LeftBracket
  <1>3. /\ q \in Seq(Nat) /\ Len(q) = Len(s.start) + 1 /\ q[Len(q)] = Len(s.oper)
        /\ \A b \in 1..Len(s.start) : q[b] = s.start[b]
    <2>1. s.start \in Seq(Nat) /\ C!Top(s) = Len(s.oper) /\ Len(s.oper) \in Nat
      BY <1>1 DEF CalcForm, C!Top
    <2>2. /\ q \in Seq(Nat) /\ Len(q) = Len(s.start) + 1 /\ q[Len(s.start) + 1] = Len(s.oper)
          /\ \A b \in 1..Len(s.start) : q[b] = s.start[b]
      BY <2>1, AppendProperties
    <2> HIDE DEF q
    <2> QED BY <2>2
  <1> HIDE DEF q, f, e, z
  <1>4. /\ DOMAIN r = CalcFields /\ r.priority = s.priority /\ r.start = q /\ r.lost = s.lost
        /\ r.oper = s.oper
    BY <1>1 DEF CalcFields
  <1> HIDE DEF r, w
  <1>5. SameStack(r, y)
    BY <1>4 DEF SameStack, CalcFields
  <1>6. DOMAIN y = CalcFields
    BY <1>5 DEF SameStack
  <1> HIDE DEF y
  <1>7. SameStack(r, s')
    BY <1>2, <1>4, <1>5, <1>6, StackStays, SameStackAgain
  <1>8. Rising(s.priority, s.oper, q)
    <2>1. Len(s.oper) \in Nat /\ Len(s.start) \in Nat /\ \A b \in 1..Len(s.start) : s.start[b] \in Nat
      BY <1>1 DEF CalcForm
    <2>2. \A b \in 1..Len(q) : b = Len(q) \/ b \in 1..Len(s.start)
      BY <1>3, <2>1
    <2>3. \A b \in 1..Len(q) : q[b] <= Len(s.oper)
      BY <1>1, <1>3, <2>1, <2>2 DEF Rising
    <2>4. ASSUME NEW b \in 1..Len(q), NEW c \in 1..Len(q), b < c
          PROVE  q[b] <= q[c]
      <3>1. b \in 1..Len(s.start)
        BY <1>3, <2>1, <2>4
      <3>2. CASE c = Len(q)
        BY <1>3, <2>3, <3>2
      <3>3. CASE c \in 1..Len(s.start)
        BY <1>1, <1>3, <2>4, <3>1, <3>3 DEF Rising
      <3> QED BY <2>2, <3>2, <3>3
    <2>5. \A b \in 1..Len(s.start) : b \in 1..Len(q)
      BY <1>3, <2>1
    <2>6. ASSUME NEW i \in 1..(Len(s.oper) - 1)
          PROVE  s.priority[s.oper[i]] < s.priority[s.oper[i + 1]] \/ \E b \in 1..Len(q) : q[b] = i
      BY <1>1, <1>3, <2>5 DEF Rising
    <2> QED BY <2>3, <2>4, <2>6 DEF Rising
  <1>9. CalcForm(s') /\ Rising(s'.priority, s'.oper, s'.start)
    BY <1>1, <1>3, <1>4, <1>7, <1>8 DEF CalcForm, SameStack
  <1> QED BY <1>9 DEF CalcInv

(* The last bracket is closed. *)
LEMMA CloseCalc ==
    ASSUME CalcInv, ~ s.lost, C!RightBracket
    PROVE  CalcInv'
  <1> DEFINE e == <<>>
             z == C!Zero
             r == [s EXCEPT !.asked = e, !.result = z]
             t == IF r.good /\ ~ C!Ends(r.line) /\ r.start # <<>> THEN C!Bad(r) ELSE r
             u == C!CloseBracket(t)
  <1>1. s' = IF t.start = <<>> THEN t ELSE C!Typed(u, C!Shut)
    BY DEF C!RightBracket
  <1>2. DOMAIN s = CalcFields /\ CalcForm(s) /\ Rising(s.priority, s.oper, s.start)
    BY DEF CalcInv, CalcForm
  <1>3. SameStack(s, r)
    <2> HIDE DEF e, z
    <2> QED BY <1>2, AnswerForgotten
  <1>4. SameStack(s, t)
    <2> HIDE DEF r
    <2>1. DOMAIN r = CalcFields
      BY <1>3 DEF SameStack
    <2> QED BY <1>3, <2>1, StackStays, SameStackAgain
  <1> HIDE DEF t
  <1>5. CalcForm(t) /\ Rising(t.priority, t.oper, t.start)
    BY <1>2, <1>4 DEF CalcForm, SameStack
  <1>6. CASE t.start = <<>>
    <2>1. SameStack(s, s')
      BY <1>1, <1>4, <1>6
    <2> QED BY <2>1, CalcSame
  <1>7. CASE t.start # <<>>
    <2> DEFINE m == Len(t.start)
               n == t.start[m]
               p == C!Collapse(t, n)
               q == SubSeq(t.start, 1, m - 1)
               f == TRUE
    <2>1. /\ t.start \in Seq(Nat) /\ t.oper \in Seq(Operators)
          /\ m \in Nat /\ m # 0 /\ m \in 1..m /\ Len(t.oper) \in Nat
      BY <1>5, <1>7 DEF CalcForm
    <2>2. n \in 0..Len(t.oper) /\ \A b \in 1..m : t.start[b] \in Nat
      <3>1. \A b \in 1..m : t.start[b] \in Nat
        BY <2>1
      <3>2. n \in Nat /\ n <= Len(t.oper)
        BY <1>5, <2>1, <3>1 DEF Rising
      <3> QED BY <2>1, <3>1, <3>2
    <2>3. C!Bottom(t) = n
      BY <1>7 DEF C!Bottom, C!Last
    <2>4. /\ CalcForm(p) /\ p.priority = t.priority /\ p.start = t.start /\ p.lost = t.lost
          /\ Len(p.oper) = n /\ \A i \in 1..n : p.oper[i] = t.oper[i]
      BY <1>5, <2>2, Collapsed
    <2>5. u = [p EXCEPT !.start = q, !.ready = f]
      <3>1. u = [p EXCEPT !.start = C!Front(@), !.ready = f]
        BY <1>7, <2>3 DEF C!CloseBracket
      <3>2. C!Front(p.start) = q
        BY <2>4 DEF C!Front
      <3> HIDE DEF p, q, f
      <3> QED BY <2>4, <3>1, <3>2 DEF CalcForm, CalcFields
    <2>6. q \in Seq(Nat) /\ Len(q) = m - 1 /\ \A b \in 1..(m - 1) : q[b] = t.start[b]
      <3>1. \A b \in 1..(m - 1) : t.start[b] \in Nat
        BY <2>1, <2>2
      <3>2. /\ q \in Seq(Nat) /\ Len(q) = IF 1 <= m - 1 THEN (m - 1) - 1 + 1 ELSE 0
            /\ \A b \in 1..((m - 1) - 1 + 1) : q[b] = t.start[1 + b - 1]
        BY <2>1, <3>1, SubSeqProperties
      <3> HIDE DEF q, m
      <3> QED BY <2>1, <3>2
    <2> HIDE DEF p, q, f, u
    <2>7. /\ DOMAIN u = CalcFields /\ u.priority = t.priority /\ u.start = q /\ u.lost = t.lost
          /\ u.oper = p.oper
      BY <2>4, <2>5 DEF CalcForm, CalcFields
    <2>8. SameStack(u, s')
      BY <1>1, <1>7, <2>7, StackStays
    <2>9. p.oper \in Seq(Operators)
      BY <2>4 DEF CalcForm
    <2>10. \A b \in 1..(m - 1) : b \in 1..m /\ b < m /\ q[b] <= n
      <3> TAKE b \in 1..(m - 1)
      <3>1. b \in 1..m /\ m \in 1..m /\ b < m
        BY <2>1
      <3>2. t.start[b] <= t.start[m]
        BY <1>5, <3>1 DEF Rising
      <3> QED BY <2>6, <3>1, <3>2
    <2>11. Rising(t.priority, p.oper, q)
      <3>1. \A b \in 1..Len(q) : q[b] <= Len(p.oper)
        BY <2>4, <2>6, <2>10
      <3>2. \A b, c \in 1..Len(q) : b < c => q[b] <= q[c]
        BY <1>5, <2>6, <2>10 DEF Rising
      <3>3. ASSUME NEW i \in 1..(Len(p.oper) - 1)
            PROVE  t.priority[p.oper[i]] < t.priority[p.oper[i + 1]]
                   \/ \E b \in 1..Len(q) : q[b] = i
        <4> HIDE DEF n
        <4>1. i \in 1..n /\ i + 1 \in 1..n /\ i < n /\ i \in 1..(Len(t.oper) - 1)
          BY <2>1, <2>2, <2>4
        <4>2. p.oper[i] = t.oper[i] /\ p.oper[i + 1] = t.oper[i + 1]
          BY <2>4, <4>1
        <4>3. \/ t.priority[t.oper[i]] < t.priority[t.oper[i + 1]]
              \/ \E b \in 1..m : t.start[b] = i
          BY <1>5, <4>1 DEF Rising
        <4>4. ASSUME NEW b \in 1..m, t.start[b] = i
              PROVE  b \in 1..Len(q) /\ q[b] = i
          <5>1. b # m
            BY <4>1, <4>4 DEF n
          <5>2. b \in 1..(m - 1)
            BY <2>1, <5>1
          <5> QED BY <2>6, <4>4, <5>2
        <4> QED BY <4>2, <4>3, <4>4
      <3> QED BY <3>1, <3>2, <3>3 DEF Rising
    <2>12. CalcForm(s') /\ Rising(s'.priority, s'.oper, s'.start)
      BY <1>5, <2>6, <2>7, <2>8, <2>9, <2>11 DEF CalcForm, SameStack
    <2> QED BY <2>12 DEF CalcInv
  <1> QED BY <1>6, <1>7

(* Nothing is pending any more, and no bracket is open. *)
LEMMA EmptyStack ==
    ASSUME CalcInv, DOMAIN s' = CalcFields, s'.priority = s.priority, s'.oper = <<>>,
           s'.start \in Seq(Nat), s'.start = <<>> \/ s'.lost
    PROVE  CalcInv'
  <1>1. CalcForm(s')
    BY DEF CalcInv, CalcForm
  <1>2. s'.start = <<>> => Rising(s'.priority, s'.oper, s'.start)
    <2> DEFINE e == <<>>
    <2>1. Len(e) = 0
      OBVIOUS
    <2> HIDE DEF e
    <2>2. Rising(s'.priority, e, e)
      BY <2>1 DEF Rising
    <2> QED BY <2>2 DEF e
  <1> QED BY <1>1, <1>2 DEF CalcInv

LEMMA EvalCalc ==
    ASSUME CalcInv, ~ s.lost, C!Eval
    PROVE  CalcInv'
  <1> DEFINE r == IF s.good /\ ~ C!Ends(s.line) THEN C!Bad(s) ELSE s
             t == C!CloseAll(r)
             v == <<C!Zero>>
             k == <<C!Num>>
             g == TRUE
             a == IF r.good THEN r.line \o [i \in DOMAIN r.start |-> C!Shut] ELSE <<>>
             z == IF r.good THEN Head(t.value) ELSE C!Zero
             u == [t EXCEPT !.value = v, !.line = k, !.good = g]
             w == [u EXCEPT !.asked = a, !.result = z]
             p == C!Collapse(r, 0)
             e == <<>>
  <1>1. s' = w
    BY DEF C!Eval
  <1>2. DOMAIN s = CalcFields /\ CalcForm(s)
    BY DEF CalcInv, CalcForm
  <1>3. SameStack(s, r)
    BY <1>2, StackStays
  <1>4. CalcForm(r)
    BY <1>2, <1>3 DEF CalcForm, SameStack
  <1> HIDE DEF r
  <1>5. CalcForm(p) /\ p.priority = r.priority /\ p.lost = r.lost /\ Len(p.oper) = 0
    <2>1. 0 \in 0..Len(r.oper)
      BY <1>4 DEF CalcForm
    <2> QED BY <1>4, <2>1, Collapsed
  <1>6. p.oper = <<>>
    BY <1>5 DEF CalcForm
  <1>7. t = [p EXCEPT !.start = e, !.ready = g]
    BY DEF C!CloseAll
  <1>8. e \in Seq(Nat)
    OBVIOUS
  <1> HIDE DEF v, k, g, a, z, p, t, e
  <1>9. /\ DOMAIN t = CalcFields /\ t.priority = r.priority /\ t.oper = <<>> /\ t.start = e
    BY <1>5, <1>6, <1>7 DEF CalcForm, CalcFields
  <1>10. /\ DOMAIN u = CalcFields /\ u.priority = r.priority /\ u.oper = <<>> /\ u.start = e
    BY <1>9 DEF CalcFields
  <1> HIDE DEF u
  <1>11. /\ DOMAIN w = CalcFields /\ w.priority = r.priority /\ w.oper = <<>> /\ w.start = e
    BY <1>10 DEF CalcFields
  <1> HIDE DEF w
  <1>12. s'.priority = s.priority /\ s'.start = <<>>
    BY <1>1, <1>3, <1>11 DEF SameStack, e
  <1> QED BY <1>1, <1>8, <1>11, <1>12, EmptyStack

(* All is as at the start, but for the brackets. *)
LEMMA FreshStack ==
    ASSUME NEW t, DOMAIN t = CalcFields
    PROVE  LET u == C!Fresh(t)
           IN  /\ DOMAIN u = CalcFields /\ u.priority = t.priority /\ u.oper = <<>>
               /\ u.start = t.start
  <1> DEFINE v == <<C!Zero>>
             e == <<>>
             f == FALSE
             k == <<C!Num>>
             g == TRUE
             z == C!Zero
             u == [t EXCEPT !.value = v, !.oper = e, !.ready = f]
             w == [u EXCEPT !.line = k, !.good = g, !.asked = e, !.result = z]
  <1>1. C!Fresh(t) = w
    BY DEF C!Fresh
  <1>2. e = <<>>
    OBVIOUS
  <1> HIDE DEF v, e, f, k, g, z
  <1>3. DOMAIN u = CalcFields /\ u.priority = t.priority /\ u.oper = e /\ u.start = t.start
    BY DEF CalcFields
  <1> HIDE DEF u
  <1>4. DOMAIN w = CalcFields /\ w.priority = t.priority /\ w.oper = e /\ w.start = t.start
    BY <1>3 DEF CalcFields
  <1> HIDE DEF w
  <1> QED BY <1>1, <1>2, <1>4

LEMMA ClearCalc ==
    ASSUME CalcInv, ~ s.lost, C!AllClear \/ C!FactorialError
    PROVE  CalcInv'
  <1> DEFINE u == C!Fresh(s)
             e == <<>>
             l == (\E b \in DOMAIN s.start : s.start[b] > 0)
             k == [b \in DOMAIN s.start |-> C!Open] \o <<C!Num>>
  <1>1. DOMAIN s = CalcFields /\ s.start \in Seq(Nat)
    BY DEF CalcInv, CalcForm
  <1>2. DOMAIN u = CalcFields /\ u.priority = s.priority /\ u.oper = <<>> /\ u.start = s.start
    BY <1>1, FreshStack
  <1>3. e \in Seq(Nat) /\ e = <<>>
    OBVIOUS
  <1>4. s' = [u EXCEPT !.start = e] \/ s' = [u EXCEPT !.lost = l, !.line = k]
    BY DEF C!AllClear, C!FactorialError
  <1>5. ~ l => Rising(s.priority, e, s.start)
    <2>1. DOMAIN s.start = 1..Len(s.start) /\ (\A b \in 1..Len(s.start) : s.start[b] \in Nat)
      BY <1>1
    <2>2. Len(e) = 0
      OBVIOUS
    <2> HIDE DEF e
    <2> QED BY <2>1, <2>2 DEF Rising
  <1> HIDE DEF u, e, k
  <1>6. CASE s' = [u EXCEPT !.start = e]
    BY <1>2, <1>3, <1>6, EmptyStack DEF CalcFields
  <1>7. CASE s' = [u EXCEPT !.lost = l, !.line = k]
    <2>1. /\ DOMAIN s' = CalcFields /\ s'.priority = s.priority /\ s'.oper = e
          /\ s'.start = s.start /\ s'.lost = l
      <3> HIDE DEF l
      <3> QED BY <1>2, <1>3, <1>7 DEF CalcFields
    <2>2. CalcForm(s')
      BY <1>1, <1>3, <2>1 DEF CalcInv, CalcForm
    <2>3. ~ s'.lost => Rising(s'.priority, s'.oper, s'.start)
      BY <1>5, <2>1
    <2> QED BY <2>2, <2>3 DEF CalcInv
  <1> QED BY <1>4, <1>6, <1>7

(* The other keys do not touch the stack. *)
LEMMA KeyCalc ==
    ASSUME CalcInv, C!Number \/ C!Unary \/ C!Clear \/ C!Exchange
    PROVE  CalcInv'
  <1> DEFINE e == <<>>
             z == C!Zero
             f == FALSE
             g == TRUE
             r == [s EXCEPT !.ready = f, !.asked = e, !.result = z]
             y == [s EXCEPT !.ready = g, !.asked = e, !.result = z]
             b == C!Bad(s)
             x == [b EXCEPT !.ready = g, !.asked = e, !.result = z]
  <1>1. DOMAIN s = CalcFields
    BY DEF CalcInv, CalcForm
  <1>2. C!Number => s' = r \/ s' = C!Bad(r)
                    \/ s' = C!Put(C!Typed(r, C!Num), <<C!Operands(r.line) + 1>>)
    BY DEF C!Number
  <1>3. C!Unary => s' = y \/ s' = C!Bad(y)
    BY DEF C!Unary
  <1>4. C!Clear => s' = r \/ s' = C!Bad(r)
    BY DEF C!Clear
  <1>5. C!Exchange => s' = x
    BY DEF C!Exchange
  <1> HIDE DEF e, z, f, g
  <1>6. SameStack(s, r) /\ SameStack(s, y)
    BY <1>1, AnswerForgotten
  <1>7. SameStack(s, b)
    BY <1>1, StackStays
  <1>8. DOMAIN r = CalcFields /\ DOMAIN y = CalcFields /\ DOMAIN b = CalcFields
    BY <1>6, <1>7 DEF SameStack
  <1> HIDE DEF r, y, b
  <1>9. SameStack(s, x)
    BY <1>7, <1>8, AnswerForgotten, SameStackAgain
  <1> HIDE DEF x
  <1>10. SameStack(s, C!Bad(r)) /\ SameStack(s, C!Bad(y))
    BY <1>6, <1>8, StackStays, SameStackAgain
  <1>11. \A v : SameStack(s, C!Put(C!Typed(r, C!Num), v))
    <2> TAKE v
    <2> DEFINE p == C!Typed(r, C!Num)
    <2>1. SameStack(s, p)
      BY <1>6, <1>8, StackStays, SameStackAgain
    <2>2. DOMAIN p = CalcFields
      BY <2>1 DEF SameStack
    <2> HIDE DEF p
    <2>3. SameStack(p, C!Put(p, v))
      BY <2>2, StackStays
    <2> QED BY <2>1, <2>3, SameStackAgain DEF p
  <1>12. SameStack(s, s')
    BY <1>2, <1>3, <1>4, <1>5, <1>6, <1>9, <1>10, <1>11
  <1> QED BY <1>12, CalcSame

(* At the start the stack is empty, *)
LEMMA CalcInit == C!Init => CalcInv
  <1> SUFFICES ASSUME C!Init PROVE CalcInv
    OBVIOUS
  <1>1. PICK p \in [Operators -> Levels] :
          s = [ priority |-> p, value |-> <<C!Zero>>, oper |-> <<>>, start |-> <<>>,
                ready |-> FALSE, lost |-> FALSE, line |-> <<C!Num>>, good |-> TRUE,
                asked |-> <<>>, result |-> C!Zero ]
    BY DEF C!Init
  <1> DEFINE v == <<C!Zero>>
             e == <<>>
             f == FALSE
             k == <<C!Num>>
             g == TRUE
             z == C!Zero
             t == [ priority |-> p, value |-> v, oper |-> e, start |-> e, ready |-> f, lost |-> f,
                    line |-> k, good |-> g, asked |-> e, result |-> z ]
  <1>2. s = t
    BY <1>1
  <1>3. e \in Seq(Operators) /\ e \in Seq(Nat) /\ Len(e) = 0
    OBVIOUS
  <1> HIDE DEF v, e, f, k, g, z
  <1>4. DOMAIN t = CalcFields /\ t.priority = p /\ t.oper = e /\ t.start = e
    BY DEF CalcFields
  <1> HIDE DEF t
  <1>5. CalcForm(t) /\ Rising(p, e, e)
    BY <1>3, <1>4 DEF CalcForm, Rising
  <1> QED BY <1>2, <1>4, <1>5 DEF CalcInv

(* every key keeps the invariant, *)
LEMMA CalcStays == CalcInv /\ [C!Next]_s => CalcInv'
  <1> SUFFICES ASSUME CalcInv, [C!Next]_s PROVE CalcInv'
    OBVIOUS
  <1>1. CASE C!Next
    BY <1>1, EvalCalc, ClearCalc, KeyCalc, OperatorCalc, OpenCalc, CloseCalc DEF C!Next
  <1>2. CASE UNCHANGED s
    BY <1>2 DEF CalcInv
  <1> QED BY <1>1, <1>2

(* and with it the bound of what is pending. *)
LEMMA CalcPromises == CalcInv => C!StackRises
  <1> SUFFICES ASSUME CalcInv, ~ s.lost PROVE C!StackRises
    BY DEF C!StackRises
  <1>1. /\ Rising(s.priority, s.oper, s.start) /\ s.start \in Seq(Nat)
        /\ s.priority \in [Operators -> Levels] /\ s.oper \in Seq(Operators)
    BY DEF CalcInv, CalcForm
  <1>2. C!ToSet(s.start) = {s.start[b] : b \in 1..Len(s.start)} /\ C!Top(s) = Len(s.oper)
    BY <1>1 DEF C!ToSet, C!Top
  <1>3. Len(s.oper) <= Cardinality(Levels) * (Len(s.start) + 1)
    BY <1>1, StackIsBounded
  <1>4. C!Cardinality(Levels) = Cardinality(Levels)
    BY DEF C!Cardinality, Cardinality
  <1>5. \A i : (\E b \in 1..Len(s.start) : s.start[b] = i) => i \in C!ToSet(s.start)
    BY <1>2
  <1> QED BY <1>1, <1>2, <1>3, <1>4, <1>5 DEF Rising, C!StackRises

----------------------------------------------------------------------------
(* The two together.  Each step is one of the program that runs.           *)
HarbCalcInv ==
    /\ which = "calculator" => CalcInv
    /\ which = "harbour"    => HarbInv

(* The program that is started satisfies its invariant, *)
LEMMA HarbCalcStarts == ShellInit => HarbCalcInv
  BY CalcInit, HarbourInit DEF ShellInit, HarbCalcInv

(* and whatever it does keeps it. *)
LEMMA HarbCalcStays == HarbCalcInv /\ [ShellNext]_<<which, s>> => HarbCalcInv'
  <1> SUFFICES ASSUME HarbCalcInv, [ShellNext]_<<which, s>> PROVE HarbCalcInv'
    OBVIOUS
  <1>1. CASE CalcStep
    BY <1>1, CalcStays DEF HarbCalcInv, CalcStep
  <1>2. CASE HarbourStep
    BY <1>2, HarbourStays DEF HarbCalcInv, HarbourStep
  <1>3. CASE DesktopStep \/ PanelStep \/ StartMenuStep \/ PromptStep
    BY <1>3 DEF HarbCalcInv, DesktopStep, PanelStep, StartMenuStep, PromptStep
  <1>4. CASE UNCHANGED <<which, s>>
    <2>1. which' = which /\ s' = s
      BY <1>4
    <2>2. (which = "calculator" => CalcInv') /\ (which = "harbour" => HarbInv')
      BY <2>1, CalcStays, HarbourStays DEF HarbCalcInv
    <2> QED BY <2>1, <2>2 DEF HarbCalcInv
  <1> QED BY <1>1, <1>2, <1>3, <1>4 DEF ShellNext

(* The invariant of the two. *)
LEMMA HarbCalcInvariant == ShellSpec => []HarbCalcInv
  BY HarbCalcStarts, HarbCalcStays, PTL DEF ShellSpec

(* ede-calc: for any operators and priorities, whatever keys are pressed,  *)
(* what is pending rises in priority between the brackets, so that it is   *)
(* no higher than the number of priorities for each bracket, the outermost *)
(* level counted as one - until a factorial's error has emptied the stack  *)
(* below a bracket (SciCalc::handle_operator()).                           *)
THEOREM CalcStackRises == ShellSpec => [](which = "calculator" => C!StackRises)
  <1>1. HarbCalcInv => (which = "calculator" => C!StackRises)
    BY CalcPromises DEF HarbCalcInv
  <1> QED BY <1>1, HarbCalcInvariant, PTL

(* pekwm's harbour: for any number of dock apps of any lengths, positions  *)
(* and heads, whatever is added, removed, dragged, resized, hidden or      *)
(* placed anew, the apps that were placed do not overlap, sorted ones are  *)
(* in their order, and the strut fits the longest of them.                 *)
THEOREM HarbourIsRight == ShellSpec => []HarbourRight
  <1>1. HarbCalcInv => HarbourRight
    BY HarbourPromises DEF HarbCalcInv, HarbourRight
  <1> QED BY <1>1, HarbCalcInvariant, PTL

----------------------------------------------------------------------------
(* The XSETTINGS manager: type correctness, RestoredAfterQuit and Durable. *)

Running == {"serving", "saving", "opened", "written"}

(***************************************************************************)
(* The inductive invariant: what is true of the two files, and of the      *)
(* property, at every place of the session.                                *)
(***************************************************************************)

(* Before the property is set, nothing is served.                          *)
PropInv ==
    /\ prop = NoProp => ~dbus
    /\ pc \notin Running => prop = NoProp
    /\ pc \in {"opened", "written"} => prop # NoProp

(* Where the user's own file is, in a session nothing has disturbed.       *)
FilesInv ==
    marks = {} =>
        /\ pc \in {"off", "noxsm"} => xdefaults = orig
        /\ pc \in {"loaded", "tmpwritten"} => xdefaults = orig /\ saved = NoFile
        /\ pc = "tmpwritten" => (existed <=> xdefaults # NoFile)
        /\ pc = "backedup" => saved = orig
        /\ pc \in Running => IF prop = NoProp THEN xdefaults = orig ELSE saved = orig

TInv == TypeOK /\ PropInv

LEMMA FileFacts ==
    ASSUME TypeOK
    PROVE  /\ UserFile \subseteq File \cup {NoFile}
           /\ Merged(xdefaults) \in File
           /\ \A f \in File \cup {NoFile} : TextOf(f) \in UserText \cup {NoText}
           /\ \A f \in UserFile : TextOf(f) \in UserText \cup {NoText}
  BY NamesAssumption, MarkerAssumption
     DEF TypeOK, UserFile, Merged, Mapped, TextOf, File

(* Types and PropInv are inductive together: WriteConf writes what the     *)
(* property holds, and would write rubbish if it held nothing.             *)
LEMMA TypeInvariant == Spec => []TInv
<1>1. Init => TInv
  <2> SUFFICES ASSUME Init PROVE TInv
    OBVIOUS
  <2>1. xdefaults \in File \cup {NoFile} /\ mine \in UserText \cup {NoText}
    BY MarkerAssumption DEF Init, UserFile, TextOf, File
  <2>2. Empty \in Settings
    BY DEF Empty, Settings
  <2>3. marks \in SUBSET Marks /\ mishaps \in 0..2
    BY DEF Init
  <2>4. TypeOK
    BY <2>1, <2>2, <2>3 DEF Init, TypeOK, Places
  <2> QED
    BY <2>4 DEF Init, TInv, PropInv, Running
<1>2. TInv /\ [Next]_vars => TInv'
  <2> SUFFICES ASSUME TInv, [Next]_vars PROVE TypeOK' /\ PropInv'
    BY DEF TInv
  <2>a. /\ UserFile \subseteq File \cup {NoFile}
        /\ Merged(xdefaults) \in File
        /\ \A f \in UserFile : TextOf(f) \in UserText \cup {NoText}
    BY FileFacts DEF TInv
  <2>b. Empty \in Settings
    BY DEF Empty, Settings
  <2>c. NoProp \notin Settings
    BY MarkerAssumption
  <2>d. \A m \in Marks : marks \cup {m} \in SUBSET Marks
    BY DEF TInv, TypeOK
  <2> USE DEF TInv, TypeOK, PropInv, Running, files, ghosts
  <2>1. CASE StartDeclined
    BY <2>1 DEF StartDeclined, TakeLock, Places, Marks
  <2>2. CASE StartInitFailed
    BY <2>2 DEF StartInitFailed, TakeLock, Places, Marks
  <2>3. CASE StartLoaded
    BY <2>3 DEF StartLoaded, TakeLock, Loads, Places, Marks
  <2>4. CASE StartUnloaded
    BY <2>4 DEF StartUnloaded, TakeLock, Places, Marks
  <2>5. CASE WriteTmp
    BY <2>5, <2>a DEF WriteTmp, Places
  <2>6. CASE Backup
    BY <2>6 DEF Backup, Places
  <2>7. CASE Serve
    BY <2>7, <2>c DEF Serve, Places
  <2>8. ASSUME NEW n \in Names, RemoveSetting(n) PROVE TypeOK' /\ PropInv'
    <3>1. [settings EXCEPT ![n] = Unset] \in Settings
      BY DEF Settings
    <3> QED
      BY <2>8, <2>c, <3>1 DEF RemoveSetting
  <2>9. ASSUME NEW n \in Names, NEW v \in Values, Set(n, v) PROVE TypeOK' /\ PropInv'
    <3>1. [settings EXCEPT ![n] = v] \in Settings
      BY DEF Settings
    <3> QED
      BY <2>9, <2>c, <3>1 DEF Set
  <2>10. CASE Flush
    BY <2>10 DEF Flush, Places
  <2>11. CASE Terminate
    BY <2>11 DEF Terminate, Places
  <2>12. CASE Quit
    BY <2>12 DEF Quit, Places
  <2>13. CASE QuitNoXsm
    BY <2>13 DEF QuitNoXsm, Places
  <2>14. CASE SaveFails
    <3>1. marks' \in SUBSET Marks /\ mishaps' \in 0..2
      BY <2>14, <2>d DEF SaveFails, OneMoreMishap, Marks
    <3>2. /\ pc' \in Places /\ after' \in {"off", "serving", "noxsm"}
          /\ lock' \in BOOLEAN /\ dbus' \in BOOLEAN
      BY <2>14 DEF SaveFails, SaveReturns, Places
    <3>3. settings' \in Settings /\ prop' \in Settings \cup {NoProp}
      BY <2>14, <2>b DEF SaveFails, SaveReturns
    <3>4. TypeOK'
      BY <2>14, <2>b, <3>1, <3>2, <3>3 DEF SaveFails
    <3>5. PropInv'
      BY <2>14 DEF SaveFails, SaveReturns
    <3> QED
      BY <3>4, <3>5
  <2>15. CASE OpenConf
    BY <2>15, <2>c DEF OpenConf, HasProp, Places
  <2>16. CASE WriteConf
    BY <2>16 DEF WriteConf, Saved, Places
  <2>17. CASE Undo
    <3>1. marks' \in SUBSET Marks
      BY <2>17, <2>d DEF Undo, Marks
    <3>2. /\ pc' \in Places /\ after' \in {"off", "serving", "noxsm"}
          /\ lock' \in BOOLEAN /\ dbus' \in BOOLEAN
      BY <2>17 DEF Undo, SaveReturns, Places
    <3>3. settings' \in Settings /\ prop' \in Settings \cup {NoProp}
      BY <2>17, <2>b DEF Undo, SaveReturns
    <3>4. TypeOK'
      BY <2>17, <3>1, <3>2, <3>3 DEF Undo
    <3>5. PropInv'
      BY <2>17 DEF Undo, SaveReturns
    <3> QED
      BY <3>4, <3>5
  <2>18. CASE Crash
    <3>1. marks' \in SUBSET Marks /\ mishaps' \in 0..2
      BY <2>18, <2>d DEF Crash, OneMoreMishap, Marks
    <3> QED
      BY <2>18, <2>b, <3>1 DEF Crash, Places
  <2>19. CASE RemoveStaleLock
    BY <2>19 DEF RemoveStaleLock
  <2>20. ASSUME NEW f \in UserFile, UserEdits(f) PROVE TypeOK' /\ PropInv'
    <3>1. marks' \in SUBSET Marks
      BY <2>20, <2>d DEF UserEdits, Marks
    <3>2. mine' \in UserText \cup {NoText} /\ orig' \in File \cup {NoFile}
      BY <2>20, <2>a DEF UserEdits
    <3> QED
      BY <2>20, <2>a, <3>1, <3>2 DEF UserEdits
  <2>21. CASE UNCHANGED vars
    BY <2>21 DEF vars
  <2> QED
    BY <2>1, <2>2, <2>3, <2>4, <2>5, <2>6, <2>7, <2>8, <2>9, <2>10, <2>11,
       <2>12, <2>13, <2>14, <2>15, <2>16, <2>17, <2>18, <2>19, <2>20, <2>21
       DEF Next
<1> QED
  BY <1>1, <1>2, PTL DEF Spec

(* Xsm is type-correct.                                                    *)
THEOREM TypeCorrect == Spec => []TypeOK
<1>1. TInv => TypeOK
  BY DEF TInv
<1> QED
  BY <1>1, TypeInvariant, PTL

(***************************************************************************)
(* When no manager runs, an undisturbed session has given ~/.Xdefaults     *)
(* back as it was.  By FilesInv: the original is in ~/.Xdefaults until     *)
(* Backup, in the backup until Undo, and nowhere in between is it in       *)
(* neither place.                                                          *)
(***************************************************************************)
THEOREM Restored == Spec => []RestoredAfterQuit
<1>1. Init => FilesInv
  BY DEF Init, FilesInv, Running
<1>2. TInv /\ TInv' /\ FilesInv /\ [Next]_vars => FilesInv'
  <2> SUFFICES ASSUME TInv, TInv', FilesInv, [Next]_vars, marks' = {} PROVE FilesInv'
    BY DEF FilesInv
  <2>a. NoProp \notin Settings
    BY MarkerAssumption
  <2> USE DEF TInv, PropInv, FilesInv, Running, files, ghosts
  <2>1. CASE StartDeclined
    BY <2>1 DEF StartDeclined, TakeLock
  <2>2. CASE StartInitFailed
    BY <2>2 DEF StartInitFailed, TakeLock
  <2>3. CASE StartLoaded
    BY <2>3 DEF StartLoaded, TakeLock
  <2>4. CASE StartUnloaded
    BY <2>4 DEF StartUnloaded, TakeLock
  <2>5. CASE WriteTmp
    BY <2>5 DEF WriteTmp
  <2>6. CASE Backup
    BY <2>6 DEF Backup
  <2>7. CASE Serve
    BY <2>7, <2>a DEF Serve, TypeOK
  <2>8. ASSUME NEW n \in Names, RemoveSetting(n) PROVE FilesInv'
    <3>1. prop # NoProp
      BY <2>8 DEF RemoveSetting
    <3>2. prop' # NoProp
      BY <2>8, <2>a DEF RemoveSetting, TypeOK
    <3> QED
      BY <2>8, <3>1, <3>2 DEF RemoveSetting
  <2>9. ASSUME NEW n \in Names, NEW v \in Values, Set(n, v) PROVE FilesInv'
    <3>1. prop # NoProp
      BY <2>9 DEF Set
    <3>2. prop' # NoProp
      BY <2>9, <2>a DEF Set, TypeOK
    <3> QED
      BY <2>9, <3>1, <3>2 DEF Set
  <2>10. CASE Flush
    BY <2>10 DEF Flush
  <2>11. CASE Terminate
    BY <2>11 DEF Terminate
  <2>12. CASE Quit
    BY <2>12 DEF Quit
  <2>13. CASE QuitNoXsm
    BY <2>13 DEF QuitNoXsm
  <2>14. CASE SaveFails
    BY <2>14 DEF SaveFails, SaveReturns, TypeOK
  <2>15. CASE OpenConf
    BY <2>15, <2>a DEF OpenConf, HasProp
  <2>16. CASE WriteConf
    BY <2>16 DEF WriteConf
  <2>17. CASE Undo
    BY <2>17 DEF Undo, SaveReturns, TypeOK
  <2>18. CASE Crash
    BY <2>18 DEF Crash
  <2>19. CASE RemoveStaleLock
    BY <2>19 DEF RemoveStaleLock
  <2>20. ASSUME NEW f \in UserFile, UserEdits(f) PROVE FilesInv'
    BY <2>20 DEF UserEdits
  <2>21. CASE UNCHANGED vars
    BY <2>21 DEF vars
  <2> QED
    BY <2>1, <2>2, <2>3, <2>4, <2>5, <2>6, <2>7, <2>8, <2>9, <2>10, <2>11,
       <2>12, <2>13, <2>14, <2>15, <2>16, <2>17, <2>18, <2>19, <2>20, <2>21
       DEF Next
<1>3. FilesInv => RestoredAfterQuit
  BY DEF FilesInv, RestoredAfterQuit
<1> QED
  BY <1>1, <1>2, <1>3, TypeInvariant, PTL DEF Spec

-----------------------------------------------------------------------------
(***************************************************************************)
(* Durable: the file holds the settings the manager stopped with.          *)
(***************************************************************************)
Clean(list) == list # Empty /\ (\A n \in Names : list[n] \notin Quoted)

DurableInv ==
    /\ pc \in {"off", "noxsm"} => settings = Empty
    /\ pc \in {"off", "noxsm"} /\ Clean(left) => conf = left
    /\ pc \in Running => prop = settings \/ (prop = NoProp /\ settings = Empty)
    /\ pc \in Running \ {"serving"} /\ after # "serving" => left = settings
    /\ pc = "written" => conf = Saved(prop)

(* After an orderly end the settings file holds the settings as they were  *)
(* when the manager was told to stop.                                      *)
THEOREM SettingsDurable == Spec => []Durable
<1>1. Init => DurableInv
  BY DEF Init, DurableInv, Clean, Running
<1>2. TInv /\ TInv' /\ DurableInv /\ [Next]_vars => DurableInv'
  <2> SUFFICES ASSUME TInv, TInv', DurableInv, [Next]_vars PROVE DurableInv'
    OBVIOUS
  <2>a. NoProp \notin Settings
    BY MarkerAssumption
  <2>b. ~Clean(Empty)
    BY DEF Clean
  <2> USE DEF TInv, PropInv, DurableInv, Running, files, ghosts
  <2>1. CASE StartDeclined
    BY <2>1 DEF StartDeclined, TakeLock
  <2>2. CASE StartInitFailed
    BY <2>2 DEF StartInitFailed, TakeLock
  <2>3. CASE StartLoaded
    BY <2>3 DEF StartLoaded, TakeLock
  <2>4. CASE StartUnloaded
    BY <2>4 DEF StartUnloaded, TakeLock
  <2>5. CASE WriteTmp
    BY <2>5 DEF WriteTmp
  <2>6. CASE Backup
    BY <2>6 DEF Backup
  <2>7. CASE Serve
    BY <2>7 DEF Serve
  <2>8. ASSUME NEW n \in Names, RemoveSetting(n) PROVE DurableInv'
    BY <2>8 DEF RemoveSetting
  <2>9. ASSUME NEW n \in Names, NEW v \in Values, Set(n, v) PROVE DurableInv'
    BY <2>9 DEF Set
  <2>10. CASE Flush
    BY <2>10 DEF Flush
  <2>11. CASE Terminate
    BY <2>11 DEF Terminate
  <2>12. CASE Quit
    BY <2>12 DEF Quit
  <2>13. CASE QuitNoXsm
    BY <2>13 DEF QuitNoXsm
  <2>14. CASE SaveFails
    BY <2>14, <2>b DEF SaveFails, SaveReturns
  <2>15. CASE OpenConf
    BY <2>15 DEF OpenConf
  <2>16. CASE WriteConf
    BY <2>16 DEF WriteConf
  <2>17. CASE Undo
    <3>1. prop = settings
      BY <2>17 DEF Undo
    <3>2. Clean(left) /\ after # "serving" => conf = left
      BY <2>17, <3>1 DEF Undo, Clean, Saved
    <3> QED
      BY <2>17, <3>1, <3>2 DEF Undo, SaveReturns, TypeOK
  <2>18. CASE Crash
    BY <2>18, <2>b DEF Crash
  <2>19. CASE RemoveStaleLock
    BY <2>19 DEF RemoveStaleLock
  <2>20. ASSUME NEW f \in UserFile, UserEdits(f) PROVE DurableInv'
    BY <2>20 DEF UserEdits
  <2>21. CASE UNCHANGED vars
    BY <2>21 DEF vars
  <2> QED
    BY <2>1, <2>2, <2>3, <2>4, <2>5, <2>6, <2>7, <2>8, <2>9, <2>10, <2>11,
       <2>12, <2>13, <2>14, <2>15, <2>16, <2>17, <2>18, <2>19, <2>20, <2>21
       DEF Next
<1>3. DurableInv => Durable
  BY DEF DurableInv, Durable, Clean
<1> QED
  BY <1>1, <1>2, <1>3, TypeInvariant, PTL DEF Spec
-----------------------------------------------------------------------------
(***************************************************************************)
(* TextSurvives: where the lines are that the user wrote, at each place a  *)
(* crash can come.                                                         *)
(***************************************************************************)
InXdefaults == mine = TextOf(xdefaults)
InBackup == mine = TextOf(saved)
InTmp == mine = TextOf(tmp)

(* evoke has not renamed ~/.Xdefaults in this session.                     *)
Untouched ==
    \/ pc \in {"off", "noxsm", "loaded", "tmpwritten"}
    \/ pc \in Running /\ prop = NoProp

(* A first crash between the renames leaves the lines in the backup, and   *)
(* no ~/.Xdefaults: the next start has nothing to rename over the backup.  *)
SurvivesInv ==
    mishaps <= 1 /\ mine # NoText =>
        /\ Untouched =>
               InXdefaults \/ (mishaps = 1 /\ InBackup /\ xdefaults = NoFile)
        /\ pc = "tmpwritten" =>
               /\ existed <=> xdefaults # NoFile
               /\ xdefaults # NoFile => InTmp
        /\ pc = "backedup" => xdefaults = NoFile /\ InBackup /\ (mishaps = 0 => InTmp)
        /\ pc \in Running /\ prop # NoProp => InBackup /\ (mishaps = 0 => InXdefaults)

(* What no single mishap, and no number of restarts after it, can lose.    *)
THEOREM TextKept == Spec => []TextSurvives
<1>1. Init => SurvivesInv
  BY DEF Init, SurvivesInv, InXdefaults, Running, Untouched
<1>2. TInv /\ TInv' /\ SurvivesInv /\ [Next]_vars => SurvivesInv'
  <2> SUFFICES ASSUME TInv, TInv', SurvivesInv, [Next]_vars, mishaps' <= 1, mine' # NoText
               PROVE  SurvivesInv'
    BY DEF SurvivesInv
  <2>a. NoProp \notin Settings /\ TextOf(NoFile) = NoText
    BY MarkerAssumption DEF TextOf
  <2>b. xdefaults # NoFile => TextOf(Merged(xdefaults)) = TextOf(xdefaults)
    <3>1. Merged(xdefaults) # NoFile
      BY FileFacts, MarkerAssumption DEF TInv
    <3> QED
      BY <3>1 DEF Merged, TextOf
  <2>c. mishaps \in 0..2 /\ (OneMoreMishap => mishaps = 0 /\ mishaps' = 1)
    BY DEF TInv, TypeOK, OneMoreMishap
  <2> USE DEF TInv, PropInv, SurvivesInv, Running, Untouched, InXdefaults, InBackup, InTmp,
              files, ghosts
  <2>1. CASE StartDeclined
    BY <2>1 DEF StartDeclined, TakeLock
  <2>2. CASE StartInitFailed
    BY <2>2 DEF StartInitFailed, TakeLock
  <2>3. CASE StartLoaded
    BY <2>3 DEF StartLoaded, TakeLock
  <2>4. CASE StartUnloaded
    BY <2>4 DEF StartUnloaded, TakeLock
  <2>5. CASE WriteTmp
    BY <2>5, <2>a, <2>b, <2>c DEF WriteTmp
  <2>6. CASE Backup
    BY <2>6, <2>a, <2>c DEF Backup
  <2>7. CASE Serve
    BY <2>7, <2>a, <2>c DEF Serve, TypeOK
  <2>8. ASSUME NEW n \in Names, RemoveSetting(n) PROVE SurvivesInv'
    <3>1. prop # NoProp
      BY <2>8 DEF RemoveSetting
    <3>2. prop' # NoProp
      BY <2>8, <2>a DEF RemoveSetting, TypeOK
    <3> QED
      BY <2>8, <3>1, <3>2 DEF RemoveSetting
  <2>9. ASSUME NEW n \in Names, NEW v \in Values, Set(n, v) PROVE SurvivesInv'
    <3>1. prop # NoProp
      BY <2>9 DEF Set
    <3>2. prop' # NoProp
      BY <2>9, <2>a DEF Set, TypeOK
    <3> QED
      BY <2>9, <3>1, <3>2 DEF Set
  <2>10. CASE Flush
    BY <2>10 DEF Flush
  <2>11. CASE Terminate
    BY <2>11 DEF Terminate
  <2>12. CASE Quit
    BY <2>12 DEF Quit
  <2>13. CASE QuitNoXsm
    BY <2>13 DEF QuitNoXsm
  <2>14. CASE SaveFails
    BY <2>14, <2>c DEF SaveFails, SaveReturns, TypeOK
  <2>15. CASE OpenConf
    BY <2>15, <2>a DEF OpenConf, HasProp
  <2>16. CASE WriteConf
    BY <2>16 DEF WriteConf
  <2>17. CASE Undo
    BY <2>17, <2>c DEF Undo, SaveReturns, TypeOK
  <2>18. CASE Crash
    BY <2>18, <2>c DEF Crash, Places, TypeOK
  <2>19. CASE RemoveStaleLock
    BY <2>19 DEF RemoveStaleLock
  <2>20. ASSUME NEW f \in UserFile, UserEdits(f) PROVE SurvivesInv'
    BY <2>20, <2>c DEF UserEdits
  <2>21. CASE UNCHANGED vars
    BY <2>21 DEF vars
  <2> QED
    BY <2>1, <2>2, <2>3, <2>4, <2>5, <2>6, <2>7, <2>8, <2>9, <2>10, <2>11,
       <2>12, <2>13, <2>14, <2>15, <2>16, <2>17, <2>18, <2>19, <2>20, <2>21
       DEF Next
<1>3. TInv /\ SurvivesInv => TextSurvives
  <2> SUFFICES ASSUME TInv, SurvivesInv, mishaps <= 1, mine # NoText
               PROVE  InXdefaults \/ InBackup
    BY DEF TextSurvives, InXdefaults, InBackup
  <2> QED
    BY DEF SurvivesInv, TInv, TypeOK, Places, Running, Untouched
<1> QED
  BY <1>1, <1>2, <1>3, TypeInvariant, PTL DEF Spec
=============================================================================

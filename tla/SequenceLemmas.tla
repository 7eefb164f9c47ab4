--------------------------- MODULE SequenceLemmas ---------------------------
(***************************************************************************)
(* What the proofs use of sequences and of the natural numbers: a least    *)
(* element, induction up to a bound, and what the operators that take      *)
(* elements out of a sequence and put them in do to its set of elements,   *)
(* to its freedom of duplicates and to its order.                          *)
(***************************************************************************)
EXTENDS Sieve, Integers, SequencesExt, FiniteSetTheorems, SequenceTheorems,
        WellFoundedInduction, TLAPS

(* A set of natural numbers that is not empty has a least element. *)
LEMMA Least ==
    ASSUME NEW T, T \subseteq Nat, T # {}
    PROVE  \E m \in T : \A n \in T : m <= n
  <1> DEFINE R == OpToRel(<, Nat)
  <1>1. IsWellFoundedOn(R, Nat)
    BY NatLessThanWellFounded
  <1>2. \A x, y \in Nat : x < y => <<x, y>> \in R
    BY DEF OpToRel
  <1> HIDE DEF R
  <1>3. PICK m \in T : \A y \in T : ~ (<<y, m>> \in R)
    BY <1>1, WFMin
  <1>4. \A n \in T : ~ (n < m)
    BY <1>2, <1>3
  <1> QED BY <1>4

(* and a greatest one below a bound. *)
LEMMA Greatest ==
    ASSUME NEW n \in Nat, NEW T, T \subseteq 0..n, T # {}
    PROVE  \E m \in T : \A k \in T : k <= m
  <1> DEFINE U == {i \in 0..n : n - i \in T}
  <1>1. \A k \in T : k \in 0..n /\ n - k \in 0..n /\ n - (n - k) = k
    OBVIOUS
  <1>2. U \subseteq Nat
    OBVIOUS
  <1>3. \A k \in T : n - k \in U
    BY <1>1
  <1> HIDE DEF U
  <1>4. PICK u \in U : \A v \in U : u <= v
    BY <1>2, <1>3, Least
  <1>5. u \in 0..n /\ n - u \in T
    BY <1>4 DEF U
  <1>6. ASSUME NEW k \in T PROVE k <= n - u
    <2>1. u <= n - k
      BY <1>3, <1>4
    <2> QED BY <2>1, <1>1, <1>5
  <1> QED BY <1>5, <1>6

(* Induction up to a bound, with the induction hypothesis as a set.        *)
LEMMA Upward ==
    ASSUME NEW T, 0 \in T, NEW k \in Nat, \A n \in 0..(k - 1) : n \in T => n + 1 \in T
    PROVE  \A n \in 0..k : n \in T
  <1> SUFFICES ASSUME NEW n \in 0..k, n \notin T PROVE FALSE
    OBVIOUS
  <1> DEFINE U == {i \in Nat : i <= k /\ i \notin T}
  <1>1. U \subseteq Nat /\ n \in U
    OBVIOUS
  <1>2. PICK m \in U : \A i \in U : m <= i
    BY <1>1, Least
  <1>3. m - 1 \in 0..(k - 1) /\ m - 1 \in T
    BY <1>2
  <1> QED BY <1>2, <1>3

----------------------------------------------------------------------------
(* The function that Sieve defines, up to n.                               *)
SieveStep(q, keep, g, i) ==
    IF i = 0 THEN <<>> ELSE IF q[i] \in keep THEN Append(g[i - 1], q[i]) ELSE g[i - 1]

IsSieve(q, keep, g, n) == g = [i \in 0..n |-> SieveStep(q, keep, g, i)]

(* There is such a function, *)
LEMMA SieveExists ==
    ASSUME NEW S, NEW q \in Seq(S), NEW keep
    PROVE  \E g : IsSieve(q, keep, g, Len(q))
  <1> DEFINE T == {n \in Nat : \E g : IsSieve(q, keep, g, n)}
  <1>1. 0 \in T
    <2> DEFINE g == [i \in 0..0 |-> <<>>]
    <2>1. IsSieve(q, keep, g, 0)
      BY DEF IsSieve, SieveStep
    <2> QED BY <2>1
  <1>2. ASSUME NEW n \in Nat, n \in T
        PROVE  n + 1 \in T
    <2>1. PICK g : IsSieve(q, keep, g, n)
      BY <1>2
    <2> DEFINE h == [i \in 0..(n + 1) |-> IF i = n + 1 THEN SieveStep(q, keep, g, i) ELSE g[i]]
    <2>2. \A i \in 0..n : g[i] = SieveStep(q, keep, g, i)
      BY <2>1 DEF IsSieve
    <2>3. \A i \in 0..(n + 1) : i # 0 => h[i - 1] = g[i - 1]
      OBVIOUS
    <2>4. \A i \in 0..(n + 1) : SieveStep(q, keep, h, i) = SieveStep(q, keep, g, i)
      <3> HIDE DEF h
      <3> QED BY <2>3 DEF SieveStep
    <2>5. \A i \in 0..(n + 1) : h[i] = SieveStep(q, keep, h, i)
      BY <2>2, <2>4
    <2>6. IsSieve(q, keep, h, n + 1)
      <3>1. h = [i \in 0..(n + 1) |-> h[i]]
        OBVIOUS
      <3> HIDE DEF h
      <3> QED BY <2>5, <3>1 DEF IsSieve
    <2> QED BY <2>6
  <1>3. Len(q) \in Nat
    OBVIOUS
  <1> HIDE DEF T
  <1>4. \A n \in 0..(Len(q) - 1) : n \in T => n + 1 \in T
    BY <1>2, <1>3
  <1>5. Len(q) \in T
    <2>1. \A n \in 0..Len(q) : n \in T
      BY <1>1, <1>3, <1>4, Upward
    <2> QED BY <1>3, <2>1
  <1> QED BY <1>5 DEF T

(* and Sieve is its last value. *)
LEMMA SieveDefined ==
    ASSUME NEW S, NEW q \in Seq(S), NEW keep
    PROVE  \E g : IsSieve(q, keep, g, Len(q)) /\ Sieve(q, keep) = g[Len(q)]
  <1> DEFINE f == CHOOSE g : g = [i \in 0..Len(q) |-> IF i = 0 THEN <<>>
                              ELSE IF q[i] \in keep THEN Append(g[i - 1], q[i]) ELSE g[i - 1]]
  <1>1. Sieve(q, keep) = f[Len(q)]
    BY DEF Sieve
  <1>2. \E g : g = [i \in 0..Len(q) |-> IF i = 0 THEN <<>>
                              ELSE IF q[i] \in keep THEN Append(g[i - 1], q[i]) ELSE g[i - 1]]
    BY SieveExists DEF IsSieve, SieveStep
  <1>3. f = [i \in 0..Len(q) |-> IF i = 0 THEN <<>>
                              ELSE IF q[i] \in keep THEN Append(f[i - 1], q[i]) ELSE f[i - 1]]
    BY <1>2
  <1> HIDE DEF f
  <1>4. IsSieve(q, keep, f, Len(q))
    BY <1>3 DEF IsSieve, SieveStep
  <1> QED BY <1>1, <1>4

(* The elements kept are those at places that rise: p[i] is the place in q *)
(* of the i-th one.                                                        *)
TakenAt(q, keep, r, n, p) ==
    /\ p \in [1..Len(r) -> 1..n]
    /\ \A i \in 1..Len(r) : r[i] = q[p[i]] /\ r[i] \in keep
    /\ \A i, j \in 1..Len(r) : i < j => p[i] < p[j]
    /\ \A j \in 1..n : q[j] \in keep => \E i \in 1..Len(r) : p[i] = j

(* One more element of q, kept or not. *)
LEMMA TakenAtStep ==
    ASSUME NEW S, NEW q \in Seq(S), NEW keep, NEW r \in Seq(S), NEW n \in 0..(Len(q) - 1),
           NEW p, TakenAt(q, keep, r, n, p)
    PROVE  \E o : TakenAt(q, keep, IF q[n + 1] \in keep THEN Append(r, q[n + 1]) ELSE r, n + 1, o)
  <1>1. Len(r) \in Nat /\ Len(q) \in Nat /\ n \in Nat
    OBVIOUS
  <1>2. CASE q[n + 1] \notin keep
    <2>1. TakenAt(q, keep, r, n + 1, p)
      <3>1. p \in [1..Len(r) -> 1..(n + 1)]
        BY <1>1 DEF TakenAt
      <3>2. \A j \in 1..(n + 1) : j \in 1..n \/ j = n + 1
        BY <1>1
      <3> QED BY <1>2, <3>1, <3>2 DEF TakenAt
    <2> QED BY <1>2, <2>1
  <1>3. CASE q[n + 1] \in keep
    <2> DEFINE u == Append(r, q[n + 1])
               o == [i \in 1..(Len(r) + 1) |-> IF i = Len(r) + 1 THEN n + 1 ELSE p[i]]
    <2>1. n + 1 \in 1..Len(q) /\ q[n + 1] \in S
      BY <1>1
    <2>2. Len(u) = Len(r) + 1 /\ u[Len(r) + 1] = q[n + 1] /\ (\A i \in 1..Len(r) : u[i] = r[i])
      BY <2>1, AppendProperties
    <2>3. \A i \in 1..(Len(r) + 1) : 
                (i \in 1..Len(r) /\ i # Len(r) + 1) \/ (i = Len(r) + 1 /\ i \notin 1..Len(r))
      BY <1>1
    <2>4. o[Len(r) + 1] = n + 1 /\ (\A i \in 1..Len(r) : o[i] = p[i] /\ p[i] \in 1..n)
      <3>1. \A i \in 1..Len(r) : p[i] \in 1..n
        BY DEF TakenAt
      <3>2. \A i \in 1..Len(r) : i \in 1..(Len(r) + 1) /\ i # Len(r) + 1
        BY <1>1
      <3>3. \A i \in 1..Len(r) : o[i] = p[i]
        BY <3>2
      <3>4. Len(r) + 1 \in 1..(Len(r) + 1)
        BY <1>1
      <3>5. o[Len(r) + 1] = n + 1
        BY <3>4
      <3> QED BY <3>1, <3>3, <3>5
    <2>5. o \in [1..(Len(r) + 1) -> 1..(n + 1)]
      BY <1>1, <2>3 DEF TakenAt
    <2> HIDE DEF u, o
    <2>6. \A i \in 1..Len(u) : u[i] = q[o[i]] /\ u[i] \in keep
      BY <1>3, <2>2, <2>3, <2>4 DEF TakenAt
    <2>7. ASSUME NEW i \in 1..Len(u), NEW j \in 1..Len(u), i < j PROVE o[i] < o[j]
      <3>1. i \in 1..Len(r)
        BY <1>1, <2>2, <2>7
      <3>2. CASE j \in 1..Len(r)
        BY <3>1, <3>2, <2>4, <2>7 DEF TakenAt
      <3>3. CASE j = Len(r) + 1
        <4>1. o[i] \in 1..n /\ o[j] = n + 1
          BY <3>1, <3>3, <2>4
        <4> QED BY <4>1, <1>1
      <3> QED BY <3>2, <3>3, <2>2, <2>3
    <2>8. ASSUME NEW j \in 1..(n + 1), q[j] \in keep PROVE \E i \in 1..Len(u) : o[i] = j
      <3>1. CASE j = n + 1
        <4>1. Len(r) + 1 \in 1..Len(u)
          BY <1>1, <2>2
        <4> QED BY <3>1, <4>1, <2>4
      <3>2. CASE j \in 1..n
        <4>1. PICK i \in 1..Len(r) : p[i] = j
          BY <3>2, <2>8 DEF TakenAt
        <4>2. i \in 1..Len(u)
          BY <1>1, <2>2
        <4> QED BY <4>1, <4>2, <2>4
      <3> QED BY <3>1, <3>2, <1>1
    <2>9. TakenAt(q, keep, u, n + 1, o)
      BY <2>2, <2>5, <2>6, <2>7, <2>8 DEF TakenAt
    <2> QED BY <1>3, <2>9 DEF u
  <1> QED BY <1>2, <1>3

(* So it is for the whole sequence. *)
LEMMA SievePlaces ==
    ASSUME NEW S, NEW q \in Seq(S), NEW keep
    PROVE  /\ Sieve(q, keep) \in Seq(S)
           /\ \E p : TakenAt(q, keep, Sieve(q, keep), Len(q), p)
  <1>1. PICK g : IsSieve(q, keep, g, Len(q)) /\ Sieve(q, keep) = g[Len(q)]
    BY SieveDefined
  <1>2. Len(q) \in Nat
    OBVIOUS
  <1>3. \A i \in 0..Len(q) : g[i] = SieveStep(q, keep, g, i)
    BY <1>1 DEF IsSieve
  <1> DEFINE T == {n \in 0..Len(q) : g[n] \in Seq(S) /\ \E p : TakenAt(q, keep, g[n], n, p)}
  <1>4. 0 \in T
    <2>1. g[0] = <<>>
      BY <1>2, <1>3 DEF SieveStep
    <2> DEFINE p == [i \in 1..0 |-> i]
    <2>2. <<>> \in Seq(S) /\ Len(<<>>) = 0
      OBVIOUS
    <2>3. p \in [1..0 -> 1..0]
      OBVIOUS
    <2> HIDE DEF p
    <2>4. TakenAt(q, keep, <<>>, 0, p)
      BY <2>2, <2>3 DEF TakenAt
    <2>5. 0 \in 0..Len(q) /\ g[0] \in Seq(S)
      BY <1>2, <2>1, <2>2
    <2>6. TakenAt(q, keep, g[0], 0, p)
      BY <2>1, <2>4
    <2> QED BY <2>5, <2>6
  <1>5. ASSUME NEW n \in 0..(Len(q) - 1), n \in T PROVE n + 1 \in T
    <2>1. PICK p : TakenAt(q, keep, g[n], n, p)
      BY <1>5
    <2>2. n + 1 \in 0..Len(q) /\ n + 1 # 0 /\ (n + 1) - 1 = n /\ n + 1 \in 1..Len(q)
      BY <1>2
    <2>3. g[n + 1] = IF q[n + 1] \in keep THEN Append(g[n], q[n + 1]) ELSE g[n]
      BY <1>3, <2>2 DEF SieveStep
    <2>4. g[n + 1] \in Seq(S)
      BY <1>5, <2>2, <2>3
    <2>5. \E o : TakenAt(q, keep, g[n + 1], n + 1, o)
      BY <1>5, <2>1, <2>3, TakenAtStep
    <2> QED BY <2>2, <2>4, <2>5
  <1> HIDE DEF T
  <1>6. \A n \in 0..(Len(q) - 1) : n \in T => n + 1 \in T
    BY <1>5
  <1>7. Len(q) \in T
    <2>1. \A n \in 0..Len(q) : n \in T
      BY <1>2, <1>4, <1>6, Upward
    <2> QED BY <1>2, <2>1
  <1> QED BY <1>1, <1>7 DEF T

(* What Sieve does to the set of elements, to freedom of duplicates and to *)
(* the length.                                                             *)
LEMMA SieveElements ==
    ASSUME NEW S, NEW q \in Seq(S), NEW keep
    PROVE  /\ Sieve(q, keep) \in Seq(S)
           /\ ToSet(Sieve(q, keep)) = ToSet(q) \cap keep
           /\ IsInjective(q) => IsInjective(Sieve(q, keep))
  <1> DEFINE r == Sieve(q, keep)
  <1>1. r \in Seq(S)
    BY SievePlaces
  <1>2. PICK p : TakenAt(q, keep, r, Len(q), p)
    BY SievePlaces
  <1> HIDE DEF r
  <1>3. DOMAIN r = 1..Len(r) /\ DOMAIN q = 1..Len(q) /\ Len(r) \in Nat /\ Len(q) \in Nat
    BY <1>1, LenProperties
  <1>4. ToSet(r) = ToSet(q) \cap keep
    <2>1. ASSUME NEW x \in ToSet(r) PROVE x \in ToSet(q) \cap keep
      <3>1. PICK i \in 1..Len(r) : r[i] = x
        BY <1>3 DEF ToSet
      <3>2. p[i] \in 1..Len(q) /\ q[p[i]] = x /\ x \in keep
        BY <1>2, <3>1 DEF TakenAt
      <3> QED BY <3>2, <1>3 DEF ToSet
    <2>2. ASSUME NEW x \in ToSet(q) \cap keep PROVE x \in ToSet(r)
      <3>1. PICK j \in 1..Len(q) : q[j] = x
        BY <1>3 DEF ToSet
      <3>2. PICK i \in 1..Len(r) : p[i] = j
        BY <1>2, <3>1 DEF TakenAt
      <3>3. r[i] = x
        BY <1>2, <3>1, <3>2 DEF TakenAt
      <3> QED BY <3>3, <1>3 DEF ToSet
    <2> QED BY <2>1, <2>2
  <1>5. ASSUME IsInjective(q) PROVE IsInjective(r)
    <2> SUFFICES ASSUME NEW i \in 1..Len(r), NEW j \in 1..Len(r), r[i] = r[j] PROVE i = j
      BY <1>3 DEF IsInjective
    <2>1. p[i] \in 1..Len(q) /\ p[j] \in 1..Len(q) /\ q[p[i]] = q[p[j]]
      BY <1>2 DEF TakenAt
    <2>2. p[i] = p[j]
      BY <1>5, <2>1, <1>3 DEF IsInjective
    <2>3. ~ (p[i] < p[j]) /\ ~ (p[j] < p[i])
      BY <2>1, <2>2
    <2>4. ~ (i < j) /\ ~ (j < i)
      BY <1>2, <2>3 DEF TakenAt
    <2> QED BY <2>4, <1>3
  <1> QED BY <1>1, <1>4, <1>5 DEF r

(* v is before w in q. *)
Before(q, v, w) == \E i, j \in 1..Len(q) : i < j /\ q[i] = v /\ q[j] = w

(* What is kept stays in its order. *)
LEMMA SieveOrder ==
    ASSUME NEW S, NEW q \in Seq(S), NEW keep, NEW v \in keep, NEW w \in keep, Before(q, v, w)
    PROVE  Before(Sieve(q, keep), v, w)
  <1> DEFINE r == Sieve(q, keep)
  <1>0. PICK i, j \in 1..Len(q) : i < j /\ q[i] = v /\ q[j] = w
    BY DEF Before
  <1>1. PICK p : TakenAt(q, keep, r, Len(q), p)
    BY SievePlaces
  <1>2. r \in Seq(S) /\ Len(r) \in Nat
    BY SievePlaces
  <1> HIDE DEF r
  <1>3. PICK k \in 1..Len(r) : p[k] = i
    BY <1>0, <1>1 DEF TakenAt
  <1>4. PICK l \in 1..Len(r) : p[l] = j
    BY <1>0, <1>1 DEF TakenAt
  <1>5. r[k] = q[i] /\ r[l] = q[j]
    BY <1>1, <1>3, <1>4 DEF TakenAt
  <1>6. ~ (l < k) /\ l # k
    <2>1. ~ (p[l] < p[k]) /\ p[l] # p[k]
      BY <1>0, <1>3, <1>4
    <2> QED BY <2>1, <1>1 DEF TakenAt
  <1>7. k < l
    BY <1>2, <1>6
  <1> QED BY <1>0, <1>5, <1>7 DEF Before, r

----------------------------------------------------------------------------
(* One element more at the end, in the set already or not. *)
LEMMA AppendElements ==
    ASSUME NEW S, NEW q \in Seq(S), NEW e \in S
    PROVE  Append(q, e) \in Seq(S) /\ ToSet(Append(q, e)) = ToSet(q) \cup {e}
  <1> DEFINE r == Append(q, e)
  <1>1. /\ r \in Seq(S) /\ Len(r) = Len(q) + 1 /\ r[Len(q) + 1] = e
        /\ \A j \in 1..Len(q) : r[j] = q[j]
    BY AppendProperties
  <1> HIDE DEF r
  <1>2. Len(q) \in Nat /\ DOMAIN q = 1..Len(q) /\ DOMAIN r = 1..(Len(q) + 1)
    BY <1>1, LenProperties
  <1>3. \A j \in 1..(Len(q) + 1) : j \in 1..Len(q) \/ j = Len(q) + 1
    BY <1>2
  <1> QED BY <1>1, <1>2, <1>3 DEF r, ToSet

(* A sequence has elements of its set, and none when it is empty. *)
LEMMA ToSetOfSeq ==
    ASSUME NEW S, NEW q \in Seq(S)
    PROVE  /\ ToSet(q) \subseteq S
           /\ (q = <<>>) <=> (ToSet(q) = {})
           /\ q # <<>> => Last(q) \in ToSet(q) /\ Head(q) \in ToSet(q)
           /\ \A e \in S : <<e>> \in Seq(S) /\ ToSet(<<e>>) = {e}
  <1>1. DOMAIN q = 1..Len(q) /\ Len(q) \in Nat /\ (q = <<>> <=> Len(q) = 0)
    OBVIOUS
  <1>2. ToSet(q) \subseteq S
    BY <1>1 DEF ToSet
  <1>3. q # <<>> => 1 \in DOMAIN q /\ Len(q) \in DOMAIN q
    BY <1>1
  <1>4. (q = <<>>) => ToSet(q) = {}
    BY DEF ToSet
  <1>5. q # <<>> => Last(q) \in ToSet(q) /\ Head(q) \in ToSet(q)
    <2>1. q # <<>> => Head(q) = q[1]
      OBVIOUS
    <2> QED BY <1>3, <2>1 DEF ToSet, Last
  <1>6. ASSUME NEW e \in S PROVE <<e>> \in Seq(S) /\ ToSet(<<e>>) = {e}
    <2> DEFINE o == <<e>>
    <2>1. o \in Seq(S) /\ DOMAIN o = {1} /\ o[1] = e
      OBVIOUS
    <2> HIDE DEF o
    <2>2. ToSet(o) = {e}
      BY <2>1 DEF ToSet
    <2> QED BY <2>1, <2>2 DEF o
  <1> QED BY <1>2, <1>4, <1>5, <1>6
----------------------------------------------------------------------------
(* RemoveAt by its elements. *)
LEMMA RemoveAtElements ==
    ASSUME NEW S, NEW q \in Seq(S), NEW i \in 1..Len(q)
    PROVE  /\ RemoveAt(q, i) \in Seq(S)
           /\ Len(RemoveAt(q, i)) = Len(q) - 1
           /\ \A j \in 1..(Len(q) - 1) :
                RemoveAt(q, i)[j] = IF j < i THEN q[j] ELSE q[j + 1]
  <1> DEFINE a == SubSeq(q, 1, i - 1)
             b == SubSeq(q, i + 1, Len(q))
  <1>1. /\ a \in Seq(S) /\ Len(a) = i - 1
        /\ \A j \in 1..(i - 1) : a[j] = q[j]
    BY SMT
  <1>2. /\ b \in Seq(S) /\ Len(b) = Len(q) - i
        /\ \A j \in 1..(Len(q) - i) : b[j] = q[i + j]
    BY SMT
  <1> HIDE DEF a, b
  <1>3. /\ a \o b \in Seq(S) /\ Len(a \o b) = Len(a) + Len(b)
        /\ \A j \in 1..(Len(a) + Len(b)) :
             (a \o b)[j] = IF j <= Len(a) THEN a[j] ELSE b[j - Len(a)]
    BY <1>1, <1>2, ConcatProperties
  <1> DEFINE r == a \o b
  <1> HIDE DEF r
  <1>4. Len(r) = Len(q) - 1
    BY <1>1, <1>2, <1>3, LenProperties DEF r
  <1>5. ASSUME NEW j \in 1..(Len(q) - 1)
        PROVE  r[j] = IF j < i THEN q[j] ELSE q[j + 1]
    <2>1. CASE j < i
      BY <2>1, <1>1, <1>2, <1>3 DEF r
    <2>2. CASE j >= i
      <3>1. r[j] = b[j - (i - 1)]
        BY <2>2, <1>1, <1>2, <1>3 DEF r
      <3>2. j - (i - 1) \in 1..(Len(q) - i) /\ i + (j - (i - 1)) = j + 1
        BY <2>2, LenProperties
      <3> QED BY <3>1, <3>2, <2>2, <1>2
    <2> QED BY <2>1, <2>2
  <1> QED BY <1>3, <1>4, <1>5 DEF a, b, r, RemoveAt

(* InsertAt by its elements. *)
LEMMA InsertAtElements ==
    ASSUME NEW S, NEW q \in Seq(S), NEW i \in 1..(Len(q) + 1), NEW e \in S
    PROVE  /\ InsertAt(q, i, e) \in Seq(S)
           /\ Len(InsertAt(q, i, e)) = Len(q) + 1
           /\ \A j \in 1..(Len(q) + 1) :
                InsertAt(q, i, e)[j] =
                  IF j < i THEN q[j] ELSE IF j = i THEN e ELSE q[j - 1]
  <1> DEFINE a == SubSeq(q, 1, i - 1)
             b == SubSeq(q, i, Len(q))
             m == <<e>>
  <1>1. /\ a \in Seq(S) /\ Len(a) = i - 1
        /\ \A j \in 1..(i - 1) : a[j] = q[j]
    BY SMT
  <1>2. /\ b \in Seq(S) /\ Len(b) = Len(q) - i + 1
        /\ \A j \in 1..(Len(q) - i + 1) : b[j] = q[i + j - 1]
    BY SMT
  <1>3. m \in Seq(S) /\ Len(m) = 1 /\ m[1] = e
    BY SMT
  <1> HIDE DEF a, b, m
  <1>4. /\ a \o m \in Seq(S) /\ Len(a \o m) = Len(a) + Len(m)
        /\ \A j \in 1..(Len(a) + Len(m)) :
             (a \o m)[j] = IF j <= Len(a) THEN a[j] ELSE m[j - Len(a)]
    BY <1>1, <1>3, ConcatProperties
  <1> DEFINE n == a \o m
  <1> HIDE DEF n
  <1>5. n \in Seq(S) /\ Len(n) = i
    BY <1>1, <1>3, <1>4 DEF n
  <1>6. ASSUME NEW j \in 1..i PROVE n[j] = IF j < i THEN q[j] ELSE e
    <2>1. CASE j < i
      BY <2>1, <1>1, <1>3, <1>4 DEF n
    <2>2. CASE j = i
      <3>1. j - Len(a) = 1 /\ j \in 1..(Len(a) + Len(m)) /\ ~ (j <= Len(a))
        BY <2>2, <1>1, <1>3
      <3> QED BY <3>1, <2>2, <1>3, <1>4 DEF n
    <2> QED BY <2>1, <2>2
  <1>7. /\ n \o b \in Seq(S) /\ Len(n \o b) = Len(n) + Len(b)
        /\ \A j \in 1..(Len(n) + Len(b)) :
             (n \o b)[j] = IF j <= Len(n) THEN n[j] ELSE b[j - Len(n)]
    BY <1>2, <1>5, ConcatProperties
  <1> DEFINE r == n \o b
  <1> HIDE DEF r
  <1>8. Len(r) = Len(q) + 1
    BY <1>2, <1>5, <1>7, LenProperties DEF r
  <1>9. ASSUME NEW j \in 1..(Len(q) + 1)
        PROVE  r[j] = IF j < i THEN q[j] ELSE IF j = i THEN e ELSE q[j - 1]
    <2>1. CASE j <= i
      BY <2>1, <1>2, <1>5, <1>6, <1>7 DEF r
    <2>2. CASE j > i
      <3>1. r[j] = b[j - i]
        BY <2>2, <1>2, <1>5, <1>7 DEF r
      <3>2. j - i \in 1..(Len(q) - i + 1) /\ i + (j - i) - 1 = j - 1
        BY <2>2, LenProperties
      <3> QED BY <3>1, <3>2, <2>2, <1>2
    <2> QED BY <2>1, <2>2
  <1> QED BY <1>7, <1>8, <1>9 DEF a, b, m, n, r, InsertAt

(* What is read first and what is left to read. *)
LEMMA TailElements ==
    ASSUME NEW S, NEW q \in Seq(S), q # <<>>
    PROVE  Head(q) \in S /\ Tail(q) \in Seq(S) /\ ToSet(q) = {Head(q)} \cup ToSet(Tail(q))
  <1> DEFINE r == Tail(q)
  <1>1. /\ Head(q) = q[1] /\ q[1] \in S /\ r \in Seq(S) /\ Len(r) = Len(q) - 1
        /\ \A j \in 1..(Len(q) - 1) : r[j] = q[j + 1]
    BY HeadTailProperties
  <1> HIDE DEF r
  <1>2. /\ Len(q) \in Nat /\ Len(q) > 0 /\ DOMAIN q = 1..Len(q) /\ DOMAIN r = 1..(Len(q) - 1)
    BY <1>1, LenProperties, EmptySeq
  <1>3. ASSUME NEW x \in ToSet(q) PROVE x = q[1] \/ x \in ToSet(r)
    <2>1. PICK k \in 1..Len(q) : q[k] = x
      BY <1>2 DEF ToSet
    <2>2. CASE k > 1
      <3>1. k - 1 \in 1..(Len(q) - 1) /\ (k - 1) + 1 = k
        BY <2>2, <1>2
      <3>2. r[k - 1] = x
        BY <3>1, <2>1, <1>1
      <3> QED BY <3>1, <3>2, <1>2 DEF ToSet
    <2> QED BY <2>1, <2>2
  <1>4. ASSUME NEW x \in ToSet(r) PROVE x \in ToSet(q)
    <2>1. PICK k \in 1..(Len(q) - 1) : r[k] = x
      BY <1>2 DEF ToSet
    <2>2. k + 1 \in 1..Len(q) /\ q[k + 1] = x
      BY <2>1, <1>1, <1>2
    <2> QED BY <2>2, <1>2 DEF ToSet
  <1>5. 1 \in 1..Len(q)
    BY <1>2
  <1>6. q[1] \in ToSet(q)
    BY <1>5, <1>2 DEF ToSet
  <1> QED BY <1>1, <1>3, <1>4, <1>6 DEF r

(* RemoveFirst takes out one occurrence of the element. *)
LEMMA RemoveFirstIs ==
    ASSUME NEW S, NEW q \in Seq(S), NEW e \in ToSet(q)
    PROVE  \E i \in 1..Len(q) : q[i] = e /\ RemoveFirst(q, e) = RemoveAt(q, i)
  <1> DEFINE I == {i \in 1..Len(q) : q[i] = e}
             m == SelectInSeq(q, LAMBDA v : v = e)
  <1>1. I \subseteq Nat /\ I # {}
    BY DEF ToSet
  <1>2. m = Min(I)
    BY <1>1 DEF SelectInSeq
  <1>3. \E i \in I : \A j \in I : i <= j
    BY <1>1, Least
  <1>4. Min(I) \in I
    BY <1>3 DEF Min
  <1>5. \E i \in 1..Len(q) : q[i] = e
    BY <1>1
  <1>6. RemoveFirst(q, e) = RemoveAt(q, m)
    BY <1>5 DEF RemoveFirst
  <1> HIDE DEF m
  <1> QED BY <1>2, <1>4, <1>6
----------------------------------------------------------------------------
(* A sequence without duplicates with one element less, *)
LEMMA RemoveOne ==
    ASSUME NEW S, NEW q \in Seq(S), IsInjective(q), NEW i \in 1..Len(q)
    PROVE  /\ RemoveAt(q, i) \in Seq(S) /\ Len(RemoveAt(q, i)) = Len(q) - 1
           /\ IsInjective(RemoveAt(q, i))
           /\ ToSet(RemoveAt(q, i)) = ToSet(q) \ {q[i]}
  <1> DEFINE r == RemoveAt(q, i)
  <1>1. /\ r \in Seq(S) /\ Len(r) = Len(q) - 1
        /\ \A j \in 1..(Len(q) - 1) : r[j] = IF j < i THEN q[j] ELSE q[j + 1]
    BY RemoveAtElements
  <1> HIDE DEF r
  <1>2. Len(q) \in Nat /\ DOMAIN q = 1..Len(q) /\ DOMAIN r = 1..(Len(q) - 1)
    BY <1>1, LenProperties
  <1>3. IsInjective(r)
    <2>1. SUFFICES ASSUME NEW j \in 1..(Len(q) - 1), NEW k \in 1..(Len(q) - 1), r[j] = r[k]
                   PROVE  j = k
      BY <1>2 DEF IsInjective
    <2> DEFINE old(l) == IF l < i THEN l ELSE l + 1
    <2>2. old(j) \in 1..Len(q) /\ old(k) \in 1..Len(q)
      BY <1>2
    <2>3. r[j] = q[old(j)] /\ r[k] = q[old(k)]
      BY <1>1
    <2>4. old(j) = old(k) => j = k
      BY <1>2
    <2> HIDE DEF old
    <2>5. old(j) = old(k)
      BY <2>1, <2>2, <2>3, <1>2 DEF IsInjective
    <2> QED BY <2>4, <2>5
  <1>4. ASSUME NEW x \in ToSet(r) PROVE x \in ToSet(q) \ {q[i]}
    <2>1. PICK j \in 1..(Len(q) - 1) : r[j] = x
      BY <1>2 DEF ToSet
    <2>2. x = IF j < i THEN q[j] ELSE q[j + 1]
      BY <2>1, <1>1
    <2>3. j \in 1..Len(q) /\ j + 1 \in 1..Len(q) /\ (j < i => j # i) /\ (~ (j < i) => j + 1 # i)
      BY <1>2
    <2> QED BY <2>2, <2>3, <1>2 DEF ToSet, IsInjective
  <1>5. ASSUME NEW x \in ToSet(q) \ {q[i]} PROVE x \in ToSet(r)
    <2>1. PICK k \in 1..Len(q) : q[k] = x
      BY <1>2 DEF ToSet
    <2>2. k # i
      BY <2>1
    <2>3. CASE k < i
      <3>1. k \in 1..(Len(q) - 1) /\ r[k] = x
        BY <2>1, <2>3, <1>1, <1>2
      <3> QED BY <3>1, <1>2 DEF ToSet
    <2>4. CASE k > i
      <3>1. k - 1 \in 1..(Len(q) - 1) /\ ~ (k - 1 < i) /\ (k - 1) + 1 = k
        BY <2>4, <1>2
      <3>2. r[k - 1] = x
        BY <3>1, <2>1, <1>1
      <3> QED BY <3>1, <3>2, <1>2 DEF ToSet
    <2> QED BY <2>2, <2>3, <2>4, <1>2
  <1> QED BY <1>1, <1>3, <1>4, <1>5 DEF r

(* with one more, anywhere, *)
LEMMA InsertOne ==
    ASSUME NEW S, NEW q \in Seq(S), IsInjective(q), NEW i \in 1..(Len(q) + 1),
           NEW e \in S, e \notin ToSet(q)
    PROVE  /\ InsertAt(q, i, e) \in Seq(S) /\ Len(InsertAt(q, i, e)) = Len(q) + 1
           /\ IsInjective(InsertAt(q, i, e))
           /\ ToSet(InsertAt(q, i, e)) = ToSet(q) \cup {e}
  <1> DEFINE r == InsertAt(q, i, e)
  <1>1. /\ r \in Seq(S) /\ Len(r) = Len(q) + 1
        /\ \A j \in 1..(Len(q) + 1) :
             r[j] = IF j < i THEN q[j] ELSE IF j = i THEN e ELSE q[j - 1]
    BY InsertAtElements
  <1> HIDE DEF r
  <1>2. Len(q) \in Nat /\ DOMAIN q = 1..Len(q) /\ DOMAIN r = 1..(Len(q) + 1)
    BY <1>1, LenProperties
  <1>3. \A j \in 1..Len(q) : q[j] # e
    BY <1>2 DEF ToSet
  <1>4. IsInjective(r)
    <2> SUFFICES ASSUME NEW j \in 1..(Len(q) + 1), NEW k \in 1..(Len(q) + 1), r[j] = r[k]
                 PROVE  j = k
      BY <1>2 DEF IsInjective
    <2>1. (j < i => j \in 1..Len(q)) /\ (j > i => j - 1 \in 1..Len(q))
      BY <1>2
    <2>2. (k < i => k \in 1..Len(q)) /\ (k > i => k - 1 \in 1..Len(q))
      BY <1>2
    <2>3. \A l, m \in 1..Len(q) : q[l] = q[m] => l = m
      BY <1>2 DEF IsInjective
    <2>4. (j < i => r[j] = q[j]) /\ (j = i => r[j] = e) /\ (j > i => r[j] = q[j - 1])
      BY <1>1, <1>2
    <2>5. (k < i => r[k] = q[k]) /\ (k = i => r[k] = e) /\ (k > i => r[k] = q[k - 1])
      BY <1>1, <1>2
    <2>6. CASE j = i
      BY <2>6, <1>2, <1>3, <2>2, <2>4, <2>5
    <2>7. CASE k = i
      BY <2>7, <1>2, <1>3, <2>1, <2>4, <2>5
    <2>8. CASE j < i /\ k < i
      BY <2>8, <2>1, <2>2, <2>3, <2>4, <2>5
    <2>9. CASE j < i /\ k > i
      <3>1. q[j] = q[k - 1]
        BY <2>9, <2>4, <2>5
      <3>2. j = k - 1
        BY <3>1, <2>9, <2>1, <2>2, <2>3
      <3> QED BY <3>2, <2>9, <1>2
    <2>10. CASE j > i /\ k < i
      <3>1. q[j - 1] = q[k]
        BY <2>10, <2>4, <2>5
      <3>2. j - 1 = k
        BY <3>1, <2>10, <2>1, <2>2, <2>3
      <3> QED BY <3>2, <2>10, <1>2
    <2>11. CASE j > i /\ k > i
      <3>1. q[j - 1] = q[k - 1]
        BY <2>11, <2>4, <2>5
      <3>2. j - 1 = k - 1
        BY <3>1, <2>11, <2>1, <2>2, <2>3
      <3> QED BY <3>2, <2>11, <1>2
    <2> QED BY <2>6, <2>7, <2>8, <2>9, <2>10, <2>11, <1>2
  <1>5. ASSUME NEW x \in ToSet(r) PROVE x \in ToSet(q) \cup {e}
    <2>1. PICK j \in 1..(Len(q) + 1) : r[j] = x
      BY <1>2 DEF ToSet
    <2>2. x = IF j < i THEN q[j] ELSE IF j = i THEN e ELSE q[j - 1]
      BY <2>1, <1>1
    <2>3. (j < i => j \in 1..Len(q)) /\ (j > i => j - 1 \in 1..Len(q))
      BY <1>2
    <2> QED BY <2>2, <2>3, <1>2 DEF ToSet
  <1>6. e \in ToSet(r)
    <2>1. i \in 1..(Len(q) + 1) /\ r[i] = e
      BY <1>1, <1>2
    <2> QED BY <2>1, <1>2 DEF ToSet
  <1>7. ASSUME NEW x \in ToSet(q) PROVE x \in ToSet(r)
    <2>1. PICK k \in 1..Len(q) : q[k] = x
      BY <1>2 DEF ToSet
    <2>2. CASE k < i
      <3>1. k \in 1..(Len(q) + 1) /\ r[k] = x
        BY <2>1, <2>2, <1>1, <1>2
      <3> QED BY <3>1, <1>2 DEF ToSet
    <2>3. CASE k >= i
      <3>1. k + 1 \in 1..(Len(q) + 1) /\ ~ (k + 1 < i) /\ k + 1 # i /\ (k + 1) - 1 = k
        BY <2>3, <1>2
      <3>2. r[k + 1] = x
        BY <3>1, <2>1, <1>1
      <3> QED BY <3>1, <3>2, <1>2 DEF ToSet
    <2> QED BY <2>2, <2>3, <1>2
  <1> QED BY <1>1, <1>4, <1>5, <1>6, <1>7 DEF r

(* at the end, *)
LEMMA AppendOne ==
    ASSUME NEW S, NEW q \in Seq(S), IsInjective(q), NEW e \in S, e \notin ToSet(q)
    PROVE  /\ Append(q, e) \in Seq(S) /\ Len(Append(q, e)) = Len(q) + 1
           /\ IsInjective(Append(q, e))
           /\ ToSet(Append(q, e)) = ToSet(q) \cup {e}
  <1> DEFINE r == Append(q, e)
  <1>1. /\ r \in Seq(S) /\ Len(r) = Len(q) + 1 /\ r[Len(q) + 1] = e
        /\ \A j \in 1..Len(q) : r[j] = q[j]
    BY AppendProperties
  <1> HIDE DEF r
  <1>2. Len(q) \in Nat /\ DOMAIN q = 1..Len(q) /\ DOMAIN r = 1..(Len(q) + 1)
    BY <1>1, LenProperties
  <1>3. \A j \in 1..(Len(q) + 1) : j \in 1..Len(q) \/ j = Len(q) + 1
    BY <1>2
  <1>4. IsInjective(r) /\ ToSet(r) = ToSet(q) \cup {e}
    BY <1>1, <1>2, <1>3 DEF IsInjective, ToSet
  <1> QED BY <1>1, <1>4 DEF r

(* or followed by another that shares nothing with it. *)
LEMMA ConcatApart ==
    ASSUME NEW S, NEW q \in Seq(S), NEW p \in Seq(S), IsInjective(q), IsInjective(p),
           ToSet(q) \cap ToSet(p) = {}
    PROVE  /\ q \o p \in Seq(S) /\ Len(q \o p) = Len(q) + Len(p)
           /\ IsInjective(q \o p)
           /\ ToSet(q \o p) = ToSet(q) \cup ToSet(p)
  <1> DEFINE r == q \o p
  <1>1. /\ r \in Seq(S) /\ Len(r) = Len(q) + Len(p)
        /\ \A j \in 1..(Len(q) + Len(p)) :
             r[j] = IF j <= Len(q) THEN q[j] ELSE p[j - Len(q)]
    BY ConcatProperties
  <1> HIDE DEF r
  <1>2. /\ Len(q) \in Nat /\ DOMAIN q = 1..Len(q)
        /\ Len(p) \in Nat /\ DOMAIN p = 1..Len(p)
        /\ DOMAIN r = 1..(Len(q) + Len(p))
    BY <1>1, LenProperties
  <1>3. \A j \in 1..(Len(q) + Len(p)) :
           \/ j \in 1..Len(q) /\ r[j] = q[j]
           \/ j - Len(q) \in 1..Len(p) /\ r[j] = p[j - Len(q)]
    BY <1>1, <1>2
  <1>4. \A j \in 1..Len(q) : r[j] = q[j] /\ j \in 1..(Len(q) + Len(p))
    BY <1>1, <1>2
  <1>5. ASSUME NEW j \in 1..Len(p)
        PROVE  r[j + Len(q)] = p[j] /\ j + Len(q) \in 1..(Len(q) + Len(p))
    <2>1. j + Len(q) \in 1..(Len(q) + Len(p)) /\ ~ (j + Len(q) <= Len(q)) /\ (j + Len(q)) - Len(q) = j
      BY <1>2
    <2> QED BY <2>1, <1>1
  <1>6. IsInjective(r)
    <2> SUFFICES ASSUME NEW j \in 1..(Len(q) + Len(p)), NEW k \in 1..(Len(q) + Len(p)),
                        r[j] = r[k]
                 PROVE  j = k
      BY <1>2 DEF IsInjective
    <2>1. \A l \in 1..Len(q), m \in 1..Len(p) : q[l] # p[m]
      BY <1>2 DEF ToSet
    <2>2. \A l, m \in 1..Len(q) : q[l] = q[m] => l = m
      BY <1>2 DEF IsInjective
    <2>3. \A l, m \in 1..Len(p) : p[l] = p[m] => l = m
      BY <1>2 DEF IsInjective
    <2>4. CASE j \in 1..Len(q) /\ r[j] = q[j]
      <3>1. k \in 1..Len(q) /\ r[k] = q[k]
        BY <2>4, <2>1, <1>3
      <3> QED BY <2>4, <3>1, <2>2
    <2>5. CASE j - Len(q) \in 1..Len(p) /\ r[j] = p[j - Len(q)]
      <3>1. k - Len(q) \in 1..Len(p) /\ r[k] = p[k - Len(q)]
        BY <2>5, <2>1, <1>3
      <3>2. j - Len(q) = k - Len(q)
        BY <2>5, <3>1, <2>3
      <3> QED BY <3>2, <1>2
    <2> QED BY <1>3, <2>4, <2>5
  <1>7. ToSet(r) = ToSet(q) \cup ToSet(p)
    <2>1. ASSUME NEW x \in ToSet(r) PROVE x \in ToSet(q) \cup ToSet(p)
      BY <1>2, <1>3 DEF ToSet
    <2>2. ASSUME NEW x \in ToSet(q) PROVE x \in ToSet(r)
      BY <1>2, <1>4 DEF ToSet
    <2>3. ASSUME NEW x \in ToSet(p) PROVE x \in ToSet(r)
      <3>1. PICK j \in 1..Len(p) : p[j] = x
        BY <1>2 DEF ToSet
      <3>2. r[j + Len(q)] = x /\ j + Len(q) \in DOMAIN r
        BY <3>1, <1>5, <1>2
      <3> QED BY <3>2 DEF ToSet
    <2> QED BY <2>1, <2>2, <2>3
  <1> QED BY <1>1, <1>6, <1>7 DEF r

----------------------------------------------------------------------------
(* The elements of a sequence are finitely many. *)
LEMMA FiniteElements ==
    ASSUME NEW S, NEW q \in Seq(S)
    PROVE  IsFiniteSet(ToSet(q)) /\ ToSet(q) \subseteq S
  <1>1. Len(q) \in Nat /\ DOMAIN q = 1..Len(q)
    BY LenProperties
  <1>2. q \in [1..Len(q) -> ToSet(q)]
    <2>1. q = [i \in 1..Len(q) |-> q[i]]
      BY <1>1
    <2>2. \A i \in 1..Len(q) : q[i] \in ToSet(q)
      BY <1>1 DEF ToSet
    <2> QED BY <2>1, <2>2
  <1>3. \A x \in ToSet(q) : \E i \in 1..Len(q) : q[i] = x
    BY <1>1 DEF ToSet
  <1>4. q \in Surjection(1..Len(q), ToSet(q))
    BY <1>2, <1>3 DEF Surjection
  <1>5. IsFiniteSet(1..Len(q))
    BY <1>1, FS_Interval
  <1>6. IsFiniteSet(ToSet(q))
    BY <1>4, <1>5, FS_Surjection DEF ExistsSurjection
  <1> QED BY <1>6, ToSetOfSeq

(* and, if none comes twice, as many as the sequence is long. *)
LEMMA ElementsOnce ==
    ASSUME NEW S, NEW q \in Seq(S), IsInjective(q)
    PROVE  Cardinality(ToSet(q)) = Len(q)
  <1>1. Len(q) \in Nat /\ DOMAIN q = 1..Len(q)
    BY LenProperties
  <1>2. q \in [1..Len(q) -> ToSet(q)]
    <2>1. q = [i \in 1..Len(q) |-> q[i]]
      BY <1>1
    <2>2. \A i \in 1..Len(q) : q[i] \in ToSet(q)
      BY <1>1 DEF ToSet
    <2> QED BY <2>1, <2>2
  <1>3. \A x \in ToSet(q) : \E i \in 1..Len(q) : q[i] = x
    BY <1>1 DEF ToSet
  <1>4. q \in Surjection(1..Len(q), ToSet(q)) /\ q \in Injection(1..Len(q), ToSet(q))
    BY <1>1, <1>2, <1>3 DEF Surjection, Injection, IsInjective
  <1>5. IsFiniteSet(1..Len(q)) /\ Cardinality(1..Len(q)) = Len(q)
    BY <1>1, FS_Interval
  <1>6. IsFiniteSet(ToSet(q))
    BY FiniteElements
  <1>7. Cardinality(1..Len(q)) = Cardinality(ToSet(q))
    BY <1>4, <1>6, FS_Injection
  <1> QED BY <1>5, <1>7

(* How often something is in a queue, *)
Count(q, e) == Cardinality({i \in DOMAIN q : q[i] = e})

(* which is no time when it is not there, *)
LEMMA CountNat ==
    ASSUME NEW S, NEW q \in Seq(S), NEW e
    PROVE  Count(q, e) \in Nat /\ (Count(q, e) = 0 <=> e \notin ToSet(q))
  <1> DEFINE I == {i \in DOMAIN q : q[i] = e}
  <1>1. Len(q) \in Nat /\ DOMAIN q = 1..Len(q)
    BY LenProperties
  <1>2. IsFiniteSet(DOMAIN q)
    BY <1>1, FS_Interval
  <1>3. IsFiniteSet(I)
    BY <1>2, FS_Subset
  <1>4. I = {} <=> e \notin ToSet(q)
    BY <1>1 DEF ToSet
  <1> QED BY <1>3, <1>4, FS_CardinalityType, FS_EmptySet DEF Count

(* when one is posted *)
LEMMA CountAppend ==
    ASSUME NEW S, NEW q \in Seq(S), NEW d \in S, NEW e
    PROVE  Count(Append(q, d), e) = IF d = e THEN Count(q, e) + 1 ELSE Count(q, e)
  <1> DEFINE r == Append(q, d)
             n == Len(q) + 1
             I == {i \in DOMAIN q : q[i] = e}
             J == {i \in DOMAIN r : r[i] = e}
  <1>1. /\ r \in Seq(S) /\ Len(r) = n /\ r[n] = d /\ \A j \in 1..Len(q) : r[j] = q[j]
    BY AppendProperties
  <1> HIDE DEF r
  <1>2. Len(q) \in Nat /\ DOMAIN q = 1..Len(q) /\ DOMAIN r = 1..n
    BY <1>1, LenProperties
  <1>3. IsFiniteSet(DOMAIN q)
    BY <1>2, FS_Interval
  <1>4. IsFiniteSet(I)
    BY <1>3, FS_Subset
  <1>5. n \notin I
    BY <1>2
  <1>6. \A j \in 1..n : j \in 1..Len(q) \/ j = n
    BY <1>2
  <1>7. \A j \in 1..Len(q) : j \in 1..n
    BY <1>2
  <1>8. n \in 1..n
    BY <1>2
  <1>9. CASE d = e
    <2>1. J = I \cup {n}
      BY <1>1, <1>2, <1>6, <1>7, <1>8, <1>9
    <2> HIDE DEF I, J, n
    <2>2. Cardinality(J) = Cardinality(I) + 1
      BY <2>1, <1>4, <1>5, FS_AddElement
    <2> QED BY <2>2, <1>9 DEF Count, I, J, r
  <1>10. CASE d # e
    <2>1. J = I
      BY <1>1, <1>2, <1>6, <1>7, <1>10
    <2> QED BY <2>1, <1>10 DEF Count, r
  <1> QED BY <1>9, <1>10

(* and when one is taken. *)
LEMMA CountTail ==
    ASSUME NEW S, NEW q \in Seq(S), q # <<>>, NEW e
    PROVE  Count(q, e) = IF Head(q) = e THEN Count(Tail(q), e) + 1 ELSE Count(Tail(q), e)
  <1> DEFINE r == Tail(q)
             I == {i \in DOMAIN q : q[i] = e}
             J == {i \in DOMAIN r : r[i] = e}
             K == I \ {1}
             f == [j \in J |-> j + 1]
  <1>1. /\ Head(q) = q[1] /\ r \in Seq(S) /\ Len(r) = Len(q) - 1
        /\ \A j \in 1..(Len(q) - 1) : r[j] = q[j + 1]
    BY HeadTailProperties
  <1> HIDE DEF r
  <1>2. Len(q) \in Nat /\ Len(q) > 0 /\ DOMAIN q = 1..Len(q) /\ DOMAIN r = 1..(Len(q) - 1)
    BY <1>1, LenProperties, EmptySeq
  <1>3. IsFiniteSet(DOMAIN q) /\ IsFiniteSet(DOMAIN r)
    BY <1>2, FS_Interval
  <1>4. IsFiniteSet(I) /\ IsFiniteSet(J)
    BY <1>3, FS_Subset
  <1>5. \A j \in J : j + 1 \in K
    BY <1>1, <1>2
  <1>6. \A j, k \in J : j + 1 = k + 1 => j = k
    BY <1>2
  <1>7. \A k \in K : k - 1 \in J /\ (k - 1) + 1 = k
    <2> SUFFICES ASSUME NEW k \in K PROVE k - 1 \in J /\ (k - 1) + 1 = k
      OBVIOUS
    <2>1. k \in 1..Len(q) /\ k # 1 /\ q[k] = e
      BY <1>2
    <2>2. k - 1 \in 1..(Len(q) - 1) /\ (k - 1) + 1 = k
      BY <2>1, <1>2
    <2>3. r[k - 1] = e
      BY <1>1, <2>1, <2>2
    <2> QED BY <2>2, <2>3, <1>2
  <1>8. 1 \in I <=> q[1] = e
    BY <1>2
  <1> HIDE DEF I, J, K
  <1>9. f \in [J -> K]
    BY <1>5
  <1>10. \A j, k \in J : f[j] = f[k] => j = k
    BY <1>6
  <1>11. \A k \in K : \E j \in J : f[j] = k
    BY <1>7
  <1>12. f \in Bijection(J, K)
    BY <1>9, <1>10, <1>11 DEF Bijection, Injection, Surjection, IsInjective
  <1>13. Cardinality(K) = Cardinality(J)
    BY <1>4, <1>12, FS_Bijection DEF ExistsBijection
  <1>14. Cardinality(I) \in Nat
    BY <1>4, FS_CardinalityType
  <1>15. Cardinality(K) = IF 1 \in I THEN Cardinality(I) - 1 ELSE Cardinality(I)
    BY <1>4, FS_RemoveElement DEF K
  <1>16. Cardinality(I) = IF q[1] = e THEN Cardinality(J) + 1 ELSE Cardinality(J)
    BY <1>8, <1>13, <1>14, <1>15
  <1> QED BY <1>1, <1>16 DEF Count, I, J, r
=============================================================================

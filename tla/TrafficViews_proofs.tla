------------------------ MODULE TrafficViews_proofs -------------------------
(***************************************************************************)
(* What is saved or linked is what is shown, the metric is the one of the  *)
(* view, and what the user did not touch stays, for any columns, panels,   *)
(* features, presets and metrics and for any number of saves.              *)
(*                                                                         *)
(* Lists come first: what Picked, AllInserted and Arranged make of one is  *)
(* told by its set of items and by which item is before which.             *)
(***************************************************************************)
EXTENDS TrafficViews, SequenceTheorems, WellFoundedInduction, TLAPS

(* Induction over the natural numbers, of membership in a set.             *)
LEMMA Induction ==
  ASSUME NEW S, 0 \in S, \A n \in Nat : n \in S => n + 1 \in S
  PROVE  \A n \in Nat : n \in S
<1> DEFINE T == {n \in Nat : n \notin S}
           R == {ss \in Nat \X Nat : ss[1] < ss[2]}
<1> SUFFICES ASSUME T # {} PROVE FALSE
  OBVIOUS
<1>1. IsWellFoundedOn(R, Nat)
  BY NatLessThanWellFounded DEF OpToRel
<1>2. \A x, y \in Nat : x < y => <<x, y>> \in R
  OBVIOUS
<1>3. PICK x \in T : \A y \in T : ~ (<<y, x>> \in R)
  <2> HIDE DEF R
  <2> QED
    BY <1>1, WFMin
<1> HIDE DEF R
<1>4. x # 0 /\ x \in Nat
  OBVIOUS
<1>5. x - 1 \in Nat /\ x - 1 + 1 = x /\ x - 1 < x
  BY <1>4
<1>6. x - 1 \notin T
  BY <1>2, <1>3, <1>4, <1>5
<1> QED
  BY <1>4, <1>5, <1>6

-----------------------------------------------------------------------------
(* Lists.                                                                  *)

(* What a step leads to when it is repeated N times.                       *)
Iterations(T, base, N, step) == {g \in [0..N -> T] : g[0] = base /\ \A n \in 1..N : g[n] = step[n][g[n - 1]]}

(* There is such a thing.                                                  *)
LEMMA Iterates ==
  ASSUME NEW T, NEW base \in T, NEW N \in Nat, NEW step \in [1..N -> [T -> T]]
  PROVE  Iterations(T, base, N, step) # {}
<1> DEFINE G(n) == {g \in [0..n -> T] : g[0] = base /\ \A i \in 1..n : g[i] = step[i][g[i - 1]]}
           S == {n \in Nat : n <= N => G(n) # {}}
<1>1. 0 \in S
  <2> DEFINE g == [i \in 0..0 |-> base]
  <2>1. g \in G(0)
    OBVIOUS
  <2> QED
    BY <2>1
<1>2. ASSUME NEW n \in Nat, n \in S PROVE n + 1 \in S
  <2> SUFFICES ASSUME n + 1 <= N PROVE G(n + 1) # {}
    <3> HIDE DEF G
    <3> QED
      OBVIOUS
  <2>1. n <= N
    OBVIOUS
  <2>2. PICK g \in G(n) : TRUE
    BY <1>2, <2>1
  <2> DEFINE h == [i \in 0..(n + 1) |-> IF i = n + 1 THEN step[n + 1][g[n]] ELSE g[i]]
  <2>3. g \in [0..n -> T] /\ g[0] = base /\ \A i \in 1..n : g[i] = step[i][g[i - 1]]
    BY <2>2
  <2>4. step[n + 1][g[n]] \in T
    <3>1. g[n] \in T /\ n + 1 \in 1..N
      BY <2>3
    <3> QED
      BY <3>1
  <2>5. h \in [0..(n + 1) -> T] /\ h[0] = base
    BY <2>3, <2>4
  <2>6. ASSUME NEW i \in 1..(n + 1) PROVE h[i] = step[i][h[i - 1]]
    <3>1. CASE i = n + 1
      <4>1. h[i] = step[i][g[n]] /\ h[i - 1] = g[n]
        BY <3>1
      <4> QED
        BY <4>1
    <3>2. CASE i # n + 1
      <4>1. i \in 1..n /\ i - 1 # n + 1 /\ i - 1 \in 0..(n + 1) /\ i \in 0..(n + 1)
        BY <3>2
      <4>2. h[i] = g[i] /\ h[i - 1] = g[i - 1]
        BY <3>2, <4>1
      <4> QED
        BY <2>3, <4>1, <4>2
    <3> QED
      BY <3>1, <3>2
  <2>7. h \in G(n + 1)
    <3> HIDE DEF h
    <3> QED
      BY <2>5, <2>6
  <2> QED
    BY <2>7
<1>3. N \in S
  <2> HIDE DEF S
  <2> QED
    BY <1>1, <1>2, Induction
<1>4. G(N) # {}
  <2> HIDE DEF G
  <2>1. N <= N
    OBVIOUS
  <2> QED
    BY <1>3, <2>1
<1> QED
  BY <1>4 DEF Iterations

(* In a list, an item comes before another one.                            *)
Before(s, a, b) == \E i, j \in DOMAIN s : i < j /\ s[i] = a /\ s[j] = b

(* What has been picked of a list after n of its items.                    *)
Upto(p) ==
  CHOOSE u : u = [n \in 0..Len(p[1]) |->
    IF n = 0 THEN <<>> ELSE IF p[1][n] \in p[2] THEN Append(u[n - 1], p[1][n]) ELSE u[n - 1]]

IsUpto(u, s, S) ==
  /\ u \in [0..Len(s) -> Seq(Ids)] /\ u[0] = <<>>
  /\ \A n \in 1..Len(s) : u[n] = IF s[n] \in S THEN Append(u[n - 1], s[n]) ELSE u[n - 1]

(* The lists that Picked goes through, one item at a time.                 *)
LEMMA UptoFacts ==
  ASSUME NEW s \in Seq(Ids), NEW S \in SUBSET Ids, NEW p, p[1] = s, p[2] = S
  PROVE  IsUpto(Upto(p), s, S)
<1> DEFINE N == Len(s)
           T == Seq(Ids)
           step == [n \in 1..N |-> [r \in T |-> IF s[n] \in S THEN Append(r, s[n]) ELSE r]]
           Is(u) == u = [n \in 0..N |->
             IF n = 0 THEN <<>> ELSE IF s[n] \in S THEN Append(u[n - 1], s[n]) ELSE u[n - 1]]
<1>1. N \in Nat /\ <<>> \in T /\ \A n \in 1..N : s[n] \in Ids
  OBVIOUS
<1>2. step \in [1..N -> [T -> T]]
  OBVIOUS
<1>3. PICK g \in [0..N -> T] : g[0] = <<>> /\ \A n \in 1..N : g[n] = step[n][g[n - 1]]
  <2> DEFINE none == <<>>
  <2>1. none \in T
    BY <1>1
  <2> HIDE DEF step, T, N, none
  <2>2. Iterations(T, none, N, step) # {}
    BY <1>1, <1>2, <2>1, Iterates
  <2> QED
    BY <2>2 DEF none, Iterations
<1>4. \A n \in 1..N : g[n] = IF s[n] \in S THEN Append(g[n - 1], s[n]) ELSE g[n - 1]
  <2> SUFFICES ASSUME NEW n \in 1..N
               PROVE  g[n] = IF s[n] \in S THEN Append(g[n - 1], s[n]) ELSE g[n - 1]
    OBVIOUS
  <2>1. n - 1 \in 0..N
    BY <1>1
  <2>2. g[n - 1] \in T
    BY <1>3, <2>1
  <2>3. step[n][g[n - 1]] = IF s[n] \in S THEN Append(g[n - 1], s[n]) ELSE g[n - 1]
    BY <2>2
  <2> QED
    BY <1>3, <2>3
<1>5. Is(g)
  <2>1. g = [n \in 0..N |-> g[n]]
    BY <1>3
  <2>2. \A n \in 0..N : g[n] = IF n = 0 THEN <<>> ELSE IF s[n] \in S THEN Append(g[n - 1], s[n]) ELSE g[n - 1]
    <3>1. \A n \in 0..N : n = 0 \/ n \in 1..N
      BY <1>1
    <3> QED
      BY <1>3, <1>4, <3>1
  <2> QED
    BY <2>1, <2>2, Zenon
<1>6. Is(Upto(p))
  <2>1. Upto(p) = CHOOSE u : Is(u)
    BY DEF Upto
  <2> HIDE DEF Is
  <2> QED
    BY <1>5, <2>1
<1> DEFINE u == Upto(p)
<1>7. \A n \in 1..N : n \in 0..N /\ n # 0 /\ n - 1 \in 0..N
  BY <1>1
<1>8. u = [n \in 0..N |-> u[n]] /\ u[0] = <<>>
      /\ \A n \in 1..N : u[n] = IF s[n] \in S THEN Append(u[n - 1], s[n]) ELSE u[n - 1]
  <2>1. 0 \in 0..N
    BY <1>1
  <2> QED
    BY <1>6, <1>7, <2>1
<1> HIDE DEF u, Is
<1>9. \A k \in Nat : k \in {n \in Nat : n <= N => u[n] \in T}
  <2> DEFINE P == {n \in Nat : n <= N => u[n] \in T}
  <2>1. 0 \in P
    BY <1>1, <1>8
  <2>2. ASSUME NEW n \in Nat, n \in P PROVE n + 1 \in P
    <3> SUFFICES ASSUME n + 1 <= N PROVE u[n + 1] \in T
      BY <1>1
    <3>1. n + 1 \in 1..N /\ n + 1 - 1 = n /\ u[n] \in T /\ s[n + 1] \in Ids
      BY <1>1, <2>2
    <3> DEFINE m == n + 1
    <3>2. m \in 1..N /\ m - 1 = n
      BY <3>1
    <3> HIDE DEF m
    <3>3. u[m] = IF s[m] \in S THEN Append(u[n], s[m]) ELSE u[n]
      BY <1>8, <3>2
    <3>4. s[m] \in Ids
      BY <3>1 DEF m
    <3>5. u[m] \in T
      BY <3>1, <3>3, <3>4
    <3> QED
      BY <3>5 DEF m
  <2> HIDE DEF P
  <2>3. \A n \in Nat : n \in P
    BY <2>1, <2>2, Induction
  <2> QED
    BY <2>3 DEF P
<1>10. \A n \in 0..N : u[n] \in T
  BY <1>1, <1>9
<1>11. u \in [0..N -> T]
  BY <1>8, <1>10
<1> QED
  BY <1>8, <1>11 DEF u, IsUpto

(* All of it. *)
LEMMA OnlyIs ==
  ASSUME NEW s \in Seq(Ids), NEW S \in SUBSET Ids
  PROVE  Only(s, S) = Upto(<<s, S>>)[Len(s)]
<1> DEFINE p == <<s, S>>
<1>1. p \in Seq(Ids) \X SUBSET Ids /\ p[1] = s
  OBVIOUS
<1>2. Picked = [q \in Seq(Ids) \X SUBSET Ids |-> Upto(q)[Len(q[1])]]
  BY DEF Picked, Upto
<1>3. Only(s, S) = Picked[p]
  BY DEF Only
<1> HIDE DEF p
<1> QED
  BY <1>1, <1>2, <1>3 DEF p

(* An item at the end.                                                     *)
LEMMA AppendFacts ==
  ASSUME NEW s \in Seq(Ids), NEW x \in Ids
  PROVE  /\ Append(s, x) \in Seq(Ids) /\ ToSet(Append(s, x)) = ToSet(s) \cup {x}
         /\ \A a, b : Before(Append(s, x), a, b) <=> Before(s, a, b) \/ (a \in ToSet(s) /\ b = x)
<1> DEFINE t == Append(s, x)
           n == Len(s)
<1>1. n \in Nat /\ DOMAIN s = 1..n /\ t \in Seq(Ids) /\ DOMAIN t = 1..(n + 1)
  OBVIOUS
<1>2. t[n + 1] = x /\ \A i \in 1..n : t[i] = s[i] /\ i \in 1..(n + 1)
  BY <1>1
<1> HIDE DEF t, n
<1>3. n + 1 \in 1..(n + 1) /\ \A i \in 1..(n + 1) : i = n + 1 \/ (i \in 1..n /\ i < n + 1)
  BY <1>1
<1>4. ToSet(t) = ToSet(s) \cup {x}
  BY <1>1, <1>2, <1>3 DEF ToSet
<1>5. ASSUME NEW a, NEW b, Before(t, a, b) PROVE Before(s, a, b) \/ (a \in ToSet(s) /\ b = x)
  <2>1. PICK i, j \in 1..(n + 1) : i < j /\ t[i] = a /\ t[j] = b
    BY <1>1, <1>5 DEF Before
  <2>2. i \in 1..n
    BY <1>1, <2>1
  <2>3. a = s[i] /\ a \in ToSet(s)
    BY <1>1, <1>2, <2>1, <2>2 DEF ToSet
  <2>4. CASE j = n + 1
    BY <1>2, <2>1, <2>3, <2>4
  <2>5. CASE j \in 1..n
    BY <1>1, <1>2, <2>1, <2>2, <2>3, <2>5 DEF Before
  <2> QED
    BY <1>3, <2>4, <2>5
<1>6. ASSUME NEW a, NEW b, Before(s, a, b) PROVE Before(t, a, b)
  <2>1. PICK i, j \in 1..n : i < j /\ s[i] = a /\ s[j] = b
    BY <1>1, <1>6 DEF Before
  <2> QED
    BY <1>1, <1>2, <2>1 DEF Before
<1>7. ASSUME NEW a \in ToSet(s) PROVE Before(t, a, x)
  <2>1. PICK i \in 1..n : s[i] = a
    BY <1>1 DEF ToSet
  <2>2. i < n + 1 /\ i \in 1..(n + 1) /\ t[i] = a
    BY <1>2, <1>1, <2>1
  <2> QED
    BY <1>1, <1>2, <1>3, <2>2 DEF Before
<1>8. \A a, b : Before(t, a, b) <=> Before(s, a, b) \/ (a \in ToSet(s) /\ b = x)
  BY <1>5, <1>6, <1>7
<1> QED
  BY <1>1, <1>4, <1>8 DEF t

(* A list after another one.                                               *)
LEMMA ConcatFacts ==
  ASSUME NEW s \in Seq(Ids), NEW r \in Seq(Ids)
  PROVE  /\ s \o r \in Seq(Ids) /\ ToSet(s \o r) = ToSet(s) \cup ToSet(r)
         /\ \A a, b : Before(s \o r, a, b) <=> Before(s, a, b) \/ Before(r, a, b) \/ (a \in ToSet(s) /\ b \in ToSet(r))
<1> DEFINE t == s \o r
           n == Len(s)
           m == Len(r)
<1>1. /\ n \in Nat /\ m \in Nat /\ DOMAIN s = 1..n /\ DOMAIN r = 1..m
      /\ t \in Seq(Ids) /\ DOMAIN t = 1..(n + m)
  OBVIOUS
<1>2. \A i \in 1..n : t[i] = s[i] /\ i \in 1..(n + m)
  OBVIOUS
<1>3. \A i \in 1..m : t[n + i] = r[i] /\ n + i \in 1..(n + m)
  OBVIOUS
<1> HIDE DEF t, n, m
<1>4. \A i \in 1..(n + m) : i \in 1..n \/ (i - n \in 1..m /\ i = n + (i - n))
  BY <1>1
<1>5. ToSet(t) = ToSet(s) \cup ToSet(r)
  <2>1. ASSUME NEW x \in ToSet(t) PROVE x \in ToSet(s) \cup ToSet(r)
    <3>1. PICK i \in 1..(n + m) : t[i] = x
      BY <1>1 DEF ToSet
    <3>2. CASE i \in 1..n
      BY <1>1, <1>2, <3>1, <3>2 DEF ToSet
    <3>3. CASE i - n \in 1..m /\ i = n + (i - n)
      BY <1>1, <1>3, <3>1, <3>3 DEF ToSet
    <3> QED
      BY <1>4, <3>2, <3>3
  <2>2. ASSUME NEW x \in ToSet(s) PROVE x \in ToSet(t)
    BY <1>1, <1>2 DEF ToSet
  <2>3. ASSUME NEW x \in ToSet(r) PROVE x \in ToSet(t)
    BY <1>1, <1>3 DEF ToSet
  <2> QED
    BY <2>1, <2>2, <2>3
<1>6. ASSUME NEW a, NEW b, Before(t, a, b)
      PROVE  Before(s, a, b) \/ Before(r, a, b) \/ (a \in ToSet(s) /\ b \in ToSet(r))
  <2>1. PICK i, j \in 1..(n + m) : i < j /\ t[i] = a /\ t[j] = b
    BY <1>1, <1>6 DEF Before
  <2>2. CASE i \in 1..n /\ j \in 1..n
    <3>1. s[i] = a /\ s[j] = b
      BY <1>2, <2>1, <2>2
    <3> QED
      BY <1>1, <2>1, <2>2, <3>1 DEF Before
  <2>3. CASE i \in 1..n /\ j - n \in 1..m /\ j = n + (j - n)
    <3>1. s[i] = a /\ r[j - n] = b
      BY <1>2, <1>3, <2>1, <2>3
    <3> QED
      BY <1>1, <2>3, <3>1 DEF ToSet
  <2>4. CASE i - n \in 1..m /\ i = n + (i - n) /\ j - n \in 1..m /\ j = n + (j - n)
    <3>1. r[i - n] = a /\ r[j - n] = b /\ i - n < j - n
      BY <1>1, <1>3, <2>1, <2>4
    <3> QED
      BY <1>1, <2>4, <3>1 DEF Before
  <2>5. CASE i - n \in 1..m /\ j \in 1..n
    BY <1>1, <2>1, <2>5
  <2> QED
    BY <1>4, <2>2, <2>3, <2>4, <2>5
<1>7. ASSUME NEW a, NEW b, Before(s, a, b) PROVE Before(t, a, b)
  BY <1>1, <1>2, <1>7 DEF Before
<1>8. ASSUME NEW a, NEW b, Before(r, a, b) PROVE Before(t, a, b)
  <2>1. PICK i, j \in 1..m : i < j /\ r[i] = a /\ r[j] = b
    BY <1>1, <1>8 DEF Before
  <2>2. n + i < n + j
    BY <1>1, <2>1
  <2> QED
    BY <1>1, <1>3, <2>1, <2>2 DEF Before
<1>9. ASSUME NEW a \in ToSet(s), NEW b \in ToSet(r) PROVE Before(t, a, b)
  <2>1. PICK i \in 1..n : s[i] = a
    BY <1>1 DEF ToSet
  <2>2. PICK j \in 1..m : r[j] = b
    BY <1>1 DEF ToSet
  <2>3. i < n + j
    BY <1>1, <2>1, <2>2
  <2> QED
    BY <1>1, <1>2, <1>3, <2>1, <2>2, <2>3 DEF Before
<1>10. \A a, b : Before(t, a, b) <=> Before(s, a, b) \/ Before(r, a, b) \/ (a \in ToSet(s) /\ b \in ToSet(r))
  BY <1>6, <1>7, <1>8, <1>9
<1> QED
  BY <1>1, <1>5, <1>10 DEF t

(* What comes before or after is in the list.                              *)
LEMMA BeforeIn ==
  ASSUME NEW s, NEW a, NEW b, Before(s, a, b)
  PROVE  a \in ToSet(s) /\ b \in ToSet(s)
BY DEF Before, ToSet

(* A list of distinct items has none before itself.                        *)
LEMMA Once ==
  ASSUME NEW s \in Seq(Ids)
  PROVE  IsInjective(s) <=> \A a : ~Before(s, a, a)
<1>1. \A i \in DOMAIN s : i \in Nat
  OBVIOUS
<1>2. ASSUME IsInjective(s), NEW a, Before(s, a, a) PROVE FALSE
  <2>1. PICK i, j \in DOMAIN s : i < j /\ s[i] = a /\ s[j] = a
    BY <1>2 DEF Before
  <2>2. i = j
    BY <1>2, <2>1 DEF IsInjective
  <2> QED
    BY <1>1, <2>1, <2>2
<1>3. ASSUME \A a : ~Before(s, a, a) PROVE IsInjective(s)
  <2>1. ASSUME NEW i \in DOMAIN s, NEW j \in DOMAIN s, s[i] = s[j] PROVE i = j
    <3>1. ~(i < j) /\ ~(j < i)
      BY <1>3, <2>1 DEF Before
    <3> QED
      BY <1>1, <3>1
  <2> QED
    BY <2>1 DEF IsInjective
<1> QED
  BY <1>2, <1>3

(* Lists of the same distinct items in the same order are the same.        *)
LEMMA SamePlaces ==
  ASSUME NEW s \in Seq(Ids), NEW t \in Seq(Ids), IsInjective(s), IsInjective(t), ToSet(s) \subseteq ToSet(t),
         \A a, b : Before(t, a, b) /\ a \in ToSet(s) /\ b \in ToSet(s) => Before(s, a, b),
         NEW k \in DOMAIN s, \A i \in 1..(k - 1) : i \in DOMAIN t /\ t[i] = s[i],
         ToSet(t) \subseteq ToSet(s)
  PROVE  k \in DOMAIN t /\ t[k] = s[k]
<1>1. \A i \in DOMAIN s : i \in Nat /\ i >= 1 /\ \A j \in Nat : j >= 1 /\ j <= i => j \in DOMAIN s
  OBVIOUS
<1>2. \A i \in DOMAIN t : i \in Nat /\ i >= 1 /\ \A j \in Nat : j >= 1 /\ j <= i => j \in DOMAIN t
  OBVIOUS
<1>3. PICK j \in DOMAIN t : t[j] = s[k]
  BY DEF ToSet
<1>4. j >= k
  <2> SUFFICES ASSUME j < k PROVE FALSE
    BY <1>1, <1>2
  <2>1. j \in 1..(k - 1) /\ j \in DOMAIN s
    BY <1>1, <1>2
  <2>2. s[j] = s[k]
    BY <1>3, <2>1
  <2>3. j = k
    BY <2>1, <2>2 DEF IsInjective
  <2> QED
    BY <1>1, <2>3
<1>5. k \in DOMAIN t
  BY <1>1, <1>2, <1>3, <1>4
<1>6. PICK i \in DOMAIN s : s[i] = t[k]
  BY <1>5 DEF ToSet
<1>7. j = k
  <2> SUFFICES ASSUME k < j PROVE FALSE
    BY <1>1, <1>2, <1>3, <1>4
  <2>1. Before(t, t[k], s[k])
    BY <1>3, <1>5 DEF Before
  <2>2. Before(s, t[k], s[k])
    BY <1>6, <2>1 DEF ToSet
  <2>3. PICK x, y \in DOMAIN s : x < y /\ s[x] = t[k] /\ s[y] = s[k]
    BY <2>2 DEF Before
  <2>4. y = k /\ x = i
    BY <1>6, <2>3 DEF IsInjective
  <2>5. i \in 1..(k - 1) /\ k \in Nat
    BY <1>1, <2>3, <2>4
  <2>6. t[i] = t[k] /\ i \in DOMAIN t
    BY <1>6, <2>5
  <2>7. i = k
    BY <1>5, <2>6 DEF IsInjective
  <2> QED
    BY <2>5, <2>7
<1> QED
  BY <1>3, <1>5, <1>7

(* Lists of distinct items that have the same ones, in the same order, are *)
(* equal.                                                                  *)
LEMMA Same ==
  ASSUME NEW s \in Seq(Ids), NEW t \in Seq(Ids), IsInjective(s), IsInjective(t), ToSet(s) = ToSet(t),
         \A a, b : Before(s, a, b) <=> Before(t, a, b)
  PROVE  s = t
<1> DEFINE S == {n \in Nat : \A i \in 1..n : (i \in DOMAIN s <=> i \in DOMAIN t) /\ (i \in DOMAIN s => s[i] = t[i])}
<1>1. 0 \in S
  OBVIOUS
<1>2. ASSUME NEW n \in Nat, n \in S PROVE n + 1 \in S
  <2>1. \A i \in 1..n : (i \in DOMAIN s <=> i \in DOMAIN t) /\ (i \in DOMAIN s => s[i] = t[i])
    BY <1>2
  <2> DEFINE k == n + 1
  <2>2. k - 1 = n /\ \A i \in 1..k : i \in 1..n \/ i = k
    OBVIOUS
  <2>3. k \in DOMAIN s => \A i \in 1..n : i \in DOMAIN s
    OBVIOUS
  <2>4. k \in DOMAIN t => \A i \in 1..n : i \in DOMAIN t
    OBVIOUS
  <2> HIDE DEF k
  <2>5. k \in DOMAIN s => k \in DOMAIN t /\ t[k] = s[k]
    <3> SUFFICES ASSUME k \in DOMAIN s PROVE k \in DOMAIN t /\ t[k] = s[k]
      OBVIOUS
    <3>1. \A i \in 1..(k - 1) : i \in DOMAIN t /\ t[i] = s[i]
      BY <2>1, <2>2, <2>3
    <3> QED
      BY <3>1, SamePlaces
  <2>6. k \in DOMAIN t => k \in DOMAIN s /\ s[k] = t[k]
    <3> SUFFICES ASSUME k \in DOMAIN t PROVE k \in DOMAIN s /\ s[k] = t[k]
      OBVIOUS
    <3>1. \A i \in 1..(k - 1) : i \in DOMAIN s /\ s[i] = t[i]
      BY <2>1, <2>2, <2>4
    <3> QED
      BY <3>1, SamePlaces
  <2>7. \A i \in 1..k : (i \in DOMAIN s <=> i \in DOMAIN t) /\ (i \in DOMAIN s => s[i] = t[i])
    BY <2>1, <2>2, <2>5, <2>6
  <2> QED
    BY <2>7 DEF k
<1>3. \A n \in Nat : n \in S
  <2> HIDE DEF S
  <2> QED
    BY <1>1, <1>2, Induction
<1>4. \A n \in Nat : n >= 1 => (n \in DOMAIN s <=> n \in DOMAIN t) /\ (n \in DOMAIN s => s[n] = t[n])
  <2> SUFFICES ASSUME NEW n \in Nat, n >= 1
               PROVE  (n \in DOMAIN s <=> n \in DOMAIN t) /\ (n \in DOMAIN s => s[n] = t[n])
    OBVIOUS
  <2>1. n \in 1..n
    OBVIOUS
  <2>2. n \in S
    BY <1>3
  <2> QED
    BY <2>1, <2>2
<1> HIDE DEF S
<1>5. \A n \in DOMAIN s \cup DOMAIN t : n \in Nat /\ n >= 1
  OBVIOUS
<1>6. DOMAIN s = DOMAIN t /\ \A n \in DOMAIN s : s[n] = t[n]
  BY <1>4, <1>5
<1>7. s = [n \in DOMAIN s |-> s[n]] /\ t = [n \in DOMAIN t |-> t[n]]
  OBVIOUS
<1> QED
  BY <1>6, <1>7

(* What has been picked of the first n items.                              *)
LEMMA PickedUpto ==
  ASSUME NEW s \in Seq(Ids), NEW S \in SUBSET Ids
  PROVE  /\ Only(s, S) \in Seq(Ids)
         /\ \A x : x \in ToSet(Only(s, S)) <=> x \in S /\ x \in ToSet(s)
         /\ \A a, b : Before(Only(s, S), a, b) <=> a \in S /\ b \in S /\ Before(s, a, b)
<1> DEFINE N == Len(s)
           u == Upto(<<s, S>>)
           Has(n, x) == x \in S /\ \E i \in 1..n : s[i] = x
           Orders(n, a, b) == a \in S /\ b \in S /\ \E i, j \in 1..n : i < j /\ s[i] = a /\ s[j] = b
           P(n) == /\ u[n] \in Seq(Ids)
                   /\ \A x : x \in ToSet(u[n]) <=> Has(n, x)
                   /\ \A a, b : Before(u[n], a, b) <=> Orders(n, a, b)
           T == {n \in Nat : n <= N => P(n)}
<1>1. N \in Nat /\ DOMAIN s = 1..N /\ \A n \in 1..N : s[n] \in Ids
  OBVIOUS
<1>2. /\ u[0] = <<>> /\ \A n \in 0..N : u[n] \in Seq(Ids)
      /\ \A n \in 1..N : u[n] = IF s[n] \in S THEN Append(u[n - 1], s[n]) ELSE u[n - 1]
  <2> DEFINE p == <<s, S>>
  <2>1. p[1] = s /\ p[2] = S
    OBVIOUS
  <2> HIDE DEF p
  <2>2. IsUpto(Upto(p), s, S)
    BY <2>1, UptoFacts
  <2> DEFINE v == Upto(p)
  <2> HIDE DEF v
  <2>3. v \in [0..N -> Seq(Ids)] /\ v[0] = <<>>
        /\ \A n \in 1..N : v[n] = IF s[n] \in S THEN Append(v[n - 1], s[n]) ELSE v[n - 1]
    BY <2>2 DEF v, IsUpto
  <2>4. \A n \in 0..N : v[n] \in Seq(Ids)
    BY <2>3
  <2> QED
    BY <2>3, <2>4 DEF v, p
<1> HIDE DEF u
<1>3. 0 \in T
  <2>1. ToSet(<<>>) = {} /\ \A a, b : ~Before(<<>>, a, b)
    BY DEF ToSet, Before
  <2>2. u[0] = <<>> /\ \A x : ~Has(0, x)
    BY <1>2
  <2>3. \A a, b : ~Orders(0, a, b)
    OBVIOUS
  <2> HIDE DEF Has, Orders
  <2>4. P(0)
    BY <1>1, <1>2, <2>1, <2>2, <2>3
  <2> QED
    BY <2>4
<1>4. ASSUME NEW n \in Nat, n \in T PROVE n + 1 \in T
  <2> SUFFICES ASSUME n + 1 <= N PROVE P(n + 1)
    <3> HIDE DEF P, N
    <3> QED
      BY <1>1
  <2> DEFINE m == n + 1
  <2>0. P(n)
    <3>1. n <= N
      BY <1>1
    <3> HIDE DEF P, N
    <3> QED
      BY <1>4, <3>1
  <2>1. m \in 1..N /\ m - 1 = n /\ \A i \in 1..n : i < m /\ i \in 1..m
    BY <1>1
  <2>2. m \in 1..m /\ \A i \in 1..m : i = m \/ (i \in 1..n /\ i < m)
    OBVIOUS
  <2>3. m \in 0..N /\ s[m] \in Ids
    BY <1>1, <2>1
  <2> HIDE DEF m, u
  <2>4. u[m] = IF s[m] \in S THEN Append(u[n], s[m]) ELSE u[n]
    BY <1>2, <2>1
  <2>5. \A x : Has(m, x) <=> Has(n, x) \/ (x \in S /\ x = s[m])
    BY <2>1, <2>2
  <2>6. \A a, b : Orders(m, a, b) <=> Orders(n, a, b) \/ (Has(n, a) /\ b \in S /\ b = s[m])
    <3>1. ASSUME NEW a, NEW b, Orders(m, a, b) PROVE Orders(n, a, b) \/ (Has(n, a) /\ b \in S /\ b = s[m])
      <4>1. PICK i, j \in 1..m : i < j /\ s[i] = a /\ s[j] = b
        BY <3>1
      <4>2. i \in 1..n
        BY <2>2, <4>1
      <4> QED
        BY <2>2, <3>1, <4>1, <4>2
    <3>2. ASSUME NEW a, NEW b, Orders(n, a, b) PROVE Orders(m, a, b)
      BY <2>1, <3>2
    <3>3. ASSUME NEW a, NEW b, Has(n, a) /\ b \in S /\ b = s[m] PROVE Orders(m, a, b)
      BY <2>1, <2>2, <3>3
    <3> QED
      BY <3>1, <3>2, <3>3
  <2>7. u[m] \in Seq(Ids)
    BY <1>2, <2>3
  <2> HIDE DEF Has, Orders
  <2>8. CASE s[m] \in S
    <3>1. /\ ToSet(u[m]) = ToSet(u[n]) \cup {s[m]}
          /\ \A a, b : Before(u[m], a, b) <=> Before(u[n], a, b) \/ (a \in ToSet(u[n]) /\ b = s[m])
      BY <2>0, <2>1, <2>3, <2>4, <2>8, AppendFacts
    <3>2. \A x : x \in ToSet(u[m]) <=> Has(m, x)
      BY <2>0, <2>1, <2>5, <2>8, <3>1
    <3>3. \A a, b : Before(u[m], a, b) <=> Orders(m, a, b)
      BY <2>0, <2>1, <2>6, <2>8, <3>1
    <3> QED
      BY <2>7, <3>2, <3>3 DEF m
  <2>9. CASE s[m] \notin S
    <3>1. u[m] = u[n]
      BY <2>4, <2>9
    <3>2. \A x : x \in ToSet(u[m]) <=> Has(m, x)
      BY <2>0, <2>1, <2>5, <2>9, <3>1
    <3>3. \A a, b : Before(u[m], a, b) <=> Orders(m, a, b)
      BY <2>0, <2>1, <2>6, <2>9, <3>1
    <3> QED
      BY <2>7, <3>2, <3>3 DEF m
  <2> QED
    BY <2>8, <2>9
<1>5. P(N)
  <2> HIDE DEF P, T
  <2>1. N \in T
    BY <1>1, <1>3, <1>4, Induction
  <2> QED
    BY <1>1, <2>1 DEF T
<1>6. Only(s, S) = u[N]
  BY OnlyIs DEF u
<1>7. \A x : Has(N, x) <=> x \in S /\ x \in ToSet(s)
  BY <1>1 DEF ToSet
<1>8. \A a, b : Orders(N, a, b) <=> a \in S /\ b \in S /\ Before(s, a, b)
  BY <1>1 DEF Before
<1> HIDE DEF u, N, Has, Orders
<1> QED
  BY <1>5, <1>6, <1>7, <1>8

(* The members of a set in a list: those of both, in the order of the list, *)
(* and once if the list has them once.                                     *)
LEMMA OnlyIn ==
  ASSUME NEW s \in Seq(Ids), NEW S \in SUBSET Ids
  PROVE  /\ Only(s, S) \in Seq(Ids) /\ ToSet(Only(s, S)) = S \cap ToSet(s)
         /\ \A a, b : Before(Only(s, S), a, b) <=> a \in S /\ b \in S /\ Before(s, a, b)
         /\ IsInjective(s) => IsInjective(Only(s, S))
<1> DEFINE r == Only(s, S)
<1>1. /\ r \in Seq(Ids) /\ \A x : x \in ToSet(r) <=> x \in S /\ x \in ToSet(s)
      /\ \A a, b : Before(r, a, b) <=> a \in S /\ b \in S /\ Before(s, a, b)
  BY PickedUpto
<1> HIDE DEF r
<1>2. ToSet(r) = S \cap ToSet(s)
  BY <1>1
<1>3. IsInjective(s) => IsInjective(r)
  BY <1>1, Once
<1> QED
  BY <1>1, <1>2, <1>3 DEF r

(* Of a list within the set, nothing is left out.                          *)
LEMMA OnlyAll ==
  ASSUME NEW s \in Seq(Ids), IsInjective(s), NEW S \in SUBSET Ids, ToSet(s) \subseteq S
  PROVE  Only(s, S) = s
<1> DEFINE r == Only(s, S)
<1>1. /\ r \in Seq(Ids) /\ IsInjective(r) /\ ToSet(r) = S \cap ToSet(s)
      /\ \A a, b : Before(r, a, b) <=> a \in S /\ b \in S /\ Before(s, a, b)
  BY OnlyIn
<1> HIDE DEF r
<1>2. \A a, b : Before(s, a, b) => a \in S /\ b \in S
  BY BeforeIn
<1>3. ToSet(r) = ToSet(s) /\ \A a, b : Before(r, a, b) <=> Before(s, a, b)
  BY <1>1, <1>2
<1>4. r = s
  BY <1>1, <1>3, Same
<1> QED
  BY <1>4 DEF r

(* The same in two sets.                                                   *)
LEMMA OnlyBoth ==
  ASSUME NEW s \in Seq(Ids), NEW t \in Seq(Ids), IsInjective(s), IsInjective(t), NEW S \in SUBSET Ids,
         ToSet(s) \cap S = ToSet(t) \cap S,
         \A a, b \in S : Before(s, a, b) <=> Before(t, a, b)
  PROVE  Only(s, S) = Only(t, S)
<1> DEFINE x == Only(s, S)
           y == Only(t, S)
<1>1. /\ x \in Seq(Ids) /\ y \in Seq(Ids) /\ IsInjective(x) /\ IsInjective(y)
      /\ ToSet(x) = ToSet(s) \cap S /\ ToSet(y) = ToSet(t) \cap S
      /\ \A a, b : Before(x, a, b) <=> a \in S /\ b \in S /\ Before(s, a, b)
      /\ \A a, b : Before(y, a, b) <=> a \in S /\ b \in S /\ Before(t, a, b)
  BY OnlyIn
<1> HIDE DEF x, y
<1>2. ToSet(x) = ToSet(y) /\ \A a, b : Before(x, a, b) <=> Before(y, a, b)
  BY <1>1
<1>3. x = y
  BY <1>1, <1>2, Same
<1> QED
  BY <1>3 DEF x, y

(* The items of a list that are not in a set.                              *)
LEMMA WithoutFacts ==
  ASSUME NEW s \in Seq(Ids), NEW S
  PROVE  /\ Without(s, S) \in Seq(Ids) /\ ToSet(Without(s, S)) = ToSet(s) \ S
         /\ \A a, b : Before(Without(s, S), a, b) <=> a \notin S /\ b \notin S /\ Before(s, a, b)
         /\ IsInjective(s) => IsInjective(Without(s, S))
<1>1. ToSet(s) \ S \in SUBSET Ids
  BY DEF ToSet
<1>2. \A a, b : Before(s, a, b) => a \in ToSet(s) /\ b \in ToSet(s)
  BY BeforeIn
<1> QED
  BY <1>1, <1>2, OnlyIn DEF Without

(* Numbers up to a bound have a greatest one.                              *)
LEMMA Greatest ==
  ASSUME NEW N \in Nat, NEW I \in SUBSET (1..N), I # {}
  PROVE  Max(I) \in I
<1> DEFINE S == {n \in Nat : \A J \in SUBSET (1..n) : J # {} => \E x \in J : \A y \in J : x >= y}
<1>1. 0 \in S
  <2>1. \A J \in SUBSET (1..0) : J = {}
    OBVIOUS
  <2> QED
    BY <2>1
<1>2. ASSUME NEW n \in Nat, n \in S PROVE n + 1 \in S
  <2> SUFFICES ASSUME NEW J \in SUBSET (1..(n + 1)), J # {}
               PROVE  \E x \in J : \A y \in J : x >= y
    OBVIOUS
  <2>1. \A i \in 1..(n + 1) : n + 1 >= i /\ (i = n + 1 \/ i \in 1..n)
    OBVIOUS
  <2>2. CASE n + 1 \in J
    BY <2>1, <2>2
  <2>3. CASE n + 1 \notin J
    <3>1. J \in SUBSET (1..n)
      BY <2>1, <2>3
    <3> QED
      BY <1>2, <3>1
  <2> QED
    BY <2>2, <2>3
<1>3. N \in S
  <2> HIDE DEF S
  <2> QED
    BY <1>1, <1>2, Induction
<1>4. \E x \in I : \A y \in I : x >= y
  BY <1>3
<1> QED
  BY <1>4 DEF Max

(* A list with one more item, somewhere.                                   *)
WithOne(t, s, x) ==
  /\ t \in Seq(Ids) /\ ToSet(t) = ToSet(s) \cup {x}
  /\ IsInjective(s) /\ x \notin ToSet(s) => IsInjective(t)
  /\ \A a, b : a # x /\ b # x => (Before(t, a, b) <=> Before(s, a, b))

(* An item between two parts of a list.                                    *)
LEMMA BetweenFacts ==
  ASSUME NEW l \in Seq(Ids), NEW r \in Seq(Ids), NEW x \in Ids
  PROVE  WithOne(l \o <<x>> \o r, l \o r, x)
<1> DEFINE s == l \o r
           e == <<x>>
           m == l \o e
           t == m \o r
<1>1. e \in Seq(Ids) /\ ToSet(e) = {x} /\ \A a, b : ~Before(e, a, b)
  <2>1. DOMAIN e = {1} /\ e[1] = x
    OBVIOUS
  <2> QED
    BY <2>1 DEF ToSet, Before
<1>2. /\ s \in Seq(Ids) /\ ToSet(s) = ToSet(l) \cup ToSet(r)
      /\ \A a, b : Before(s, a, b) <=> Before(l, a, b) \/ Before(r, a, b) \/ (a \in ToSet(l) /\ b \in ToSet(r))
  BY ConcatFacts
<1> HIDE DEF e
<1>3. /\ m \in Seq(Ids) /\ ToSet(m) = ToSet(l) \cup ToSet(e)
      /\ \A a, b : Before(m, a, b) <=> Before(l, a, b) \/ Before(e, a, b) \/ (a \in ToSet(l) /\ b \in ToSet(e))
  BY <1>1, ConcatFacts
<1> HIDE DEF m, s
<1>4. /\ t \in Seq(Ids) /\ ToSet(t) = ToSet(m) \cup ToSet(r)
      /\ \A a, b : Before(t, a, b) <=> Before(m, a, b) \/ Before(r, a, b) \/ (a \in ToSet(m) /\ b \in ToSet(r))
  BY <1>3, ConcatFacts
<1> HIDE DEF t
<1>5. ToSet(t) = ToSet(s) \cup {x}
  BY <1>1, <1>2, <1>3, <1>4
<1>6. \A a, b : Before(m, a, b) <=> Before(l, a, b) \/ (a \in ToSet(l) /\ b = x)
  BY <1>1, <1>3
<1>7. \A a, b : Before(t, a, b) <=> Before(s, a, b) \/ (a \in ToSet(l) /\ b = x) \/ (a = x /\ b \in ToSet(r))
  BY <1>1, <1>2, <1>3, <1>4, <1>6
<1>8. IsInjective(s) /\ x \notin ToSet(s) => IsInjective(t)
  BY <1>2, <1>4, <1>7, Once
<1>9. \A a, b : a # x /\ b # x => (Before(t, a, b) <=> Before(s, a, b))
  BY <1>7
<1>10. WithOne(t, s, x)
  BY <1>4, <1>5, <1>8, <1>9 DEF WithOne
<1> QED
  BY <1>10 DEF t, s, m, e

(* A column is put somewhere in the list.                                  *)
LEMMA InsertedFacts ==
  ASSUME NEW s \in Seq(Ids), NEW x \in Ids, NEW E \in SUBSET Ids
  PROVE  WithOne(Inserted[<<s, x, E>>], s, x)
<1> DEFINE I == {i \in 1..Len(s) : s[i] \in E}
           k == IF I # {} THEN Max(I) ELSE 0
           l == SubSeq(s, 1, k)
           r == SubSeq(s, k + 1, Len(s))
           p == <<s, x, E>>
<1>1. Len(s) \in Nat
  OBVIOUS
<1>2. k \in 0..Len(s)
  <2>1. I # {} => Max(I) \in 1..Len(s)
    <3>1. I \in SUBSET (1..Len(s))
      OBVIOUS
    <3> HIDE DEF I
    <3> QED
      BY <1>1, <3>1, Greatest
  <2> QED
    BY <1>1, <2>1
<1>3. p \in Seq(Ids) \X Ids \X SUBSET Ids /\ p[1] = s /\ p[2] = x /\ p[3] = E
  OBVIOUS
<1>4. Inserted[p] = InsertAt(s, k + 1, x)
  <2>1. Inserted[p] = InsertAt(p[1], SelectLastInSeq(p[1], LAMBDA y : y \in p[3]) + 1, p[2])
    <3> HIDE DEF p
    <3> QED
      BY <1>3 DEF Inserted
  <2>2. SelectLastInSeq(s, LAMBDA y : y \in E) = k
    BY DEF SelectLastInSeq
  <2> HIDE DEF k
  <2>3. Inserted[p] = InsertAt(s, SelectLastInSeq(s, LAMBDA y : y \in E) + 1, x)
    BY <2>1
  <2> QED
    BY <2>2, <2>3
<1> HIDE DEF k
<1>5. InsertAt(s, k + 1, x) = l \o <<x>> \o r
  <2>1. (k + 1) - 1 = k
    BY <1>2
  <2>2. InsertAt(s, k + 1, x) = SubSeq(s, 1, (k + 1) - 1) \o <<x>> \o SubSeq(s, k + 1, Len(s))
    BY Zenon DEF InsertAt
  <2> QED
    BY <2>1, <2>2, Zenon
<1>6. l \in Seq(Ids) /\ r \in Seq(Ids) /\ l \o r = s
  <2>1. l \in Seq(Ids) /\ Len(l) = k /\ \A i \in 1..k : l[i] = s[i]
    BY <1>2
  <2>2. r \in Seq(Ids) /\ Len(r) = Len(s) - k /\ \A i \in 1..(Len(s) - k) : r[i] = s[k + i]
    BY <1>2
  <2> HIDE DEF l, r
  <2>3. l \o r \in Seq(Ids) /\ Len(l \o r) = Len(s)
    BY <1>2, <2>1, <2>2
  <2>4. ASSUME NEW i \in 1..Len(s) PROVE (l \o r)[i] = s[i]
    <3>1. CASE i <= k
      BY <1>2, <2>1, <2>2, <3>1
    <3>2. CASE i > k
      <4>1. i - k \in 1..(Len(s) - k) /\ k + (i - k) = i
        BY <1>2, <3>2
      <4>2. (l \o r)[i] = r[i - k]
        BY <1>2, <2>1, <2>2, <3>2
      <4>3. r[i - k] = s[k + (i - k)]
        BY <2>2, <4>1
      <4> QED
        BY <4>1, <4>2, <4>3
    <3>3. i <= k \/ i > k
      BY <1>1, <1>2
    <3> QED
      BY <3>1, <3>2, <3>3
  <2> DEFINE w == l \o r
  <2> HIDE DEF w
  <2>5. w \in Seq(Ids) /\ Len(w) = Len(s) /\ \A i \in 1..Len(s) : w[i] = s[i]
    BY <2>3, <2>4 DEF w
  <2>6. w = s
    BY <2>5
  <2> QED
    BY <2>1, <2>2, <2>6 DEF w
<1> HIDE DEF l, r
<1>7. WithOne(l \o <<x>> \o r, l \o r, x)
  BY <1>6, BetweenFacts
<1> QED
  BY <1>4, <1>5, <1>6, <1>7

(* A list after some of the missing columns have been inserted.            *)
With(list, missing) ==
  CHOOSE w : w = [n \in 0..Len(missing) |->
    IF n = 0 THEN list ELSE Inserted[<<w[n - 1], missing[n], Earlier(missing[n])>>]]
IsWith(w, list, missing) ==
  /\ w \in [0..Len(missing) -> Seq(Ids)] /\ w[0] = list
  /\ \A n \in 1..Len(missing) : w[n] = Inserted[<<w[n - 1], missing[n], Earlier(missing[n])>>]

(* The lists that AllInserted goes through, one missing item at a time.    *)
LEMMA WithFacts ==
  ASSUME NEW s \in Seq(Ids), NEW missing \in Seq(Ids), \A x \in Ids : Earlier(x) \in SUBSET Ids
  PROVE  IsWith(With(s, missing), s, missing)
<1> DEFINE N == Len(missing)
           T == Seq(Ids)
           step == [n \in 1..N |-> [r \in T |-> Inserted[<<r, missing[n], Earlier(missing[n])>>]]]
           Is(w) == w = [n \in 0..N |->
             IF n = 0 THEN s ELSE Inserted[<<w[n - 1], missing[n], Earlier(missing[n])>>]]
<1>1. N \in Nat /\ s \in T /\ \A n \in 1..N : missing[n] \in Ids
  OBVIOUS
<1>2. \A n \in 1..N, r \in T : Inserted[<<r, missing[n], Earlier(missing[n])>>] \in T
  <2> SUFFICES ASSUME NEW n \in 1..N, NEW r \in T
               PROVE  Inserted[<<r, missing[n], Earlier(missing[n])>>] \in T
    OBVIOUS
  <2> DEFINE x == missing[n]
             E == Earlier(x)
  <2>1. x \in Ids /\ E \in SUBSET Ids
    BY <1>1
  <2> HIDE DEF x, E
  <2>2. Inserted[<<r, x, E>>] \in Seq(Ids)
    BY <2>1, InsertedFacts DEF WithOne
  <2> QED
    BY <2>2 DEF x, E
<1>3. step \in [1..N -> [T -> T]]
  BY <1>2
<1>4. PICK g \in [0..N -> T] : g[0] = s /\ \A n \in 1..N : g[n] = step[n][g[n - 1]]
  <2> HIDE DEF step, T, N
  <2>1. Iterations(T, s, N, step) # {}
    BY <1>1, <1>3, Iterates
  <2> QED
    BY <2>1 DEF Iterations
<1>5. \A n \in 1..N : g[n] = Inserted[<<g[n - 1], missing[n], Earlier(missing[n])>>]
  <2> SUFFICES ASSUME NEW n \in 1..N
               PROVE  g[n] = Inserted[<<g[n - 1], missing[n], Earlier(missing[n])>>]
    OBVIOUS
  <2>1. n - 1 \in 0..N
    BY <1>1
  <2>2. g[n - 1] \in T
    BY <1>4, <2>1
  <2>3. step[n][g[n - 1]] = Inserted[<<g[n - 1], missing[n], Earlier(missing[n])>>]
    BY <2>2
  <2> QED
    BY <1>4, <2>3
<1>6. Is(g)
  <2>1. g = [n \in 0..N |-> g[n]]
    BY <1>4
  <2>2. \A n \in 0..N : g[n] = IF n = 0 THEN s ELSE Inserted[<<g[n - 1], missing[n], Earlier(missing[n])>>]
    <3>1. \A n \in 0..N : n = 0 \/ n \in 1..N
      BY <1>1
    <3> QED
      BY <1>4, <1>5, <3>1
  <2> QED
    BY <2>1, <2>2, Zenon
<1> DEFINE w == With(s, missing)
<1>7. Is(w)
  <2>1. w = CHOOSE v : Is(v)
    BY DEF With
  <2> HIDE DEF Is, w
  <2> QED
    BY <1>6, <2>1
<1>8. \A n \in 1..N : n \in 0..N /\ n # 0 /\ n - 1 \in 0..N
  BY <1>1
<1>9. w = [n \in 0..N |-> w[n]] /\ w[0] = s
      /\ \A n \in 1..N : w[n] = Inserted[<<w[n - 1], missing[n], Earlier(missing[n])>>]
  <2>1. 0 \in 0..N
    BY <1>1
  <2> QED
    BY <1>7, <1>8, <2>1
<1> HIDE DEF w, Is
<1>10. \A k \in Nat : k \in {n \in Nat : n <= N => w[n] \in T}
  <2> DEFINE P == {n \in Nat : n <= N => w[n] \in T}
  <2>1. 0 \in P
    BY <1>1, <1>9
  <2>2. ASSUME NEW n \in Nat, n \in P PROVE n + 1 \in P
    <3> SUFFICES ASSUME n + 1 <= N PROVE w[n + 1] \in T
      BY <1>1
    <3> DEFINE m == n + 1
    <3>1. m \in 1..N /\ m - 1 = n /\ w[n] \in T
      BY <1>1, <2>2
    <3> HIDE DEF m, T
    <3>2. w[m] = Inserted[<<w[n], missing[m], Earlier(missing[m])>>]
      BY <1>9, <3>1
    <3>3. w[m] \in T
      BY <1>2, <3>1, <3>2
    <3> QED
      BY <3>3 DEF m
  <2> HIDE DEF P
  <2>3. \A n \in Nat : n \in P
    BY <2>1, <2>2, Induction
  <2> QED
    BY <2>3 DEF P
<1>11. \A n \in 0..N : w[n] \in T
  BY <1>1, <1>10
<1>12. w \in [0..N -> T]
  BY <1>9, <1>11
<1> QED
  BY <1>9, <1>12 DEF w, IsWith

(* The columns that are missing are added, and the others stay in order.   *)
LEMMA InsertedAll ==
  ASSUME NEW s \in Seq(Ids), NEW missing \in Seq(Ids), \A x \in Ids : Earlier(x) \in SUBSET Ids
  PROVE  /\ AllInserted(s, missing) \in Seq(Ids)
         /\ ToSet(AllInserted(s, missing)) = ToSet(s) \cup ToSet(missing)
         /\ IsInjective(s) /\ IsInjective(missing) /\ ToSet(s) \cap ToSet(missing) = {}
              => IsInjective(AllInserted(s, missing))
         /\ \A a, b : a \notin ToSet(missing) /\ b \notin ToSet(missing)
                        => (Before(AllInserted(s, missing), a, b) <=> Before(s, a, b))
<1> DEFINE N == Len(missing)
           w == With(s, missing)
           Done(n) == {missing[i] : i \in 1..n}
           P(n) == /\ ToSet(w[n]) = ToSet(s) \cup Done(n)
                   /\ IsInjective(s) /\ IsInjective(missing) /\ ToSet(s) \cap ToSet(missing) = {} => IsInjective(w[n])
                   /\ \A a, b : a \notin ToSet(missing) /\ b \notin ToSet(missing) => (Before(w[n], a, b) <=> Before(s, a, b))
           T == {n \in Nat : n <= N => P(n)}
<1>1. N \in Nat /\ DOMAIN missing = 1..N /\ \A n \in 1..N : missing[n] \in Ids /\ missing[n] \in ToSet(missing)
  BY DEF ToSet
<1>2. w \in [0..N -> Seq(Ids)] /\ w[0] = s
      /\ \A n \in 1..N : w[n] = Inserted[<<w[n - 1], missing[n], Earlier(missing[n])>>]
  <2>1. IsWith(With(s, missing), s, missing)
    BY WithFacts
  <2> QED
    BY <2>1 DEF IsWith
<1>3. AllInserted(s, missing) = w[N]
  BY DEF AllInserted, With
<1> HIDE DEF w
<1>4. 0 \in T
  <2>1. Done(0) = {}
    OBVIOUS
  <2>2. P(0)
    BY <1>2, <2>1
  <2> QED
    BY <2>2
<1>5. ASSUME NEW n \in Nat, n \in T PROVE n + 1 \in T
  <2> SUFFICES ASSUME n + 1 <= N PROVE P(n + 1)
    <3> HIDE DEF P, N
    <3> QED
      BY <1>1
  <2> DEFINE m == n + 1
             x == missing[m]
             E == Earlier(x)
             r == w[n]
  <2>1. P(n)
    <3>1. n <= N
      BY <1>1
    <3> HIDE DEF P, N
    <3> QED
      BY <1>5, <3>1
  <2>2. m \in 1..N /\ m - 1 = n /\ n \in 0..N /\ \A i \in 1..n : i \in 1..N /\ i # m
    BY <1>1
  <2>3. Done(m) = Done(n) \cup {x}
    <3>1. \A i \in 1..m : i \in 1..n \/ i = m
      OBVIOUS
    <3>2. m \in 1..m /\ \A i \in 1..n : i \in 1..m
      OBVIOUS
    <3> QED
      BY <3>1, <3>2
  <2>4. IsInjective(missing) => x \notin Done(n)
    BY <1>1, <2>2 DEF IsInjective
  <2> HIDE DEF m
  <2>5. x \in Ids /\ x \in ToSet(missing) /\ E \in SUBSET Ids /\ r \in Seq(Ids)
    BY <1>1, <1>2, <2>2
  <2>6. w[m] = Inserted[<<r, x, E>>]
    BY <1>2, <2>2
  <2> HIDE DEF x, E, r
  <2>7. /\ w[m] \in Seq(Ids) /\ ToSet(w[m]) = ToSet(r) \cup {x}
        /\ IsInjective(r) /\ x \notin ToSet(r) => IsInjective(w[m])
        /\ \A a, b : a # x /\ b # x => (Before(w[m], a, b) <=> Before(r, a, b))
    <3>1. WithOne(Inserted[<<r, x, E>>], r, x)
      BY <2>5, InsertedFacts
    <3> QED
      BY <2>6, <3>1 DEF WithOne
  <2>8. ToSet(w[m]) = ToSet(s) \cup Done(m)
    BY <2>1, <2>3, <2>7 DEF r
  <2>9. IsInjective(s) /\ IsInjective(missing) /\ ToSet(s) \cap ToSet(missing) = {} => IsInjective(w[m])
    <3>1. ToSet(r) = ToSet(s) \cup Done(n)
      BY <2>1 DEF r
    <3> HIDE DEF Done
    <3> QED
      BY <2>1, <2>4, <2>5, <2>7, <3>1 DEF r
  <2>10. \A a, b : a \notin ToSet(missing) /\ b \notin ToSet(missing) => (Before(w[m], a, b) <=> Before(s, a, b))
    BY <2>1, <2>5, <2>7 DEF r
  <2> QED
    BY <2>8, <2>9, <2>10 DEF m
<1>6. P(N)
  <2> HIDE DEF P, T
  <2>1. N \in T
    BY <1>1, <1>4, <1>5, Induction
  <2> QED
    BY <1>1, <2>1 DEF T
<1>7. Done(N) = ToSet(missing) /\ w[N] \in Seq(Ids)
  BY <1>1, <1>2 DEF ToSet
<1> HIDE DEF Done
<1> QED
  BY <1>3, <1>6, <1>7

-----------------------------------------------------------------------------
(* The invariant.                                                          *)

Metrics == {"Bytes"} \cup {Presets[v].metric : v \in DOMAIN Presets} \cup {MetricOf[f] : f \in DOMAIN MetricOf}

Draft == [base : DOMAIN Presets \cup {"none"}, columns : Seq(Ids), panels : Seq(Ids), metric : Metrics]
List == [ids : Seq(Ids), selected : SUBSET Ids]
Pref == [added : Seq(Ids), removed : SUBSET Ids]
Deed == [act : {"load", "metric", "save", "other"}, columns : Seq(Ids), panels : Seq(Ids), metric : Metrics,
         url : Urls]

Types ==
  /\ metric \in Metrics /\ saved \in Metrics /\ own \in Metrics /\ edits \in Nat
  /\ draft \in Draft /\ listed \in [Parts -> List] /\ prefs \in [Parts -> Pref] /\ last \in Deed

(* No item is lost, and preferences are about generic ones.                *)
Lists ==
  \A part \in Parts :
    /\ OfferedSet(part) = {id \in ToSet(Items(part)) : Available(id)}
    /\ \A id \in ToSet(prefs[part].added) \cup prefs[part].removed : Generic(id)
    /\ prefs[part].removed \subseteq ToSet(Items(part))

(* Which effects may be pending, and after what.                           *)
Phases ==
  /\ ~loaded => pending = {} /\ draft = NoDraft /\ last.act = "load"
  /\ "config" \in pending => draft = NoDraft /\ last.act = "load"
  /\ last.act = "save" => pending \subseteq {"draft"}
  /\ loaded /\ view \notin AvailableViews => {"view", "config"} \subseteq pending

(* A load through a link may end in the Default view with the metric of    *)
(* that of the link.                                                       *)
Carried == view = "all" /\ last.act # "metric" /\ Enabled \cap DOMAIN MetricOf # {}

(* Where the metric is to be found: the effect that saves it and the one   *)
(* that checks it are pending whenever it is not.                          *)
Due == IF last.metric \in Allowed THEN last.metric ELSE "Bytes"
MetricKept ==
  /\ view # "all" => saved = own
  /\ ~loaded /\ view = "all" => metric = saved /\ metric = own
  /\ (~loaded \/ "config" \in pending) /\ Enabled \cap DOMAIN MetricOf = {} => metric = "Bytes"
  /\ loaded /\ view = "all" => metric = saved \/ "saved" \in pending
  /\ Ready /\ view = "all" => metric = own
  /\ loaded /\ metric \notin Allowed => "metric" \in pending \/ Carried
  /\ last.act = "metric" => metric \in {last.metric, Due}

UrlKept ==
  last.act = "load" /\ last.url.filters /\ last.url.view # "all" =>
    \/ view = last.url.view
    \/ loaded /\ view = "all" /\ last.url.view \notin AvailableViews

-----------------------------------------------------------------------------
(* Which effects are pending, and the metric.                              *)

LEMMA DidFields ==
  \A act : /\ Did(act).act = act /\ Did(act).columns = <<>> /\ Did(act).panels = <<>> /\ Did(act).metric = "Bytes"
           /\ Did(act).url = NoUrl
BY DEF Did

(* What an edit does not touch.                                            *)
PageKept ==
  /\ Ready
  /\ UNCHANGED <<view, stored, tab, metric, saved, loaded, own>>
  /\ last'.act \in {"save", "other"}
  /\ pending' \subseteq {"draft"}

(* An action that sets neither the view, nor the tab, nor the metric sets  *)
(* off the reconciliation of the draft, if any effect.                     *)
LEMMA ChangedDraft ==
  ASSUME UNCHANGED <<view, tab, metric>>
  PROVE  Changed \subseteq {"draft"}
BY DEF Changed

(* A save leaves the view, the tab and the metric.                         *)
LEMMA SavePage ==
  ASSUME NEW part \in Parts, NEW list, NEW newPrefs, Ready, Save(part, list, newPrefs)
  PROVE  PageKept
<1>1. last'.act \in {"save", "other"}
  <2>1. last' = Chosen(part, list)
    BY DEF Save
  <2>2. Chosen(part, list) = Did("other") \/ Chosen(part, list).act = "save"
    BY DEF Chosen, Did
  <2> QED
    BY <2>1, <2>2, DidFields
<1>2. UNCHANGED <<view, stored, tab, metric, saved, loaded, own>> /\ pending' = Changed \cup {e \in {"draft"} : draft' # draft}
  BY DEF Save
<1>3. pending' \subseteq {"draft"}
  BY <1>2, ChangedDraft
<1> QED
  BY <1>1, <1>2, <1>3 DEF PageKept

Edit == (\E part \in Parts : SaveModal(part)) \/ DragColumn \/ ResetColumns \/ ResetPanels

(* So does every edit, and the reset of the lists.                         *)
LEMMA EditPage ==
  ASSUME Edit \/ RestoreDefaults
  PROVE  PageKept
<1>1. ASSUME NEW part \in Parts, SaveModal(part) PROVE PageKept
  BY <1>1, SavePage DEF SaveModal, MayEdit
<1>2. ASSUME DragColumn PROVE PageKept
  <2>1. "columns" \in Parts
    BY DEF Parts
  <2> QED
    BY <1>2, <2>1, SavePage DEF DragColumn, MayEdit
<1>3. ASSUME ResetPanels PROVE PageKept
  <2>1. "panels" \in Parts
    BY DEF Parts
  <2> QED
    BY <1>3, <2>1, SavePage DEF ResetPanels, MayEdit
<1>4. ASSUME ResetColumns \/ RestoreDefaults PROVE PageKept
  <2>1. last' = Did("other") /\ pending' = Changed /\ UNCHANGED <<view, stored, tab, metric, saved, loaded, own>> /\ Ready
    BY <1>4 DEF ResetColumns, RestoreDefaults, MayEdit
  <2> QED
    BY <2>1, DidFields, ChangedDraft DEF PageKept
<1> QED
  BY <1>1, <1>2, <1>3, <1>4 DEF Edit

(* The cases of a step, the edits taken together.                          *)
LEMMA NextCases ==
  ASSUME [Next]_vars
  PROVE  \/ Effects
         \/ ConfigLoaded
         \/ \E url \in Urls : Load(url)
         \/ \E v \in Views : SelectView(v)
         \/ SelectTab
         \/ \E m \in Metrics : SelectMetric(m)
         \/ Edit
         \/ RestoreDefaults
         \/ Discard
         \/ ResetFilters
         \/ UNCHANGED vars
<1>1. {"Bytes"} \cup {MetricOf[f] : f \in DOMAIN MetricOf} \subseteq Metrics
  BY DEF Metrics
<1> QED
  BY <1>1 DEF Next, Edit

(* The effects, without what they do to lists.                             *)
LEMMA EffectsPage ==
  ASSUME Effects
  PROVE  LET reset == "config" \in pending /\ ~last.url.filters
             toAll == reset \/ ("view" \in pending /\ loaded /\ view \notin AvailableViews)
             forbidden == "metric" \in pending /\ loaded /\ metric \notin Allowed
         IN  /\ pending # {}
             /\ saved' = IF "saved" \in pending THEN Saved ELSE saved
             /\ view' = IF toAll THEN "all" ELSE view
             /\ stored' = (stored \/ toAll)
             /\ metric' = IF toAll THEN saved' ELSE IF forbidden THEN "Bytes" ELSE metric
             /\ UNCHANGED <<tab, prefs, loaded, edits, last>>
             /\ Changed \subseteq pending' /\ pending' \subseteq Changed \cup {"draft"}
             /\ "draft" \notin pending /\ pending' # Changed => FALSE
             /\ own' = IF pending' = {} /\ view' = "all" THEN metric' ELSE own
             /\ draft = NoDraft => draft' = NoDraft
BY DEF Effects

(* The Default view is always available, and no view is called "none".     *)
LEMMA ViewFacts ==
  /\ "all" \in AvailableViews /\ "all" \in Views /\ AvailableViews \subseteq Views /\ "none" \notin Views
  /\ "all" \notin DOMAIN Presets /\ Views \ {"all"} \subseteq DOMAIN Presets /\ "Bytes" \in Allowed
BY ViewsAssumption DEF AvailableViews, Views, Allowed

(* Which effects may be pending, whatever the step: the configuration is   *)
(* loaded before any runs, the view is checked before the user acts, and a *)
(* save leaves the draft at most to be reconciled.                         *)
LEMMA PhasesStep ==
  ASSUME Phases, [Next]_vars
  PROVE  Phases'
<1>0. AvailableViews' = AvailableViews
  BY DEF AvailableViews
<1>1. CASE Effects
  <2>1. loaded /\ loaded' = loaded /\ last' = last
    BY <1>1, EffectsPage DEF Phases
  <2>2. "config" \notin pending'
    BY <1>1, EffectsPage DEF Changed
  <2>3. view' \in AvailableViews
    <3>1. CASE view \in AvailableViews
      BY <1>1, <3>1, EffectsPage, ViewFacts
    <3>2. CASE view \notin AvailableViews
      <4>1. "view" \in pending
        BY <2>1, <3>2 DEF Phases
      <4> QED
        BY <1>1, <2>1, <3>2, <4>1, EffectsPage, ViewFacts
    <3> QED
      BY <3>1, <3>2
  <2>4. ASSUME last.act = "save" PROVE pending' \subseteq {"draft"}
    <3>1. "config" \notin pending /\ "view" \notin pending /\ "metric" \notin pending
      BY <2>4 DEF Phases
    <3>2. UNCHANGED <<view, tab, metric>>
      BY <1>1, <3>1, EffectsPage
    <3> QED
      BY <1>1, <3>2, EffectsPage, ChangedDraft
  <2> QED
    BY <1>0, <2>1, <2>2, <2>3, <2>4 DEF Phases
<1>2. CASE ConfigLoaded
  BY <1>0, <1>2 DEF ConfigLoaded, Phases
<1>3. ASSUME NEW url \in Urls, Load(url) PROVE Phases'
  <2>1. last'.act = "load" /\ draft' = NoDraft /\ loaded' = FALSE /\ pending' = {}
    BY <1>3 DEF Load, Did, Ready
  <2> QED
    BY <2>1 DEF Phases
<1>4. ASSUME NEW v \in Views, SelectView(v) PROVE Phases'
  <2>1. last'.act = "metric" /\ loaded' = TRUE /\ view' \in AvailableViews /\ "config" \notin pending'
    BY <1>4 DEF SelectView, Did, Ready, Changed
  <2> QED
    BY <1>0, <2>1 DEF Phases
<1>5. CASE SelectTab
  <2>1. last'.act = "other" /\ loaded /\ loaded' = loaded /\ pending = {} /\ view' = view /\ "config" \notin pending'
    BY <1>5 DEF SelectTab, Did, Ready, Changed
  <2> QED
    BY <1>0, <2>1 DEF Phases
<1>6. ASSUME NEW m \in Metrics, SelectMetric(m) PROVE Phases'
  <2>1. last'.act = "other" /\ loaded /\ loaded' = loaded /\ pending = {} /\ view' = view /\ "config" \notin pending'
    BY <1>6 DEF SelectMetric, Did, Ready, Changed
  <2> QED
    BY <1>0, <2>1 DEF Phases
<1>7. CASE Edit \/ RestoreDefaults
  <2>1. PageKept
    BY <1>7, EditPage
  <2> QED
    BY <1>0, <2>1 DEF Phases, PageKept, Ready
<1>8. CASE Discard
  <2>1. last'.act = "metric" /\ loaded /\ loaded' = loaded /\ pending = {} /\ view' = view /\ "config" \notin pending'
    BY <1>8 DEF Discard, Did, Ready, Changed
  <2> QED
    BY <1>0, <2>1 DEF Phases
<1>9. CASE ResetFilters
  <2>1. last'.act \in {"metric", "other"} /\ loaded /\ loaded' = loaded /\ view' = "all"
        /\ pending = {} /\ "config" \notin pending'
    BY <1>9 DEF ResetFilters, Did, Ready, Changed
  <2> QED
    BY <1>0, <2>1, ViewFacts DEF Phases
<1>10. CASE UNCHANGED vars
  BY <1>0, <1>10 DEF Phases, vars
<1> QED
  BY <1>1, <1>2, <1>3, <1>4, <1>5, <1>6, <1>7, <1>8, <1>9, <1>10, NextCases

(* The metrics that are allowed depend on the tab and on the view.         *)
LEMMA AllowedSame ==
  ASSUME UNCHANGED <<view, tab>>
  PROVE  Allowed' = Allowed
BY DEF Allowed

(* A step that leaves the page as it is leaves the metric where it is to   *)
(* be found.                                                               *)
LEMMA PageKeptMetric ==
  ASSUME PageKept, MetricKept
  PROVE  MetricKept'
<1>1. Allowed' = Allowed
  BY AllowedSame DEF PageKept
<1>2. last'.act # "metric"
  BY DEF PageKept
<1>3. view' = view /\ metric' = metric /\ saved' = saved /\ own' = own /\ loaded /\ loaded' /\ pending = {}
  BY DEF PageKept, Ready
<1>4. (metric \in Allowed \/ Carried) /\ (view # "all" => saved = own) /\ (view = "all" => metric = saved /\ metric = own)
  BY <1>3 DEF MetricKept, Ready
<1>5. "config" \notin pending'
  BY DEF PageKept
<1> QED
  BY <1>1, <1>2, <1>3, <1>4, <1>5 DEF MetricKept, Carried

(* So do the effects: one that replaces a metric that is not allowed, or   *)
(* that goes back to the Default view, sets off those that save and check  *)
(* it.                                                                     *)
LEMMA MetricEffects ==
  ASSUME Phases, MetricKept, Effects
  PROVE  MetricKept'
<1> DEFINE reset == "config" \in pending /\ ~last.url.filters
           toAll == reset \/ ("view" \in pending /\ loaded /\ view \notin AvailableViews)
           forbidden == "metric" \in pending /\ loaded /\ metric \notin Allowed
<1>1. /\ pending # {}
      /\ saved' = IF "saved" \in pending THEN Saved ELSE saved
      /\ view' = IF toAll THEN "all" ELSE view
      /\ metric' = IF toAll THEN saved' ELSE IF forbidden THEN "Bytes" ELSE metric
      /\ UNCHANGED <<tab, prefs, loaded, edits, last>>
      /\ Changed \subseteq pending' /\ pending' \subseteq Changed \cup {"draft"}
      /\ own' = IF pending' = {} /\ view' = "all" THEN metric' ELSE own
  BY EffectsPage
<1>2. loaded /\ loaded' = loaded
  BY <1>1 DEF Phases
<1>3. "config" \notin pending'
  BY <1>1 DEF Changed
<1>4. view' # view \/ metric' # metric => "saved" \in pending' /\ "metric" \in pending'
  BY <1>1 DEF Changed
<1>5. view' # "all" => saved' = own'
  <2> SUFFICES ASSUME view' # "all" PROVE saved' = own'
    OBVIOUS
  <2>1. view' = view /\ view # "all" /\ own' = own
    BY <1>1
  <2> QED
    BY <1>1, <2>1 DEF MetricKept, Saved
<1>6. view' = "all" => metric' = saved' \/ "saved" \in pending'
  <2> SUFFICES ASSUME view = "all", metric' = metric, view' = view PROVE metric' = saved'
    BY <1>4
  <2>1. metric = saved \/ "saved" \in pending
    BY <1>2 DEF MetricKept
  <2> QED
    BY <1>1, <2>1 DEF Saved
<1>7. Ready' /\ view' = "all" => metric' = own'
  BY <1>1 DEF Ready
<1>8. metric' \notin Allowed' => "metric" \in pending' \/ Carried'
  <2> SUFFICES ASSUME metric' = metric, view' = view, metric \notin Allowed PROVE Carried
    BY <1>1, <1>4, AllowedSame DEF Carried
  <2> SUFFICES ASSUME ~Carried PROVE Carried
    OBVIOUS
  <2>1. forbidden
    BY <1>2 DEF MetricKept
  <2>2. metric # "Bytes"
    BY ViewFacts
  <2>3. toAll
    BY <1>1, <2>1, <2>2
  <2>4. view = "all"
    BY <1>1, <2>3
  <2>5. "config" \in pending
    BY <2>3, <2>4, ViewFacts
  <2>6. last.act = "load"
    BY <2>5 DEF Phases
  <2>7. Enabled \cap DOMAIN MetricOf # {}
    BY <2>2, <2>5 DEF MetricKept
  <2> QED
    BY <2>4, <2>6, <2>7 DEF Carried
<1>9. last'.act = "metric" => metric' \in {last'.metric, Due'}
  <2> SUFFICES ASSUME last.act = "metric" PROVE metric' \in {last.metric, Due'}
    BY <1>1
  <2>1. "config" \notin pending /\ view \in AvailableViews
    BY <1>2 DEF Phases
  <2>2. ~toAll /\ view' = view
    BY <1>1, <2>1
  <2>3. Allowed' = Allowed /\ Due' = Due
    <3>1. Allowed' = Allowed
      BY <1>1, <2>2, AllowedSame
    <3> QED
      BY <1>1, <3>1 DEF Due
  <2>4. metric \in {last.metric, Due}
    BY DEF MetricKept
  <2>5. Due \in Allowed
    BY ViewFacts DEF Due
  <2>6. metric' = IF forbidden THEN "Bytes" ELSE metric
    BY <1>1, <2>2
  <2>7. CASE forbidden
    <3>1. metric = last.metric /\ Due = "Bytes"
      BY <2>4, <2>5, <2>7 DEF Due
    <3> QED
      BY <2>3, <2>6, <2>7, <3>1
  <2>8. CASE ~forbidden
    BY <2>3, <2>4, <2>6, <2>8
  <2> QED
    BY <2>7, <2>8
<1> QED
  BY <1>2, <1>3, <1>5, <1>6, <1>7, <1>8, <1>9 DEF MetricKept

(* When the user may act, the metric is an allowed one unless a link left  *)
(* it, and that of the Default view is saved.                              *)
LEMMA ReadyMetric ==
  ASSUME MetricKept, Ready
  PROVE  /\ loaded /\ pending = {} /\ (metric \in Allowed \/ Carried)
         /\ IF view = "all" THEN metric = saved /\ metric = own ELSE saved = own
BY DEF MetricKept, Ready

(* The metric is where it is to be found, whatever the step.               *)
LEMMA MetricStep ==
  ASSUME Phases, MetricKept, draft = NoDraft \/ draft.base # "all", [Next]_vars
  PROVE  MetricKept'
<1>1. ASSUME Effects PROVE MetricKept'
  BY <1>1, MetricEffects
<1>2. ASSUME ConfigLoaded PROVE MetricKept'
  <2>1. ~loaded /\ last.act = "load" /\ loaded' /\ pending' # {}
    BY <1>2 DEF ConfigLoaded, Phases
  <2>2. UNCHANGED <<view, tab, metric, saved, last, own>> /\ Allowed' = Allowed
    BY <1>2, AllowedSame DEF ConfigLoaded
  <2>3. metric \notin Allowed => "metric" \in pending'
    <3>1. Enabled \cap DOMAIN MetricOf # {} => "metric" \in pending'
      BY <1>2 DEF ConfigLoaded
    <3>2. Enabled \cap DOMAIN MetricOf = {} => metric = "Bytes"
      BY <2>1 DEF MetricKept
    <3> QED
      BY <3>1, <3>2, ViewFacts
  <2> QED
    BY <2>1, <2>2, <2>3 DEF MetricKept, Ready
<1>3. ASSUME NEW url \in Urls, Load(url) PROVE MetricKept'
  <2>1. Ready
    BY <1>3 DEF Load
  <2>2. /\ loaded' = FALSE /\ view' = LoadedView(url) /\ metric' = metric
        /\ saved' = own' /\ (FirstView(url) = "all" => saved' = metric) /\ last'.act = "load"
    BY <1>3 DEF Load, Did
  <2>3. view' = "all" => FirstView(url) = "all"
    BY <2>2 DEF LoadedView
  <2>4. Enabled \cap DOMAIN MetricOf = {} => metric' = "Bytes"
    <3>1. metric \in Allowed \/ Enabled \cap DOMAIN MetricOf # {}
      BY <2>1, ReadyMetric DEF Carried
    <3> QED
      BY <2>2, <3>1 DEF Allowed
  <2> QED
    BY <2>2, <2>3, <2>4 DEF MetricKept, Ready
<1>4. ASSUME NEW v \in Views, SelectView(v) PROVE MetricKept'
  <2>1. Ready /\ v # view /\ view' = v /\ metric' = MetricOfView(v, saved) /\ UNCHANGED <<tab, saved, loaded, own>>
    BY <1>4 DEF SelectView
  <2>2. "saved" \in pending' /\ "metric" \in pending' /\ "config" \notin pending'
    BY <1>4 DEF SelectView, Changed
  <2>3. last'.metric = IF v = "all" THEN own ELSE IF draft.base = v THEN draft.metric ELSE Presets[v].metric
    BY <1>4 DEF SelectView, Did
  <2>4. saved = own
    BY <2>1, ReadyMetric
  <2>5. metric' = last'.metric
    BY <2>1, <2>3, <2>4 DEF MetricOfView
  <2> QED
    BY <2>1, <2>2, <2>4, <2>5, ReadyMetric DEF MetricKept, Ready
<1>5. ASSUME SelectTab PROVE MetricKept'
  <2>1. Ready /\ UNCHANGED <<view, metric, saved, loaded, own>> /\ last'.act = "other"
    BY <1>5 DEF SelectTab, Did
  <2>2. "metric" \in pending' /\ "config" \notin pending'
    <3>1. tab' # tab
      BY <1>5 DEF SelectTab
    <3> QED
      BY <1>5, <3>1 DEF SelectTab, Changed
  <2> QED
    BY <2>1, <2>2, ReadyMetric DEF MetricKept, Ready
<1>6. ASSUME NEW m \in Metrics, SelectMetric(m) PROVE MetricKept'
  <2>1. Ready /\ UNCHANGED <<view, saved, loaded, own>> /\ last'.act = "other"
    BY <1>6 DEF SelectMetric, Did
  <2>2. "metric" \in pending' /\ "saved" \in pending' /\ "config" \notin pending'
    <3>1. metric' # metric
      BY <1>6 DEF SelectMetric
    <3> QED
      BY <1>6, <3>1 DEF SelectMetric, Changed
  <2> QED
    BY <2>1, <2>2, ReadyMetric DEF MetricKept, Ready
<1>7. ASSUME Edit \/ RestoreDefaults PROVE MetricKept'
  BY <1>7, EditPage, PageKeptMetric
<1>8. ASSUME Discard PROVE MetricKept'
  <2>1. /\ Ready /\ draft # NoDraft /\ view = draft.base /\ UNCHANGED <<view, tab, saved, loaded, own>>
        /\ metric' = Presets[view].metric /\ last'.metric = metric'
    BY <1>8 DEF Discard, Did
  <2>2. metric' # metric => "metric" \in pending' /\ "saved" \in pending'
    BY <1>8 DEF Discard, Changed
  <2>3. "config" \notin pending'
    BY <1>8 DEF Discard, Changed
  <2>4. Allowed' = Allowed /\ ~Carried
    BY <2>1, AllowedSame DEF Carried
  <2> QED
    BY <2>1, <2>2, <2>3, <2>4, ReadyMetric DEF MetricKept, Ready
<1>9. ASSUME ResetFilters PROVE MetricKept'
  <2>1. /\ Ready /\ view' = "all" /\ metric' = saved /\ UNCHANGED <<tab, saved, loaded, own>>
        /\ IF view = "all" THEN last'.act = "other" ELSE last'.metric = own
    BY <1>9 DEF ResetFilters, Did
  <2>2. view' # view \/ metric' # metric => "metric" \in pending' /\ "saved" \in pending'
    BY <1>9 DEF ResetFilters, Changed
  <2>3. "config" \notin pending'
    BY <1>9 DEF ResetFilters, Changed
  <2>4. saved = own /\ (view' = view => Allowed' = Allowed /\ metric' = metric)
    BY <2>1, ReadyMetric, AllowedSame
  <2> QED
    BY <2>1, <2>2, <2>3, <2>4, ReadyMetric DEF MetricKept, Ready, Carried
<1>10. ASSUME UNCHANGED vars PROVE MetricKept'
  <2>1. Allowed' = Allowed
    BY <1>10, AllowedSame DEF vars
  <2> QED
    BY <1>10, <2>1 DEF MetricKept, Ready, Due, Carried, vars
<1> QED
  BY <1>1, <1>2, <1>3, <1>4, <1>5, <1>6, <1>7, <1>8, <1>9, <1>10, NextCases

(* The view of the link is open, or is not available, until the user does  *)
(* something.                                                              *)
LEMMA UrlStep ==
  ASSUME Phases, UrlKept, [Next]_vars
  PROVE  UrlKept'
<1>0. AvailableViews' = AvailableViews
  BY DEF AvailableViews
<1>1. CASE Effects
  <2> SUFFICES ASSUME last.act = "load", last.url.filters, last.url.view # "all"
               PROVE  view' = last.url.view \/ (view' = "all" /\ last.url.view \notin AvailableViews)
    BY <1>0, <1>1, EffectsPage DEF UrlKept, Phases
  <2>1. view' = IF "view" \in pending /\ loaded /\ view \notin AvailableViews THEN "all" ELSE view
    BY <1>1, EffectsPage
  <2> QED
    BY <2>1, ViewFacts DEF UrlKept
<1>2. CASE ConfigLoaded
  BY <1>0, <1>2 DEF ConfigLoaded, UrlKept
<1>3. ASSUME NEW url \in Urls, Load(url) PROVE UrlKept'
  <2>1. last'.url.view = url.view /\ (url.view # "all" => view' = url.view)
    BY <1>3 DEF Load, Did, LoadedView
  <2> QED
    BY <2>1 DEF UrlKept
<1>4. ASSUME \/ (\E v \in Views : SelectView(v)) \/ SelectTab \/ (\E m \in Metrics : SelectMetric(m))
             \/ Discard \/ ResetFilters
      PROVE  last'.act # "load"
  BY <1>4 DEF SelectView, SelectTab, SelectMetric, Discard, ResetFilters, Did
<1>5. ASSUME Edit \/ RestoreDefaults PROVE last'.act # "load"
  BY <1>5, EditPage DEF PageKept
<1>6. last'.act # "load" => UrlKept'
  BY DEF UrlKept
<1>7. CASE UNCHANGED vars
  BY <1>0, <1>7 DEF UrlKept, vars
<1> QED
  BY <1>1, <1>2, <1>3, <1>4, <1>5, <1>6, <1>7, NextCases

-----------------------------------------------------------------------------
(* What is shown.                                                          *)

LEMMA ListIs ==
  ASSUME NEW part \in Parts, NEW ids
  PROVE  IsListOf(ids, part) <=> ids \in Seq(Ids) /\ IsInjective(ids) /\ ToSet(ids) \subseteq ToSet(Items(part))
<1>1. ToSet(Items(part)) \subseteq Ids
  BY DEF Items, Ids, Parts
<1>2. ASSUME ids \in Seq(ToSet(Items(part))) PROVE ids \in Seq(Ids) /\ ToSet(ids) \subseteq ToSet(Items(part))
  <2>1. \A i \in 1..Len(ids) : ids[i] \in ToSet(Items(part))
    BY <1>2
  <2>2. ids \in Seq(Ids)
    BY <1>1, <1>2
  <2>3. DOMAIN ids = 1..Len(ids)
    BY <1>2
  <2> QED
    BY <2>1, <2>2, <2>3 DEF ToSet
<1>3. ASSUME ids \in Seq(Ids), ToSet(ids) \subseteq ToSet(Items(part)) PROVE ids \in Seq(ToSet(Items(part)))
  <2>1. \A i \in 1..Len(ids) : ids[i] \in ToSet(Items(part))
    <3>1. DOMAIN ids = 1..Len(ids)
      BY <1>3
    <3>2. \A i \in 1..Len(ids) : ids[i] \in ToSet(ids)
      BY <3>1 DEF ToSet
    <3> QED
      BY <1>3, <3>2
  <2> DEFINE T == ToSet(Items(part))
  <2> HIDE DEF T
  <2>2. ids \in [1..Len(ids) -> T] /\ Len(ids) \in Nat
    BY <1>3, <2>1 DEF T
  <2>3. ids \in Seq(T)
    BY <2>2
  <2> QED
    BY <2>3 DEF T
<1> QED
  BY <1>2, <1>3 DEF IsListOf

(* The items of the configuration and of the presets.                      *)
LEMMA ItemsFacts ==
  ASSUME NEW part \in Parts
  PROVE  /\ Items(part) \in Seq(Ids) /\ IsInjective(Items(part)) /\ IsListOf(Items(part), part)
         /\ ToSet(Items(part)) \subseteq Ids
         /\ \A v \in DOMAIN Presets :
              Presets[v][part] \in Seq(Ids) /\ IsInjective(Presets[v][part])
              /\ ToSet(Presets[v][part]) \subseteq ToSet(Items(part))
<1>1. IsListOf(Items(part), part) /\ \A v \in DOMAIN Presets : IsListOf(Presets[v][part], part)
  BY ViewsAssumption
<1>2. Items(part) \in Seq(Ids) /\ IsInjective(Items(part))
  BY <1>1, ListIs
<1>3. ToSet(Items(part)) \subseteq Ids
  BY <1>2 DEF ToSet
<1>4. \A v \in DOMAIN Presets : Presets[v][part] \in Seq(Ids) /\ IsInjective(Presets[v][part])
                                /\ ToSet(Presets[v][part]) \subseteq ToSet(Items(part))
  BY <1>1, ListIs
<1> QED
  BY <1>1, <1>2, <1>3, <1>4

Typed == TypeOK /\ Types

(* The draft, the preferences and the lists of the user have items of      *)
(* their kind, once.                                                       *)
LEMMA TypedFacts ==
  ASSUME Typed, NEW part \in Parts
  PROVE  /\ draft[part] \in Seq(Ids) /\ IsInjective(draft[part]) /\ ToSet(draft[part]) \subseteq ToSet(Items(part))
         /\ prefs[part].added \in Seq(Ids) /\ IsInjective(prefs[part].added)
         /\ ToSet(prefs[part].added) \subseteq ToSet(Items(part))
         /\ listed[part].ids \in Seq(Ids) /\ IsInjective(listed[part].ids)
         /\ ToSet(listed[part].ids) \subseteq ToSet(Items(part))
         /\ listed[part].selected \subseteq ToSet(listed[part].ids)
         /\ ToSet(prefs[part].added) \cap prefs[part].removed = {}
         /\ prefs[part].removed \subseteq Ids
<1>1. /\ IsListOf(draft[part], part) /\ IsListOf(prefs[part].added, part)
      /\ IsListOf(listed[part].ids, part) /\ listed[part].selected \subseteq ToSet(listed[part].ids)
      /\ ToSet(prefs[part].added) \cap prefs[part].removed = {}
  BY DEF Typed, TypeOK
<1>2. prefs[part] \in Pref
  BY DEF Typed, Types
<1>3. prefs[part].removed \subseteq Ids
  BY <1>2 DEF Pref
<1> QED
  BY <1>1, <1>3, ListIs

(* What is offered is the available part of the list of the user.          *)
LEMMA OfferedFacts ==
  ASSUME Typed, NEW part \in Parts
  PROVE  /\ OfferedSet(part) \subseteq ToSet(listed[part].ids) /\ OfferedSet(part) \in SUBSET Ids
         /\ OfferedSet(part) \subseteq ToSet(Items(part))
         /\ \A id \in OfferedSet(part) : Available(id)
         /\ Offered(part) \in Seq(Ids) /\ IsInjective(Offered(part)) /\ ToSet(Offered(part)) = OfferedSet(part)
<1>1. OfferedSet(part) \subseteq ToSet(listed[part].ids) /\ \A id \in OfferedSet(part) : Available(id)
  BY DEF OfferedSet
<1>2. ToSet(listed[part].ids) \subseteq ToSet(Items(part)) /\ ToSet(Items(part)) \subseteq Ids
  BY TypedFacts, ItemsFacts
<1>3. OfferedSet(part) \in SUBSET Ids
  BY <1>1, <1>2
<1>4. listed[part].ids \in Seq(Ids) /\ IsInjective(listed[part].ids)
  BY TypedFacts
<1>5. Offered(part) \in Seq(Ids) /\ IsInjective(Offered(part))
      /\ ToSet(Offered(part)) = OfferedSet(part) \cap ToSet(listed[part].ids)
  BY <1>3, <1>4, OnlyIn DEF Offered
<1>6. OfferedSet(part) \cap ToSet(listed[part].ids) = OfferedSet(part)
  BY <1>1
<1> QED
  BY <1>1, <1>2, <1>3, <1>5, <1>6

(* What a view selects without a draft.                                    *)
Chose(v, part) == IF v = "all" THEN listed[part].selected ELSE ToSet(Presets[v][part])

(* What a view shows: the items of its draft that are offered, or what is  *)
(* kept of the selection.                                                  *)
LEMMA ShownFacts ==
  ASSUME Typed, NEW v \in Views, NEW part \in Parts
  PROVE  /\ ShownIn(v, part) \in Seq(Ids) /\ IsInjective(ShownIn(v, part))
         /\ ToSet(ShownIn(v, part)) \subseteq OfferedSet(part)
         /\ draft.base = v => ToSet(ShownIn(v, part)) = ToSet(draft[part]) \cap OfferedSet(part)
         /\ draft.base # v => ToSet(ShownIn(v, part)) = Kept(part, Chose(v, part))
<1> DEFINE O == OfferedSet(part)
           K == Kept(part, Chose(v, part))
           D == ToSet(draft[part])
<1>1. O \in SUBSET Ids /\ Offered(part) \in Seq(Ids) /\ IsInjective(Offered(part)) /\ ToSet(Offered(part)) = O
  BY OfferedFacts
<1>2. K \subseteq O
  BY DEF Kept
<1>3. draft[part] \in Seq(Ids) /\ IsInjective(draft[part]) /\ D \in SUBSET Ids
  <2>1. draft[part] \in Seq(Ids) /\ IsInjective(draft[part])
    BY TypedFacts
  <2> QED
    BY <2>1 DEF ToSet
<1>4. ShownIn(v, part) = IF draft.base = v
        THEN IF part = "columns" THEN Only(draft.columns, O) ELSE Only(Offered(part), ToSet(draft.panels))
        ELSE Only(Offered(part), K)
  BY DEF ShownIn, Chose
<1>5. part = "columns" => draft.columns = draft[part]
  OBVIOUS
<1>6. part # "columns" => draft.panels = draft[part]
  BY DEF Parts
<1> HIDE DEF O, K, D
<1>7. Only(draft[part], O) \in Seq(Ids) /\ IsInjective(Only(draft[part], O))
      /\ ToSet(Only(draft[part], O)) = O \cap D
  BY <1>1, <1>3, OnlyIn DEF D
<1>8. Only(Offered(part), D) \in Seq(Ids) /\ IsInjective(Only(Offered(part), D))
      /\ ToSet(Only(Offered(part), D)) = D \cap O
  BY <1>1, <1>3, OnlyIn
<1>9. Only(Offered(part), K) \in Seq(Ids) /\ IsInjective(Only(Offered(part), K))
      /\ ToSet(Only(Offered(part), K)) = K \cap O
  <2>1. K \in SUBSET Ids
    BY <1>1, <1>2
  <2> QED
    BY <1>1, <2>1, OnlyIn
<1>10. CASE draft.base # v
  <2>1. ShownIn(v, part) = Only(Offered(part), K)
    BY <1>4, <1>10
  <2> QED
    BY <1>2, <1>9, <1>10, <2>1 DEF K, O
<1>11. CASE draft.base = v /\ part = "columns"
  <2>1. ShownIn(v, part) = Only(draft[part], O)
    BY <1>4, <1>5, <1>11
  <2> QED
    BY <1>7, <1>11, <2>1 DEF D, O
<1>12. CASE draft.base = v /\ part # "columns"
  <2>1. ShownIn(v, part) = Only(Offered(part), D)
    BY <1>4, <1>6, <1>12 DEF D
  <2> QED
    BY <1>8, <1>12, <2>1 DEF D, O
<1> QED
  BY <1>10, <1>11, <1>12

-----------------------------------------------------------------------------
(* Reconciliation.                                                         *)

IsDraft(d) == /\ d.base \in DOMAIN Presets
              /\ \A part \in Parts : d[part] \in Seq(Ids) /\ IsInjective(d[part]) /\ ToSet(d[part]) \subseteq ToSet(Items(part))

(* The generic items that a draft must have, with the items of its preset. *)
Wanted(d, part) == (ToSet(Presets[d.base][part]) \ prefs[part].removed) \cup ToSet(prefs[part].added)

(* A draft is expected to have the items of its preset as the preferences  *)
(* change them.                                                            *)
LEMMA ExpectedFacts ==
  ASSUME Typed, NEW d, IsDraft(d), NEW part \in Parts
  PROVE  /\ Expected(d, part) \in Seq(Ids) /\ IsInjective(Expected(d, part))
         /\ ToSet(Expected(d, part)) = Wanted(d, part)
         /\ Wanted(d, part) \subseteq ToSet(Items(part))
<1> DEFINE P == Presets[d.base][part]
           R == prefs[part].removed
           A == prefs[part].added
           l == Without(P, R)
           r == Without(A, ToSet(P) \ R)
<1>1. P \in Seq(Ids) /\ IsInjective(P) /\ ToSet(P) \subseteq ToSet(Items(part))
  BY ItemsFacts DEF IsDraft
<1>2. A \in Seq(Ids) /\ IsInjective(A) /\ ToSet(A) \subseteq ToSet(Items(part))
  BY TypedFacts
<1>3. Expected(d, part) = l \o r
  BY DEF Expected
<1>4. Wanted(d, part) = (ToSet(P) \ R) \cup ToSet(A)
  BY DEF Wanted
<1> HIDE DEF P, R, A
<1>5. l \in Seq(Ids) /\ ToSet(l) = ToSet(P) \ R /\ IsInjective(l)
  BY <1>1, WithoutFacts
<1>6. r \in Seq(Ids) /\ ToSet(r) = ToSet(A) \ (ToSet(P) \ R) /\ IsInjective(r)
  BY <1>2, WithoutFacts
<1> HIDE DEF l, r
<1>7. /\ l \o r \in Seq(Ids) /\ ToSet(l \o r) = ToSet(l) \cup ToSet(r)
      /\ \A a, b : Before(l \o r, a, b) <=> Before(l, a, b) \/ Before(r, a, b) \/ (a \in ToSet(l) /\ b \in ToSet(r))
  BY <1>5, <1>6, ConcatFacts
<1>8. \A a : ~Before(l \o r, a, a)
  <2>1. ToSet(l) \cap ToSet(r) = {}
    BY <1>5, <1>6
  <2> QED
    BY <1>5, <1>6, <1>7, <2>1, Once
<1>9. IsInjective(l \o r)
  BY <1>7, <1>8, Once
<1> QED
  BY <1>1, <1>2, <1>3, <1>4, <1>5, <1>6, <1>7, <1>9

(* Two lists that share no item, one after the other.                      *)
LEMMA ConcatOnce ==
  ASSUME NEW l \in Seq(Ids), NEW r \in Seq(Ids), IsInjective(l), IsInjective(r), ToSet(l) \cap ToSet(r) = {}
  PROVE  l \o r \in Seq(Ids) /\ IsInjective(l \o r) /\ ToSet(l \o r) = ToSet(l) \cup ToSet(r)
<1>1. /\ l \o r \in Seq(Ids) /\ ToSet(l \o r) = ToSet(l) \cup ToSet(r)
      /\ \A a, b : Before(l \o r, a, b) <=> Before(l, a, b) \/ Before(r, a, b) \/ (a \in ToSet(l) /\ b \in ToSet(r))
  BY ConcatFacts
<1>2. \A a : ~Before(l \o r, a, a)
  BY <1>1, Once
<1> QED
  BY <1>1, <1>2, Once

(* The rearranged list has the items that are wanted, and keeps the order  *)
(* of those that it had.                                                   *)
Order(s, t, S) == \A a, b \in S : Before(s, a, b) <=> Before(t, a, b)

(* Rearranged, a list has exactly the items that are wanted, and those     *)
(* that it had stay in their order.                                        *)
LEMMA ArrangedFacts ==
  ASSUME NEW part \in Parts, NEW s \in Seq(Ids), NEW want \in Seq(Ids), IsInjective(s), IsInjective(want),
         \A x \in Ids : Earlier(x) \in SUBSET Ids
  PROVE  /\ Arranged[<<part, s, want>>] \in Seq(Ids) /\ IsInjective(Arranged[<<part, s, want>>])
         /\ ToSet(Arranged[<<part, s, want>>]) = ToSet(want)
         /\ Order(Arranged[<<part, s, want>>], s, ToSet(s) \cap ToSet(want))
<1> DEFINE p == <<part, s, want>>
           W == ToSet(want)
           kept == Only(s, W)
           missing == Without(want, ToSet(s))
<1>1. p \in Parts \X Seq(Ids) \X Seq(Ids) /\ p[1] = part /\ p[2] = s /\ p[3] = want
  OBVIOUS
<1>2. Arranged[p] = IF part = "columns" THEN AllInserted(kept, missing) ELSE kept \o missing
  <2> HIDE DEF p
  <2> QED
    BY <1>1 DEF Arranged
<1> HIDE DEF p
<1>3. W \in SUBSET Ids
  BY DEF ToSet
<1> HIDE DEF W
<1>4. /\ kept \in Seq(Ids) /\ IsInjective(kept) /\ ToSet(kept) = W \cap ToSet(s)
      /\ \A a, b : Before(kept, a, b) <=> a \in W /\ b \in W /\ Before(s, a, b)
  BY <1>3, OnlyIn
<1>5. missing \in Seq(Ids) /\ IsInjective(missing) /\ ToSet(missing) = W \ ToSet(s)
  BY WithoutFacts DEF W
<1> HIDE DEF kept, missing
<1>6. ToSet(kept) \cap ToSet(missing) = {} /\ ToSet(kept) \cup ToSet(missing) = W
  BY <1>4, <1>5
<1>7. \A a, b \in ToSet(s) \cap W : a \notin ToSet(missing) /\ b \notin ToSet(missing)
  BY <1>5
<1>8. CASE part = "columns"
  <2> DEFINE t == AllInserted(kept, missing)
  <2>1. /\ t \in Seq(Ids) /\ ToSet(t) = ToSet(kept) \cup ToSet(missing) /\ IsInjective(t)
        /\ \A a, b : a \notin ToSet(missing) /\ b \notin ToSet(missing) => (Before(t, a, b) <=> Before(kept, a, b))
    BY <1>4, <1>5, <1>6, InsertedAll
  <2> HIDE DEF t
  <2>2. Order(t, s, ToSet(s) \cap W)
    BY <1>4, <1>7, <2>1 DEF Order
  <2>3. Arranged[p] = t
    BY <1>2, <1>8 DEF t
  <2> QED
    BY <1>6, <2>1, <2>2, <2>3 DEF p, W
<1>9. CASE part # "columns"
  <2> DEFINE t == kept \o missing
  <2>1. t \in Seq(Ids) /\ ToSet(t) = ToSet(kept) \cup ToSet(missing) /\ IsInjective(t)
    BY <1>4, <1>5, <1>6, ConcatOnce
  <2>2. \A a, b : Before(t, a, b) <=> Before(kept, a, b) \/ Before(missing, a, b) \/ (a \in ToSet(kept) /\ b \in ToSet(missing))
    BY <1>4, <1>5, ConcatFacts
  <2> HIDE DEF t
  <2>3. \A a, b : Before(missing, a, b) => a \in ToSet(missing)
    BY BeforeIn
  <2>4. Order(t, s, ToSet(s) \cap W)
    BY <1>4, <1>7, <2>2, <2>3 DEF Order
  <2>5. Arranged[p] = t
    BY <1>2, <1>9 DEF t
  <2> QED
    BY <1>6, <2>1, <2>4, <2>5 DEF p, W
<1> QED
  BY <1>8, <1>9

Agrees(d) == \A part \in Parts, id \in Ids : Generic(id) => (id \in ToSet(d[part]) <=> id \in Wanted(d, part))

(* The columns before another one are columns of the configuration.        *)
LEMMA EarlierFacts ==
  ASSUME Typed
  PROVE  \A x \in Ids : Earlier(x) \in SUBSET Ids
<1>1. OfferedSet("columns") \in SUBSET Ids
  BY OfferedFacts DEF Parts
<1> QED
  BY <1>1 DEF Earlier

(* Reconciled, a draft has the generic items that are wanted, keeps its    *)
(* items in their order, and, if it agreed with the preferences before,    *)
(* keeps all those that are offered.                                       *)
LEMMA RebuiltFacts ==
  ASSUME Typed, Lists, NEW d, IsDraft(d), NEW part \in Parts
  PROVE  /\ Rebuilt(d, part) \in Seq(Ids) /\ IsInjective(Rebuilt(d, part))
         /\ ToSet(Rebuilt(d, part)) \subseteq ToSet(Items(part))
         /\ \A id \in Ids : Generic(id) => (id \in ToSet(Rebuilt(d, part)) <=> id \in Wanted(d, part))
         /\ Agrees(d) => ToSet(Rebuilt(d, part)) \cap OfferedSet(part) = ToSet(d[part]) \cap OfferedSet(part)
         /\ Order(Rebuilt(d, part), d[part], ToSet(d[part]) \cap ToSet(Rebuilt(d, part)))
<1> DEFINE D == ToSet(d[part])
           P == ToSet(Presets[d.base][part])
           A == ToSet(prefs[part].added)
           R == prefs[part].removed
           F == OfFeature(part)
           E == Expected(d, part)
           new == AddedItems(d, part)
           gone == RemovedItems(d, part)
           want == Without(E \o new, gone)
           I == ToSet(Items(part))
           O == OfferedSet(part)
<1>1. d[part] \in Seq(Ids) /\ IsInjective(d[part]) /\ D \subseteq I /\ P \subseteq I /\ I \subseteq Ids
  BY ItemsFacts DEF IsDraft
<1>2. (\A id \in A \cup R : Generic(id)) /\ O \subseteq I
  BY OfferedFacts DEF Lists
<1>3. E \in Seq(Ids) /\ IsInjective(E) /\ ToSet(E) = (P \ R) \cup A /\ ToSet(E) \subseteq I
  BY ExpectedFacts DEF Wanted
<1>4. F \subseteq I /\ (\A id \in F : ~Generic(id)) /\ \A id \in O : ~Generic(id) => id \in F
  BY <1>2 DEF OfFeature
<1>5. new = Only(d[part], F \ P)
  BY DEF AddedItems
<1>6. gone = (P \cap F) \ D
  BY DEF RemovedItems
<1>7. Wanted(d, part) = (P \ R) \cup A
  BY DEF Wanted
<1>8. Rebuilt(d, part) = Arranged[<<part, d[part], want>>]
  BY DEF Rebuilt
<1> HIDE DEF D, P, A, R, F, E, new, gone, I, O
<1>9. new \in Seq(Ids) /\ IsInjective(new) /\ ToSet(new) = (F \ P) \cap D
  <2>1. F \ P \in SUBSET Ids
    BY <1>1, <1>4
  <2> QED
    BY <1>1, <1>5, <2>1, OnlyIn DEF D
<1>10. ToSet(E) \cap ToSet(new) = {}
  BY <1>2, <1>3, <1>4, <1>9
<1>11. E \o new \in Seq(Ids) /\ IsInjective(E \o new) /\ ToSet(E \o new) = ToSet(E) \cup ToSet(new)
  BY <1>3, <1>9, <1>10, ConcatOnce
<1>12. want \in Seq(Ids) /\ IsInjective(want) /\ ToSet(want) = (ToSet(E) \cup ToSet(new)) \ gone
  BY <1>11, WithoutFacts
<1> HIDE DEF want
<1> DEFINE r == Arranged[<<part, d[part], want>>]
<1>13. r \in Seq(Ids) /\ IsInjective(r) /\ ToSet(r) = ToSet(want) /\ Order(r, d[part], D \cap ToSet(want))
  BY <1>1, <1>12, EarlierFacts, ArrangedFacts DEF D
<1> HIDE DEF r
<1>14. ToSet(r) = (((P \ R) \cup A) \cup ((F \ P) \cap D)) \ ((P \cap F) \ D)
  BY <1>3, <1>6, <1>9, <1>12, <1>13
<1>15. ToSet(r) \subseteq I
  BY <1>1, <1>3, <1>9, <1>12, <1>13
<1>16. \A id \in Ids : Generic(id) => (id \in ToSet(r) <=> id \in (P \ R) \cup A)
  BY <1>4, <1>14
<1>17. Agrees(d) => ToSet(r) \cap O = D \cap O
  <2> SUFFICES ASSUME Agrees(d), NEW id \in O PROVE id \in ToSet(r) <=> id \in D
    OBVIOUS
  <2>1. id \in Ids
    BY <1>1, <1>2
  <2>2. CASE Generic(id)
    <3>1. id \in D <=> id \in Wanted(d, part)
      BY <2>1, <2>2 DEF Agrees, D
    <3> QED
      BY <1>7, <1>16, <2>1, <2>2, <3>1
  <2>3. CASE ~Generic(id)
    <3>1. id \in F /\ id \notin R /\ id \notin A
      BY <1>2, <1>4, <2>3
    <3> QED
      BY <1>14, <3>1
  <2> QED
    BY <2>2, <2>3
<1> QED
  BY <1>7, <1>8, <1>13, <1>15, <1>16, <1>17 DEF D, I, O, r

(* The columns of the draft that are available stay as they are.           *)
LEMMA SameColumns ==
  ASSUME Typed, Lists, NEW d, IsDraft(d), Agrees(d)
  PROVE  Only(Rebuilt(d, "columns"), OfferedSet("columns")) = Only(d["columns"], OfferedSet("columns"))
<1> DEFINE r == Rebuilt(d, "columns")
           s == d["columns"]
           O == OfferedSet("columns")
<1>1. "columns" \in Parts
  BY DEF Parts
<1>2. O \in SUBSET Ids
  BY <1>1, OfferedFacts
<1>3. s \in Seq(Ids) /\ IsInjective(s)
  BY <1>1 DEF IsDraft
<1>4. r \in Seq(Ids) /\ IsInjective(r) /\ ToSet(r) \cap O = ToSet(s) \cap O /\ Order(r, s, ToSet(s) \cap ToSet(r))
  BY <1>1, RebuiltFacts
<1> HIDE DEF r, s, O
<1>5. \A a, b \in O : Before(r, a, b) <=> Before(s, a, b)
  BY <1>4, BeforeIn DEF Order
<1>6. Only(r, O) = Only(s, O)
  BY <1>2, <1>3, <1>4, <1>5, OnlyBoth
<1> QED
  BY <1>6 DEF r, s, O

(* A draft that is dropped is what the view shows without it.              *)
LEMMA DroppedFacts ==
  ASSUME Typed, Lists, NEW d, IsDraft(d), MatchesPreset(d), NEW part \in Parts
  PROVE  ToSet(d[part]) \cap OfferedSet(part) = Kept(part, ToSet(Presets[d.base][part]))
<1> DEFINE P == ToSet(Presets[d.base][part])
           A == ToSet(prefs[part].added)
           R == prefs[part].removed
           O == OfferedSet(part)
<1>1. ToSet(d[part]) = (P \ R) \cup A
  <2>1. d[part] = Expected(d, part)
    BY DEF MatchesPreset
  <2> QED
    BY <2>1, ExpectedFacts DEF Wanted
<1>2. \A id \in A \cup R : Generic(id)
  BY DEF Lists
<1>3. A \cap R = {}
  BY TypedFacts
<1>4. Kept(part, P) = {id \in O : ~(Generic(id) /\ id \in R) /\ (id \in P \/ (Generic(id) /\ id \in A))}
  BY DEF Kept
<1> HIDE DEF P, A, R, O
<1>5. ASSUME NEW id \in O
      PROVE  id \in (P \ R) \cup A <=> ~(Generic(id) /\ id \in R) /\ (id \in P \/ (Generic(id) /\ id \in A))
  BY <1>2, <1>3
<1>6. ((P \ R) \cup A) \cap O = Kept(part, P)
  BY <1>4, <1>5
<1> QED
  BY <1>1, <1>6 DEF P, O

(* The draft that is open, reconciled.                                     *)
LEMMA DraftFacts ==
  ASSUME Typed, draft # NoDraft
  PROVE  IsDraft(draft) /\ draft.base \in Views \ {"all"} /\ draft.base # "none"
<1>1. draft.base \in DOMAIN Presets
  BY DEF Typed, TypeOK
<1>2. IsDraft(draft)
  BY <1>1, TypedFacts DEF IsDraft
<1> QED
  BY <1>1, <1>2, ViewFacts, ViewsAssumption DEF Views

(* Reconciliation leaves the view and the metric of the draft.             *)
LEMMA ReconciledFacts ==
  ASSUME Typed, Lists, draft # NoDraft
  PROVE  /\ Reconciled(draft) \in Draft /\ Reconciled(draft) # NoDraft
         /\ Reconciled(draft).base = draft.base /\ Reconciled(draft).metric = draft.metric
         /\ \A part \in Parts : Reconciled(draft)[part] = Rebuilt(draft, part)
         /\ \A part \in Parts : IsListOf(Reconciled(draft)[part], part)
<1>1. IsDraft(draft) /\ draft.base # "none"
  BY DraftFacts
<1>2. \A part \in Parts : IsListOf(Rebuilt(draft, part), part) /\ Rebuilt(draft, part) \in Seq(Ids)
  BY <1>1, RebuiltFacts, ListIs
<1> DEFINE c == Rebuilt(draft, "columns")
           p == Rebuilt(draft, "panels")
<1>3. c \in Seq(Ids) /\ p \in Seq(Ids)
  BY <1>2 DEF Parts
<1>4. Reconciled(draft) = [draft EXCEPT !.columns = c, !.panels = p]
  BY DEF Reconciled
<1>5. draft \in Draft
  BY DEF Typed, Types
<1> HIDE DEF c, p
<1> DEFINE r == [draft EXCEPT !.columns = c, !.panels = p]
<1>6. r \in Draft /\ r.base = draft.base /\ r.metric = draft.metric /\ r["columns"] = c /\ r["panels"] = p
  BY <1>3, <1>5 DEF Draft
<1> HIDE DEF r
<1>7. \A part \in Parts : r[part] = Rebuilt(draft, part)
  BY <1>6 DEF Parts, c, p
<1>8. r # NoDraft
  BY <1>1, <1>6 DEF NoDraft
<1> QED
  BY <1>2, <1>4, <1>6, <1>7, <1>8 DEF r

-----------------------------------------------------------------------------
(* What an edit saves.                                                     *)

LEMMA DraggedFacts ==
  ASSUME NEW s \in Seq(Ids), s # <<>>, IsInjective(s)
  PROVE  Dragged(s) \in Seq(Ids) /\ IsInjective(Dragged(s)) /\ ToSet(Dragged(s)) = ToSet(s)
<1> DEFINE h == Head(s)
           t == Tail(s)
           e == <<h>>
<1>1. h \in Ids /\ t \in Seq(Ids)
  OBVIOUS
<1>2. e \in Seq(Ids) /\ ToSet(e) = {h}
  <2>1. DOMAIN e = {1} /\ e[1] = h
    OBVIOUS
  <2> QED
    BY <1>1, <2>1 DEF ToSet
<1>3. s = e \o t
  OBVIOUS
<1>4. Dragged(s) = Append(t, h)
  BY DEF Dragged
<1> HIDE DEF h, t, e
<1>5. /\ ToSet(s) = ToSet(e) \cup ToSet(t)
      /\ \A a, b : Before(s, a, b) <=> Before(e, a, b) \/ Before(t, a, b) \/ (a \in ToSet(e) /\ b \in ToSet(t))
  BY <1>1, <1>2, <1>3, ConcatFacts
<1>6. /\ Append(t, h) \in Seq(Ids) /\ ToSet(Append(t, h)) = ToSet(t) \cup {h}
      /\ \A a, b : Before(Append(t, h), a, b) <=> Before(t, a, b) \/ (a \in ToSet(t) /\ b = h)
  BY <1>1, AppendFacts
<1>7. \A a : ~Before(s, a, a)
  BY Once
<1>8. \A a : ~Before(Append(t, h), a, a)
  BY <1>2, <1>5, <1>6, <1>7
<1> QED
  BY <1>2, <1>4, <1>5, <1>6, <1>8, Once

(* The first items of a list, and then the others.                         *)
LEMMA FirstFacts ==
  ASSUME NEW first \in Seq(Ids), IsInjective(first), NEW s \in Seq(Ids), IsInjective(s), ToSet(first) \subseteq ToSet(s)
  PROVE  LET l == first \o Without(s, ToSet(first))
         IN  l \in Seq(Ids) /\ IsInjective(l) /\ ToSet(l) = ToSet(s)
<1> DEFINE r == Without(s, ToSet(first))
           l == first \o r
<1>1. r \in Seq(Ids) /\ IsInjective(r) /\ ToSet(r) = ToSet(s) \ ToSet(first)
  BY WithoutFacts
<1> HIDE DEF r
<1>2. ToSet(first) \cap ToSet(r) = {}
  BY <1>1
<1>3. l \in Seq(Ids) /\ IsInjective(l) /\ ToSet(l) = ToSet(first) \cup ToSet(r)
  BY <1>1, <1>2, ConcatOnce
<1> HIDE DEF l
<1>4. ToSet(l) = ToSet(s)
  BY <1>1, <1>3
<1> QED
  BY <1>3, <1>4 DEF l, r

(* The list and the preferences of a save agree on the generic items, in   *)
(* the Default view or in a view that has no draft but its own.            *)
Consistent(part, list, p) ==
  \A id \in OfferedSet(part) : Generic(id) =>
    /\ view = "all" => /\ id \in list.selected => id \notin p.removed
                       /\ id \in ToSet(p.added) => id \in list.selected
    /\ view # "all" /\ draft.base \in {"none", view} =>
         (id \in list.selected <=> id \in (ToSet(Presets[view][part]) \ p.removed) \cup ToSet(p.added))

GoodList(part, list) ==
  /\ list \in List /\ IsListOf(list.ids, part) /\ ToSet(list.ids) = OfferedSet(part)
  /\ list.selected \subseteq OfferedSet(part)

GoodPrefs(part, p) ==
  /\ p \in Pref /\ IsListOf(p.added, part) /\ ToSet(p.added) \cap p.removed = {}
  /\ \A id \in ToSet(p.added) \cup p.removed : Generic(id)
  /\ p.removed \subseteq ToSet(Items(part))

Saves(part, list, p) ==
  GoodList(part, list) /\ GoodPrefs(part, p) /\ Consistent(part, list, p) /\ Save(part, list, p)

(* Before a save too, what is shown agrees with the preferences.           *)
Follows ==
  /\ loaded /\ draft # NoDraft /\ "draft" \notin pending => Agrees(draft)
  /\ last.act = "save" /\ draft.base = view => Agrees(draft)

(* What the active view shows.                                             *)
LEMMA ShownNow ==
  ASSUME Typed, NEW part \in Parts
  PROVE  /\ Shown(part) \in Seq(Ids) /\ IsInjective(Shown(part)) /\ ToSet(Shown(part)) \subseteq OfferedSet(part)
         /\ draft.base = view => ToSet(Shown(part)) = ToSet(draft[part]) \cap OfferedSet(part)
         /\ draft.base # view => ToSet(Shown(part)) = Kept(part, Chose(view, part))
<1>1. view \in Views
  BY DEF Typed, TypeOK
<1> QED
  BY <1>1, ShownFacts DEF Shown

(* A draft is one of a preset.                                             *)
LEMMA NoDraftBase ==
  ASSUME Typed
  PROVE  (draft.base = "none" <=> draft = NoDraft) /\ "none" \notin DOMAIN Presets /\ draft.base # "all"
<1>1. draft = NoDraft \/ draft.base \in DOMAIN Presets
  BY DEF Typed, TypeOK
<1>2. NoDraft.base = "none"
  BY DEF NoDraft
<1> QED
  BY <1>1, <1>2, ViewsAssumption

(* What is shown agrees with the preferences before a save.                *)
LEMMA WasConsistent ==
  ASSUME Typed, Lists, Follows, Ready, NEW part \in Parts, NEW list, list.selected = ToSet(Shown(part))
  PROVE  Consistent(part, list, prefs[part])
<1> DEFINE A == ToSet(prefs[part].added)
           R == prefs[part].removed
           S == ToSet(Shown(part))
           O == OfferedSet(part)
<1>1. view \in Views /\ draft.base # "all"
  BY NoDraftBase DEF Typed, TypeOK
<1>2. A \cap R = {} /\ \A id \in A \cup R : Generic(id)
  BY TypedFacts DEF Lists
<1>3. \A id \in O : id \in Ids
  BY OfferedFacts
<1>4. draft.base = view => S = ToSet(draft[part]) \cap O
  BY ShownNow
<1>5. draft.base # view => \A id \in O : id \in S <=> ~(Generic(id) /\ id \in R) /\ (id \in Chose(view, part) \/ (Generic(id) /\ id \in A))
  BY ShownNow DEF Kept
<1> SUFFICES ASSUME NEW id \in O, Generic(id)
             PROVE  /\ view = "all" => (id \in S => id \notin R) /\ (id \in A => id \in S)
                    /\ view # "all" /\ draft.base \in {"none", view} =>
                         (id \in S <=> id \in (ToSet(Presets[view][part]) \ R) \cup A)
  BY DEF Consistent
<1> HIDE DEF A, R, S, O
<1>6. CASE view = "all"
  BY <1>1, <1>2, <1>5, <1>6
<1>7. CASE view # "all" /\ draft.base = "none"
  <2>1. draft.base # view
    BY <1>1, <1>7, ViewFacts
  <2>2. Chose(view, part) = ToSet(Presets[view][part])
    BY <1>7 DEF Chose
  <2> QED
    BY <1>2, <1>5, <1>7, <2>1, <2>2
<1>8. CASE view # "all" /\ draft.base = view
  <2>1. draft # NoDraft
    BY <1>1, <1>8, NoDraftBase, ViewFacts
  <2>2. Agrees(draft)
    BY <2>1 DEF Follows, Ready
  <2>3. id \in ToSet(draft[part]) <=> id \in Wanted(draft, part)
    BY <1>3, <2>2 DEF Agrees
  <2>4. Wanted(draft, part) = (ToSet(Presets[view][part]) \ R) \cup A
    BY <1>8 DEF Wanted, R, A
  <2> QED
    BY <1>4, <1>8, <2>3, <2>4
<1> QED
  BY <1>6, <1>7, <1>8

(* The preferences as they are, and no preferences, are about generic      *)
(* items of the part.                                                      *)
LEMMA PrefsGood ==
  ASSUME Typed, Lists, NEW part \in Parts
  PROVE  GoodPrefs(part, prefs[part]) /\ GoodPrefs(part, NoPrefs)
<1>1. prefs[part] \in Pref
  BY DEF Typed, Types
<1>2. GoodPrefs(part, prefs[part])
  BY <1>1, TypedFacts, ListIs DEF GoodPrefs, Lists
<1>3. NoPrefs.added = <<>> /\ NoPrefs.removed = {} /\ NoPrefs \in Pref
  BY DEF NoPrefs, Pref
<1>4. ToSet(<<>>) = {} /\ IsListOf(<<>>, part)
  BY DEF ToSet, IsListOf, IsInjective
<1>5. GoodPrefs(part, NoPrefs)
  BY <1>3, <1>4 DEF GoodPrefs
<1> QED
  BY <1>2, <1>5

(* A list of what is offered is one that may be saved.                     *)
LEMMA MakeList ==
  ASSUME Typed, NEW part \in Parts, NEW ids \in Seq(Ids), IsInjective(ids), ToSet(ids) = OfferedSet(part),
         NEW selected, selected \subseteq OfferedSet(part)
  PROVE  GoodList(part, [ids |-> ids, selected |-> selected])
<1> DEFINE l == [ids |-> ids, selected |-> selected]
<1>1. OfferedSet(part) \in SUBSET Ids /\ OfferedSet(part) \subseteq ToSet(Items(part))
  BY OfferedFacts
<1>2. l \in List /\ l.ids = ids /\ l.selected = selected
  BY <1>1 DEF List
<1> HIDE DEF l
<1>3. GoodList(part, l)
  BY <1>1, <1>2, ListIs DEF GoodList
<1> QED
  BY <1>3 DEF l

(* The preferences that a modal updates.                                   *)
LEMMA UpdatedFacts ==
  ASSUME Typed, Lists, Follows, Ready, NEW part \in Parts, NEW list, GoodList(part, list)
  PROVE  GoodPrefs(part, UpdatedPrefs(part, list)) /\ Consistent(part, list, UpdatedPrefs(part, list))
<1> DEFINE was == ToSet(Shown(part))
           O == OfferedSet(part)
           S == list.selected
           A == ToSet(prefs[part].added)
           R == prefs[part].removed
           T == {id \in ToSet(list.ids) : Generic(id) /\ (id \in list.selected) # (id \in was)}
           l == Without(prefs[part].added, T \ S)
           x == Only(list.ids, T \cap S)
           r == Without(x, ToSet(l))
           p == UpdatedPrefs(part, list)
<1>1. p = [added |-> l \o r, removed |-> (R \ T) \cup (T \ S)]
  BY DEF UpdatedPrefs
<1>2. p.added = l \o r /\ p.removed = (R \ T) \cup (T \ S)
  BY <1>1
<1>3. list.ids \in Seq(Ids) /\ IsInjective(list.ids) /\ ToSet(list.ids) = O /\ S \subseteq O
  BY ListIs DEF GoodList
<1>4. O \in SUBSET Ids /\ O \subseteq ToSet(Items(part)) /\ was \subseteq O
  BY OfferedFacts, ShownNow
<1>5. T = {id \in O : Generic(id) /\ (id \in S) # (id \in was)}
  BY <1>3
<1>6. /\ prefs[part].added \in Seq(Ids) /\ IsInjective(prefs[part].added) /\ A \subseteq ToSet(Items(part))
      /\ A \cap R = {} /\ R \subseteq ToSet(Items(part)) /\ (\A id \in A \cup R : Generic(id)) /\ R \subseteq Ids
  BY TypedFacts DEF Lists
<1>7. l \in Seq(Ids) /\ IsInjective(l) /\ ToSet(l) = A \ (T \ S)
  BY <1>6, WithoutFacts
<1>8. x \in Seq(Ids) /\ IsInjective(x) /\ ToSet(x) = (T \cap S) \cap O
  <2>1. T \cap S \in SUBSET Ids
    BY <1>3, <1>4
  <2> HIDE DEF T, S
  <2> QED
    BY <1>3, <2>1, OnlyIn
<1> DEFINE was0 == [ids |-> Offered(part), selected |-> was]
<1>9. Consistent(part, was0, prefs[part])
  <2>1. was0.selected = was
    OBVIOUS
  <2> HIDE DEF was0
  <2> QED
    BY <2>1, WasConsistent
<1>10. was0.selected = was
  OBVIOUS
<1>11. \A id \in O : Generic(id) =>
         /\ view = "all" => (id \in was => id \notin R) /\ (id \in A => id \in was)
         /\ view # "all" /\ draft.base \in {"none", view} =>
              (id \in was <=> id \in (ToSet(Presets[view][part]) \ R) \cup A)
  <2> HIDE DEF was0, was
  <2> QED
    BY <1>9, <1>10 DEF Consistent
<1> HIDE DEF was, O, S, A, R, T, l, x, p
<1>12. r \in Seq(Ids) /\ IsInjective(r) /\ ToSet(r) = ToSet(x) \ ToSet(l)
  BY <1>8, WithoutFacts
<1> HIDE DEF r
<1>13. ToSet(l) \cap ToSet(r) = {}
  BY <1>12
<1>14. l \o r \in Seq(Ids) /\ IsInjective(l \o r) /\ ToSet(l \o r) = ToSet(l) \cup ToSet(r)
  BY <1>7, <1>12, <1>13, ConcatOnce
<1>15. T \subseteq O /\ \A id \in T : Generic(id)
  BY <1>5
<1>16. ToSet(p.added) = (A \ (T \ S)) \cup (T \cap S)
  BY <1>2, <1>7, <1>8, <1>12, <1>14, <1>15
<1>17. p \in Pref
  <2>1. (R \ T) \cup (T \ S) \in SUBSET Ids
    BY <1>4, <1>6, <1>15
  <2> QED
    BY <1>1, <1>14, <2>1 DEF Pref, R
<1>18. GoodPrefs(part, p)
  <2>1. IsListOf(p.added, part)
    <3>1. ToSet(p.added) \subseteq ToSet(Items(part))
      BY <1>4, <1>6, <1>15, <1>16
    <3> QED
      BY <1>2, <1>14, <3>1, ListIs
  <2>2. ToSet(p.added) \cap p.removed = {}
    BY <1>2, <1>6, <1>16
  <2>3. \A id \in ToSet(p.added) \cup p.removed : Generic(id)
    BY <1>2, <1>6, <1>15, <1>16
  <2>4. p.removed \subseteq ToSet(Items(part))
    BY <1>2, <1>4, <1>6, <1>15
  <2> QED
    BY <1>17, <2>1, <2>2, <2>3, <2>4 DEF GoodPrefs
<1>19. Consistent(part, list, p)
  <2> SUFFICES ASSUME NEW id \in O, Generic(id)
               PROVE  /\ view = "all" => (id \in S => id \notin p.removed) /\ (id \in ToSet(p.added) => id \in S)
                      /\ view # "all" /\ draft.base \in {"none", view} =>
                           (id \in S <=> id \in (ToSet(Presets[view][part]) \ p.removed) \cup ToSet(p.added))
    BY DEF Consistent, O, S
  <2>1. id \in T <=> ((id \in S) # (id \in was))
    BY <1>5
  <2>2. id \in p.removed <=> (id \in R /\ id \notin T) \/ (id \in T /\ id \notin S)
    BY <1>2
  <2>3. id \in ToSet(p.added) <=> (id \in A /\ ~(id \in T /\ id \notin S)) \/ (id \in T /\ id \in S)
    BY <1>16
  <2>4. CASE id \in T
    BY <1>11, <2>1, <2>2, <2>3, <2>4
  <2>5. CASE id \notin T
    <3>1. id \in S <=> id \in was
      BY <2>1, <2>5
    <3> QED
      BY <1>11, <2>2, <2>3, <2>5, <3>1
  <2> QED
    BY <2>4, <2>5
<1> QED
  BY <1>18, <1>19 DEF p

(* A modal saves a list of what is offered, and preferences that agree     *)
(* with it.                                                                *)
LEMMA ModalSaves ==
  ASSUME Typed, Lists, Follows, NEW part \in Parts, SaveModal(part)
  PROVE  Ready /\ \E list, p : Saves(part, list, p)
<1>1. Ready /\ Offered(part) # <<>>
  BY DEF SaveModal, MayEdit
<1> DEFINE m == InModal(part)
           O == OfferedSet(part)
<1>2. PICK list \in {Toggled(m, id) : id \in O} \cup {[m EXCEPT !.ids = Dragged(@)]} :
        Save(part, list, UpdatedPrefs(part, list))
  BY DEF SaveModal
<1>3. m = [ids |-> Offered(part), selected |-> ToSet(Shown(part))]
  BY DEF InModal
<1>4. Offered(part) \in Seq(Ids) /\ IsInjective(Offered(part)) /\ ToSet(Offered(part)) = O /\ ToSet(Shown(part)) \subseteq O
  BY OfferedFacts, ShownNow
<1>5. GoodList(part, list)
  <2>1. ASSUME NEW id \in O, list = Toggled(m, id) PROVE GoodList(part, list)
    <3> DEFINE selected == IF id \in ToSet(Shown(part)) THEN ToSet(Shown(part)) \ {id} ELSE ToSet(Shown(part)) \cup {id}
    <3>1. list = [ids |-> Offered(part), selected |-> selected]
      BY <1>3, <2>1 DEF Toggled
    <3>2. selected \subseteq O
      BY <1>4
    <3> HIDE DEF selected
    <3> QED
      BY <1>4, <3>1, <3>2, MakeList
  <2>2. ASSUME list = [m EXCEPT !.ids = Dragged(@)] PROVE GoodList(part, list)
    <3> DEFINE ids == Dragged(Offered(part))
    <3>1. list = [ids |-> ids, selected |-> ToSet(Shown(part))]
      BY <1>3, <2>2
    <3>2. ids \in Seq(Ids) /\ IsInjective(ids) /\ ToSet(ids) = O
      BY <1>1, <1>4, DraggedFacts
    <3> HIDE DEF ids
    <3> QED
      BY <1>4, <3>1, <3>2, MakeList
  <2> QED
    BY <1>2, <2>1, <2>2
<1>6. GoodPrefs(part, UpdatedPrefs(part, list)) /\ Consistent(part, list, UpdatedPrefs(part, list))
  BY <1>1, <1>5, UpdatedFacts
<1>7. Saves(part, list, UpdatedPrefs(part, list))
  BY <1>2, <1>5, <1>6 DEF Saves
<1> QED
  BY <1>1, <1>7

(* So does the header of the table, which leaves the preferences.          *)
LEMMA DragSaves ==
  ASSUME Typed, Lists, Follows, DragColumn
  PROVE  Ready /\ \E list, p : Saves("columns", list, p)
<1> DEFINE shown == Dragged(Shown("columns"))
           ids == shown \o Without(Offered("columns"), ToSet(shown))
           list == [ids |-> ids, selected |-> ToSet(shown)]
           S == ToSet(Shown("columns"))
<1>0. "columns" \in Parts
  BY DEF Parts
<1>1. Ready /\ Shown("columns") # <<>> /\ Save("columns", list, prefs["columns"])
  BY DEF DragColumn, MayEdit
<1>2. Shown("columns") \in Seq(Ids) /\ IsInjective(Shown("columns")) /\ S \subseteq OfferedSet("columns")
  BY <1>0, ShownNow
<1>3. shown \in Seq(Ids) /\ IsInjective(shown) /\ ToSet(shown) = S
  BY <1>1, <1>2, DraggedFacts
<1> HIDE DEF shown
<1>4. /\ Offered("columns") \in Seq(Ids) /\ IsInjective(Offered("columns"))
      /\ ToSet(Offered("columns")) = OfferedSet("columns")
  BY <1>0, OfferedFacts
<1>5. ids \in Seq(Ids) /\ IsInjective(ids) /\ ToSet(ids) = OfferedSet("columns")
  BY <1>2, <1>3, <1>4, FirstFacts
<1> HIDE DEF ids
<1>6. GoodList("columns", list)
  BY <1>0, <1>2, <1>3, <1>5, MakeList
<1>7. list.selected = S
  BY <1>3
<1> HIDE DEF list
<1>8. Consistent("columns", list, prefs["columns"])
  BY <1>0, <1>1, <1>7, WasConsistent
<1>9. Saves("columns", list, prefs["columns"])
  BY <1>0, <1>1, <1>6, <1>8, PrefsGood DEF Saves
<1> QED
  BY <1>1, <1>9

(* So does the reset of the panels, which clears the preferences.          *)
LEMMA ResetSaves ==
  ASSUME Typed, Lists, Follows, ResetPanels
  PROVE  Ready /\ \E list, p : Saves("panels", list, p)
<1> DEFINE O == OfferedSet("panels")
           first == Only(Presets[view]["panels"], O)
           ids == IF view = "all" THEN Only(Panels, O) ELSE first \o Without(Offered("panels"), ToSet(first))
           selected == IF view = "all" THEN Defaults \cap O ELSE ToSet(first)
           list == [ids |-> ids, selected |-> selected]
<1>0. "panels" \in Parts /\ Panels = Items("panels")
  BY DEF Parts, Items
<1>1. Ready /\ Save("panels", list, NoPrefs)
  BY <1>0 DEF ResetPanels, ResetList, MayEdit
<1>2. /\ O \in SUBSET Ids /\ O \subseteq ToSet(Items("panels"))
      /\ Offered("panels") \in Seq(Ids) /\ IsInjective(Offered("panels")) /\ ToSet(Offered("panels")) = O
  BY <1>0, OfferedFacts
<1> HIDE DEF O
<1>3. Panels \in Seq(Ids) /\ IsInjective(Panels) /\ O \subseteq ToSet(Panels)
  BY <1>0, <1>2, ItemsFacts
<1>4. ASSUME view # "all"
      PROVE  first \in Seq(Ids) /\ IsInjective(first) /\ ToSet(first) = O \cap ToSet(Presets[view]["panels"])
  <2>1. view \in DOMAIN Presets
    BY <1>4, ViewFacts DEF Typed, TypeOK
  <2>2. Presets[view]["panels"] \in Seq(Ids) /\ IsInjective(Presets[view]["panels"])
    BY <1>0, <2>1, ItemsFacts
  <2> QED
    BY <1>2, <2>2, OnlyIn
<1> HIDE DEF first
<1>5. GoodList("panels", list)
  <2>1. ids \in Seq(Ids) /\ IsInjective(ids) /\ ToSet(ids) = O
    <3>1. CASE view = "all"
      <4>1. Only(Panels, O) \in Seq(Ids) /\ IsInjective(Only(Panels, O)) /\ ToSet(Only(Panels, O)) = O \cap ToSet(Panels)
        BY <1>2, <1>3, OnlyIn
      <4>2. O \cap ToSet(Panels) = O
        BY <1>3
      <4> QED
        BY <3>1, <4>1, <4>2
    <3>2. CASE view # "all"
      <4> DEFINE l == first \o Without(Offered("panels"), ToSet(first))
      <4>1. l \in Seq(Ids) /\ IsInjective(l) /\ ToSet(l) = ToSet(Offered("panels"))
        BY <1>2, <1>4, <3>2, FirstFacts
      <4>2. ids = l
        BY <3>2
      <4> HIDE DEF l
      <4> QED
        BY <1>2, <4>1, <4>2
    <3> QED
      BY <3>1, <3>2
  <2>2. selected \subseteq O
    BY <1>4
  <2> HIDE DEF ids, selected
  <2> QED
    BY <1>0, <2>1, <2>2, MakeList DEF O
<1>6. list.selected = selected
  OBVIOUS
<1> HIDE DEF list, ids
<1>7. Consistent("panels", list, NoPrefs)
  <2>1. NoPrefs.added = <<>> /\ NoPrefs.removed = {} /\ ToSet(<<>>) = {}
    BY DEF NoPrefs, ToSet
  <2> SUFFICES ASSUME NEW id \in O, view # "all"
               PROVE  id \in selected <=> id \in ToSet(Presets[view]["panels"])
    BY <1>6, <2>1 DEF Consistent, O
  <2> QED
    BY <1>4
<1>8. Saves("panels", list, NoPrefs)
  BY <1>0, <1>1, <1>5, <1>7, PrefsGood DEF Saves
<1> QED
  BY <1>1, <1>8

(* An edit is a save of a list and of preferences that agree, or restores  *)
(* the default columns.                                                    *)
LEMMA EditCases ==
  ASSUME Typed, Lists, Follows, Edit
  PROVE  Ready /\ (ResetColumns \/ \E part \in Parts : \E list, p : Saves(part, list, p))
<1>1. "columns" \in Parts /\ "panels" \in Parts
  BY DEF Parts
<1>2. ASSUME NEW part \in Parts, SaveModal(part) PROVE Ready /\ \E list, p : Saves(part, list, p)
  BY <1>2, ModalSaves
<1>3. ASSUME DragColumn PROVE Ready /\ \E list, p : Saves("columns", list, p)
  BY <1>3, DragSaves
<1>4. ASSUME ResetPanels PROVE Ready /\ \E list, p : Saves("panels", list, p)
  BY <1>4, ResetSaves
<1>5. ASSUME ResetColumns PROVE Ready
  BY <1>5 DEF ResetColumns, MayEdit
<1> QED
  BY <1>1, <1>2, <1>3, <1>4, <1>5 DEF Edit

-----------------------------------------------------------------------------
(* Types.                                                                  *)

DraftOK(d) == /\ d \in Draft /\ (d = NoDraft \/ d.base \in DOMAIN Presets)
              /\ \A part \in Parts : IsListOf(d[part], part)
ListedOK(l) == /\ l \in [Parts -> List]
               /\ \A part \in Parts : IsListOf(l[part].ids, part) /\ l[part].selected \subseteq ToSet(l[part].ids)
PrefsOK(p) == /\ p \in [Parts -> Pref]
              /\ \A part \in Parts : IsListOf(p[part].added, part) /\ ToSet(p[part].added) \cap p[part].removed = {}

(* The types, variable by variable.                                        *)
LEMMA TypedParts ==
  Typed <=> /\ view \in Views /\ stored \in BOOLEAN /\ tab \in {"overview", "topology"} /\ loaded \in BOOLEAN
            /\ pending \subseteq {"config", "saved", "metric", "view", "draft"}
            /\ metric \in Metrics /\ saved \in Metrics /\ own \in Metrics /\ edits \in Nat
            /\ last \in Deed /\ DraftOK(draft) /\ ListedOK(listed) /\ PrefsOK(prefs)
BY DEF Typed, TypeOK, Types, DraftOK, ListedOK, PrefsOK

(* The same of the next state.                                             *)
LEMMA TypedNext ==
  ASSUME /\ view' \in Views /\ stored' \in BOOLEAN /\ tab' \in {"overview", "topology"} /\ loaded' \in BOOLEAN
         /\ pending' \subseteq {"config", "saved", "metric", "view", "draft"}
         /\ metric' \in Metrics /\ saved' \in Metrics /\ own' \in Metrics /\ edits' \in Nat
         /\ last' \in Deed /\ DraftOK(draft') /\ ListedOK(listed') /\ PrefsOK(prefs')
  PROVE  Typed'
BY DEF Typed, TypeOK, Types, DraftOK, ListedOK, PrefsOK

(* No draft, no preferences and the deeds of the user that say nothing are *)
(* well-typed.                                                             *)
LEMMA EmptyFacts ==
  /\ DraftOK(NoDraft)
  /\ \A part \in Parts : NoPrefs \in Pref /\ IsListOf(NoPrefs.added, part) /\ ToSet(NoPrefs.added) \cap NoPrefs.removed = {}
  /\ \A act \in {"load", "metric", "save", "other"} : Did(act) \in Deed
<1>1. \A part \in Parts : IsListOf(<<>>, part)
  BY DEF IsListOf, IsInjective
<1>2. \A part \in Parts : NoDraft[part] = <<>>
  BY DEF NoDraft, Parts
<1>3. NoDraft \in Draft
  BY DEF NoDraft, Draft, Metrics
<1>4. DraftOK(NoDraft)
  BY <1>1, <1>2, <1>3 DEF DraftOK
<1>5. NoPrefs \in Pref /\ NoPrefs.added = <<>> /\ NoPrefs.removed = {}
  BY DEF NoPrefs, Pref
<1>6. NoUrl \in Urls
  BY ViewFacts DEF NoUrl, Urls
<1>7. \A act \in {"load", "metric", "save", "other"} : Did(act) \in Deed
  BY <1>6 DEF Did, Deed, Metrics
<1> QED
  BY <1>1, <1>4, <1>5, <1>7

(* So is the default list, which has all the items.                        *)
LEMMA DefaultFacts ==
  ASSUME NEW part \in Parts
  PROVE  /\ DefaultList(part) \in List /\ IsListOf(DefaultList(part).ids, part)
         /\ DefaultList(part).selected \subseteq ToSet(DefaultList(part).ids) /\ DefaultList(part).ids = Items(part)
<1>1. Items(part) \in Seq(Ids) /\ IsListOf(Items(part), part) /\ ToSet(Items(part)) \subseteq Ids
  BY ItemsFacts
<1>2. DefaultList(part).ids = Items(part) /\ DefaultList(part).selected = Defaults \cap ToSet(Items(part))
  BY DEF DefaultList
<1>3. DefaultList(part) \in List
  BY <1>1 DEF DefaultList, List
<1> QED
  BY <1>1, <1>2, <1>3

(* So is the list that the storage gives back, which has all of them as    *)
(* well.                                                                   *)
LEMMA StoredFacts ==
  ASSUME Typed, NEW part \in Parts
  PROVE  /\ StoredList(part) \in List /\ IsListOf(StoredList(part).ids, part)
         /\ StoredList(part).selected \subseteq ToSet(StoredList(part).ids) /\ StoredList(part).ids = Items(part)
<1> DEFINE S == ToSet(Selected(listed[part]))
<1>1. S \subseteq ToSet(Items(part))
  <2>1. /\ listed[part].ids \in Seq(Ids) /\ ToSet(listed[part].ids) \subseteq ToSet(Items(part))
        /\ listed[part].selected \subseteq ToSet(listed[part].ids)
    BY TypedFacts
  <2>2. listed[part].selected \in SUBSET Ids
    BY <2>1, ItemsFacts
  <2>3. S = listed[part].selected \cap ToSet(listed[part].ids)
    BY <2>1, <2>2, OnlyIn DEF Selected
  <2> QED
    BY <2>1, <2>3
<1> HIDE DEF S
<1>2. StoredList(part) = IF S = {} THEN DefaultList(part) ELSE [ids |-> Items(part), selected |-> S]
  BY DEF StoredList, S
<1>3. Items(part) \in Seq(Ids) /\ IsListOf(Items(part), part) /\ ToSet(Items(part)) \subseteq Ids
  BY ItemsFacts
<1>4. CASE S = {}
  BY <1>2, <1>4, DefaultFacts
<1>5. CASE S # {}
  <2> DEFINE l == [ids |-> Items(part), selected |-> S]
  <2>1. l \in List /\ l.ids = Items(part) /\ l.selected = S
    BY <1>1, <1>3 DEF List
  <2> HIDE DEF l
  <2>2. StoredList(part) = l
    BY <1>2, <1>5 DEF l
  <2> QED
    BY <1>1, <1>3, <2>1, <2>2
<1> QED
  BY <1>4, <1>5

(* What a save selects.                                                    *)
LEMMA SelectedFacts ==
  ASSUME Typed, NEW part \in Parts, NEW list, GoodList(part, list)
  PROVE  /\ Selected(list) \in Seq(Ids) /\ IsInjective(Selected(list)) /\ IsListOf(Selected(list), part)
         /\ ToSet(Selected(list)) = list.selected
<1>1. /\ list.ids \in Seq(Ids) /\ IsInjective(list.ids) /\ ToSet(list.ids) = OfferedSet(part)
      /\ list.selected \subseteq OfferedSet(part)
  BY ListIs DEF GoodList
<1>2. OfferedSet(part) \in SUBSET Ids /\ OfferedSet(part) \subseteq ToSet(Items(part))
  BY OfferedFacts
<1>3. list.selected \in SUBSET Ids
  BY <1>1, <1>2
<1>4. Selected(list) \in Seq(Ids) /\ IsInjective(Selected(list))
      /\ ToSet(Selected(list)) = list.selected \cap ToSet(list.ids)
  BY <1>1, <1>3, OnlyIn DEF Selected
<1>5. ToSet(Selected(list)) = list.selected
  BY <1>1, <1>4
<1>6. IsListOf(Selected(list), part)
  BY <1>1, <1>2, <1>4, <1>5, ListIs
<1> QED
  BY <1>4, <1>5, <1>6

(* What is shown is a list of items of the part.                           *)
LEMMA ShownList ==
  ASSUME Typed, NEW part \in Parts
  PROVE  Shown(part) \in Seq(Ids) /\ IsListOf(Shown(part), part)
<1>1. Shown(part) \in Seq(Ids) /\ IsInjective(Shown(part)) /\ ToSet(Shown(part)) \subseteq ToSet(Items(part))
  BY ShownNow, OfferedFacts
<1> QED
  BY <1>1, ListIs

(* The draft that a save makes.                                            *)
LEMMA WithDraftFacts ==
  ASSUME Typed, view # "all", NEW part \in Parts, NEW list, GoodList(part, list)
  PROVE  /\ DraftOK(WithDraft(part, list))
         /\ Selected(list) = Shown(part) => WithDraft(part, list) = draft
         /\ Selected(list) # Shown(part) =>
              /\ WithDraft(part, list).base = view /\ WithDraft(part, list)[part] = Selected(list)
              /\ \A other \in Parts \ {part} :
                   WithDraft(part, list)[other] = IF draft = NoDraft THEN Shown(other) ELSE draft[other]
<1> DEFINE w == WithDraft(part, list)
<1>1. Selected(list) = Shown(part) => w = draft
  BY DEF WithDraft
<1>2. DraftOK(draft)
  BY TypedParts
<1>3. view \in DOMAIN Presets
  BY TypedParts, ViewFacts
<1> DEFINE was(other) == IF draft = NoDraft THEN Shown(other) ELSE draft[other]
           c == IF part = "columns" THEN Selected(list) ELSE was("columns")
           p == IF part = "panels" THEN Selected(list) ELSE was("panels")
           m == IF draft = NoDraft THEN metric ELSE draft.metric
<1>4. \A other \in Parts : was(other) \in Seq(Ids) /\ IsListOf(was(other), other)
  BY TypedFacts, ListIs, ShownList
<1>5. Selected(list) \in Seq(Ids) /\ IsListOf(Selected(list), part)
  BY SelectedFacts
<1>6. m \in Metrics
  <2>1. draft \in Draft /\ metric \in Metrics
    BY TypedParts DEF DraftOK
  <2> QED
    BY <2>1 DEF Draft
<1>7. Selected(list) # Shown(part) => w = [base |-> view, columns |-> c, panels |-> p, metric |-> m]
  BY DEF WithDraft
<1>8. "columns" \in Parts /\ "panels" \in Parts /\ (part # "columns" => part = "panels")
      /\ \A x \in Parts : x = "columns" \/ x = "panels"
  BY DEF Parts
<1> HIDE DEF was, w, m
<1>9. c \in Seq(Ids) /\ IsListOf(c, "columns") /\ p \in Seq(Ids) /\ IsListOf(p, "panels")
  BY <1>4, <1>5, <1>8
<1>10. c = (IF part = "columns" THEN Selected(list) ELSE was("columns"))
       /\ p = (IF part = "panels" THEN Selected(list) ELSE was("panels"))
  OBVIOUS
<1> HIDE DEF c, p
<1> DEFINE d == [base |-> view, columns |-> c, panels |-> p, metric |-> m]
<1>11. d \in Draft /\ d.base = view /\ d["columns"] = c /\ d["panels"] = p
  BY <1>3, <1>6, <1>9 DEF Draft
<1> HIDE DEF d
<1>12. DraftOK(d)
  BY <1>3, <1>8, <1>9, <1>11 DEF DraftOK
<1>13. Selected(list) # Shown(part) => w = d
  BY <1>7 DEF d
<1>14. d[part] = Selected(list) /\ \A other \in Parts \ {part} : d[other] = was(other)
  BY <1>8, <1>10, <1>11
<1> QED
  BY <1>1, <1>2, <1>11, <1>12, <1>13, <1>14 DEF w, was

(* A save keeps the types.                                                 *)
LEMMA SaveTyped ==
  ASSUME Typed, Ready, NEW part \in Parts, NEW list, NEW p, Saves(part, list, p)
  PROVE  Typed'
<1>1. PageKept
  BY SavePage DEF Saves
<1>2. view' \in Views /\ stored' \in BOOLEAN /\ tab' \in {"overview", "topology"} /\ loaded' \in BOOLEAN
      /\ metric' \in Metrics /\ saved' \in Metrics /\ own' \in Metrics
  BY <1>1, TypedParts DEF PageKept
<1>3. pending' \subseteq {"config", "saved", "metric", "view", "draft"}
  BY <1>1 DEF PageKept
<1>4. edits' \in Nat
  BY TypedParts DEF Saves, Save
<1>5. DraftOK(draft')
  <2>1. draft' = IF view = "all" THEN draft ELSE WithDraft(part, list)
    BY DEF Saves, Save
  <2> QED
    BY <2>1, TypedParts, WithDraftFacts DEF Saves
<1>6. ListedOK(listed')
  <2>1. listed' = IF view = "all" THEN [listed EXCEPT ![part] = list] ELSE listed
    BY DEF Saves, Save, Listed
  <2>2. list \in List /\ IsListOf(list.ids, part) /\ list.selected \subseteq ToSet(list.ids)
    BY DEF Saves, GoodList
  <2>3. ListedOK(listed)
    BY TypedParts
  <2> QED
    BY <2>1, <2>2, <2>3 DEF ListedOK
<1>7. PrefsOK(prefs')
  <2>1. prefs' = [prefs EXCEPT ![part] = p]
    BY DEF Saves, Save
  <2>2. p \in Pref /\ IsListOf(p.added, part) /\ ToSet(p.added) \cap p.removed = {}
    BY DEF Saves, GoodPrefs
  <2>3. PrefsOK(prefs)
    BY TypedParts
  <2> QED
    BY <2>1, <2>2, <2>3 DEF PrefsOK
<1>8. last' \in Deed
  <2>1. last' = Chosen(part, list)
    BY DEF Saves, Save
  <2>2. Selected(list) \in Seq(Ids)
    BY SelectedFacts DEF Saves
  <2>3. Shown("columns") \in Seq(Ids) /\ Shown("panels") \in Seq(Ids)
    BY ShownList DEF Parts
  <2> DEFINE c == IF part = "columns" THEN Selected(list) ELSE Shown("columns")
             q == IF part = "panels" THEN Selected(list) ELSE Shown("panels")
             d == Did("save")
  <2>4. c \in Seq(Ids) /\ q \in Seq(Ids) /\ d \in Deed
    BY <2>2, <2>3, EmptyFacts
  <2>5. Chosen(part, list) = Did("other") \/ Chosen(part, list) = [d EXCEPT !.columns = c, !.panels = q]
    BY DEF Chosen
  <2> HIDE DEF c, q, d
  <2>6. [d EXCEPT !.columns = c, !.panels = q] \in Deed
    BY <2>4 DEF Deed
  <2> QED
    BY <2>1, <2>5, <2>6, EmptyFacts
<1> QED
  BY <1>2, <1>3, <1>4, <1>5, <1>6, <1>7, <1>8, TypedNext

(* So do the effects.                                                      *)
LEMMA EffectsTyped ==
  ASSUME Typed, Lists, Effects
  PROVE  Typed'
<1>1. /\ view' \in Views /\ stored' \in BOOLEAN /\ UNCHANGED <<tab, prefs, loaded, edits, last>>
  BY EffectsPage, TypedParts, ViewFacts
<1>2. saved' \in Metrics
  BY EffectsPage, TypedParts DEF Saved
<1>3. metric' \in Metrics
  <2>1. "Bytes" \in Metrics
    BY DEF Metrics
  <2> QED
    BY <1>2, <2>1, EffectsPage, TypedParts
<1>4. own' \in Metrics
  BY <1>3, EffectsPage, TypedParts
<1>5. pending' \subseteq {"config", "saved", "metric", "view", "draft"}
  BY EffectsPage DEF Changed
<1>6. DraftOK(draft')
  <2>1. draft' \in {NoDraft, draft} \/ (draft # NoDraft /\ draft' = Reconciled(draft))
    BY DEF Effects
  <2>2. ASSUME draft # NoDraft PROVE DraftOK(Reconciled(draft))
    <3>1. draft.base \in DOMAIN Presets
      BY <2>2, TypedParts DEF DraftOK
    <3> QED
      BY <2>2, <3>1, ReconciledFacts DEF DraftOK
  <2> QED
    BY <2>1, <2>2, EmptyFacts, TypedParts
<1>7. ListedOK(listed')
  <2>1. listed' = [part \in Parts |-> StoredList(part)] \/ listed' = listed
    BY DEF Effects
  <2>2. ListedOK([part \in Parts |-> StoredList(part)])
    BY StoredFacts DEF ListedOK
  <2> QED
    BY <2>1, <2>2, TypedParts
<1> QED
  BY <1>1, <1>2, <1>3, <1>4, <1>5, <1>6, <1>7, TypedParts, TypedNext

(* So does every step.                                                     *)
LEMMA TypedStep ==
  ASSUME Typed, Lists, Follows, [Next]_vars
  PROVE  Typed'
<1>0. /\ view \in Views /\ stored \in BOOLEAN /\ tab \in {"overview", "topology"} /\ loaded \in BOOLEAN
      /\ pending \subseteq {"config", "saved", "metric", "view", "draft"}
      /\ metric \in Metrics /\ saved \in Metrics /\ own \in Metrics /\ edits \in Nat
      /\ last \in Deed /\ DraftOK(draft) /\ ListedOK(listed) /\ PrefsOK(prefs)
  BY TypedParts
<1>a. Changed \subseteq {"config", "saved", "metric", "view", "draft"} /\ "Bytes" \in Metrics
  BY DEF Changed, Metrics
<1>b. \A act \in {"load", "metric", "save", "other"} : Did(act) \in Deed
  BY EmptyFacts
<1>c. ListedOK([part \in Parts |-> DefaultList(part)])
  BY DefaultFacts DEF ListedOK
<1>1. ASSUME Effects PROVE Typed'
  BY <1>1, EffectsTyped
<1>2. ASSUME ConfigLoaded PROVE Typed'
  BY <1>0, <1>2, TypedNext DEF ConfigLoaded
<1>3. ASSUME NEW url \in Urls, Load(url) PROVE Typed'
  <2> DEFINE d == Did("load")
  <2>1. url.view \in Views
    BY DEF Urls
  <2>2. view' \in Views
    BY <1>0, <1>3, <2>1 DEF Load, LoadedView, FirstView
  <2>3. last' = [d EXCEPT !.url = url] /\ d \in Deed
    BY <1>3, <1>b DEF Load
  <2> HIDE DEF d
  <2>4. last' \in Deed
    BY <2>3 DEF Deed
  <2>5. UNCHANGED <<stored, tab, metric, listed, prefs, pending, edits>> /\ loaded' = FALSE /\ draft' = NoDraft
        /\ saved' \in {metric, "Bytes"} /\ own' \in {metric, "Bytes"}
    BY <1>3 DEF Load
  <2> QED
    BY <1>0, <1>a, <2>2, <2>4, <2>5, EmptyFacts, TypedNext
<1>4. ASSUME NEW v \in Views, SelectView(v) PROVE Typed'
  <2>1. view' = v /\ metric' = MetricOfView(v, saved) /\ UNCHANGED <<tab, saved, draft, listed, prefs, loaded, edits, own>>
        /\ stored' = TRUE /\ pending' = Changed
    BY <1>4 DEF SelectView
  <2>2. v # "all" => Presets[v].metric \in Metrics
    BY ViewFacts DEF Metrics
  <2>3. draft.metric \in Metrics
    BY <1>0 DEF DraftOK, Draft
  <2>4. metric' \in Metrics
    BY <1>0, <2>1, <2>2, <2>3 DEF MetricOfView
  <2> DEFINE d == Did("metric")
             m == IF v = "all" THEN own ELSE IF draft.base = v THEN draft.metric ELSE Presets[v].metric
  <2>5. last' = [d EXCEPT !.metric = m] /\ d \in Deed
    BY <1>4, <1>b DEF SelectView
  <2>6. m \in Metrics
    BY <1>0, <2>2, <2>3
  <2> HIDE DEF d, m
  <2>7. last' \in Deed
    BY <2>5, <2>6 DEF Deed
  <2> QED
    BY <1>0, <1>a, <2>1, <2>4, <2>7, TypedNext
<1>5. ASSUME SelectTab PROVE Typed'
  BY <1>0, <1>a, <1>b, <1>5, TypedNext DEF SelectTab
<1>6. ASSUME NEW m \in Metrics, SelectMetric(m) PROVE Typed'
  BY <1>0, <1>a, <1>b, <1>6, TypedNext DEF SelectMetric
<1>7. ASSUME Edit PROVE Typed'
  <2>1. Ready /\ (ResetColumns \/ \E part \in Parts : \E list, p : Saves(part, list, p))
    BY <1>7, EditCases
  <2>2. ASSUME NEW part \in Parts, NEW list, NEW p, Saves(part, list, p) PROVE Typed'
    BY <2>1, <2>2, SaveTyped
  <2>3. ASSUME ResetColumns PROVE Typed'
    <3>1. "columns" \in Parts
      BY DEF Parts
    <3>2. PrefsOK([prefs EXCEPT !["columns"] = NoPrefs])
      BY <1>0, <3>1, EmptyFacts DEF PrefsOK
    <3>3. ListedOK([listed EXCEPT !["columns"] = DefaultList("columns")])
      BY <1>0, <3>1, DefaultFacts DEF ListedOK
    <3> QED
      BY <1>0, <1>a, <1>b, <2>3, <3>2, <3>3, EmptyFacts, TypedNext DEF ResetColumns
  <2> QED
    BY <2>1, <2>2, <2>3
<1>8. ASSUME RestoreDefaults PROVE Typed'
  <2>1. PrefsOK([part \in Parts |-> NoPrefs])
    BY EmptyFacts DEF PrefsOK
  <2> QED
    BY <1>0, <1>a, <1>b, <1>c, <1>8, <2>1, TypedNext DEF RestoreDefaults
<1>9. ASSUME Discard PROVE Typed'
  <2>1. draft.base \in DOMAIN Presets /\ draft.base = view
    BY <1>0, <1>9 DEF Discard, DraftOK
  <2> DEFINE d == Did("metric")
             m == Presets[view].metric
  <2>2. m \in Metrics /\ d \in Deed /\ last' = [d EXCEPT !.metric = m] /\ metric' = m
    BY <1>9, <1>b, <2>1 DEF Metrics, Discard
  <2> HIDE DEF d, m
  <2>3. last' \in Deed
    BY <2>2 DEF Deed
  <2> QED
    BY <1>0, <1>a, <1>9, <2>2, <2>3, EmptyFacts, TypedNext DEF Discard
<1>10. ASSUME ResetFilters PROVE Typed'
  <2> DEFINE d == Did("metric")
             e == Did("other")
  <2>1. d \in Deed /\ e \in Deed /\ last' = IF view = "all" THEN e ELSE [d EXCEPT !.metric = own]
    BY <1>10, <1>b DEF ResetFilters
  <2> HIDE DEF d, e
  <2>2. last' \in Deed
    BY <1>0, <2>1 DEF Deed
  <2> QED
    BY <1>0, <1>a, <1>10, <2>2, EmptyFacts, ViewFacts, TypedNext DEF ResetFilters
<1>11. ASSUME UNCHANGED vars PROVE Typed'
  BY <1>0, <1>11, TypedNext DEF vars
<1> QED
  BY <1>1, <1>2, <1>3, <1>4, <1>5, <1>6, <1>7, <1>8, <1>9, <1>10, <1>11, NextCases

-----------------------------------------------------------------------------
(* No item is lost.                                                        *)

(* A list that is set has the available items, or all of them.             *)
Relisted ==
  \A part \in Parts :
    /\ listed'[part] = listed[part] \/ ToSet(listed'[part].ids) = OfferedSet(part) \/ listed'[part].ids = Items(part)
    /\ prefs'[part] = prefs[part] \/ GoodPrefs(part, prefs'[part])

(* A save sets a list of what is offered, and preferences on generic       *)
(* items.                                                                  *)
LEMMA SaveRelists ==
  ASSUME Typed, NEW part \in Parts, NEW list, NEW p, Saves(part, list, p)
  PROVE  Relisted
<1>1. listed \in [Parts -> List] /\ prefs \in [Parts -> Pref]
  BY DEF Typed, Types
<1>2. listed' = listed \/ listed' = [listed EXCEPT ![part] = list]
  BY DEF Saves, Save, Listed
<1>3. prefs' = [prefs EXCEPT ![part] = p]
  BY DEF Saves, Save
<1>4. ToSet(list.ids) = OfferedSet(part) /\ GoodPrefs(part, p)
  BY DEF Saves, GoodList
<1> SUFFICES ASSUME NEW x \in Parts
             PROVE  /\ listed'[x] = listed[x] \/ ToSet(listed'[x].ids) = OfferedSet(x) \/ listed'[x].ids = Items(x)
                    /\ prefs'[x] = prefs[x] \/ GoodPrefs(x, prefs'[x])
  BY DEF Relisted
<1>5. CASE x = part
  <2>1. listed'[x] = listed[x] \/ listed'[x] = list
    BY <1>1, <1>2, <1>5
  <2>2. prefs'[x] = p
    BY <1>1, <1>3, <1>5
  <2> QED
    BY <1>4, <1>5, <2>1, <2>2
<1>6. CASE x # part
  BY <1>1, <1>2, <1>3, <1>6
<1> QED
  BY <1>5, <1>6

(* Every step that sets a list sets one of what is offered, or of all the  *)
(* items.                                                                  *)
LEMMA RelistedStep ==
  ASSUME Typed, Lists, Follows, [Next]_vars
  PROVE  Relisted
<1>0. listed \in [Parts -> List] /\ prefs \in [Parts -> Pref]
  BY DEF Typed, Types
<1>1. ASSUME UNCHANGED <<listed, prefs>> PROVE Relisted
  BY <1>1 DEF Relisted
<1>2. CASE Effects
  <2>1. listed' = [part \in Parts |-> StoredList(part)] \/ listed' = listed
    BY <1>2 DEF Effects
  <2>2. prefs' = prefs
    BY <1>2 DEF Effects
  <2>3. \A part \in Parts : StoredList(part).ids = Items(part)
    BY StoredFacts
  <2> QED
    BY <2>1, <2>2, <2>3 DEF Relisted
<1>3. CASE Edit
  <2>1. ASSUME NEW part \in Parts, NEW list, NEW p, Saves(part, list, p) PROVE Relisted
    BY <2>1, SaveRelists
  <2>2. CASE ResetColumns
    <3>1. listed' = listed \/ listed' = [listed EXCEPT !["columns"] = DefaultList("columns")]
      BY <2>2 DEF ResetColumns
    <3>2. prefs' = [prefs EXCEPT !["columns"] = NoPrefs]
      BY <2>2 DEF ResetColumns
    <3>3. \A part \in Parts : DefaultList(part).ids = Items(part) /\ GoodPrefs(part, NoPrefs)
      BY DefaultFacts, PrefsGood
    <3>4. \A part \in Parts : \/ listed'[part] = listed[part] \/ listed'[part] = DefaultList(part)
      BY <1>0, <3>1
    <3>5. \A part \in Parts : \/ prefs'[part] = prefs[part] \/ prefs'[part] = NoPrefs
      BY <1>0, <3>2
    <3> QED
      BY <3>3, <3>4, <3>5 DEF Relisted
  <2> QED
    BY <1>3, <2>1, <2>2, EditCases
<1>4. CASE RestoreDefaults
  <2>1. \A part \in Parts : DefaultList(part).ids = Items(part) /\ GoodPrefs(part, NoPrefs)
    BY DefaultFacts, PrefsGood
  <2>2. \A part \in Parts : listed'[part] = DefaultList(part) /\ prefs'[part] = NoPrefs
    BY <1>4 DEF RestoreDefaults
  <2> QED
    BY <2>1, <2>2 DEF Relisted
<1>5. ASSUME \/ ConfigLoaded \/ (\E url \in Urls : Load(url))
             \/ (\E v \in Views : SelectView(v)) \/ SelectTab \/ (\E m \in Metrics : SelectMetric(m))
             \/ Discard \/ ResetFilters \/ UNCHANGED vars
      PROVE  UNCHANGED <<listed, prefs>>
  BY <1>5 DEF ConfigLoaded, Load, SelectView, SelectTab, SelectMetric, Discard, ResetFilters, vars
<1> QED
  BY <1>1, <1>2, <1>3, <1>4, <1>5, NextCases

(* The items that are offered never change.                                *)
LEMMA OfferedSame ==
  ASSUME Lists, Relisted, NEW part \in Parts
  PROVE  OfferedSet(part)' = OfferedSet(part)
<1>1. OfferedSet(part)' = {id \in ToSet(listed'[part].ids) : Available(id)}
  BY DEF OfferedSet, Available
<1>2. OfferedSet(part) = {id \in ToSet(listed[part].ids) : Available(id)}
  BY DEF OfferedSet
<1>3. OfferedSet(part) = {id \in ToSet(Items(part)) : Available(id)}
  BY DEF Lists
<1>4. CASE ToSet(listed'[part].ids) = OfferedSet(part)
  BY <1>1, <1>2, <1>4
<1>5. CASE listed'[part] = listed[part] \/ listed'[part].ids = Items(part)
  BY <1>1, <1>2, <1>3, <1>5
<1> QED
  BY <1>4, <1>5 DEF Relisted

(* No item is lost, whatever the step: what is offered stays all that is   *)
(* available.                                                              *)
LEMMA ListsStep ==
  ASSUME Lists, Relisted
  PROVE  Lists'
<1> SUFFICES ASSUME NEW part \in Parts
             PROVE  /\ OfferedSet(part)' = {id \in ToSet(Items(part)) : Available(id)}
                    /\ \A id \in ToSet(prefs'[part].added) \cup prefs'[part].removed : Generic(id)
                    /\ prefs'[part].removed \subseteq ToSet(Items(part))
  BY DEF Lists, Parts, Items, Available, Generic
<1>1. OfferedSet(part)' = {id \in ToSet(Items(part)) : Available(id)}
  BY OfferedSame DEF Lists
<1>2. prefs'[part] = prefs[part] \/ GoodPrefs(part, prefs'[part])
  BY DEF Relisted
<1>3. /\ \A id \in ToSet(prefs'[part].added) \cup prefs'[part].removed : Generic(id)
      /\ prefs'[part].removed \subseteq ToSet(Items(part))
  BY <1>2 DEF Lists, GoodPrefs
<1> QED
  BY <1>1, <1>3

-----------------------------------------------------------------------------
(* The draft follows the preferences.                                      *)

LEMMA AgreesSame ==
  ASSUME UNCHANGED <<draft, prefs>>
  PROVE  Agrees(draft)' <=> Agrees(draft)
BY DEF Agrees, Wanted, Generic

(* What is selected when a save is done.                                   *)
After(part, list, x) == IF x = part THEN list.selected ELSE ToSet(Shown(x))

(* The draft of a view, after a save in it.                                *)
LEMMA DraftSaved ==
  ASSUME Typed, Ready, NEW part \in Parts, NEW list, NEW p, Saves(part, list, p),
         view # "all", draft.base \in {"none", view}, draft'.base = view, NEW x \in Parts
  PROVE  ToSet(draft'[x]) \cap OfferedSet(x) = After(part, list, x)
<1>1. draft' = WithDraft(part, list) /\ GoodList(part, list)
  BY DEF Saves, Save
<1>2. ToSet(Selected(list)) = list.selected /\ list.selected \subseteq OfferedSet(part)
  BY <1>1, SelectedFacts DEF GoodList
<1>3. /\ ToSet(Shown(x)) \subseteq OfferedSet(x)
      /\ draft.base = view => ToSet(Shown(x)) = ToSet(draft[x]) \cap OfferedSet(x)
  BY ShownNow
<1>4. draft = NoDraft \/ draft.base = view
  BY NoDraftBase
<1>5. CASE Selected(list) = Shown(part)
  <2>1. draft' = draft
    BY <1>1, <1>5, WithDraftFacts
  <2>2. ToSet(draft'[x]) \cap OfferedSet(x) = ToSet(Shown(x))
    BY <1>3, <2>1
  <2> QED
    BY <1>2, <1>5, <2>2 DEF After
<1>6. CASE Selected(list) # Shown(part)
  <2>1. CASE x = part
    <3>1. draft'[x] = Selected(list)
      BY <1>1, <1>6, <2>1, WithDraftFacts
    <3> QED
      BY <1>2, <2>1, <3>1 DEF After
  <2>2. CASE x # part
    <3>1. draft'[x] = IF draft = NoDraft THEN Shown(x) ELSE draft[x]
      BY <1>1, <1>6, <2>2, WithDraftFacts
    <3>2. ToSet(draft'[x]) \cap OfferedSet(x) = ToSet(Shown(x))
      BY <1>3, <1>4, <3>1
    <3> QED
      BY <2>2, <3>2 DEF After
  <2> QED
    BY <2>1, <2>2
<1> QED
  BY <1>5, <1>6

(* After a save, what is selected agrees with the new preferences.         *)
LEMMA AfterConsistent ==
  ASSUME Typed, Lists, Follows, Ready, NEW part \in Parts, NEW list, NEW p, Saves(part, list, p), NEW x \in Parts
  PROVE  \A id \in OfferedSet(x) : Generic(id) =>
           /\ view = "all" => /\ id \in After(part, list, x) => id \notin prefs'[x].removed
                              /\ id \in ToSet(prefs'[x].added) => id \in After(part, list, x)
           /\ view # "all" /\ draft.base \in {"none", view} =>
                (id \in After(part, list, x) <=>
                   id \in (ToSet(Presets[view][x]) \ prefs'[x].removed) \cup ToSet(prefs'[x].added))
<1>1. prefs \in [Parts -> Pref] /\ prefs' = [prefs EXCEPT ![part] = p]
  BY DEF Typed, Types, Saves, Save
<1>2. CASE x = part
  <2>1. prefs'[x] = p
    BY <1>1, <1>2
  <2>2. After(part, list, x) = list.selected
    BY <1>2 DEF After
  <2> QED
    BY <1>2, <2>1, <2>2 DEF Saves, Consistent
<1>3. CASE x # part
  <2> DEFINE now == [ids |-> Offered(x), selected |-> ToSet(Shown(x))]
  <2>1. prefs'[x] = prefs[x]
    BY <1>1, <1>3
  <2>2. After(part, list, x) = now.selected
    BY <1>3 DEF After
  <2>3. Consistent(x, now, prefs[x])
    BY WasConsistent
  <2> HIDE DEF now
  <2> QED
    BY <2>1, <2>2, <2>3 DEF Consistent
<1> QED
  BY <1>2, <1>3

(* A save of which something is said is one in the Default view, or in a   *)
(* view that has no draft but its own.                                     *)
LEMMA SaveSays ==
  ASSUME Typed, NEW part \in Parts, NEW list, NEW p, Saves(part, list, p), last'.act = "save"
  PROVE  /\ view = "all" \/ draft.base \in {"none", view}
         /\ \A x \in Parts : last'[x] = IF x = part THEN Selected(list) ELSE Shown(x)
<1> DEFINE c == IF part = "columns" THEN Selected(list) ELSE Shown("columns")
           q == IF part = "panels" THEN Selected(list) ELSE Shown("panels")
           d == Did("save")
<1>1. last' = Chosen(part, list)
  BY DEF Saves, Save
<1>2. ~(view # "all" /\ draft.base \notin {"none", view})
  <2> SUFFICES ASSUME view # "all", draft.base \notin {"none", view} PROVE FALSE
    OBVIOUS
  <2>1. last' = Did("other")
    BY <1>1 DEF Chosen
  <2> QED
    BY <2>1, DidFields
<1>3. last' = [d EXCEPT !.columns = c, !.panels = q]
  BY <1>1, <1>2 DEF Chosen
<1>4. d \in Deed
  BY EmptyFacts
<1> HIDE DEF c, q, d
<1>5. last'["columns"] = c /\ last'["panels"] = q
  BY <1>3, <1>4 DEF Deed
<1>6. \A x \in Parts : last'[x] = IF x = part THEN Selected(list) ELSE Shown(x)
  BY <1>5 DEF c, q, Parts
<1> QED
  BY <1>2, <1>6

(* The draft that is open after a save.                                    *)
LEMMA SaveAgrees ==
  ASSUME Typed, Typed', Lists, Follows, Ready, NEW part \in Parts, NEW list, NEW p, Saves(part, list, p),
         last'.act = "save", draft'.base = view
  PROVE  Agrees(draft)'
<1>1. draft' # NoDraft /\ draft'.base \in DOMAIN Presets
  <2>1. view \in Views
    BY TypedParts
  <2>2. draft'.base # "none"
    BY <2>1, ViewFacts
  <2> QED
    BY <2>2 DEF NoDraft, Typed, TypeOK
<1>2. view # "all" /\ draft.base \in {"none", view}
  BY <1>1, SaveSays, ViewFacts
<1> SUFFICES ASSUME NEW x \in Parts, NEW id \in Ids, Generic(id)
             PROVE  id \in ToSet(draft'[x]) <=> id \in (ToSet(Presets[view][x]) \ prefs'[x].removed) \cup ToSet(prefs'[x].added)
  BY DEF Agrees, Wanted, Generic
<1>3. ToSet(draft'[x]) \subseteq ToSet(Items(x)) /\ ToSet(prefs'[x].added) \subseteq ToSet(Items(x))
  <2>1. IsListOf(draft'[x], x) /\ IsListOf(prefs'[x].added, x)
    BY DEF Typed, TypeOK, IsListOf, Items
  <2> QED
    BY <2>1, ListIs
<1>4. ToSet(Presets[view][x]) \subseteq ToSet(Items(x))
  BY <1>1, ItemsFacts
<1>5. id \in ToSet(Items(x)) => id \in OfferedSet(x)
  BY DEF Lists, Available, Generic
<1>6. ToSet(draft'[x]) \cap OfferedSet(x) = After(part, list, x)
  BY <1>2, DraftSaved
<1>7. id \in OfferedSet(x) =>
        (id \in After(part, list, x) <=> id \in (ToSet(Presets[view][x]) \ prefs'[x].removed) \cup ToSet(prefs'[x].added))
  BY <1>2, AfterConsistent
<1> QED
  BY <1>3, <1>4, <1>5, <1>6, <1>7

(* Reconciled, the draft agrees with the preferences, and one of which no  *)
(* item changes did so before.                                             *)
LEMMA FollowsEffects ==
  ASSUME Typed, Lists, Phases, Follows, Effects
  PROVE  Follows'
<1> DEFINE next == Reconciled(draft)
<1>1. loaded
  BY EffectsPage DEF Phases
<1>2. prefs' = prefs /\ last' = last
  BY EffectsPage
<1>3. \/ draft' = NoDraft
      \/ draft' = draft /\ ("draft" \in pending /\ draft # NoDraft => ~Differs(draft, next))
      \/ draft # NoDraft /\ draft' = next /\ "draft" \in pending'
  BY DEF Effects
<1>4. draft # NoDraft =>
        /\ IsDraft(draft) /\ IsDraft(next) /\ next.base = draft.base
        /\ \A part \in Parts : next[part] = Rebuilt(draft, part)
        /\ \A part \in Parts, id \in Ids : Generic(id) => (id \in ToSet(Rebuilt(draft, part)) <=> id \in Wanted(draft, part))
  <2> SUFFICES ASSUME draft # NoDraft
               PROVE  /\ IsDraft(draft) /\ IsDraft(next) /\ next.base = draft.base
                      /\ \A part \in Parts : next[part] = Rebuilt(draft, part)
                      /\ \A part \in Parts, id \in Ids :
                           Generic(id) => (id \in ToSet(Rebuilt(draft, part)) <=> id \in Wanted(draft, part))
    OBVIOUS
  <2>1. IsDraft(draft)
    BY DraftFacts
  <2>2. next.base = draft.base /\ \A part \in Parts : next[part] = Rebuilt(draft, part)
    BY ReconciledFacts
  <2>3. \A part \in Parts :
          /\ Rebuilt(draft, part) \in Seq(Ids) /\ IsInjective(Rebuilt(draft, part))
          /\ ToSet(Rebuilt(draft, part)) \subseteq ToSet(Items(part))
          /\ \A id \in Ids : Generic(id) => (id \in ToSet(Rebuilt(draft, part)) <=> id \in Wanted(draft, part))
    BY <2>1, RebuiltFacts
  <2> QED
    BY <2>1, <2>2, <2>3 DEF IsDraft
<1> HIDE DEF next
<1>5. draft # NoDraft => Agrees(next) /\ (~Differs(draft, next) => Agrees(draft))
  <2> SUFFICES ASSUME draft # NoDraft PROVE Agrees(next) /\ (~Differs(draft, next) => Agrees(draft))
    OBVIOUS
  <2>1. \A part \in Parts : Wanted(next, part) = Wanted(draft, part)
    BY <1>4 DEF Wanted
  <2>2. Agrees(next)
    BY <1>4, <2>1 DEF Agrees
  <2>3. ~Differs(draft, next) => Agrees(draft)
    BY <1>4 DEF Agrees, Differs
  <2> QED
    BY <2>2, <2>3
<1>6. ASSUME draft' = draft, draft # NoDraft, "draft" \notin pending' \/ (last.act = "save" /\ draft.base = view)
      PROVE  Agrees(draft)'
  <2>1. Agrees(draft)' <=> Agrees(draft)
    BY <1>2, <1>6, AgreesSame
  <2>2. CASE "draft" \in pending
    BY <1>3, <1>5, <1>6, <2>1, <2>2
  <2>3. CASE "draft" \notin pending
    BY <1>1, <1>6, <2>1, <2>3 DEF Follows
  <2> QED
    BY <2>2, <2>3
<1>7. ASSUME draft # NoDraft, draft' = next PROVE Agrees(draft)'
  BY <1>2, <1>5, <1>7 DEF Agrees, Wanted, Generic
<1>8. last.act = "save" => view' = view
  BY EffectsPage DEF Phases
<1>9. view' # "none" /\ NoDraft.base = "none" /\ view # "none"
  <2>1. view \in Views /\ view' \in {view, "all"}
    BY EffectsPage, TypedParts
  <2> QED
    BY <2>1, ViewFacts DEF NoDraft
<1>10. ASSUME draft' # NoDraft, "draft" \notin pending' PROVE Agrees(draft)'
  <2>1. draft' = draft
    BY <1>3, <1>10
  <2> QED
    BY <1>6, <1>10, <2>1
<1>11. ASSUME last.act = "save", draft'.base = view' PROVE Agrees(draft)'
  <2>1. draft' # NoDraft
    BY <1>9, <1>11
  <2> QED
    BY <1>3, <1>6, <1>7, <1>8, <1>11, <2>1
<1> QED
  BY <1>2, <1>10, <1>11 DEF Follows

(* The draft agrees with the preferences unless its reconciliation is      *)
(* pending, and does so already after a save in its view.                  *)
LEMMA FollowsStep ==
  ASSUME Typed, Typed', Lists, Phases, Follows, [Next]_vars
  PROVE  Follows'
<1>0. view' \in Views /\ view' # "none" /\ NoDraft.base = "none"
  BY TypedParts, ViewFacts DEF Typed, TypeOK, NoDraft
<1>a. ASSUME draft' = NoDraft PROVE Follows'
  BY <1>0, <1>a DEF Follows
<1>b. ASSUME UNCHANGED <<draft, prefs, loaded>>, Ready, last'.act # "save" PROVE Follows'
  <2>1. Agrees(draft)' <=> Agrees(draft)
    BY <1>b, AgreesSame
  <2> QED
    BY <1>b, <2>1 DEF Follows, Ready
<1>1. CASE Effects
  BY <1>1, FollowsEffects
<1>2. CASE ConfigLoaded
  BY <1>2, <1>a DEF ConfigLoaded, Phases
<1>3. ASSUME NEW url \in Urls, Load(url) PROVE Follows'
  BY <1>3, <1>a DEF Load
<1>4. ASSUME (\E v \in Views : SelectView(v)) \/ SelectTab \/ (\E m \in Metrics : SelectMetric(m)) PROVE Follows'
  <2>1. UNCHANGED <<draft, prefs, loaded>> /\ Ready /\ last'.act # "save"
    BY <1>4 DEF SelectView, SelectTab, SelectMetric, Did
  <2> QED
    BY <1>b, <2>1
<1>5. ASSUME Discard \/ ResetFilters \/ ResetColumns PROVE Follows'
  BY <1>5, <1>a DEF Discard, ResetFilters, ResetColumns
<1>6. CASE RestoreDefaults
  <2>1. draft' = draft /\ last'.act # "save" /\ Ready /\ loaded' = loaded /\ pending' = Changed
    BY <1>6 DEF RestoreDefaults, Did
  <2>2. "draft" \notin pending' => prefs' = prefs
    BY <2>1 DEF Changed
  <2> QED
    BY <1>b, <2>1, <2>2 DEF Follows
<1>7. ASSUME Ready, NEW part \in Parts, NEW list, NEW p, Saves(part, list, p) PROVE Follows'
  <2>1. view' = view /\ loaded' = loaded /\ pending' = Changed \cup {e \in {"draft"} : draft' # draft}
    BY <1>7 DEF Saves, Save
  <2>2. "draft" \notin pending' => prefs' = prefs /\ draft' = draft
    BY <2>1 DEF Changed
  <2>3. ASSUME "draft" \notin pending', draft' # NoDraft PROVE Agrees(draft)'
    <3>1. Agrees(draft)
      BY <1>7, <2>2, <2>3 DEF Follows, Ready
    <3> QED
      BY <2>2, <2>3, <3>1, AgreesSame
  <2>4. ASSUME last'.act = "save", draft'.base = view' PROVE Agrees(draft)'
    BY <1>7, <2>1, <2>4, SaveAgrees
  <2> QED
    BY <2>3, <2>4 DEF Follows
<1>8. CASE Edit
  BY <1>5, <1>7, <1>8, EditCases
<1>9. CASE UNCHANGED vars
  <2>1. Agrees(draft)' <=> Agrees(draft)
    BY <1>9, AgreesSame DEF vars
  <2> QED
    BY <1>9, <2>1 DEF Follows, vars
<1> QED
  BY <1>1, <1>2, <1>3, <1>4, <1>5, <1>6, <1>8, <1>9, NextCases

-----------------------------------------------------------------------------
(* What is shown after a save, and after the effects that it sets off.     *)

SaveKept ==
  last.act = "save" =>
    /\ \A part \in Parts : ToSet(Shown(part)) = ToSet(last[part])
    /\ draft.base = view \/ view = "all" => Shown("columns") = last.columns

(* What is shown, as sets.                                                 *)
ShownSets ==
  \A part \in Parts :
    /\ draft.base = view => ToSet(Shown(part)) = ToSet(draft[part]) \cap OfferedSet(part)
    /\ draft.base # view => ToSet(Shown(part)) = Kept(part, Chose(view, part))

(* What is shown, in a well-typed state.                                   *)
LEMMA ShownTyped ==
  Typed => ShownSets
BY ShownNow DEF ShownSets

(* The same of the next state.                                             *)
LEMMA ShownNext ==
  Typed' => ShownSets'
BY ShownTyped, PTL

(* The next draft is none of the Default view.                             *)
LEMMA BaseNext ==
  Typed' => draft'.base # "all"
<1>1. Typed => draft.base # "all"
  BY NoDraftBase
<1>2. Typed' => (draft.base # "all")'
  BY <1>1, PTL
<1> QED
  BY <1>2

(* The columns that are shown, in their order.                             *)
ShownColumns ==
  Shown("columns") =
    IF draft.base = view THEN Only(draft["columns"], OfferedSet("columns"))
    ELSE Only(Offered("columns"), Kept("columns", Chose(view, "columns")))

(* The columns are those of the draft or those of the user, in their       *)
(* order.                                                                  *)
LEMMA ShownOrder ==
  ShownColumns
BY DEF Shown, ShownIn, ShownColumns, Chose

(* The same of the next state.                                             *)
LEMMA ShownOrderNext ==
  ShownColumns'
BY ShownOrder, PTL

(* What is kept of a selection depends on the list, on the preferences and *)
(* on the view.                                                            *)
LEMMA KeptSame ==
  ASSUME NEW part \in Parts, OfferedSet(part)' = OfferedSet(part), prefs'[part] = prefs[part],
         listed'[part] = listed[part], view' = view
  PROVE  Kept(part, Chose(view, part))' = Kept(part, Chose(view, part))
BY DEF Kept, Chose, Generic

(* What is offered depends on the list of the user.                        *)
LEMMA OfferedListSame ==
  ASSUME NEW part \in Parts, OfferedSet(part)' = OfferedSet(part), listed'[part] = listed[part]
  PROVE  Offered(part)' = Offered(part)
BY DEF Offered, Only, Picked, Ids, Items

(* In the Default view, or in one that has no draft, what is kept of what  *)
(* was selected is all of it.                                              *)
LEMMA KeptSaved ==
  ASSUME Typed, Typed', Lists, Follows, Ready, NEW part \in Parts, NEW list, NEW p, Saves(part, list, p),
         view = "all" \/ (draft' = draft /\ draft.base = "none" /\ Selected(list) = Shown(part)),
         NEW x \in Parts
  PROVE  Kept(x, Chose(view, x))' = After(part, list, x)
<1> DEFINE O == OfferedSet(x)
           A == After(part, list, x)
           R == prefs'[x].removed
           D == ToSet(prefs'[x].added)
           C == Chose(view, x)'
<1>1. view' = view /\ GoodList(part, list) /\ GoodPrefs(part, p) /\ prefs' = [prefs EXCEPT ![part] = p]
  BY DEF Saves, Save
<1>2. prefs \in [Parts -> Pref] /\ listed \in [Parts -> List]
  BY DEF Typed, Types
<1>3. OfferedSet(x)' = O
  BY SaveRelists, OfferedSame
<1>4. A \subseteq O
  BY <1>1, ShownNow DEF After, GoodList
<1>5. D \cap R = {}
  BY DEF Typed, TypeOK
<1>6. Kept(x, Chose(view, x))' = {id \in O : ~(Generic(id) /\ id \in R) /\ (id \in C \/ (Generic(id) /\ id \in D))}
  BY <1>3 DEF Kept, Generic
<1>7. \A id \in O : Generic(id) =>
           /\ view = "all" => (id \in A => id \notin R) /\ (id \in D => id \in A)
           /\ view # "all" /\ draft.base \in {"none", view} => (id \in A <=> id \in (ToSet(Presets[view][x]) \ R) \cup D)
  BY AfterConsistent
<1>8. ToSet(Shown(x)) = Kept(x, Chose(view, x)) \/ draft.base \notin {"none", "all"}
  <2>1. view \in Views
    BY TypedParts
  <2>2. draft.base = "none" \/ draft.base = "all" => draft.base # view
    <3>1. draft.base # "all"
      BY NoDraftBase
    <3> QED
      BY <2>1, <3>1, ViewFacts
  <2> QED
    BY <2>2, ShownNow
<1>9. x # part => listed'[x] = listed[x] /\ prefs'[x] = prefs[x]
  BY <1>1, <1>2 DEF Saves, Save, Listed
<1>10. ASSUME x # part, draft.base # view PROVE Kept(x, Chose(view, x))' = A
  <2>1. ToSet(Shown(x)) = Kept(x, Chose(view, x))
    BY <1>10, ShownNow
  <2>2. Kept(x, Chose(view, x))' = Kept(x, Chose(view, x))
    BY <1>1, <1>3, <1>9, <1>10, KeptSame
  <2> QED
    BY <1>10, <2>1, <2>2 DEF After
<1>11. CASE view = "all"
  <2>1. draft.base # view
    BY <1>11, NoDraftBase
  <2>2. CASE x = part
    <3>1. listed' = [listed EXCEPT ![part] = list]
      BY <1>11 DEF Saves, Save, Listed
    <3>2. C = A
      BY <1>1, <1>2, <1>11, <2>2, <3>1 DEF Chose, After
    <3> HIDE DEF C, A, R, D, O
    <3> QED
      BY <1>4, <1>6, <1>7, <1>11, <3>2 DEF A
  <2> QED
    BY <1>10, <2>1, <2>2
<1>12. CASE view # "all"
  <2>1. draft.base = "none" /\ Selected(list) = Shown(part)
    BY <1>12
  <2>2. draft.base # view
    BY <2>1, TypedParts, ViewFacts
  <2>3. CASE x = part
    <3>1. C = ToSet(Presets[view][x])
      BY <1>1, <1>12 DEF Chose
    <3>2. A = ToSet(Shown(x))
      <4>1. ToSet(Selected(list)) = list.selected
        BY <1>1, SelectedFacts
      <4> QED
        BY <2>1, <2>3, <4>1 DEF After
    <3>3. ToSet(Shown(x)) = Kept(x, ToSet(Presets[view][x]))
      BY <1>12, <2>2, ShownNow DEF Chose
    <3>4. \A id \in O : ~Generic(id) => (id \in A <=> id \in C)
      BY <3>1, <3>2, <3>3 DEF Kept
    <3>5. \A id \in O : Generic(id) => (id \in A <=> id \in (C \ R) \cup D)
      BY <1>7, <1>12, <2>1, <3>1
    <3> HIDE DEF C, A, R, D, O
    <3> QED
      BY <1>4, <1>5, <1>6, <3>4, <3>5 DEF A
  <2> QED
    BY <1>10, <2>2, <2>3
<1> QED
  BY <1>11, <1>12

(* What is saved is what is shown, before any effect runs.                 *)
LEMMA SaveShows ==
  ASSUME Typed, Typed', Lists, Follows, Ready, NEW part \in Parts, NEW list, NEW p, Saves(part, list, p)
  PROVE  SaveKept'
<1> SUFFICES ASSUME last'.act = "save"
             PROVE  /\ \A x \in Parts : ToSet(Shown(x)') = ToSet(last'[x])
                    /\ draft'.base = view' \/ view' = "all" => Shown("columns")' = last'["columns"]
  BY DEF SaveKept, ToSet, Parts
<1>1. view' = view /\ GoodList(part, list) /\ prefs' = [prefs EXCEPT ![part] = p]
  BY DEF Saves, Save
<1>2. /\ view = "all" \/ draft.base \in {"none", view}
      /\ \A x \in Parts : last'[x] = IF x = part THEN Selected(list) ELSE Shown(x)
  BY SaveSays
<1>3. /\ Selected(list) \in Seq(Ids) /\ IsInjective(Selected(list)) /\ ToSet(Selected(list)) = list.selected
      /\ list.selected \subseteq OfferedSet(part)
  BY <1>1, SelectedFacts DEF GoodList
<1>4. \A x \in Parts : ToSet(last'[x]) = After(part, list, x)
  BY <1>2, <1>3 DEF After
<1>5. \A x \in Parts : OfferedSet(x)' = OfferedSet(x)
  BY SaveRelists, OfferedSame
<1>6. view \in Views /\ view # "none" /\ draft'.base # "all"
  BY TypedParts, ViewFacts, BaseNext
<1>7. view # "all" => /\ draft' = WithDraft(part, list)
                      /\ draft'.base = view \/ (draft' = draft /\ draft.base = "none" /\ Selected(list) = Shown(part))
  <2> SUFFICES ASSUME view # "all"
               PROVE  /\ draft' = WithDraft(part, list)
                      /\ draft'.base = view \/ (draft' = draft /\ draft.base = "none" /\ Selected(list) = Shown(part))
    OBVIOUS
  <2>1. draft' = WithDraft(part, list)
    BY DEF Saves, Save
  <2>2. CASE Selected(list) = Shown(part)
    BY <1>1, <1>2, <2>1, <2>2, WithDraftFacts
  <2>3. CASE Selected(list) # Shown(part)
    BY <1>1, <2>1, <2>3, WithDraftFacts
  <2> QED
    BY <2>1, <2>2, <2>3
<1>8. ShownSets' /\ ShownColumns'
  BY ShownNext, ShownOrderNext
<1>9. ASSUME NEW x \in Parts PROVE ToSet(Shown(x)') = After(part, list, x)
  <2>1. /\ draft'.base = view' => ToSet(Shown(x)') = ToSet(draft'[x]) \cap OfferedSet(x)'
        /\ draft'.base # view' => ToSet(Shown(x)') = Kept(x, Chose(view, x))'
    BY <1>8 DEF ShownSets, ToSet
  <2>2. CASE draft'.base = view
    BY <1>1, <1>2, <1>5, <1>6, <2>1, <2>2, DraftSaved
  <2>3. CASE draft'.base # view
    BY <1>1, <1>7, <2>1, <2>3, KeptSaved
  <2> QED
    BY <2>2, <2>3
<1>10. ASSUME draft'.base = view' \/ view' = "all" PROVE Shown("columns")' = last'["columns"]
  <2> DEFINE O == OfferedSet("columns")
  <2>0. "columns" \in Parts
    BY DEF Parts
  <2>1. Shown("columns")' =
          IF draft'.base = view THEN Only(draft'["columns"], O)
          ELSE Only(Offered("columns")', Kept("columns", Chose(view, "columns"))')
    BY <1>1, <1>5, <1>8, <2>0 DEF ShownColumns, Only, Picked, Ids, Items
  <2>2. Shown("columns") =
          IF draft.base = view THEN Only(draft["columns"], O)
          ELSE Only(Offered("columns"), Kept("columns", Chose(view, "columns")))
    BY ShownOrder DEF ShownColumns
  <2>3. last'["columns"] = IF part = "columns" THEN Selected(list) ELSE Shown("columns")
    BY <1>2, <2>0
  <2>4. Shown("columns") \in Seq(Ids) /\ IsInjective(Shown("columns")) /\ ToSet(Shown("columns")) \subseteq O /\ O \in SUBSET Ids
    BY <2>0, ShownNow, OfferedFacts
  <2>5. Only(Shown("columns"), O) = Shown("columns") /\ (part = "columns" => Only(Selected(list), O) = Selected(list))
    BY <1>3, <2>4, OnlyAll
  <2>6. CASE view = "all"
    <3>1. Kept("columns", Chose(view, "columns"))' = After(part, list, "columns")
      BY <2>0, <2>6, KeptSaved
    <3>2. listed \in [Parts -> List] /\ listed' = [listed EXCEPT ![part] = list]
      BY <2>6 DEF Typed, Types, Saves, Save, Listed
    <3>3. CASE part = "columns"
      <4>1. Offered("columns")' = Only(list.ids, O)
        <5>1. listed'["columns"] = list
          BY <2>0, <3>2, <3>3
        <5> QED
          BY <1>5, <2>0, <5>1 DEF Offered, Only, Picked, Ids, Items
      <4>2. list.ids \in Seq(Ids) /\ IsInjective(list.ids) /\ ToSet(list.ids) = O
        BY <1>1, <3>3, ListIs DEF GoodList
      <4>3. Only(list.ids, O) = list.ids
        BY <2>4, <4>2, OnlyAll
      <4> QED
        BY <1>6, <2>1, <2>3, <2>6, <3>1, <3>3, <4>1, <4>3 DEF After, Selected
    <3>4. CASE part # "columns"
      <4>1. listed'["columns"] = listed["columns"] /\ prefs'["columns"] = prefs["columns"]
        <5>1. prefs \in [Parts -> Pref]
          BY DEF Typed, Types
        <5> QED
          BY <1>1, <2>0, <3>2, <3>4, <5>1
      <4>2. Offered("columns")' = Offered("columns")
        BY <1>5, <2>0, <4>1, OfferedListSame
      <4>3. Kept("columns", Chose(view, "columns"))' = Kept("columns", Chose(view, "columns"))
        BY <1>1, <1>5, <2>0, <4>1, KeptSame
      <4>4. draft.base # view /\ draft'.base # view
        BY <1>6, <2>6, NoDraftBase
      <4> QED
        BY <2>1, <2>2, <2>3, <3>4, <4>2, <4>3, <4>4
    <3> QED
      BY <3>3, <3>4
  <2>7. CASE view # "all"
    <3>1. Shown("columns")' = Only(draft'["columns"], O)
      BY <1>1, <1>10, <2>1, <2>7
    <3>2. draft' = WithDraft(part, list)
      BY <1>7, <2>7
    <3>3. CASE Selected(list) = Shown(part)
      <4>1. draft' = draft
        BY <1>1, <2>7, <3>2, <3>3, WithDraftFacts
      <4>2. draft.base = view
        BY <1>1, <1>10, <2>7, <4>1
      <4> QED
        BY <2>2, <2>3, <3>1, <3>3, <4>1, <4>2
    <3>4. CASE Selected(list) # Shown(part)
      <4>1. part = "columns" => draft'["columns"] = Selected(list)
        BY <1>1, <2>7, <3>2, <3>4, WithDraftFacts
      <4>2. part # "columns" => draft'["columns"] = IF draft = NoDraft THEN Shown("columns") ELSE draft["columns"]
        BY <1>1, <2>0, <2>7, <3>2, <3>4, WithDraftFacts
      <4>3. draft = NoDraft \/ draft.base = view
        BY <1>2, <2>7, NoDraftBase
      <4> QED
        BY <2>2, <2>3, <2>5, <3>1, <4>1, <4>2, <4>3
    <3> QED
      BY <3>3, <3>4
  <2> QED
    BY <2>6, <2>7
<1> QED
  BY <1>4, <1>9, <1>10

(* What is shown in any view, of which no draft is open.                   *)
PresetShown ==
  \A v \in Views, part \in Parts : draft.base # v => ToSet(ShownIn(v, part)) = Kept(part, Chose(v, part))

(* What a view without a draft shows, in a well-typed state.               *)
LEMMA PresetTyped ==
  Typed => PresetShown
BY ShownFacts DEF PresetShown

(* The same of the next state.                                             *)
LEMMA PresetNext ==
  Typed' => PresetShown'
BY PresetTyped, PTL

(* The effects that only concern the draft.                                *)
LEMMA DraftEffects ==
  ASSUME Phases, Effects, "config" \notin pending
  PROVE  /\ UNCHANGED <<view, listed, prefs, last>>
         /\ \/ draft' = draft
            \/ draft # NoDraft /\ draft' = NoDraft /\ MatchesPreset(draft)
            \/ draft # NoDraft /\ draft' = Reconciled(draft)
<1>1. loaded /\ view \in AvailableViews
  BY EffectsPage DEF Phases
<1>2. UNCHANGED <<view, prefs, last>>
  BY <1>1, EffectsPage
<1>3. listed' = listed
  BY DEF Effects
<1>4. \/ draft' = draft
      \/ draft # NoDraft /\ draft' = NoDraft /\ MatchesPreset(draft)
      \/ draft # NoDraft /\ draft' = Reconciled(draft)
  BY DEF Effects
<1> QED
  BY <1>2, <1>3, <1>4

(* A draft that is dropped made no difference.                             *)
LEMMA DropShows ==
  ASSUME Typed, Typed', Lists, Lists', UNCHANGED <<view, listed, prefs>>, draft # NoDraft, draft' = NoDraft,
         MatchesPreset(draft), NEW part \in Parts
  PROVE  ToSet(Shown(part)') = ToSet(Shown(part))
<1>1. OfferedSet(part)' = OfferedSet(part)
  BY DEF OfferedSet, Available
<1>2. Kept(part, Chose(view, part))' = Kept(part, Chose(view, part))
  BY <1>1, KeptSame
<1>3. draft'.base # view /\ view' = view
  BY TypedParts, ViewFacts DEF NoDraft
<1>4. ToSet(Shown(part)') = Kept(part, Chose(view, part))
  BY <1>2, <1>3, ShownNext DEF ShownSets, ToSet
<1>5. CASE draft.base = view
  <2>1. IsDraft(draft) /\ view # "all"
    BY <1>5, DraftFacts
  <2>2. ToSet(Shown(part)) = ToSet(draft[part]) \cap OfferedSet(part)
    BY <1>5, ShownNow
  <2>3. ToSet(draft[part]) \cap OfferedSet(part) = Kept(part, ToSet(Presets[view][part]))
    BY <1>5, <2>1, DroppedFacts
  <2> QED
    BY <1>4, <2>1, <2>2, <2>3 DEF Chose
<1>6. CASE draft.base # view
  BY <1>4, <1>6, ShownNow
<1> QED
  BY <1>5, <1>6

(* The effects that a save sets off take nothing back, and keep the order  *)
(* of the columns.                                                         *)
LEMMA EffectsShow ==
  ASSUME Typed, Typed', Lists, Lists', Phases, Follows, SaveKept, Effects
  PROVE  SaveKept'
<1> SUFFICES ASSUME last'.act = "save"
             PROVE  /\ \A x \in Parts : ToSet(Shown(x)') = ToSet(last'[x])
                    /\ draft'.base = view' \/ view' = "all" => Shown("columns")' = last'["columns"]
  BY DEF SaveKept, ToSet, Parts
<1>1. last.act = "save" /\ "config" \notin pending
  BY EffectsPage DEF Phases
<1>2. /\ UNCHANGED <<view, listed, prefs, last>>
      /\ \/ draft' = draft
         \/ draft # NoDraft /\ draft' = NoDraft /\ MatchesPreset(draft)
         \/ draft # NoDraft /\ draft' = Reconciled(draft)
  BY <1>1, DraftEffects
<1>3. /\ \A x \in Parts : ToSet(Shown(x)) = ToSet(last[x])
      /\ draft.base = view \/ view = "all" => Shown("columns") = last["columns"]
  BY <1>1 DEF SaveKept
<1>4. \A x \in Parts : OfferedSet(x)' = OfferedSet(x)
  BY <1>2 DEF OfferedSet, Available
<1>5. \A x \in Parts : Kept(x, Chose(view, x))' = Kept(x, Chose(view, x)) /\ Offered(x)' = Offered(x)
  BY <1>2, <1>4, KeptSame, OfferedListSame
<1>6. ShownSets' /\ ShownColumns' /\ "columns" \in Parts
  BY ShownNext, ShownOrderNext DEF Parts
<1>7. \A x \in Parts :
        /\ draft'.base = view => ToSet(Shown(x)') = ToSet(draft'[x]) \cap OfferedSet(x)
        /\ draft'.base # view => ToSet(Shown(x)') = Kept(x, Chose(view, x))
  BY <1>2, <1>4, <1>5, <1>6 DEF ShownSets, ToSet
<1>8. Shown("columns")' =
        IF draft'.base = view THEN Only(draft'["columns"], OfferedSet("columns"))
        ELSE Only(Offered("columns"), Kept("columns", Chose(view, "columns")))
  BY <1>2, <1>4, <1>5, <1>6 DEF ShownColumns, Only, Picked, Ids, Items
<1>9. \A x \in Parts :
        /\ draft.base = view => ToSet(Shown(x)) = ToSet(draft[x]) \cap OfferedSet(x)
        /\ draft.base # view => ToSet(Shown(x)) = Kept(x, Chose(view, x))
  BY ShownNow
<1>10. Shown("columns") =
         IF draft.base = view THEN Only(draft["columns"], OfferedSet("columns"))
         ELSE Only(Offered("columns"), Kept("columns", Chose(view, "columns")))
  BY ShownOrder DEF ShownColumns
<1>11. ASSUME draft' = draft \/ (draft.base # view /\ draft'.base # view)
       PROVE  Shown("columns")' = Shown("columns") /\ \A x \in Parts : ToSet(Shown(x)') = ToSet(Shown(x))
  BY <1>7, <1>8, <1>9, <1>10, <1>11
<1>12. CASE draft' = draft
  BY <1>2, <1>3, <1>11, <1>12
<1>13. CASE draft # NoDraft /\ draft' = NoDraft /\ MatchesPreset(draft)
  <2>1. \A x \in Parts : ToSet(Shown(x)') = ToSet(Shown(x))
    BY <1>2, <1>13, DropShows
  <2>2. draft'.base # view
    BY <1>13, TypedParts, ViewFacts DEF NoDraft
  <2>3. CASE draft.base = view
    <3>1. view # "all"
      BY <1>13, <2>3, DraftFacts
    <3> QED
      BY <1>2, <1>3, <2>1, <2>2, <3>1
  <2>4. CASE draft.base # view
    BY <1>2, <1>3, <1>11, <2>2, <2>4
  <2> QED
    BY <2>3, <2>4
<1>14. CASE draft # NoDraft /\ draft' = Reconciled(draft)
  <2>1. draft'.base = draft.base /\ \A x \in Parts : draft'[x] = Rebuilt(draft, x)
    BY <1>14, ReconciledFacts
  <2>2. CASE draft.base # view
    BY <1>2, <1>3, <1>11, <2>1, <2>2
  <2>3. CASE draft.base = view
    <3>1. IsDraft(draft) /\ Agrees(draft)
      BY <1>1, <1>14, <2>3, DraftFacts DEF Follows
    <3>2. \A x \in Parts : ToSet(Rebuilt(draft, x)) \cap OfferedSet(x) = ToSet(draft[x]) \cap OfferedSet(x)
      BY <3>1, RebuiltFacts
    <3>3. Only(Rebuilt(draft, "columns"), OfferedSet("columns")) = Only(draft["columns"], OfferedSet("columns"))
      BY <3>1, SameColumns
    <3>4. \A x \in Parts : ToSet(Shown(x)') = ToSet(Shown(x))
      BY <1>7, <1>9, <2>1, <2>3, <3>2
    <3>5. Shown("columns")' = Shown("columns")
      BY <1>6, <1>8, <1>10, <2>1, <2>3, <3>3
    <3> QED
      BY <1>2, <1>3, <2>3, <3>4, <3>5
  <2> QED
    BY <2>2, <2>3
<1> QED
  BY <1>2, <1>12, <1>13, <1>14

(* What is saved is what is shown, until the user does something else.     *)
LEMMA SaveStep ==
  ASSUME Typed, Typed', Lists, Lists', Phases, Follows, SaveKept, [Next]_vars
  PROVE  SaveKept'
<1>a. ASSUME last'.act # "save" PROVE SaveKept'
  BY <1>a DEF SaveKept
<1>1. CASE Effects
  BY <1>1, EffectsShow
<1>2. CASE ConfigLoaded
  BY <1>2, <1>a DEF ConfigLoaded, Phases
<1>3. ASSUME \/ (\E url \in Urls : Load(url))
             \/ (\E v \in Views : SelectView(v)) \/ SelectTab \/ (\E m \in Metrics : SelectMetric(m))
             \/ Discard \/ ResetFilters \/ RestoreDefaults \/ ResetColumns
      PROVE  SaveKept'
  <2>1. last'.act # "save"
    <3>1. \A act \in {"load", "metric", "other"} : Did(act).act # "save"
      BY DidFields
    <3>2. CASE \E url \in Urls : Load(url)
      BY <3>2 DEF Load, Did
    <3>3. CASE (\E v \in Views : SelectView(v)) \/ Discard \/ ResetFilters
      BY <3>3 DEF SelectView, Discard, ResetFilters, Did
    <3>4. CASE SelectTab \/ (\E m \in Metrics : SelectMetric(m)) \/ RestoreDefaults \/ ResetColumns
      BY <3>1, <3>4 DEF SelectTab, SelectMetric, RestoreDefaults, ResetColumns
    <3> QED
      BY <1>3, <3>2, <3>3, <3>4
  <2> QED
    BY <1>a, <2>1
<1>4. CASE Edit
  <2>1. Ready /\ (ResetColumns \/ \E part \in Parts : \E list, p : Saves(part, list, p))
    BY <1>4, EditCases
  <2>2. ASSUME NEW part \in Parts, NEW list, NEW p, Saves(part, list, p) PROVE SaveKept'
    BY <2>1, <2>2, SaveShows
  <2> QED
    BY <1>3, <2>1, <2>2
<1>5. CASE UNCHANGED vars
  <2>4. \A x \in Parts : Shown(x)' = Shown(x)
    BY <1>5 DEF Shown, ShownIn, Offered, OfferedSet, Kept, Available, Generic, vars, Only, Picked, Ids, Items
  <2> QED
    BY <1>5, <2>4 DEF SaveKept, vars, Parts, ToSet
<1> QED
  BY <1>1, <1>2, <1>3, <1>4, <1>5, NextCases

-----------------------------------------------------------------------------
(* The invariant, and the properties of the runs.                          *)

IInv == Typed /\ Lists /\ Phases /\ MetricKept /\ UrlKept /\ Follows /\ SaveKept

(* A page that has never been visited is well-typed.                       *)
LEMMA InitTyped ==
  Init => Typed
<1> SUFFICES ASSUME Init PROVE Typed
  OBVIOUS
<1>1. "all" \in Views /\ "Bytes" \in Metrics /\ 0 \in Nat
  BY ViewFacts DEF Metrics
<1>2. DraftOK(NoDraft)
  BY EmptyFacts
<1>3. ListedOK([part \in Parts |-> DefaultList(part)])
  BY DefaultFacts DEF ListedOK
<1>4. PrefsOK([part \in Parts |-> NoPrefs])
  BY EmptyFacts DEF PrefsOK
<1>5. view \in Views /\ last \in Deed
  <2> DEFINE d == Did("load")
  <2>1. d \in Deed
    BY EmptyFacts
  <2>2. PICK url \in Urls : view = url.view /\ last = [d EXCEPT !.url = url]
    BY DEF Init
  <2> HIDE DEF d
  <2>3. url.view \in Views
    BY DEF Urls
  <2>4. last \in Deed
    BY <2>1, <2>2 DEF Deed
  <2> QED
    BY <2>2, <2>3, <2>4
<1> QED
  BY <1>1, <1>2, <1>3, <1>4, <1>5, TypedParts DEF Init

(* The invariant holds of it.                                              *)
LEMMA InitHolds ==
  Init => IInv
<1> SUFFICES ASSUME Init PROVE IInv
  OBVIOUS
<1>1. last.act = "load" /\ last.url.view = view /\ ~loaded /\ pending = {} /\ draft = NoDraft
  BY DEF Init, Did
<1>2. Lists
  <2>1. \A part \in Parts : listed[part].ids = Items(part) /\ prefs[part] = NoPrefs
    BY DefaultFacts DEF Init
  <2>2. ToSet(NoPrefs.added) = {} /\ NoPrefs.removed = {}
    BY DEF NoPrefs, ToSet
  <2> QED
    BY <2>1, <2>2 DEF Lists, OfferedSet
<1>3. Phases /\ Follows /\ SaveKept
  BY <1>1 DEF Phases, Follows, SaveKept
<1>4. MetricKept
  BY <1>1, ViewFacts DEF MetricKept, Init, Ready
<1>5. UrlKept
  BY <1>1 DEF UrlKept
<1> QED
  BY <1>2, <1>3, <1>4, <1>5, InitTyped DEF IInv

(* The invariant is inductive.                                             *)
LEMMA StepHolds ==
  IInv /\ [Next]_vars => IInv'
<1> SUFFICES ASSUME IInv, [Next]_vars PROVE IInv'
  OBVIOUS
<1>1. Typed /\ Lists /\ Phases /\ MetricKept /\ UrlKept /\ Follows /\ SaveKept
  BY DEF IInv
<1>2. Typed'
  BY <1>1, TypedStep
<1>3. Lists'
  BY <1>1, RelistedStep, ListsStep
<1>4. Phases' /\ MetricKept' /\ UrlKept'
  <2>1. draft = NoDraft \/ draft.base # "all"
    BY <1>1, ViewFacts DEF Typed, TypeOK
  <2> QED
    BY <1>1, <2>1, PhasesStep, MetricStep, UrlStep
<1>5. Follows'
  BY <1>1, <1>2, FollowsStep
<1>6. SaveKept'
  BY <1>1, <1>2, <1>3, SaveStep
<1> QED
  BY <1>2, <1>3, <1>4, <1>5, <1>6 DEF IInv

(* The invariant holds in every state.                                     *)
THEOREM Invariant ==
  Spec => []IInv
BY InitHolds, StepHolds, PTL DEF Spec

(* In every state, the lists are well-formed, what a save selected is what *)
(* is shown when its effects have run (netflow-traffic.tsx,                *)
(* computeUpdatedGenericPrefs, reconcileDraftWithGenericPrefs), and a link *)
(* opens its view.                                                         *)
THEOREM SavedAndLinked ==
  Spec => []ViewsInv
<1>1. IInv => ViewsInv
  <2> SUFFICES ASSUME IInv PROVE ViewsInv
    OBVIOUS
  <2>1. TypeOK
    BY DEF IInv, Typed
  <2>2. SavedIsShown
    BY DEF IInv, SaveKept, SavedIsShown
  <2>3. UrlViewShown
    <3> SUFFICES ASSUME Ready, last.act = "load", last.url.filters, last.url.view # "all"
                 PROVE  view = IF last.url.view \in AvailableViews THEN last.url.view ELSE "all"
      BY DEF UrlViewShown
    <3>1. view \in AvailableViews
      BY DEF IInv, Phases, Ready
    <3> QED
      BY <3>1 DEF IInv, UrlKept
  <2> QED
    BY <2>1, <2>2, <2>3 DEF ViewsInv
<1> QED
  BY <1>1, Invariant, PTL

(* After a change of view the metric is that of the Default view as the    *)
(* user left it, however many views were visited in between and in         *)
(* whatever order the effects ran, or that of the draft or of the preset.  *)
THEOREM MetricOfViews ==
  Spec => []MetricIsDue
<1>1. IInv => MetricIsDue
  <2> SUFFICES ASSUME IInv, Ready, last.act = "metric"
               PROVE  metric = IF last.metric \in Allowed THEN last.metric ELSE "Bytes"
    BY DEF MetricIsDue
  <2>1. metric \in Allowed /\ metric \in {last.metric, Due}
    BY ReadyMetric DEF IInv, MetricKept, Carried
  <2> QED
    BY <2>1 DEF Due
<1> QED
  BY <1>1, Invariant, PTL

(* A draft that the reconciliation drops is what is shown without it.      *)
LEMMA DroppedStep ==
  ASSUME IInv, [Next]_vars, Effects, "config" \notin pending, draft # NoDraft, draft' = NoDraft
  PROVE  \A part \in Parts : ToSet(Shown(part)') = ToSet(Shown(part))
<1>1. IInv' /\ Typed /\ Typed' /\ Lists /\ Lists' /\ Phases
  BY StepHolds DEF IInv
<1>2. UNCHANGED <<view, listed, prefs>>
  BY <1>1, DraftEffects
<1>3. Reconciled(draft) # NoDraft
  BY <1>1, ReconciledFacts
<1>4. MatchesPreset(draft)
  BY <1>1, <1>3, DraftEffects
<1> QED
  BY <1>1, <1>2, <1>4, DropShows

(* Only an edit counts as one; its draft is that of the view, if any.      *)
LEMMA EditKeeps ==
  ASSUME IInv, [Next]_vars, edits' > edits
  PROVE  /\ view' = view /\ draft'.base \in {draft.base, view, "none"}
         /\ view # "all" => listed' = listed
<1>0. edits \in Nat /\ Typed /\ Lists /\ Follows
  BY DEF IInv, Typed, Types
<1>1. edits' # edits
  BY <1>0
<1>2. Edit
  <2>1. ASSUME \/ Effects \/ ConfigLoaded
               \/ (\E url \in Urls : Load(url))
               \/ (\E v \in Views : SelectView(v)) \/ SelectTab \/ (\E m \in Metrics : SelectMetric(m))
               \/ RestoreDefaults \/ Discard \/ ResetFilters \/ UNCHANGED vars
        PROVE  edits' = edits
    BY <2>1, EffectsPage
       DEF ConfigLoaded, Load, SelectView, SelectTab, SelectMetric, RestoreDefaults, Discard, ResetFilters, vars
  <2> QED
    BY <1>1, <2>1, NextCases
<1>3. ASSUME NEW part \in Parts, NEW list, NEW p, Saves(part, list, p)
      PROVE  /\ view' = view /\ draft'.base \in {draft.base, view, "none"}
             /\ view # "all" => listed' = listed
  <2>1. view' = view /\ GoodList(part, list)
    BY <1>3 DEF Saves, Save
  <2>2. view # "all" => listed' = listed
    BY <1>3 DEF Saves, Save, Listed
  <2>3. view = "all" => draft' = draft
    BY <1>3 DEF Saves, Save
  <2>4. view # "all" => draft' = WithDraft(part, list)
    BY <1>3 DEF Saves, Save
  <2>5. view # "all" => draft' = draft \/ draft'.base = view
    BY <1>0, <1>3, <2>1, <2>4, WithDraftFacts
  <2> QED
    BY <2>1, <2>2, <2>3, <2>5
<1>4. ASSUME ResetColumns
      PROVE  /\ view' = view /\ draft'.base \in {draft.base, view, "none"}
             /\ view # "all" => listed' = listed
  BY <1>4 DEF ResetColumns, NoDraft
<1> QED
  BY <1>0, <1>2, <1>3, <1>4, EditCases

(* An edit in a view leaves the items of features that the other ones      *)
(* show.                                                                   *)
LEMMA FeaturesKept ==
  ASSUME IInv, [Next]_vars, edits' > edits, NEW v \in AvailableViews \ {view, draft.base}, NEW part \in Parts
  PROVE  FeatureItems(v, part)' = FeatureItems(v, part)
<1>1. /\ Typed /\ Typed' /\ Lists /\ Follows /\ v \in Views /\ v # "none"
  BY StepHolds, ViewFacts DEF IInv
<1>2. OfferedSet(part)' = OfferedSet(part)
  BY <1>1, RelistedStep, OfferedSame
<1>3. draft.base # v /\ draft'.base # v
  BY <1>1, EditKeeps
<1>4. ToSet(ShownIn(v, part)) = Kept(part, Chose(v, part))
  BY <1>1, <1>3, ShownFacts
<1>5. ToSet(ShownIn(v, part)') = Kept(part, Chose(v, part))'
  BY <1>1, <1>3, PresetNext DEF PresetShown, ToSet
<1>6. Chose(v, part)' = Chose(v, part)
  BY EditKeeps DEF Chose
<1>7. {id \in Kept(part, Chose(v, part))' : ~Generic(id)} = {id \in OfferedSet(part) : id \in Chose(v, part) /\ ~Generic(id)}
  BY <1>2, <1>6 DEF Kept, Generic
<1>8. {id \in Kept(part, Chose(v, part)) : ~Generic(id)} = {id \in OfferedSet(part) : id \in Chose(v, part) /\ ~Generic(id)}
  BY DEF Kept
<1>9. FeatureItems(v, part)' = {id \in ToSet(ShownIn(v, part)') : ~Generic(id)}
  BY DEF FeatureItems, Generic, ToSet
<1> QED
  BY <1>4, <1>5, <1>7, <1>8, <1>9 DEF FeatureItems

(* A draft is only dropped when nothing that is shown depends on it, and   *)
(* what an edit does to items of features stays in its view, in every      *)
(* behaviour.                                                              *)
THEOREM Untouched ==
  Spec => OthersKept
<1>1. IInv /\ [Next]_vars =>
        [Effects /\ "config" \notin pending /\ draft # NoDraft /\ draft' = NoDraft =>
           \A part \in Parts : ToSet(Shown(part)') = ToSet(Shown(part))]_vars
  BY DroppedStep
<1>2. IInv /\ [Next]_vars =>
        [edits' > edits =>
           \A v \in AvailableViews \ {view, draft.base}, part \in Parts : FeatureItems(v, part)' = FeatureItems(v, part)]_vars
  BY FeaturesKept
<1>3. Spec => ClearKeepsShown
  BY <1>1, Invariant, PTL DEF Spec, ClearKeepsShown
<1>4. Spec => FeaturesStayInView
  BY <1>2, Invariant, PTL DEF Spec, FeaturesStayInView
<1> QED
  BY <1>3, <1>4 DEF OthersKept
=============================================================================

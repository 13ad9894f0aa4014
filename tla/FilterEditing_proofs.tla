------------------------ MODULE FilterEditing_proofs ------------------------
(***************************************************************************)
(* Proofs about FilterEditing and FilterQueries, for any fields and values *)
(* and any number of filters and of values.                                *)
(*                                                                         *)
(* What a text selects is worked out from the list that it is written for: *)
(* first for filters that are on one end each, whose text is one group     *)
(* (with AND) or a group for each (with OR), then for the two halves of a  *)
(* list with filters on either end or in both directions.  Shown is the    *)
(* result: what a list displays, without a text.  The metrics, the mirror  *)
(* image and the order of inclusion are then facts about sets of flows.    *)
(*                                                                         *)
(* The edits are described by what the list says after them; that it is a  *)
(* sequence of filters with values of their types is inductive (IInv).     *)
(***************************************************************************)
EXTENDS FilterEditing, FiniteSetTheorems, WellFoundedInduction, TLAPS

(* A set of natural numbers that is not empty has a least element.         *)
LEMMA LeastNatural ==
  ASSUME NEW T, T \subseteq Nat, T # {}
  PROVE  \E x \in T : \A y \in T : x <= y
<1> DEFINE R == {ss \in Nat \X Nat : ss[1] < ss[2]}
<1>1. IsWellFoundedOn(R, Nat)
  BY NatLessThanWellFounded DEF OpToRel
<1>2. \A x, y \in Nat : x < y => <<x, y>> \in R
  OBVIOUS
<1> HIDE DEF R
<1>3. \E x \in T : \A y \in T : ~ (<<y, x>> \in R)
  BY <1>1, WFMin
<1>4. \A x, y \in T : x \in Nat /\ y \in Nat
  OBVIOUS
<1>5. \A x, y \in Nat : x < y \/ y <= x
  OBVIOUS
<1> QED
  BY <1>2, <1>3, <1>4, <1>5

(* Induction over the natural numbers, of membership in a set.             *)
LEMMA Induction ==
  ASSUME NEW S, 0 \in S, \A n \in Nat : n \in S => n + 1 \in S
  PROVE  \A n \in Nat : n \in S
<1> DEFINE T == {n \in Nat : n \notin S}
<1> SUFFICES ASSUME T # {} PROVE FALSE
  OBVIOUS
<1>1. PICK x \in T : \A y \in T : x <= y
  BY LeastNatural
<1>2. x # 0
  OBVIOUS
<1>3. x - 1 \in Nat /\ x - 1 + 1 = x
  BY <1>2
<1>4. x - 1 \notin T
  BY <1>1, <1>3
<1> QED
  BY <1>3, <1>4

-----------------------------------------------------------------------------
(* The elements of a sequence at some places.                              *)

Rank(places, i) == Cardinality(places \cap 1..i)
Nth(places, k) == CHOOSE i \in places : Rank(places, i) = k

(* The places are numbered from 1 to their number.                         *)
LEMMA Ranks ==
  ASSUME NEW n \in Nat, NEW P \in SUBSET (1..n)
  PROVE  /\ IsFiniteSet(P) /\ Cardinality(P) \in Nat /\ Cardinality(P) <= n
         /\ \A i \in P : Rank(P, i) \in 1..Cardinality(P)
         /\ \A i, j \in P : Rank(P, i) = Rank(P, j) => i = j
         /\ \A k \in 1..Cardinality(P) : \E i \in P : Rank(P, i) = k
<1>1. IsFiniteSet(1..n) /\ Cardinality(1..n) = n
  BY FS_Interval
<1>2. IsFiniteSet(P) /\ Cardinality(P) \in Nat /\ Cardinality(P) <= n
  BY <1>1, FS_Subset, FS_CardinalityType
<1>3. \A i \in P : /\ IsFiniteSet(P \cap 1..i) /\ Rank(P, i) \in Nat
                   /\ Rank(P, i) <= Cardinality(P)
  BY <1>2, FS_Subset, FS_CardinalityType DEF Rank
<1>4. ASSUME NEW i \in P PROVE Rank(P, i) \in 1..Cardinality(P)
  <2>1. P \cap 1..i # {}
    OBVIOUS
  <2>2. Rank(P, i) # 0
    BY <1>3, <2>1, FS_EmptySet DEF Rank
  <2>3. Rank(P, i) \in Nat /\ Rank(P, i) <= Cardinality(P)
    BY <1>3
  <2> QED
    BY ONLY <1>2, <2>2, <2>3
<1>5. ASSUME NEW i \in P, NEW j \in P, i < j PROVE Rank(P, i) # Rank(P, j)
  <2> DEFINE A == P \cap 1..i
             B == P \cap 1..j
  <2>1. A \in SUBSET (B \ {j}) /\ j \in B
    BY <1>5
  <2>2. IsFiniteSet(B) /\ Cardinality(B) \in Nat /\ Cardinality(A) \in Nat
    BY <1>3 DEF Rank
  <2>3. IsFiniteSet(B \ {j}) /\ Cardinality(B \ {j}) = Cardinality(B) - 1
    BY <2>1, <2>2, FS_RemoveElement
  <2>4. Cardinality(A) <= Cardinality(B \ {j})
    <3> HIDE DEF A, B
    <3> QED
      BY <2>1, <2>3, FS_Subset
  <2> QED
    BY <2>2, <2>3, <2>4 DEF Rank
<1>6. ASSUME NEW i \in P, NEW j \in P, Rank(P, i) = Rank(P, j) PROVE i = j
  <2>1. i \in Nat /\ j \in Nat
    OBVIOUS
  <2>2. ~ (i < j) /\ ~ (j < i)
    BY <1>5, <1>6
  <2> QED
    BY <2>1, <2>2
<1>7. \A k \in 1..Cardinality(P) : \E i \in P : Rank(P, i) = k
  <2> DEFINE T == 1..Cardinality(P)
             rank == [i \in P |-> Rank(P, i)]
  <2>1. rank \in Injection(P, T)
    BY <1>4, <1>6 DEF Injection, IsInjective
  <2>2. IsFiniteSet(T) /\ Cardinality(T) = Cardinality(P)
    <3>1. Cardinality(P) \in Int /\ 1 \in Int
      BY <1>2
    <3>2. Cardinality(P) - 1 + 1 = Cardinality(P)
      BY <1>2
    <3> QED
      BY <1>2, <3>1, <3>2, FS_Interval
  <2>3. rank \in Surjection(P, T)
    <3> HIDE DEF rank, T
    <3> QED
      BY <2>1, <2>2, FS_Injection
  <2> QED
    BY <2>3 DEF Surjection
<1> QED
  BY <1>2, <1>4, <1>6, <1>7

(* What At returns: the elements at the places, each of them once.         *)
LEMMA AtFacts ==
  ASSUME NEW S, NEW l \in Seq(S), NEW P \in SUBSET (DOMAIN l)
  PROVE  /\ Cardinality(P) \in Nat /\ Cardinality(P) <= Len(l)
         /\ At(l, P) \in Seq(S) /\ Len(At(l, P)) = Cardinality(P)
         /\ DOMAIN At(l, P) = 1..Cardinality(P)
         /\ \A k \in 1..Cardinality(P) : Nth(P, k) \in P /\ At(l, P)[k] = l[Nth(P, k)]
         /\ \A i \in P : \E k \in 1..Cardinality(P) : Nth(P, k) = i
         /\ ToSet(At(l, P)) = {l[i] : i \in P}
         /\ At(l, P) = <<>> <=> P = {}
<1>1. Len(l) \in Nat /\ DOMAIN l = 1..Len(l) /\ \A i \in DOMAIN l : l[i] \in S
  OBVIOUS
<1>2. /\ IsFiniteSet(P) /\ Cardinality(P) \in Nat /\ Cardinality(P) <= Len(l)
      /\ \A i \in P : Rank(P, i) \in 1..Cardinality(P)
      /\ \A i, j \in P : Rank(P, i) = Rank(P, j) => i = j
      /\ \A k \in 1..Cardinality(P) : \E i \in P : Rank(P, i) = k
  BY <1>1, Ranks
<1>3. \A k \in 1..Cardinality(P) : Nth(P, k) \in P /\ Rank(P, Nth(P, k)) = k
  BY <1>2 DEF Nth
<1>4. \A i \in P : \E k \in 1..Cardinality(P) : Nth(P, k) = i
  BY <1>2, <1>3
<1>5. At(l, P) = [k \in 1..Cardinality(P) |-> l[Nth(P, k)]]
  BY DEF At, Nth, Rank
<1>6. At(l, P) \in Seq(S) /\ Len(At(l, P)) = Cardinality(P) /\ DOMAIN At(l, P) = 1..Cardinality(P)
  BY <1>1, <1>2, <1>3, <1>5
<1>7. ToSet(At(l, P)) = {l[i] : i \in P}
  BY <1>3, <1>4, <1>5, <1>6 DEF ToSet
<1>8. At(l, P) = <<>> <=> P = {}
  <2>1. At(l, P) = <<>> <=> Cardinality(P) = 0
    BY <1>2, <1>6
  <2> QED
    BY <1>2, <2>1, FS_EmptySet
<1> QED
  BY <1>2, <1>3, <1>4, <1>5, <1>6, <1>7, <1>8

-----------------------------------------------------------------------------
(* What the text of a list of filters selects, when none is on either end. *)

Plain == {f \in Filter : f.def.side # "either"}
MatchOf(f) == Match(f, f.def.side)

(* A filter on one end is written as a single match.                       *)
LEMMA EncodedPlain ==
  ASSUME NEW f \in Plain
  PROVE  Encoded(f) = <<{MatchOf(f)}>>
BY DEF Plain, Encoded, MatchOf

(* Two groups that are joined with '&' are one.                            *)
LEMMA JoinGroups ==
  ASSUME NEW A, NEW B
  PROVE  JoinAnd(<<A>>, <<B>>) = <<A \cup B>>
<1> DEFINE C == A \cup B
<1>1. Front(<<A>>) = <<>>
  BY DEF Front
<1>2. Last(<<A>>) = A /\ Head(<<B>>) = B /\ Tail(<<B>>) = <<>>
  BY DEF Last
<1>3. <<>> \o <<C>> \o <<>> = <<C>>
  OBVIOUS
<1> QED
  BY <1>1, <1>2, <1>3 DEF JoinAnd
(* A text is known when each of its steps is.                              *)
LEMMA TextBySteps ==
  ASSUME NEW l \in Seq(Plain), NEW any \in BOOLEAN, NEW upTo,
         upTo = [i \in 0..Len(l) |->
                  IF i = 0 THEN <<{}>>
                  ELSE IF any /\ i > 1 THEN upTo[i - 1] \o Encoded(l[i])
                  ELSE JoinAnd(upTo[i - 1], Encoded(l[i]))]
  PROVE  ToText(l, any) = upTo[Len(l)]
<1> DEFINE N == Len(l)
           text == CHOOSE t : t = [i \in 0..Len(l) |->
                     IF i = 0 THEN <<{}>>
                     ELSE IF any /\ i > 1 THEN t[i - 1] \o Encoded(l[i])
                     ELSE JoinAnd(t[i - 1], Encoded(l[i]))]
           Same == {k \in Nat : k \in 0..N => text[k] = upTo[k]}
<1>1. ToText(l, any) = text[N]
  BY DEF ToText
<1>2. N \in Nat
  OBVIOUS
<1>3. text = [i \in 0..N |->
               IF i = 0 THEN <<{}>>
               ELSE IF any /\ i > 1 THEN text[i - 1] \o Encoded(l[i])
               ELSE JoinAnd(text[i - 1], Encoded(l[i]))]
  OBVIOUS
<1> HIDE DEF text
<1>4. 0 \in Same
  BY <1>2, <1>3
<1>5. ASSUME NEW k \in Nat, k \in Same PROVE k + 1 \in Same
  <2> SUFFICES ASSUME k + 1 \in 0..N PROVE text[k + 1] = upTo[k + 1]
    OBVIOUS
  <2>1. k \in 0..N /\ (k + 1) - 1 = k /\ k + 1 # 0
    BY <1>2
  <2>2. text[k] = upTo[k]
    BY <1>5, <2>1
  <2>3. text[k + 1] = IF any /\ k + 1 > 1 THEN text[k] \o Encoded(l[k + 1]) ELSE JoinAnd(text[k], Encoded(l[k + 1]))
    BY <1>3, <2>1
  <2>4. upTo[k + 1] = IF any /\ k + 1 > 1 THEN upTo[k] \o Encoded(l[k + 1]) ELSE JoinAnd(upTo[k], Encoded(l[k + 1]))
    BY <2>1
  <2> QED
    BY <2>2, <2>3, <2>4
<1>6. \A k \in Nat : k \in Same
  <2> HIDE DEF Same
  <2> QED
    BY <1>4, <1>5, Induction
<1> QED
  BY <1>1, <1>2, <1>6

(* With AND, the text is one group with the matches of all filters.        *)
LEMMA TextOfAll ==
  ASSUME NEW l \in Seq(Plain)
  PROVE  ToText(l, FALSE) = <<{MatchOf(f) : f \in ToSet(l)}>>
<1> DEFINE N == Len(l)
           upTo == [i \in 0..N |-> <<{MatchOf(l[j]) : j \in 1..i}>>]
<1>1. N \in Nat /\ DOMAIN l = 1..N /\ \A i \in 1..N : l[i] \in Plain
  OBVIOUS
<1>2. ASSUME NEW i \in 1..N
      PROVE  upTo[i] = JoinAnd(upTo[i - 1], Encoded(l[i]))
  <2>1. i - 1 \in 0..N /\ i \in 0..N /\ 1..i = (1..(i - 1)) \cup {i}
    BY <1>1
  <2>2. JoinAnd(upTo[i - 1], Encoded(l[i])) = <<{MatchOf(l[j]) : j \in 1..(i - 1)} \cup {MatchOf(l[i])}>>
    BY <1>1, <2>1, EncodedPlain, JoinGroups
  <2>3. {MatchOf(l[j]) : j \in 1..i} = {MatchOf(l[j]) : j \in 1..(i - 1)} \cup {MatchOf(l[i])}
    BY <2>1
  <2> QED
    BY <2>1, <2>2, <2>3
<1>3. upTo = [i \in 0..N |-> IF i = 0 THEN <<{}>>
                             ELSE IF FALSE /\ i > 1 THEN upTo[i - 1] \o Encoded(l[i])
                             ELSE JoinAnd(upTo[i - 1], Encoded(l[i]))]
  <2>1. upTo[0] = <<{}>> /\ upTo = [i \in 0..N |-> upTo[i]]
    BY <1>1
  <2> HIDE DEF upTo
  <2>2. \A i \in 0..N : i # 0 => i \in 1..N
    BY <1>1
  <2> QED
    BY <1>2, <2>1, <2>2
<1>4. ToText(l, FALSE) = upTo[N]
  <2> HIDE DEF upTo
  <2> QED
    BY <1>3, TextBySteps
<1>5. upTo[N] = <<{MatchOf(l[j]) : j \in 1..N}>>
  BY <1>1
<1>6. {MatchOf(l[j]) : j \in 1..N} = {MatchOf(f) : f \in ToSet(l)}
  BY <1>1 DEF ToSet
<1> QED
  BY <1>4, <1>5, <1>6

(* An element at the end of a sequence.                                    *)
LEMMA OneMoreElement ==
  ASSUME NEW T, NEW n \in Nat \ {0}, NEW x \in T, NEW s \in [1..(n - 1) -> T]
  PROVE  s \o <<x>> = [j \in 1..n |-> IF j = n THEN x ELSE s[j]]
<1> DEFINE t == [j \in 1..n |-> IF j = n THEN x ELSE s[j]]
<1>1. s \in Seq(T) /\ Len(s) = n - 1
  OBVIOUS
<1>2. t \in Seq(T) /\ Len(t) = n /\ \A j \in 1..n : t[j] = IF j = n THEN x ELSE s[j]
  OBVIOUS
<1> HIDE DEF t
<1>3. s \o <<x>> \in Seq(T) /\ Len(s \o <<x>>) = n
  BY <1>1
<1>4. ASSUME NEW j \in 1..n PROVE (s \o <<x>>)[j] = t[j]
  BY <1>1, <1>2
<1>5. s \o <<x>> = t
  BY <1>2, <1>3, <1>4
<1> QED
  BY <1>5 DEF t

(* With OR, the text is one group for each filter.                         *)
LEMMA TextOfAny ==
  ASSUME NEW l \in Seq(Plain)
  PROVE  ToText(l, TRUE) = IF l = <<>> THEN <<{}>> ELSE [i \in 1..Len(l) |-> {MatchOf(l[i])}]
<1> DEFINE N == Len(l)
           upTo == [i \in 0..N |-> IF i = 0 THEN <<{}>> ELSE [j \in 1..i |-> {MatchOf(l[j])}]]
<1>1. N \in Nat /\ \A i \in 1..N : l[i] \in Plain
  OBVIOUS
<1>2. ASSUME NEW i \in 1..N
      PROVE  upTo[i] = IF TRUE /\ i > 1 THEN upTo[i - 1] \o Encoded(l[i])
                       ELSE JoinAnd(upTo[i - 1], Encoded(l[i]))
  <2>1. i - 1 \in 0..N /\ i \in 0..N /\ i # 0
    BY <1>1
  <2>2. CASE i = 1
    <3>1. upTo[1] = <<{MatchOf(l[1])}>> /\ upTo[i - 1] = <<{}>>
      <4> DEFINE one == [j \in 1..1 |-> {MatchOf(l[j])}]
      <4>1. one \in Seq({{MatchOf(l[1])}}) /\ Len(one) = 1 /\ one[1] = {MatchOf(l[1])}
        OBVIOUS
      <4>2. one = <<one[1]>>
        <5> HIDE DEF one
        <5> QED
          BY <4>1
      <4>3. upTo[1] = one /\ upTo[0] = <<{}>> /\ i - 1 = 0
        BY <2>1, <2>2
      <4> HIDE DEF one, upTo
      <4> QED
        BY <4>1, <4>2, <4>3
    <3>2. JoinAnd(<<{}>>, Encoded(l[1])) = <<{MatchOf(l[1])}>>
      <4>1. Encoded(l[1]) = <<{MatchOf(l[1])}>>
        BY <1>1, <2>2, EncodedPlain
      <4>2. JoinAnd(<<{}>>, <<{MatchOf(l[1])}>>) = <<{} \cup {MatchOf(l[1])}>>
        BY JoinGroups
      <4> QED
        BY <4>1, <4>2
    <3> HIDE DEF upTo
    <3> QED
      BY <2>2, <3>1, <3>2
  <2>3. CASE i > 1
    <3> DEFINE before == [j \in 1..(i - 1) |-> {MatchOf(l[j])}]
    <3>1. upTo[i] = [j \in 1..i |-> {MatchOf(l[j])}] /\ upTo[i - 1] = before
      BY <2>1, <2>3
    <3>2. Encoded(l[i]) = <<{MatchOf(l[i])}>>
      BY <1>1, EncodedPlain
    <3>3. before \o <<{MatchOf(l[i])}>> = [j \in 1..i |-> {MatchOf(l[j])}]
      <4> DEFINE T == SUBSET {MatchOf(l[j]) : j \in 1..i}
                 last == {MatchOf(l[i])}
      <4>1. before \in [1..(i - 1) -> T] /\ last \in T /\ i \in Nat \ {0}
        BY <2>1
      <4>2. before \o <<last>> = [j \in 1..i |-> IF j = i THEN last ELSE before[j]]
        <5> HIDE DEF T, before, last
        <5> QED
          BY <4>1, OneMoreElement
      <4>3. \A j \in 1..i : j # i => j \in 1..(i - 1)
        BY <2>1
      <4>4. \A j \in 1..(i - 1) : before[j] = {MatchOf(l[j])}
        OBVIOUS
      <4> HIDE DEF T, before
      <4> QED
        BY <4>2, <4>3, <4>4
    <3> HIDE DEF upTo, before
    <3> QED
      BY <2>3, <3>1, <3>2, <3>3
  <2> HIDE DEF upTo
  <2> QED
    BY <2>1, <2>2, <2>3
<1>3. upTo = [i \in 0..N |-> IF i = 0 THEN <<{}>>
                             ELSE IF TRUE /\ i > 1 THEN upTo[i - 1] \o Encoded(l[i])
                             ELSE JoinAnd(upTo[i - 1], Encoded(l[i]))]
  <2>1. upTo[0] = <<{}>> /\ upTo = [i \in 0..N |-> upTo[i]]
    BY <1>1
  <2> HIDE DEF upTo
  <2>2. \A i \in 0..N : i # 0 => i \in 1..N
    BY <1>1
  <2> QED
    BY <1>2, <2>1, <2>2
<1>4. ToText(l, TRUE) = upTo[N]
  <2> HIDE DEF upTo
  <2> QED
    BY <1>3, TextBySteps
<1>5. l = <<>> <=> N = 0
  OBVIOUS
<1>6. upTo[N] = IF N = 0 THEN <<{}>> ELSE [j \in 1..N |-> {MatchOf(l[j])}]
  BY <1>1
<1> HIDE DEF upTo
<1>7. CASE l = <<>>
  BY <1>4, <1>5, <1>6, <1>7
<1>8. CASE l # <<>>
  BY <1>4, <1>5, <1>6, <1>8
<1> QED
  BY <1>7, <1>8

(* The flows that a list selects: those that all of its filters hold of,   *)
(* or with OR any of them, if there is any.                                *)
Meets(f, flow) == Holds(MatchOf(f), flow)
Chosen(l, any) ==
  {flow \in Flow : IF any /\ l # <<>> THEN \E f \in ToSet(l) : Meets(f, flow)
                   ELSE \A f \in ToSet(l) : Meets(f, flow)}

(* The elements of a sequence, of two and of a longer one.                 *)
LEMMA SetOfSeq ==
  ASSUME NEW S, NEW l \in Seq(S)
  PROVE  ToSet(l) \subseteq S /\ (ToSet(l) = {} <=> l = <<>>)
BY DEF ToSet

LEMMA SetOfBoth ==
  ASSUME NEW S, NEW l \in Seq(S), NEW m \in Seq(S)
  PROVE  ToSet(l \o m) = ToSet(l) \cup ToSet(m)
<1> DEFINE n == Len(l)
           k == Len(m)
<1>1. n \in Nat /\ k \in Nat /\ DOMAIN l = 1..n /\ DOMAIN m = 1..k /\ DOMAIN (l \o m) = 1..(n + k)
  OBVIOUS
<1>2. \A i \in 1..n : (l \o m)[i] = l[i]
  OBVIOUS
<1>3. \A i \in 1..k : (l \o m)[n + i] = m[i]
  OBVIOUS
<1> HIDE DEF n, k
<1>4. ASSUME NEW i \in 1..(n + k) PROVE (l \o m)[i] \in ToSet(l) \cup ToSet(m)
  <2>1. CASE i <= n
    <3>1. i \in 1..n
      BY <1>1, <2>1
    <3> QED
      BY <1>1, <1>2, <3>1 DEF ToSet
  <2>2. CASE i > n
    <3>1. i - n \in 1..k /\ n + (i - n) = i
      BY <1>1, <2>2
    <3>2. (l \o m)[i] = m[i - n]
      BY <1>3, <3>1
    <3> QED
      BY <1>1, <3>1, <3>2 DEF ToSet
  <2> QED
    BY <1>1, <2>1, <2>2
<1>5. \A i \in 1..n : i \in 1..(n + k)
  BY <1>1
<1>6. \A i \in 1..k : n + i \in 1..(n + k)
  BY <1>1
<1>7. ToSet(l) \subseteq ToSet(l \o m)
  BY <1>1, <1>2, <1>5 DEF ToSet
<1>8. ToSet(m) \subseteq ToSet(l \o m)
  BY <1>1, <1>3, <1>6 DEF ToSet
<1>9. ToSet(l \o m) \subseteq ToSet(l) \cup ToSet(m)
  BY <1>1, <1>4 DEF ToSet
<1> QED
  BY <1>7, <1>8, <1>9

(* The elements after one is appended.                                     *)
LEMMA SetOfAppend ==
  ASSUME NEW S, NEW l \in Seq(S), NEW x \in S
  PROVE  ToSet(Append(l, x)) = ToSet(l) \cup {x}
<1> DEFINE n == Len(l)
           k == Append(l, x)
<1>1. n \in Nat /\ DOMAIN l = 1..n /\ DOMAIN k = 1..(n + 1) /\ k[n + 1] = x
  OBVIOUS
<1>2. \A i \in 1..n : k[i] = l[i]
  OBVIOUS
<1> HIDE DEF n, k
<1>3. 1..(n + 1) = (1..n) \cup {n + 1}
  BY <1>1
<1>4. ToSet(k) = ToSet(l) \cup {x}
  BY <1>1, <1>2, <1>3 DEF ToSet
<1> QED
  BY <1>4 DEF k

(* Matches of a text.                                                      *)
Matches == [side : Ends \cup {"none"}, name : Names \cup Commons, not : BOOLEAN, values : SUBSET Values]

(* Texts are sequences of sets of matches.                                 *)
LEMMA MatchType ==
  ASSUME NEW f \in Plain
  PROVE  MatchOf(f) \in Matches
BY DEF Plain, Filter, Def, Ends, MatchOf, Match, Matches

LEMMA TextType ==
  ASSUME NEW l \in Seq(Plain)
  PROVE  ToText(l, FALSE) \in Seq(SUBSET Matches) /\ ToText(l, TRUE) \in Seq(SUBSET Matches)
<1> DEFINE all == {MatchOf(f) : f \in ToSet(l)}
           each == [i \in 1..Len(l) |-> {MatchOf(l[i])}]
<1>1. \A f \in ToSet(l) : MatchOf(f) \in Matches
  BY MatchType, SetOfSeq
<1>2. all \in SUBSET Matches
  BY <1>1
<1>3. \A i \in 1..Len(l) : l[i] \in ToSet(l)
  BY DEF ToSet
<1>4. each \in Seq(SUBSET Matches)
  BY <1>1, <1>3
<1>5. ToText(l, FALSE) = <<all>> /\ ToText(l, TRUE) = IF l = <<>> THEN <<{}>> ELSE each
  BY TextOfAll, TextOfAny
<1> HIDE DEF all, each
<1>6. \A A \in SUBSET Matches : <<A>> \in Seq(SUBSET Matches)
  OBVIOUS
<1>7. <<all>> \in Seq(SUBSET Matches) /\ <<{}>> \in Seq(SUBSET Matches)
  BY <1>2, <1>6
<1> QED
  BY ONLY <1>4, <1>5, <1>7

(* Two texts that are joined with '|' select what either selects.          *)
LEMMA SelectedOfBoth ==
  ASSUME NEW t \in Seq(SUBSET Matches), NEW u \in Seq(SUBSET Matches)
  PROVE  Selected(t \o u) = Selected(t) \cup Selected(u)
BY SetOfBoth DEF Selected

(* A text selects the flows that all, or any, of its filters select.       *)
LEMMA SelectedIs ==
  ASSUME NEW l \in Seq(Plain)
  PROVE  Selected(ToText(l, FALSE)) = Chosen(l, FALSE) /\ Selected(ToText(l, TRUE)) = Chosen(l, TRUE)
<1> DEFINE all == {MatchOf(f) : f \in ToSet(l)}
           each == [i \in 1..Len(l) |-> {MatchOf(l[i])}]
<1>1. ToText(l, FALSE) = <<all>> /\ ToText(l, TRUE) = IF l = <<>> THEN <<{}>> ELSE each
  BY TextOfAll, TextOfAny
<1>2. \A A : ToSet(<<A>>) = {A}
  BY DEF ToSet
<1>3. \A A : Selected(<<A>>) = {flow \in Flow : \A m \in A : Holds(m, flow)}
  BY <1>2 DEF Selected
<1>4. {flow \in Flow : \A m \in all : Holds(m, flow)} = Chosen(l, FALSE)
  BY DEF Chosen, Meets
<1>5. CASE l = <<>>
  <2>1. ToSet(l) = {}
    BY <1>5, SetOfSeq
  <2>2. Chosen(l, TRUE) = Flow
    BY <1>5, <2>1 DEF Chosen
  <2>3. {flow \in Flow : \A m \in {} : Holds(m, flow)} = Flow
    OBVIOUS
  <2>4. Selected(<<{}>>) = Flow
    BY <1>3, <2>3
  <2> HIDE DEF all, each
  <2> QED
    BY <1>1, <1>3, <1>4, <1>5, <2>2, <2>4
<1>6. CASE l # <<>>
  <2>1. Selected(each) = Chosen(l, TRUE)
    <3>1. DOMAIN each = 1..Len(l) /\ \A i \in 1..Len(l) : each[i] = {MatchOf(l[i])}
      OBVIOUS
    <3>2. DOMAIN l = 1..Len(l)
      OBVIOUS
    <3> HIDE DEF each
    <3>3. \A group : group \in ToSet(each) <=> \E i \in 1..Len(l) : group = {MatchOf(l[i])}
      BY <3>1 DEF ToSet
    <3>4. \A f : f \in ToSet(l) <=> \E i \in 1..Len(l) : f = l[i]
      BY <3>2 DEF ToSet
    <3>5. ASSUME NEW flow \in Flow PROVE flow \in Selected(each) <=> \E f \in ToSet(l) : Meets(f, flow)
      <4>1. flow \in Selected(each) <=> \E group \in ToSet(each) : \A m \in group : Holds(m, flow)
        BY DEF Selected
      <4>2. \A i \in 1..Len(l) : (\A m \in {MatchOf(l[i])} : Holds(m, flow)) <=> Meets(l[i], flow)
        BY DEF Meets
      <4>3. (\E group \in ToSet(each) : \A m \in group : Holds(m, flow))
              <=> \E i \in 1..Len(l) : \A m \in {MatchOf(l[i])} : Holds(m, flow)
        BY <3>3
      <4>4. (\E f \in ToSet(l) : Meets(f, flow)) <=> \E i \in 1..Len(l) : Meets(l[i], flow)
        BY <3>4
      <4> QED
        BY <4>1, <4>2, <4>3, <4>4
    <3>6. Selected(each) \subseteq Flow
      BY DEF Selected
    <3>7. Chosen(l, TRUE) = {flow \in Flow : \E f \in ToSet(l) : Meets(f, flow)}
      BY <1>6 DEF Chosen
    <3> QED
      BY <3>5, <3>6, <3>7
  <2> HIDE DEF all, each
  <2> QED
    BY <1>1, <1>3, <1>4, <1>6, <2>1
<1> QED
  BY <1>5, <1>6

(* With AND, a text counts each of the flows that it selects once.         *)
LEMMA CountsIs ==
  ASSUME NEW l \in Seq(Plain), NEW flow \in Flow
  PROVE  Counts(ToText(l, FALSE), flow) = IF flow \in Chosen(l, FALSE) THEN 1 ELSE 0
<1> DEFINE group == {MatchOf(f) : f \in ToSet(l)}
           text == <<group>>
           places == {i \in DOMAIN text : \A m \in text[i] : Holds(m, flow)}
<1>1. ToText(l, FALSE) = text
  BY TextOfAll
<1>2. places = IF \A m \in group : Holds(m, flow) THEN {1} ELSE {}
  <2>1. DOMAIN text = {1} /\ text[1] = group
    OBVIOUS
  <2> HIDE DEF text, group
  <2> QED
    BY <2>1
<1>3. flow \in Chosen(l, FALSE) <=> \A m \in group : Holds(m, flow)
  BY DEF Chosen, Meets
<1>4. Counts(ToText(l, FALSE), flow) = Cardinality(places)
  BY <1>1 DEF Counts
<1> HIDE DEF places, group
<1> QED
  BY <1>2, <1>3, <1>4, FS_Singleton, FS_EmptySet

(* The same, for a list that is combined either way.                       *)
LEMMA TextSelects ==
  ASSUME NEW l \in Seq(Plain), NEW any \in BOOLEAN
  PROVE  ToText(l, any) \in Seq(SUBSET Matches) /\ Selected(ToText(l, any)) = Chosen(l, any)
<1>1. CASE any = TRUE
  BY <1>1, TextType, SelectedIs, Zenon
<1>2. CASE any = FALSE
  BY <1>2, TextType, SelectedIs, Zenon
<1> QED
  BY <1>1, <1>2

-----------------------------------------------------------------------------
(* What the two halves of a query select.                                  *)

HasEither(l) == \E i \in DOMAIN l : l[i].def.side = "either"

AtEnd(f, end) == [f EXCEPT !.def = EndpointDef(@, end)]
Swapped(f) == [f EXCEPT !.def = SwapDef(@)]

(* Filters after a change of their direction.                              *)
LEMMA FilterTypes ==
  ASSUME NEW f \in Filter
  PROVE  /\ \A end \in Ends : AtEnd(f, end) \in Plain
         /\ Swapped(f) \in Filter
         /\ f.def.side # "either" => f \in Plain /\ Swapped(f) \in Plain /\ \A end \in Ends : AtEnd(f, end) = f
         /\ Swapped(f).def.side = "either" <=> f.def.side = "either"
<1>1. PICK d \in Def, n \in BOOLEAN, v \in SUBSET Values : f = [def |-> d, not |-> n, values |-> v]
  BY DEF Filter
<1>2. d.side \in {"src", "dst", "either", "none"}
  BY DEF Def, Ends
<1>3. \A end \in Ends : EndpointDef(d, end) \in Def /\ EndpointDef(d, end).side # "either"
  BY <1>2 DEF Def, Ends, EndpointDef
<1>4. SwapDef(d) \in Def /\ (SwapDef(d).side = "either" <=> d.side = "either")
  BY <1>2 DEF Def, Ends, SwapDef, Other
<1> DEFINE With(e) == [def |-> e, not |-> n, values |-> v]
<1>5. \A end : AtEnd(f, end) = With(EndpointDef(d, end))
  BY <1>1 DEF AtEnd
<1>6. Swapped(f) = With(SwapDef(d)) /\ f = With(d)
  BY <1>1 DEF Swapped
<1>7. d.side # "either" => \A end \in Ends : EndpointDef(d, end) = d
  BY DEF EndpointDef
<1>8. \A e \in Def : With(e) \in Filter /\ With(e).def = e /\ (e.side # "either" => With(e) \in Plain)
  BY <1>1 DEF Plain, Filter
<1> HIDE DEF With
<1> QED
  BY <1>3, <1>4, <1>5, <1>6, <1>7, <1>8

(* Lists after a change of their directions.                               *)
LEMMA ListTypes ==
  ASSUME NEW l \in Seq(Filter)
  PROVE  /\ \A end \in Ends : SetEndpoint(l, end) \in Seq(Plain)
         /\ SwapFilters(l) \in Seq(Filter)
         /\ ~HasEither(l) => /\ l \in Seq(Plain) /\ SwapFilters(l) \in Seq(Plain)
                             /\ \A end \in Ends : SetEndpoint(l, end) = l
         /\ HasEither(SwapFilters(l)) <=> HasEither(l)
         /\ SwapFilters(l) = <<>> <=> l = <<>>
<1> DEFINE N == Len(l)
<1>1. N \in Nat /\ DOMAIN l = 1..N /\ (\A i \in 1..N : l[i] \in Filter) /\ l = [i \in 1..N |-> l[i]]
  OBVIOUS
<1>2. \A end : SetEndpoint(l, end) = [i \in 1..N |-> AtEnd(l[i], end)]
  BY <1>1 DEF SetEndpoint, AtEnd
<1>3. SwapFilters(l) = [i \in 1..N |-> Swapped(l[i])]
  BY <1>1 DEF SwapFilters, Swapped
<1> HIDE DEF N
<1>4. ASSUME NEW end \in Ends PROVE SetEndpoint(l, end) \in Seq(Plain)
  <2>1. \A i \in 1..N : AtEnd(l[i], end) \in Plain
    BY <1>1, FilterTypes
  <2>2. [i \in 1..N |-> AtEnd(l[i], end)] \in Seq(Plain)
    BY <1>1, <2>1
  <2> QED
    BY <1>2, <2>2
<1>5. SwapFilters(l) \in Seq(Filter) /\ DOMAIN SwapFilters(l) = 1..N
  BY <1>1, <1>3, FilterTypes
<1>6. ASSUME ~HasEither(l)
      PROVE  l \in Seq(Plain) /\ SwapFilters(l) \in Seq(Plain) /\ \A end \in Ends : SetEndpoint(l, end) = l
  <2>1. \A i \in 1..N : l[i] \in Plain /\ Swapped(l[i]) \in Plain /\ \A end \in Ends : AtEnd(l[i], end) = l[i]
    BY <1>1, <1>6, FilterTypes DEF HasEither
  <2> QED
    BY <1>1, <1>2, <1>3, <2>1
<1>7. HasEither(SwapFilters(l)) <=> HasEither(l)
  BY <1>1, <1>3, <1>5, FilterTypes, ZenonT(60) DEF HasEither
<1>8. SwapFilters(l) = <<>> <=> l = <<>>
  BY <1>1, <1>5
<1> QED
  BY <1>4, <1>5, <1>6, <1>7, <1>8

(* The flows that the records of a list are of.                            *)
Shown(l, m) ==
  IF HasEither(l) THEN Chosen(SetEndpoint(l, "src"), m = "any") \cup Chosen(SetEndpoint(l, "dst"), m = "any")
  ELSE IF m = "bidirectional" /\ l # <<>> THEN Chosen(l, FALSE) \cup Chosen(SwapFilters(l), FALSE)
  ELSE Chosen(l, m = "any")

(* The queries for the records of a list select the flows it is about.     *)
LEMMA RecordsShown ==
  ASSUME NEW l \in Seq(Filter), NEW m
  PROVE  Selected(RecordsText(l, m)) = Shown(l, m)
<1> DEFINE any == m = "any"
           src == SetEndpoint(l, "src")
           dst == SetEndpoint(l, "dst")
<1>1. any \in BOOLEAN /\ "src" \in Ends /\ "dst" \in Ends
  BY DEF Ends
<1>2. CASE HasEither(l)
  <2>1. Halves(l, m) = <<src, dst>>
    BY <1>2 DEF Halves, HasEither
  <2>2. RecordsText(l, m) = ToText(src, any) \o ToText(dst, any)
    BY <2>1 DEF RecordsText
  <2>3. src \in Seq(Plain) /\ dst \in Seq(Plain)
    BY <1>1, ListTypes
  <2> HIDE DEF any, src, dst
  <2>4. /\ ToText(src, any) \in Seq(SUBSET Matches) /\ Selected(ToText(src, any)) = Chosen(src, any)
        /\ ToText(dst, any) \in Seq(SUBSET Matches) /\ Selected(ToText(dst, any)) = Chosen(dst, any)
    BY <1>1, <2>3, TextSelects
  <2>5. Selected(RecordsText(l, m)) = Chosen(src, any) \cup Chosen(dst, any)
    BY <2>2, <2>4, SelectedOfBoth
  <2> QED
    BY <1>2, <2>5 DEF Shown, any, src, dst
<1>3. CASE ~HasEither(l) /\ m = "bidirectional" /\ l # <<>>
  <2>1. Halves(l, m) = <<l, SwapFilters(l)>>
    BY <1>3 DEF Halves, HasEither
  <2> DEFINE other == SwapFilters(l)
  <2>2. RecordsText(l, m) = ToText(l, any) \o ToText(other, any)
    BY <2>1 DEF RecordsText
  <2>3. any = FALSE
    BY <1>3
  <2>4. l \in Seq(Plain) /\ other \in Seq(Plain)
    BY <1>3, ListTypes
  <2> HIDE DEF any, other
  <2>5. /\ ToText(l, FALSE) \in Seq(SUBSET Matches) /\ Selected(ToText(l, FALSE)) = Chosen(l, FALSE)
        /\ ToText(other, FALSE) \in Seq(SUBSET Matches) /\ Selected(ToText(other, FALSE)) = Chosen(other, FALSE)
    BY <2>4, TextSelects
  <2>6. Selected(RecordsText(l, m)) = Chosen(l, FALSE) \cup Chosen(other, FALSE)
    BY <2>2, <2>3, <2>5, SelectedOfBoth
  <2> QED
    BY <1>3, <2>6 DEF Shown, other
<1>4. CASE ~HasEither(l) /\ ~ (m = "bidirectional" /\ l # <<>>)
  <2>1. Halves(l, m) = <<l>>
    BY <1>4 DEF Halves, HasEither
  <2>2. RecordsText(l, m) = ToText(l, any)
    BY <2>1 DEF RecordsText
  <2>3. l \in Seq(Plain)
    BY <1>4, ListTypes
  <2> HIDE DEF any
  <2>4. Selected(RecordsText(l, m)) = Chosen(l, any)
    BY <1>1, <2>2, <2>3, TextSelects
  <2> QED
    BY <1>4, <2>4 DEF Shown, any
<1> QED
  BY <1>2, <1>3, <1>4

(* What two sets hold, counted without their overlap.                      *)
LEMMA OnceEach ==
  ASSUME NEW A, NEW B, NEW x, NEW a, NEW b, NEW c,
         a = IF x \in A THEN 1 ELSE 0, b = IF x \in B THEN 1 ELSE 0, c = IF x \in A \cap B THEN 1 ELSE 0
  PROVE  a + b - c = IF x \in A \cup B THEN 1 ELSE 0
<1>1. CASE x \in A /\ x \in B
  BY <1>1
<1>2. CASE x \in A /\ x \notin B
  BY <1>2
<1>3. CASE x \notin A
  BY <1>3
<1> QED
  BY <1>1, <1>2, <1>3

(* One for each flow of a set.                                             *)
Once(S) == [flow \in Flow |-> IF flow \in S THEN 1 ELSE 0]

(* The sum of the halves, less their overlap, counts each flow once.       *)
LEMMA MetricsShown ==
  ASSUME NEW l \in Seq(Filter), NEW m, m # "any"
  PROVE  Metrics(l, m) = Once(Shown(l, m))
<1> DEFINE any == m = "any"
<1>1. any = FALSE
  OBVIOUS
<1>2. ASSUME NEW s \in Seq(Plain), NEW t \in Seq(Plain), NEW shown,
             Halves(l, m) = <<s, t>>, shown = Chosen(s, FALSE) \cup Chosen(t, FALSE)
      PROVE  Metrics(l, m) = Once(shown)
  <2>1. Metrics(l, m) = [flow \in Flow |->
           Counts(ToText(s, any), flow) + Counts(ToText(t, any), flow)
             - IF any THEN 0 ELSE Counts(ToText(s \o t, any), flow)]
    BY <1>2 DEF Metrics
  <2> HIDE DEF any
  <2>2. s \o t \in Seq(Plain) /\ ToSet(s \o t) = ToSet(s) \cup ToSet(t)
    BY SetOfBoth
  <2>3. Chosen(s \o t, FALSE) = Chosen(s, FALSE) \cap Chosen(t, FALSE)
    BY <2>2 DEF Chosen
  <2>4. ASSUME NEW flow \in Flow
        PROVE  Counts(ToText(s, FALSE), flow) + Counts(ToText(t, FALSE), flow) - Counts(ToText(s \o t, FALSE), flow)
                 = IF flow \in shown THEN 1 ELSE 0
    <3>1. /\ Counts(ToText(s, FALSE), flow) = IF flow \in Chosen(s, FALSE) THEN 1 ELSE 0
          /\ Counts(ToText(t, FALSE), flow) = IF flow \in Chosen(t, FALSE) THEN 1 ELSE 0
          /\ Counts(ToText(s \o t, FALSE), flow) = IF flow \in Chosen(s \o t, FALSE) THEN 1 ELSE 0
      BY <2>2, CountsIs
    <3> DEFINE A == Chosen(s, FALSE)
               B == Chosen(t, FALSE)
               a == Counts(ToText(s, FALSE), flow)
               b == Counts(ToText(t, FALSE), flow)
               c == Counts(ToText(s \o t, FALSE), flow)
    <3>2. c = IF flow \in A \cap B THEN 1 ELSE 0
      BY <2>3, <3>1
    <3>3. a = (IF flow \in A THEN 1 ELSE 0) /\ b = (IF flow \in B THEN 1 ELSE 0) /\ shown = A \cup B
      BY <1>2, <3>1
    <3> HIDE DEF A, B, a, b, c
    <3>4. a + b - c = IF flow \in A \cup B THEN 1 ELSE 0
      BY <3>2, <3>3, OnceEach
    <3> QED
      BY <3>3, <3>4 DEF a, b, c
  <2> QED
    BY <1>1, <2>1, <2>4 DEF Once
<1>3. CASE HasEither(l)
  <2>1. Halves(l, m) = <<SetEndpoint(l, "src"), SetEndpoint(l, "dst")>>
    BY <1>3 DEF Halves, HasEither
  <2>2. SetEndpoint(l, "src") \in Seq(Plain) /\ SetEndpoint(l, "dst") \in Seq(Plain)
    BY ListTypes DEF Ends
  <2>3. Shown(l, m) = Chosen(SetEndpoint(l, "src"), FALSE) \cup Chosen(SetEndpoint(l, "dst"), FALSE)
    <3>1. Shown(l, m) = Chosen(SetEndpoint(l, "src"), any) \cup Chosen(SetEndpoint(l, "dst"), any)
      BY <1>3 DEF Shown
    <3> HIDE DEF any
    <3> QED
      BY <1>1, <3>1
  <2> DEFINE s == SetEndpoint(l, "src")
             t == SetEndpoint(l, "dst")
             shown == Shown(l, m)
  <2>4. s \in Seq(Plain) /\ t \in Seq(Plain) /\ Halves(l, m) = <<s, t>> /\ shown = Chosen(s, FALSE) \cup Chosen(t, FALSE)
    BY <2>1, <2>2, <2>3
  <2>5. Metrics(l, m) = Once(shown)
    <3> HIDE DEF s, t, shown
    <3> QED
      BY <1>2, <2>4
  <2> QED
    BY <2>5
<1>4. CASE ~HasEither(l) /\ m = "bidirectional" /\ l # <<>>
  <2>1. Halves(l, m) = <<l, SwapFilters(l)>>
    BY <1>4 DEF Halves, HasEither
  <2>2. l \in Seq(Plain) /\ SwapFilters(l) \in Seq(Plain)
    BY <1>4, ListTypes
  <2>3. Shown(l, m) = Chosen(l, FALSE) \cup Chosen(SwapFilters(l), FALSE)
    BY <1>4 DEF Shown
  <2> DEFINE t == SwapFilters(l)
             shown == Shown(l, m)
  <2>4. t \in Seq(Plain) /\ Halves(l, m) = <<l, t>> /\ shown = Chosen(l, FALSE) \cup Chosen(t, FALSE)
    BY <2>1, <2>2, <2>3
  <2>5. Metrics(l, m) = Once(shown)
    <3> HIDE DEF t, shown
    <3> QED
      BY <1>2, <2>2, <2>4
  <2> QED
    BY <2>5
<1>5. CASE ~HasEither(l) /\ ~ (m = "bidirectional" /\ l # <<>>)
  <2>1. Halves(l, m) = <<l>>
    BY <1>5 DEF Halves, HasEither
  <2>2. l \in Seq(Plain)
    BY <1>5, ListTypes
  <2>3. Metrics(l, m) = [flow \in Flow |-> Counts(ToText(l, any), flow)]
    BY <2>1 DEF Metrics
  <2>4. Shown(l, m) = Chosen(l, any)
    BY <1>5 DEF Shown
  <2> HIDE DEF any
  <2> QED
    BY <1>1, <2>2, <2>3, <2>4, CountsIs DEF Once
<1> QED
  BY <1>3, <1>4, <1>5

-----------------------------------------------------------------------------
(* Directions.                                                             *)

(* The mirror image of the mirror image is the flow.                       *)
LEMMA MirrorFacts ==
  ASSUME NEW flow \in Flow
  PROVE  Mirror(flow) \in Flow /\ Mirror(Mirror(flow)) = flow
<1>1. PICK s \in [Names -> Values], d \in [Names -> Values], n \in [Commons -> Values] :
        flow = [src |-> s, dst |-> d, none |-> n]
  BY DEF Flow
<1>2. Mirror(flow) = [src |-> d, dst |-> s, none |-> n]
  <2>1. flow.src = s /\ flow.dst = d
    BY <1>1
  <2>2. Mirror(flow) = [flow EXCEPT !.src = d, !.dst = s]
    BY <2>1 DEF Mirror
  <2> QED
    BY <1>1, <2>2
<1> QED
  BY <1>1, <1>2 DEF Mirror, Flow

(* A filter that is swapped holds of the mirror image.                     *)
LEMMA MeetsMirrored ==
  ASSUME NEW f \in Plain, NEW flow \in Flow
  PROVE  Meets(Swapped(f), flow) <=> Meets(f, Mirror(flow))
<1>1. PICK d \in Def, n \in BOOLEAN, v \in SUBSET Values : f = [def |-> d, not |-> n, values |-> v]
  BY DEF Plain, Filter
<1>2. d.side \in {"src", "dst", "none"} /\ f.def = d
  BY <1>1 DEF Def, Ends, Plain
<1>3. Swapped(f) = [def |-> SwapDef(d), not |-> n, values |-> v]
  BY <1>1 DEF Swapped
<1>4. \A e : Meets([def |-> e, not |-> n, values |-> v], flow) <=> (flow[e.side][e.name] \in v) # n
  BY DEF Meets, MatchOf, Match, Holds
<1>5. Meets(f, Mirror(flow)) <=> (Mirror(flow)[d.side][d.name] \in v) # n
  BY <1>1 DEF Meets, MatchOf, Match, Holds
<1>6. flow[SwapDef(d).side][SwapDef(d).name] = Mirror(flow)[d.side][d.name]
  <2>1. Mirror(flow).src = flow.dst /\ Mirror(flow).dst = flow.src /\ Mirror(flow).none = flow.none
    BY DEF Mirror, Flow
  <2>2. SwapDef(d).name = d.name /\ SwapDef(d).side = IF d.side = "src" THEN "dst" ELSE IF d.side = "dst" THEN "src" ELSE "none"
    BY <1>2 DEF SwapDef, Other, Ends, Def
  <2> QED
    BY <1>2, <2>1, <2>2
<1> QED
  BY <1>3, <1>4, <1>5, <1>6

(* The filters of a list that is swapped, or set to an end.                *)
LEMMA SwapElements ==
  ASSUME NEW l \in Seq(Filter)
  PROVE  ToSet(SwapFilters(l)) = {Swapped(f) : f \in ToSet(l)}
BY DEF SwapFilters, Swapped, ToSet

(* A list that is swapped selects the mirror image.                        *)
LEMMA ChosenMirrored ==
  ASSUME NEW l \in Seq(Plain), NEW any \in BOOLEAN, NEW flow \in Flow
  PROVE  flow \in Chosen(SwapFilters(l), any) <=> Mirror(flow) \in Chosen(l, any)
<1>1. l \in Seq(Filter)
  BY DEF Plain
<1>2. (SwapFilters(l) = <<>> <=> l = <<>>) /\ ToSet(SwapFilters(l)) = {Swapped(f) : f \in ToSet(l)}
  BY <1>1, ListTypes, SwapElements
<1>3. \A f \in ToSet(l) : Meets(Swapped(f), flow) <=> Meets(f, Mirror(flow))
  BY MeetsMirrored, SetOfSeq
<1>4. Mirror(flow) \in Flow
  BY MirrorFacts
<1> QED
  BY <1>2, <1>3, <1>4 DEF Chosen

LEMMA EndElements ==
  ASSUME NEW l \in Seq(Filter), NEW end \in Ends
  PROVE  /\ ToSet(SetEndpoint(l, end)) = {AtEnd(f, end) : f \in ToSet(l)}
         /\ SetEndpoint(l, end) = <<>> <=> l = <<>>
<1>1. ToSet(SetEndpoint(l, end)) = {AtEnd(f, end) : f \in ToSet(l)}
  BY DEF SetEndpoint, AtEnd, ToSet
<1>2. SetEndpoint(l, end) \in Seq(Plain) /\ DOMAIN SetEndpoint(l, end) = DOMAIN l
  BY ListTypes DEF SetEndpoint
<1>3. SetEndpoint(l, end) = <<>> <=> l = <<>>
  <2> DEFINE s == SetEndpoint(l, end)
  <2>1. s \in Seq(Plain) /\ DOMAIN s = DOMAIN l
    BY <1>2
  <2> HIDE DEF s
  <2>2. s = <<>> <=> l = <<>>
    BY <2>1
  <2> QED
    BY <2>2 DEF s
<1> QED
  BY <1>1, <1>3

(* Whether a list has a filter on either end is told by its elements.      *)
LEMMA EitherInSet ==
  ASSUME NEW l \in Seq(Filter)
  PROVE  HasEither(l) <=> \E f \in ToSet(l) : f.def.side = "either"
BY DEF HasEither, ToSet

(* Unless a list is mirrored, its halves are those of its two ends.        *)
Ending(l, end, any) == Chosen(SetEndpoint(l, end), any)
Mirrored(l, m) == ~HasEither(l) /\ m = "bidirectional" /\ l # <<>>

(* What is shown is shown by one of two halves, whatever they are.         *)
LEMMA ShownIs ==
  ASSUME NEW l \in Seq(Filter), NEW m, NEW any \in BOOLEAN, any = (m = "any")
  PROVE  Shown(l, m) = IF Mirrored(l, m) THEN Chosen(l, FALSE) \cup Chosen(SwapFilters(l), FALSE)
                       ELSE Ending(l, "src", any) \cup Ending(l, "dst", any)
<1>1. CASE HasEither(l)
  BY <1>1 DEF Shown, Ending, Mirrored
<1>2. CASE ~HasEither(l)
  <2>1. SetEndpoint(l, "src") = l /\ SetEndpoint(l, "dst") = l
    BY <1>2, ListTypes DEF Ends
  <2>2. Ending(l, "src", any) = Chosen(l, any) /\ Ending(l, "dst", any) = Chosen(l, any)
    BY <2>1 DEF Ending
  <2>3. ~Mirrored(l, m) => Shown(l, m) = Chosen(l, any)
    BY <1>2 DEF Shown, Mirrored
  <2>4. Mirrored(l, m) => Shown(l, m) = Chosen(l, FALSE) \cup Chosen(SwapFilters(l), FALSE)
    BY DEF Shown, Mirrored
  <2>5. CASE Mirrored(l, m)
    BY <2>4, <2>5
  <2>6. CASE ~Mirrored(l, m)
    BY <2>2, <2>3, <2>6
  <2> QED
    BY <2>5, <2>6
<1> QED
  BY <1>1, <1>2

(* In both directions, the mirror image of what is shown is shown.         *)
LEMMA BothShown ==
  ASSUME NEW l \in Seq(Filter), ~HasEither(l), NEW flow \in Shown(l, "bidirectional")
  PROVE  Mirror(flow) \in Shown(l, "bidirectional")
<1>1. flow \in Flow
  BY DEF Shown, Chosen
<1>2. Mirror(flow) \in Flow /\ Mirror(Mirror(flow)) = flow /\ l \in Seq(Plain)
  BY <1>1, MirrorFacts, ListTypes
<1>3. CASE l = <<>>
  <2>1. ToSet(l) = {}
    BY <1>3, SetOfSeq
  <2> QED
    BY <1>2, <1>3, <2>1 DEF Shown, Chosen
<1>4. CASE l # <<>>
  <2>1. Shown(l, "bidirectional") = Chosen(l, FALSE) \cup Chosen(SwapFilters(l), FALSE)
    BY <1>4 DEF Shown
  <2>2. flow \in Chosen(SwapFilters(l), FALSE) <=> Mirror(flow) \in Chosen(l, FALSE)
    BY <1>1, <1>2, ChosenMirrored
  <2>3. Mirror(flow) \in Chosen(SwapFilters(l), FALSE) <=> flow \in Chosen(l, FALSE)
    BY <1>2, ChosenMirrored
  <2> QED
    BY <2>1, <2>2, <2>3
<1> QED
  BY <1>3, <1>4

(* The list that is swapped shows the mirror image.                        *)
LEMMA SwapShown ==
  ASSUME NEW l \in Seq(Filter), NEW m, m # "bidirectional"
  PROVE  Shown(SwapFilters(l), m) = {Mirror(flow) : flow \in Shown(l, m)}
<1> DEFINE any == m = "any"
           k == SwapFilters(l)
<1>1. any \in BOOLEAN /\ any = (m = "any")
  OBVIOUS
<1>2. k \in Seq(Filter)
  BY ListTypes
<1>3. ASSUME NEW from \in Ends, NEW flow \in Flow
      PROVE  flow \in Ending(k, from, any) <=> Mirror(flow) \in Ending(l, Other(from), any)
  <2> DEFINE to == Other(from)
             s == SetEndpoint(l, to)
  <2>1. to \in Ends /\ s \in Seq(Plain)
    BY ListTypes DEF Ends, Other
  <2>2. SetEndpoint(k, from) = SwapFilters(s)
    <3>1. \A i \in DOMAIN l : AtEnd(Swapped(l[i]), from) = Swapped(AtEnd(l[i], to))
      <4> SUFFICES ASSUME NEW i \in DOMAIN l
                   PROVE  AtEnd(Swapped(l[i]), from) = Swapped(AtEnd(l[i], to))
        OBVIOUS
      <4>1. PICK d \in Def, n \in BOOLEAN, v \in SUBSET Values : l[i] = [def |-> d, not |-> n, values |-> v]
        <5>1. l[i] \in Filter
          OBVIOUS
        <5> QED
          BY <5>1 DEF Filter
      <4>2. EndpointDef(SwapDef(d), from) = SwapDef(EndpointDef(d, to))
        <5>1. PICK side \in {"src", "dst", "either", "none"}, name \in Names \cup Commons : d = [side |-> side, name |-> name]
          BY DEF Def, Ends
        <5>2. \A e : EndpointDef([side |-> side, name |-> name], e)
                       = [side |-> IF side = "either" THEN e ELSE side, name |-> name]
          BY DEF EndpointDef
        <5>3. \A w \in {"src", "dst", "either", "none"} :
                 SwapDef([side |-> w, name |-> name]) = [side |-> IF w \in Ends THEN Other(w) ELSE w, name |-> name]
          BY DEF SwapDef
        <5>4. \A w \in {"src", "dst", "either", "none"}, e \in Ends :
                 EndpointDef([side |-> w, name |-> name], e) = [side |-> IF w = "either" THEN e ELSE w, name |-> name]
          BY DEF EndpointDef
        <5>5. (from = "src" /\ to = "dst") \/ (from = "dst" /\ to = "src")
          BY DEF Ends, Other
        <5>6. CASE side = "either"
          <6>1. SwapDef(d) = d /\ EndpointDef(d, from) = [side |-> from, name |-> name]
            BY <5>1, <5>3, <5>4, <5>6 DEF Ends
          <6>2. EndpointDef(d, to) = [side |-> to, name |-> name]
            BY <2>1, <5>1, <5>4, <5>6
          <6>3. SwapDef([side |-> to, name |-> name]) = [side |-> from, name |-> name]
            BY <5>3, <5>5 DEF Ends, Other
          <6> QED
            BY <6>1, <6>2, <6>3
        <5>7. CASE side # "either"
          <6>1. EndpointDef(d, to) = d
            BY <5>1, <5>7 DEF EndpointDef
          <6>2. SwapDef(d).side # "either"
            BY <5>1, <5>7 DEF SwapDef, Ends, Other
          <6> QED
            BY <6>1, <6>2 DEF EndpointDef
        <5> QED
          BY <5>6, <5>7
      <4>3. \A e : /\ Swapped([def |-> e, not |-> n, values |-> v]) = [def |-> SwapDef(e), not |-> n, values |-> v]
                   /\ \A end : AtEnd([def |-> e, not |-> n, values |-> v], end)
                                 = [def |-> EndpointDef(e, end), not |-> n, values |-> v]
        BY DEF Swapped, AtEnd
      <4> QED
        BY <4>1, <4>2, <4>3, ZenonT(60)
    <3>2. SetEndpoint(k, from) = [i \in DOMAIN l |-> AtEnd(Swapped(l[i]), from)]
      BY DEF SetEndpoint, SwapFilters, AtEnd, Swapped
    <3>3. SwapFilters(s) = [i \in DOMAIN l |-> Swapped(AtEnd(l[i], to))]
      BY DEF SetEndpoint, SwapFilters, AtEnd, Swapped
    <3> QED
      BY <3>1, <3>2, <3>3
  <2> HIDE DEF any, k, to, s
  <2>3. flow \in Chosen(SwapFilters(s), any) <=> Mirror(flow) \in Chosen(s, any)
    BY <1>1, <2>1, ChosenMirrored
  <2> QED
    BY <2>2, <2>3 DEF Ending, s, to
<1>4. /\ Shown(l, m) = Ending(l, "src", any) \cup Ending(l, "dst", any)
      /\ Shown(k, m) = Ending(k, "src", any) \cup Ending(k, "dst", any)
  <2>1. ~Mirrored(l, m) /\ ~Mirrored(k, m)
    BY DEF Mirrored
  <2> HIDE DEF any, k
  <2> QED
    BY <1>1, <1>2, <2>1, ShownIs
<1> HIDE DEF any, k
<1>5. ASSUME NEW flow \in Flow
      PROVE  flow \in Shown(k, m) <=> Mirror(flow) \in Shown(l, m)
  <2>1. flow \in Ending(k, "src", any) <=> Mirror(flow) \in Ending(l, "dst", any)
    BY <1>3 DEF Ends, Other
  <2>2. flow \in Ending(k, "dst", any) <=> Mirror(flow) \in Ending(l, "src", any)
    BY <1>3 DEF Ends, Other
  <2> QED
    BY <1>4, <2>1, <2>2
<1>6. Shown(k, m) \subseteq Flow /\ Shown(l, m) \subseteq Flow
  BY DEF Shown, Chosen
<1>7. Shown(k, m) = {Mirror(flow) : flow \in Shown(l, m)}
  BY <1>5, <1>6, MirrorFacts
<1> QED
  BY <1>7 DEF k

(* With AND, and in both directions, more filters show less; with OR, more *)
(* filters than some show more.                                            *)
LEMMA MoreFilters ==
  ASSUME NEW l \in Seq(Filter), NEW k \in Seq(Filter), NEW m, ToSet(l) \subseteq ToSet(k)
  PROVE  /\ m # "any" => Shown(k, m) \subseteq Shown(l, m)
         /\ m = "any" /\ l # <<>> => Shown(l, m) \subseteq Shown(k, m)
<1> DEFINE any == m = "any"
<1>1. any \in BOOLEAN /\ any = (m = "any")
  OBVIOUS
<1>2. \A end \in Ends : /\ ToSet(SetEndpoint(l, end)) \subseteq ToSet(SetEndpoint(k, end))
                        /\ SetEndpoint(l, end) = <<>> <=> l = <<>>
                        /\ SetEndpoint(k, end) = <<>> <=> k = <<>>
  BY EndElements
<1>3. ToSet(SwapFilters(l)) \subseteq ToSet(SwapFilters(k))
  BY SwapElements
<1>4. (l = <<>> <=> ToSet(l) = {}) /\ (k = <<>> <=> ToSet(k) = {}) /\ (l # <<>> => k # <<>>)
  BY SetOfSeq
<1>5. HasEither(l) => HasEither(k)
  BY EitherInSet
<1>6. ASSUME m # "any" PROVE Shown(k, m) \subseteq Shown(l, m)
  <2>1. any = FALSE
    BY <1>6
  <2>2. \A end \in Ends : Ending(k, end, FALSE) \subseteq Ending(l, end, FALSE)
    BY <1>2 DEF Ending, Chosen
  <2>3. CASE Mirrored(k, m)
    <3>1. Shown(k, m) = Chosen(k, FALSE) \cup Chosen(SwapFilters(k), FALSE)
      BY <2>3, <1>1, ShownIs
    <3>2. CASE l = <<>>
      <4>1. Shown(l, m) = Flow
        BY <1>4, <1>6, <3>2 DEF Shown, HasEither, Chosen
      <4> QED
        BY <3>1, <4>1 DEF Chosen
    <3>3. CASE l # <<>>
      <4>1. Mirrored(l, m)
        BY <1>5, <2>3, <3>3 DEF Mirrored
      <4>2. Shown(l, m) = Chosen(l, FALSE) \cup Chosen(SwapFilters(l), FALSE)
        BY <4>1, <1>1, ShownIs
      <4> QED
        BY <1>3, <3>1, <4>2 DEF Chosen
    <3> QED
      BY <3>2, <3>3
  <2>4. CASE ~Mirrored(k, m)
    <3>1. Shown(k, m) = Ending(k, "src", FALSE) \cup Ending(k, "dst", FALSE)
      <4> HIDE DEF any
      <4> QED
        BY <1>1, <2>1, <2>4, ShownIs
    <3>2. Ending(l, "src", FALSE) \cup Ending(l, "dst", FALSE) \subseteq Shown(l, m)
      <4> HIDE DEF any
      <4>1. CASE ~Mirrored(l, m)
        BY <1>1, <2>1, <4>1, ShownIs
      <4>2. CASE Mirrored(l, m)
        <5>1. SetEndpoint(l, "src") = l /\ SetEndpoint(l, "dst") = l
          BY <4>2, ListTypes DEF Mirrored, Ends
        <5>2. Shown(l, m) = Chosen(l, FALSE) \cup Chosen(SwapFilters(l), FALSE)
          BY <1>1, <4>2, ShownIs
        <5> QED
          BY <5>1, <5>2 DEF Ending
      <4> QED
        BY <4>1, <4>2
    <3> QED
      BY <2>2, <3>1, <3>2 DEF Ends
  <2> QED
    BY <2>3, <2>4
<1>7. ASSUME m = "any", l # <<>> PROVE Shown(l, m) \subseteq Shown(k, m)
  <2>1. any = TRUE
    BY <1>7
  <2>2. \A end \in Ends : Ending(l, end, TRUE) \subseteq Ending(k, end, TRUE)
    BY <1>2, <1>4, <1>7 DEF Ending, Chosen
  <2>3. ~Mirrored(l, m) /\ ~Mirrored(k, m)
    BY <1>7 DEF Mirrored
  <2> HIDE DEF any
  <2>4. /\ Shown(k, m) = Ending(k, "src", TRUE) \cup Ending(k, "dst", TRUE)
        /\ Shown(l, m) = Ending(l, "src", TRUE) \cup Ending(l, "dst", TRUE)
    BY <1>1, <2>1, <2>3, ShownIs
  <2> QED
    BY <2>2, <2>4 DEF Ends
<1> QED
  BY <1>6, <1>7

-----------------------------------------------------------------------------
(* The lists of the page.                                                  *)

PageFilter == [def : Def, not : BOOLEAN, values : Seq(Value) \ {<<>>}]
Lists == Seq(PageFilter)

(* The fields of a filter, and of a filter that is changed.                *)
LEMMA FilterFields ==
  ASSUME NEW f \in PageFilter
  PROVE  /\ f.def \in Def /\ f.not \in BOOLEAN /\ f.values \in Seq(Value) /\ f.values # <<>>
         /\ \A vs \in Seq(Value) : [f EXCEPT !.values = vs] = [def |-> f.def, not |-> f.not, values |-> vs]
         /\ \A d \in Def : [f EXCEPT !.def = d] = [def |-> d, not |-> f.not, values |-> f.values]
<1>1. PICK d \in Def, n \in BOOLEAN, vs \in Seq(Value) \ {<<>>} : f = [def |-> d, not |-> n, values |-> vs]
  BY DEF PageFilter
<1> QED
  BY <1>1

LEMMA MakeFilter ==
  ASSUME NEW d \in Def, NEW n \in BOOLEAN, NEW vs \in Seq(Value), vs # <<>>
  PROVE  [def |-> d, not |-> n, values |-> vs] \in PageFilter
BY DEF PageFilter

(* The filters of a list.                                                  *)
LEMMA Elements ==
  ASSUME NEW l \in Lists
  PROVE  /\ Len(l) \in Nat /\ DOMAIN l = 1..Len(l) /\ l = [i \in 1..Len(l) |-> l[i]]
         /\ \A i \in DOMAIN l : l[i] \in PageFilter
         /\ \A f \in ToSet(l) : f \in PageFilter /\ \E i \in DOMAIN l : f = l[i]
         /\ \A i \in DOMAIN l : l[i] \in ToSet(l)
BY DEF Lists, ToSet

(* The first filter with an id, or with a key.                             *)
LEMMA FirstPlace ==
  ASSUME NEW l \in Lists, NEW I \in SUBSET (1..Len(l))
  PROVE  /\ I # {} => Min(I) \in I /\ Min(I) # 0 /\ \A j \in I : Min(I) <= j
         /\ I # {} => Max(I) \in I /\ Max(I) # 0 /\ \A j \in I : j <= Max(I)
<1>1. Len(l) \in Nat
  BY Elements
<1>2. ASSUME I # {} PROVE \E x \in I : \A y \in I : x <= y
  <2>1. I \subseteq Nat
    BY <1>1
  <2> QED
    BY <1>2, <2>1, LeastNatural
<1>3. ASSUME I # {} PROVE \E x \in I : \A y \in I : y <= x
  <2> DEFINE N == Len(l)
             T == {N - y : y \in I}
  <2>1. T \subseteq Nat /\ T # {}
    <3>1. N \in Nat /\ \A y \in I : y \in 1..N
      BY <1>1
    <3> HIDE DEF N
    <3>2. \A y \in I : N - y \in Nat
      BY <3>1
    <3> QED
      BY <1>3, <3>2
  <2>2. PICK t \in T : \A u \in T : t <= u
    <3> HIDE DEF T
    <3> QED
      BY <2>1, LeastNatural
  <2>3. PICK x \in I : t = N - x
    OBVIOUS
  <2>4. ASSUME NEW y \in I PROVE y <= x
    <3>1. N - y \in T
      OBVIOUS
    <3>2. N - x <= N - y
      BY <2>2, <2>3, <3>1
    <3> QED
      BY <1>1, <3>2
  <2> QED
    BY <2>4
<1>4. \A x \in I : x # 0 /\ x \in Nat
  BY <1>1
<1>5. I # {} => Min(I) \in I /\ \A j \in I : Min(I) <= j
  BY <1>2 DEF Min
<1>6. I # {} => Max(I) \in I /\ \A j \in I : j <= Max(I)
  <2>1. \A x, y \in I : x >= y <=> y <= x
    BY <1>4
  <2>2. I # {} => \E x \in I : \A y \in I : x >= y
    BY <1>3, <2>1
  <2>3. I # {} => Max(I) \in I /\ \A j \in I : Max(I) >= j
    BY <2>2 DEF Max
  <2> QED
    BY <2>1, <2>3
<1> QED
  BY <1>4, <1>5, <1>6

(* A filter is found by its definition, or there is none with it.          *)
LEMMA IdFacts ==
  ASSUME NEW l \in Lists, NEW d
  PROVE  LET i == WithId(l, d)
         IN  /\ i # 0 => i \in DOMAIN l /\ l[i].def = d
             /\ i = 0 => \A j \in DOMAIN l : l[j].def # d
<1> DEFINE I == {i \in 1..Len(l) : l[i].def = d}
<1>1. WithId(l, d) = IF I # {} THEN Min(I) ELSE 0
  BY DEF WithId, SelectInSeq
<1>2. I \in SUBSET (1..Len(l)) /\ DOMAIN l = 1..Len(l)
  BY Elements
<1>3. (\A j \in I : l[j].def = d) /\ \A j \in DOMAIN l : j \notin I => l[j].def # d
  BY <1>2
<1> HIDE DEF I
<1>4. I # {} => Min(I) \in I /\ Min(I) # 0
  BY <1>2, FirstPlace
<1> QED
  BY <1>1, <1>2, <1>3, <1>4

(* A filter is found by its key, or there is none with it.                 *)
LEMMA KeyFacts ==
  ASSUME NEW l \in Lists, NEW d, NEW n
  PROVE  LET i == WithKey(l, d, n)
         IN  /\ i # 0 => i \in DOMAIN l /\ l[i].def = d /\ l[i].not = n
             /\ i = 0 => \A j \in DOMAIN l : ~ (l[j].def = d /\ l[j].not = n)
<1> DEFINE I == {i \in 1..Len(l) : l[i].def = d /\ l[i].not = n}
<1>1. WithKey(l, d, n) = IF I # {} THEN Min(I) ELSE 0
  BY DEF WithKey, SelectInSeq
<1>2. I \in SUBSET (1..Len(l)) /\ DOMAIN l = 1..Len(l)
  BY Elements
<1>3. (\A j \in I : l[j].def = d /\ l[j].not = n) /\ \A j \in DOMAIN l : j \notin I => ~ (l[j].def = d /\ l[j].not = n)
  BY <1>2
<1> HIDE DEF I
<1>4. I # {} => Min(I) \in I /\ Min(I) # 0
  BY <1>2, FirstPlace
<1> QED
  BY <1>1, <1>2, <1>3, <1>4

(* The edits of a list, by what they leave of its filters.                 *)
LEMMA ValueRemoved ==
  ASSUME NEW f \in PageFilter, NEW v
  PROVE  LET w == WithoutValue(f, v)
         IN  /\ w.def = f.def /\ w.not = f.not /\ w.values \in Seq(Value)
             /\ w.values # <<>> => w \in PageFilter
             /\ Said(w) = Said(f) \ {v}
             /\ w.values = <<>> <=> Said(f) \subseteq {v}
<1> DEFINE vs == f.values
           P == {k \in DOMAIN vs : vs[k].v # v}
           w == WithoutValue(f, v)
<1>1. vs \in Seq(Value) /\ P \in SUBSET (DOMAIN vs)
  BY FilterFields
<1>2. w = [f EXCEPT !.values = At(vs, P)]
  BY DEF WithoutValue
<1>3. /\ At(vs, P) \in Seq(Value) /\ ToSet(At(vs, P)) = {vs[k] : k \in P}
      /\ At(vs, P) = <<>> <=> P = {}
  <2> HIDE DEF vs, P
  <2> QED
    BY <1>1, AtFacts
<1>4. w = [def |-> f.def, not |-> f.not, values |-> At(vs, P)]
  <2> DEFINE kept == At(vs, P)
  <2>1. kept \in Seq(Value) /\ w = [f EXCEPT !.values = kept]
    BY <1>2, <1>3
  <2> HIDE DEF kept, w
  <2>2. w = [def |-> f.def, not |-> f.not, values |-> kept]
    BY <2>1, FilterFields
  <2> QED
    BY <2>2 DEF kept
<1>5. w.def = f.def /\ w.not = f.not /\ w.values = At(vs, P)
  BY <1>4
<1>6. w.values # <<>> => w \in PageFilter
  BY <1>3, <1>4, FilterFields, MakeFilter
<1>7. Said(w) = {vs[k].v : k \in P} /\ Said(f) = {vs[k].v : k \in DOMAIN vs}
  <2>1. Said(w) = {x.v : x \in {vs[k] : k \in P}}
    BY <1>3, <1>5 DEF Said
  <2>2. Said(f) = {x.v : x \in {vs[k] : k \in DOMAIN vs}}
    BY DEF Said, ToSet
  <2> QED
    BY <2>1, <2>2
<1>8. Said(w) = Said(f) \ {v}
  BY <1>7
<1>9. w.values = <<>> <=> Said(f) \subseteq {v}
  BY <1>3, <1>5, <1>7
<1> HIDE DEF w
<1>10. w.values \in Seq(Value)
  BY <1>3, <1>5
<1> QED
  BY <1>5, <1>6, <1>8, <1>9, <1>10 DEF w

(* A filter that says one more value.                                      *)
LEMMA ValueAdded ==
  ASSUME NEW f \in PageFilter, NEW x \in Value
  PROVE  LET g == [f EXCEPT !.values = Append(@, x)]
         IN  /\ g \in PageFilter /\ g.def = f.def /\ g.not = f.not
             /\ ToSet(g.values) = ToSet(f.values) \cup {x} /\ Said(g) = Said(f) \cup {x.v}
<1> DEFINE vs == Append(f.values, x)
           g == [f EXCEPT !.values = Append(@, x)]
<1>1. f.values \in Seq(Value) /\ vs \in Seq(Value) /\ vs # <<>>
  BY FilterFields
<1>2. g = [def |-> f.def, not |-> f.not, values |-> vs]
  <2>1. g = [f EXCEPT !.values = vs]
    OBVIOUS
  <2> HIDE DEF vs, g
  <2> QED
    BY <1>1, <2>1, FilterFields
<1>3. g \in PageFilter
  <2> HIDE DEF vs, g
  <2> QED
    BY <1>1, <1>2, MakeFilter, FilterFields
<1>4. g.def = f.def /\ g.not = f.not /\ g.values = vs
  BY <1>2
<1>5. ToSet(vs) = ToSet(f.values) \cup {x}
  BY <1>1, SetOfAppend
<1>6. Said(g) = Said(f) \cup {x.v}
  BY <1>4, <1>5 DEF Said
<1> HIDE DEF vs, g
<1>7. ToSet(g.values) = ToSet(f.values) \cup {x}
  BY <1>4, <1>5
<1> QED
  BY <1>3, <1>4, <1>6, <1>7 DEF g

(* A filter that says one value.                                           *)
LEMMA NewFilter ==
  ASSUME NEW d \in Def, NEW n \in BOOLEAN, NEW x \in Value
  PROVE  LET g == [def |-> d, not |-> n, values |-> <<x>>]
         IN  g \in PageFilter /\ ToSet(g.values) = {x} /\ Said(g) = {x.v}
<1>1. <<x>> \in Seq(Value) /\ <<x>> # <<>> /\ ToSet(<<x>>) = {x}
  BY DEF ToSet
<1> QED
  BY <1>1, MakeFilter DEF Said

(* A list of some of the filters of another.                               *)
LEMMA Placed ==
  ASSUME NEW l \in Lists, NEW P \in SUBSET (DOMAIN l)
  PROVE  At(l, P) \in Lists /\ Len(At(l, P)) <= Len(l) /\ ToSet(At(l, P)) = {l[i] : i \in P}
BY AtFacts DEF Lists

With(l, i, f) == [l EXCEPT ![i] = f]

(* A list with a filter in the place of another.                           *)
LEMMA Replaced ==
  ASSUME NEW l \in Lists, NEW i \in DOMAIN l, NEW f \in PageFilter
  PROVE  /\ With(l, i, f) \in Lists /\ Len(With(l, i, f)) = Len(l) /\ DOMAIN With(l, i, f) = DOMAIN l
         /\ \A j \in DOMAIN l : With(l, i, f)[j] = IF j = i THEN f ELSE l[j]
         /\ ToSet(With(l, i, f)) = {l[j] : j \in DOMAIN l \ {i}} \cup {f}
<1> DEFINE k == With(l, i, f)
<1>1. k \in Lists /\ Len(k) = Len(l) /\ DOMAIN k = DOMAIN l
  BY DEF Lists, With
<1>2. \A j \in DOMAIN l : k[j] = IF j = i THEN f ELSE l[j]
  BY DEF Lists, With
<1> HIDE DEF k
<1>3. ToSet(k) = {l[j] : j \in DOMAIN l \ {i}} \cup {f}
  BY <1>1, <1>2 DEF ToSet
<1> QED
  BY <1>1, <1>2, <1>3 DEF k

(* A list with one more filter.                                            *)
LEMMA Appended ==
  ASSUME NEW l \in Lists, NEW f \in PageFilter
  PROVE  /\ Append(l, f) \in Lists /\ Len(Append(l, f)) = Len(l) + 1
         /\ ToSet(Append(l, f)) = ToSet(l) \cup {f}
BY SetOfAppend DEF Lists

(* The objects of a list are told by its elements.                         *)
LEMMA ObjsIs ==
  ASSUME NEW l
  PROVE  Objs(l) = {x.obj : x \in UNION {ToSet(f.values) : f \in ToSet(l)}}
BY DEF Objs, ToSet

(* A list says a value of a field.                                         *)
Says(l, d, v) == \E f \in ToSet(l) : f.def = d /\ v \in Said(f)

(* What a list says after a value is taken from one of its filters.        *)
LEMMA TakenFacts ==
  ASSUME NEW l \in Lists, NEW i \in DOMAIN l, NEW v
  PROVE  LET k == Taken(l, i, v)
         IN  /\ k \in Lists
             /\ \A e, w : Says(k, e, w)
                  <=> \E j \in DOMAIN l : (j # i \/ w # v) /\ l[j].def = e /\ w \in Said(l[j])
<1> DEFINE f == WithoutValue(l[i], v)
           k == Taken(l, i, v)
           others == {l[j] : j \in DOMAIN l \ {i}}
<1>1. l[i] \in PageFilter
  BY Elements
<1>2. /\ f.def = l[i].def /\ Said(f) = Said(l[i]) \ {v}
      /\ (f.values # <<>> => f \in PageFilter) /\ (f.values = <<>> <=> Said(l[i]) \subseteq {v})
  BY <1>1, ValueRemoved
<1>3. CASE f.values = <<>>
  <2>1. k = At(l, DOMAIN l \ {i})
    BY <1>3 DEF Taken
  <2>2. k \in Lists /\ ToSet(k) = others
    BY <2>1, Placed
  <2> HIDE DEF k, f
  <2>3. ASSUME NEW e, NEW w
        PROVE  Says(k, e, w) <=> \E j \in DOMAIN l : (j # i \/ w # v) /\ l[j].def = e /\ w \in Said(l[j])
    BY <1>2, <1>3, <2>2 DEF Says
  <2> QED
    BY <2>2, <2>3 DEF k
<1>4. CASE f.values # <<>>
  <2>1. k = With(l, i, f)
    BY <1>4 DEF Taken, With
  <2>2. f \in PageFilter
    BY <1>2, <1>4
  <2> HIDE DEF f
  <2> HIDE DEF k
  <2>3. k \in Lists /\ ToSet(k) = {l[j] : j \in DOMAIN l \ {i}} \cup {f}
    BY <2>1, <2>2, Replaced
  <2>4. ASSUME NEW e, NEW w
        PROVE  Says(k, e, w) <=> \E j \in DOMAIN l : (j # i \/ w # v) /\ l[j].def = e /\ w \in Said(l[j])
    BY <1>2, <2>3 DEF Says
  <2> QED
    BY <2>3, <2>4 DEF k
<1> QED
  BY <1>3, <1>4

(* What a list says after a value is put into one of its filters.          *)
LEMMA PutFacts ==
  ASSUME NEW l \in Lists, NEW d \in Def, NEW n \in BOOLEAN, NEW x \in Value
  PROVE  LET k == Put(l, d, n, x)
         IN  /\ k \in Lists
             /\ \A e, w : Says(k, e, w) <=> Says(l, e, w) \/ (e = d /\ w = x.v)
<1> DEFINE i == WithId(l, d)
           k == Put(l, d, n, x)
<1>1. i # 0 => i \in DOMAIN l /\ l[i].def = d
  BY IdFacts
<1> HIDE DEF i
<1>2. CASE i = 0
  <2> DEFINE f == [def |-> d, not |-> n, values |-> <<x>>]
  <2>1. k = Append(l, f)
    BY <1>2 DEF Put, i
  <2>2. f \in PageFilter /\ Said(f) = {x.v} /\ f.def = d
    BY NewFilter
  <2> HIDE DEF f
  <2>3. k \in Lists /\ ToSet(k) = ToSet(l) \cup {f}
    BY <2>1, <2>2, Appended
  <2> HIDE DEF k
  <2>4. \A e, w : Says(k, e, w) <=> Says(l, e, w) \/ (e = d /\ w = x.v)
    BY <2>2, <2>3 DEF Says
  <2> QED
    BY <2>3, <2>4 DEF k
<1>3. CASE i # 0 /\ x \in ToSet(l[i].values)
  <2>1. k = l
    BY <1>3 DEF Put, i
  <2>2. l[i] \in ToSet(l) /\ l[i].def = d /\ x.v \in Said(l[i])
    BY <1>1, <1>3, Elements DEF Said
  <2> HIDE DEF k
  <2>3. \A e, w : Says(k, e, w) <=> Says(l, e, w) \/ (e = d /\ w = x.v)
    BY <2>1, <2>2 DEF Says
  <2> QED
    BY <2>1, <2>3 DEF k
<1>4. CASE i # 0 /\ x \notin ToSet(l[i].values)
  <2> DEFINE f == [l[i] EXCEPT !.values = Append(@, x)]
  <2>1. i \in DOMAIN l /\ l[i] \in PageFilter /\ l[i].def = d
    BY <1>1, <1>4, Elements
  <2>2. k = With(l, i, f)
    <3>1. k = [l EXCEPT ![i].values = Append(@, x)]
      BY <1>4 DEF Put, i
    <3> QED
      BY <2>1, <3>1 DEF With
  <2>3. f \in PageFilter /\ f.def = d /\ Said(f) = Said(l[i]) \cup {x.v}
    BY <2>1, ValueAdded
  <2> HIDE DEF f
  <2> HIDE DEF k
  <2>4. k \in Lists /\ ToSet(k) = {l[j] : j \in DOMAIN l \ {i}} \cup {f}
    BY <2>1, <2>2, <2>3, Replaced
  <2>5. ToSet(l) = {l[j] : j \in DOMAIN l \ {i}} \cup {l[i]}
    BY <2>1 DEF ToSet
  <2>6. \A e, w : Says(k, e, w) <=> Says(l, e, w) \/ (e = d /\ w = x.v)
    BY <2>1, <2>3, <2>4, <2>5 DEF Says
  <2> QED
    BY <2>4, <2>6 DEF k
<1> QED
  BY <1>2, <1>3, <1>4

(* A value joins the filter at a place, or a filter of its own.            *)
Joined(l, i, x) == [l EXCEPT ![i].values = Append(@, x)]
Started(l, d, n, x) == Append(l, [def |-> d, not |-> n, values |-> <<x>>])

LEMMA Grown ==
  ASSUME NEW l \in Lists, NEW x \in Value
  PROVE  /\ \A i \in DOMAIN l : /\ Joined(l, i, x) \in Lists /\ Len(Joined(l, i, x)) = Len(l)
                                /\ Objs(l) \subseteq Objs(Joined(l, i, x))
         /\ \A d \in Def, n \in BOOLEAN : /\ Started(l, d, n, x) \in Lists
                                          /\ Objs(l) \subseteq Objs(Started(l, d, n, x))
<1>1. ASSUME NEW i \in DOMAIN l
      PROVE  /\ Joined(l, i, x) \in Lists /\ Len(Joined(l, i, x)) = Len(l)
             /\ Objs(l) \subseteq Objs(Joined(l, i, x))
  <2> DEFINE f == [l[i] EXCEPT !.values = Append(@, x)]
             k == Joined(l, i, x)
  <2>1. l[i] \in PageFilter
    BY Elements
  <2>2. f \in PageFilter /\ ToSet(f.values) = ToSet(l[i].values) \cup {x}
    BY <2>1, ValueAdded
  <2>3. k = With(l, i, f)
    BY DEF With, Joined
  <2> HIDE DEF f, k
  <2>4. k \in Lists /\ Len(k) = Len(l) /\ ToSet(k) = {l[j] : j \in DOMAIN l \ {i}} \cup {f}
    BY <2>2, <2>3, Replaced
  <2>5. ToSet(l) = {l[j] : j \in DOMAIN l \ {i}} \cup {l[i]}
    BY DEF ToSet
  <2>6. \A g \in ToSet(l) : \E h \in ToSet(k) : ToSet(g.values) \subseteq ToSet(h.values)
    BY <2>2, <2>4, <2>5
  <2>7. Objs(l) \subseteq Objs(k)
    <3>1. \A o : o \in Objs(l) <=> \E g \in ToSet(l) : \E y \in ToSet(g.values) : o = y.obj
      BY ObjsIs
    <3>2. \A o : o \in Objs(k) <=> \E g \in ToSet(k) : \E y \in ToSet(g.values) : o = y.obj
      BY ObjsIs
    <3> QED
      BY <2>6, <3>1, <3>2
  <2> QED
    BY <2>4, <2>7 DEF k
<1>2. ASSUME NEW d \in Def, NEW n \in BOOLEAN
      PROVE  Started(l, d, n, x) \in Lists /\ Objs(l) \subseteq Objs(Started(l, d, n, x))
  <2> DEFINE f == [def |-> d, not |-> n, values |-> <<x>>]
             k == Started(l, d, n, x)
  <2>1. f \in PageFilter
    BY NewFilter
  <2>2. k = Append(l, f)
    BY DEF Started
  <2> HIDE DEF f, k
  <2>3. k \in Lists /\ ToSet(k) = ToSet(l) \cup {f}
    BY <2>1, <2>2, Appended
  <2>4. Objs(l) \subseteq Objs(k)
    BY <2>3, ObjsIs
  <2> QED
    BY <2>3, <2>4 DEF k
<1> QED
  BY <1>1, <1>2

(* The definitions of a list are replaced, and nothing else.               *)
Redefined(l, D) == [i \in DOMAIN l |-> [l[i] EXCEPT !.def = D[i]]]

(* A list with other definitions has the same values and objects.          *)
LEMMA RedefinedFacts ==
  ASSUME NEW l \in Lists, NEW D \in [DOMAIN l -> Def]
  PROVE  LET k == Redefined(l, D)
         IN  /\ k \in Lists /\ DOMAIN k = DOMAIN l
             /\ \A i \in DOMAIN l : k[i] = [def |-> D[i], not |-> l[i].not, values |-> l[i].values]
             /\ Objs(k) = Objs(l)
<1> DEFINE k == Redefined(l, D)
<1>1. Len(l) \in Nat /\ DOMAIN l = 1..Len(l) /\ \A i \in DOMAIN l : l[i] \in PageFilter
  BY Elements
<1>2. \A i \in DOMAIN l : [l[i] EXCEPT !.def = D[i]] = [def |-> D[i], not |-> l[i].not, values |-> l[i].values]
  BY <1>1, FilterFields
<1>3. \A i \in DOMAIN l : [def |-> D[i], not |-> l[i].not, values |-> l[i].values] \in PageFilter
  BY <1>1, FilterFields, MakeFilter
<1>4. DOMAIN k = DOMAIN l /\ \A i \in DOMAIN l : k[i] = [def |-> D[i], not |-> l[i].not, values |-> l[i].values]
  BY <1>2 DEF Redefined
<1>5. k = [i \in 1..Len(l) |-> k[i]]
  BY <1>1 DEF Redefined
<1> HIDE DEF k
<1>6. \A i \in 1..Len(l) : k[i] \in PageFilter
  BY <1>1, <1>3, <1>4
<1>7. k \in Lists
  BY <1>1, <1>5, <1>6 DEF Lists
<1>8. \A i \in DOMAIN l : k[i].values = l[i].values
  BY <1>4
<1>9. Objs(k) = Objs(l)
  BY <1>4, <1>8 DEF Objs
<1> QED
  BY <1>4, <1>7, <1>9 DEF k

(* The swap of a list, and its change to an end, redefine it.              *)
LEMMA DefTypes ==
  ASSUME NEW d \in Def
  PROVE  SwapDef(d) \in Def /\ \A end \in Ends : EndpointDef(d, end) \in Def
BY DEF Def, Ends, SwapDef, EndpointDef, Other

LEMMA SwapRedefines ==
  ASSUME NEW l \in Lists
  PROVE  LET D == [i \in DOMAIN l |-> SwapDef(l[i].def)]
         IN  D \in [DOMAIN l -> Def] /\ SwapFilters(l) = Redefined(l, D)
BY Elements, FilterFields, DefTypes DEF SwapFilters, Redefined

LEMMA EndRedefines ==
  ASSUME NEW l \in Lists, NEW end \in Ends
  PROVE  LET D == [i \in DOMAIN l |-> EndpointDef(l[i].def, end)]
         IN  D \in [DOMAIN l -> Def] /\ SetEndpoint(l, end) = Redefined(l, D)
BY Elements, FilterFields, DefTypes DEF SetEndpoint, Redefined

-----------------------------------------------------------------------------
(* The objects of a list that is read again.                               *)

UpTo(l) == CHOOSE u : u = [i \in 0..Len(l) |-> IF i = 0 THEN 0 ELSE u[i - 1] + Len(l[i].values)]

(* There is a running sum of any numbers.                                  *)
LEMMA RunningSum ==
  ASSUME NEW N \in Nat, NEW w \in [1..N -> Nat]
  PROVE  \E u \in [0..N -> Nat] : u[0] = 0 /\ \A i \in 1..N : u[i] = u[i - 1] + w[i]
<1> DEFINE Sums(n) == {u \in [0..n -> Nat] : u[0] = 0 /\ \A i \in 1..n : u[i] = u[i - 1] + w[i]}
           S == {n \in Nat : n <= N => Sums(n) # {}}
<1>1. 0 \in S
  <2> DEFINE u == [i \in 0..0 |-> 0]
  <2>1. u \in Sums(0)
    OBVIOUS
  <2> QED
    BY <2>1
<1>2. ASSUME NEW n \in Nat, n \in S PROVE n + 1 \in S
  <2> SUFFICES ASSUME n + 1 <= N PROVE Sums(n + 1) # {}
    <3> HIDE DEF Sums
    <3> QED
      OBVIOUS
  <2>1. n <= N
    OBVIOUS
  <2>2. PICK u \in Sums(n) : TRUE
    BY <1>2, <2>1
  <2> DEFINE t == [i \in 0..(n + 1) |-> IF i = n + 1 THEN u[n] + w[n + 1] ELSE u[i]]
  <2>3. u \in [0..n -> Nat] /\ u[0] = 0 /\ \A i \in 1..n : u[i] = u[i - 1] + w[i]
    BY <2>2
  <2>4. n + 1 \in 1..N /\ n \in 0..n /\ w[n + 1] \in Nat
    BY <2>1
  <2>5. t \in [0..(n + 1) -> Nat] /\ t[0] = 0
    BY <2>3, <2>4
  <2>6. ASSUME NEW i \in 1..(n + 1) PROVE t[i] = t[i - 1] + w[i]
    <3>1. CASE i = n + 1
      BY <3>1
    <3>2. CASE i # n + 1
      <4>1. i \in 1..n /\ i - 1 # n + 1 /\ i - 1 \in 0..(n + 1) /\ i \in 0..(n + 1)
        BY <3>2
      <4> QED
        BY <2>3, <3>2, <4>1
    <3> QED
      BY <3>1, <3>2
  <2>7. t \in Sums(n + 1)
    <3> HIDE DEF t
    <3> QED
      BY <2>5, <2>6
  <2> QED
    BY <2>7
<1>3. N \in S
  <2> HIDE DEF S
  <2> QED
    BY <1>1, <1>2, Induction
<1>4. Sums(N) # {}
  <2> HIDE DEF Sums
  <2>1. N <= N
    OBVIOUS
  <2> QED
    BY <1>3, <2>1
<1> QED
  BY <1>4

(* The numbers of values before each filter add up, and do not decrease.   *)
LEMMA UpToFacts ==
  ASSUME NEW l \in Lists
  PROVE  /\ UpTo(l) \in [0..Len(l) -> Nat] /\ UpTo(l)[0] = 0
         /\ \A i \in 1..Len(l) : UpTo(l)[i] = UpTo(l)[i - 1] + Len(l[i].values)
         /\ \A i, j \in 0..Len(l) : i <= j => UpTo(l)[i] <= UpTo(l)[j]
<1> DEFINE N == Len(l)
           w == [i \in 1..N |-> Len(l[i].values)]
           u == UpTo(l)
<1>1. N \in Nat /\ w \in [1..N -> Nat]
  <2>1. \A i \in 1..N : l[i].values \in Seq(Value)
    BY Elements, FilterFields
  <2> QED
    BY <2>1, Elements
<1>2. PICK t \in [0..N -> Nat] : t[0] = 0 /\ \A i \in 1..N : t[i] = t[i - 1] + w[i]
  <2> HIDE DEF N, w
  <2> QED
    BY <1>1, RunningSum
<1>3. t = [i \in 0..N |-> IF i = 0 THEN 0 ELSE t[i - 1] + Len(l[i].values)]
  <2>1. \A i \in 0..N : i # 0 => i \in 1..N
    BY <1>1
  <2>2. \A i \in 1..N : w[i] = Len(l[i].values)
    OBVIOUS
  <2> HIDE DEF N, w
  <2> QED
    BY <1>2, <2>1, <2>2
<1>4. u = [i \in 0..N |-> IF i = 0 THEN 0 ELSE u[i - 1] + Len(l[i].values)]
  BY <1>3 DEF UpTo
<1>5. u[0] = 0 /\ \A i \in 1..N : u[i] = u[i - 1] + Len(l[i].values)
  <2>1. 0 \in 0..N /\ \A i \in 1..N : i # 0 /\ i \in 0..N
    BY <1>1
  <2> HIDE DEF u, N
  <2> QED
    BY <1>4, <2>1
<1>6. \A i \in 1..N : Len(l[i].values) \in Nat
  BY <1>1
<1> HIDE DEF u, w, N
<1>7. \A n \in Nat : n \in {k \in Nat : k <= N => u[k] \in Nat}
  <2> DEFINE S == {k \in Nat : k <= N => u[k] \in Nat}
  <2>1. 0 \in S
    BY <1>5
  <2>2. ASSUME NEW k \in Nat, k \in S PROVE k + 1 \in S
    <3> SUFFICES ASSUME k + 1 <= N PROVE u[k + 1] \in Nat
      OBVIOUS
    <3>1. k + 1 \in 1..N /\ (k + 1) - 1 = k /\ k <= N
      BY <1>1
    <3>2. u[k + 1] = u[k] + Len(l[k + 1].values) /\ Len(l[k + 1].values) \in Nat
      BY <1>5, <1>6, <3>1
    <3> QED
      BY <2>2, <3>1, <3>2
  <2> HIDE DEF S
  <2>3. \A n \in Nat : n \in S
    BY <2>1, <2>2, Induction
  <2> QED
    BY <2>3 DEF S
<1>8. u \in [0..N -> Nat]
  <2>1. \A i \in 0..N : u[i] \in Nat
    BY <1>1, <1>7
  <2>2. u = [i \in 0..N |-> u[i]]
    BY <1>4
  <2> QED
    BY <2>1, <2>2
<1>9. ASSUME NEW i \in 0..N PROVE \A n \in Nat : n \in {k \in Nat : i + k <= N => u[i] <= u[i + k]}
  <2> DEFINE S == {k \in Nat : i + k <= N => u[i] <= u[i + k]}
  <2>0. u[i] \in Nat /\ i \in Nat
    BY <1>8
  <2>1. 0 \in S
    BY <2>0
  <2>2. ASSUME NEW k \in Nat, k \in S PROVE k + 1 \in S
    <3> SUFFICES ASSUME i + (k + 1) <= N PROVE u[i] <= u[i + (k + 1)]
      OBVIOUS
    <3>1. i + (k + 1) \in 1..N /\ (i + (k + 1)) - 1 = i + k /\ i + k <= N /\ i + k \in 0..N
      BY <1>1, <2>0
    <3>2. u[i + (k + 1)] = u[i + k] + Len(l[i + (k + 1)].values) /\ Len(l[i + (k + 1)].values) \in Nat
      BY <1>5, <1>6, <3>1
    <3>3. u[i + k] \in Nat /\ u[i] <= u[i + k]
      BY <1>8, <2>2, <3>1
    <3> QED
      BY <2>0, <3>2, <3>3
  <2> HIDE DEF S
  <2>3. \A n \in Nat : n \in S
    BY <2>1, <2>2, Induction
  <2> QED
    BY <2>3 DEF S
<1>10. ASSUME NEW i \in 0..N, NEW j \in 0..N, i <= j PROVE u[i] <= u[j]
  <2>1. j - i \in Nat /\ i + (j - i) = j /\ j <= N
    BY <1>1, <1>10
  <2>2. j - i \in {k \in Nat : i + k <= N => u[i] <= u[i + k]}
    BY <1>9, <2>1
  <2> QED
    BY <2>1, <2>2
<1> QED
  BY <1>5, <1>8, <1>10 DEF u, N

Numbered(l, i) == [k \in DOMAIN l[i].values |-> [v |-> l[i].values[k].v, obj |-> UpTo(l)[i - 1] + k]]
Read(l) == [i \in DOMAIN l |-> [l[i] EXCEPT !.values = Numbered(l, i)]]

(* The values that are read are numbered, each with a number of its own.   *)
LEMMA NumberFacts ==
  ASSUME NEW l \in Lists, NEW i \in DOMAIN l
  PROVE  /\ UpTo(l)[i - 1] \in Nat /\ UpTo(l)[i] \in Nat /\ UpTo(l)[Len(l)] \in Nat
         /\ UpTo(l)[i] <= UpTo(l)[Len(l)] /\ Len(l[i].values) \in Nat
         /\ DOMAIN l[i].values = 1..Len(l[i].values)
         /\ \A k \in DOMAIN l[i].values : UpTo(l)[i - 1] < UpTo(l)[i - 1] + k /\ UpTo(l)[i - 1] + k <= UpTo(l)[i]
         /\ \A j \in DOMAIN l : i < j => UpTo(l)[i] <= UpTo(l)[j - 1]
<1> DEFINE N == Len(l)
           u == UpTo(l)
           n == Len(l[i].values)
<1>1. N \in Nat /\ i \in 1..N /\ DOMAIN l = 1..N
  BY Elements
<1>2. n \in Nat /\ DOMAIN l[i].values = 1..n
  BY Elements, FilterFields
<1>3. u \in [0..N -> Nat] /\ u[i] = u[i - 1] + n /\ \A a, b \in 0..N : a <= b => u[a] <= u[b]
  BY <1>1, UpToFacts
<1> HIDE DEF u, n, N
<1>4. i - 1 \in 0..N /\ i \in 0..N /\ N \in 0..N /\ i <= N
  BY <1>1
<1>5. u[i - 1] \in Nat /\ u[i] \in Nat /\ u[N] \in Nat /\ u[i] <= u[N]
  BY <1>3, <1>4
<1>6. \A k \in 1..n : u[i - 1] < u[i - 1] + k /\ u[i - 1] + k <= u[i]
  BY <1>2, <1>3, <1>5
<1>7. ASSUME NEW j \in 1..N, i < j PROVE u[i] <= u[j - 1]
  <2>1. i <= j - 1 /\ j - 1 \in 0..N
    BY <1>1, <1>7
  <2> QED
    BY <1>3, <1>4, <2>1
<1>8. \A j \in DOMAIN l : i < j => u[i] <= u[j - 1]
  BY <1>1, <1>7
<1>9. \A k \in DOMAIN l[i].values : u[i - 1] < u[i - 1] + k /\ u[i - 1] + k <= u[i]
  BY <1>2, <1>6
<1> QED
  BY <1>2, <1>5, <1>8, <1>9 DEF u, n, N

(* No two values of a list are read as the same object.                    *)
LEMMA NumbersDiffer ==
  ASSUME NEW l \in Lists, NEW i \in DOMAIN l, NEW j \in DOMAIN l,
         NEW k \in DOMAIN l[i].values, NEW m \in DOMAIN l[j].values,
         UpTo(l)[i - 1] + k = UpTo(l)[j - 1] + m
  PROVE  i = j /\ k = m
<1>1. i \in Nat /\ j \in Nat /\ k \in Nat /\ m \in Nat
  <2>1. DOMAIN l = 1..Len(l)
    BY Elements
  <2>2. DOMAIN l[i].values = 1..Len(l[i].values) /\ DOMAIN l[j].values = 1..Len(l[j].values)
    BY NumberFacts
  <2>3. Len(l) \in Nat /\ Len(l[i].values) \in Nat /\ Len(l[j].values) \in Nat
    BY Elements, NumberFacts
  <2> HIDE DEF Lists
  <2> QED
    BY <2>1, <2>2, <2>3
<1>2. ~ (i < j)
  <2> SUFFICES ASSUME i < j PROVE FALSE
    OBVIOUS
  <2>1. UpTo(l)[i - 1] + k <= UpTo(l)[i] /\ UpTo(l)[i] <= UpTo(l)[j - 1] /\ UpTo(l)[j - 1] < UpTo(l)[j - 1] + m
    BY NumberFacts
  <2>2. UpTo(l)[i - 1] \in Nat /\ UpTo(l)[i] \in Nat /\ UpTo(l)[j - 1] \in Nat
    BY NumberFacts
  <2> QED
    BY ONLY <1>1, <2>1, <2>2, UpTo(l)[i - 1] + k = UpTo(l)[j - 1] + m
<1>3. ~ (j < i)
  <2> SUFFICES ASSUME j < i PROVE FALSE
    OBVIOUS
  <2>1. UpTo(l)[j - 1] + m <= UpTo(l)[j] /\ UpTo(l)[j] <= UpTo(l)[i - 1] /\ UpTo(l)[i - 1] < UpTo(l)[i - 1] + k
    BY NumberFacts
  <2>2. UpTo(l)[i - 1] \in Nat /\ UpTo(l)[j] \in Nat /\ UpTo(l)[j - 1] \in Nat
    BY NumberFacts
  <2> QED
    BY ONLY <1>1, <2>1, <2>2, UpTo(l)[i - 1] + k = UpTo(l)[j - 1] + m
<1>4. i = j
  BY <1>1, <1>2, <1>3
<1>5. UpTo(l)[i - 1] \in Nat
  BY NumberFacts
<1> QED
  BY <1>1, <1>4, <1>5

(* The list that is read has the filters and the values of the one         *)
(* written.                                                                *)
LEMMA ReadFacts ==
  ASSUME NEW l \in Lists, UpTo(l)[Len(l)] <= MaxAdds
  PROVE  /\ Read(l) \in Lists /\ Len(Read(l)) = Len(l) /\ DOMAIN Read(l) = DOMAIN l
         /\ \A i \in DOMAIN l :
              /\ Read(l)[i].def = l[i].def /\ Read(l)[i].not = l[i].not
              /\ ToSet(Read(l)[i].values) = {[v |-> l[i].values[k].v, obj |-> UpTo(l)[i - 1] + k] : k \in DOMAIN l[i].values}
<1>1. /\ Len(l) \in Nat /\ DOMAIN l = 1..Len(l)
      /\ \A i \in DOMAIN l : l[i] \in PageFilter
  BY Elements
<1>2. ASSUME NEW i \in DOMAIN l
      PROVE  /\ Numbered(l, i) \in Seq(Value) /\ Numbered(l, i) # <<>>
             /\ ToSet(Numbered(l, i)) = {[v |-> l[i].values[k].v, obj |-> UpTo(l)[i - 1] + k] : k \in DOMAIN l[i].values}
  <2> DEFINE vs == l[i].values
             b == UpTo(l)[i - 1]
             n == Len(vs)
  <2>1. vs \in Seq(Value) /\ vs # <<>> /\ n \in Nat /\ DOMAIN vs = 1..n /\ \A k \in 1..n : vs[k] \in Value
    BY <1>1, FilterFields
  <2>2. \A k \in 1..n : b + k \in 1..MaxAdds
    <3>1. b \in Nat /\ UpTo(l)[i] <= UpTo(l)[Len(l)] /\ UpTo(l)[i] \in Nat /\ UpTo(l)[Len(l)] \in Nat
      BY NumberFacts
    <3>2. \A k \in 1..n : b < b + k /\ b + k <= UpTo(l)[i]
      BY <2>1, NumberFacts
    <3>3. MaxAdds \in Nat
      BY FilterBounds
    <3> HIDE DEF b, n, vs
    <3> QED
      BY <2>1, <3>1, <3>2, <3>3, SMTT(30)
  <2>3. Numbered(l, i) = [k \in 1..n |-> [v |-> vs[k].v, obj |-> b + k]]
    BY <2>1 DEF Numbered
  <2> HIDE DEF b, n, vs
  <2>4. \A k \in 1..n : [v |-> vs[k].v, obj |-> b + k] \in Value
    BY <2>1, <2>2 DEF Value
  <2>5. Numbered(l, i) \in Seq(Value)
    BY <2>1, <2>3, <2>4
  <2>6. DOMAIN Numbered(l, i) = 1..n
    BY <2>3
  <2>7. n # 0
    BY <2>1 DEF n
  <2>8. Numbered(l, i) # <<>>
    <3>1. 1 \in 1..n
      BY <2>1, <2>7
    <3>2. DOMAIN (<<>>) = {}
      OBVIOUS
    <3> QED
      BY <2>6, <3>1, <3>2
  <2>9. ToSet(Numbered(l, i)) = {[v |-> vs[k].v, obj |-> b + k] : k \in 1..n}
    BY <2>3 DEF ToSet
  <2> QED
    BY <2>1, <2>5, <2>8, <2>9 DEF b, vs
<1>3. \A i \in DOMAIN l : [l[i] EXCEPT !.values = Numbered(l, i)]
                            = [def |-> l[i].def, not |-> l[i].not, values |-> Numbered(l, i)]
  BY <1>1, <1>2, FilterFields
<1>4. \A i \in DOMAIN l : [def |-> l[i].def, not |-> l[i].not, values |-> Numbered(l, i)] \in PageFilter
  BY <1>1, <1>2, FilterFields, MakeFilter
<1> DEFINE r == Read(l)
<1>5. r = [i \in 1..Len(l) |-> r[i]] /\ DOMAIN r = 1..Len(l)
  BY <1>1 DEF Read
<1>6. \A i \in DOMAIN l : r[i] = [def |-> l[i].def, not |-> l[i].not, values |-> Numbered(l, i)]
  BY <1>3 DEF Read
<1> HIDE DEF r
<1>7. \A i \in DOMAIN l : r[i] \in PageFilter /\ r[i].def = l[i].def /\ r[i].not = l[i].not /\ r[i].values = Numbered(l, i)
  <2> SUFFICES ASSUME NEW i \in DOMAIN l
               PROVE  r[i] \in PageFilter /\ r[i].def = l[i].def /\ r[i].not = l[i].not /\ r[i].values = Numbered(l, i)
    OBVIOUS
  <2>1. r[i] = [def |-> l[i].def, not |-> l[i].not, values |-> Numbered(l, i)] /\ r[i] \in PageFilter
    BY <1>4, <1>6
  <2>2. r[i].def = l[i].def /\ r[i].not = l[i].not /\ r[i].values = Numbered(l, i)
    BY ONLY <2>1
  <2> QED
    BY <2>1, <2>2
<1>8. r \in Lists /\ Len(r) = Len(l)
  BY <1>1, <1>5, <1>7 DEF Lists
<1> QED
  BY <1>1, <1>2, <1>5, <1>7, <1>8 DEF r

-----------------------------------------------------------------------------
(* What is enabled of a list, when some objects are off.                   *)

OnIn(f, o) == [def |-> f.def, not |-> f.not, values |-> {x.v : x \in {y \in ToSet(f.values) : y.obj \notin o}}]
OnPlaces(l, o) == {i \in DOMAIN l : OnIn(l[i], o).values # {}}
AllOn(l, o) == [i \in DOMAIN l |-> OnIn(l[i], o)]
EnabledIn(l, o) == At(AllOn(l, o), OnPlaces(l, o))

(* What is enabled is a list of filters: those with a value that is on.    *)
LEMMA EnabledFacts ==
  ASSUME NEW l \in Lists, NEW o
  PROVE  /\ AllOn(l, o) \in Seq(Filter) /\ DOMAIN AllOn(l, o) = DOMAIN l
         /\ EnabledIn(l, o) \in Seq(Filter)
         /\ ToSet(EnabledIn(l, o)) = {OnIn(l[i], o) : i \in OnPlaces(l, o)}
         /\ EnabledIn(l, o) = <<>> <=> OnPlaces(l, o) = {}
<1> DEFINE A == AllOn(l, o)
           P == OnPlaces(l, o)
<1>1. Len(l) \in Nat /\ DOMAIN l = 1..Len(l) /\ \A i \in DOMAIN l : l[i] \in PageFilter
  BY Elements
<1>2. ASSUME NEW i \in DOMAIN l PROVE OnIn(l[i], o) \in Filter
  <2>1. l[i].def \in Def /\ l[i].not \in BOOLEAN /\ l[i].values \in Seq(Value)
    BY <1>1, FilterFields
  <2>2. ToSet(l[i].values) \subseteq Value
    BY <2>1, SetOfSeq
  <2>3. \A x \in Value : x.v \in Values
    BY DEF Value
  <2>4. {x.v : x \in {y \in ToSet(l[i].values) : y.obj \notin o}} \in SUBSET Values
    BY <2>2, <2>3
  <2> QED
    BY <2>1, <2>4 DEF OnIn, Filter
<1>3. A \in Seq(Filter) /\ DOMAIN A = DOMAIN l /\ P \in SUBSET (DOMAIN A) /\ \A i \in DOMAIN l : A[i] = OnIn(l[i], o)
  BY <1>1, <1>2 DEF AllOn, OnPlaces
<1> HIDE DEF A, P
<1>4. At(A, P) \in Seq(Filter) /\ ToSet(At(A, P)) = {A[i] : i \in P} /\ (At(A, P) = <<>> <=> P = {})
  BY <1>3, AtFacts
<1>5. {A[i] : i \in P} = {OnIn(l[i], o) : i \in P}
  BY <1>3
<1> QED
  BY <1>3, <1>4, <1>5 DEF EnabledIn, A, P

(* What is enabled and displayed, before and after a step.                 *)
LEMMA EnabledNow ==
  /\ Enabled = EnabledIn(list, off)
  /\ Enabled' = EnabledIn(list', off')
BY DEF Enabled, EnabledIn, AllOn, OnPlaces, On, OnIn

LEMMA DisplayedNow ==
  /\ list \in Lists => Displayed = Shown(EnabledIn(list, off), match)
  /\ list' \in Lists => Displayed' = Shown(EnabledIn(list', off'), match')
<1>1. ASSUME list \in Lists PROVE Displayed = Shown(EnabledIn(list, off), match)
  <2>1. Displayed = Selected(RecordsText(EnabledIn(list, off), match))
    BY EnabledNow DEF Displayed
  <2> QED
    BY <1>1, <2>1, EnabledFacts, RecordsShown
<1>2. ASSUME list' \in Lists PROVE Displayed' = Shown(EnabledIn(list', off'), match')
  <2>1. Displayed' = Selected(RecordsText(EnabledIn(list', off'), match'))
    <3>1. Displayed' = UNION {Selected(RecordsText(enabled, match')) : enabled \in {Enabled'}}
      BY DEF Displayed
    <3> QED
      BY <3>1, EnabledNow
  <2> QED
    BY <1>2, <2>1, EnabledFacts, RecordsShown
<1> QED
  BY <1>1, <1>2

(* What is enabled of a list that is swapped is swapped.                   *)
LEMMA EnabledSwapped ==
  ASSUME NEW l \in Lists, NEW o
  PROVE  EnabledIn(SwapFilters(l), o) = SwapFilters(EnabledIn(l, o))
<1> DEFINE A == AllOn(l, o)
           B == AllOn(SwapFilters(l), o)
           P == OnPlaces(l, o)
           C == Cardinality(P)
<1>1. \A i \in DOMAIN l : l[i] \in PageFilter
  BY Elements
<1>2. DOMAIN SwapFilters(l) = DOMAIN l /\ \A i \in DOMAIN l : SwapFilters(l)[i] = Swapped(l[i])
  BY DEF SwapFilters, Swapped
<1>3. ASSUME NEW i \in DOMAIN l
      PROVE  /\ OnIn(SwapFilters(l)[i], o) = Swapped(OnIn(l[i], o))
             /\ OnIn(SwapFilters(l)[i], o).values = OnIn(l[i], o).values
  <2>1. PICK d \in Def, n \in BOOLEAN, vs \in Seq(Value) : l[i] = [def |-> d, not |-> n, values |-> vs]
    BY <1>1 DEF PageFilter
  <2>2. Swapped(l[i]) = [def |-> SwapDef(d), not |-> n, values |-> vs]
    BY <2>1 DEF Swapped
  <2>3. OnIn(l[i], o) = [def |-> d, not |-> n, values |-> {x.v : x \in {y \in ToSet(vs) : y.obj \notin o}}]
    BY <2>1 DEF OnIn
  <2>4. OnIn(Swapped(l[i]), o) = [def |-> SwapDef(d), not |-> n, values |-> {x.v : x \in {y \in ToSet(vs) : y.obj \notin o}}]
    BY <2>2 DEF OnIn
  <2>5. Swapped(OnIn(l[i], o)) = [def |-> SwapDef(d), not |-> n, values |-> {x.v : x \in {y \in ToSet(vs) : y.obj \notin o}}]
    <3> DEFINE on == {x.v : x \in {y \in ToSet(vs) : y.obj \notin o}}
    <3>1. OnIn(l[i], o) = [def |-> d, not |-> n, values |-> on]
      BY <2>3
    <3> HIDE DEF on
    <3>2. Swapped(OnIn(l[i], o)) = [def |-> SwapDef(d), not |-> n, values |-> on]
      BY <3>1 DEF Swapped
    <3> QED
      BY <3>2 DEF on
  <2>6. OnIn(Swapped(l[i]), o).values = OnIn(l[i], o).values
    BY <2>3, <2>4
  <2> QED
    BY <1>2, <2>4, <2>5, <2>6
<1>4. OnPlaces(SwapFilters(l), o) = P
  BY <1>2, <1>3 DEF OnPlaces
<1>5. DOMAIN B = DOMAIN l /\ DOMAIN A = DOMAIN l /\ \A i \in DOMAIN l : B[i] = Swapped(A[i])
  BY <1>2, <1>3 DEF AllOn
<1>6. A \in Seq(Filter) /\ P \in SUBSET (DOMAIN A)
  BY EnabledFacts DEF OnPlaces
<1> HIDE DEF A, B, P
<1>7. DOMAIN At(A, P) = 1..C /\ \A k \in 1..C : Nth(P, k) \in P /\ At(A, P)[k] = A[Nth(P, k)]
  BY <1>6, AtFacts
<1>8. At(B, P) = [k \in 1..C |-> B[Nth(P, k)]]
  BY DEF At, Nth, Rank
<1>9. SwapFilters(At(A, P)) = [k \in 1..C |-> Swapped(A[Nth(P, k)])]
  BY <1>7 DEF SwapFilters, Swapped
<1>10. \A k \in 1..C : B[Nth(P, k)] = Swapped(A[Nth(P, k)])
  BY <1>5, <1>6, <1>7
<1>11. At(B, P) = SwapFilters(At(A, P))
  BY <1>8, <1>9, <1>10
<1> QED
  BY <1>4, <1>11 DEF EnabledIn, A, B, P

-----------------------------------------------------------------------------
(* The invariant: what TypeOK says, the list being a sequence of filters   *)
(* that each have a value.                                                 *)

Ways == {"any", "all", "bidirectional"}

IInv ==
  /\ list \in Lists /\ Len(list) <= MaxFilters
  /\ match \in Ways
  /\ off \subseteq Objs(list) /\ adds \in 0..MaxAdds

(* The invariant says what TypeOK says.                                    *)
LEMMA InvariantTypes ==
  ASSUME IInv
  PROVE  TypeOK
<1>1. \A i \in DOMAIN list : list[i] \in PageFilter
  BY Elements DEF IInv
<1>2. \A i \in DOMAIN list : /\ list[i].def \in Def /\ list[i].not \in BOOLEAN
                             /\ list[i].values \in Seq(Value) /\ list[i].values # <<>>
  BY <1>1, FilterFields
<1>3. \A i \in DOMAIN list : ToSet(list[i].values) \subseteq Value
  BY <1>2, SetOfSeq
<1> QED
  BY <1>2, <1>3 DEF IInv, TypeOK, Ways

(* The list after each edit.                                               *)
LEMMA KeyRemoved ==
  ASSUME NEW l \in Lists, NEW i \in DOMAIN l
  PROVE  WithoutKey(l, i) \in Lists
BY Placed DEF WithoutKey

(* A value leaves a filter that has others.                                *)
LEMMA ValueTaken ==
  ASSUME NEW l \in Lists, NEW i \in DOMAIN l, NEW v
  PROVE  LET f == WithoutValue(l[i], v)
         IN  f.values # <<>> => [l EXCEPT ![i] = f] \in Lists
<1> DEFINE f == WithoutValue(l[i], v)
<1>1. f.values # <<>> => f \in PageFilter
  BY Elements, ValueRemoved
<1>2. [l EXCEPT ![i] = f] = With(l, i, f)
  BY DEF With
<1> HIDE DEF f
<1>3. f.values # <<>> => With(l, i, f) \in Lists
  BY <1>1, Replaced
<1> QED
  BY <1>2, <1>3 DEF f

(* An element leaves a filter, and the filters without values the list.    *)
LEMMA ElementTaken ==
  ASSUME NEW l \in Lists, NEW i \in DOMAIN l, NEW v
  PROVE  LET e == [l EXCEPT ![i] = WithoutValue(@, v)]
         IN  At(e, {j \in DOMAIN l : e[j].values # <<>>}) \in Lists
<1> DEFINE f == WithoutValue(l[i], v)
           e == [l EXCEPT ![i] = WithoutValue(@, v)]
           P == {j \in DOMAIN l : e[j].values # <<>>}
           k == [j \in DOMAIN l |-> IF e[j].values # <<>> THEN e[j] ELSE l[j]]
<1>1. f.values # <<>> => f \in PageFilter
  BY Elements, ValueRemoved
<1>2. Len(l) \in Nat /\ DOMAIN l = 1..Len(l) /\ \A j \in DOMAIN l : l[j] \in PageFilter
  BY Elements
<1>3. \A j \in DOMAIN l : e[j] = IF j = i THEN f ELSE l[j]
  BY <1>2
<1> HIDE DEF f, e
<1>4. \A j \in DOMAIN l : e[j].values # <<>> => e[j] \in PageFilter
  BY <1>1, <1>2, <1>3
<1>5. \A j \in DOMAIN l : k[j] \in PageFilter
  BY <1>2, <1>4
<1>6. k \in Lists /\ DOMAIN k = DOMAIN l
  <2>1. k = [j \in 1..Len(l) |-> k[j]] /\ DOMAIN k = DOMAIN l
    BY <1>2
  <2> HIDE DEF k
  <2> QED
    BY <1>2, <1>5, <2>1 DEF Lists
<1>7. P \in SUBSET (DOMAIN k) /\ \A j \in P : k[j] = e[j]
  OBVIOUS
<1> HIDE DEF k, P
<1>8. At(k, P) \in Lists
  BY <1>6, <1>7, Placed
<1>9. At(k, P) = At(e, P)
  <2>1. \A n \in 1..Cardinality(P) : Nth(P, n) \in P
    BY <1>6, <1>7, AtFacts DEF Lists
  <2>2. \A n \in 1..Cardinality(P) : k[Nth(P, n)] = e[Nth(P, n)]
    BY <1>7, <2>1
  <2>3. At(k, P) = [n \in 1..Cardinality(P) |-> k[Nth(P, n)]] /\ At(e, P) = [n \in 1..Cardinality(P) |-> e[Nth(P, n)]]
    BY DEF At, Nth, Rank
  <2> QED
    BY <2>2, <2>3
<1> QED
  BY <1>8, <1>9 DEF e, P

(* The values of a filter, and the directions that it may have.            *)
LEMMA ValueTypes ==
  ASSUME IInv, NEW i \in DOMAIN list, NEW x \in ToSet(list[i].values)
  PROVE  x \in Value /\ list[i] \in PageFilter /\ list[i].def \in Def /\ list[i].not \in BOOLEAN
<1>1. list[i] \in PageFilter
  BY Elements DEF IInv
<1>2. list[i].values \in Seq(Value) /\ list[i].def \in Def /\ list[i].not \in BOOLEAN
  BY <1>1, FilterFields
<1> QED
  BY <1>1, <1>2, SetOfSeq

LEMMA SideTypes ==
  ASSUME NEW d \in Def, d.side \in Ends \cup {"either"}, NEW side \in Ends \cup {"either"}
  PROVE  [d EXCEPT !.side = side] \in Def /\ [d EXCEPT !.side = side] = [side |-> side, name |-> d.name]
BY DEF Def, Ends

(* A value is moved.                                                       *)
LEMMA MovedTypes ==
  ASSUME IInv, NEW i \in DOMAIN list, NEW x \in ToSet(list[i].values), NEW d \in Def
  PROVE  Moved(list[i], x, d) \in Lists
<1> DEFINE j == WithId(list, list[i].def)
<1>1. list \in Lists
  BY DEF IInv
<1>2. j # 0 => j \in DOMAIN list /\ list[j].def = list[i].def
  BY <1>1, IdFacts
<1>3. j # 0
  BY <1>1, IdFacts
<1>4. j \in DOMAIN list /\ x \in Value /\ list[j].not \in BOOLEAN
  BY <1>1, <1>2, <1>3, ValueTypes, Elements, FilterFields
<1> HIDE DEF j
<1>5. Taken(list, j, x.v) \in Lists
  BY <1>1, <1>4, TakenFacts
<1>6. Put(Taken(list, j, x.v), d, list[j].not, x) \in Lists
  BY <1>4, <1>5, PutFacts
<1> QED
  BY <1>6 DEF Moved, j

(* The directions of a list are changed.                                   *)
LEMMA SetEndpointTypes ==
  ASSUME NEW l \in Lists, NEW end \in Ends
  PROVE  SetEndpoint(l, end) \in Lists
<1> DEFINE D == [i \in DOMAIN l |-> EndpointDef(l[i].def, end)]
<1>1. D \in [DOMAIN l -> Def] /\ SetEndpoint(l, end) = Redefined(l, D)
  BY EndRedefines
<1> HIDE DEF D
<1>2. Redefined(l, D) \in Lists
  BY <1>1, RedefinedFacts
<1> QED
  BY <1>1, <1>2

LEMMA SwapTypes ==
  ASSUME NEW l \in Lists
  PROVE  SwapFilters(l) \in Lists /\ Objs(SwapFilters(l)) = Objs(l) /\ (SwapFilters(l) = <<>> <=> l = <<>>)
<1>1. SwapFilters(l) \in Lists /\ Objs(SwapFilters(l)) = Objs(l) /\ DOMAIN SwapFilters(l) = DOMAIN l
  BY SwapRedefines, RedefinedFacts
<1>2. DOMAIN l = 1..Len(l) /\ DOMAIN SwapFilters(l) = 1..Len(SwapFilters(l)) /\ Len(l) \in Nat /\ Len(SwapFilters(l)) \in Nat
  BY <1>1, Elements
<1>3. Len(l) = Len(SwapFilters(l))
  BY <1>1, <1>2
<1> QED
  BY <1>1, <1>3 DEF Lists

(* An edit that keeps the objects of values, and one that creates a value. *)
LEMMA KeptInvariant ==
  ASSUME IInv, NEW l \in Lists, NEW m \in Ways, Edit(l, m), Keep
  PROVE  IInv'
<1>1. list' = l /\ match' \in Ways /\ Len(list') <= MaxFilters
  BY DEF Edit, Ways
<1>2. adds' = adds /\ off' \subseteq Objs(list')
  BY DEF Keep
<1> QED
  BY <1>1, <1>2 DEF IInv

LEMMA CreatedInvariant ==
  ASSUME IInv, NEW l \in Lists, Objs(list) \subseteq Objs(l), NEW m \in Ways, Create, UNCHANGED off, Edit(l, m)
  PROVE  IInv'
<1>1. list' = l /\ match' \in Ways /\ Len(list') <= MaxFilters
  BY DEF Edit, Ways
<1>2. off' \subseteq Objs(list') /\ adds' \in 0..MaxAdds
  <2>1. MaxAdds \in Nat /\ adds < MaxAdds /\ adds' = adds + 1 /\ adds \in 0..MaxAdds
    BY FilterBounds DEF Create, IInv
  <2> QED
    BY <1>1, <2>1 DEF IInv
<1> QED
  BY <1>1, <1>2 DEF IInv

(* A value is created, in a filter for an element of the topology.         *)
LEMMA CreatedValue ==
  ASSUME IInv, Create, NEW v \in Values
  PROVE  Created(v) \in Value
<1>1. MaxAdds \in Nat /\ adds \in 0..MaxAdds /\ adds < MaxAdds
  BY FilterBounds DEF IInv, Create
<1>2. adds + 1 \in 1..MaxAdds
  BY <1>1
<1> QED
  BY <1>2 DEF Created, Value

LEMMA ElementAdded ==
  ASSUME IInv, Create, NEW d \in Def, NEW v \in Values
  PROVE  WithElement(d, v) \in Lists /\ Objs(list) \subseteq Objs(WithElement(d, v))
<1> DEFINE i == WithKey(list, d, FALSE)
<1>1. list \in Lists /\ Created(v) \in Value /\ FALSE \in BOOLEAN
  BY CreatedValue DEF IInv
<1>2. i # 0 => i \in DOMAIN list
  BY <1>1, KeyFacts
<1> HIDE DEF i
<1>3. CASE i = 0
  <2>1. WithElement(d, v) = Started(list, d, FALSE, Created(v))
    BY <1>3 DEF WithElement, i, Started
  <2> QED
    BY <1>1, <2>1, Grown
<1>4. CASE i # 0
  <2>1. WithElement(d, v) = Joined(list, i, Created(v))
    BY <1>4 DEF WithElement, i, Joined
  <2> QED
    BY <1>1, <1>2, <1>4, <2>1, Grown
<1> QED
  BY <1>3, <1>4

-----------------------------------------------------------------------------
(* The invariant is inductive: a lemma for each action.                    *)

(* A value is added from the search field.                                 *)
LEMMA AddFilterStep ==
  ASSUME IInv, AddFilter
  PROVE  IInv'
<1>1. PICK d \in Def, not \in BOOLEAN, v \in Values, end \in Ends :
        LET def == IF match = "bidirectional" THEN EndpointDef(d, end) ELSE d
            i == WithKey(list, def, not)
        IN  /\ i # 0 => v \notin Said(list[i])
            /\ Create /\ UNCHANGED off
            /\ Edit(IF i = 0 THEN Append(list, [def |-> def, not |-> not, values |-> <<Created(v)>>])
                    ELSE [list EXCEPT ![i].values = Append(@, Created(v))], match)
  BY DEF AddFilter
<1> DEFINE def == IF match = "bidirectional" THEN EndpointDef(d, end) ELSE d
           i == WithKey(list, def, not)
           l == IF i = 0 THEN Started(list, def, not, Created(v)) ELSE Joined(list, i, Created(v))
<1>2. Create /\ UNCHANGED off /\ Edit(l, match)
  BY <1>1 DEF Started, Joined
<1>3. list \in Lists /\ match \in Ways /\ def \in Def /\ Created(v) \in Value
  BY <1>2, CreatedValue, DefTypes DEF IInv
<1> HIDE DEF def
<1>4. i # 0 => i \in DOMAIN list
  BY <1>3, KeyFacts
<1> HIDE DEF i
<1>5. l \in Lists /\ Objs(list) \subseteq Objs(l)
  <2>1. CASE i = 0
    BY <1>3, <2>1, Grown
  <2>2. CASE i # 0
    BY <1>3, <1>4, <2>2, Grown
  <2> QED
    BY <2>1, <2>2
<1> HIDE DEF l
<1> QED
  BY <1>2, <1>3, <1>5, CreatedInvariant

(* The filter icon of an element.                                          *)
LEMMA FilterElementStep ==
  ASSUME IInv, FilterElement
  PROVE  IInv'
<1>1. PICK def \in Def, v \in Values :
        /\ def.side # "either"
        /\ LET i == WithKey(list, def, FALSE)
               emptied == [list EXCEPT ![i] = WithoutValue(@, v)]
           IN  IF i # 0 /\ v \in Said(list[i])
                 THEN Edit(At(emptied, {j \in DOMAIN list : emptied[j].values # <<>>}), match) /\ Keep
                 ELSE Create /\ UNCHANGED off /\ Edit(WithElement(def, v), match)
  BY DEF FilterElement
<1> DEFINE i == WithKey(list, def, FALSE)
           emptied == [list EXCEPT ![i] = WithoutValue(@, v)]
           l == At(emptied, {j \in DOMAIN list : emptied[j].values # <<>>})
<1>2. list \in Lists /\ match \in Ways
  BY DEF IInv
<1>3. i # 0 => i \in DOMAIN list
  BY <1>2, KeyFacts
<1>4. CASE i # 0 /\ v \in Said(list[i])
  <2>1. Edit(l, match) /\ Keep
    BY <1>1, <1>4
  <2> HIDE DEF i
  <2>2. l \in Lists
    BY <1>2, <1>3, <1>4, ElementTaken
  <2> HIDE DEF l
  <2> QED
    BY <1>2, <2>1, <2>2, KeptInvariant
<1>5. CASE ~ (i # 0 /\ v \in Said(list[i]))
  <2>1. Create /\ UNCHANGED off /\ Edit(WithElement(def, v), match)
    BY <1>1, <1>5
  <2>2. WithElement(def, v) \in Lists /\ Objs(list) \subseteq Objs(WithElement(def, v))
    BY <2>1, ElementAdded
  <2> QED
    BY <1>2, <2>1, <2>2, CreatedInvariant
<1> QED
  BY <1>4, <1>5

(* The step into an element.                                               *)
LEMMA StepIntoStep ==
  ASSUME IInv, StepInto
  PROVE  IInv'
<1>1. PICK name \in Names, v \in Values :
        Create /\ UNCHANGED off /\ Edit(WithElement([side |-> "src", name |-> name], v), "bidirectional")
  BY DEF StepInto
<1> DEFINE d == [side |-> "src", name |-> name]
<1>2. d \in Def
  BY DEF Def, Ends
<1> HIDE DEF d
<1>3. WithElement(d, v) \in Lists /\ Objs(list) \subseteq Objs(WithElement(d, v))
  BY <1>1, <1>2, ElementAdded
<1>4. Edit(WithElement(d, v), "bidirectional")
  BY <1>1 DEF d
<1> QED
  BY <1>1, <1>3, <1>4, CreatedInvariant DEF Ways

(* "As source" and "As destination".                                       *)
LEMMA MoveValueStep ==
  ASSUME IInv, NEW i \in DOMAIN list, NEW x \in ToSet(list[i].values), NEW end \in Ends,
         MoveValue(list[i], x, end)
  PROVE  IInv'
<1> DEFINE d == [list[i].def EXCEPT !.side = end]
<1>1. list[i].def \in Def /\ list[i].def.side \in Ends \cup {"either"}
  BY ValueTypes DEF MoveValue, Ends, Other
<1>2. d \in Def
  BY <1>1, SideTypes
<1>3. Edit(Moved(list[i], x, d), match) /\ Keep /\ match \in Ways
  BY DEF MoveValue, IInv
<1> HIDE DEF d
<1> QED
  BY <1>2, <1>3, MovedTypes, KeptInvariant

(* "Either".                                                               *)
LEMMA EitherValueStep ==
  ASSUME IInv, NEW i \in DOMAIN list, NEW x \in ToSet(list[i].values), EitherValue(list[i], x)
  PROVE  IInv'
<1> DEFINE d == [list[i].def EXCEPT !.side = "either"]
<1>1. list[i].def \in Def /\ list[i].def.side \in Ends \cup {"either"}
  BY ValueTypes DEF EitherValue
<1>2. d \in Def
  BY <1>1, SideTypes
<1>3. Edit(Moved(list[i], x, d), match) /\ Keep /\ match \in Ways
  BY DEF EitherValue, IInv
<1> HIDE DEF d
<1> QED
  BY <1>2, <1>3, MovedTypes, KeptInvariant

(* "Remove", of a value.                                                   *)
LEMMA RemoveValueStep ==
  ASSUME IInv, NEW i \in DOMAIN list, NEW x, RemoveValue(i, x)
  PROVE  IInv'
<1> DEFINE f == WithoutValue(list[i], x.v)
           l == IF f.values = <<>> THEN WithoutKey(list, i) ELSE [list EXCEPT ![i] = f]
<1>1. Edit(l, match) /\ Keep
  BY DEF RemoveValue
<1>2. list \in Lists /\ match \in Ways
  BY DEF IInv
<1>3. l \in Lists
  <2>1. WithoutKey(list, i) \in Lists
    BY <1>2, KeyRemoved
  <2>2. f.values # <<>> => [list EXCEPT ![i] = f] \in Lists
    BY <1>2, ValueTaken
  <2> HIDE DEF f
  <2> QED
    BY <2>1, <2>2
<1> HIDE DEF l
<1> QED
  BY <1>1, <1>2, <1>3, KeptInvariant

(* The dropdown between filters.                                           *)
LEMMA SetMatchStep ==
  ASSUME IInv, NEW m \in Ways, SetMatch(m)
  PROVE  IInv'
<1> DEFINE l == IF m = "bidirectional" THEN SetEndpoint(list, "src") ELSE list
<1>1. Edit(l, m) /\ Keep
  BY DEF SetMatch
<1>2. list \in Lists /\ "src" \in Ends
  BY DEF IInv, Ends
<1>3. l \in Lists
  BY <1>2, SetEndpointTypes
<1> HIDE DEF l
<1> QED
  BY <1>1, <1>3, KeptInvariant

(* The reload, by the definitions of this module.                          *)
LEMMA ReloadIsRead ==
  ASSUME Reload
  PROVE  /\ list # <<>> /\ UpTo(list)[Len(list)] <= MaxAdds
         /\ list' = Read(list)
         /\ adds' = Max({adds, UpTo(list)[Len(list)]})
         /\ off' = UNION {{x.obj : x \in {y \in ToSet(Read(list)[i].values) : y.v \in DisabledRecord(list[i])}} : i \in DOMAIN list}
         /\ UNCHANGED match
BY DEF Reload, Read, Numbered, UpTo

(* The page is loaded again.                                               *)
LEMMA ReloadStep ==
  ASSUME IInv, Reload
  PROVE  IInv'
<1> DEFINE total == UpTo(list)[Len(list)]
           r == Read(list)
<1>1. list \in Lists /\ Len(list) \in Nat /\ Len(list) <= MaxFilters /\ match \in Ways /\ adds \in 0..MaxAdds
  BY Elements DEF IInv
<1>2. total <= MaxAdds /\ list' = r /\ adds' = Max({adds, total}) /\ UNCHANGED match
  BY ReloadIsRead
<1>3. off' = UNION {{x.obj : x \in {y \in ToSet(r[i].values) : y.v \in DisabledRecord(list[i])}} : i \in DOMAIN list}
  BY ReloadIsRead
<1>4. r \in Lists /\ Len(r) = Len(list) /\ DOMAIN r = DOMAIN list
  BY <1>1, <1>2, ReadFacts
<1>5. total \in Nat
  BY <1>1, UpToFacts
<1> HIDE DEF total, r
<1>6. adds' \in 0..MaxAdds
  <2>1. adds \in Nat /\ adds <= MaxAdds /\ MaxAdds \in Nat
    BY <1>1, FilterBounds
  <2>2. Max({adds, total}) = IF adds >= total THEN adds ELSE total
    BY <1>5, <2>1 DEF Max
  <2> QED
    BY <1>2, <1>5, <2>1, <2>2
<1>7. off' \subseteq Objs(r)
  BY <1>3, <1>4 DEF Objs
<1> QED
  BY <1>1, <1>2, <1>4, <1>6, <1>7 DEF IInv

(* Values are disabled and enabled.                                        *)
LEMMA ToggleStep ==
  ASSUME IInv, NEW i \in DOMAIN list, ToggleFilter(list[i]) \/ \E x \in ToSet(list[i].values) : ToggleValue(x)
  PROVE  IInv'
<1>1. \A x \in ToSet(list[i].values) : x.obj \in Objs(list)
  BY DEF Objs
<1>2. off' \subseteq off \cup Objs(list) /\ UNCHANGED <<list, match, adds>>
  BY <1>1 DEF ToggleFilter, ToggleValue
<1> QED
  BY <1>2 DEF IInv

(* Every step keeps the invariant.                                         *)
LEMMA InvariantStep ==
  ASSUME IInv, [Next]_vars
  PROVE  IInv'
<1>1. CASE UNCHANGED vars
  BY <1>1 DEF IInv, vars
<1>2. CASE SwapAll
  <2>1. Edit(SwapFilters(list), match) /\ Keep /\ match \in Ways /\ list \in Lists
    BY <1>2 DEF SwapAll, IInv
  <2> QED
    BY <2>1, SwapTypes, KeptInvariant
<1>3. CASE Clear
  <2>1. Edit(<<>>, "all") /\ Keep
    BY <1>3 DEF Clear
  <2>2. <<>> \in Lists /\ "all" \in Ways
    BY DEF Lists, Ways
  <2> QED
    BY <2>1, <2>2, KeptInvariant
<1>4. ASSUME NEW i \in DOMAIN list, RemoveFilter(i) PROVE IInv'
  <2>1. Edit(WithoutKey(list, i), match) /\ Keep /\ match \in Ways /\ list \in Lists
    BY <1>4 DEF RemoveFilter, IInv
  <2> QED
    BY <2>1, KeyRemoved, KeptInvariant
<1> QED
  BY <1>1, <1>2, <1>3, <1>4, AddFilterStep, FilterElementStep, StepIntoStep, MoveValueStep, EitherValueStep,
     RemoveValueStep, SetMatchStep, ReloadStep, ToggleStep DEF Next, Ways

(* It holds of the empty list.                                             *)
LEMMA InvariantInit ==
  ASSUME Init
  PROVE  IInv
<1>1. list = <<>> /\ <<>> \in Lists /\ Len(<<>>) = 0
  BY DEF Init, Lists
<1> QED
  BY <1>1, FilterBounds DEF Init, IInv, Ways

(* The invariant holds in every behaviour of the page.                     *)
THEOREM ListKept == Spec => []IInv
BY InvariantInit, InvariantStep, PTL DEF Spec

-----------------------------------------------------------------------------
(* What is displayed, and counted, in a state.                             *)

(* The list is well-formed, and unless any filter will do, the graphs      *)
(* count each flow of the table once and no other: getMetrics subtracts    *)
(* exactly the overlap of the two halves that it adds.                     *)
THEOREM FiltersHold == Spec => []FilterInv
<1>1. IInv => FilterInv
  <2> SUFFICES ASSUME IInv PROVE FilterInv
    OBVIOUS
  <2>1. TypeOK
    BY InvariantTypes
  <2>2. list \in Lists
    BY DEF IInv
  <2>3. Displayed = Shown(Enabled, match) /\ Enabled \in Seq(Filter)
    BY <2>2, DisplayedNow, EnabledNow, EnabledFacts
  <2>4. match # "any" => Metrics(Enabled, match) = Once(Displayed)
    BY <2>3, MetricsShown
  <2>5. MetricsAgree
    BY <2>4 DEF MetricsAgree, Once
  <2> QED
    BY <2>1, <2>5 DEF FilterInv
<1> QED
  BY <1>1, ListKept, PTL

(* In both directions the mirror image of what is displayed is displayed,  *)
(* when no filter is on either end.                                        *)
THEOREM BothDisplayed == Spec => []BothDirections
<1>1. IInv => BothDirections
  <2> SUFFICES ASSUME IInv, match = "bidirectional", \A f \in ToSet(Enabled) : f.def.side # "either"
               PROVE  \A flow \in Displayed : Mirror(flow) \in Displayed
    BY DEF BothDirections
  <2>1. list \in Lists
    BY DEF IInv
  <2>2. Displayed = Shown(Enabled, "bidirectional") /\ Enabled \in Seq(Filter)
    BY <2>1, DisplayedNow, EnabledNow, EnabledFacts
  <2>3. ~HasEither(Enabled)
    BY <2>2, EitherInSet
  <2> QED
    BY <2>2, <2>3, BothShown
<1> QED
  BY <1>1, ListKept, PTL

(* SwapAll mirrors, and AddFilter narrows or extends, what is displayed.   *)
LEMMA SwapIsMirrored ==
  ASSUME IInv, SwapAll
  PROVE  Displayed' = {Mirror(flow) : flow \in Displayed}
<1> DEFINE k == SwapFilters(list)
<1>1. list \in Lists /\ match \in Ways /\ off \subseteq Objs(list)
  BY DEF IInv
<1>2. k \in Lists /\ Objs(k) = Objs(list) /\ (k = <<>> <=> list = <<>>)
  BY <1>1, SwapTypes
<1>3. match # "bidirectional" /\ list # <<>>
  BY DEF SwapAll
<1>4. list' = k /\ match' = match /\ off' = off
  <2>1. Edit(k, match) /\ Keep
    BY DEF SwapAll
  <2> HIDE DEF k
  <2> QED
    BY <1>1, <1>2, <1>3, <2>1 DEF Edit, Keep
<1>5. EnabledIn(k, off) = SwapFilters(EnabledIn(list, off))
  BY <1>1, EnabledSwapped
<1> HIDE DEF k
<1>6. Displayed = Shown(EnabledIn(list, off), match) /\ Displayed' = Shown(EnabledIn(k, off), match)
  BY <1>1, <1>2, <1>4, DisplayedNow
<1>7. EnabledIn(list, off) \in Seq(Filter)
  BY <1>1, EnabledFacts
<1> QED
  BY <1>3, <1>5, <1>6, <1>7, SwapShown

(* A list that is longer by a filter has what it had, and its new filter.  *)
LEMMA StartedElements ==
  ASSUME NEW l \in Lists, NEW o, NEW f \in PageFilter
  PROVE  ToSet(EnabledIn(l, o)) \subseteq ToSet(EnabledIn(Append(l, f), o))
<1> DEFINE k == Append(l, f)
<1>1. k \in Lists /\ DOMAIN l \subseteq DOMAIN k /\ \A i \in DOMAIN l : k[i] = l[i]
  BY Appended DEF Lists
<1> HIDE DEF k
<1>2. \A i \in OnPlaces(l, o) : i \in OnPlaces(k, o) /\ OnIn(k[i], o) = OnIn(l[i], o)
  BY <1>1 DEF OnPlaces
<1>3. /\ ToSet(EnabledIn(l, o)) = {OnIn(l[i], o) : i \in OnPlaces(l, o)}
      /\ ToSet(EnabledIn(k, o)) = {OnIn(k[i], o) : i \in OnPlaces(k, o)}
  BY <1>1, EnabledFacts
<1> QED
  BY <1>2, <1>3 DEF k

LEMMA NewFilterIsNarrower ==
  ASSUME IInv, AddFilter, Len(list') > Len(list)
  PROVE  IF match # "any" THEN Displayed' \subseteq Displayed
         ELSE Enabled # <<>> => Displayed \subseteq Displayed'
<1>1. PICK d \in Def, not \in BOOLEAN, v \in Values, end \in Ends :
        LET def == IF match = "bidirectional" THEN EndpointDef(d, end) ELSE d
            i == WithKey(list, def, not)
        IN  /\ i # 0 => v \notin Said(list[i])
            /\ Create /\ UNCHANGED off
            /\ Edit(IF i = 0 THEN Append(list, [def |-> def, not |-> not, values |-> <<Created(v)>>])
                    ELSE [list EXCEPT ![i].values = Append(@, Created(v))], match)
  BY DEF AddFilter
<1> DEFINE def == IF match = "bidirectional" THEN EndpointDef(d, end) ELSE d
           i == WithKey(list, def, not)
           f == [def |-> def, not |-> not, values |-> <<Created(v)>>]
           k == Append(list, f)
<1>2. Create /\ UNCHANGED off /\ Edit(IF i = 0 THEN k ELSE Joined(list, i, Created(v)), match)
  BY <1>1 DEF Joined
<1>3. list \in Lists /\ def \in Def /\ Created(v) \in Value /\ Len(list) \in Nat
  BY <1>2, CreatedValue, DefTypes, Elements DEF IInv
<1> HIDE DEF def
<1>4. f \in PageFilter
  BY <1>3, NewFilter
<1>5. i # 0 => i \in DOMAIN list
  BY <1>3, KeyFacts
<1> HIDE DEF i, f
<1>6. k \in Lists /\ k # <<>>
  BY <1>3, <1>4, Appended
<1>7. i = 0
  <2>1. i # 0 => Len(list') = Len(list)
    BY <1>2, <1>3, <1>5, Grown DEF Edit
  <2> QED
    BY <1>3, <2>1
<1>8. ToSet(EnabledIn(list, off)) \subseteq ToSet(EnabledIn(k, off))
  BY <1>3, <1>4, StartedElements
<1> HIDE DEF k
<1>9. list' = k /\ match' = match /\ off' = off
  BY <1>2, <1>6, <1>7 DEF Edit
<1>10. Displayed = Shown(EnabledIn(list, off), match) /\ Displayed' = Shown(EnabledIn(k, off), match)
  BY <1>3, <1>6, <1>9, DisplayedNow
<1>11. EnabledIn(list, off) \in Seq(Filter) /\ EnabledIn(k, off) \in Seq(Filter) /\ Enabled = EnabledIn(list, off)
  BY <1>3, <1>6, EnabledFacts, EnabledNow
<1> QED
  BY <1>8, <1>10, <1>11, MoreFilters

(* The "Swap" displays the mirror image of what was displayed, and a new   *)
(* filter narrows what is displayed, or extends it with OR.                *)
THEOREM EditsShown == Spec => EditsDisplayed
<1>1. IInv /\ [Next]_vars => [SwapAll => Displayed' = {Mirror(flow) : flow \in Displayed}]_vars
  BY SwapIsMirrored
<1>2. IInv /\ [Next]_vars =>
        [Len(list') > Len(list) /\ AddFilter =>
           IF match # "any" THEN Displayed' \subseteq Displayed
           ELSE Enabled # <<>> => Displayed \subseteq Displayed']_vars
  BY NewFilterIsNarrower
<1> QED
  BY <1>1, <1>2, ListKept, PTL DEF Spec, EditsDisplayed, SwapAllMirrors, NewFilterNarrows

-----------------------------------------------------------------------------
(* What the list says, after a value is moved.                             *)

Everything(l) == UNION {Said(l[i]) : i \in DOMAIN l}

(* What a list says is what it says of some definition.                    *)
LEMMA EverythingSaid ==
  ASSUME NEW l \in Lists, NEW v
  PROVE  v \in Everything(l) <=> \E e : Says(l, e, v)
<1>1. v \in Everything(l) => \E e : Says(l, e, v)
  <2> SUFFICES ASSUME NEW i \in DOMAIN l, v \in Said(l[i]) PROVE \E e : Says(l, e, v)
    BY DEF Everything
  <2>1. Says(l, l[i].def, v)
    BY Elements DEF Says
  <2> QED
    BY <2>1
<1>2. (\E e : Says(l, e, v)) => v \in Everything(l)
  BY Elements DEF Says, Everything
<1> QED
  BY <1>1, <1>2

LEMMA AllSaidNow ==
  AllSaid = Everything(list) /\ AllSaid' = Everything(list')
BY DEF AllSaid, Everything

(* A change of the definitions keeps what is said.                         *)
LEMMA RedefinedSays ==
  ASSUME NEW l \in Lists, NEW D \in [DOMAIN l -> Def]
  PROVE  Everything(Redefined(l, D)) = Everything(l)
<1> DEFINE k == Redefined(l, D)
<1>1. DOMAIN k = DOMAIN l /\ \A i \in DOMAIN l : k[i] = [def |-> D[i], not |-> l[i].not, values |-> l[i].values]
  BY RedefinedFacts
<1> HIDE DEF k
<1>2. \A i \in DOMAIN l : Said(k[i]) = Said(l[i])
  BY <1>1 DEF Said
<1>3. Everything(k) = Everything(l)
  BY <1>1, <1>2 DEF Everything
<1> QED
  BY <1>3 DEF k

(* What the list says after the value x of its filter at i is moved to d.  *)
LEMMA MovedSays ==
  ASSUME IInv, NEW i \in DOMAIN list, NEW x \in ToSet(list[i].values), NEW d \in Def
  PROVE  LET from == WithId(list, list[i].def)
             k == Moved(list[i], x, d)
         IN  /\ k \in Lists /\ from \in DOMAIN list /\ list[from].def = list[i].def
             /\ \A e, w : Says(k, e, w)
                  <=> \/ \E j \in DOMAIN list : (j # from \/ w # x.v) /\ list[j].def = e /\ w \in Said(list[j])
                      \/ e = d /\ w = x.v
<1> DEFINE from == WithId(list, list[i].def)
           k == Moved(list[i], x, d)
           t == Taken(list, from, x.v)
<1>1. list \in Lists
  BY DEF IInv
<1>2. from # 0 => from \in DOMAIN list /\ list[from].def = list[i].def
  BY <1>1, IdFacts
<1>3. from # 0
  BY <1>1, IdFacts
<1>4. from \in DOMAIN list /\ list[from].def = list[i].def /\ x \in Value /\ list[from].not \in BOOLEAN
  BY <1>1, <1>2, <1>3, ValueTypes, Elements, FilterFields
<1>5. k = Put(t, d, list[from].not, x)
  BY DEF Moved
<1> HIDE DEF from
<1>6. t \in Lists /\ \A e, w : Says(t, e, w)
        <=> \E j \in DOMAIN list : (j # from \/ w # x.v) /\ list[j].def = e /\ w \in Said(list[j])
  BY <1>1, <1>4, TakenFacts
<1> HIDE DEF t, k
<1>7. k \in Lists /\ \A e, w : Says(k, e, w) <=> Says(t, e, w) \/ (e = d /\ w = x.v)
  BY <1>4, <1>5, <1>6, PutFacts
<1>8. \A e, w : Says(k, e, w)
        <=> \/ \E j \in DOMAIN list : (j # from \/ w # x.v) /\ list[j].def = e /\ w \in Said(list[j])
            \/ e = d /\ w = x.v
  BY <1>6, <1>7
<1> QED
  BY <1>4, <1>7, <1>8 DEF from, k

(* No value is lost when one is moved.                                     *)
LEMMA MovedKeeps ==
  ASSUME IInv, NEW i \in DOMAIN list, NEW x \in ToSet(list[i].values), NEW d \in Def
  PROVE  Everything(Moved(list[i], x, d)) = Everything(list)
<1> DEFINE from == WithId(list, list[i].def)
           k == Moved(list[i], x, d)
<1>1. /\ k \in Lists /\ from \in DOMAIN list
      /\ \A e, w : Says(k, e, w)
           <=> \/ \E j \in DOMAIN list : (j # from \/ w # x.v) /\ list[j].def = e /\ w \in Said(list[j])
               \/ e = d /\ w = x.v
  BY MovedSays
<1> HIDE DEF from, k
<1>2. list \in Lists /\ x.v \in Said(list[i])
  BY DEF IInv, Said
<1>3. ASSUME NEW w PROVE w \in Everything(k) <=> w \in Everything(list)
  <2>1. w \in Everything(k) <=> \E e : Says(k, e, w)
    BY <1>1, EverythingSaid
  <2>2. w \in Everything(list) <=> \E j \in DOMAIN list : w \in Said(list[j])
    BY DEF Everything
  <2>3. CASE w = x.v
    <3>1. Says(k, d, w)
      BY <1>1, <2>3
    <3> QED
      BY <1>2, <2>1, <2>2, <2>3, <3>1
  <2>4. CASE w # x.v
    <3>1. \A e : Says(k, e, w) <=> \E j \in DOMAIN list : list[j].def = e /\ w \in Said(list[j])
      BY <1>1, <2>4
    <3>2. (\E e : Says(k, e, w)) <=> \E j \in DOMAIN list : w \in Said(list[j])
      BY <3>1
    <3> QED
      BY <2>1, <2>2, <3>2
  <2> QED
    BY <2>3, <2>4
<1> QED
  BY <1>3 DEF k

(* Both moves are moves to a definition.                                   *)
LEMMA MoveIsMoved ==
  ASSUME IInv, NEW i \in DOMAIN list, NEW x \in ToSet(list[i].values),
         \/ EitherValue(list[i], x) \/ \E end \in Ends : MoveValue(list[i], x, end)
  PROVE  \E d \in Def : list' = Moved(list[i], x, d)
<1>1. list[i].def \in Def
  BY ValueTypes
<1>2. CASE EitherValue(list[i], x)
  <2>1. list[i].def.side \in Ends \cup {"either"}
    BY <1>2 DEF EitherValue
  <2>2. [list[i].def EXCEPT !.side = "either"] \in Def
    BY <1>1, <2>1, SideTypes
  <2>3. list' = Moved(list[i], x, [list[i].def EXCEPT !.side = "either"])
    BY <1>2 DEF EitherValue, Edit
  <2> QED
    BY <2>2, <2>3
<1>3. ASSUME NEW end \in Ends, MoveValue(list[i], x, end)
      PROVE  \E d \in Def : list' = Moved(list[i], x, d)
  <2>1. list[i].def.side \in Ends \cup {"either"}
    BY <1>3 DEF MoveValue, Ends, Other
  <2>2. [list[i].def EXCEPT !.side = end] \in Def
    BY <1>1, <2>1, SideTypes
  <2>3. list' = Moved(list[i], x, [list[i].def EXCEPT !.side = end])
    BY <1>3 DEF MoveValue, Edit
  <2> QED
    BY <2>2, <2>3
<1> QED
  BY <1>2, <1>3

(* No change of direction or of the combination changes what is said.      *)
LEMMA ValuesStay ==
  ASSUME IInv,
         \/ SwapAll
         \/ \E m \in {"any", "all", "bidirectional"} : SetMatch(m)
         \/ \E i \in DOMAIN list : \E x \in ToSet(list[i].values) :
              EitherValue(list[i], x) \/ \E end \in Ends : MoveValue(list[i], x, end)
  PROVE  AllSaid' = AllSaid
<1>1. list \in Lists
  BY DEF IInv
<1>2. CASE SwapAll
  <2>1. list' = SwapFilters(list)
    BY <1>2 DEF SwapAll, Edit
  <2> QED
    BY <1>1, <2>1, SwapRedefines, RedefinedSays, AllSaidNow
<1>3. ASSUME NEW m, SetMatch(m) PROVE AllSaid' = AllSaid
  <2>1. list' = SetEndpoint(list, "src") \/ list' = list
    BY <1>3 DEF SetMatch, Edit
  <2>2. Everything(SetEndpoint(list, "src")) = Everything(list)
    BY <1>1, EndRedefines, RedefinedSays DEF Ends
  <2> QED
    BY <2>1, <2>2, AllSaidNow
<1>4. ASSUME NEW i \in DOMAIN list, NEW x \in ToSet(list[i].values),
             EitherValue(list[i], x) \/ \E end \in Ends : MoveValue(list[i], x, end)
      PROVE  AllSaid' = AllSaid
  <2>1. PICK d \in Def : list' = Moved(list[i], x, d)
    BY <1>4, MoveIsMoved
  <2> QED
    BY <2>1, MovedKeeps, AllSaidNow
<1> QED
  BY <1>2, <1>3, <1>4

(* The values that the filters of l with the definition d say.             *)
SaidOf(l, d) == UNION {Said(f) : f \in {g \in ToSet(l) : g.def = d}}

LEMMA SaidOfSays ==
  ASSUME NEW l, NEW d, NEW v
  PROVE  v \in SaidOf(l, d) <=> Says(l, d, v)
BY DEF SaidOf, Says

(* A value leaves the filters with its definition for those of the other   *)
(* end, when only one filter has its definition.                           *)
LEMMA MoveGivesAndTakes ==
  ASSUME IInv, NEW i \in DOMAIN list, NEW x \in ToSet(list[i].values), NEW end \in Ends,
         MoveValue(list[i], x, end),
         \A j \in DOMAIN list : ~ (list[j].def = list[i].def /\ j # i)
  PROVE  LET to == [list[i].def EXCEPT !.side = end]
         IN  /\ SaidOf(list', to) = SaidOf(list, to) \cup {x.v}
             /\ SaidOf(list', list[i].def) = SaidOf(list, list[i].def) \ {x.v}
<1> DEFINE from == list[i].def
           to == [from EXCEPT !.side = end]
           p == WithId(list, from)
           k == Moved(list[i], x, to)
<1>1. from \in Def /\ from.side \in Ends \cup {"either"} /\ from.side # end /\ list \in Lists
  BY ValueTypes DEF MoveValue, Ends, Other, IInv
<1>2. to \in Def /\ to # from
  <2>1. to \in Def /\ to = [side |-> end, name |-> from.name]
    <3> HIDE DEF from
    <3> QED
      BY <1>1, SideTypes
  <2>2. to.side = end
    BY <2>1
  <2> QED
    BY <1>1, <2>1, <2>2
<1>3. list' = k
  BY DEF MoveValue, Edit
<1>4. /\ p \in DOMAIN list /\ list[p].def = from
      /\ \A e, w : Says(k, e, w)
           <=> \/ \E j \in DOMAIN list : (j # p \/ w # x.v) /\ list[j].def = e /\ w \in Said(list[j])
               \/ e = to /\ w = x.v
  <2> HIDE DEF to
  <2> QED
    BY <1>2, MovedSays
<1> HIDE DEF p, k, to
<1>5. p = i
  BY <1>4
<1>6. \A e, w : Says(list, e, w) <=> \E j \in DOMAIN list : list[j].def = e /\ w \in Said(list[j])
  BY <1>1, Elements DEF Says
<1>7. ASSUME NEW w PROVE Says(k, to, w) <=> Says(list, to, w) \/ w = x.v
  <2>1. \A j \in DOMAIN list : list[j].def = to => j # p
    BY <1>2, <1>4
  <2> QED
    BY <1>4, <1>6, <2>1
<1>8. ASSUME NEW w PROVE Says(k, from, w) <=> Says(list, from, w) /\ w # x.v
  <2>1. \A j \in DOMAIN list : list[j].def = from => j = i
    OBVIOUS
  <2> HIDE DEF from
  <2> QED
    BY <1>2, <1>4, <1>5, <1>6, <2>1
<1>9. SaidOf(k, to) = SaidOf(list, to) \cup {x.v} /\ SaidOf(k, from) = SaidOf(list, from) \ {x.v}
  <2> HIDE DEF from
  <2> QED
    BY <1>7, <1>8, SaidOfSays
<1> QED
  BY <1>3, <1>9 DEF to

(* The same, as the property says it.                                      *)
LEMMA MoveMoves ==
  ASSUME IInv
  PROVE  \A i \in DOMAIN list : \A x \in ToSet(list[i].values), end \in Ends :
       LET from == list[i].def
           SaidOn(l, side) == UNION {Said(f) : f \in {g \in ToSet(l) : g.def = [from EXCEPT !.side = side]}}
           Clashes(j) == list[j].def.name = from.name /\ (list[j].not # list[i].not \/ (list[j].def = from /\ j # i))
       IN  MoveValue(list[i], x, end) /\ (\A j \in DOMAIN list : ~Clashes(j)) =>
             /\ SaidOn(list', end) = SaidOn(list, end) \cup {x.v}
             /\ SaidOn(list', from.side) = SaidOn(list, from.side) \ {x.v}
<1> SUFFICES ASSUME NEW i \in DOMAIN list, NEW x \in ToSet(list[i].values), NEW end \in Ends,
                    MoveValue(list[i], x, end),
                    \A j \in DOMAIN list : ~ (list[j].def.name = list[i].def.name
                                              /\ (list[j].not # list[i].not \/ (list[j].def = list[i].def /\ j # i)))
             PROVE  /\ SaidOf(list', [list[i].def EXCEPT !.side = end])
                         = SaidOf(list, [list[i].def EXCEPT !.side = end]) \cup {x.v}
                    /\ SaidOf(list', [list[i].def EXCEPT !.side = list[i].def.side])
                         = SaidOf(list, [list[i].def EXCEPT !.side = list[i].def.side]) \ {x.v}
  BY DEF SaidOf
<1>1. list[i].def \in Def /\ list[i].def.side \in Ends \cup {"either"}
  BY ValueTypes DEF MoveValue, Ends, Other
<1>2. [list[i].def EXCEPT !.side = list[i].def.side] = list[i].def
  BY <1>1, SideTypes DEF Def
<1>3. \A j \in DOMAIN list : ~ (list[j].def = list[i].def /\ j # i)
  OBVIOUS
<1> QED
  BY <1>2, <1>3, MoveGivesAndTakes

(* No change of direction or of the combination loses a value; and a value *)
(* that is moved to the other end leaves the filters of its own and joins  *)
(* those of the other, which keep what they had.                           *)
THEOREM ValuesNotLost == Spec => MovesKeepValues
<1>1. IInv /\ [Next]_vars => [AllSaid' # AllSaid =>
       ~ \/ SwapAll \/ \E m \in {"any", "all", "bidirectional"} : SetMatch(m)
         \/ \E i \in DOMAIN list : \E x \in ToSet(list[i].values) :
              EitherValue(list[i], x) \/ \E end \in Ends : MoveValue(list[i], x, end)]_vars
  BY ValuesStay
<1>2. IInv /\ [Next]_vars =>
       [\A i \in DOMAIN list : \A x \in ToSet(list[i].values), end \in Ends :
       LET from == list[i].def
           SaidOn(l, side) == UNION {Said(f) : f \in {g \in ToSet(l) : g.def = [from EXCEPT !.side = side]}}
           Clashes(j) == list[j].def.name = from.name /\ (list[j].not # list[i].not \/ (list[j].def = from /\ j # i))
       IN  MoveValue(list[i], x, end) /\ (\A j \in DOMAIN list : ~Clashes(j)) =>
             /\ SaidOn(list', end) = SaidOn(list, end) \cup {x.v}
             /\ SaidOn(list', from.side) = SaidOn(list, from.side) \ {x.v}]_vars
  BY MoveMoves
<1> QED
  BY <1>1, <1>2, ListKept, PTL DEF Spec, MovesKeepValues, ValuesKept, MovesItsValue

-----------------------------------------------------------------------------
(* What is displayed after the page is loaded again.                       *)

(* As many values are said as there are elements: each is said once.       *)
LEMMA SaidOnce ==
  ASSUME NEW f \in PageFilter, Cardinality(Said(f)) = Len(f.values),
         NEW x \in ToSet(f.values), NEW y \in ToSet(f.values), x.v = y.v
  PROVE  x = y
<1> DEFINE vs == f.values
           n == Len(vs)
           S == 1..n
           T == Said(f)
           g == [k \in S |-> vs[k].v]
<1>1. vs \in Seq(Value) /\ n \in Nat /\ DOMAIN vs = S
  BY FilterFields
<1>2. ToSet(vs) = {vs[k] : k \in S}
  BY <1>1 DEF ToSet
<1>3. T = {vs[k].v : k \in S}
  BY <1>2 DEF Said
<1>4. IsFiniteSet(S) /\ Cardinality(S) = n
  BY <1>1, FS_Interval
<1>5. Cardinality(T) = Cardinality(S)
  BY <1>4
<1> HIDE DEF vs, S, T, n
<1>6. g \in Surjection(S, T)
  BY <1>3 DEF Surjection
<1>7. g \in Injection(S, T)
  <2> HIDE DEF g
  <2> QED
    BY <1>4, <1>5, <1>6, FS_Surjection
<1>8. PICK k \in S, m \in S : x = vs[k] /\ y = vs[m]
  BY <1>2 DEF vs
<1>9. g[k] = g[m]
  BY <1>8
<1>10. k = m
  <2> HIDE DEF g
  <2> QED
    BY <1>7, <1>9 DEF Injection, IsInjective
<1> QED
  BY <1>8, <1>10

(* What is stored of a filter is what is disabled of it, when no other has *)
(* its key.                                                                *)
LEMMA RecordOfOne ==
  ASSUME list \in Lists, NEW i \in DOMAIN list, \A j \in DOMAIN list : SameKey(list[i], list[j]) => i = j
  PROVE  DisabledRecord(list[i]) = Disabled(list[i])
<1> DEFINE I == {j \in 1..Len(list) : SameKey(list[i], list[j]) /\ Disabled(list[j]) # {}}
           p == IF I # {} THEN Max(I) ELSE 0
<1>1. DisabledRecord(list[i]) = IF p = 0 THEN {} ELSE Disabled(list[p])
  BY DEF DisabledRecord, SelectLastInSeq
<1>2. DOMAIN list = 1..Len(list) /\ SameKey(list[i], list[i])
  BY Elements DEF SameKey
<1>3. I \in SUBSET (1..Len(list)) /\ I \subseteq {i} /\ (i \notin I => Disabled(list[i]) = {})
  BY <1>2
<1> HIDE DEF I
<1>4. I # {} => Max(I) \in I /\ Max(I) # 0
  BY <1>3, FirstPlace
<1> QED
  BY <1>1, <1>3, <1>4

(* Each value is read as disabled if it was: nothing else is displayed.    *)
LEMMA ReloadSame ==
  ASSUME IInv, Reload,
         \A i, j \in DOMAIN list : SameKey(list[i], list[j]) => i = j,
         \A i \in DOMAIN list : Cardinality(Said(list[i])) = Len(list[i].values)
  PROVE  Displayed' = Displayed
<1> DEFINE r == Read(list)
           o == off'
<1>1. list \in Lists /\ UpTo(list)[Len(list)] <= MaxAdds
  BY ReloadIsRead DEF IInv
<1>2. /\ r \in Lists /\ DOMAIN r = DOMAIN list
      /\ \A i \in DOMAIN list :
           /\ r[i].def = list[i].def /\ r[i].not = list[i].not
           /\ ToSet(r[i].values) = {[v |-> list[i].values[k].v, obj |-> UpTo(list)[i - 1] + k] : k \in DOMAIN list[i].values}
  BY <1>1, ReadFacts
<1>3. list' = r /\ match' = match
      /\ o = UNION {{x.obj : x \in {y \in ToSet(r[i].values) : y.v \in DisabledRecord(list[i])}} : i \in DOMAIN list}
  BY ReloadIsRead
<1>4. \A i \in DOMAIN list : DisabledRecord(list[i]) = Disabled(list[i])
  BY <1>1, RecordOfOne
<1> HIDE DEF r, o
<1>5. ASSUME NEW j \in DOMAIN list, NEW w, NEW b
      PROVE  (\E y \in ToSet(r[j].values) : y.v = w /\ y.obj = b)
               <=> \E m \in DOMAIN list[j].values : list[j].values[m].v = w /\ UpTo(list)[j - 1] + m = b
  <2> DEFINE K == DOMAIN list[j].values
             Made(m) == [v |-> list[j].values[m].v, obj |-> UpTo(list)[j - 1] + m]
  <2>1. ToSet(r[j].values) = {Made(m) : m \in K}
    BY <1>2
  <2>2. \A m \in K : Made(m).v = list[j].values[m].v /\ Made(m).obj = UpTo(list)[j - 1] + m
    OBVIOUS
  <2> HIDE DEF Made, K
  <2>3. (\E y \in ToSet(r[j].values) : y.v = w /\ y.obj = b) <=> \E m \in K : Made(m).v = w /\ Made(m).obj = b
    BY <2>1
  <2> QED
    BY <2>2, <2>3 DEF K
<1>6. ASSUME NEW i \in DOMAIN list, NEW k \in DOMAIN list[i].values
      PROVE  UpTo(list)[i - 1] + k \in o <=> list[i].values[k].v \in Disabled(list[i])
  <2>1. UpTo(list)[i - 1] + k \in o
          <=> \E j \in DOMAIN list : \E m \in DOMAIN list[j].values :
                UpTo(list)[i - 1] + k = UpTo(list)[j - 1] + m /\ list[j].values[m].v \in Disabled(list[j])
    <3>1. \A b : b \in o <=> \E j \in DOMAIN list : \E y \in ToSet(r[j].values) : y.v \in Disabled(list[j]) /\ b = y.obj
      BY <1>3, <1>4
    <3> DEFINE b == UpTo(list)[i - 1] + k
    <3>2. b \in o <=> \E j \in DOMAIN list : \E w \in Disabled(list[j]) : \E y \in ToSet(r[j].values) : y.v = w /\ y.obj = b
      BY <3>1
    <3>3. b \in o <=> \E j \in DOMAIN list : \E w \in Disabled(list[j]) :
             \E m \in DOMAIN list[j].values : list[j].values[m].v = w /\ UpTo(list)[j - 1] + m = b
      <4> DEFINE Read1(j, w) == \E y \in ToSet(r[j].values) : y.v = w /\ y.obj = b
                 Read2(j, w) == \E m \in DOMAIN list[j].values : list[j].values[m].v = w /\ UpTo(list)[j - 1] + m = b
      <4>1. \A j \in DOMAIN list : \A w : Read1(j, w) <=> Read2(j, w)
        <5> HIDE DEF b
        <5> QED
          BY <1>5
      <4>2. b \in o <=> \E j \in DOMAIN list : \E w \in Disabled(list[j]) : Read1(j, w)
        BY <3>2
      <4>3. b \in o <=> \E j \in DOMAIN list : \E w \in Disabled(list[j]) : Read2(j, w)
        <5> HIDE DEF b, Read1, Read2
        <5> QED
          BY <4>1, <4>2
      <4> QED
        BY <4>3
    <3> QED
      BY <3>3
  <2> QED
    BY <1>1, <2>1, NumbersDiffer
<1>7. ASSUME NEW i \in DOMAIN list PROVE OnIn(r[i], o) = OnIn(list[i], off)
  <2> DEFINE vs == list[i].values
             new == {x.v : x \in {y \in ToSet(r[i].values) : y.obj \notin o}}
             old == {x.v : x \in {y \in ToSet(vs) : y.obj \notin off}}
  <2>1. ToSet(vs) = {vs[k] : k \in DOMAIN vs}
    BY DEF ToSet
  <2>2. \A x, y \in ToSet(vs) : x.v = y.v => x = y
    BY <1>1, Elements, SaidOnce
  <2>3. \A w : w \in Disabled(list[i]) <=> \E y \in ToSet(vs) : w = y.v /\ y.obj \in off
    BY DEF Disabled
  <2>4. \A w : w \in new <=> \E k \in DOMAIN vs : w = vs[k].v /\ UpTo(list)[i - 1] + k \notin o
    <3>1. \A w : w \in new <=> \E b : b \notin o /\ \E y \in ToSet(r[i].values) : y.v = w /\ y.obj = b
      OBVIOUS
    <3> HIDE DEF new
    <3>2. \A w : w \in new <=> \E b : b \notin o /\ \E k \in DOMAIN vs : vs[k].v = w /\ UpTo(list)[i - 1] + k = b
      <4> DEFINE Read1(w, b) == \E y \in ToSet(r[i].values) : y.v = w /\ y.obj = b
                 Read2(w, b) == \E k \in DOMAIN vs : vs[k].v = w /\ UpTo(list)[i - 1] + k = b
      <4>1. \A w, b : Read1(w, b) <=> Read2(w, b)
        BY <1>5
      <4>2. \A w : w \in new <=> \E b : b \notin o /\ Read1(w, b)
        BY <3>1
      <4>3. \A w : w \in new <=> \E b : b \notin o /\ Read2(w, b)
        <5> HIDE DEF Read1, Read2
        <5> QED
          BY <4>1, <4>2
      <4> QED
        BY <4>3
    <3> QED
      BY <3>2
  <2>5. \A w : w \in old <=> \E y \in ToSet(vs) : w = y.v /\ y.obj \notin off
    OBVIOUS
  <2> HIDE DEF new, old
  <2>6. \A w : w \in new <=> \E y \in ToSet(vs) : w = y.v /\ w \notin Disabled(list[i])
    BY <1>6, <2>1, <2>4
  <2>7. new = old
    BY <2>2, <2>3, <2>5, <2>6, ZenonT(30)
  <2> QED
    BY <1>2, <2>7 DEF OnIn, new, old
<1>8. EnabledIn(r, o) = EnabledIn(list, off)
  <2>1. AllOn(r, o) = AllOn(list, off) /\ OnPlaces(r, o) = OnPlaces(list, off)
    BY <1>2, <1>7 DEF AllOn, OnPlaces
  <2> QED
    BY <2>1 DEF EnabledIn
<1>9. Displayed = Shown(EnabledIn(list, off), match) /\ Displayed' = Shown(EnabledIn(r, o), match)
  BY <1>1, <1>2, <1>3, DisplayedNow DEF o
<1> QED
  BY <1>8, <1>9

(* The page that is loaded again displays what it displayed, as long as no *)
(* two filters have the same key and none says a value twice.              *)
THEOREM ReloadShowsTheSame == Spec => ReloadIsDisplayed
<1>1. IInv /\ [Next]_vars =>
        [Reload
         /\ (\A i, j \in DOMAIN list : SameKey(list[i], list[j]) => i = j)
         /\ (\A i \in DOMAIN list : Cardinality(Said(list[i])) = Len(list[i].values))
         => Displayed' = Displayed]_vars
  BY ReloadSame
<1> QED
  BY <1>1, ListKept, PTL DEF Spec, ReloadIsDisplayed
=============================================================================

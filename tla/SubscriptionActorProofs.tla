------------------------ MODULE SubscriptionActorProofs ------------------------
(***************************************************************************)
(* Proofs about the subscription actor, for every number of messages and   *)
(* keys, every configuration and every bound: the types, the two trackers  *)
(* in step, what an ack id denotes over time, and the counters.            *)
(***************************************************************************)
EXTENDS SubscriptionActor, FiniteSetTheorems, TLAPS

-----------------------------------------------------------------------------
(* Least and greatest numbers, and the operators of module Queues *)

\* A nonempty set of naturals has a least element.
LEMMA LeastExists ==
  ASSUME NEW T, T \subseteq Nat, T # {}
  PROVE  \E x \in T : \A y \in T : x <= y
<1>1. IsWellFoundedOn(OpToRel(<, Nat), Nat)
  BY NatLessThanWellFounded, Zenon
<1>2. PICK x \in T : \A y \in T : ~(<<y, x>> \in OpToRel(<, Nat))
  BY <1>1, WFMin, Zenon
<1>3. \A y \in T : ~(y < x)
  BY <1>2, Zenon DEF OpToRel
<1>. QED BY <1>3

\* The minimum of a nonempty set of naturals (operator Min).
LEMMA MinIsLeast ==
  ASSUME NEW T, T \subseteq Nat, T # {}
  PROVE  Min(T) \in T /\ \A y \in T : Min(T) <= y
BY LeastExists, Zenon DEF Min

\* A nonempty set of bounded naturals has a greatest element.
LEMMA GreatestExists ==
  ASSUME NEW n \in Nat, NEW T, T \subseteq 0..n, T # {}
  PROVE  \E x \in T : \A y \in T : y <= x
<1>. DEFINE Bounds == {b \in Nat : \A y \in T : y <= b}
<1>1. n \in Bounds
  OBVIOUS
<1>2. PICK b \in Bounds : \A c \in Bounds : b <= c
  BY <1>1, LeastExists, Zenon
<1>3. b \in T
  <2>. SUFFICES ASSUME b \notin T PROVE FALSE
    OBVIOUS
  <2>1. PICK y \in T : TRUE
    BY Zenon
  <2>2. b - 1 \in Nat /\ \A z \in T : z <= b - 1
    BY <1>2, <2>1
  <2>. QED BY <1>2, <2>2
<1>. QED BY <1>2, <1>3

\* The maximum of such a set is its greatest element.
LEMMA MaxIsGreatest ==
  ASSUME NEW n \in Nat, NEW T, T \subseteq 0..n, T # {}
  PROVE  Max(T) \in T /\ \A y \in T : y <= Max(T)
<1>1. \E x \in T : \A y \in T : y <= x
  BY GreatestExists, Zenon
<1>2. \E x \in T : \A y \in T : x >= y
  BY <1>1
<1>3. Max(T) \in T /\ \A y \in T : Max(T) >= y
  BY <1>2, Zenon DEF Max
<1>. QED BY <1>3

\* The elements of a sequence over a set are elements of the set.
LEMMA RangeOfSeq ==
  ASSUME NEW S, NEW s \in Seq(S)
  PROVE  Range(s) \subseteq S
BY DEF Range

-----------------------------------------------------------------------------
\* The recursion of Retain, up to position n: g[i] is what it keeps of the
\* first i elements.
Keeps(s, kept, n, g) ==
  g = [i \in 0..n |->
         IF i = 0 THEN << >>
         ELSE IF s[i] \in kept THEN Append(g[i-1], s[i]) ELSE g[i-1]]

\* The recursion defines a function up to every position.
LEMMA KeepsExists ==
  ASSUME NEW s, NEW kept, NEW n \in Nat
  PROVE  \E g : Keeps(s, kept, n, g)
<1>. DEFINE Undefined == {m \in Nat : ~\E g : Keeps(s, kept, m, g)}
<1>. SUFFICES ASSUME Undefined # {} PROVE FALSE
  OBVIOUS
<1>1. PICK m \in Undefined : \A k \in Undefined : m <= k
  BY LeastExists, Zenon
<1>2. m # 0
  <2>1. Keeps(s, kept, 0, [i \in 0..0 |-> << >>])
    BY DEF Keeps
  <2>. QED BY <2>1, <1>1
<1>3. PICK g : Keeps(s, kept, m - 1, g)
  BY <1>1, <1>2
<1>. DEFINE step == IF s[m] \in kept THEN Append(g[m-1], s[m]) ELSE g[m-1]
            h == [i \in 0..m |-> IF i < m THEN g[i] ELSE step]
<1>4. Keeps(s, kept, m, h)
  <2>1. ASSUME NEW i \in 0..m
        PROVE  h[i] = IF i = 0 THEN << >>
                      ELSE IF s[i] \in kept THEN Append(h[i-1], s[i]) ELSE h[i-1]
    <3>1. CASE i < m
      <4>1. i \in 0..(m-1)
        BY <3>1
      <4>2. g[i] = IF i = 0 THEN << >>
                   ELSE IF s[i] \in kept THEN Append(g[i-1], s[i]) ELSE g[i-1]
        BY <4>1, <1>3, Zenon DEF Keeps
      <4>3. h[i] = g[i] /\ (i # 0 => h[i-1] = g[i-1])
        BY <3>1
      <4>. QED BY <4>2, <4>3
    <3>2. CASE i = m
      BY <3>2, <1>2
    <3>. QED BY <3>1, <3>2
  <2>. QED BY <2>1 DEF Keeps
<1>. QED BY <1>1, <1>4

\* The recursive function in Retain, one step unfolded.
LEMMA RetainUnfolds ==
  ASSUME NEW S, NEW s \in Seq(S), NEW kept
  PROVE  \E g : Keeps(s, kept, Len(s), g) /\ Retain(s, kept) = g[Len(s)]
<1>. Len(s) \in Nat
  OBVIOUS
<1>. DEFINE R(g) == Keeps(s, kept, Len(s), g)
<1>1. R(CHOOSE g : R(g))
  BY KeepsExists
<1>2. Retain(s, kept) = (CHOOSE g : R(g))[Len(s)]
  BY DEF Retain, Keeps
<1>. QED BY <1>1, <1>2, Zenon

\* r keeps, of the first n elements of s, those of the set kept, in order: h
\* maps the positions of r to the positions of s it keeps.
Selects(s, kept, n, r, h) ==
  /\ h \in [1..Len(r) -> 1..n]
  /\ \A i, j \in 1..Len(r) : i < j => h[i] < h[j]
  /\ \A j \in 1..Len(r) : r[j] = s[h[j]] /\ s[h[j]] \in kept
  /\ \A i \in 1..n : s[i] \in kept => \E j \in 1..Len(r) : h[j] = i

\* Each step of it selects from one element more.
LEMMA KeepsSelects ==
  ASSUME NEW S, NEW s \in Seq(S), NEW kept, NEW g,
         Keeps(s, kept, Len(s), g), NEW n \in 0..Len(s)
  PROVE  g[n] \in Seq(S) /\ \E h : Selects(s, kept, n, g[n], h)
<1>. DEFINE Good(m) == g[m] \in Seq(S) /\ \E h : Selects(s, kept, m, g[m], h)
            Bad == {m \in 0..Len(s) : ~Good(m)}
<1>. SUFFICES ASSUME Bad # {} PROVE FALSE
  OBVIOUS
<1>0. Len(s) \in Nat
  OBVIOUS
<1>1. PICK m \in Bad : \A k \in Bad : m <= k
  <2>1. Bad \subseteq Nat
    BY <1>0
  <2>. HIDE DEF Bad
  <2>. QED BY <2>1, LeastExists, Zenon
<1>2. m # 0
  <2>1. g[0] = << >>
    BY <1>0 DEF Keeps
  <2>2. Selects(s, kept, 0, << >>, [j \in 1..0 |-> 1])
    BY DEF Selects
  <2>3. Good(0)
    BY <2>1, <2>2
  <2>. QED BY <1>1, <2>3
<1>3. m \in 1..Len(s) /\ m - 1 \in 0..Len(s)
  BY <1>0, <1>1, <1>2
<1>4. Good(m - 1)
  <2>. HIDE DEF Good
  <2>1. ~(m <= m - 1)
    BY <1>3
  <2>2. m - 1 \notin Bad
    BY <1>1, <2>1
  <2>. QED BY <1>3, <2>2
<1>. DEFINE r == g[m-1]
<1>5. r \in Seq(S) /\ Len(r) \in Nat
  BY <1>4
<1>6. PICK h : Selects(s, kept, m - 1, r, h)
  BY <1>4
<1>7. g[m] = IF s[m] \in kept THEN Append(r, s[m]) ELSE r
  <2>1. m \in 0..Len(s) /\ m # 0
    BY <1>3
  <2>. QED BY <2>1, Zenon DEF Keeps
<1>. HIDE DEF r
<1>8. CASE s[m] \notin kept
  <2>1. Selects(s, kept, m, r, h)
    BY <1>3, <1>5, <1>6, <1>8, SMTT(30) DEF Selects
  <2>. QED BY <1>1, <1>5, <1>7, <1>8, <2>1
<1>9. CASE s[m] \in kept
  <2>. DEFINE r2 == Append(r, s[m])
              h2 == [j \in 1..(Len(r)+1) |-> IF j <= Len(r) THEN h[j] ELSE m]
  <2>1. s[m] \in S
    BY <1>3
  <2>2. r2 \in Seq(S) /\ Len(r2) = Len(r) + 1
        /\ r2[Len(r) + 1] = s[m] /\ \A j \in 1..Len(r) : r2[j] = r[j]
    BY <1>5, <2>1
  <2>a. /\ h2 = [j \in 1..Len(r2) |-> h2[j]]
        /\ h2[Len(r) + 1] = m
        /\ \A j \in 1..Len(r) : h2[j] = h[j]
        /\ 1..Len(r2) = 1..Len(r) \cup {Len(r) + 1}
    BY <1>5, <2>2
  <2>. HIDE DEF r2, h2
  <2>b. /\ \A j \in 1..Len(r) : h[j] \in 1..(m-1)
        /\ \A i, j \in 1..Len(r) : i < j => h[i] < h[j]
        /\ \A j \in 1..Len(r) : r[j] = s[h[j]] /\ s[h[j]] \in kept
        /\ \A i \in 1..(m-1) : s[i] \in kept => \E j \in 1..Len(r) : h[j] = i
    BY <1>6 DEF Selects
  <2>3. h2 \in [1..Len(r2) -> 1..m]
    <3>1. \A j \in 1..Len(r2) : h2[j] \in 1..m
      <4>. TAKE j \in 1..Len(r2)
      <4>1. CASE j \in 1..Len(r)
        <5>1. h2[j] = h[j] /\ h[j] \in 1..(m-1)
          BY <2>a, <2>b, <4>1, Zenon
        <5>. QED BY <5>1, <1>3
      <4>2. CASE j = Len(r) + 1
        BY <1>3, <2>a, <4>2
      <4>. QED BY <2>a, <4>1, <4>2
    <3>. QED BY <2>a, <3>1
  <2>4. \A i, j \in 1..Len(r2) : i < j => h2[i] < h2[j]
    <3>. SUFFICES ASSUME NEW i \in 1..Len(r2), NEW j \in 1..Len(r2), i < j
                  PROVE  h2[i] < h2[j]
      OBVIOUS
    <3>1. i \in 1..Len(r)
      BY <1>5, <2>2
    <3>2. h2[i] = h[i] /\ h[i] \in 1..(m-1)
      BY <2>a, <2>b, <3>1, Zenon
    <3>3. CASE j \in 1..Len(r)
      BY <2>a, <2>b, <3>1, <3>2, <3>3, Zenon
    <3>4. CASE j = Len(r) + 1
      <4>1. h2[j] = m
        BY <2>a, <3>4
      <4>. QED BY <4>1, <3>2, <1>3
    <3>. QED BY <2>a, <3>3, <3>4
  <2>5. \A j \in 1..Len(r2) : r2[j] = s[h2[j]] /\ s[h2[j]] \in kept
    BY <1>9, <2>2, <2>a, <2>b, Zenon
  <2>6. \A i \in 1..m : s[i] \in kept => \E j \in 1..Len(r2) : h2[j] = i
    <3>. SUFFICES ASSUME NEW i \in 1..m, s[i] \in kept
                  PROVE  \E j \in 1..Len(r2) : h2[j] = i
      OBVIOUS
    <3>1. CASE i = m
      BY <3>1, <2>a
    <3>2. CASE i # m
      <4>1. PICK j \in 1..Len(r) : h[j] = i
        BY <3>2, <1>3, <2>b
      <4>. QED BY <4>1, <2>a, Zenon
    <3>. QED BY <3>1, <3>2
  <2>7. Selects(s, kept, m, r2, h2)
    BY <2>3, <2>4, <2>5, <2>6 DEF Selects
  <2>8. r2 = Append(r, s[m])
    BY DEF r2
  <2>. QED BY <1>1, <1>7, <1>9, <2>2, <2>7, <2>8, Zenon
<1>. QED BY <1>8, <1>9

\* What Retain does: it is a sequence of elements of s, and there is a
\* strictly increasing map from its positions onto the positions of s that
\* hold an element of the set kept.
THEOREM RetainSelects ==
  ASSUME NEW S, NEW s \in Seq(S), NEW kept
  PROVE  /\ Retain(s, kept) \in Seq(S)
         /\ \E h : Selects(s, kept, Len(s), Retain(s, kept), h)
<1>1. PICK g : Keeps(s, kept, Len(s), g) /\ Retain(s, kept) = g[Len(s)]
  BY RetainUnfolds
<1>2. Len(s) \in 0..Len(s)
  OBVIOUS
<1>. QED BY <1>1, <1>2, KeepsSelects

\* Retain keeps exactly the elements of s that are in the set kept.
LEMMA RetainRange ==
  ASSUME NEW S, NEW s \in Seq(S), NEW kept
  PROVE  Range(Retain(s, kept)) = Range(s) \cap kept
<1>. DEFINE r == Retain(s, kept)
<1>1. PICK h : r \in Seq(S) /\ Selects(s, kept, Len(s), r, h)
  BY RetainSelects
<1>2. DOMAIN r = 1..Len(r) /\ DOMAIN s = 1..Len(s)
  BY <1>1
<1>. HIDE DEF r
<1>3. ASSUME NEW x \in Range(r) PROVE x \in Range(s) \cap kept
  <2>1. PICK j \in 1..Len(r) : x = r[j]
    BY <1>2 DEF Range
  <2>2. h[j] \in 1..Len(s) /\ r[j] = s[h[j]] /\ s[h[j]] \in kept
    BY <1>1 DEF Selects
  <2>. QED BY <1>2, <2>1, <2>2 DEF Range
<1>4. ASSUME NEW x \in Range(s) \cap kept PROVE x \in Range(r)
  <2>1. PICK i \in 1..Len(s) : x = s[i]
    BY <1>2 DEF Range
  <2>2. PICK j \in 1..Len(r) : h[j] = i
    BY <1>1, <2>1 DEF Selects
  <2>3. r[j] = s[h[j]]
    BY <1>1 DEF Selects
  <2>. QED BY <1>2, <2>1, <2>2, <2>3 DEF Range
<1>5. Range(r) = Range(s) \cap kept
  BY <1>3, <1>4
<1>. QED BY <1>5 DEF r

-----------------------------------------------------------------------------
\* Concatenation and reversal.
LEMMA ConcatIsSeq ==
  ASSUME NEW S, NEW s \in Seq(S), NEW t \in Seq(S)
  PROVE  s \o t \in Seq(S) /\ Range(s \o t) = Range(s) \cup Range(t)
<1>1. s \o t \in Seq(S) /\ Len(s \o t) = Len(s) + Len(t)
  OBVIOUS
<1>2. ASSUME NEW x \in Range(s \o t) PROVE x \in Range(s) \cup Range(t)
  <2>1. PICK i \in 1..(Len(s) + Len(t)) : x = (s \o t)[i]
    BY <1>1 DEF Range
  <2>2. CASE i <= Len(s)
    BY <2>1, <2>2 DEF Range
  <2>3. CASE i > Len(s)
    <3>1. x = t[i - Len(s)] /\ i - Len(s) \in 1..Len(t)
      BY <2>1, <2>3
    <3>. QED BY <3>1 DEF Range
  <2>. QED BY <2>2, <2>3
<1>3. ASSUME NEW x \in Range(s) PROVE x \in Range(s \o t)
  <2>1. PICK i \in 1..Len(s) : x = s[i]
    BY DEF Range
  <2>2. (s \o t)[i] = s[i] /\ i \in 1..Len(s \o t)
    BY <1>1
  <2>. QED BY <1>1, <2>1, <2>2 DEF Range
<1>4. ASSUME NEW x \in Range(t) PROVE x \in Range(s \o t)
  <2>1. PICK i \in 1..Len(t) : x = t[i]
    BY DEF Range
  <2>2. (s \o t)[Len(s) + i] = t[i] /\ Len(s) + i \in 1..Len(s \o t)
    BY <1>1
  <2>. QED BY <1>1, <2>1, <2>2 DEF Range
<1>. QED BY <1>1, <1>2, <1>3, <1>4

\* Reversing a sequence keeps its elements.
LEMMA ReverseIsSeq ==
  ASSUME NEW S, NEW s \in Seq(S)
  PROVE  /\ Reversed(s) \in Seq(S) /\ Len(Reversed(s)) = Len(s)
         /\ \A i \in 1..Len(s) : Reversed(s)[i] = s[Len(s) - i + 1]
         /\ Range(Reversed(s)) = Range(s)
<1>1. /\ Reversed(s) \in Seq(S) /\ Len(Reversed(s)) = Len(s)
      /\ \A i \in 1..Len(s) : Reversed(s)[i] = s[Len(s) - i + 1]
  BY DEF Reversed
<1>2. ASSUME NEW x \in Range(s) PROVE x \in Range(Reversed(s))
  <2>1. PICK i \in 1..Len(s) : x = s[i]
    BY DEF Range
  <2>. DEFINE j == Len(s) - i + 1
  <2>2. j \in 1..Len(s) /\ Len(s) - j + 1 = i
    OBVIOUS
  <2>. HIDE DEF j
  <2>3. x = Reversed(s)[j] /\ j \in DOMAIN Reversed(s)
    BY <1>1, <2>1, <2>2
  <2>. QED BY <2>3 DEF Range
<1>3. ASSUME NEW x \in Range(Reversed(s)) PROVE x \in Range(s)
  <2>1. PICK i \in 1..Len(s) : x = Reversed(s)[i]
    BY <1>1 DEF Range
  <2>. DEFINE j == Len(s) - i + 1
  <2>2. j \in 1..Len(s)
    OBVIOUS
  <2>3. x = s[j] /\ j \in DOMAIN s
    BY <1>1, <2>1, <2>2
  <2>. QED BY <2>3 DEF Range
<1>. QED BY <1>1, <1>2, <1>3, Zenon

-----------------------------------------------------------------------------
(***************************************************************************)
(* Sequences that list each element once, and rising sequences of numbers. *)
(***************************************************************************)
Rising(s) == \A i, j \in DOMAIN s : i < j => s[i] < s[j]

\* Retain repeats no element of a sequence that repeats none.
LEMMA RetainInjective ==
  ASSUME NEW S, NEW s \in Seq(S), NEW kept, IsInjective(s)
  PROVE  IsInjective(Retain(s, kept))
<1>. DEFINE r == Retain(s, kept)
<1>1. PICK h : r \in Seq(S) /\ Selects(s, kept, Len(s), r, h)
  BY RetainSelects
<1>. HIDE DEF r
<1>2. SUFFICES ASSUME NEW i \in 1..Len(r), NEW j \in 1..Len(r), i < j,
                      r[i] = r[j]
               PROVE  FALSE
  <2>1. DOMAIN r = 1..Len(r) /\ Len(r) \in Nat
    BY <1>1
  <2>2. \A i, j \in 1..Len(r) : r[i] = r[j] => i = j
    BY <1>2, <2>1
  <2>3. IsInjective(r)
    BY <2>1, <2>2 DEF IsInjective
  <2>. QED BY <2>3 DEF r
<1>3. /\ h[i] \in 1..Len(s) /\ h[j] \in 1..Len(s) /\ h[i] < h[j]
      /\ s[h[i]] = s[h[j]]
  BY <1>1, <1>2, Zenon DEF Selects
<1>. QED BY <1>3 DEF IsInjective

\* Retain keeps a rising sequence rising.
LEMMA RetainRising ==
  ASSUME NEW S, NEW s \in Seq(S), NEW kept, Rising(s)
  PROVE  Rising(Retain(s, kept))
<1>. DEFINE r == Retain(s, kept)
<1>1. PICK h : r \in Seq(S) /\ Selects(s, kept, Len(s), r, h)
  BY RetainSelects
<1>. HIDE DEF r
<1>2. ASSUME NEW i \in 1..Len(r), NEW j \in 1..Len(r), i < j
      PROVE  r[i] < r[j]
  <2>1. /\ h[i] \in 1..Len(s) /\ h[j] \in 1..Len(s) /\ h[i] < h[j]
        /\ r[i] = s[h[i]] /\ r[j] = s[h[j]]
    BY <1>1, <1>2, Zenon DEF Selects
  <2>. QED BY <2>1 DEF Rising
<1>3. DOMAIN r = 1..Len(r)
  BY <1>1
<1>4. Rising(r)
  BY <1>2, <1>3 DEF Rising
<1>. QED BY <1>4 DEF r

\* The elements of a concatenation, by position.
LEMMA ConcatPositions ==
  ASSUME NEW S, NEW s \in Seq(S), NEW t \in Seq(S)
  PROVE  /\ DOMAIN (s \o t) = 1..(Len(s) + Len(t))
         /\ \A i \in 1..(Len(s) + Len(t)) :
              \/ i \in 1..Len(s) /\ (s \o t)[i] = s[i]
              \/ i > Len(s) /\ i - Len(s) \in 1..Len(t)
                   /\ (s \o t)[i] = t[i - Len(s)]
OBVIOUS

\* Two sequences without repetition or common element, one after the other.
LEMMA ConcatInjective ==
  ASSUME NEW S, NEW s \in Seq(S), NEW t \in Seq(S),
         IsInjective(s), IsInjective(t), Range(s) \cap Range(t) = {}
  PROVE  IsInjective(s \o t)
<1>. DEFINE u == s \o t
<1>1. /\ DOMAIN u = 1..(Len(s) + Len(t))
      /\ \A i \in 1..(Len(s) + Len(t)) :
           \/ i \in 1..Len(s) /\ u[i] = s[i]
           \/ i > Len(s) /\ i - Len(s) \in 1..Len(t) /\ u[i] = t[i - Len(s)]
  BY ConcatPositions
<1>2. /\ DOMAIN s = 1..Len(s) /\ DOMAIN t = 1..Len(t)
      /\ Len(s) \in Nat /\ Len(t) \in Nat
  OBVIOUS
<1>3. \A i \in 1..Len(s), j \in 1..Len(t) : s[i] # t[j]
  <2>1. /\ \A i \in 1..Len(s) : s[i] \in Range(s)
        /\ \A j \in 1..Len(t) : t[j] \in Range(t)
    BY <1>2, Zenon DEF Range
  <2>. QED BY <2>1, Zenon
<1>. HIDE DEF u
<1>4. ASSUME NEW i \in DOMAIN u, NEW j \in DOMAIN u, u[i] = u[j]
      PROVE  i = j
  <2>1. CASE i \in 1..Len(s) /\ j \in 1..Len(s)
    <3>1. s[i] = s[j]
      BY <1>1, <1>2, <1>4, <2>1
    <3>. QED BY <1>2, <2>1, <3>1 DEF IsInjective
  <2>2. CASE i > Len(s) /\ j > Len(s)
    <3>1. i - Len(s) \in 1..Len(t) /\ u[i] = t[i - Len(s)]
      BY <1>1, <1>2, <2>2
    <3>2. j - Len(s) \in 1..Len(t) /\ u[j] = t[j - Len(s)]
      BY <1>1, <1>2, <2>2
    <3>3. i - Len(s) = j - Len(s)
      BY <1>2, <1>4, <3>1, <3>2, Zenon DEF IsInjective
    <3>. QED BY <1>1, <1>2, <3>3
  <2>3. CASE i \in 1..Len(s) /\ j > Len(s)
    BY <1>1, <1>2, <1>3, <1>4, <2>3
  <2>4. CASE i > Len(s) /\ j \in 1..Len(s)
    BY <1>1, <1>2, <1>3, <1>4, <2>4
  <2>. QED BY <1>1, <1>2, <2>1, <2>2, <2>3, <2>4
<1>5. IsInjective(u)
  BY <1>4 DEF IsInjective
<1>. QED BY <1>5 DEF u

\* Two rising sequences, one after the other.
LEMMA ConcatRising ==
  ASSUME NEW S, NEW s \in Seq(S), NEW t \in Seq(S), Rising(s), Rising(t),
         \A x \in Range(s), y \in Range(t) : x < y
  PROVE  Rising(s \o t)
<1>. DEFINE u == s \o t
<1>1. /\ DOMAIN u = 1..(Len(s) + Len(t))
      /\ \A i \in 1..(Len(s) + Len(t)) :
           \/ i \in 1..Len(s) /\ u[i] = s[i]
           \/ i > Len(s) /\ i - Len(s) \in 1..Len(t) /\ u[i] = t[i - Len(s)]
  BY ConcatPositions
<1>2. /\ DOMAIN s = 1..Len(s) /\ DOMAIN t = 1..Len(t)
      /\ Len(s) \in Nat /\ Len(t) \in Nat
  OBVIOUS
<1>3. \A i \in 1..Len(s), j \in 1..Len(t) : s[i] < t[j]
  BY <1>2, Zenon DEF Range
<1>. HIDE DEF u
<1>4. ASSUME NEW i \in DOMAIN u, NEW j \in DOMAIN u, i < j
      PROVE  u[i] < u[j]
  <2>1. CASE i \in 1..Len(s) /\ j \in 1..Len(s)
    <3>1. u[i] = s[i] /\ u[j] = s[j]
      BY <1>1, <1>2, <2>1
    <3>. QED BY <1>2, <1>4, <2>1, <3>1 DEF Rising
  <2>2. CASE i > Len(s) /\ j > Len(s)
    <3>1. i - Len(s) \in 1..Len(t) /\ u[i] = t[i - Len(s)]
      BY <1>1, <1>2, <2>2
    <3>2. j - Len(s) \in 1..Len(t) /\ u[j] = t[j - Len(s)]
      BY <1>1, <1>2, <2>2
    <3>3. i - Len(s) < j - Len(s)
      BY <1>1, <1>2, <1>4
    <3>. QED BY <1>2, <3>1, <3>2, <3>3 DEF Rising
  <2>3. CASE i \in 1..Len(s) /\ j > Len(s)
    BY <1>1, <1>2, <1>3, <2>3
  <2>. QED BY <1>1, <1>2, <1>4, <2>1, <2>2, <2>3
<1>5. Rising(u)
  BY <1>4 DEF Rising
<1>. QED BY <1>5 DEF u

\* A rising sequence repeats nothing.
LEMMA RisingIsInjective ==
  ASSUME NEW S, S \subseteq Nat, NEW s \in Seq(S), Rising(s)
  PROVE  IsInjective(s)
<1>. SUFFICES ASSUME NEW i \in 1..Len(s), NEW j \in 1..Len(s), s[i] = s[j], i # j
              PROVE  FALSE
  BY DEF IsInjective
<1>1. s[i] \in Nat /\ s[j] \in Nat
  <2>1. s[i] \in S /\ s[j] \in S
    OBVIOUS
  <2>. QED BY <2>1, Zenon
<1>2. CASE i < j
  BY <1>1, <1>2 DEF Rising
<1>3. CASE j < i
  BY <1>1, <1>3 DEF Rising
<1>. QED BY <1>2, <1>3

\* A sequence that lists each of its elements once, and has at most one, rises
\* when reversed.
LEMMA ShortReverseRising ==
  ASSUME NEW S, NEW s \in Seq(S), IsInjective(s),
         \A x, y \in Range(s) : x = y
  PROVE  Rising(Reversed(s))
<1>1. Len(s) \in Nat /\ DOMAIN s = 1..Len(s)
  OBVIOUS
<1>2. \A i, j \in 1..Len(s) : i = j
  <2>1. \A i \in 1..Len(s) : s[i] \in Range(s)
    BY <1>1, Zenon DEF Range
  <2>. QED BY <1>1, <2>1, Zenon DEF IsInjective
<1>3. DOMAIN Reversed(s) = 1..Len(s)
  BY <1>1, ReverseIsSeq
<1>. QED BY <1>1, <1>2, <1>3 DEF Rising

\* Cutting a sequence in two.
LEMMA CutRange ==
  ASSUME NEW S, NEW s \in Seq(S), NEW n \in 0..Len(s)
  PROVE  /\ SubSeq(s, 1, n) \in Seq(S)
         /\ SubSeq(s, n + 1, Len(s)) \in Seq(S)
         /\ Range(SubSeq(s, 1, n)) = {s[i] : i \in 1..n}
         /\ Range(SubSeq(s, n + 1, Len(s))) = {s[i] : i \in (n+1)..Len(s)}
         /\ Range(s) = {s[i] : i \in 1..Len(s)}
<1>. DEFINE front == SubSeq(s, 1, n)
            back == SubSeq(s, n + 1, Len(s))
<1>1. /\ Len(s) \in Nat /\ n \in Nat /\ DOMAIN s = 1..Len(s)
      /\ front \in Seq(S) /\ DOMAIN front = 1..n
      /\ \A i \in 1..n : front[i] = s[i]
  OBVIOUS
<1>2. /\ back \in Seq(S) /\ DOMAIN back = 1..(Len(s) - n)
      /\ \A i \in 1..(Len(s) - n) : back[i] = s[n + i]
  OBVIOUS
<1>. HIDE DEF front, back
<1>3. Range(front) = {s[i] : i \in 1..n}
  BY <1>1 DEF Range
<1>4. Range(back) = {s[i] : i \in (n+1)..Len(s)}
  <2>1. ASSUME NEW x \in Range(back) PROVE x \in {s[i] : i \in (n+1)..Len(s)}
    <3>1. PICK i \in 1..(Len(s) - n) : x = back[i]
      BY <1>2 DEF Range
    <3>2. x = s[n + i]
      BY <1>2, <3>1, Zenon
    <3>3. n + i \in (n+1)..Len(s)
      BY <1>1
    <3>. QED BY <3>2, <3>3
  <2>2. ASSUME NEW i \in (n+1)..Len(s) PROVE s[i] \in Range(back)
    <3>1. i - n \in 1..(Len(s) - n) /\ n + (i - n) = i
      BY <1>1
    <3>2. back[i - n] = s[i]
      BY <1>2, <3>1
    <3>. QED BY <1>2, <3>1, <3>2, Zenon DEF Range
  <2>. QED BY <2>1, <2>2
<1>5. Range(s) = {s[i] : i \in 1..Len(s)}
  BY <1>1 DEF Range
<1>. QED BY <1>1, <1>2, <1>3, <1>4, <1>5 DEF front, back

\* A part of a sequence keeps what the whole has.
LEMMA CutKeeps ==
  ASSUME NEW S, NEW s \in Seq(S), NEW n \in 0..Len(s)
  PROVE  /\ IsInjective(s) => /\ IsInjective(SubSeq(s, 1, n))
                              /\ IsInjective(SubSeq(s, n + 1, Len(s)))
         /\ Rising(s) => Rising(SubSeq(s, n + 1, Len(s)))
<1>. DEFINE front == SubSeq(s, 1, n)
            back == SubSeq(s, n + 1, Len(s))
<1>1. /\ Len(s) \in Nat /\ n \in Nat /\ DOMAIN s = 1..Len(s)
      /\ DOMAIN front = 1..n /\ \A i \in 1..n : front[i] = s[i]
  OBVIOUS
<1>2. /\ DOMAIN back = 1..(Len(s) - n)
      /\ \A i \in 1..(Len(s) - n) : back[i] = s[n + i]
  OBVIOUS
<1>. HIDE DEF front, back
<1>3. \A i \in 1..(Len(s) - n) : n + i \in 1..Len(s)
  BY <1>1
<1>4. ASSUME IsInjective(s) PROVE IsInjective(front)
  BY <1>1, <1>4 DEF IsInjective
<1>5. ASSUME IsInjective(s) PROVE IsInjective(back)
  <2>. SUFFICES ASSUME NEW i \in 1..(Len(s) - n), NEW j \in 1..(Len(s) - n),
                       back[i] = back[j]
                PROVE  i = j
    BY <1>2 DEF IsInjective
  <2>1. n + i = n + j
    BY <1>1, <1>2, <1>3, <1>5 DEF IsInjective
  <2>. QED BY <1>1, <2>1
<1>6. ASSUME Rising(s) PROVE Rising(back)
  <2>. SUFFICES ASSUME NEW i \in 1..(Len(s) - n), NEW j \in 1..(Len(s) - n), i < j
                PROVE  back[i] < back[j]
    BY <1>2 DEF Rising
  <2>1. n + i < n + j /\ n + i \in DOMAIN s /\ n + j \in DOMAIN s
    BY <1>1, <1>3
  <2>2. s[n + i] < s[n + j]
    BY <1>6, <2>1 DEF Rising
  <2>. QED BY <1>2, <2>2
<1>. QED BY <1>4, <1>5, <1>6 DEF front, back

-----------------------------------------------------------------------------
\* The elements of two disjoint sets are counted separately.
LEMMA DisjointUnion ==
  ASSUME NEW S, NEW T, IsFiniteSet(S), IsFiniteSet(T), S \cap T = {}
  PROVE  /\ IsFiniteSet(S \cup T)
         /\ Cardinality(S \cup T) = Cardinality(S) + Cardinality(T)
<1>1. Cardinality(S \cap T) = 0
  BY FS_EmptySet
<1>2. Cardinality(S) \in Nat /\ Cardinality(T) \in Nat
  BY FS_CardinalityType
<1>3. /\ IsFiniteSet(S \cup T)
      /\ Cardinality(S \cup T)
           = Cardinality(S) + Cardinality(T) - Cardinality(S \cap T)
  BY FS_Union
<1>. QED BY <1>1, <1>2, <1>3

\* A function without repetitions has as many values as arguments.
LEMMA DistinctImage ==
  ASSUME NEW R, NEW f, IsFiniteSet(DOMAIN f), f \in [DOMAIN f -> R], IsInjective(f)
  PROVE  IsFiniteSet(Range(f)) /\ Cardinality(Range(f)) = Cardinality(DOMAIN f)
<1>1. /\ f \in [DOMAIN f -> Range(f)]
      /\ \A t \in Range(f) : \E x \in DOMAIN f : f[x] = t
  BY DEF Range
<1>2. f \in Bijection(DOMAIN f, Range(f))
  BY <1>1, Zenon DEF Bijection, Injection, Surjection
<1>. QED BY <1>2, FS_Bijection, Zenon DEF ExistsBijection

\* The elements of a list without repetitions are as many as its length.
LEMMA DistinctLength ==
  ASSUME NEW S, NEW l \in Seq(S), IsInjective(l)
  PROVE  IsFiniteSet(Range(l)) /\ Cardinality(Range(l)) = Len(l)
<1>1. Len(l) \in Nat /\ DOMAIN l = 1..Len(l) /\ l \in [DOMAIN l -> S]
  OBVIOUS
<1>2. IsFiniteSet(DOMAIN l) /\ Cardinality(DOMAIN l) = Len(l)
  <2>1. \A n \in Nat : IsFiniteSet(1..n) /\ Cardinality(1..n) = n
    BY FS_Interval, SMTT(30)
  <2>. QED BY <1>1, <2>1, Zenon
<1>. QED BY <1>1, <1>2, DistinctImage, Zenon

-----------------------------------------------------------------------------
(* The actor *)

USE ZenonT(30)

\* Facts about the constants.
LEMMA ConstantTypes ==
  /\ Precision \in Nat \ {0} /\ U16 \in Nat \ {0} /\ MAX_PULL_COUNT \in Nat
  /\ Message \subseteq Nat
  /\ IsFiniteSet(Message) /\ IsFiniteSet(Keys)
  /\ KeyOf \in [Message -> Keys \cup {NoKey}]
<1>1. IsFiniteSet(1..MaxMessages)
  BY BoundsAssumption, FS_Interval, SMTT(30)
<1>. QED BY <1>1, BoundsAssumption, KeyAssumption, ConfigurationAssumption,
            SMTT(30) DEF Message

\* A deadline is a natural.
LEMMA DeadlineType == \A t \in Nat : AckDeadline(t) \in Nat
BY ConstantTypes, SMTT(30) DEF AckDeadline, Outstanding!AckDeadline

\* A backoff is a natural.
LEMMA BackoffType ==
  ASSUME NEW policy \in Policy, NEW attempt \in Nat
  PROVE  CalculateBackoff(policy, attempt) \in Nat
<1>. DEFINE before == Max({attempt - 1, 0})
            exponent == Min({before, MaxExponent})
<1>1. before \in Nat
  <2>1. \E x \in {attempt - 1, 0} : \A y \in {attempt - 1, 0} : x >= y
    BY SMTT(30)
  <2>. QED BY <2>1, SMTT(30) DEF Max
<1>2. exponent \in 0..MaxExponent
  <2>1. {before, MaxExponent} \subseteq Nat
    BY <1>1, SMTT(30) DEF MaxExponent
  <2>2. exponent \in {before, MaxExponent} /\ exponent <= MaxExponent
    BY <2>1, MinIsLeast
  <2>. QED BY <2>1, <2>2, SMTT(30) DEF MaxExponent
<1>3. 2^exponent \in Nat
  BY <1>2, PowersOfTwo
<1>4. policy.minimum_backoff \in Nat /\ policy.maximum_backoff \in Nat
  BY DEF Policy
<1>. DEFINE both == {policy.minimum_backoff * 2^exponent, policy.maximum_backoff}
<1>. HIDE DEF exponent
<1>5. both \subseteq Nat /\ both # {}
  BY <1>3, <1>4, SMTT(30)
<1>6. Min(both) \in Nat
  BY <1>5, MinIsLeast
<1>. QED BY <1>6 DEF CalculateBackoff, exponent

\* A listing of a finite set is a sequence of its elements, each once.
LEMMA ListingIsSeq ==
  ASSUME NEW S, IsFiniteSet(S), NEW l \in Listings(S)
  PROVE  /\ l \in Seq(S)
         /\ Len(l) = Cardinality(S) /\ DOMAIN l = 1..Len(l)
         /\ Range(l) = S
         /\ \A i, j \in DOMAIN l : l[i] = l[j] => i = j
<1>1. Cardinality(S) \in Nat
  BY FS_CardinalityType
<1>2. l \in [1..Cardinality(S) -> S]
  BY DEF Listings, Bijection, Injection
<1>3. l \in Seq(S) /\ Len(l) = Cardinality(S) /\ DOMAIN l = 1..Len(l)
  BY <1>1, <1>2, SMTT(30)
<1>4. Range(l) = S
  BY <1>2 DEF Range, Listings, Bijection, Surjection
<1>5. \A i, j \in DOMAIN l : l[i] = l[j] => i = j
  BY <1>2 DEF Listings, Bijection, Injection, IsInjective
<1>. QED BY <1>3, <1>4, <1>5

-----------------------------------------------------------------------------
(***************************************************************************)
(* The type invariant and the agreement of the trackers, by groups of      *)
(* variables that the operations change together.  What makes them         *)
(* inductive is that the ack ids in use are below the counter, so that a   *)
(* pull adds deliveries under unused ids.                                  *)
(***************************************************************************)
QueueOK ==
  /\ backlog \in Seq(Message)
  /\ ordered_queues \in [Keys -> Seq(Message)]
  /\ keys_in_flight \subseteq Keys

Delivery == [message : Message, deadline : Nat, delivery_attempt : Nat]

TrackerOK ==
  /\ next_ack_id \in Nat \ {0}
  /\ DOMAIN outstanding \subseteq Nat
  /\ outstanding \in [DOMAIN outstanding -> Delivery]
  /\ expirations \subseteq (Nat \X Nat)
  /\ Outstanding!SideBySide
  /\ \A id \in DOMAIN outstanding : id < next_ack_id

RetryOK ==
  /\ next_seq \in Nat
  /\ DOMAIN retrying \subseteq Nat
  /\ retrying \in [DOMAIN retrying -> Message]
  /\ schedule \subseteq (Nat \X Nat)
  /\ Retry!ScheduledOnce

ClientOK ==
  /\ now \in Nat /\ posted \in Nat /\ posted <= MaxMessages
  /\ published \in [Message -> Nat]

ConfigOK ==
  /\ info \in Infos
  /\ detached \in BOOLEAN /\ topic_manager \in BOOLEAN
  /\ deleted \in BOOLEAN /\ running \in BOOLEAN

Counters == {"pulled", "acked", "nacked", "expired", "dead_lettered"}

AccountOK ==
  /\ delivery_attempts \in [Message -> Nat]
  /\ counters \in [Counters -> Nat]
  /\ fate \in [Message -> Fates]
  /\ withdrawn \in Nat

IInv ==
  QueueOK /\ TrackerOK /\ RetryOK /\ ClientOK /\ ConfigOK /\ AccountOK
    /\ ObserverTypeOK

\* The inductive invariant implies the type invariant and that the trackers
\* are in step.
LEMMA IInvImplies == IInv => TypeOK /\ TrackersInStep
BY DEF IInv, QueueOK, TrackerOK, RetryOK, ClientOK, ConfigOK, AccountOK,
   Delivery, Counters, TypeOK, TrackersInStep

\* The deliveries, their expirations and the retries are finite in number.
LEMMA HeldFinite ==
  ASSUME TrackerOK, RetryOK
  PROVE  /\ IsFiniteSet(DOMAIN outstanding)
         /\ IsFiniteSet(DOMAIN retrying)
<1>1. \A id \in DOMAIN outstanding : id <= next_ack_id
  BY SMTT(30) DEF TrackerOK
<1>2. \A n \in DOMAIN retrying : n <= next_seq
  BY SMTT(30) DEF RetryOK, Retry!ScheduledOnce
<1>. QED BY <1>1, <1>2, FS_BoundedSetOfNaturals DEF TrackerOK, RetryOK

\* So are the expirations and the schedule: each has one entry per delivery or
\* retry.
LEMMA EntriesFinite ==
  ASSUME TrackerOK, RetryOK
  PROVE  IsFiniteSet(expirations) /\ IsFiniteSet(schedule)
<1>1. IsFiniteSet(DOMAIN outstanding) /\ IsFiniteSet(DOMAIN retrying)
  BY HeldFinite
<1>. DEFINE f == [e \in expirations |-> e[2]]
            g == [e \in schedule |-> e[2]]
<1>2. f \in Injection(expirations, DOMAIN outstanding)
  BY SMTT(30) DEF TrackerOK, Outstanding!SideBySide, Outstanding!ExpirationKey,
     Injection, IsInjective
<1>3. g \in Injection(schedule, DOMAIN retrying)
  <2>1. g \in [schedule -> DOMAIN retrying]
    BY DEF RetryOK, Retry!ScheduledOnce
  <2>2. IsInjective(g)
    BY DEF RetryOK, Retry!ScheduledOnce, IsInjective
  <2>. QED BY <2>1, <2>2 DEF Injection
<1>. QED BY <1>1, <1>2, <1>3, FS_Injection

-----------------------------------------------------------------------------
\* The signals keep their type.
LEMMA SignalTypes ==
  ASSUME ObserverTypeOK,
         NotifyNewMessagesAvailable \/ UNCHANGED availableVars,
         NotifyOutstandingFreed \/ UNCHANGED freedVars,
         UNCHANGED deleted_signal
  PROVE  ObserverTypeOK'
<1>1. waiting' \in Seq(Consumer) /\ told' \subseteq Consumer /\ permit' \in BOOLEAN
  <2>1. CASE UNCHANGED availableVars
    BY <2>1 DEF availableVars, ObserverTypeOK
  <2>2. CASE NotifyNewMessagesAvailable /\ waiting = << >>
    BY <2>2 DEF NotifyNewMessagesAvailable, ObserverTypeOK
  <2>3. CASE NotifyNewMessagesAvailable /\ waiting # << >>
    <3>1. waiting \in Seq(Consumer)
      BY DEF ObserverTypeOK
    <3>2. Tail(waiting) \in Seq(Consumer) /\ Head(waiting) \in Consumer
      BY <3>1, <2>3, SMTT(30)
    <3>. QED BY <2>3, <3>2 DEF NotifyNewMessagesAvailable, ObserverTypeOK
  <2>. QED BY <2>1, <2>2, <2>3
<1>2. created' \subseteq Consumer /\ called' \subseteq Consumer
  BY DEF NotifyNewMessagesAvailable, availableVars, ObserverTypeOK
<1>3. listening' \subseteq Consumer /\ freed' \subseteq Consumer
  BY DEF NotifyOutstandingFreed, freedVars, ObserverTypeOK
<1>. QED BY <1>1, <1>2, <1>3 DEF ObserverTypeOK

\* A notification keeps the type of the observer.
LEMMA NotifiedType ==
  ASSUME ObserverTypeOK, NEW condition, NotifyAvailableIf(condition)
  PROVE  ObserverTypeOK'
BY SignalTypes DEF NotifyAvailableIf

\* So does the notification of a deletion.
LEMMA DeletedType ==
  ASSUME ObserverTypeOK, NotifyDeleted, UNCHANGED freedVars
  PROVE  ObserverTypeOK'
<1>1. Range(waiting) \subseteq Consumer
  BY SMTT(30) DEF Range, ObserverTypeOK
<1>2. CASE deleted_signal
  BY <1>2 DEF NotifyDeleted, availableVars, freedVars, ObserverTypeOK
<1>3. CASE ~deleted_signal
  <2>1. waiting' \in Seq(Consumer) /\ called' \subseteq Consumer
    BY <1>1, <1>3, SMTT(30) DEF NotifyDeleted, ObserverTypeOK
  <2>. QED BY <1>3, <2>1 DEF NotifyDeleted, freedVars, ObserverTypeOK
<1>. QED BY <1>2, <1>3

-----------------------------------------------------------------------------
\* The operations on the tracker, as the actor uses them.
LEMMA AddDeliveries ==
  ASSUME TrackerOK, NEW n \in Nat,
         NEW new \in [next_ack_id .. (next_ack_id + n - 1) -> Delivery],
         Outstanding!Add(new), next_ack_id' = next_ack_id + n
  PROVE  TrackerOK'
<1>. DEFINE ids == next_ack_id .. (next_ack_id + n - 1)
<1>1. /\ outstanding' = [id \in DOMAIN outstanding \cup ids |->
                           IF id \in ids THEN new[id] ELSE outstanding[id]]
      /\ expirations' = expirations \cup {<<new[id].deadline, id>> : id \in ids}
  BY DEF Outstanding!Add
<1>2. ids \subseteq Nat /\ ids \cap DOMAIN outstanding = {}
  BY SMTT(30) DEF TrackerOK
<1>3. \A id \in ids : id < next_ack_id + n
  BY SMTT(30) DEF TrackerOK
<1>. HIDE DEF ids
<1>4. outstanding' \in [DOMAIN outstanding' -> Delivery]
      /\ DOMAIN outstanding' = DOMAIN outstanding \cup ids
  BY <1>1 DEF TrackerOK, ids
<1>5. expirations' \subseteq (Nat \X Nat)
  BY <1>1, <1>2, SMTT(30) DEF TrackerOK, Delivery, ids
<1>6. Outstanding!SideBySide'
  BY <1>1, <1>2
     DEF TrackerOK, Outstanding!SideBySide, Outstanding!ExpirationKey
<1>7. \A id \in DOMAIN outstanding' : id < next_ack_id'
  BY <1>2, <1>3, <1>4, SMTT(30) DEF TrackerOK
<1>. QED BY <1>2, <1>4, <1>5, <1>6, <1>7, SMTT(30) DEF TrackerOK

\* An acknowledgement keeps the tracker's two sides in step.
LEMMA RemoveDeliveries ==
  ASSUME TrackerOK, NEW ids, Outstanding!RemoveIds(ids), UNCHANGED next_ack_id
  PROVE  TrackerOK'
<1>. USE DEF Outstanding!RemoveIds
<1>1. Outstanding!SideBySide'
  BY SMTT(30) DEF TrackerOK, Outstanding!SideBySide, Outstanding!ExpirationKey
<1>. QED BY <1>1 DEF TrackerOK

\* So does taking the expired deliveries.
LEMMA TakeExpiredDeliveries ==
  ASSUME TrackerOK, NEW time, Outstanding!TakeExpired(time), UNCHANGED next_ack_id
  PROVE  TrackerOK'
<1>. USE DEF Outstanding!TakeExpired, Outstanding!Due, Outstanding!ExpiredIds
<1>1. Outstanding!SideBySide'
  BY SMTT(30) DEF TrackerOK, Outstanding!SideBySide, Outstanding!ExpirationKey
<1>. QED BY <1>1 DEF TrackerOK

\* So does clearing the tracker.
LEMMA ClearDeliveries ==
  ASSUME TrackerOK, Outstanding!Clear, UNCHANGED next_ack_id
  PROVE  TrackerOK'
BY DEF TrackerOK, Outstanding!Clear, Outstanding!SideBySide,
   Outstanding!ExpirationKey

\* The deadlines of a batch of modifications are naturals.
LEMMA ModificationType ==
  ASSUME NEW mods \in Modifications
  PROVE  \E n \in Nat : /\ DOMAIN mods = 1..n
                        /\ \A i \in 1..n : \/ mods[i].new_deadline \in Nat
                                           \/ mods[i].new_deadline = Nack
<1>1. PICK n \in 1..MaxMods : mods \in [1..n -> Modification]
  BY DEF Modifications
<1>2. \A t \in 0..MaxTime : AckDeadline(t) \in Nat
  BY DeadlineType, SMTT(30)
<1>. QED BY <1>1, <1>2, BoundsAssumption, SMTT(30) DEF Modification

\* So does a batch of modifications.
LEMMA ModifyDeliveries ==
  ASSUME TrackerOK, NEW mods \in Modifications,
         Outstanding!ModifyDeadlines(mods), UNCHANGED next_ack_id
  PROVE  TrackerOK'
<1>. DEFINE mentioned == Outstanding!Mentioned(mods)
            nacks == Outstanding!Nacks(mods)
            extended(id) == Outstanding!Extended(mods, id)
<1>1. PICK n \in Nat : /\ DOMAIN mods = 1..n
                       /\ \A i \in 1..n : \/ mods[i].new_deadline \in Nat
                                          \/ mods[i].new_deadline = Nack
  BY ModificationType
<1>2. mentioned \subseteq DOMAIN outstanding /\ nacks \subseteq mentioned
  BY DEF Outstanding!Mentioned, Outstanding!Nacks
<1>3. ASSUME NEW id \in mentioned \ nacks PROVE extended(id) \in Delivery
  <2>. DEFINE P == Outstanding!Positions(mods, id)
              p == Outstanding!LastPosition(mods, id)
  <2>1. P \subseteq 0..n /\ P # {}
    BY <1>1, SMTT(30) DEF Outstanding!Positions, Outstanding!Mentioned
  <2>2. p \in P
    BY <2>1, GreatestExists DEF Outstanding!LastPosition
  <2>3. mods[p].new_deadline \in Nat
    BY <1>1, <2>2 DEF Outstanding!Positions, Outstanding!Nacks
  <2>4. outstanding[id] \in Delivery
    BY <1>2 DEF TrackerOK
  <2>. QED BY <2>3, <2>4 DEF Outstanding!Extended, Delivery
<1>. HIDE DEF mentioned, nacks, extended
<1>4. /\ outstanding' = [id \in DOMAIN outstanding \ nacks |->
                           IF id \in mentioned THEN extended(id)
                           ELSE outstanding[id]]
      /\ expirations' =
           (expirations \ {<<outstanding[id].deadline, id>> : id \in mentioned})
             \cup {<<extended(id).deadline, id>> : id \in mentioned \ nacks}
  BY DEF Outstanding!ModifyDeadlines, Outstanding!ModifiedMessages,
     Outstanding!ModifiedExpirations, Outstanding!ExpirationKey, mentioned,
     nacks, extended
<1>5. Outstanding!SideBySide'
  BY <1>2, <1>4, SMTT(30)
     DEF TrackerOK, Outstanding!SideBySide, Outstanding!ExpirationKey
<1>6. outstanding' \in [DOMAIN outstanding' -> Delivery]
      /\ DOMAIN outstanding' = DOMAIN outstanding \ nacks
  BY <1>3, <1>4 DEF TrackerOK
<1>7. expirations' \subseteq (Nat \X Nat)
  BY <1>2, <1>3, <1>4, SMTT(30) DEF TrackerOK, Delivery
<1>. QED BY <1>5, <1>6, <1>7 DEF TrackerOK

-----------------------------------------------------------------------------
\* The operations on the retry queue, as the actor uses them.
Backoffs == [message : Message, deliver_at : Nat]

\* Adding entries keeps the retry queue's two sides in step.
LEMMA AddRetries ==
  ASSUME RetryOK, NEW entries \in Seq(Backoffs), Retry!Add(entries)
  PROVE  RetryOK'
<1>. DEFINE k == Len(entries)
            added == next_seq .. (next_seq + k - 1)
            at(n) == entries[n - next_seq + 1].deliver_at
            of(n) == entries[n - next_seq + 1].message
<1>1. k \in Nat /\ next_seq \in Nat
  BY SMTT(30) DEF RetryOK
<1>2. \A n \in added : at(n) \in Nat /\ of(n) \in Message
  <2>. TAKE n \in added
  <2>1. n - next_seq + 1 \in 1..k
    BY <1>1, SMTT(30)
  <2>2. entries[n - next_seq + 1] \in Backoffs
    BY <2>1, SMTT(30)
  <2>. QED BY <2>2 DEF Backoffs
<1>3. /\ next_seq' = next_seq + k
      /\ schedule' = schedule \cup {<<at(n), n>> : n \in added}
      /\ retrying' = [n \in DOMAIN retrying \cup added |->
                        IF n \in added THEN of(n) ELSE retrying[n]]
  BY DEF Retry!Add
<1>4. \A n \in added : n \in Nat /\ n >= next_seq /\ n < next_seq + k
  BY <1>1, SMTT(30)
<1>. HIDE DEF k, added, at, of
<1>5. \A e \in schedule : e[2] \in DOMAIN retrying /\ e[2] \notin added
  <2>. TAKE e \in schedule
  <2>1. e[2] \in DOMAIN retrying
    BY DEF RetryOK, Retry!ScheduledOnce
  <2>2. e[2] \in Nat /\ e[2] < next_seq
    BY <2>1 DEF RetryOK, Retry!ScheduledOnce
  <2>. QED BY <1>1, <1>4, <2>1, <2>2, SMTT(30)
<1>6. {e[2] : e \in schedule'} = DOMAIN retrying'
  <2>. DEFINE new == {<<at(n), n>> : n \in added}
  <2>1. ASSUME NEW n \in added PROVE n \in {e[2] : e \in new}
    <3>. DEFINE e == <<at(n), n>>
    <3>1. e \in new /\ e[2] = n
      OBVIOUS
    <3>. QED BY <3>1
  <2>2. \A e \in new : e[2] \in added
    BY SMTT(30)
  <2>3. schedule' = schedule \cup new
    BY <1>3
  <2>4. DOMAIN retrying' = {e[2] : e \in schedule} \cup added
    BY <1>3 DEF RetryOK, Retry!ScheduledOnce
  <2>. HIDE DEF new
  <2>. QED BY <2>1, <2>2, <2>3, <2>4
<1>7. \A e, f \in schedule' : e[2] = f[2] => e = f
  <2>1. \A e \in schedule' : e \in schedule \/ \E n \in added : e = <<at(n), n>>
    BY <1>3
  <2>2. \A e, f \in schedule : e[2] = f[2] => e = f
    BY DEF RetryOK, Retry!ScheduledOnce
  <2>. QED BY <1>5, <2>1, <2>2, SMTT(30)
<1>8. \A n \in DOMAIN retrying' : n < next_seq'
  BY <1>1, <1>3, <1>4, SMTT(30) DEF RetryOK, Retry!ScheduledOnce
<1>9. Retry!ScheduledOnce'
  BY <1>6, <1>7, <1>8 DEF Retry!ScheduledOnce
<1>10. schedule' \subseteq (Nat \X Nat)
  BY <1>2, <1>3, <1>4, SMTT(30) DEF RetryOK
<1>11. /\ DOMAIN retrying' \subseteq Nat
       /\ retrying' \in [DOMAIN retrying' -> Message]
  BY <1>2, <1>3, <1>4 DEF RetryOK
<1>. QED BY <1>1, <1>3, <1>9, <1>10, <1>11, SMTT(30) DEF RetryOK

\* So does taking the ready ones.
LEMMA TakeReadyRetries ==
  ASSUME RetryOK, NEW time, Retry!TakeReady(time)
  PROVE  RetryOK'
<1>. USE DEF Retry!TakeReady, Retry!Ready
<1>1. Retry!ScheduledOnce'
  BY DEF RetryOK, Retry!ScheduledOnce
<1>. QED BY <1>1 DEF RetryOK

\* So does clearing the queue.
LEMMA ClearRetries ==
  ASSUME RetryOK, Retry!Clear
  PROVE  RetryOK'
BY DEF RetryOK, Retry!Clear, Retry!ScheduledOnce

-----------------------------------------------------------------------------
\* Returning messages to the queues keeps the queues' type.
LEMMA RequeueEachType ==
  ASSUME NEW list \in Seq(Message), NEW b \in Seq(Message),
         NEW q \in [Keys -> Seq(Message)], NEW f, f \subseteq Keys,
         RequeueEach(list, b, q, f)
  PROVE  QueueOK'
<1>1. backlog' \in Seq(Message)
  <2>1. Retain(list, Unkeyed) \in Seq(Message)
    BY RetainSelects
  <2>. QED BY <2>1, ConcatIsSeq DEF RequeueEach
<1>2. \A k \in Keys : Reversed(Retain(list, OfKey(k))) \o q[k] \in Seq(Message)
  <2>. TAKE k \in Keys
  <2>1. Retain(list, OfKey(k)) \in Seq(Message)
    BY RetainSelects
  <2>2. Reversed(Retain(list, OfKey(k))) \in Seq(Message)
    BY <2>1, ReverseIsSeq
  <2>. QED BY <2>2, ConcatIsSeq
<1>3. ordered_queues' \in [Keys -> Seq(Message)]
  BY <1>2 DEF RequeueEach
<1>4. keys_in_flight' \subseteq Keys
  BY DEF RequeueEach
<1>. QED BY <1>1, <1>3, <1>4 DEF QueueOK

\* The messages behind a list of deliveries.
LEMMA MessagesOfType ==
  ASSUME TrackerOK, NEW ids \in Seq(DOMAIN outstanding)
  PROVE  MessagesOf(ids) \in Seq(Message)
<1>1. \A i \in 1..Len(ids) : outstanding[ids[i]].message \in Message
  BY SMTT(30) DEF TrackerOK, Delivery
<1>. QED BY <1>1, SMTT(30) DEF MessagesOf

\* The next attempt is a number.
LEMMA NextAttemptType ==
  ASSUME AccountOK, NEW m \in Message
  PROVE  NextAttempt(m) \in Nat
<1>1. delivery_attempts[m] \in Nat
  BY DEF AccountOK
<1>. DEFINE both == {delivery_attempts[m] + 1, U16 - 1}
<1>2. both \subseteq Nat /\ both # {}
  BY <1>1, ConstantTypes, SMTT(30)
<1>3. Min(both) \in Nat
  BY <1>2, MinIsLeast
<1>. QED BY <1>3 DEF NextAttempt

\* The entries that requeue_messages adds have their type.
LEMMA RetriesType ==
  ASSUME AccountOK, ConfigOK, now \in Nat, info.retry_policy # None,
         NEW list \in Seq(Message)
  PROVE  Retries(list) \in Seq(Backoffs)
<1>1. info.retry_policy \in Policy
  BY ConfigurationAssumption DEF ConfigOK, Info
<1>. DEFINE at(m) == AckDeadline(now + CalculateBackoff(info.retry_policy,
                                                        NextAttempt(m)))
<1>2. \A m \in Message : at(m) \in Nat
  <2>. TAKE m \in Message
  <2>1. CalculateBackoff(info.retry_policy, NextAttempt(m)) \in Nat
    BY <1>1, NextAttemptType, BackoffType
  <2>. QED BY <2>1, DeadlineType, SMTT(30)
<1>3. Retries(list) = [i \in 1..Len(list) |->
                         [message |-> list[i], deliver_at |-> at(list[i])]]
  BY SMTT(30) DEF Retries
<1>. HIDE DEF at
<1>4. \A i \in 1..Len(list) :
        [message |-> list[i], deliver_at |-> at(list[i])] \in Backoffs
  BY <1>2, SMTT(30) DEF Backoffs
<1>. QED BY <1>3, <1>4, SMTT(30)

\* requeue_messages keeps the types of everything it changes.
LEMMA RequeueMessagesType ==
  ASSUME IInv, NEW list \in Seq(Message), NEW counter \in Counters, NEW found,
         RequeueMessages(list, counter, found), UNCHANGED withdrawn
  PROVE  QueueOK' /\ RetryOK' /\ AccountOK' /\ ObserverTypeOK'
<1>. DEFINE dead == {m \in Range(list) : ExceedsAttempts(m)}
            rest == Retain(list, Message \ dead)
<1>1. Range(list) \subseteq Message /\ dead \subseteq Message
  BY SMTT(30) DEF Range
<1>2. rest \in Seq(Message)
  BY RetainSelects
<1>. HIDE DEF dead, rest
<1>3. /\ IF info.retry_policy = None
         THEN /\ RequeueEach(rest, backlog, ordered_queues, keys_in_flight)
              /\ UNCHANGED retryVars
         ELSE Delay(rest)
      /\ delivery_attempts' =
           [m \in Message |-> IF m \in dead THEN 0
                              ELSE IF m \in Range(rest) THEN NextAttempt(m)
                              ELSE delivery_attempts[m]]
      /\ Settle(dead, IF topic_manager /\ found THEN "forwarded" ELSE "dropped")
      /\ Tally(counter, list, dead)
      /\ NotifyAvailableIf(backlog' # << >>)
  BY DEF RequeueMessages, dead, rest
<1>4. QueueOK' /\ RetryOK'
  <2>1. CASE info.retry_policy = None
    <3>1. QueueOK'
      BY <1>2, <1>3, <2>1, RequeueEachType DEF IInv, QueueOK
    <3>2. RetryOK'
      BY <1>3, <2>1 DEF IInv, RetryOK, retryVars, Retry!ScheduledOnce
    <3>. QED BY <3>1, <3>2
  <2>2. CASE info.retry_policy # None
    <3>1. Retries(rest) \in Seq(Backoffs)
      BY <1>2, <2>2, RetriesType DEF IInv, ClientOK
    <3>2. RetryOK'
      BY <1>3, <2>2, <3>1, AddRetries DEF IInv, Delay
    <3>3. QueueOK'
      BY <1>3, <2>2 DEF IInv, QueueOK, Delay, queueVars
    <3>. QED BY <3>2, <3>3
  <2>. QED BY <2>1, <2>2
<1>5. AccountOK'
  <2>1. delivery_attempts' \in [Message -> Nat]
    <3>1. \A m \in Message : NextAttempt(m) \in Nat /\ delivery_attempts[m] \in Nat
      BY NextAttemptType DEF IInv, AccountOK
    <3>. QED BY <1>3, <3>1
  <2>2. fate' \in [Message -> Fates]
    BY <1>3 DEF Settle, Fates, IInv, AccountOK
  <2>3. Cardinality(dead) \in Nat
    BY <1>1, ConstantTypes, FS_Subset, FS_CardinalityType
  <2>4. Len(list) \in Nat
    BY SMTT(30)
  <2>5. counters' \in [Counters -> Nat]
    <3>1. "dead_lettered" \in Counters
      BY DEF Counters
    <3>2. counters \in [Counters -> Nat]
      BY DEF IInv, AccountOK
    <3>. QED BY <1>3, <2>3, <2>4, <3>1, <3>2, SMTT(30) DEF Tally
  <2>. QED BY <2>1, <2>2, <2>5 DEF IInv, AccountOK
<1>6. ObserverTypeOK'
  BY <1>3, NotifiedType DEF IInv
<1>. QED BY <1>4, <1>5, <1>6

-----------------------------------------------------------------------------
\* The invariant holds initially.
LEMMA InitIInv == Init => IInv
<1>. SUFFICES ASSUME Init PROVE IInv
  OBVIOUS
<1>1. QueueOK
  BY SMTT(30) DEF Init, QueueOK
<1>2. TrackerOK
  BY SMTT(30) DEF Init, TrackerOK, Outstanding!Init, Outstanding!SideBySide,
     Outstanding!ExpirationKey
<1>3. RetryOK
  BY DEF Init, RetryOK, Retry!Init, Retry!ScheduledOnce
<1>4. ClientOK
  BY BoundsAssumption, SMTT(30) DEF Init, ClientOK
<1>5. ConfigOK
  BY DEF Init, ConfigOK, GivenTopicManager
<1>6. AccountOK
  BY SMTT(30) DEF Init, AccountOK, Counters, Fates
<1>7. ObserverTypeOK
  <2>1. ObserverInit
    BY DEF Init
  <2>2. waiting \in Seq(Consumer)
    BY <2>1, SMTT(30) DEF ObserverInit
  <2>3. permit = FALSE /\ deleted_signal = FALSE
    BY <2>1 DEF ObserverInit
  <2>. QED BY <2>1, <2>2, <2>3 DEF ObserverInit, ObserverTypeOK
<1>. QED BY <1>1, <1>2, <1>3, <1>4, <1>5, <1>6, <1>7 DEF IInv

\* Every step preserves it, action by action.
LEMMA PostMessagesIInv ==
  ASSUME IInv, NEW n \in 1..MaxPost, NEW time \in 0..now, PostMessages(n, time)
  PROVE  IInv'
<1>. DEFINE batch == [i \in 1..n |-> posted + i]
            accepted == Retain(batch, IF deleted THEN {} ELSE Matching)
<1>1. n \in Nat /\ time \in Nat /\ posted \in Nat /\ posted + n <= MaxMessages
  BY BoundsAssumption, SMTT(30) DEF IInv, ClientOK, PostMessages
<1>2. batch \in Seq(Message)
  <2>1. \A i \in 1..n : posted + i \in Message
    BY <1>1, BoundsAssumption, SMTT(30) DEF Message
  <2>. QED BY <1>1, <2>1, SMTT(30)
<1>3. accepted \in Seq(Message)
  BY <1>2, RetainSelects
<1>. HIDE DEF batch, accepted
<1>4. /\ posted' = posted + n
      /\ published' = [m \in Message |->
                         IF m \in Range(batch) THEN time ELSE published[m]]
      /\ backlog' = backlog \o Retain(accepted, Unkeyed)
      /\ ordered_queues' =
           [k \in Keys |-> ordered_queues[k] \o Retain(accepted, OfKey(k))]
      /\ fate' = [m \in Message |->
                    IF m \in Range(accepted) THEN "live"
                    ELSE IF m \in Range(batch) THEN "dropped" ELSE fate[m]]
      /\ NotifyAvailableIf(accepted # << >>)
  BY DEF PostMessages, batch, accepted
<1>5. UNCHANGED <<now, configVars, keys_in_flight, delivery_attempts,
                  next_ack_id, trackerVars, retryVars, counters, lifeVars,
                  withdrawn>>
  BY DEF PostMessages
<1>6. QueueOK'
  <2>1. backlog' \in Seq(Message)
    <3>1. Retain(accepted, Unkeyed) \in Seq(Message)
      BY <1>3, RetainSelects
    <3>. QED BY <1>4, <3>1, ConcatIsSeq DEF IInv, QueueOK
  <2>2. \A k \in Keys : ordered_queues[k] \o Retain(accepted, OfKey(k))
                          \in Seq(Message)
    <3>. TAKE k \in Keys
    <3>1. Retain(accepted, OfKey(k)) \in Seq(Message)
      BY <1>3, RetainSelects
    <3>. QED BY <3>1, ConcatIsSeq DEF IInv, QueueOK
  <2>. QED BY <1>4, <1>5, <2>1, <2>2 DEF IInv, QueueOK
<1>7. TrackerOK'
  BY <1>5 DEF IInv, TrackerOK, trackerVars, Outstanding!SideBySide,
     Outstanding!ExpirationKey
<1>8. RetryOK'
  BY <1>5 DEF IInv, RetryOK, retryVars, Retry!ScheduledOnce
<1>9. ClientOK'
  BY <1>1, <1>4, <1>5, SMTT(30) DEF IInv, ClientOK
<1>10. ConfigOK'
  BY <1>5 DEF IInv, ConfigOK, configVars, lifeVars
<1>11. AccountOK'
  BY <1>4, <1>5 DEF IInv, AccountOK, Fates
<1>12. ObserverTypeOK'
  BY <1>4, NotifiedType DEF IInv
<1>. QED BY <1>6, <1>7, <1>8, <1>9, <1>10, <1>11, <1>12 DEF IInv

\* A pull hands out messages the subscription holds, under new ids.
LEMMA LivePositionType ==
  ASSUME QueueOK, NEW k \in Keys
  PROVE  /\ LivePosition(k) \in 1..(Len(ordered_queues[k]) + 1)
         /\ HasLive(k) =>
              ordered_queues[k][LivePosition(k)] \in Message \cap Live
<1>1. ordered_queues[k] \in Seq(Message)
  BY DEF QueueOK
<1>. DEFINE len == Len(ordered_queues[k])
            places == {i \in DOMAIN ordered_queues[k] :
                         ordered_queues[k][i] \in Live} \cup {len + 1}
<1>2. len \in Nat /\ DOMAIN ordered_queues[k] = 1..len
  BY <1>1, SMTT(30)
<1>3. places \subseteq 1..(len + 1) /\ places # {}
  BY <1>2, SMTT(30)
<1>4. places \subseteq Nat
  BY <1>2, <1>3, SMTT(30)
<1>5. LivePosition(k) \in places
  <2>1. LivePosition(k) = Min(places)
    BY DEF LivePosition
  <2>. HIDE DEF places
  <2>. QED BY <1>3, <1>4, <2>1, MinIsLeast
<1>. QED BY <1>1, <1>2, <1>3, <1>5, SMTT(30) DEF HasLive

\* A pull pops no more than the backlog has.
LEMMA PoppedType ==
  ASSUME QueueOK, NEW room
  PROVE  Popped(room) \in 0..Len(backlog)
<1>. DEFINE counts == {n \in 0..Len(backlog) :
               Cardinality({i \in 1..n : backlog[i] \in Live}) = room}
              \cup {Len(backlog)}
<1>1. Len(backlog) \in Nat
  BY SMTT(30) DEF QueueOK
<1>2. counts \subseteq 0..Len(backlog) /\ counts # {}
  BY <1>1, SMTT(30)
<1>3. Popped(room) \in counts
  <2>1. Popped(room) = Min(counts)
    BY DEF Popped
  <2>2. counts \subseteq Nat
    BY <1>1, SMTT(30)
  <2>. HIDE DEF counts
  <2>. QED BY <1>2, <2>1, <2>2, MinIsLeast
<1>. QED BY <1>2, <1>3

\* The part of a sequence after its first n elements is a sequence.
LEMMA RestIsSeq ==
  ASSUME NEW S, NEW s \in Seq(S), NEW n \in Nat
  PROVE  SubSeq(s, n + 1, Len(s)) \in Seq(S)
BY SMTT(30)

\* Handing out a batch keeps the invariant.
LEMMA DeliverType ==
  ASSUME IInv, NEW visited, visited \subseteq Keys,
         NEW keys \in Listings({k \in visited : HasLive(k)}),
         NEW popped \in 0..Len(backlog), Deliver(keys, visited, popped),
         UNCHANGED withdrawn
  PROVE  /\ QueueOK' /\ TrackerOK' /\ AccountOK'
         /\ \E new : Outstanding!Add(new) /\ \A id \in DOMAIN new :
              new[id].delivery_attempt \in {1} \cup Range(delivery_attempts)
<1>. DEFINE ready == {k \in visited : HasLive(k)}
            heads == [i \in DOMAIN keys |->
                        ordered_queues[keys[i]][LivePosition(keys[i])]]
            front == SubSeq(backlog, 1, popped)
            batch == heads \o Retain(front, Live)
            ids == next_ack_id .. (next_ack_id + Len(batch) - 1)
            attempt(m) == IF delivery_attempts[m] = 0 THEN 1
                          ELSE delivery_attempts[m]
            delivery(m) == [message |-> m,
                            deadline |-> AckDeadline(now + info.ack_deadline),
                            delivery_attempt |-> attempt(m)]
            new == [id \in ids |-> delivery(batch[id - next_ack_id + 1])]
<1>1. /\ keys \in Seq(ready) /\ Range(keys) = ready /\ DOMAIN keys = 1..Len(keys)
      /\ ready \subseteq Keys
  <2>1. IsFiniteSet(ready)
    BY ConstantTypes, FS_Subset
  <2>. QED BY <2>1, ListingIsSeq
<1>2. heads \in Seq(Message)
  <2>1. \A i \in 1..Len(keys) :
          ordered_queues[keys[i]][LivePosition(keys[i])] \in Message
    BY <1>1, LivePositionType, SMTT(30) DEF IInv
  <2>. QED BY <1>1, <2>1, SMTT(30)
<1>3. front \in Seq(Message)
  BY SMTT(30) DEF IInv, QueueOK
<1>4. Retain(front, Live) \in Seq(Message)
  BY <1>3, RetainSelects
<1>5. batch \in Seq(Message)
  BY <1>2, <1>4, ConcatIsSeq
<1>. HIDE DEF heads, front, batch, ready
<1>6. \A m \in Message : delivery(m) \in Delivery
  <2>1. AckDeadline(now + info.ack_deadline) \in Nat
    <3>1. now + info.ack_deadline \in Nat
      BY ConfigurationAssumption, SMTT(30) DEF IInv, ClientOK, ConfigOK, Info
    <3>. QED BY <3>1, DeadlineType
  <2>2. \A m \in Message : attempt(m) \in Nat
    BY DEF IInv, AccountOK
  <2>. HIDE DEF attempt
  <2>. QED BY <2>1, <2>2 DEF Delivery
<1>a. \A m \in Message :
        delivery(m).delivery_attempt \in {1} \cup Range(delivery_attempts)
  BY DEF Range, IInv, AccountOK
<1>. HIDE DEF delivery
<1>b. \A id \in ids : batch[id - next_ack_id + 1] \in Message
  BY <1>5, SMTT(30) DEF IInv, TrackerOK
<1>7. /\ new \in [ids -> Delivery]
      /\ \A id \in DOMAIN new :
           new[id].delivery_attempt \in {1} \cup Range(delivery_attempts)
  <2>. HIDE DEF ids
  <2>. QED BY <1>6, <1>a, <1>b
<1>8. /\ next_ack_id' = next_ack_id + Len(batch)
      /\ Outstanding!Add(new)
      /\ keys_in_flight' = keys_in_flight \cup Range(keys)
      /\ ordered_queues' =
           [k \in Keys |->
              IF k \in visited
              THEN SubSeq(ordered_queues[k], LivePosition(k) + 1,
                          Len(ordered_queues[k]))
              ELSE ordered_queues[k]]
      /\ backlog' = SubSeq(backlog, popped + 1, Len(backlog))
      /\ Count("pulled", Len(batch))
  BY DEF Deliver, AckIdAfter, batch, heads, front, delivery
<1>9. QueueOK'
  <2>1. \A k \in Keys : SubSeq(ordered_queues[k], LivePosition(k) + 1,
                               Len(ordered_queues[k])) \in Seq(Message)
    <3>. TAKE k \in Keys
    <3>1. LivePosition(k) \in Nat
      BY LivePositionType, SMTT(30) DEF IInv
    <3>. QED BY <3>1, RestIsSeq DEF IInv, QueueOK
  <2>2. SubSeq(backlog, popped + 1, Len(backlog)) \in Seq(Message)
    BY RestIsSeq, SMTT(30) DEF IInv, QueueOK
  <2>. QED BY <1>1, <1>8, <2>1, <2>2 DEF IInv, QueueOK
<1>10. TrackerOK'
  <2>1. Len(batch) \in Nat
    BY <1>5, SMTT(30)
  <2>. HIDE DEF new
  <2>. QED BY <1>7, <1>8, <2>1, AddDeliveries DEF IInv
<1>11. AccountOK'
  <2>1. delivery_attempts' \in [Message -> Nat]
    BY DEF Deliver, IInv, AccountOK
  <2>2. fate' \in [Message -> Fates]
    BY DEF Deliver, Settle, Fates, IInv, AccountOK
  <2>3. counters' \in [Counters -> Nat]
    <3>1. "pulled" \in Counters
      BY DEF Counters
    <3>. QED BY <1>5, <1>8, <3>1, SMTT(30) DEF Count, IInv, AccountOK
  <2>. QED BY <2>1, <2>2, <2>3 DEF IInv, AccountOK
<1>. HIDE DEF new
<1>. QED BY <1>7, <1>8, <1>9, <1>10, <1>11

\* pull_messages keeps the invariant.
LEMMA PullMessagesIInv ==
  ASSUME IInv, NEW max_count, NEW max_outstanding,
         PullMessages(max_count, max_outstanding)
  PROVE  IInv'
<1>. DEFINE capacity == Capacity(max_count, max_outstanding)
            visited == Visited(capacity)
<1>1. visited \subseteq Keys
  BY DEF Visited, FreeKeys
<1>2. PICK keys \in Ascending({k \in visited : HasLive(k)}) :
        Deliver(keys, visited, Popped(capacity - Len(keys)))
  BY DEF PullMessages
<1>3. UNCHANGED <<now, clientVars, configVars, retryVars, lifeVars, withdrawn>>
  BY DEF PullMessages
<1>4. QueueOK' /\ TrackerOK' /\ AccountOK'
  <2>. HIDE DEF visited, capacity
  <2>1. Popped(capacity - Len(keys)) \in 0..Len(backlog)
    BY PoppedType DEF IInv
  <2>2. keys \in Listings({k \in visited : HasLive(k)})
    BY DEF Ascending
  <2>. QED BY <1>1, <1>2, <1>3, <2>1, <2>2, DeliverType
<1>5. ObserverTypeOK'
  BY NotifiedType DEF PullMessages, IInv
<1>6. RetryOK'
  BY <1>3 DEF IInv, RetryOK, retryVars, Retry!ScheduledOnce
<1>7. ClientOK' /\ ConfigOK'
  BY <1>3 DEF IInv, ClientOK, ConfigOK, clientVars, configVars, lifeVars
<1>. QED BY <1>4, <1>5, <1>6, <1>7 DEF IInv

\* acknowledge_messages keeps the invariant.
LEMMA AcknowledgeMessagesIInv ==
  ASSUME IInv, NEW ids, AcknowledgeMessages(ids)
  PROVE  IInv'
<1>. DEFINE valid == ids \cap DOMAIN outstanding
<1>1. Cardinality(valid) \in Nat
  BY HeldFinite, FS_Subset, FS_CardinalityType DEF IInv
<1>2. UNCHANGED <<now, clientVars, configVars, backlog, ordered_queues,
                  next_ack_id, retryVars, lifeVars, withdrawn, deleted_signal>>
  BY DEF AcknowledgeMessages
<1>3. QueueOK'
  BY <1>2 DEF AcknowledgeMessages, IInv, QueueOK
<1>4. TrackerOK'
  BY <1>2, RemoveDeliveries DEF AcknowledgeMessages, IInv
<1>5. RetryOK'
  BY <1>2 DEF IInv, RetryOK, retryVars, Retry!ScheduledOnce
<1>6. ClientOK' /\ ConfigOK'
  BY <1>2 DEF IInv, ClientOK, ConfigOK, clientVars, configVars, lifeVars
<1>7. AccountOK'
  <2>1. delivery_attempts' \in [Message -> Nat]
    BY DEF AcknowledgeMessages, IInv, AccountOK
  <2>2. fate' \in [Message -> Fates]
    BY DEF AcknowledgeMessages, Settle, Fates, IInv, AccountOK
  <2>3. counters' \in [Counters -> Nat]
    <3>1. Count("acked", Cardinality(valid))
      BY DEF AcknowledgeMessages
    <3>2. "acked" \in Counters
      BY DEF Counters
    <3>. QED BY <1>1, <3>1, <3>2, SMTT(30) DEF Count, IInv, AccountOK
  <2>. QED BY <1>2, <2>1, <2>2, <2>3 DEF IInv, AccountOK
<1>8. ObserverTypeOK'
  BY <1>2, SignalTypes DEF AcknowledgeMessages, IInv
<1>. QED BY <1>3, <1>4, <1>5, <1>6, <1>7, <1>8 DEF IInv

\* The ids a batch of modifications nacks.
LEMMA NacksType ==
  ASSUME TrackerOK, RetryOK, NEW mods, NEW nacks \in NackOrder(mods)
  PROVE  nacks \in Seq(DOMAIN outstanding)
<1>1. Outstanding!Nacks(mods) \subseteq DOMAIN outstanding
  BY DEF Outstanding!Nacks, Outstanding!Mentioned
<1>2. IsFiniteSet(Outstanding!Nacks(mods))
  BY <1>1, HeldFinite, FS_Subset
<1>3. nacks \in Seq(Outstanding!Nacks(mods))
  BY <1>2, ListingIsSeq DEF NackOrder
<1>. QED BY <1>1, <1>3, SMTT(30)

\* modify_deadline keeps the invariant.
LEMMA ModifyDeadlineIInv ==
  ASSUME IInv, NEW mods \in Modifications, NEW found, ModifyDeadline(mods, found)
  PROVE  IInv'
<1>1. PICK nacks \in NackOrder(mods) :
        RequeueMessages(MessagesOf(nacks), "nacked", found)
  BY DEF ModifyDeadline
<1>2. UNCHANGED <<now, clientVars, configVars, next_ack_id, lifeVars, withdrawn>>
  BY DEF ModifyDeadline
<1>3. nacks \in Seq(DOMAIN outstanding)
  BY NacksType DEF IInv
<1>4. MessagesOf(nacks) \in Seq(Message)
  BY <1>3, MessagesOfType DEF IInv
<1>5. "nacked" \in Counters
  BY DEF Counters
<1>6. QueueOK' /\ RetryOK' /\ AccountOK' /\ ObserverTypeOK'
  BY <1>1, <1>2, <1>4, <1>5, RequeueMessagesType
<1>7. TrackerOK'
  BY <1>2, ModifyDeliveries DEF ModifyDeadline, IInv
<1>8. ClientOK' /\ ConfigOK'
  BY <1>2 DEF IInv, ClientOK, ConfigOK, clientVars, configVars, lifeVars
<1>. QED BY <1>6, <1>7, <1>8 DEF IInv

\* The ids of the expired deliveries, in the order of their expirations.
LEMMA DueType ==
  ASSUME TrackerOK, RetryOK, NEW due \in InOrder(Outstanding!Due(now))
  PROVE  [i \in DOMAIN due |-> due[i][2]] \in Seq(DOMAIN outstanding)
<1>. DEFINE D == Outstanding!Due(now)
<1>1. D \subseteq expirations
  BY DEF Outstanding!Due
<1>2. \A e \in D : e[2] \in DOMAIN outstanding
  BY <1>1, SMTT(30)
     DEF TrackerOK, Outstanding!SideBySide, Outstanding!ExpirationKey
<1>3. IsFiniteSet(D)
  BY <1>1, EntriesFinite, FS_Subset
<1>4. due \in Seq(D) /\ DOMAIN due = 1..Len(due)
  BY <1>3, ListingIsSeq DEF InOrder
<1>. HIDE DEF D
<1>5. \A i \in 1..Len(due) : due[i][2] \in DOMAIN outstanding
  BY <1>2, <1>4, SMTT(30)
<1>. QED BY <1>4, <1>5, SMTT(30)

\* Taking back expired deliveries keeps the invariant.
LEMMA HandleExpiredMessagesIInv ==
  ASSUME IInv, NEW found, HandleExpiredMessages(found)
  PROVE  IInv'
<1>1. PICK due \in InOrder(Outstanding!Due(now)) :
        RequeueMessages(MessagesOf([i \in DOMAIN due |-> due[i][2]]),
                        "expired", found)
  BY DEF HandleExpiredMessages
<1>2. UNCHANGED <<now, clientVars, configVars, next_ack_id, lifeVars, withdrawn>>
  BY DEF HandleExpiredMessages
<1>3. MessagesOf([i \in DOMAIN due |-> due[i][2]]) \in Seq(Message)
  BY DueType, MessagesOfType DEF IInv
<1>4. "expired" \in Counters
  BY DEF Counters
<1>5. QueueOK' /\ RetryOK' /\ AccountOK' /\ ObserverTypeOK'
  BY <1>1, <1>2, <1>3, <1>4, RequeueMessagesType
<1>6. TrackerOK'
  BY <1>2, TakeExpiredDeliveries DEF HandleExpiredMessages, IInv
<1>7. ClientOK' /\ ConfigOK'
  BY <1>2 DEF IInv, ClientOK, ConfigOK, clientVars, configVars, lifeVars
<1>. QED BY <1>5, <1>6, <1>7 DEF IInv

\* The messages whose backoff has elapsed, in the order of the schedule.
LEMMA ReadyType ==
  ASSUME TrackerOK, RetryOK, NEW due \in InOrder(Retry!Ready(now))
  PROVE  [i \in DOMAIN due |-> retrying[due[i][2]]] \in Seq(Message)
<1>. DEFINE D == Retry!Ready(now)
<1>1. D \subseteq schedule
  BY DEF Retry!Ready
<1>2. \A e \in D : e[2] \in DOMAIN retrying
  BY <1>1 DEF RetryOK, Retry!ScheduledOnce
<1>3. IsFiniteSet(D)
  BY <1>1, EntriesFinite, FS_Subset
<1>4. due \in Seq(D) /\ DOMAIN due = 1..Len(due)
  BY <1>3, ListingIsSeq DEF InOrder
<1>. HIDE DEF D
<1>5. \A i \in 1..Len(due) : retrying[due[i][2]] \in Message
  BY <1>2, <1>4, SMTT(30) DEF RetryOK
<1>. QED BY <1>4, <1>5, SMTT(30)

\* Taking the ready retries keeps the invariant.
LEMMA HandleRetryReadyIInv ==
  ASSUME IInv, HandleRetryReady
  PROVE  IInv'
<1>1. UNCHANGED <<now, clientVars, configVars, next_ack_id, trackerVars,
                  counters, lifeVars, withdrawn>>
  BY DEF HandleRetryReady
<1>2. PICK due \in InOrder(Retry!Ready(now)) :
        LET ready == [i \in DOMAIN due |-> retrying[due[i][2]]]
            kept == Retain(ready, Live)
            stale == Range(ready) \ Live
        IN  /\ RequeueEach(kept, backlog, ordered_queues, keys_in_flight)
            /\ delivery_attempts' = [m \in Message |->
                 IF m \in stale THEN 0 ELSE delivery_attempts[m]]
            /\ Settle(stale, "dropped")
            /\ NotifyAvailableIf(kept # << >>)
  BY DEF HandleRetryReady
<1>. DEFINE ready == [i \in DOMAIN due |-> retrying[due[i][2]]]
            kept == Retain(ready, Live)
<1>3. kept \in Seq(Message)
  BY ReadyType, RetainSelects DEF IInv
<1>4. RequeueEach(kept, backlog, ordered_queues, keys_in_flight)
  BY <1>2
<1>5. QueueOK'
  <2>. HIDE DEF kept
  <2>. QED BY <1>3, <1>4, RequeueEachType DEF IInv, QueueOK
<1>6. TrackerOK'
  BY <1>1 DEF IInv, TrackerOK, trackerVars, Outstanding!SideBySide,
     Outstanding!ExpirationKey
<1>7. RetryOK'
  BY TakeReadyRetries DEF HandleRetryReady, IInv
<1>8. ClientOK' /\ ConfigOK'
  BY <1>1 DEF IInv, ClientOK, ConfigOK, clientVars, configVars, lifeVars
<1>9. AccountOK'
  <2>1. delivery_attempts' \in [Message -> Nat]
    BY <1>2 DEF IInv, AccountOK
  <2>2. fate' \in [Message -> Fates]
    BY <1>2 DEF Settle, Fates, IInv, AccountOK
  <2>. QED BY <1>1, <2>1, <2>2 DEF IInv, AccountOK
<1>10. ObserverTypeOK'
  BY <1>2, NotifiedType DEF IInv
<1>. QED BY <1>5, <1>6, <1>7, <1>8, <1>9, <1>10 DEF IInv

\* What detach and delete clear keeps its type.
LEMMA ClearMessagesType ==
  ASSUME IInv, ClearMessages, UNCHANGED <<next_ack_id, counters>>
  PROVE  QueueOK' /\ TrackerOK' /\ RetryOK' /\ AccountOK'
<1>1. QueueOK'
  BY SMTT(30) DEF ClearMessages, QueueOK
<1>2. TrackerOK'
  BY ClearDeliveries DEF ClearMessages, IInv
<1>3. RetryOK'
  BY ClearRetries DEF ClearMessages, IInv
<1>4. AccountOK'
  <2>1. Cardinality(DOMAIN outstanding) \in Nat
    BY HeldFinite, FS_CardinalityType DEF IInv
  <2>2. withdrawn' \in Nat
    <3>1. withdrawn' = withdrawn + Cardinality(DOMAIN outstanding)
      BY DEF ClearMessages
    <3>. QED BY <2>1, <3>1, SMTT(30) DEF IInv, AccountOK
  <2>3. fate' \in [Message -> Fates]
    BY DEF ClearMessages, Settle, Fates, IInv, AccountOK
  <2>4. delivery_attempts' \in [Message -> Nat]
    BY DEF ClearMessages
  <2>. QED BY <2>2, <2>3, <2>4 DEF IInv, AccountOK
<1>. QED BY <1>1, <1>2, <1>3, <1>4

\* seek_to_time keeps the invariant.
LEMMA SeekIInv ==
  ASSUME IInv, NEW seek_time, Seek(seek_time)
  PROVE  IInv'
<1>. DEFINE newer == {m \in Message : published[m] > seek_time}
<1>1. PICK drained \in Listings(DOMAIN outstanding),
           waited \in Listings(DOMAIN retrying) :
        RequeueEach(Retain(MessagesOf(drained)
                             \o [i \in DOMAIN waited |-> retrying[waited[i]]],
                           newer),
                    Retain(backlog, newer),
                    [k \in Keys |-> Retain(ordered_queues[k], newer)],
                    {})
  BY DEF Seek
<1>2. UNCHANGED <<now, clientVars, configVars, next_ack_id, counters,
                  lifeVars, deleted_signal>>
  BY DEF Seek
<1>. HIDE DEF newer
<1>. DEFINE waiters == [i \in DOMAIN waited |-> retrying[waited[i]]]
            list == Retain(MessagesOf(drained) \o waiters, newer)
<1>3. MessagesOf(drained) \in Seq(Message)
  BY HeldFinite, ListingIsSeq, MessagesOfType DEF IInv
<1>4. waiters \in Seq(Message)
  <2>1. waited \in Seq(DOMAIN retrying) /\ DOMAIN waited = 1..Len(waited)
    BY HeldFinite, ListingIsSeq DEF IInv
  <2>2. \A i \in 1..Len(waited) : retrying[waited[i]] \in Message
    BY <2>1, SMTT(30) DEF IInv, RetryOK
  <2>. QED BY <2>1, <2>2, SMTT(30)
<1>5. list \in Seq(Message)
  <2>. HIDE DEF waiters
  <2>1. MessagesOf(drained) \o waiters \in Seq(Message)
    BY <1>3, <1>4, ConcatIsSeq
  <2>. QED BY <2>1, RetainSelects
<1>6. QueueOK'
  <2>1. Retain(backlog, newer) \in Seq(Message)
    BY RetainSelects DEF IInv, QueueOK
  <2>2. \A k \in Keys : Retain(ordered_queues[k], newer) \in Seq(Message)
    BY RetainSelects DEF IInv, QueueOK
  <2>. DEFINE q == [k \in Keys |-> Retain(ordered_queues[k], newer)]
  <2>3. q \in [Keys -> Seq(Message)]
    BY <2>2
  <2>4. RequeueEach(list, Retain(backlog, newer), q, {})
    BY <1>1
  <2>. HIDE DEF list, q
  <2>. QED BY <1>5, <2>1, <2>3, <2>4, RequeueEachType, SMTT(30)
<1>7. TrackerOK'
  BY <1>2, ClearDeliveries DEF Seek, IInv
<1>8. RetryOK'
  BY ClearRetries DEF Seek, IInv
<1>9. ClientOK' /\ ConfigOK'
  BY <1>2 DEF IInv, ClientOK, ConfigOK, clientVars, configVars, lifeVars
<1>10. AccountOK'
  <2>1. Cardinality(DOMAIN outstanding) \in Nat
    BY HeldFinite, FS_CardinalityType DEF IInv
  <2>2. withdrawn' \in Nat
    <3>1. withdrawn' = withdrawn + Cardinality(DOMAIN outstanding)
      BY DEF Seek
    <3>. QED BY <2>1, <3>1, SMTT(30) DEF IInv, AccountOK
  <2>3. fate' \in [Message -> Fates]
    BY DEF Seek, Settle, Fates, IInv, AccountOK
  <2>4. delivery_attempts' \in [Message -> Nat]
    BY DEF Seek
  <2>. QED BY <1>2, <2>2, <2>3, <2>4 DEF IInv, AccountOK
<1>11. ObserverTypeOK'
  BY <1>2, SignalTypes DEF Seek, IInv
<1>. QED BY <1>6, <1>7, <1>8, <1>9, <1>10, <1>11 DEF IInv

\* A step that leaves every message where it is.
LEMMA UnmovedIInv ==
  ASSUME IInv, UNCHANGED <<queueVars, trackerVars, retryVars, next_ack_id,
                           delivery_attempts, counters, fate, withdrawn,
                           observerVars>>,
         ClientOK', ConfigOK'
  PROVE  IInv'
<1>1. QueueOK'
  BY DEF IInv, QueueOK, queueVars
<1>2. TrackerOK'
  BY DEF IInv, TrackerOK, trackerVars, Outstanding!SideBySide,
     Outstanding!ExpirationKey
<1>3. RetryOK'
  BY DEF IInv, RetryOK, retryVars, Retry!ScheduledOnce
<1>4. AccountOK'
  BY DEF IInv, AccountOK
<1>5. ObserverTypeOK'
  BY DEF IInv, ObserverTypeOK, observerVars, availableVars, freedVars
<1>. QED BY <1>1, <1>2, <1>3, <1>4, <1>5 DEF IInv

\* detach keeps the invariant.
LEMMA DetachIInv == ASSUME IInv, Detach PROVE IInv'
<1>1. QueueOK' /\ TrackerOK' /\ RetryOK' /\ AccountOK'
  BY ClearMessagesType DEF Detach
<1>2. ClientOK' /\ ConfigOK'
  BY DEF Detach, IInv, ClientOK, ConfigOK, clientVars, lifeVars
<1>3. ObserverTypeOK'
  BY DEF Detach, IInv, ObserverTypeOK, observerVars, availableVars, freedVars
<1>. QED BY <1>1, <1>2, <1>3 DEF IInv

\* delete keeps the invariant.
LEMMA DeleteIInv == ASSUME IInv, Delete PROVE IInv'
<1>1. QueueOK' /\ TrackerOK' /\ RetryOK' /\ AccountOK'
  BY ClearMessagesType DEF Delete
<1>2. ClientOK' /\ ConfigOK'
  BY DEF Delete, IInv, ClientOK, ConfigOK, clientVars, configVars
<1>3. ObserverTypeOK'
  BY DeletedType DEF Delete, IInv
<1>. QED BY <1>1, <1>2, <1>3 DEF IInv

\* An update leads from one configuration to another.
LEMMA UpdatedInfo ==
  ASSUME IInv, NEW new \in Infos, UpdateInfo(new) PROVE info' \in Infos
<1>1. PICK set \in SUBSET DOMAIN info : info' = ApplyUpdate(info, new, set)
  BY DEF UpdateInfo
<1>2. info \in Infos
  BY DEF IInv, ConfigOK
<1>. QED BY <1>1, <1>2, UpdateAssumption

\* Every step keeps the invariant.
LEMMA StepIInv == IInv /\ [Next]_vars => IInv'
<1>. SUFFICES ASSUME IInv, [Next]_vars PROVE IInv'
  OBVIOUS
<1>1. ASSUME NEW n \in 1..MaxPost, NEW time \in 0..now, PostMessages(n, time)
      PROVE  IInv'
  BY <1>1, PostMessagesIInv
<1>2. ASSUME NEW max_count \in PullCounts, NEW max_outstanding \in OutstandingCaps,
             PullMessages(max_count, max_outstanding)
      PROVE  IInv'
  BY <1>2, PullMessagesIInv
<1>3. ASSUME NEW ids \in SUBSET AckIds, AcknowledgeMessages(ids) PROVE IInv'
  BY <1>3, AcknowledgeMessagesIInv
<1>4. ASSUME NEW mods \in Modifications, NEW found \in DeadLetterTopicFound,
             ModifyDeadline(mods, found)
      PROVE  IInv'
  BY <1>4, ModifyDeadlineIInv
<1>5. CASE ExpireAny
  BY <1>5, HandleExpiredMessagesIInv DEF ExpireAny
<1>6. CASE HandleRetryReady
  BY <1>6, HandleRetryReadyIInv
<1>7. ASSUME NEW new \in Infos, UpdateInfo(new) PROVE IInv'
  <2>1. ClientOK' /\ ConfigOK'
    BY <1>7, UpdatedInfo DEF UpdateInfo, IInv, ClientOK, ConfigOK, clientVars, lifeVars
  <2>. QED BY <1>7, <2>1, UnmovedIInv DEF UpdateInfo
<1>8. CASE Detach
  BY <1>8, DetachIInv
<1>9. CASE Delete
  BY <1>9, DeleteIInv
<1>10. CASE DeleteClosed
  <2>1. ClientOK' /\ ConfigOK'
    BY <1>10 DEF DeleteClosed, IInv, ClientOK, ConfigOK, clientVars, configVars
  <2>. QED BY <1>10, <2>1, UnmovedIInv DEF DeleteClosed
<1>11. CASE ActorStop
  <2>1. ClientOK' /\ ConfigOK'
    BY <1>11 DEF ActorStop, IInv, ClientOK, ConfigOK, clientVars, configVars
  <2>. QED BY <1>11, <2>1, UnmovedIInv DEF ActorStop
<1>12. ASSUME NEW seek_time \in 0..now, Seek(seek_time) PROVE IInv'
  BY <1>12, SeekIInv
<1>13. CASE Tick
  <2>1. ClientOK' /\ ConfigOK'
    BY <1>13, SMTT(30)
       DEF Tick, IInv, ClientOK, ConfigOK, clientVars, configVars, lifeVars
  <2>. QED BY <1>13, <2>1, UnmovedIInv DEF Tick
<1>14. CASE UNCHANGED vars
  <2>1. ClientOK' /\ ConfigOK'
    BY <1>14
       DEF vars, IInv, ClientOK, ConfigOK, clientVars, configVars, lifeVars
  <2>. QED BY <1>14, <2>1, UnmovedIInv DEF vars
<1>. QED BY <1>1, <1>2, <1>3, <1>4, <1>5, <1>6, <1>7, <1>8, <1>9, <1>10, <1>11,
            <1>12, <1>13, <1>14 DEF Next

\* The invariant always holds.
LEMMA AlwaysIInv == Spec => []IInv
BY InitIInv, StepIInv, PTL DEF Spec

-----------------------------------------------------------------------------
\* The state of the actor keeps its type whatever requests it handles.
THEOREM TypeCorrect == Spec => []TypeOK
BY AlwaysIInv, IInvImplies, PTL

\* Under the actor the deliveries and their expirations, and the retries and
\* their schedule, describe the same messages: the unchecked read of
\* take_expired and the lookup of take_ready always find their message.
THEOREM AlwaysTrackersInStep == Spec => []TrackersInStep
BY AlwaysIInv, IInvImplies, PTL

-----------------------------------------------------------------------------
\* Each operation on the tracker keeps what the ids denote.
LEMMA UnmovedAckIds ==
  ASSUME TrackerOK, UNCHANGED <<trackerVars, next_ack_id>>
  PROVE  KeepsAckIds
BY SMTT(30) DEF TrackerOK, trackerVars, KeepsAckIds

\* Clearing the tracker reissues no ack id.
LEMMA ClearAckIds ==
  ASSUME TrackerOK, Outstanding!Clear, UNCHANGED next_ack_id
  PROVE  KeepsAckIds
BY SMTT(30) DEF TrackerOK, Outstanding!Clear, KeepsAckIds

\* Neither does an acknowledgement,
LEMMA RemoveAckIds ==
  ASSUME TrackerOK, NEW ids, Outstanding!RemoveIds(ids), UNCHANGED next_ack_id
  PROVE  KeepsAckIds
BY SMTT(30) DEF TrackerOK, Outstanding!RemoveIds, KeepsAckIds

\* nor an expiry,
LEMMA ExpireAckIds ==
  ASSUME TrackerOK, NEW time, Outstanding!TakeExpired(time), UNCHANGED next_ack_id
  PROVE  KeepsAckIds
BY SMTT(30) DEF TrackerOK, Outstanding!TakeExpired, KeepsAckIds

\* nor a batch of modifications,
LEMMA ModifyAckIds ==
  ASSUME TrackerOK, NEW mods, Outstanding!ModifyDeadlines(mods),
         UNCHANGED next_ack_id
  PROVE  KeepsAckIds
<1>1. outstanding' =
        [id \in DOMAIN outstanding \ Outstanding!Nacks(mods) |->
           IF id \in Outstanding!Mentioned(mods)
           THEN Outstanding!Extended(mods, id) ELSE outstanding[id]]
  BY DEF Outstanding!ModifyDeadlines, Outstanding!ModifiedMessages
<1>2. \A id \in DOMAIN outstanding :
        Outstanding!Extended(mods, id).message = outstanding[id].message
  BY DEF Outstanding!Extended, TrackerOK, Delivery
<1>. QED BY <1>1, <1>2, SMTT(30) DEF TrackerOK, KeepsAckIds

\* nor adding deliveries under the next ids.
LEMMA AddAckIds ==
  ASSUME TrackerOK, NEW n \in Nat, NEW new,
         DOMAIN new = next_ack_id .. (next_ack_id + n - 1),
         Outstanding!Add(new), next_ack_id' = next_ack_id + n
  PROVE  KeepsAckIds
<1>1. outstanding' = [id \in DOMAIN outstanding \cup DOMAIN new |->
                        IF id \in DOMAIN new THEN new[id] ELSE outstanding[id]]
  BY DEF Outstanding!Add
<1>2. \A id \in DOMAIN new : id >= next_ack_id /\ id < next_ack_id + n
  BY SMTT(30) DEF TrackerOK
<1>3. \A id \in DOMAIN outstanding : id < next_ack_id /\ id \notin DOMAIN new
  BY <1>2, SMTT(30) DEF TrackerOK
<1>4. \A id \in DOMAIN new : ~(id < next_ack_id)
  BY SMTT(30) DEF TrackerOK
<1>5. next_ack_id' >= next_ack_id
  BY SMTT(30) DEF TrackerOK
<1>. QED BY <1>1, <1>2, <1>3, <1>4, <1>5 DEF KeepsAckIds

\* A pull adds deliveries under the next ids and counts them.
LEMMA PullAdds ==
  ASSUME IInv, NEW max_count, NEW max_outstanding,
         PullMessages(max_count, max_outstanding)
  PROVE  \E n, new :
           /\ n \in Nat
           /\ DOMAIN new = next_ack_id .. (next_ack_id + n - 1)
           /\ Outstanding!Add(new)
           /\ next_ack_id' = next_ack_id + n
           /\ Count("pulled", n)
<1>1. PICK keys, visited, popped :
        /\ keys \in Listings({k \in visited : HasLive(k)})
        /\ visited \subseteq Keys
        /\ popped \in 0..Len(backlog)
        /\ Deliver(keys, visited, popped)
  <2>. DEFINE capacity == Capacity(max_count, max_outstanding)
              visited == Visited(capacity)
  <2>1. visited \subseteq Keys
    BY DEF Visited, FreeKeys
  <2>2. PICK keys \in Ascending({k \in visited : HasLive(k)}) :
          Deliver(keys, visited, Popped(capacity - Len(keys)))
    BY DEF PullMessages
  <2>. HIDE DEF visited, capacity
  <2>3. Popped(capacity - Len(keys)) \in 0..Len(backlog)
    BY PoppedType DEF IInv
  <2>. QED BY <2>1, <2>2, <2>3 DEF Ascending
<1>. DEFINE heads == [i \in DOMAIN keys |->
                        ordered_queues[keys[i]][LivePosition(keys[i])]]
            front == SubSeq(backlog, 1, popped)
            batch == heads \o Retain(front, Live)
            ids == next_ack_id .. (next_ack_id + Len(batch) - 1)
<1>2. Len(batch) \in Nat
  <2>1. DOMAIN keys = 1..Len(keys) /\ Len(keys) \in Nat
    <3>1. IsFiniteSet({k \in visited : HasLive(k)})
      BY <1>1, ConstantTypes, FS_Subset
    <3>. QED BY <1>1, <3>1, ListingIsSeq, SMTT(30)
  <2>2. heads \in Seq({heads[i] : i \in DOMAIN keys})
    BY <2>1, SMTT(30)
  <2>3. front \in Seq(Message)
    BY <1>1, SMTT(30) DEF IInv, QueueOK
  <2>4. Retain(front, Live) \in Seq(Message)
    BY <2>3, RetainSelects
  <2>. HIDE DEF heads, front
  <2>. QED BY <2>2, <2>4, SMTT(30)
<1>3. \E new : /\ DOMAIN new = ids
               /\ Outstanding!Add(new)
               /\ next_ack_id' = next_ack_id + Len(batch)
               /\ Count("pulled", Len(batch))
  BY <1>1 DEF Deliver, AckIdAfter
<1>. HIDE DEF batch
<1>. QED BY <1>2, <1>3

\* A pull takes its ids from the counter.
LEMMA PullAckIds ==
  ASSUME IInv, NEW max_count, NEW max_outstanding,
         PullMessages(max_count, max_outstanding)
  PROVE  KeepsAckIds
BY PullAdds, AddAckIds DEF IInv

\* No step reissues an ack id.
LEMMA StepKeepsAckIds == IInv /\ [Next]_vars => [KeepsAckIds]_vars
<1>. SUFFICES ASSUME IInv, Next PROVE KeepsAckIds
  OBVIOUS
<1>. USE DEF IInv
<1>1. ASSUME NEW n \in 1..MaxPost, NEW time \in 0..now, PostMessages(n, time)
      PROVE  KeepsAckIds
  BY <1>1, UnmovedAckIds DEF PostMessages
<1>2. ASSUME NEW max_count \in PullCounts, NEW max_outstanding \in OutstandingCaps,
             PullMessages(max_count, max_outstanding)
      PROVE  KeepsAckIds
  BY <1>2, PullAckIds
<1>3. ASSUME NEW ids \in SUBSET AckIds, AcknowledgeMessages(ids) PROVE KeepsAckIds
  BY <1>3, RemoveAckIds DEF AcknowledgeMessages
<1>4. ASSUME NEW mods \in Modifications, NEW found \in DeadLetterTopicFound,
             ModifyDeadline(mods, found)
      PROVE  KeepsAckIds
  BY <1>4, ModifyAckIds DEF ModifyDeadline
<1>5. CASE ExpireAny
  BY <1>5, ExpireAckIds DEF ExpireAny, HandleExpiredMessages
<1>6. CASE HandleRetryReady
  BY <1>6, UnmovedAckIds DEF HandleRetryReady
<1>7. CASE Detach \/ Delete
  BY <1>7, ClearAckIds DEF Detach, Delete, ClearMessages
<1>8. ASSUME NEW seek_time \in 0..now, Seek(seek_time) PROVE KeepsAckIds
  BY <1>8, ClearAckIds DEF Seek
<1>9. CASE (\E new \in Infos : UpdateInfo(new)) \/ DeleteClosed \/ ActorStop \/ Tick
  BY <1>9, UnmovedAckIds DEF UpdateInfo, DeleteClosed, ActorStop, Tick
<1>. QED BY <1>1, <1>2, <1>3, <1>4, <1>5, <1>6, <1>7, <1>8, <1>9 DEF Next

\* A retired ack id never denotes a delivery again and an id in use keeps its
\* message, whatever the order of requests and timers: a late ack, nack or
\* extension cannot touch another delivery.
THEOREM AckIdsAreForOneDelivery == Spec => AckIdsNeverReissued
BY AlwaysIInv, StepKeepsAckIds, PTL DEF Spec, AckIdsNeverReissued

\* The deliveries that end are counted once.
LEMMA BalanceEnds ==
  ASSUME IInv, CountersBalance, NEW S, S \subseteq DOMAIN outstanding,
         DOMAIN outstanding' = DOMAIN outstanding \ S, NEW c,
         c \in {"acked", "nacked", "expired"},
         counters'["pulled"] = counters["pulled"],
         \A d \in {"acked", "nacked", "expired"} :
           counters'[d] = IF d = c THEN counters[d] + Cardinality(S)
                          ELSE counters[d],
         UNCHANGED withdrawn
  PROVE  CountersBalance'
<1>1. IsFiniteSet(DOMAIN outstanding) /\ IsFiniteSet(S)
  BY HeldFinite, FS_Subset DEF IInv
<1>2. DOMAIN outstanding \cap S = S
  OBVIOUS
<1>3. Cardinality(DOMAIN outstanding')
        = Cardinality(DOMAIN outstanding) - Cardinality(S)
  BY <1>1, <1>2, FS_Difference, SMTT(30)
<1>4. Cardinality(DOMAIN outstanding) \in Nat /\ Cardinality(S) \in Nat
  BY <1>1, FS_CardinalityType
<1>5. \A d \in Counters : counters[d] \in Nat
  BY DEF IInv, AccountOK
<1>. QED BY <1>3, <1>4, <1>5, SMTT(30)
            DEF CountersBalance, Counters, IInv, AccountOK

\* requeue_messages counts each delivery it takes back once.
LEMMA RequeueBalance ==
  ASSUME IInv, CountersBalance, NEW ids \in Seq(DOMAIN outstanding),
         IsInjective(ids), DOMAIN outstanding' = DOMAIN outstanding \ Range(ids),
         NEW c, c \in {"nacked", "expired"}, NEW found,
         RequeueMessages(MessagesOf(ids), c, found), UNCHANGED withdrawn
  PROVE  CountersBalance'
<1>1. Range(ids) \subseteq DOMAIN outstanding
  BY RangeOfSeq
<1>2. Cardinality(Range(ids)) = Len(ids)
  BY DistinctLength
<1>3. Len(MessagesOf(ids)) = Len(ids)
  BY SMTT(30) DEF MessagesOf
<1>. DEFINE dead == {m \in Range(MessagesOf(ids)) : ExceedsAttempts(m)}
<1>4. Tally(c, MessagesOf(ids), dead)
  BY DEF RequeueMessages
<1>. HIDE DEF dead
<1>5. DOMAIN counters = Counters
  BY DEF IInv, AccountOK
<1>6. /\ counters'["pulled"] = counters["pulled"]
      /\ \A d \in {"acked", "nacked", "expired"} :
           counters'[d] = IF d = c THEN counters[d] + Cardinality(Range(ids))
                          ELSE counters[d]
  BY <1>2, <1>3, <1>4, <1>5 DEF Tally, Counters
<1>. QED BY <1>1, <1>6, BalanceEnds

\* An acknowledgement counts each delivery it ends once.
LEMMA AcknowledgeBalance ==
  ASSUME IInv, CountersBalance, NEW ids, AcknowledgeMessages(ids)
  PROVE  CountersBalance'
<1>. DEFINE valid == ids \cap DOMAIN outstanding
<1>1. DOMAIN outstanding' = DOMAIN outstanding \ valid
  BY DEF AcknowledgeMessages, Outstanding!RemoveIds
<1>2. Count("acked", Cardinality(valid)) /\ UNCHANGED withdrawn
  BY DEF AcknowledgeMessages
<1>3. DOMAIN counters = Counters
  BY DEF IInv, AccountOK
<1>4. valid \subseteq DOMAIN outstanding
  OBVIOUS
<1>. HIDE DEF valid
<1>5. /\ counters'["pulled"] = counters["pulled"]
      /\ \A d \in {"acked", "nacked", "expired"} :
           counters'[d] = IF d = "acked" THEN counters[d] + Cardinality(valid)
                          ELSE counters[d]
  BY <1>2, <1>3 DEF Count, Counters
<1>. QED BY <1>1, <1>2, <1>4, <1>5, BalanceEnds

\* A nack counts each delivery it ends once.
LEMMA ModifyBalance ==
  ASSUME IInv, CountersBalance, NEW mods \in Modifications, NEW found,
         ModifyDeadline(mods, found)
  PROVE  CountersBalance'
<1>. DEFINE ids == Outstanding!Nacks(mods)
<1>1. PICK nacks \in NackOrder(mods) :
        RequeueMessages(MessagesOf(nacks), "nacked", found)
  BY DEF ModifyDeadline
<1>2. ids \subseteq DOMAIN outstanding
  BY DEF Outstanding!Nacks, Outstanding!Mentioned
<1>3. DOMAIN outstanding' = DOMAIN outstanding \ ids /\ UNCHANGED withdrawn
  BY DEF ModifyDeadline, Outstanding!ModifyDeadlines,
     Outstanding!ModifiedMessages
<1>4. nacks \in Seq(ids) /\ Range(nacks) = ids /\ IsInjective(nacks)
  <2>1. IsFiniteSet(ids)
    BY <1>2, HeldFinite, FS_Subset DEF IInv
  <2>2. nacks \in Listings(ids)
    BY DEF NackOrder
  <2>. HIDE DEF ids
  <2>. QED BY <2>1, <2>2, ListingIsSeq DEF IsInjective
<1>. HIDE DEF ids
<1>5. nacks \in Seq(DOMAIN outstanding)
  BY <1>2, <1>4, SMTT(30)
<1>. QED BY <1>1, <1>3, <1>4, <1>5, RequeueBalance

\* An expiry counts each delivery it ends once.
LEMMA ExpiryBalance ==
  ASSUME IInv, CountersBalance, NEW found, HandleExpiredMessages(found)
  PROVE  CountersBalance'
<1>. DEFINE D == Outstanding!Due(now)
<1>1. PICK due \in InOrder(D) :
        RequeueMessages(MessagesOf([i \in DOMAIN due |-> due[i][2]]),
                        "expired", found)
  BY DEF HandleExpiredMessages
<1>. DEFINE list == [i \in DOMAIN due |-> due[i][2]]
<1>2. D \subseteq expirations
  BY DEF Outstanding!Due
<1>3. \A e, f \in D : e[2] = f[2] => e = f
  BY <1>2, SMTT(30)
     DEF IInv, TrackerOK, Outstanding!SideBySide, Outstanding!ExpirationKey
<1>4. /\ DOMAIN outstanding' = DOMAIN outstanding \ {e[2] : e \in D}
      /\ UNCHANGED withdrawn
  BY DEF HandleExpiredMessages, Outstanding!TakeExpired, Outstanding!ExpiredIds
<1>5. list \in Seq(DOMAIN outstanding)
  BY DueType DEF IInv
<1>6. /\ due \in Seq(D) /\ DOMAIN due = 1..Len(due) /\ Range(due) = D
      /\ \A i, j \in DOMAIN due : due[i] = due[j] => i = j
  <2>1. IsFiniteSet(D)
    BY <1>2, EntriesFinite, FS_Subset DEF IInv
  <2>2. due \in Listings(D)
    BY DEF InOrder
  <2>. HIDE DEF D
  <2>. QED BY <2>1, <2>2, ListingIsSeq
<1>. HIDE DEF D
<1>7. IsInjective(list) /\ Range(list) = {e[2] : e \in D}
  <2>1. \A i \in DOMAIN due : due[i] \in D
    BY <1>6, SMTT(30)
  <2>2. IsInjective(list)
    BY <1>3, <1>6, <2>1 DEF IsInjective
  <2>3. Range(list) = {e[2] : e \in D}
    BY <1>6 DEF Range
  <2>. QED BY <2>2, <2>3
<1>8. RequeueMessages(MessagesOf(list), "expired", found)
  BY <1>1
<1>. HIDE DEF list
<1>. QED BY <1>4, <1>5, <1>7, <1>8, RequeueBalance

\* A pull counts each delivery it makes.
LEMMA PullBalance ==
  ASSUME IInv, CountersBalance, NEW max_count, NEW max_outstanding,
         PullMessages(max_count, max_outstanding)
  PROVE  CountersBalance'
<1>1. PICK n, new :
        /\ n \in Nat
        /\ DOMAIN new = next_ack_id .. (next_ack_id + n - 1)
        /\ Outstanding!Add(new)
        /\ next_ack_id' = next_ack_id + n
        /\ Count("pulled", n)
  BY PullAdds
<1>a. n \in Nat
  BY <1>1
<1>. DEFINE ids == next_ack_id .. (next_ack_id + n - 1)
<1>2. DOMAIN outstanding' = DOMAIN outstanding \cup ids
  BY <1>1 DEF Outstanding!Add
<1>3. next_ack_id \in Int /\ next_ack_id + n - 1 \in Int
  BY <1>a, SMTT(30) DEF IInv, TrackerOK
<1>4. IsFiniteSet(ids) /\ Cardinality(ids) = n
  BY <1>a, <1>3, FS_Interval, SMTT(30)
<1>5. DOMAIN outstanding \cap ids = {}
  BY SMTT(30) DEF IInv, TrackerOK
<1>6. IsFiniteSet(DOMAIN outstanding)
  BY HeldFinite DEF IInv
<1>. HIDE DEF ids
<1>7. Cardinality(DOMAIN outstanding') = Cardinality(DOMAIN outstanding) + n
  <2>1. Cardinality({}) = 0
    BY FS_EmptySet
  <2>2. Cardinality(DOMAIN outstanding) \in Nat
    BY <1>6, FS_CardinalityType
  <2>3. Cardinality(DOMAIN outstanding \cup ids)
          = Cardinality(DOMAIN outstanding) + Cardinality(ids)
            - Cardinality(DOMAIN outstanding \cap ids)
    BY <1>4, <1>6, FS_Union
  <2>4. Cardinality(DOMAIN outstanding \cap ids) = 0
    BY <1>5, <2>1
  <2>5. Cardinality(DOMAIN outstanding') = Cardinality(DOMAIN outstanding \cup ids)
    BY <1>2
  <2>. QED BY <1>a, <1>4, <2>2, <2>3, <2>4, <2>5, SMTT(30)
<1>8. /\ counters' = [counters EXCEPT !["pulled"] = @ + n]
      /\ UNCHANGED withdrawn
  BY <1>1 DEF Count, PullMessages
<1>9. counters \in [Counters -> Nat]
  BY DEF IInv, AccountOK
<1>10. Cardinality(DOMAIN outstanding) \in Nat
  BY <1>6, FS_CardinalityType
<1>. QED BY <1>a, <1>7, <1>8, <1>9, <1>10, SMTT(30)
            DEF CountersBalance, Counters, IInv, AccountOK

\* What a seek, a detach or a deletion ends is withdrawn.
LEMMA ClearBalance ==
  ASSUME IInv, CountersBalance, Outstanding!Clear, UNCHANGED counters,
         withdrawn' = withdrawn + Cardinality(DOMAIN outstanding)
  PROVE  CountersBalance'
<1>1. Cardinality(DOMAIN outstanding') = 0
  BY FS_EmptySet DEF Outstanding!Clear
<1>2. Cardinality(DOMAIN outstanding) \in Nat
  BY HeldFinite, FS_CardinalityType DEF IInv
<1>3. counters \in [Counters -> Nat]
  BY DEF IInv, AccountOK
<1>. QED BY <1>1, <1>2, <1>3, SMTT(30)
            DEF CountersBalance, Counters, IInv, AccountOK

\* Every step keeps the counters in balance.
LEMMA StepBalance == IInv /\ CountersBalance /\ [Next]_vars => CountersBalance'
<1>. SUFFICES ASSUME IInv, CountersBalance, [Next]_vars PROVE CountersBalance'
  OBVIOUS
<1>1. ASSUME UNCHANGED <<counters, withdrawn, outstanding>> PROVE CountersBalance'
  BY <1>1 DEF CountersBalance
<1>2. ASSUME NEW max_count \in PullCounts, NEW max_outstanding \in OutstandingCaps,
             PullMessages(max_count, max_outstanding)
      PROVE  CountersBalance'
  BY <1>2, PullBalance
<1>3. ASSUME NEW ids \in SUBSET AckIds, AcknowledgeMessages(ids)
      PROVE  CountersBalance'
  BY <1>3, AcknowledgeBalance
<1>4. ASSUME NEW mods \in Modifications, NEW found \in DeadLetterTopicFound,
             ModifyDeadline(mods, found)
      PROVE  CountersBalance'
  BY <1>4, ModifyBalance
<1>5. ASSUME NEW found \in DeadLetterTopicFound, HandleExpiredMessages(found)
      PROVE  CountersBalance'
  BY <1>5, ExpiryBalance
<1>6. CASE Detach
  BY <1>6, ClearBalance DEF Detach, ClearMessages
<1>7. CASE Delete
  BY <1>7, ClearBalance DEF Delete, ClearMessages
<1>8. ASSUME NEW seek_time \in 0..now, Seek(seek_time) PROVE CountersBalance'
  BY <1>8, ClearBalance DEF Seek
<1>9. ASSUME \/ \E n \in 1..MaxPost, time \in 0..now : PostMessages(n, time)
             \/ HandleRetryReady \/ (\E new \in Infos : UpdateInfo(new))
             \/ DeleteClosed \/ ActorStop \/ Tick \/ UNCHANGED vars
      PROVE  UNCHANGED <<counters, withdrawn, outstanding>>
  BY <1>9 DEF PostMessages, HandleRetryReady, UpdateInfo, DeleteClosed,
     ActorStop, Tick, vars, trackerVars
<1>. QED BY <1>1, <1>2, <1>3, <1>4, <1>5, <1>6, <1>7, <1>8, <1>9
            DEF Next, ExpireAny

\* The counters of get_stats account for every delivery ever made: no order of
\* requests, expirations and seeks counts one twice or not at all.
THEOREM CountersAlwaysBalance == Spec => []CountersBalance
<1>1. Init => CountersBalance
  BY FS_EmptySet, SMTT(30) DEF Init, CountersBalance, Outstanding!Init
<1>2. IInv /\ CountersBalance /\ [Next]_vars => CountersBalance'
  BY StepBalance
<1>. QED BY <1>1, <1>2, AlwaysIInv, PTL DEF Spec

-----------------------------------------------------------------------------
(***************************************************************************)
(* The attempt numbers.  The parser of dead letter policies accepts limits *)
(* from 5 to 100; all that matters is that a limit allows one attempt, and *)
(* that the limits are bounded.                                            *)
(***************************************************************************)
LimitsBounded ==
  \A i \in Infos :
    i.max_delivery_attempts # None => i.max_delivery_attempts \in 1..100

AllLimited == \A i \in Infos : i.max_delivery_attempts # None
Limit == Max({i.max_delivery_attempts : i \in Infos})

\* No delivery, and no count of a next attempt, is above the limit.
AttemptsInv ==
  AllLimited =>
    /\ \A m \in Message : delivery_attempts[m] <= Limit
    /\ \A id \in DOMAIN outstanding : outstanding[id].delivery_attempt <= Limit

\* The largest limit is one of them, and allows one attempt.
LEMMA LimitIsLargest ==
  ASSUME LimitsBounded, AllLimited, Infos # {}
  PROVE  /\ Limit \in Nat /\ 1 <= Limit /\ 0 <= Limit
         /\ \A i \in Infos : i.max_delivery_attempts <= Limit
<1>. DEFINE limits == {i.max_delivery_attempts : i \in Infos}
<1>1. limits # {} /\ \A x \in limits : x \in 1..100
  BY DEF LimitsBounded, AllLimited
<1>2. \A i \in Infos : i.max_delivery_attempts \in limits
  OBVIOUS
<1>. HIDE DEF limits
<1>3. limits \subseteq 0..100 /\ 100 \in Nat
  <2>1. \A x \in 1..100 : x \in 0..100
    BY SMTT(30)
  <2>2. 100 \in Nat
    BY SMTT(30)
  <2>. QED BY <1>1, <2>1, <2>2
<1>5. Max(limits) \in limits /\ \A y \in limits : y <= Max(limits)
  BY <1>1, <1>3, MaxIsGreatest
<1>6. Max(limits) \in 1..100
  BY <1>1, <1>5
<1>7. Max(limits) \in Nat /\ 1 <= Max(limits) /\ 0 <= Max(limits)
  BY <1>6, SMTT(30)
<1>. QED BY <1>2, <1>5, <1>7 DEF Limit, limits

\* requeue_messages counts the attempt before it compares, and forgets the count
\* of what it dead-letters.
LEMMA RequeueAttempts ==
  ASSUME IInv, LimitsBounded, AllLimited, NEW list \in Seq(Message), NEW c,
         NEW found, RequeueMessages(list, c, found),
         \A m \in Message : delivery_attempts[m] <= Limit
  PROVE  \A m \in Message : delivery_attempts'[m] <= Limit
<1>. DEFINE dead == {m \in Range(list) : ExceedsAttempts(m)}
            rest == Retain(list, Message \ dead)
<1>1. info \in Infos /\ Infos # {} /\ info.max_delivery_attempts # None
  BY DEF IInv, ConfigOK, AllLimited
<1>2. /\ Limit \in Nat /\ 0 <= Limit /\ info.max_delivery_attempts <= Limit
      /\ info.max_delivery_attempts \in 1..100
  BY <1>1, LimitIsLargest DEF LimitsBounded
<1>3. Range(rest) = Range(list) \cap (Message \ dead)
  BY RetainRange
<1>4. delivery_attempts' =
        [m \in Message |-> IF m \in dead THEN 0
                           ELSE IF m \in Range(rest) THEN NextAttempt(m)
                           ELSE delivery_attempts[m]]
  BY DEF RequeueMessages
<1>5. \A m \in Range(list) \ dead : ~(NextAttempt(m) > info.max_delivery_attempts)
  BY <1>1 DEF ExceedsAttempts
<1>. HIDE DEF dead, rest
<1>6. \A m \in Message : NextAttempt(m) \in Nat
  BY NextAttemptType DEF IInv
<1>7. \A m \in Range(rest) \cap Message : NextAttempt(m) <= Limit
  <2>. TAKE m \in Range(rest) \cap Message
  <2>1. ~(NextAttempt(m) > info.max_delivery_attempts) /\ NextAttempt(m) \in Nat
    BY <1>3, <1>5, <1>6
  <2>2. \A x, z \in Nat : \A y \in 1..100 : ~(x > y) /\ y <= z => x <= z
    BY SMTT(30)
  <2>. QED BY <1>2, <2>1, <2>2
<1>. QED BY <1>2, <1>4, <1>7

\* Taking deliveries away, and changing deadlines, leaves the attempts.
LEMMA ModifyAttempts ==
  ASSUME IInv, NEW mods, Outstanding!ModifyDeadlines(mods),
         NEW id \in DOMAIN outstanding'
  PROVE  /\ id \in DOMAIN outstanding
         /\ outstanding'[id].delivery_attempt = outstanding[id].delivery_attempt
<1>1. /\ id \in DOMAIN outstanding
      /\ outstanding'[id] = IF id \in Outstanding!Mentioned(mods)
                            THEN Outstanding!Extended(mods, id)
                            ELSE outstanding[id]
  BY DEF Outstanding!ModifyDeadlines, Outstanding!ModifiedMessages
<1>2. outstanding[id] \in Delivery
  BY <1>1 DEF IInv, TrackerOK
<1>3. Outstanding!Extended(mods, id).delivery_attempt
        = outstanding[id].delivery_attempt
  BY <1>2 DEF Outstanding!Extended, Delivery
<1>. QED BY <1>1, <1>3

\* A pull hands out every message with the attempt counted for it.
LEMMA PullAttempts ==
  ASSUME IInv, LimitsBounded, AllLimited, AttemptsInv, NEW max_count,
         NEW max_outstanding, PullMessages(max_count, max_outstanding)
  PROVE  AttemptsInv'
<1>. DEFINE capacity == Capacity(max_count, max_outstanding)
            visited == Visited(capacity)
<1>1. visited \subseteq Keys
  BY DEF Visited, FreeKeys
<1>2. UNCHANGED withdrawn
      /\ \E keys \in Ascending({k \in visited : HasLive(k)}) :
           Deliver(keys, visited, Popped(capacity - Len(keys)))
  BY DEF PullMessages
<1>. HIDE DEF visited, capacity
<1>3. PICK keys \in Ascending({k \in visited : HasLive(k)}) :
        Deliver(keys, visited, Popped(capacity - Len(keys)))
  BY <1>2
<1>4. Popped(capacity - Len(keys)) \in 0..Len(backlog)
  BY PoppedType DEF IInv
<1>5. PICK new : Outstanding!Add(new) /\ \A id \in DOMAIN new :
        new[id].delivery_attempt \in {1} \cup Range(delivery_attempts)
  BY <1>1, <1>2, <1>3, <1>4, DeliverType DEF Ascending
<1>6. Limit \in Nat /\ 1 <= Limit /\ 0 <= Limit
  BY LimitIsLargest DEF IInv, ConfigOK
<1>7. \A n \in {1} \cup Range(delivery_attempts) : n <= Limit
  BY <1>6 DEF AttemptsInv, Range, IInv, AccountOK
<1>8. \A m \in Message : delivery_attempts'[m] \in {0, delivery_attempts[m]}
  BY <1>3 DEF Deliver
<1>9. \A id \in DOMAIN outstanding' :
        outstanding'[id] = IF id \in DOMAIN new THEN new[id] ELSE outstanding[id]
  BY <1>5 DEF Outstanding!Add
<1>10. \A id \in DOMAIN outstanding' : id \in DOMAIN new \/ id \in DOMAIN outstanding
  BY <1>5 DEF Outstanding!Add
<1>11. \A id \in DOMAIN outstanding' : outstanding'[id].delivery_attempt <= Limit
  BY <1>5, <1>7, <1>9, <1>10 DEF AttemptsInv
<1>12. \A m \in Message : delivery_attempts'[m] <= Limit
  BY <1>6, <1>8 DEF AttemptsInv
<1>. QED BY <1>11, <1>12 DEF AttemptsInv, Limit

\* Every step keeps the attempts within the limit.
LEMMA StepAttempts ==
  ASSUME IInv, LimitsBounded, AttemptsInv, [Next]_vars
  PROVE  AttemptsInv'
<1>. SUFFICES ASSUME AllLimited PROVE AttemptsInv'
  BY DEF AttemptsInv, AllLimited
<1>a. Infos # {} /\ Limit' = Limit /\ 0 <= Limit
  BY LimitIsLargest DEF IInv, ConfigOK, Limit
<1>b. /\ \A m \in Message : delivery_attempts[m] <= Limit
      /\ \A id \in DOMAIN outstanding : outstanding[id].delivery_attempt <= Limit
  BY DEF AttemptsInv
<1>c. ASSUME \A m \in Message : delivery_attempts'[m] <= Limit,
             \A id \in DOMAIN outstanding' :
               /\ id \in DOMAIN outstanding
               /\ outstanding'[id].delivery_attempt = outstanding[id].delivery_attempt
      PROVE  AttemptsInv'
  BY <1>a, <1>b, <1>c DEF AttemptsInv
<1>d. ASSUME \A m \in Message : delivery_attempts'[m] \in {0, delivery_attempts[m]}
      PROVE  \A m \in Message : delivery_attempts'[m] <= Limit
  BY <1>a, <1>b, <1>d
<1>1. ASSUME \/ \E n \in 1..MaxPost, time \in 0..now : PostMessages(n, time)
             \/ (\E new \in Infos : UpdateInfo(new))
             \/ DeleteClosed \/ ActorStop \/ Tick \/ UNCHANGED vars
      PROVE  AttemptsInv'
  <2>1. UNCHANGED <<delivery_attempts, outstanding>>
    BY <1>1 DEF PostMessages, UpdateInfo, DeleteClosed, ActorStop, Tick, vars,
       trackerVars
  <2>. QED BY <1>c, <1>d, <2>1
<1>2. ASSUME NEW max_count \in PullCounts, NEW max_outstanding \in OutstandingCaps,
             PullMessages(max_count, max_outstanding)
      PROVE  AttemptsInv'
  BY <1>2, PullAttempts
<1>3. ASSUME NEW ids \in SUBSET AckIds, AcknowledgeMessages(ids)
      PROVE  AttemptsInv'
  <2>1. \A m \in Message : delivery_attempts'[m] \in {0, delivery_attempts[m]}
    BY <1>3 DEF AcknowledgeMessages
  <2>2. \A id \in DOMAIN outstanding' :
          id \in DOMAIN outstanding /\ outstanding'[id] = outstanding[id]
    BY <1>3 DEF AcknowledgeMessages, Outstanding!RemoveIds
  <2>. QED BY <1>c, <1>d, <2>1, <2>2
<1>4. ASSUME NEW mods \in Modifications, NEW found \in DeadLetterTopicFound,
             ModifyDeadline(mods, found)
      PROVE  AttemptsInv'
  <2>1. PICK nacks \in NackOrder(mods) :
          RequeueMessages(MessagesOf(nacks), "nacked", found)
    BY <1>4 DEF ModifyDeadline
  <2>2. MessagesOf(nacks) \in Seq(Message)
    BY NacksType, MessagesOfType DEF IInv
  <2>3. \A m \in Message : delivery_attempts'[m] <= Limit
    BY <1>b, <2>1, <2>2, RequeueAttempts
  <2>4. Outstanding!ModifyDeadlines(mods)
    BY <1>4 DEF ModifyDeadline
  <2>. QED BY <1>c, <2>3, <2>4, ModifyAttempts
<1>5. ASSUME NEW found \in DeadLetterTopicFound, HandleExpiredMessages(found)
      PROVE  AttemptsInv'
  <2>1. PICK due \in InOrder(Outstanding!Due(now)) :
          RequeueMessages(MessagesOf([i \in DOMAIN due |-> due[i][2]]),
                          "expired", found)
    BY <1>5 DEF HandleExpiredMessages
  <2>2. MessagesOf([i \in DOMAIN due |-> due[i][2]]) \in Seq(Message)
    BY DueType, MessagesOfType DEF IInv
  <2>3. \A m \in Message : delivery_attempts'[m] <= Limit
    BY <1>b, <2>1, <2>2, RequeueAttempts
  <2>4. \A id \in DOMAIN outstanding' :
          id \in DOMAIN outstanding /\ outstanding'[id] = outstanding[id]
    BY <1>5 DEF HandleExpiredMessages, Outstanding!TakeExpired
  <2>. QED BY <1>c, <2>3, <2>4
<1>6. CASE HandleRetryReady
  <2>1. \A m \in Message : delivery_attempts'[m] \in {0, delivery_attempts[m]}
    BY <1>6 DEF HandleRetryReady
  <2>2. UNCHANGED outstanding
    BY <1>6 DEF HandleRetryReady, trackerVars
  <2>. QED BY <1>c, <1>d, <2>1, <2>2
<1>7. ASSUME Detach \/ Delete \/ \E seek_time \in 0..now : Seek(seek_time)
      PROVE  AttemptsInv'
  <2>1. \A m \in Message : delivery_attempts'[m] \in {0, delivery_attempts[m]}
    BY <1>7 DEF Detach, Delete, Seek, ClearMessages
  <2>2. DOMAIN outstanding' = {}
    BY <1>7 DEF Detach, Delete, Seek, ClearMessages, Outstanding!Clear
  <2>. QED BY <1>c, <1>d, <2>1, <2>2
<1>. QED BY <1>1, <1>2, <1>3, <1>4, <1>5, <1>6, <1>7 DEF Next, ExpireAny

\* A dead letter policy bounds redelivery: as long as every configuration has
\* one, no delivery carries an attempt number above the largest limit.
THEOREM AttemptsAlwaysWithinPolicy ==
  ASSUME LimitsBounded PROVE Spec => []AttemptsWithinPolicy
<1>1. Init => AttemptsInv
  <2>. SUFFICES ASSUME Init, AllLimited
                PROVE  /\ \A m \in Message : delivery_attempts[m] <= Limit
                       /\ DOMAIN outstanding = {}
    BY DEF AttemptsInv
  <2>1. Infos # {} /\ DOMAIN outstanding = {}
    BY DEF Init, Outstanding!Init
  <2>. QED BY <2>1, LimitIsLargest DEF Init
<1>2. IInv /\ AttemptsInv /\ [Next]_vars => AttemptsInv'
  BY StepAttempts
<1>3. AttemptsInv => AttemptsWithinPolicy
  BY DEF AttemptsInv, AttemptsWithinPolicy, AllLimited, Limit
<1>. QED BY <1>1, <1>2, <1>3, AlwaysIInv, PTL DEF Spec

-----------------------------------------------------------------------------
\* The bound of a pull without a cap, before the count its caller asks for.
Most ==
  LET keyed == Cardinality(FreeKeys) % U16
  IN  Max({Min({(Len(backlog) % U16) + keyed, U16 - 1}), MAX_PULL_COUNT})

\* It is at least MAX_PULL_COUNT.
LEMMA MostType ==
  ASSUME IInv PROVE Most \in Nat /\ Most >= MAX_PULL_COUNT
<1>. DEFINE keyed == Cardinality(FreeKeys) % U16
            sum == (Len(backlog) % U16) + keyed
            len == Min({sum, U16 - 1})
<1>1. keyed \in Nat
  <2>1. FreeKeys \subseteq Keys
    BY DEF FreeKeys
  <2>2. Cardinality(FreeKeys) \in Nat
    BY <2>1, ConstantTypes, FS_Subset, FS_CardinalityType
  <2>. QED BY <2>2, ConstantTypes, SMTT(30)
<1>2. sum \in Nat
  <2>1. Len(backlog) \in Nat
    BY SMTT(30) DEF IInv, QueueOK
  <2>2. Len(backlog) % U16 \in Nat
    BY <2>1, ConstantTypes, SMTT(30)
  <2>. HIDE DEF keyed
  <2>. QED BY <1>1, <2>2, SMTT(30)
<1>. HIDE DEF sum
<1>3. len \in Nat
  <2>1. {sum, U16 - 1} \subseteq Nat /\ {sum, U16 - 1} # {}
    BY <1>2, ConstantTypes, SMTT(30)
  <2>. QED BY <2>1, MinIsLeast
<1>4. Most = Max({len, MAX_PULL_COUNT})
  BY DEF Most, sum
<1>. HIDE DEF len
<1>5. \E x \in {len, MAX_PULL_COUNT} : \A y \in {len, MAX_PULL_COUNT} : x >= y
  BY <1>3, ConstantTypes, SMTT(30)
<1>. QED BY <1>3, <1>4, <1>5, ConstantTypes, SMTT(30) DEF Max

===============================================================================

---------------------------- MODULE ConsumersProofs ----------------------------
(***************************************************************************)
(* What those who ask the subscription actor can rely on, for any number   *)
(* of them, of messages and of keys: what get_stats counts, how many       *)
(* messages a capped pull returns, and that no wakeup is lost for the      *)
(* consumers that wait on the actor's signal.                              *)
(***************************************************************************)
EXTENDS DeliveryInvariant, Consumers

-----------------------------------------------------------------------------
(* Counting *)

\* An interval of n numbers.
LEMMA IntervalOf ==
  ASSUME NEW a \in Nat, NEW n \in Nat
  PROVE  IsFiniteSet(a..(a + n - 1)) /\ Cardinality(a..(a + n - 1)) = n
BY FS_Interval, SMTT(30)

\* The length of two lists together.
LEMMA ConcatLength ==
  ASSUME NEW S, NEW T, NEW s \in Seq(S), NEW t \in Seq(T)
  PROVE  /\ Len(s) \in Nat /\ Len(t) \in Nat
         /\ Len(s \o t) = Len(s) + Len(t)
<1>1. s \in Seq(S \cup T) /\ t \in Seq(S \cup T)
  OBVIOUS
<1>. QED BY <1>1

-----------------------------------------------------------------------------
\* The recursion that adds up the lengths of the queues of a set of keys.
Adds(q, F, g) ==
  g = [K \in F |->
         IF K = {} THEN 0
         ELSE LET k == CHOOSE k \in K : TRUE IN Len(q[k]) + g[K \ {k}]]

\* The subsets of a finite set with at most n elements.
Few(I, n) == {K \in SUBSET I : Cardinality(K) <= n}

\* Taking an element away leaves a set of the next smaller size.
LEMMA FewerLeft ==
  ASSUME NEW I, IsFiniteSet(I), NEW n \in Nat, NEW K \in Few(I, n), K # {},
         NEW k \in K
  PROVE  /\ n # 0 /\ K \ {k} \in Few(I, n - 1)
         /\ Cardinality(K \ {k}) < Cardinality(K)
<1>1. IsFiniteSet(K) /\ K \subseteq I /\ Cardinality(K) <= n
  BY FS_Subset DEF Few
<1>2. Cardinality(K \ {k}) = Cardinality(K) - 1
  BY <1>1, FS_RemoveElement, Zenon
<1>3. Cardinality(K) \in Nat /\ Cardinality(K \ {k}) \in Nat
  BY <1>1, FS_CardinalityType, FS_RemoveElement
<1>. QED BY <1>1, <1>2, <1>3 DEF Few

\* The recursion defines a function on the subsets of a finite set.
LEMMA AddsExists ==
  ASSUME NEW I, IsFiniteSet(I), NEW q
  PROVE  \E g : Adds(q, SUBSET I, g)
<1>. DEFINE Undefined == {m \in Nat : ~\E g : Adds(q, Few(I, m), g)}
<1>1. Undefined = {}
  <2>. SUFFICES ASSUME Undefined # {} PROVE FALSE
    OBVIOUS
  <2>1. PICK m \in Undefined : \A n \in Undefined : m <= n
    BY LeastExists, Zenon
  <2>2. m # 0
    <3>. SUFFICES ASSUME m = 0 PROVE FALSE
      OBVIOUS
    <3>1. \A K \in Few(I, 0) : K = {}
      BY FewerLeft, Zenon
    <3>2. Adds(q, Few(I, 0), [K \in Few(I, 0) |-> 0])
      BY <3>1 DEF Adds
    <3>. QED BY <2>1, <3>2
  <2>3. PICK g : Adds(q, Few(I, m - 1), g)
    BY <2>1, <2>2
  <2>. DEFINE first(K) == CHOOSE k \in K : TRUE
              sum(K) == IF K = {} THEN 0 ELSE Len(q[first(K)]) + g[K \ {first(K)}]
              h == [K \in Few(I, m) |-> sum(K)]
  <2>4. \A K : K # {} => first(K) \in K
    OBVIOUS
  <2>5. \A K \in Few(I, m - 1) : g[K] = sum(K)
    BY <2>3, Zenon DEF Adds
  <2>6. Few(I, m - 1) \subseteq Few(I, m)
    <3>1. \A K \in SUBSET I : Cardinality(K) \in Nat
      BY FS_Subset, FS_CardinalityType
    <3>. QED BY <3>1 DEF Few
  <2>. HIDE DEF first
  <2>7. \A K \in Few(I, m) : K # {} => K \ {first(K)} \in Few(I, m - 1)
    BY <2>4, FewerLeft, Zenon
  <2>8. \A K \in Few(I, m - 1) : h[K] = g[K]
    BY <2>5, <2>6, Zenon
  <2>9. \A K \in Few(I, m) : h[K] = IF K = {} THEN 0
                                    ELSE Len(q[first(K)]) + h[K \ {first(K)}]
    BY <2>7, <2>8, Zenon
  <2>10. h = [K \in Few(I, m) |-> h[K]]
    OBVIOUS
  <2>. HIDE DEF h, sum
  <2>11. Adds(q, Few(I, m), h)
    BY <2>9, <2>10, Zenon DEF Adds, first
  <2>. QED BY <2>1, <2>11
<1>2. Cardinality(I) \in Nat /\ \A K \in SUBSET I : Cardinality(K) <= Cardinality(I)
  BY FS_CardinalityType, FS_Subset
<1>3. Few(I, Cardinality(I)) = SUBSET I
  BY <1>2 DEF Few
<1>4. \E g : Adds(q, Few(I, Cardinality(I)), g)
  BY <1>1, <1>2, Zenon
<1>. QED BY <1>3, <1>4, Zenon

\* What the queues of a set of keys hold.
HeldIn(q, K) == UNION {Range(q[k]) : k \in K}

\* Queues of elements of S that share nothing and hold nothing twice.
Separate(q, I, S) ==
  /\ \A k \in I : q[k] \in Seq(S) /\ IsInjective(q[k])
  /\ \A j, k \in I : j # k => Range(q[j]) \cap Range(q[k]) = {}

\* Over queues that share nothing and hold nothing twice it counts their
\* elements.
LEMMA AddsCounts ==
  ASSUME NEW S, NEW I, IsFiniteSet(I), NEW q, NEW g, Adds(q, SUBSET I, g),
         Separate(q, I, S), NEW K \in SUBSET I
  PROVE  IsFiniteSet(HeldIn(q, K)) /\ g[K] = Cardinality(HeldIn(q, K))
<1>. USE DEF HeldIn, Separate
<1>. DEFINE Held(L) == HeldIn(q, L)
            Good(L) == IsFiniteSet(Held(L)) /\ g[L] = Cardinality(Held(L))
            Bad == {Cardinality(L) : L \in {M \in SUBSET I : ~Good(M)}}
<1>. SUFFICES ASSUME ~Good(K) PROVE FALSE
  OBVIOUS
<1>1. \A L \in SUBSET I : IsFiniteSet(L) /\ Cardinality(L) \in Nat
  BY FS_Subset, FS_CardinalityType
<1>2. Bad \subseteq Nat /\ Bad # {}
  BY <1>1, Zenon
<1>3. PICK L \in SUBSET I : ~Good(L) /\ \A n \in Bad : Cardinality(L) <= n
  <2>1. PICK m \in Bad : \A n \in Bad : m <= n
    BY <1>2, LeastExists, Zenon
  <2>. HIDE DEF Good
  <2>2. PICK L \in SUBSET I : ~Good(L) /\ m = Cardinality(L)
    OBVIOUS
  <2>. QED BY <2>1, <2>2, Zenon
<1>. DEFINE k == CHOOSE x \in L : TRUE
<1>4. g[L] = IF L = {} THEN 0 ELSE Len(q[k]) + g[L \ {k}]
  BY DEF Adds
<1>5. L # {}
  <2>1. Held({}) = {}
    OBVIOUS
  <2>2. L = {} => Good(L)
    BY <1>4, <2>1, FS_EmptySet, Zenon
  <2>. QED BY <1>3, <2>2
<1>6. k \in L /\ k \in I
  BY <1>5
<1>. HIDE DEF k
<1>7. Good(L \ {k})
  <2>1. L \in Few(I, Cardinality(L)) /\ Cardinality(L) \in Nat
    BY <1>1 DEF Few
  <2>2. Cardinality(L \ {k}) < Cardinality(L)
    BY <1>5, <1>6, <2>1, FewerLeft
  <2>3. L \ {k} \in SUBSET I /\ Cardinality(L \ {k}) \in Nat
    BY <1>1
  <2>4. ~Good(L \ {k}) => Cardinality(L \ {k}) \in Bad
    BY <2>3, Zenon
  <2>. HIDE DEF Good, Bad
  <2>. QED BY <1>3, <2>1, <2>2, <2>3, <2>4
<1>8. IsFiniteSet(Range(q[k])) /\ Cardinality(Range(q[k])) = Len(q[k])
  BY <1>6, DistinctLength
<1>9. Held(L) = Range(q[k]) \cup Held(L \ {k})
  BY <1>6
<1>10. Range(q[k]) \cap Held(L \ {k}) = {}
  BY <1>6, Zenon
<1>11. /\ IsFiniteSet(Held(L \ {k}))
       /\ g[L] = Len(q[k]) + Cardinality(Held(L \ {k}))
  BY <1>4, <1>5, <1>7
<1>. HIDE DEF Held, HeldIn
<1>12. Good(L)
  BY <1>8, <1>9, <1>10, <1>11, DisjointUnion, Zenon
<1>. QED BY <1>3, <1>12

-----------------------------------------------------------------------------
\* The positions among the first n of a list at which it has an element of kept.
Hits(s, kept, n) == {i \in 1..n : s[i] \in kept}

\* They are counted by naturals, none up to position 0 and at most one more from
\* one position to the next.
LEMMA HitsCount ==
  ASSUME NEW s, NEW kept, NEW n \in Nat
  PROVE  /\ IsFiniteSet(Hits(s, kept, n)) /\ Cardinality(Hits(s, kept, n)) \in Nat
         /\ Cardinality(Hits(s, kept, 0)) = 0
         /\ Cardinality(Hits(s, kept, n + 1)) <= Cardinality(Hits(s, kept, n)) + 1
<1>1. IsFiniteSet(Hits(s, kept, n)) /\ Cardinality(Hits(s, kept, n)) \in Nat
  <2>1. IsFiniteSet(1..n) /\ Hits(s, kept, n) \subseteq 1..n
    BY FS_Interval DEF Hits
  <2>. QED BY <2>1, FS_Subset, FS_CardinalityType
<1>2. Hits(s, kept, 0) = {}
  BY DEF Hits
<1>3. Hits(s, kept, n + 1) = Hits(s, kept, n)
        \/ Hits(s, kept, n + 1) = Hits(s, kept, n) \cup {n + 1}
  BY DEF Hits
<1>4. n + 1 \notin Hits(s, kept, n)
  BY DEF Hits
<1>5. Cardinality(Hits(s, kept, n) \cup {n + 1}) = Cardinality(Hits(s, kept, n)) + 1
  BY <1>1, <1>4, FS_AddElement
<1>6. Cardinality(Hits(s, kept, 0)) = 0
  BY <1>2, FS_EmptySet, Zenon
<1>7. \/ Cardinality(Hits(s, kept, n + 1)) = Cardinality(Hits(s, kept, n))
      \/ Cardinality(Hits(s, kept, n + 1)) = Cardinality(Hits(s, kept, n)) + 1
  BY <1>3, <1>5, Zenon
<1>8. \A x \in Nat : \A y : y = x \/ y = x + 1 => y <= x + 1
  OBVIOUS
<1>. QED BY <1>1, <1>6, <1>7, <1>8, Zenon

\* The length of what Retain keeps.
LEMMA RetainLength ==
  ASSUME NEW S, NEW s \in Seq(S), NEW kept
  PROVE  Len(Retain(s, kept)) = Cardinality(Hits(s, kept, Len(s)))
<1>. DEFINE r == Retain(s, kept)
            hits == Hits(s, kept, Len(s))
<1>1. PICK h : r \in Seq(S) /\ Selects(s, kept, Len(s), r, h)
  BY RetainSelects
<1>. HIDE DEF r
<1>2. Len(r) \in Nat
  BY <1>1
<1>3. h \in [1..Len(r) -> hits]
  BY <1>1 DEF Selects, Hits
<1>4. \A i, j \in 1..Len(r) : h[i] = h[j] => i = j
  <2>. SUFFICES ASSUME NEW i \in 1..Len(r), NEW j \in 1..Len(r), h[i] = h[j], i # j
                PROVE  FALSE
    OBVIOUS
  <2>1. i < j \/ j < i
    BY <1>2
  <2>2. h[i] < h[j] \/ h[j] < h[i]
    BY <1>1, <2>1 DEF Selects
  <2>3. h[i] \in Nat
    BY <1>1 DEF Selects
  <2>. QED BY <2>2, <2>3
<1>5. \A i \in hits : \E j \in 1..Len(r) : h[j] = i
  BY <1>1 DEF Selects, Hits
<1>. HIDE DEF hits
<1>6. h \in Bijection(1..Len(r), hits)
  BY <1>3, <1>4, <1>5, Zenon DEF Bijection, Injection, Surjection, IsInjective
<1>7. Cardinality(hits) = Len(r)
  BY <1>2, <1>6, FS_CountingElements, Zenon DEF ExistsBijection
<1>. QED BY <1>7 DEF r, hits

\* The first position with room hits, or the end when there is none.
Stop(s, kept, len, room) ==
  Min({n \in 0..len : Cardinality(Hits(s, kept, n)) = room} \cup {len})

\* Up to there are at most room of them: the count does not jump over room.
LEMMA StopsInTime ==
  ASSUME NEW s, NEW kept, NEW len \in Nat, NEW room \in Nat
  PROVE  /\ Stop(s, kept, len, room) \in 0..len
         /\ Cardinality(Hits(s, kept, Stop(s, kept, len, room))) <= room
<1>. DEFINE p == Stop(s, kept, len, room)
            c(n) == Cardinality(Hits(s, kept, n))
            Full == {n \in 0..len : c(n) = room}
            Over == {n \in 0..len : c(n) > room}
<1>1. \A n \in Nat : c(n) \in Nat /\ c(0) = 0 /\ c(n + 1) <= c(n) + 1
  BY HitsCount
<1>. HIDE DEF c
<1>2. p \in Full \cup {len} /\ \A n \in Full \cup {len} : p <= n
  <2>1. p = Min(Full \cup {len})
    BY Zenon DEF c, Stop
  <2>2. Full \cup {len} \subseteq Nat /\ Full \cup {len} # {}
    OBVIOUS
  <2>. QED BY <2>1, <2>2, MinIsLeast, Zenon
<1>. HIDE DEF p
<1>. SUFFICES ASSUME c(p) > room PROVE FALSE
  <2>1. p \in 0..len /\ c(p) \in Nat
    BY <1>1, <1>2
  <2>2. c(p) <= room => p \in 0..len /\ Cardinality(Hits(s, kept, p)) <= room
    BY <2>1, Zenon DEF c
  <2>. QED BY <2>1, <2>2 DEF p
<1>3. p = len /\ p \in Over
  BY <1>1, <1>2
<1>4. PICK n \in Over : \A i \in Over : n <= i
  <2>1. Over \subseteq Nat /\ Over # {}
    BY <1>3
  <2>. QED BY <2>1, LeastExists, Zenon
<1>5. n # 0
  BY <1>1, <1>4
<1>6. n - 1 \in 0..len /\ c(n - 1) <= room
  <2>1. n - 1 \in 0..len /\ n - 1 \notin Over
    BY <1>4, <1>5
  <2>2. c(n - 1) \in Nat
    BY <1>1, <2>1
  <2>. QED BY <2>1, <2>2
<1>7. c(n) <= c(n - 1) + 1
  <2>1. n - 1 \in Nat /\ (n - 1) + 1 = n
    BY <1>5
  <2>. QED BY <1>1, <2>1
<1>8. c(n - 1) = room
  <2>1. c(n - 1) \in Nat /\ c(n) \in Nat
    BY <1>1, <1>6
  <2>. QED BY <1>4, <1>6, <1>7, <2>1
<1>9. n - 1 \in Full /\ n - 1 < len
  BY <1>5, <1>6, <1>8
<1>10. p <= n - 1
  BY <1>2, <1>9, Zenon
<1>. HIDE DEF Full, Over
<1>11. n - 1 \in Int /\ n - 1 < p
  BY <1>3, <1>6, <1>9
<1>. QED BY <1>3, <1>10, <1>11

\* A finite set of naturals is bounded.
LEMMA FiniteBound ==
  ASSUME NEW V, V \subseteq Nat, IsFiniteSet(V)
  PROVE  \E b \in Nat : \A j \in V : j <= b
<1>. DEFINE Unbounded == {W \in SUBSET V : ~\E b \in Nat : \A j \in W : j <= b}
            Sizes == {Cardinality(W) : W \in Unbounded}
<1>. SUFFICES ASSUME V \in Unbounded PROVE FALSE
  OBVIOUS
<1>1. \A W \in SUBSET V : IsFiniteSet(W) /\ Cardinality(W) \in Nat
  BY FS_Subset, FS_CardinalityType, Zenon
<1>2. PICK W \in Unbounded : \A n \in Sizes : Cardinality(W) <= n
  <2>1. Sizes \subseteq Nat /\ Sizes # {}
    BY <1>1, Zenon
  <2>. QED BY <2>1, LeastExists, Zenon
<1>3. W # {}
  <2>1. \A j \in {} : j <= 0
    OBVIOUS
  <2>. QED BY <1>2, <2>1
<1>4. PICK k \in W : TRUE
  BY <1>3
<1>5. Cardinality(W \ {k}) < Cardinality(W)
  <2>1. Cardinality(W \ {k}) = Cardinality(W) - 1
    BY <1>1, FS_RemoveElement
  <2>. QED BY <1>1, <2>1
<1>6. W \ {k} \notin Unbounded
  <2>1. Cardinality(W) \in Nat /\ Cardinality(W \ {k}) \in Nat
    BY <1>1
  <2>. QED BY <1>2, <1>5, <2>1
<1>7. PICK b \in Nat : \A j \in W \ {k} : j <= b
  BY <1>6
<1>8. k \in Nat
  OBVIOUS
<1>9. \A j \in W : j <= b + k
  BY <1>7, <1>8
<1>10. b + k \in Nat
  BY <1>8
<1>. QED BY <1>2, <1>9, <1>10, Zenon

\* Of a finite set, at most cap elements of L come after fewer than cap others.
LEMMA FirstFew ==
  ASSUME NEW F, IsFiniteSet(F), F \subseteq Nat, NEW L, NEW cap \in Nat,
         NEW V, V \subseteq F \cap L,
         \A k \in V : Cardinality({j \in F : j < k /\ j \in L}) < cap
  PROVE  Cardinality(V) <= cap
<1>1. IsFiniteSet(V) /\ Cardinality(V) \in Nat
  <2>1. V \in SUBSET F
    OBVIOUS
  <2>. QED BY <2>1, FS_Subset, FS_CardinalityType, Zenon
<1>2. CASE V = {}
  BY <1>2, FS_EmptySet
<1>3. CASE V # {}
  <2>1. PICK k \in V : \A j \in V : j <= k
    <3>1. PICK b \in Nat : \A j \in V : j <= b
      BY <1>1, FiniteBound, Zenon
    <3>2. V \subseteq 0..b
      BY <3>1
    <3>. QED BY <1>3, <3>1, <3>2, GreatestExists, Zenon
  <2>. DEFINE B == {j \in F : j < k /\ j \in L}
  <2>2. V \ {k} \subseteq B
    BY <2>1
  <2>3. IsFiniteSet(B) /\ Cardinality(B) \in Nat
    <3>1. B \in SUBSET F
      OBVIOUS
    <3>. QED BY <3>1, FS_Subset, FS_CardinalityType
  <2>4. Cardinality(B) < cap
    OBVIOUS
  <2>. HIDE DEF B
  <2>5. Cardinality(V \ {k}) <= Cardinality(B)
    BY <2>2, <2>3, FS_Subset, Zenon
  <2>6. Cardinality(V \ {k}) = Cardinality(V) - 1
    BY <1>1, FS_RemoveElement, Zenon
  <2>. QED BY <1>1, <2>3, <2>4, <2>5, <2>6
<1>. QED BY <1>2, <1>3

-----------------------------------------------------------------------------
(* The actor *)

USE ZenonT(30)

\* The gauges of get_stats count every place of a message once.
LEMMA StatsCount ==
  ASSUME IInv, DInv PROVE StatsAccountForAll
<1>. DEFINE queues == HeldIn(ordered_queues, Keys)
<1>1. /\ backlog \in Seq(Message) /\ \A k \in Keys : ordered_queues[k] \in Seq(Message)
      /\ IsInjective(backlog) /\ Range(backlog) \subseteq Unkeyed
      /\ \A k \in Keys : Range(ordered_queues[k]) \subseteq OfKey(k)
  BY DEF IInv, QueueOK, DInv, QueuesApart, Apart
<1>2. \A k \in Keys : IsInjective(ordered_queues[k])
  <2>1. \A k \in Keys : Rising(ordered_queues[k])
    BY DEF DInv, QueuesApart, Apart
  <2>. QED BY <1>1, <2>1, ConstantTypes, RisingIsInjective
<1>3. /\ IsFiniteSet(queues)
      /\ GetStats.backlog = Len(backlog) + Cardinality(queues)
  <2>. DEFINE R(g) == Adds(ordered_queues, SUBSET Keys, g)
              pending == CHOOSE g : R(g)
  <2>1. R(pending)
    BY ConstantTypes, AddsExists
  <2>2. GetStats.backlog = Len(backlog) + pending[Keys]
    BY DEF GetStats, Adds
  <2>. HIDE DEF pending
  <2>3. /\ IsFiniteSet(Keys) /\ Adds(ordered_queues, SUBSET Keys, pending)
        /\ Keys \in SUBSET Keys
    BY <2>1, ConstantTypes
  <2>4. \A k \in Keys : /\ ordered_queues[k] \in Seq(Message)
                        /\ IsInjective(ordered_queues[k])
    BY <1>1, <1>2
  <2>5. \A j, k \in Keys : j # k =>
          Range(ordered_queues[j]) \cap Range(ordered_queues[k]) = {}
    BY <1>1, Destinations
  <2>6. Separate(ordered_queues, Keys, Message)
    BY <2>4, <2>5 DEF Separate
  <2>7. IsFiniteSet(queues) /\ pending[Keys] = Cardinality(queues)
    BY <2>3, <2>6, AddsCounts, SMTT(30)
  <2>. QED BY <2>2, <2>7
<1>4. IsFiniteSet(Range(backlog)) /\ Cardinality(Range(backlog)) = Len(backlog)
  BY <1>1, DistinctLength
<1>5. IsFiniteSet(Out) /\ Cardinality(Out) = GetStats.outstanding
  <2>. DEFINE f == [id \in DOMAIN outstanding |-> outstanding[id].message]
  <2>1. IsFiniteSet(DOMAIN f) /\ DOMAIN f = DOMAIN outstanding
    BY HeldFinite DEF IInv
  <2>2. IsInjective(f)
    BY DEF DInv, OutOnce, IsInjective
  <2>3. Out = Range(f)
    BY DEF Out, Range
  <2>4. f \in [DOMAIN f -> Message]
    BY DEF IInv, TrackerOK, Delivery
  <2>. HIDE DEF f
  <2>5. IsFiniteSet(Out) /\ Cardinality(Out) = Cardinality(DOMAIN outstanding)
    BY <2>1, <2>2, <2>3, <2>4, DistinctImage
  <2>. QED BY <2>5 DEF GetStats
<1>6. IsFiniteSet(Back) /\ Cardinality(Back) = GetStats.retrying
  <2>1. IsFiniteSet(DOMAIN retrying)
    BY HeldFinite DEF IInv
  <2>2. retrying \in [DOMAIN retrying -> Message]
    BY DEF IInv, RetryOK
  <2>3. Back = Range(retrying)
    BY DEF Back, Range
  <2>4. IsFiniteSet(Back) /\ Cardinality(Back) = Cardinality(DOMAIN retrying)
    BY <2>1, <2>2, <2>3, DistinctImage DEF DInv
  <2>. QED BY <2>4 DEF GetStats
<1>7. {m \in Message : fate[m] = "live"} = (Range(backlog) \cup queues) \cup (Out \cup Back)
  <2>1. Queued = Range(backlog) \cup queues
    BY DEF Queued, Within, HeldIn
  <2>. HIDE DEF queues
  <2>2. \A m \in Message : fate[m] = "live" <=> m \in Queued \cup Out \cup Back
    BY DEF DInv, FatesRight
  <2>3. Queued \cup Out \cup Back \subseteq Message
    BY PlacesType, QueuedType
  <2>. QED BY <2>1, <2>2, <2>3, SMTT(30)
<1>8. /\ Range(backlog) \cap queues = {} /\ Out \cap Back = {}
      /\ (Range(backlog) \cup queues) \cap (Out \cup Back) = {}
  <2>1. Range(backlog) \cap queues = {}
    <3>1. \A k \in Keys : Range(backlog) \cap Range(ordered_queues[k]) = {}
      BY <1>1, Destinations
    <3>. QED BY <3>1, SMTT(30) DEF HeldIn
  <2>2. Queued = Range(backlog) \cup queues
    BY DEF Queued, Within, HeldIn
  <2>. HIDE DEF queues
  <2>. QED BY <2>1, <2>2 DEF DInv, AsideApart
<1>. HIDE DEF queues
<1>9. /\ IsFiniteSet(Range(backlog) \cup queues)
      /\ Cardinality(Range(backlog) \cup queues) = Len(backlog) + Cardinality(queues)
  BY <1>3, <1>4, <1>8, DisjointUnion
<1>10. /\ IsFiniteSet(Out \cup Back)
       /\ Cardinality(Out \cup Back) = GetStats.outstanding + GetStats.retrying
  BY <1>5, <1>6, <1>8, DisjointUnion
<1>11. Cardinality({m \in Message : fate[m] = "live"})
         = GetStats.backlog + (GetStats.outstanding + GetStats.retrying)
  <2>1. Cardinality((Range(backlog) \cup queues) \cup (Out \cup Back))
          = Cardinality(Range(backlog) \cup queues) + Cardinality(Out \cup Back)
    BY <1>8, <1>9, <1>10, DisjointUnion
  <2>. QED BY <1>3, <1>7, <1>9, <1>10, <2>1
<1>12. /\ GetStats.outstanding \in Nat /\ GetStats.retrying \in Nat
       /\ GetStats.backlog \in Nat
  <2>1. Cardinality(Out) \in Nat /\ Cardinality(Back) \in Nat
          /\ Cardinality(Range(backlog) \cup queues) \in Nat
    BY <1>5, <1>6, <1>9, FS_CardinalityType
  <2>. QED BY <1>3, <1>5, <1>6, <1>9, <2>1
<1>13. \A x, y, z \in Nat : x + y + z = y + (x + z)
  BY SMTT(30)
<1>. QED BY <1>11, <1>12, <1>13 DEF StatsAccountForAll

\* The gauges of get_stats add up to the unsettled messages, for any number of
\* messages, keys and configurations: none is hidden from the metrics and none
\* is counted twice.
THEOREM StatsAlwaysAccountForAll == Spec => []StatsAccountForAll
<1>1. IInv /\ DInv => StatsAccountForAll
  BY StatsCount
<1>. QED BY <1>1, AlwaysDInv, PTL

-----------------------------------------------------------------------------
\* The count of outstanding deliveries fits its 16 bits.
CountFits == Cardinality(DOMAIN outstanding) < U16

\* A pull with a cap has at most the room the cap leaves.
LEMMA CapacityWithinCap ==
  ASSUME IInv, CountFits, NEW max_count \in PullCounts,
         NEW cap \in OutstandingCaps \ {0}, Capacity(max_count, cap) > 0
  PROVE  /\ Capacity(max_count, cap) \in Nat
         /\ Cardinality(DOMAIN outstanding) + Capacity(max_count, cap) <= cap
<1>. DEFINE n == Cardinality(DOMAIN outstanding)
            most == Min({max_count, Most})
            room == Headroom(cap)
<1>1. n \in Nat /\ n < U16
  BY HeldFinite, FS_CardinalityType DEF IInv, CountFits
<1>2. max_count \in Nat /\ cap \in Nat /\ cap > 0
  BY ConfigurationAssumption, SMTT(30)
<1>3. room = Max({cap - (n % U16), 0})
  BY DEF Headroom
<1>4. Capacity(max_count, cap) = Min({most, room})
  BY <1>2, Zenon DEF Capacity, Most
<1>5. most \in Nat
  <2>1. {max_count, Most} \subseteq Nat /\ {max_count, Most} # {}
    BY <1>2, MostType
  <2>. QED BY <2>1, MinIsLeast
<1>. HIDE DEF n, most, room
<1>6. n % U16 = n
  BY <1>1, ConstantTypes, SMTT(30)
<1>7. room \in Nat /\ (room > 0 => room = cap - n)
  <2>. DEFINE d == cap - n
  <2>1. d \in Int
    BY <1>1, <1>2, SMTT(30)
  <2>2. room = Max({d, 0})
    BY <1>3, <1>6
  <2>. HIDE DEF d
  <2>3. \E x \in {d, 0} : \A y \in {d, 0} : x >= y
    BY <2>1, SMTT(30)
  <2>4. room \in {d, 0} /\ \A y \in {d, 0} : room >= y
    BY <2>2, <2>3, Zenon DEF Max
  <2>5. room \in Nat /\ (room > 0 => room = d)
    BY <2>1, <2>4, SMTT(30)
  <2>. QED BY <2>5 DEF d
<1>8. /\ Capacity(max_count, cap) \in {most, room}
      /\ Capacity(max_count, cap) <= room
  BY <1>4, <1>5, <1>7, MinIsLeast
<1>. DEFINE capacity == Capacity(max_count, cap)
<1>9. capacity \in Nat /\ capacity <= room /\ capacity > 0
  BY <1>5, <1>7, <1>8
<1>. HIDE DEF capacity
<1>10. n + capacity <= cap
  BY <1>1, <1>2, <1>7, <1>9, SMTT(30)
<1>. QED BY <1>9, <1>10 DEF capacity, n

\* The visited keys with something to hand out are no more than the capacity,
\* and the backlog is popped only to fill what is left of it.
LEMMA BatchWithinCapacity ==
  ASSUME IInv, NEW capacity \in Nat,
         NEW keys \in Listings({k \in Visited(capacity) : HasLive(k)})
  PROVE  /\ keys \in Seq(Keys) /\ Len(keys) \in Nat
         /\ LET popped == Popped(capacity - Len(keys))
                kept == Retain(SubSeq(backlog, 1, popped), Live)
            IN  /\ kept \in Seq(Message)
                /\ Len(keys) + Len(kept) <= capacity
<1>. DEFINE ready == {k \in Visited(capacity) : HasLive(k)}
            L == {k \in Keys : HasLive(k)}
            room == capacity - Len(keys)
            popped == Popped(room)
            front == SubSeq(backlog, 1, popped)
<1>1. /\ FreeKeys \subseteq Keys /\ IsFiniteSet(FreeKeys) /\ FreeKeys \subseteq Nat
      /\ Visited(capacity) \subseteq FreeKeys
  <2>1. FreeKeys \subseteq Keys /\ Visited(capacity) \subseteq FreeKeys
    BY DEF FreeKeys, Visited
  <2>. QED BY <2>1, ConstantTypes, KeyAssumption, FS_Subset
<1>2. \A k \in ready : Cardinality({j \in FreeKeys : j < k /\ j \in L}) < capacity
  <2>1. \A k : {j \in FreeKeys : j < k /\ j \in L}
                 = {j \in FreeKeys : j < k /\ HasLive(j)}
    BY <1>1
  <2>. QED BY <2>1 DEF Visited
<1>3. ready \subseteq FreeKeys \cap L /\ IsFiniteSet(ready)
  <2>1. ready \subseteq FreeKeys \cap L
    BY <1>1
  <2>. QED BY <1>1, <2>1, FS_Subset
<1>. HIDE DEF ready, L
<1>4. Cardinality(ready) <= capacity
  BY <1>1, <1>2, <1>3, FirstFew
<1>5. keys \in Seq(ready) /\ Len(keys) = Cardinality(ready)
  BY <1>3, ListingIsSeq DEF ready
<1>6. Len(keys) \in Nat /\ Len(keys) <= capacity
  BY <1>3, <1>4, <1>5, FS_CardinalityType
<1>7. keys \in Seq(Keys)
  <2>1. ready \subseteq Keys
    BY <1>1, <1>3
  <2>. QED BY <1>5, <2>1, SMTT(30)
<1>8. room \in Nat
  BY <1>6, SMTT(30)
<1>. HIDE DEF room
<1>9. backlog \in Seq(Message) /\ Len(backlog) \in Nat
  <2>1. backlog \in Seq(Message)
    BY DEF IInv, QueueOK
  <2>. QED BY <2>1, SMTT(30)
<1>10. popped \in 0..Len(backlog) /\ Cardinality(Hits(backlog, Live, popped)) <= room
  <2>1. popped = Stop(backlog, Live, Len(backlog), room)
    BY DEF Popped, Hits, Stop
  <2>. HIDE DEF popped
  <2>. QED BY <1>8, <1>9, <2>1, StopsInTime
<1>. HIDE DEF popped
<1>11. /\ front \in Seq(Message) /\ Len(front) = popped
       /\ \A i \in 1..popped : front[i] = backlog[i]
  BY <1>9, <1>10, SMTT(30)
<1>. HIDE DEF front
<1>12. Hits(front, Live, Len(front)) = Hits(backlog, Live, popped)
  BY <1>11 DEF Hits
<1>13. /\ Retain(front, Live) \in Seq(Message)
       /\ Len(Retain(front, Live)) = Cardinality(Hits(front, Live, Len(front)))
  BY <1>11, RetainSelects, RetainLength
<1>14. Len(Retain(front, Live)) \in Nat /\ Len(Retain(front, Live)) <= room
  <2>1. Len(Retain(front, Live)) \in Nat
    BY <1>13, SMTT(30)
  <2>. QED BY <1>10, <1>12, <1>13, <2>1
<1>15. Len(keys) + Len(Retain(front, Live)) <= capacity
  <2>1. \A a \in Nat : a <= room => Len(keys) + a <= capacity
    BY <1>6, SMTT(30) DEF room
  <2>. QED BY <1>14, <2>1
<1>. QED BY <1>6, <1>7, <1>13, <1>15 DEF popped, front, room

\* So a pull with a cap stays within the cap.
LEMMA PullWithinCap ==
  ASSUME IInv, CountFits, NEW max_count \in PullCounts,
         NEW cap \in OutstandingCaps \ {0}, PullMessages(max_count, cap)
  PROVE  Cardinality(DOMAIN outstanding') <= cap
<1>. DEFINE capacity == Capacity(max_count, cap)
            visited == Visited(capacity)
<1>1. PICK keys \in Ascending({k \in visited : HasLive(k)}) :
        Deliver(keys, visited, Popped(capacity - Len(keys)))
  BY DEF PullMessages
<1>2. /\ capacity \in Nat
      /\ Cardinality(DOMAIN outstanding) + capacity <= cap
  <2>1. capacity > 0
    BY DEF PullMessages
  <2>. QED BY <2>1, CapacityWithinCap
<1>. HIDE DEF capacity
<1>. DEFINE heads == [i \in DOMAIN keys |->
                        ordered_queues[keys[i]][LivePosition(keys[i])]]
            kept == Retain(SubSeq(backlog, 1, Popped(capacity - Len(keys))), Live)
            batch == heads \o kept
            ids == next_ack_id .. (next_ack_id + Len(batch) - 1)
<1>3. /\ keys \in Seq(Keys) /\ Len(keys) \in Nat
      /\ kept \in Seq(Message) /\ Len(keys) + Len(kept) <= capacity
  <2>1. keys \in Listings({k \in visited : HasLive(k)})
    BY <1>1 DEF Ascending
  <2>. QED BY <1>2, <2>1, BatchWithinCapacity
<1>4. \E new : DOMAIN new = ids /\ Outstanding!Add(new)
  BY <1>1 DEF Deliver
<1>. HIDE DEF kept
<1>5. Len(batch) \in Nat /\ Len(batch) <= capacity
  <2>1. PICK H : heads \in Seq(H) /\ Len(heads) = Len(keys)
    <3>1. heads \in Seq({heads[i] : i \in DOMAIN keys}) /\ Len(heads) = Len(keys)
      BY <1>3, SMTT(30)
    <3>. HIDE DEF heads
    <3>. QED BY <3>1
  <2>. HIDE DEF heads
  <2>2. Len(batch) = Len(heads) + Len(kept) /\ Len(kept) \in Nat
    BY <1>3, <2>1, ConcatLength
  <2>. HIDE DEF batch
  <2>3. Len(batch) = Len(keys) + Len(kept)
    BY <2>1, <2>2
  <2>. QED BY <1>3, <2>2, <2>3, SMTT(30)
<1>. HIDE DEF batch
<1>6. DOMAIN outstanding' = DOMAIN outstanding \cup ids
  BY <1>4 DEF Outstanding!Add
<1>7. DOMAIN outstanding \cap ids = {}
  BY SMTT(30) DEF IInv, TrackerOK
<1>8. IsFiniteSet(ids) /\ Cardinality(ids) = Len(batch)
  <2>1. next_ack_id \in Nat
    BY DEF IInv, TrackerOK
  <2>. QED BY <1>5, <2>1, IntervalOf
<1>. HIDE DEF ids
<1>9. IsFiniteSet(DOMAIN outstanding) /\ Cardinality(DOMAIN outstanding) \in Nat
  BY HeldFinite, FS_CardinalityType DEF IInv
<1>10. Cardinality(DOMAIN outstanding \cup ids)
         = Cardinality(DOMAIN outstanding) + Cardinality(ids)
  BY <1>7, <1>8, <1>9, DisjointUnion
<1>11. \A a, b, d, e \in Nat : b <= d /\ a + d <= e => a + b <= e
  BY SMTT(30)
<1>12. cap \in Nat
  BY ConfigurationAssumption, SMTT(30)
<1>. QED BY <1>2, <1>5, <1>6, <1>8, <1>9, <1>10, <1>11, <1>12

\* Flow control holds for every capacity, count, queue and batch: as long as
\* fewer than 2^16 deliveries are outstanding, so that the cast of their number
\* loses nothing, no pull with a cap makes their number exceed the cap.
THEOREM CapAlwaysRespected ==
  Spec /\ []CountFits => CapRespected
<1>. DEFINE Within16 ==
       \A max_count \in PullCounts, cap \in OutstandingCaps \ {0} :
         PullMessages(max_count, cap) =>
           \/ Cardinality(DOMAIN outstanding') <= cap
           \/ outstanding' = outstanding
<1>1. IInv /\ DInv /\ CountFits /\ [Next]_vars => [Within16]_vars
  BY PullWithinCap
<1>. HIDE DEF Within16
<1>2. Spec /\ []CountFits => [][Within16]_vars
  BY <1>1, AlwaysDInv, PTL DEF Spec
<1>. QED BY <1>2 DEF Within16, CapRespected

-----------------------------------------------------------------------------
\* Every call has room: no cap on what is outstanding, and counts above 0.
AlwaysRoom ==
  /\ MAX_PULL_COUNT > 0
  /\ \A c \in Consumer :
       MaxCount(c) \in Nat \ {0} /\ MaxOutstanding(c) = 0

Signalled == permit \/ told # {}
Pulls(c) == stage[c] \in {"asked", "orphan"}

ConsumersInvariant ==
  /\ IInv
  /\ DOMAIN stage = Consumer /\ stage = [c \in Consumer |-> stage[c]]
  /\ BacklogAttended

-----------------------------------------------------------------------------
\* Such a call can always be given a message.
LEMMA RoomForAll ==
  ASSUME IInv, AlwaysRoom, NEW c \in Consumer
  PROVE  Capacity(MaxCount(c), MaxOutstanding(c)) # 0
<1>1. Most \in Nat \ {0}
  BY MostType, ConstantTypes, SMTT(30) DEF AlwaysRoom
<1>2. Min({MaxCount(c), Most}) # 0
  <2>1. {MaxCount(c), Most} \subseteq Nat \ {0} /\ {MaxCount(c), Most} # {}
    BY <1>1 DEF AlwaysRoom
  <2>. QED BY <2>1, MinIsLeast
<1>3. ~(MaxOutstanding(c) > 0)
  BY SMTT(30) DEF AlwaysRoom
<1>. QED BY <1>2, <1>3 DEF Capacity, Most

\* Nothing is kept of nothing.
LEMMA RetainOfNone ==
  ASSUME NEW kept PROVE Retain(<< >>, kept) = << >>
<1>1. << >> \in Seq({})
  BY SMTT(30)
<1>2. Retain(<< >>, kept) \in Seq({})
  BY <1>1, RetainSelects
<1>. QED BY <1>2, SMTT(30)

\* notify_one leaves a notification behind, and nothing the actor does takes
\* one away.
LEMMA NotifySignals == NotifyNewMessagesAvailable => Signalled'
BY DEF NotifyNewMessagesAvailable, Signalled

\* A signal that nobody consumes stays.
LEMMA SignalKept ==
  ASSUME Signalled, NotifyNewMessagesAvailable \/ UNCHANGED availableVars
  PROVE  Signalled'
BY NotifySignals DEF Signalled, availableVars

\* A dropped future passes its notification on.
LEMMA DroppedSignalKept ==
  ASSUME NEW c, DropSignal(c), Signalled PROVE Signalled'
BY DEF DropSignal, Signalled

\* A backlog the actor has only looked at is attended as before.
LEMMA StillAttended ==
  ASSUME BacklogAttended, UNCHANGED <<backlog, detached, lifeVars, stage>>,
         NotifyNewMessagesAvailable \/ UNCHANGED availableVars
  PROVE  BacklogAttended'
<1>1. Signalled => Signalled'
  BY SignalKept
<1>. QED BY <1>1 DEF BacklogAttended, Attended, Signalled, lifeVars

\* A backlog whose consumers have been notified is attended.
LEMMA NotifiedAttended ==
  ASSUME NEW condition, backlog' # << >> => condition,
         NotifyAvailableIf(condition)
  PROVE  BacklogAttended'
<1>1. backlog' # << >> => Signalled'
  BY NotifySignals DEF NotifyAvailableIf
<1>. QED BY <1>1 DEF BacklogAttended, Attended, Signalled

-----------------------------------------------------------------------------
\* The actor handles the requests of others.
LEMMA ElsewhereKeeps ==
  ASSUME ConsumersInvariant, Elsewhere, UNCHANGED consumerVars
  PROVE  IInv' /\ BacklogAttended'
<1>. USE DEF ConsumersInvariant
<1>. UNCHANGED stage
  BY DEF consumerVars
<1>0. backlog \in Seq(Message)
  BY DEF IInv, QueueOK
<1>1. ASSUME NEW n \in 1..MaxPost, PostMessages(n, now)
      PROVE  IInv' /\ BacklogAttended'
  <2>. DEFINE batch == [i \in 1..n |-> posted + i]
              accepted == Retain(batch, IF deleted THEN {} ELSE Matching)
  <2>1. now \in 0..now
    BY SMTT(30) DEF IInv, ClientOK
  <2>2. IInv'
    BY <1>1, <2>1, PostMessagesIInv
  <2>3. /\ backlog' = backlog \o Retain(accepted, Unkeyed)
        /\ NotifyAvailableIf(accepted # << >>)
        /\ UNCHANGED <<detached, lifeVars>>
    BY <1>1 DEF PostMessages, configVars
  <2>. HIDE DEF accepted
  <2>4. CASE accepted = << >>
    <3>1. backlog' = backlog
      BY <1>0, <2>3, <2>4, RetainOfNone, SMTT(30)
    <3>2. UNCHANGED availableVars
      BY <2>3, <2>4 DEF NotifyAvailableIf
    <3>. QED BY <2>2, <2>3, <3>1, <3>2, StillAttended
  <2>5. CASE accepted # << >>
    BY <2>2, <2>3, <2>5, NotifiedAttended
  <2>. QED BY <2>4, <2>5
<1>2. ASSUME NEW id, AcknowledgeMessages({id}) PROVE IInv' /\ BacklogAttended'
  <2>1. UNCHANGED <<backlog, detached, lifeVars>>
    BY <1>2 DEF AcknowledgeMessages, configVars
  <2>2. NotifyNewMessagesAvailable \/ UNCHANGED availableVars
    BY <1>2 DEF AcknowledgeMessages
  <2>. QED BY <1>2, <2>1, <2>2, AcknowledgeMessagesIInv, StillAttended
<1>3. ASSUME NEW list, NEW counter, NEW found,
             RequeueMessages(list, counter, found)
      PROVE  BacklogAttended'
  <2>1. NotifyAvailableIf(backlog' # << >>)
    BY <1>3 DEF RequeueMessages
  <2>. QED BY <2>1, NotifiedAttended
<1>4. ASSUME MaxMods > 0, NEW id \in AckIds, NEW found, NackOne(id, found)
      PROVE  IInv' /\ BacklogAttended'
  <2>. DEFINE mods == <<[ack_id |-> id, new_deadline |-> Nack]>>
  <2>1. mods \in [1..1 -> Modification]
    BY SMTT(30) DEF Modification
  <2>2. 1 \in 1..MaxMods
    BY <1>4, BoundsAssumption, SMTT(30)
  <2>3. mods \in Modifications
    BY <2>1, <2>2 DEF Modifications
  <2>4. ModifyDeadline(mods, found)
    BY <1>4 DEF NackOne
  <2>. HIDE DEF mods
  <2>5. PICK nacks : RequeueMessages(MessagesOf(nacks), "nacked", found)
    BY <2>4 DEF ModifyDeadline
  <2>. QED BY <1>3, <2>3, <2>4, <2>5, ModifyDeadlineIInv
<1>5. CASE ExpireAny
  <2>1. PICK found : HandleExpiredMessages(found)
    BY <1>5 DEF ExpireAny
  <2>2. PICK list : RequeueMessages(list, "expired", found)
    BY <2>1 DEF HandleExpiredMessages
  <2>. QED BY <1>3, <2>1, <2>2, HandleExpiredMessagesIInv
<1>6. CASE HandleRetryReady
  <2>1. UNCHANGED <<detached, lifeVars>>
    BY <1>6 DEF HandleRetryReady, configVars
  <2>2. PICK kept : /\ RequeueEach(kept, backlog, ordered_queues, keys_in_flight)
                    /\ NotifyAvailableIf(kept # << >>)
    BY <1>6 DEF HandleRetryReady
  <2>3. CASE kept = << >>
    <3>1. backlog' = backlog
      BY <1>0, <2>2, <2>3, RetainOfNone, SMTT(30) DEF RequeueEach
    <3>2. UNCHANGED availableVars
      BY <2>2, <2>3 DEF NotifyAvailableIf
    <3>. QED BY <1>6, <2>1, <3>1, <3>2, StillAttended, HandleRetryReadyIInv
  <2>4. CASE kept # << >>
    BY <1>6, <2>2, <2>4, NotifiedAttended, HandleRetryReadyIInv
  <2>. QED BY <2>3, <2>4
<1>7. ASSUME NEW new \in Infos, UpdateInfo(new) PROVE IInv' /\ BacklogAttended'
  <2>1. ClientOK' /\ ConfigOK'
    BY <1>7, UpdatedInfo DEF UpdateInfo, IInv, ClientOK, ConfigOK, clientVars, lifeVars
  <2>2. UNCHANGED <<backlog, detached, lifeVars, availableVars>>
    BY <1>7 DEF UpdateInfo, queueVars, observerVars
  <2>. QED BY <1>7, <2>1, <2>2, UnmovedIInv, StillAttended DEF UpdateInfo
<1>8. CASE Detach
  BY <1>8, DetachIInv DEF Detach, BacklogAttended
<1>9. CASE Delete
  BY <1>9, DeleteIInv DEF Delete, BacklogAttended
<1>10. CASE DeleteClosed
  <2>1. ClientOK' /\ ConfigOK'
    BY <1>10 DEF DeleteClosed, IInv, ClientOK, ConfigOK, clientVars, configVars
  <2>. QED BY <1>10, <2>1, UnmovedIInv DEF DeleteClosed, BacklogAttended
<1>11. CASE ActorStop
  <2>1. ClientOK' /\ ConfigOK'
    BY <1>11 DEF ActorStop, IInv, ClientOK, ConfigOK, clientVars, configVars
  <2>. QED BY <1>11, <2>1, UnmovedIInv DEF ActorStop, BacklogAttended
<1>12. ASSUME NEW time, Seek(time) PROVE IInv' /\ BacklogAttended'
  <2>1. Signalled'
    BY <1>12, NotifySignals DEF Seek
  <2>. QED BY <1>12, <2>1, SeekIInv DEF BacklogAttended, Attended, Signalled
<1>13. CASE Tick
  <2>1. ClientOK' /\ ConfigOK'
    BY <1>13, SMTT(30)
       DEF Tick, IInv, ClientOK, ConfigOK, clientVars, configVars, lifeVars
  <2>2. UNCHANGED <<backlog, detached, lifeVars, availableVars>>
    BY <1>13 DEF Tick, queueVars, configVars, observerVars
  <2>. QED BY <1>13, <2>1, <2>2, UnmovedIInv, StillAttended DEF Tick
<1>. QED BY <1>1, <1>2, <1>4, <1>5, <1>6, <1>7, <1>8, <1>9, <1>10, <1>11,
            <1>12, <1>13 DEF Elsewhere

-----------------------------------------------------------------------------
\* A step of a call leaves the state of the actor alone.
LEMMA ActorUnmoved ==
  ASSUME IInv, UNCHANGED actorVars, ObserverTypeOK' PROVE IInv'
<1>1. QueueOK'
  BY DEF IInv, QueueOK, actorVars, queueVars
<1>2. TrackerOK'
  BY DEF IInv, TrackerOK, actorVars, trackerVars, Outstanding!SideBySide,
     Outstanding!ExpirationKey
<1>3. RetryOK'
  BY DEF IInv, RetryOK, actorVars, retryVars, Retry!ScheduledOnce
<1>4. ClientOK' /\ ConfigOK' /\ AccountOK'
  BY DEF IInv, ClientOK, ConfigOK, AccountOK, actorVars, clientVars,
     configVars, lifeVars
<1>. QED BY <1>1, <1>2, <1>3, <1>4 DEF IInv

\* Dropped and new futures keep their type.
LEMMA DropSignalType ==
  ASSUME ObserverTypeOK, NEW c, DropSignal(c)
  PROVE  permit' \in BOOLEAN /\ told' \subseteq Consumer /\ waiting' \in Seq(Consumer)
<1>1. waiting \in Seq(Consumer)
  BY DEF ObserverTypeOK
<1>2. Retain(waiting, Consumer \ {c}) \in Seq(Consumer)
  BY <1>1, RetainSelects
<1>3. CASE c \notin told
  BY <1>2, <1>3 DEF DropSignal, ObserverTypeOK
<1>4. CASE c \in told /\ waiting = << >>
  BY <1>4 DEF DropSignal, ObserverTypeOK
<1>5. CASE c \in told /\ waiting # << >>
  <2>1. Tail(waiting) \in Seq(Consumer) /\ Head(waiting) \in Consumer
    BY <1>1, <1>5, SMTT(30)
  <2>. QED BY <1>5, <2>1 DEF DropSignal, ObserverTypeOK
<1>. QED BY <1>3, <1>4, <1>5

\* Dropping a consumer's futures keeps the type of the observer.
LEMMA DropFuturesType ==
  ASSUME ObserverTypeOK, NEW c, DropFutures(c) PROVE ObserverTypeOK'
<1>1. DropSignal(c)
  BY DEF DropFutures
<1>. QED BY <1>1, DropSignalType DEF DropFutures, ObserverTypeOK

\* So does making new ones.
LEMMA ResubscribeType ==
  ASSUME ObserverTypeOK, NEW c \in Consumer, Resubscribe(c),
         permit' \in BOOLEAN, told' \subseteq Consumer, waiting' \in Seq(Consumer)
  PROVE  ObserverTypeOK'
BY DEF Resubscribe, ObserverTypeOK

\* A call that has just sent a pull attends the backlog.
LEMMA SendAttends ==
  ASSUME ConsumersInvariant, NEW c \in Consumer, Send(c) PROVE BacklogAttended'
<1>1. stage'[c] = "asked"
  BY DEF Send, ConsumersInvariant
<1>. QED BY <1>1 DEF BacklogAttended, Attended

\* So does a backlog the other calls attended when one of them is gone, unless
\* the pull of that one was in the mailbox.
LEMMA OthersAttend ==
  ASSUME ConsumersInvariant, NEW c \in Consumer, UNCHANGED actorVars,
         Signalled => Signalled',
         Pulls(c) => Pulls(c)',
         \A d \in Consumer \ {c} : stage'[d] = stage[d]
  PROVE  BacklogAttended'
<1>1. UNCHANGED <<running, deleted, detached, backlog>>
  BY DEF actorVars, lifeVars, configVars, queueVars
<1>2. Attended => Attended'
  BY DEF Attended, Signalled, Pulls
<1>. QED BY <1>1, <1>2 DEF ConsumersInvariant, BacklogAttended

\* A call that is over gives its futures up.
LEMMA FinishKeeps ==
  ASSUME ConsumersInvariant, NEW c \in Consumer, NEW how, ~Pulls(c), Finish(c, how)
  PROVE  IInv' /\ BacklogAttended'
<1>1. DropFutures(c) /\ DropSignal(c) /\ UNCHANGED actorVars
  BY DEF Finish, DropFutures
<1>2. ObserverTypeOK'
  BY <1>1, DropFuturesType DEF ConsumersInvariant, IInv
<1>3. Signalled => Signalled'
  BY <1>1, DroppedSignalKept
<1>4. \A d \in Consumer \ {c} : stage'[d] = stage[d]
  BY DEF Finish, ConsumersInvariant
<1>. QED BY <1>1, <1>2, <1>3, <1>4, ActorUnmoved, OthersAttend
            DEF ConsumersInvariant

-----------------------------------------------------------------------------
\* The actor handles the pull of a call.
LEMMA HandleKeeps ==
  ASSUME AlwaysRoom, ConsumersInvariant, NEW c \in Consumer, Handle(c)
  PROVE  IInv' /\ BacklogAttended'
<1>. USE DEF ConsumersInvariant
<1>1. CASE PullMessages(MaxCount(c), MaxOutstanding(c))
  <2>1. PICK condition : /\ backlog' # << >> => condition
                         /\ NotifyAvailableIf(condition)
    <3>. DEFINE more == \/ backlog' # << >>
                        \/ \E k \in Keys : /\ k \notin keys_in_flight'
                                           /\ ordered_queues'[k] # << >>
    <3>1. NotifyAvailableIf(more)
      BY <1>1 DEF PullMessages
    <3>. QED BY <3>1
  <2>. QED BY <1>1, <2>1, PullMessagesIInv, NotifiedAttended
<1>2. CASE ~PullMessages(MaxCount(c), MaxOutstanding(c))
  <2>1. UNCHANGED vars /\ (deleted \/ detached \/ ~running)
    BY <1>2, RoomForAll DEF Handle
  <2>2. UNCHANGED <<actorVars, observerVars, running, deleted, detached>>
    BY <2>1 DEF vars, actorVars, lifeVars, configVars
  <2>3. ObserverTypeOK'
    BY <2>2 DEF IInv, ObserverTypeOK, observerVars, availableVars, freedVars
  <2>. QED BY <2>1, <2>2, <2>3, ActorUnmoved DEF BacklogAttended
<1>. QED BY <1>1, <1>2

\* The steps of a call.
LEMMA StepKeeps ==
  ASSUME AlwaysRoom, ConsumersInvariant, NEW c \in Consumer, Step(c)
  PROVE  IInv' /\ BacklogAttended'
<1>. USE DEF ConsumersInvariant
<1>0. ObserverTypeOK
  BY DEF IInv
<1>1. CASE StartPull(c) \/ StartStream(c)
  <2>1. /\ Resubscribe(c) /\ Send(c) /\ UNCHANGED <<permit, waiting, told>>
        /\ UNCHANGED actorVars
    BY <1>1 DEF StartPull, StartStream, Send
  <2>2. ObserverTypeOK'
    BY <1>0, <2>1, ResubscribeType DEF ObserverTypeOK
  <2>. QED BY <2>1, <2>2, ActorUnmoved, SendAttends
<1>2. CASE OpenStream(c)
  <2>1. UNCHANGED <<actorVars, observerVars>>
    BY <1>2 DEF OpenStream, vars, actorVars
  <2>2. ObserverTypeOK'
    BY <1>0, <2>1 DEF ObserverTypeOK, observerVars, availableVars, freedVars
  <2>3. ~Pulls(c) /\ \A d \in Consumer \ {c} : stage'[d] = stage[d]
    BY <1>2 DEF OpenStream, Pulls
  <2>4. Signalled => Signalled'
    BY <2>1 DEF Signalled, observerVars, availableVars
  <2>. QED BY <2>1, <2>2, <2>3, <2>4, ActorUnmoved, OthersAttend
<1>3. CASE Handle(c)
  BY <1>3, HandleKeeps
<1>4. CASE Return(c)
  <2>1. ~Pulls(c) /\ \E how : Finish(c, how)
    BY <1>4 DEF Return, Pulls
  <2>. QED BY <2>1, FinishKeeps
<1>5. CASE Park(c)
  <2>1. UNCHANGED <<actorVars, permit, told, called, freedVars, deleted_signal>>
    BY <1>5 DEF Park
  <2>2. waiting' \in Seq(Consumer) /\ created' \subseteq Consumer
    BY <1>0, <1>5, SMTT(30) DEF Park, ObserverTypeOK
  <2>3. ObserverTypeOK'
    BY <1>0, <2>1, <2>2 DEF ObserverTypeOK, freedVars
  <2>4. ~Pulls(c) /\ \A d \in Consumer \ {c} : stage'[d] = stage[d]
    BY <1>5 DEF Park, Pulls
  <2>5. Signalled => Signalled'
    BY <2>1 DEF Signalled
  <2>. QED BY <2>1, <2>3, <2>4, <2>5, ActorUnmoved, OthersAttend
<1>6. CASE WakeBySignal(c)
  <2>1. /\ Resubscribe(c) /\ Send(c) /\ UNCHANGED <<actorVars, waiting>>
        /\ permit' \in BOOLEAN /\ told' \subseteq Consumer
    BY <1>0, <1>6 DEF WakeBySignal, Send, ObserverTypeOK
  <2>2. ObserverTypeOK'
    BY <1>0, <2>1, ResubscribeType DEF ObserverTypeOK
  <2>. QED BY <2>1, <2>2, ActorUnmoved, SendAttends
<1>7. CASE WakeByFreed(c)
  <2>1. DropSignal(c) /\ Resubscribe(c) /\ Send(c) /\ UNCHANGED actorVars
    BY <1>7 DEF WakeByFreed, Send
  <2>2. ObserverTypeOK'
    BY <1>0, <2>1, DropSignalType, ResubscribeType
  <2>. QED BY <2>1, <2>2, ActorUnmoved, SendAttends
<1>8. CASE WakeByDeleted(c)
  <2>1. ~Pulls(c) /\ Finish(c, "not_found")
    BY <1>8 DEF WakeByDeleted, Awaits, Pulls
  <2>. QED BY <2>1, FinishKeeps
<1>9. CASE Abandon(c)
  <2>1. DropFutures(c) /\ DropSignal(c) /\ UNCHANGED actorVars
    BY <1>9 DEF Abandon, DropFutures
  <2>2. ObserverTypeOK'
    BY <1>0, <2>1, DropFuturesType
  <2>3. /\ \A d \in Consumer \ {c} : stage'[d] = stage[d]
        /\ Pulls(c) => Pulls(c)'
    BY <1>9 DEF Abandon, Pulls
  <2>4. Signalled => Signalled'
    BY <2>1, DroppedSignalKept
  <2>. QED BY <2>1, <2>2, <2>3, <2>4, ActorUnmoved, OthersAttend
<1>. QED BY <1>1, <1>2, <1>3, <1>4, <1>5, <1>6, <1>7, <1>8, <1>9 DEF Step

\* Every call has a stage at all times.
LEMMA StagesKept ==
  ASSUME ConsumersInvariant, ConsumersNext \/ UNCHANGED allVars
  PROVE  DOMAIN stage' = Consumer /\ stage' = [c \in Consumer |-> stage'[c]]
<1>1. stage' = stage \/ \E c, s : stage' = [stage EXCEPT ![c] = s]
  <2>1. ASSUME NEW c, Step(c)
        PROVE  stage' = stage \/ \E s : stage' = [stage EXCEPT ![c] = s]
    BY <2>1 DEF Step, StartPull, OpenStream, StartStream, Handle, Return, Park,
       WakeBySignal, WakeByFreed, WakeByDeleted, Abandon, Send, Finish
  <2>. QED BY <2>1 DEF ConsumersNext, consumerVars, allVars
<1>. QED BY <1>1 DEF ConsumersInvariant

\* No wake-up is lost: while the subscription can deliver and its backlog is not
\* empty a notification is stored or held, or a pull is in the mailbox
\* (pull_messages, the loops of pull and streaming_pull, tokio's Notify), as
\* long as every call always has room.
THEOREM NoWakeUpLost ==
  ASSUME AlwaysRoom PROVE ConsumersSpec => []BacklogAttended
<1>1. ConsumersInit => ConsumersInvariant
  <2>. SUFFICES ASSUME ConsumersInit PROVE ConsumersInvariant
    OBVIOUS
  <2>1. IInv
    BY InitIInv DEF ConsumersInit
  <2>2. backlog = << >>
    BY DEF ConsumersInit, Init
  <2>. QED BY <2>1, <2>2 DEF ConsumersInit, ConsumersInvariant, BacklogAttended
<1>2. ConsumersInvariant /\ [ConsumersNext]_allVars => ConsumersInvariant'
  <2>. SUFFICES ASSUME ConsumersInvariant, [ConsumersNext]_allVars
                PROVE  ConsumersInvariant'
    OBVIOUS
  <2>1. CASE ConsumersNext
    <3>1. IInv' /\ BacklogAttended'
      BY <2>1, ElsewhereKeeps, StepKeeps DEF ConsumersNext
    <3>. QED BY <2>1, <3>1, StagesKept DEF ConsumersInvariant
  <2>2. CASE UNCHANGED allVars
    <3>1. UNCHANGED vars
      BY <2>2 DEF allVars
    <3>2. IInv'
      BY <3>1, StepIInv DEF ConsumersInvariant
    <3>3. UNCHANGED <<backlog, detached, lifeVars, stage, availableVars>>
      BY <2>2, <3>1
         DEF allVars, consumerVars, vars, queueVars, configVars, observerVars
    <3>4. BacklogAttended'
      BY <3>3, StillAttended DEF ConsumersInvariant
    <3>. QED BY <2>2, <3>2, <3>4, StagesKept DEF ConsumersInvariant
  <2>. QED BY <2>1, <2>2
<1>3. ConsumersInvariant => BacklogAttended
  BY DEF ConsumersInvariant
<1>. QED BY <1>1, <1>2, <1>3, PTL DEF ConsumersSpec

=============================================================================

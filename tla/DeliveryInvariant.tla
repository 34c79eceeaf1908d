--------------------------- MODULE DeliveryInvariant ---------------------------
(***************************************************************************)
(* Where a message is held and in which order the messages of a key go     *)
(* out, proved for every number of messages and keys, every configuration  *)
(* and every bound.  The inductive invariant is DInv: the places of a      *)
(* message are disjoint and hold it once; together they hold the live      *)
(* messages; the queue of a key rises, and a message of the key that is    *)
(* out for delivery or in backoff is the only one, precedes the queue and  *)
(* keeps its key in flight.                                                *)
(***************************************************************************)
EXTENDS SubscriptionActorProofs

USE ZenonT(30)

-----------------------------------------------------------------------------
\* The messages out for delivery, in backoff, and in the queues.
Out == {outstanding[id].message : id \in DOMAIN outstanding}
Back == {retrying[n] : n \in DOMAIN retrying}
Within(b, q) == Range(b) \cup UNION {Range(q[k]) : k \in Keys}
Queued == Within(backlog, ordered_queues)

\* A backlog b and queues q with every message in its place, once.
Apart(b, q) ==
  /\ IsInjective(b) /\ Range(b) \subseteq Unkeyed
  /\ \A k \in Keys : Rising(q[k]) /\ Range(q[k]) \subseteq OfKey(k)

\* The conjuncts of the invariant: every queue holds its own messages, once and
\* (for a key) in order; no message is out twice; out, in backoff and queued
\* exclude one another; what is aside of a key is alone, first, and keeps the
\* key in flight; and the live messages are those held.
QueuesApart == Apart(backlog, ordered_queues)

OutOnce ==
  \A i, j \in DOMAIN outstanding :
    outstanding[i].message = outstanding[j].message => i = j

AsideApart ==
  Out \cap Back = {} /\ (Out \cup Back) \cap Queued = {}

\* At most one message of each key.
OnePerKey(messages) ==
  \A m, n \in messages :
    Keyed(m) /\ Keyed(n) /\ KeyOf[m] = KeyOf[n] => m = n

\* Every keyed message precedes the queue of its key in q.
Precede(messages, q) ==
  \A m \in messages : Keyed(m) => \A x \in Range(q[KeyOf[m]]) : m < x

AsideFirst ==
  /\ OnePerKey(Out \cup Back)
  /\ Precede(Out \cup Back, ordered_queues)
  /\ \A m \in Out \cup Back : Keyed(m) => KeyOf[m] \in keys_in_flight

FatesRight ==
  \A m \in Message : /\ fate[m] = "live" <=> m \in Queued \cup Out \cup Back
                     /\ fate[m] = "unposted" <=> m > posted

DInv ==
  QueuesApart /\ OutOnce /\ IsInjective(retrying) /\ AsideApart /\ AsideFirst
    /\ FatesRight

\* Every message has its queue.
LEMMA Destinations ==
  /\ \A m \in Message : \/ m \in Unkeyed
                        \/ KeyOf[m] \in Keys /\ m \in OfKey(KeyOf[m])
  /\ \A k \in Keys : Unkeyed \cap OfKey(k) = {}
  /\ \A j, k \in Keys : j # k => OfKey(j) \cap OfKey(k) = {}
BY KeyAssumption DEF Unkeyed, OfKey, Keyed

-----------------------------------------------------------------------------
\* The messages join the queues q of their keys.
Joined(messages, q) ==
  \A k \in Keys :
    Range(ordered_queues'[k]) = Range(q[k]) \cup (messages \cap OfKey(k))

\* Messages that return to queues they precede, at most one of each key, leave
\* the queues apart and rising.
LEMMA RequeueEachHolds ==
  ASSUME NEW list \in Seq(Message), IsInjective(list), OnePerKey(Range(list)),
         NEW b \in Seq(Message), NEW q \in [Keys -> Seq(Message)], Apart(b, q),
         Within(b, q) \cap Range(list) = {}, Precede(Range(list), q),
         NEW f, f \subseteq Keys, RequeueEach(list, b, q, f)
  PROVE  /\ QueuesApart' /\ Joined(Range(list), q)
         /\ Queued' = Within(b, q) \cup Range(list)
<1>0. /\ IsInjective(b) /\ Range(b) \subseteq Unkeyed
      /\ \A k \in Keys : Rising(q[k]) /\ Range(q[k]) \subseteq OfKey(k)
      /\ Range(b) \cap Range(list) = {}
  BY DEF Apart, Within
<1>1. /\ IsInjective(backlog') /\ Range(backlog') \subseteq Unkeyed
      /\ Range(backlog') = Range(b) \cup (Range(list) \cap Unkeyed)
  <2>. DEFINE kept == Retain(list, Unkeyed)
  <2>1. kept \in Seq(Message) /\ IsInjective(kept)
    BY RetainSelects, RetainInjective
  <2>2. Range(kept) = Range(list) \cap Unkeyed
    BY RetainRange
  <2>3. backlog' = b \o kept
    BY DEF RequeueEach
  <2>. HIDE DEF kept
  <2>4. IsInjective(b \o kept)
    BY <1>0, <2>1, <2>2, ConcatInjective
  <2>5. Range(b \o kept) = Range(b) \cup Range(kept)
    BY <2>1, ConcatIsSeq, SMTT(30)
  <2>. QED BY <1>0, <2>2, <2>3, <2>4, <2>5
<1>2. ASSUME NEW k \in Keys
      PROVE  /\ Rising(ordered_queues'[k])
             /\ Range(ordered_queues'[k])
                  = Range(q[k]) \cup (Range(list) \cap OfKey(k))
  <2>. DEFINE kept == Retain(list, OfKey(k))
              first == Reversed(kept)
  <2>1. kept \in Seq(Message) /\ IsInjective(kept)
    BY RetainSelects, RetainInjective
  <2>2. Range(kept) = Range(list) \cap OfKey(k)
    BY RetainRange
  <2>3. ordered_queues'[k] = first \o q[k]
    BY DEF RequeueEach
  <2>. HIDE DEF kept
  <2>4. \A x, y \in Range(kept) : x = y
    BY <2>2 DEF OnePerKey, OfKey
  <2>5. first \in Seq(Message) /\ Range(first) = Range(kept)
    BY <2>1, ReverseIsSeq
  <2>6. Rising(first)
    BY <2>1, <2>4, ShortReverseRising
  <2>. HIDE DEF first
  <2>7. \A x \in Range(first), y \in Range(q[k]) : x < y
    BY <2>2, <2>5 DEF Precede, OfKey
  <2>8. q[k] \in Seq(Message) /\ Rising(q[k])
    BY <1>0
  <2>9. Rising(first \o q[k])
    BY <2>5, <2>6, <2>7, <2>8, ConcatRising
  <2>10. Range(first \o q[k]) = Range(first) \cup Range(q[k])
    BY <2>5, <2>8, ConcatIsSeq, SMTT(30)
  <2>. QED BY <2>2, <2>3, <2>5, <2>9, <2>10
<1>3. QueuesApart'
  BY <1>1, <1>2 DEF QueuesApart, Apart
<1>4. Queued' = Within(b, q) \cup Range(list)
  <2>1. Queued' = Range(backlog') \cup UNION {Range(ordered_queues'[k]) : k \in Keys}
    BY DEF Queued, Within
  <2>2. Range(list) \subseteq Message
    BY SMTT(30) DEF Range
  <2>3. \A m \in Range(list) : m \in Unkeyed \/ \E k \in Keys : m \in OfKey(k)
    BY <2>2, Destinations
  <2>. QED BY <1>1, <1>2, <2>1, <2>3, SMTT(30) DEF Within
<1>5. Joined(Range(list), q)
  BY <1>2 DEF Joined
<1>. QED BY <1>3, <1>4, <1>5

\* Messages that enter the retry queue are held there once.
LEMMA DelayHolds ==
  ASSUME RetryOK, NEW list \in Seq(Message), IsInjective(list),
         IsInjective(retrying), Range(list) \cap Back = {}, Delay(list)
  PROVE  IsInjective(retrying') /\ Back' = Back \cup Range(list)
<1>. DEFINE n == Len(list)
            added == next_seq .. (next_seq + n - 1)
<1>1. n \in Nat /\ DOMAIN list = 1..n /\ next_seq \in Nat
  BY SMTT(30) DEF RetryOK
<1>2. /\ Len(Retries(list)) = n
      /\ \A i \in 1..n : Retries(list)[i].message = list[i]
  BY <1>1, SMTT(30) DEF Retries
<1>. HIDE DEF n
<1>3. \A j \in added : j - next_seq + 1 \in 1..n
  BY <1>1, SMTT(30)
<1>4. retrying' = [j \in DOMAIN retrying \cup added |->
                     IF j \in added THEN list[j - next_seq + 1] ELSE retrying[j]]
  <2>1. retrying' = [j \in DOMAIN retrying \cup added |->
                       IF j \in added THEN Retries(list)[j - next_seq + 1].message
                       ELSE retrying[j]]
    BY <1>2 DEF Delay, Retry!Add
  <2>. HIDE DEF added
  <2>. QED BY <1>2, <1>3, <2>1
<1>5. DOMAIN retrying \cap added = {}
  BY <1>1, SMTT(30) DEF RetryOK, Retry!ScheduledOnce
<1>6. \A i \in 1..n : i + next_seq - 1 \in added /\ (i + next_seq - 1) - next_seq + 1 = i
  BY <1>1, SMTT(30)
<1>7. \A i, j \in added : i - next_seq + 1 = j - next_seq + 1 => i = j
  BY <1>1, SMTT(30)
<1>. HIDE DEF added
<1>8. DOMAIN retrying' = DOMAIN retrying \cup added
  BY <1>4
<1>9. \A j \in added : retrying'[j] = list[j - next_seq + 1]
                         /\ retrying'[j] \in Range(list)
  BY <1>1, <1>3, <1>4 DEF Range
<1>10. \A j \in DOMAIN retrying : retrying'[j] = retrying[j] /\ retrying'[j] \in Back
  BY <1>4, <1>5 DEF Back
<1>11. IsInjective(retrying')
  <2>1. \A i, j \in added : retrying'[i] = retrying'[j] => i = j
    BY <1>1, <1>3, <1>7, <1>9 DEF IsInjective
  <2>2. \A i, j \in DOMAIN retrying : retrying'[i] = retrying'[j] => i = j
    BY <1>10 DEF IsInjective
  <2>3. \A i \in added, j \in DOMAIN retrying : retrying'[i] # retrying'[j]
    BY <1>9, <1>10
  <2>. QED BY <1>8, <2>1, <2>2, <2>3 DEF IsInjective
<1>12. Back' = Back \cup Range(list)
  <2>1. Back' = {retrying'[j] : j \in DOMAIN retrying'}
    BY DEF Back
  <2>2. \A x \in Range(list) : \E j \in added : x = retrying'[j]
    <3>. TAKE x \in Range(list)
    <3>1. PICK i \in 1..n : x = list[i]
      BY <1>1 DEF Range
    <3>2. retrying'[i + next_seq - 1] = list[i] /\ i + next_seq - 1 \in added
      BY <1>6, <1>9
    <3>. QED BY <3>1, <3>2
  <2>3. \A x \in Back : \E j \in DOMAIN retrying : x = retrying'[j]
    BY <1>10 DEF Back
  <2>. QED BY <1>8, <1>9, <1>10, <2>1, <2>2, <2>3, SMTT(30)
<1>. QED BY <1>11, <1>12

\* Deliveries that end leave the others as they are.
LEMMA EndedHolds ==
  ASSUME OutOnce, NEW ids, ids \subseteq DOMAIN outstanding,
         DOMAIN outstanding' = DOMAIN outstanding \ ids,
         \A id \in DOMAIN outstanding' :
           outstanding'[id].message = outstanding[id].message
  PROVE  /\ OutOnce'
         /\ Out' = Out \ {outstanding[id].message : id \in ids}
BY SMTT(30) DEF OutOnce, Out

\* The messages of distinct deliveries are distinct.
LEMMA MessagesOfHolds ==
  ASSUME OutOnce, NEW ids \in Seq(DOMAIN outstanding), IsInjective(ids)
  PROVE  /\ IsInjective(MessagesOf(ids))
         /\ Range(MessagesOf(ids)) = {outstanding[id].message : id \in Range(ids)}
<1>1. MessagesOf(ids) = [i \in 1..Len(ids) |-> outstanding[ids[i]].message]
      /\ DOMAIN ids = 1..Len(ids)
  BY SMTT(30) DEF MessagesOf
<1>2. \A i \in 1..Len(ids) : ids[i] \in DOMAIN outstanding
  BY SMTT(30)
<1>3. IsInjective(MessagesOf(ids))
  BY <1>1, <1>2, SMTT(30) DEF IsInjective, OutOnce
<1>4. Range(MessagesOf(ids)) = {outstanding[id].message : id \in Range(ids)}
  BY <1>1, SMTT(30) DEF Range
<1>. QED BY <1>3, <1>4

-----------------------------------------------------------------------------
\* Messages in flight or waiting for a retry that leave these places, for their
\* queue or for good, leave the other ones apart and first in line.
LEMMA ReturnedAside ==
  ASSUME AsideApart, AsideFirst, Out \cup Back \subseteq Message,
         NEW M, M \subseteq Out \cup Back, Out' = Out \ M, Back' = Back \ M,
         Queued' \subseteq Queued \cup M,
         \A k \in Keys : Range(ordered_queues'[k])
                           \subseteq Range(ordered_queues[k]) \cup (M \cap OfKey(k)),
         \A k \in keys_in_flight : \/ k \in keys_in_flight'
                                   \/ \E m \in M : Keyed(m) /\ KeyOf[m] = k
  PROVE  AsideApart' /\ AsideFirst'
<1>1. AsideApart'
  <2>1. Out' \cap Back' = {}
    BY DEF AsideApart
  <2>2. (Out' \cup Back') \cap Queued' = {}
    BY DEF AsideApart
  <2>. QED BY <2>1, <2>2 DEF AsideApart
<1>2. OnePerKey(Out' \cup Back')
  BY DEF AsideFirst, OnePerKey
<1>3. ASSUME NEW m \in Out' \cup Back', Keyed(m)
      PROVE  /\ KeyOf[m] \in keys_in_flight'
             /\ \A x \in Range(ordered_queues'[KeyOf[m]]) : m < x
  <2>1. m \in Out \cup Back /\ m \notin M /\ m \in Message
    BY <1>3
  <2>2. KeyOf[m] \in Keys
    BY <1>3, <2>1, Destinations DEF Unkeyed
  <2>3. \A x \in M : ~(Keyed(x) /\ KeyOf[x] = KeyOf[m])
    BY <1>3, <2>1 DEF AsideFirst, OnePerKey
  <2>4. KeyOf[m] \in keys_in_flight'
    BY <1>3, <2>1, <2>3 DEF AsideFirst
  <2>5. Range(ordered_queues'[KeyOf[m]]) \subseteq Range(ordered_queues[KeyOf[m]])
    BY <2>2, <2>3 DEF OfKey
  <2>. QED BY <1>3, <2>1, <2>4, <2>5 DEF AsideFirst, Precede
<1>4. Precede(Out' \cup Back', ordered_queues')
  BY <1>3 DEF Precede
<1>. QED BY <1>1, <1>2, <1>3, <1>4 DEF AsideFirst

\* Messages that are settled are no longer held, and the others still are.
LEMMA SettledFates ==
  ASSUME FatesRight, NEW D, D \subseteq Queued \cup Out \cup Back,
         NEW as, as \notin {"live", "unposted"}, Settle(D, as), UNCHANGED posted,
         Queued' \cup Out' \cup Back' = (Queued \cup Out \cup Back) \ D
  PROVE  FatesRight'
<1>. SUFFICES ASSUME NEW m \in Message
              PROVE  /\ fate'[m] = "live" <=> m \in (Queued \cup Out \cup Back) \ D
                     /\ fate'[m] = "unposted" <=> m > posted
  BY DEF FatesRight
<1>1. fate'[m] = IF m \in D THEN as ELSE fate[m]
  BY DEF Settle
<1>2. m \in D => fate[m] = "live"
  BY DEF FatesRight
<1>. QED BY <1>1, <1>2 DEF FatesRight

\* The places of messages have their type.
LEMMA PlacesType ==
  ASSUME IInv
  PROVE  Out \subseteq Message /\ Back \subseteq Message
BY DEF IInv, TrackerOK, RetryOK, Delivery, Out, Back

\* requeue_messages, for deliveries that have just ended, keeps the invariant.
LEMMA RequeueMessagesDInv ==
  ASSUME IInv, DInv, NEW list \in Seq(Message), IsInjective(list),
         Range(list) \subseteq Out, OutOnce', Out' = Out \ Range(list),
         NEW counter, NEW found, RequeueMessages(list, counter, found),
         UNCHANGED posted
  PROVE  DInv'
<1>. DEFINE dead == {m \in Range(list) : ExceedsAttempts(m)}
            rest == Retain(list, Message \ dead)
            as == IF topic_manager /\ found THEN "forwarded" ELSE "dropped"
<1>1. Range(list) \subseteq Message /\ dead \subseteq Range(list)
  BY SMTT(30) DEF Range
<1>2. rest \in Seq(Message) /\ IsInjective(rest)
  BY RetainSelects, RetainInjective
<1>3. Range(rest) = Range(list) \ dead
  <2>1. Range(rest) = Range(list) \cap (Message \ dead)
    BY RetainRange
  <2>. HIDE DEF rest, dead
  <2>. QED BY <1>1, <2>1
<1>4. as \notin {"live", "unposted"}
  OBVIOUS
<1>. HIDE DEF dead, rest, as
<1>5. /\ IF info.retry_policy = None
         THEN /\ RequeueEach(rest, backlog, ordered_queues, keys_in_flight)
              /\ UNCHANGED retryVars
         ELSE Delay(rest)
      /\ Settle(dead, as)
  BY DEF RequeueMessages, dead, rest, as
<1>6. /\ Out \cup Back \subseteq Message
      /\ Out \cap Back = {} /\ (Out \cup Back) \cap Queued = {}
  BY PlacesType DEF DInv, AsideApart
<1>7. CASE info.retry_policy = None
  <2>1. /\ RequeueEach(rest, backlog, ordered_queues, keys_in_flight)
        /\ UNCHANGED retryVars
    BY <1>5, <1>7
  <2>2. Back' = Back /\ IsInjective(retrying')
    BY <2>1 DEF Back, retryVars, DInv
  <2>3. Range(rest) \subseteq Out \cup Back
    BY <1>3
  <2>4. OnePerKey(Range(rest)) /\ Precede(Range(rest), ordered_queues)
    BY <2>3 DEF OnePerKey, Precede, DInv, AsideFirst
  <2>5. Queued \cap Range(rest) = {}
    BY <1>6, <2>3
  <2>6. /\ QueuesApart'
        /\ \A k \in Keys : Range(ordered_queues'[k])
                             = Range(ordered_queues[k]) \cup (Range(rest) \cap OfKey(k))
        /\ Queued' = Queued \cup Range(rest)
    <3>1. /\ backlog \in Seq(Message) /\ ordered_queues \in [Keys -> Seq(Message)]
          /\ keys_in_flight \subseteq Keys
      BY DEF IInv, QueueOK
    <3>2. Apart(backlog, ordered_queues) /\ Queued = Within(backlog, ordered_queues)
      BY DEF DInv, QueuesApart, Queued
    <3>3. Within(backlog, ordered_queues) \cap Range(rest) = {}
      BY <2>5, <3>2
    <3>4. QueuesApart'
      BY <1>2, <2>1, <2>4, <3>1, <3>2, <3>3, RequeueEachHolds
    <3>5. Queued' = Queued \cup Range(rest)
      BY <1>2, <2>1, <2>4, <3>1, <3>2, <3>3, RequeueEachHolds
    <3>6. \A k \in Keys : Range(ordered_queues'[k])
            = Range(ordered_queues[k]) \cup (Range(rest) \cap OfKey(k))
      <4>1. Joined(Range(rest), ordered_queues)
        BY <1>2, <2>1, <2>4, <3>1, <3>2, <3>3, RequeueEachHolds
      <4>. QED BY <4>1 DEF Joined
    <3>. QED BY <3>4, <3>5, <3>6
  <2>7. keys_in_flight' = keys_in_flight
          \ {KeyOf[m] : m \in {n \in Range(rest) : Keyed(n)}}
    BY <2>1 DEF RequeueEach, KeysOf
  <2>8. AsideApart' /\ AsideFirst'
    <3>1. Back' = Back \ Range(list) /\ Range(list) \subseteq Out \cup Back
      BY <1>6, <2>2
    <3>2. Queued' \subseteq Queued \cup Range(list)
      BY <1>3, <2>6
    <3>3. \A k \in Keys :
            Range(ordered_queues'[k])
              \subseteq Range(ordered_queues[k]) \cup (Range(list) \cap OfKey(k))
      BY <1>3, <2>6
    <3>4. \A k \in keys_in_flight :
            \/ k \in keys_in_flight'
            \/ \E m \in Range(list) : Keyed(m) /\ KeyOf[m] = k
      BY <1>3, <2>7
    <3>. QED BY <1>6, <3>1, <3>2, <3>3, <3>4, ReturnedAside DEF DInv
  <2>9. FatesRight'
    <3>1. Queued' \cup Out' \cup Back' = (Queued \cup Out \cup Back) \ dead
      BY <1>1, <1>3, <1>6, <2>2, <2>6
    <3>2. dead \subseteq Queued \cup Out \cup Back
      BY <1>1
    <3>. QED BY <1>4, <1>5, <3>1, <3>2, SettledFates DEF DInv
  <2>. QED BY <2>2, <2>6, <2>8, <2>9 DEF DInv
<1>8. CASE info.retry_policy # None
  <2>1. Delay(rest)
    BY <1>5, <1>8
  <2>2. IsInjective(retrying') /\ Back' = Back \cup Range(rest)
    <3>1. Range(rest) \cap Back = {}
      BY <1>3, <1>6
    <3>. QED BY <1>2, <2>1, <3>1, DelayHolds DEF IInv, DInv
  <2>3. UNCHANGED <<backlog, ordered_queues, keys_in_flight>>
    BY <2>1 DEF Delay, queueVars
  <2>4. QueuesApart' /\ Queued' = Queued
    BY <2>3 DEF QueuesApart, Apart, Queued, Within, DInv
  <2>5. Out' \cup Back' \subseteq Out \cup Back /\ Out' \cap Back' = {}
    BY <1>3, <1>6, <2>2
  <2>6. AsideApart'
    BY <1>6, <2>4, <2>5 DEF AsideApart
  <2>7. AsideFirst'
    BY <2>3, <2>5 DEF AsideFirst, OnePerKey, Precede, DInv
  <2>8. FatesRight'
    <3>1. Queued' \cup Out' \cup Back' = (Queued \cup Out \cup Back) \ dead
      BY <1>1, <1>3, <1>6, <2>2, <2>4
    <3>2. dead \subseteq Queued \cup Out \cup Back
      BY <1>1
    <3>. QED BY <1>4, <1>5, <3>1, <3>2, SettledFates DEF DInv
  <2>. QED BY <2>2, <2>4, <2>6, <2>7, <2>8 DEF DInv
<1>. QED BY <1>7, <1>8

-----------------------------------------------------------------------------
\* Initially no message is anywhere.
LEMMA InitDInv == Init => DInv
<1>. SUFFICES ASSUME Init PROVE DInv
  OBVIOUS
<1>1. Range(<< >>) = {} /\ IsInjective(<< >>) /\ Rising(<< >>)
  BY SMTT(30) DEF Range, IsInjective, Rising
<1>2. DOMAIN outstanding = {} /\ DOMAIN retrying = {}
  BY DEF Init, Outstanding!Init, Retry!Init
<1>3. Out = {} /\ Back = {}
  BY <1>2 DEF Out, Back
<1>4. backlog = << >> /\ \A k \in Keys : ordered_queues[k] = << >>
  BY DEF Init
<1>5. Queued = {}
  BY <1>1, <1>4 DEF Queued, Within
<1>6. QueuesApart
  BY <1>1, <1>4 DEF QueuesApart, Apart
<1>7. OutOnce /\ IsInjective(retrying)
  BY <1>2 DEF OutOnce, IsInjective
<1>8. AsideApart /\ AsideFirst
  BY <1>3 DEF AsideApart, AsideFirst, OnePerKey, Precede
<1>9. FatesRight
  <2>1. \A m \in Message : fate[m] = "unposted" /\ m > posted
    BY ConstantTypes, SMTT(30) DEF Init, Message
  <2>. QED BY <1>3, <1>5, <2>1 DEF FatesRight
<1>. QED BY <1>6, <1>7, <1>8, <1>9 DEF DInv

\* acknowledge_messages keeps DInv.
LEMMA AcknowledgeMessagesDInv ==
  ASSUME IInv, DInv, NEW ids, AcknowledgeMessages(ids)
  PROVE  DInv'
<1>. DEFINE valid == ids \cap DOMAIN outstanding
            acked == {outstanding[id].message : id \in valid}
            freed_keys == {KeyOf[m] : m \in {n \in acked : Keyed(n)}}
                            \cap keys_in_flight
<1>1. /\ Outstanding!RemoveIds(ids) /\ Settle(acked, "acked")
      /\ keys_in_flight' = keys_in_flight \ freed_keys
      /\ UNCHANGED <<backlog, ordered_queues, posted, retrying>>
  BY DEF AcknowledgeMessages, clientVars, retryVars
<1>2. /\ DOMAIN outstanding' = DOMAIN outstanding \ valid
      /\ \A id \in DOMAIN outstanding' : outstanding'[id] = outstanding[id]
  BY <1>1 DEF Outstanding!RemoveIds
<1>3. acked \subseteq Out
  BY DEF Out
<1>4. OutOnce' /\ Out' = Out \ acked
  <2>1. valid \subseteq DOMAIN outstanding
    OBVIOUS
  <2>. HIDE DEF valid
  <2>. QED BY <1>2, <2>1, EndedHolds DEF DInv
<1>. HIDE DEF acked, valid
<1>5. /\ Back' = Back /\ IsInjective(retrying') /\ Queued' = Queued
      /\ QueuesApart'
  BY <1>1 DEF Back, Queued, QueuesApart, DInv
<1>6. Out \cap Back = {} /\ (Out \cup Back) \cap Queued = {}
  BY DEF DInv, AsideApart
<1>7. AsideApart' /\ AsideFirst'
  <2>1. Back' = Back \ acked /\ acked \subseteq Out \cup Back
    BY <1>3, <1>5, <1>6
  <2>2. \A k \in keys_in_flight : \/ k \in keys_in_flight'
                                  \/ \E m \in acked : Keyed(m) /\ KeyOf[m] = k
    BY <1>1
  <2>3. \A k \in Keys : Range(ordered_queues'[k])
                          \subseteq Range(ordered_queues[k]) \cup (acked \cap OfKey(k))
    BY <1>1
  <2>4. Queued' \subseteq Queued \cup acked
    BY <1>5
  <2>. QED BY <1>4, <2>1, <2>2, <2>3, <2>4, PlacesType, ReturnedAside DEF DInv
<1>8. FatesRight'
  <2>1. Queued' \cup Out' \cup Back' = (Queued \cup Out \cup Back) \ acked
    BY <1>3, <1>4, <1>5, <1>6
  <2>. QED BY <1>1, <1>3, <2>1, SettledFates DEF DInv
<1>. QED BY <1>4, <1>5, <1>7, <1>8 DEF DInv

\* A list of messages whose deliveries end and that are requeued.
Ends(list, counter, found) ==
  /\ list \in Seq(Message) /\ IsInjective(list) /\ Range(list) \subseteq Out
  /\ Out' = Out \ Range(list)
  /\ RequeueMessages(list, counter, found)

\* modify_deadline ends the deliveries it nacks and requeues their messages.
LEMMA NackedMessages ==
  ASSUME IInv, DInv, NEW mods \in Modifications, NEW found,
         ModifyDeadline(mods, found)
  PROVE  OutOnce' /\ UNCHANGED posted /\ \E list : Ends(list, "nacked", found)
<1>. DEFINE ids == Outstanding!Nacks(mods)
<1>1. PICK nacks \in NackOrder(mods) :
        RequeueMessages(MessagesOf(nacks), "nacked", found)
  BY DEF ModifyDeadline
<1>2. ids \subseteq DOMAIN outstanding
  BY DEF Outstanding!Nacks, Outstanding!Mentioned
<1>3. /\ DOMAIN outstanding' = DOMAIN outstanding \ ids
      /\ \A id \in DOMAIN outstanding' :
           outstanding'[id].message = outstanding[id].message
  <2>1. outstanding' = [id \in DOMAIN outstanding \ ids |->
                          IF id \in Outstanding!Mentioned(mods)
                          THEN Outstanding!Extended(mods, id) ELSE outstanding[id]]
    BY DEF ModifyDeadline, Outstanding!ModifyDeadlines,
       Outstanding!ModifiedMessages
  <2>2. \A id \in DOMAIN outstanding :
          Outstanding!Extended(mods, id).message = outstanding[id].message
    BY DEF Outstanding!Extended, IInv, TrackerOK, Delivery
  <2>. HIDE DEF ids
  <2>. QED BY <2>1, <2>2
<1>4. nacks \in Seq(ids) /\ Range(nacks) = ids /\ IsInjective(nacks)
  <2>1. IsFiniteSet(ids)
    BY <1>2, HeldFinite, FS_Subset DEF IInv
  <2>2. nacks \in Listings(ids)
    BY DEF NackOrder
  <2>. HIDE DEF ids
  <2>. QED BY <2>1, <2>2, ListingIsSeq DEF IsInjective
<1>. HIDE DEF ids
<1>5. nacks \in Seq(DOMAIN outstanding)
  BY <1>2, <1>4, SMTT(30)
<1>6. OutOnce' /\ Out' = Out \ {outstanding[id].message : id \in ids}
  BY <1>2, <1>3, EndedHolds DEF DInv
<1>7. /\ MessagesOf(nacks) \in Seq(Message) /\ IsInjective(MessagesOf(nacks))
      /\ Range(MessagesOf(nacks)) = {outstanding[id].message : id \in ids}
  BY <1>4, <1>5, MessagesOfType, MessagesOfHolds DEF IInv, DInv
<1>8. Range(MessagesOf(nacks)) \subseteq Out /\ Out' = Out \ Range(MessagesOf(nacks))
  BY <1>2, <1>6, <1>7 DEF Out
<1>9. UNCHANGED posted
  BY DEF ModifyDeadline, clientVars
<1>10. Ends(MessagesOf(nacks), "nacked", found)
  BY <1>1, <1>7, <1>8 DEF Ends
<1>. QED BY <1>6, <1>9, <1>10

\* modify_deadline keeps DInv.
LEMMA ModifyDeadlineDInv ==
  ASSUME IInv, DInv, NEW mods \in Modifications, NEW found,
         ModifyDeadline(mods, found)
  PROVE  DInv'
BY NackedMessages, RequeueMessagesDInv DEF Ends

\* The expiry arm ends the deliveries that are due and requeues their messages.
LEMMA ExpiredMessages ==
  ASSUME IInv, DInv, NEW found, HandleExpiredMessages(found)
  PROVE  OutOnce' /\ UNCHANGED posted /\ \E list : Ends(list, "expired", found)
<1>. DEFINE D == Outstanding!Due(now)
            ids == Outstanding!ExpiredIds(now)
<1>1. PICK due \in InOrder(D) :
        RequeueMessages(MessagesOf([i \in DOMAIN due |-> due[i][2]]),
                        "expired", found)
  BY DEF HandleExpiredMessages
<1>. DEFINE list == [i \in DOMAIN due |-> due[i][2]]
<1>2. D \subseteq expirations /\ ids = {e[2] : e \in D}
  BY DEF Outstanding!Due, Outstanding!ExpiredIds
<1>3. /\ \A e \in D : e[2] \in DOMAIN outstanding
      /\ \A e, f \in D : e[2] = f[2] => e = f
  BY <1>2, SMTT(30)
     DEF IInv, TrackerOK, Outstanding!SideBySide, Outstanding!ExpirationKey
<1>4. /\ DOMAIN outstanding' = DOMAIN outstanding \ ids
      /\ \A id \in DOMAIN outstanding' : outstanding'[id] = outstanding[id]
  BY DEF HandleExpiredMessages, Outstanding!TakeExpired
<1>5. list \in Seq(DOMAIN outstanding)
  BY DueType DEF IInv
<1>6. /\ due \in Seq(D) /\ DOMAIN due = 1..Len(due) /\ Range(due) = D
      /\ \A i, j \in DOMAIN due : due[i] = due[j] => i = j
  <2>1. IsFiniteSet(D)
    BY <1>2, EntriesFinite, FS_Subset DEF IInv
  <2>2. due \in Listings(D)
    BY DEF InOrder
  <2>. HIDE DEF D
  <2>. QED BY <2>1, <2>2, ListingIsSeq
<1>. HIDE DEF D, ids
<1>7. IsInjective(list) /\ Range(list) = ids
  <2>1. \A i \in DOMAIN due : due[i] \in D
    BY <1>6, SMTT(30)
  <2>2. IsInjective(list)
    BY <1>3, <1>6, <2>1 DEF IsInjective
  <2>3. Range(list) = ids
    BY <1>2, <1>6, SMTT(30) DEF Range
  <2>. QED BY <2>2, <2>3
<1>8. ids \subseteq DOMAIN outstanding
  BY <1>2, <1>3
<1>. HIDE DEF list
<1>9. OutOnce' /\ Out' = Out \ {outstanding[id].message : id \in ids}
  BY <1>4, <1>8, EndedHolds DEF DInv
<1>10. /\ MessagesOf(list) \in Seq(Message) /\ IsInjective(MessagesOf(list))
       /\ Range(MessagesOf(list)) = {outstanding[id].message : id \in ids}
  BY <1>5, <1>7, MessagesOfType, MessagesOfHolds DEF IInv, DInv
<1>11. Range(MessagesOf(list)) \subseteq Out /\ Out' = Out \ Range(MessagesOf(list))
  BY <1>8, <1>9, <1>10 DEF Out
<1>12. UNCHANGED posted
  BY DEF HandleExpiredMessages, clientVars
<1>13. RequeueMessages(MessagesOf(list), "expired", found)
  BY <1>1 DEF list
<1>14. Ends(MessagesOf(list), "expired", found)
  BY <1>10, <1>11, <1>13 DEF Ends
<1>. QED BY <1>9, <1>12, <1>14

\* Taking back expired deliveries keeps DInv.
LEMMA HandleExpiredMessagesDInv ==
  ASSUME IInv, DInv, NEW found, HandleExpiredMessages(found)
  PROVE  DInv'
BY ExpiredMessages, RequeueMessagesDInv DEF Ends

\* The retries that are ready: the live ones return to their queues, the others
\* are dropped.
Returns(ready) ==
  /\ ready \in Seq(Message) /\ IsInjective(ready) /\ Range(ready) \subseteq Back
  /\ Back' = Back \ Range(ready)
  /\ RequeueEach(Retain(ready, Live), backlog, ordered_queues, keys_in_flight)
  /\ Settle(Range(ready) \ Live, "dropped")

\* Taking the ready retries gives such a list.
LEMMA ReadyMessages ==
  ASSUME IInv, DInv, HandleRetryReady
  PROVE  IsInjective(retrying') /\ \E ready : Returns(ready)
<1>. DEFINE D == Retry!Ready(now)
<1>1. PICK due \in InOrder(D) :
        LET ready == [i \in DOMAIN due |-> retrying[due[i][2]]]
            kept == Retain(ready, Live)
            stale == Range(ready) \ Live
        IN  /\ RequeueEach(kept, backlog, ordered_queues, keys_in_flight)
            /\ Settle(stale, "dropped")
  BY DEF HandleRetryReady
<1>. DEFINE ready == [i \in DOMAIN due |-> retrying[due[i][2]]]
            kept == Retain(ready, Live)
            stale == Range(ready) \ Live
<1>2. D \subseteq schedule
  BY DEF Retry!Ready
<1>3. /\ \A e \in D : e[2] \in DOMAIN retrying
      /\ \A e, f \in D : e[2] = f[2] => e = f
  BY <1>2 DEF IInv, RetryOK, Retry!ScheduledOnce
<1>4. /\ DOMAIN retrying' = DOMAIN retrying \ {e[2] : e \in D}
      /\ \A n \in DOMAIN retrying' : retrying'[n] = retrying[n]
  BY DEF HandleRetryReady, Retry!TakeReady
<1>5. ready \in Seq(Message)
  BY ReadyType DEF IInv
<1>6. /\ due \in Seq(D) /\ DOMAIN due = 1..Len(due) /\ Range(due) = D
      /\ \A i, j \in DOMAIN due : due[i] = due[j] => i = j
  <2>1. IsFiniteSet(D)
    BY <1>2, EntriesFinite, FS_Subset DEF IInv
  <2>2. due \in Listings(D)
    BY DEF InOrder
  <2>. HIDE DEF D
  <2>. QED BY <2>1, <2>2, ListingIsSeq
<1>7. /\ RequeueEach(kept, backlog, ordered_queues, keys_in_flight)
      /\ Settle(stale, "dropped")
  BY <1>1
<1>. HIDE DEF D
<1>8. IsInjective(ready) /\ Range(ready) = {retrying[e[2]] : e \in D}
  <2>1. \A i \in DOMAIN due : due[i] \in D
    BY <1>6, SMTT(30)
  <2>2. IsInjective(ready)
    BY <1>3, <1>6, <2>1, SMTT(30) DEF IsInjective, DInv
  <2>3. Range(ready) = {retrying[e[2]] : e \in D}
    BY <1>6, SMTT(30) DEF Range
  <2>. QED BY <2>2, <2>3
<1>. HIDE DEF ready
<1>10. Range(ready) \subseteq Back
  BY <1>3, <1>8 DEF Back
<1>11. IsInjective(retrying') /\ Back' = Back \ Range(ready)
  <2>1. IsInjective(retrying')
    BY <1>4 DEF IsInjective, DInv
  <2>2. Back' = {retrying[n] : n \in DOMAIN retrying \ {e[2] : e \in D}}
    BY <1>4 DEF Back
  <2>3. \A n \in DOMAIN retrying :
          retrying[n] \in Range(ready) <=> n \in {e[2] : e \in D}
    BY <1>3, <1>8 DEF IsInjective, DInv
  <2>4. Back = {retrying[n] : n \in DOMAIN retrying}
    BY DEF Back
  <2>5. Back' = Back \ Range(ready)
    BY <2>2, <2>3, <2>4
  <2>. QED BY <2>1, <2>5
<1>12. Returns(ready)
  BY <1>5, <1>7, <1>8, <1>10, <1>11 DEF Returns
<1>. QED BY <1>11, <1>12

\* Taking the ready retries keeps DInv.
LEMMA HandleRetryReadyDInv ==
  ASSUME IInv, DInv, HandleRetryReady
  PROVE  DInv'
<1>1. PICK ready : IsInjective(retrying') /\ Returns(ready)
  BY ReadyMessages
<1>. DEFINE kept == Retain(ready, Live)
            stale == Range(ready) \ Live
<1>2. ready \in Seq(Message)
  BY <1>1 DEF Returns
<1>3. /\ RequeueEach(kept, backlog, ordered_queues, keys_in_flight)
      /\ Settle(stale, "dropped")
  BY <1>1 DEF Returns
<1>4. IsInjective(ready)
  BY <1>1 DEF Returns
<1>5. /\ kept \in Seq(Message) /\ IsInjective(kept)
      /\ Range(kept) = Range(ready) \cap Live
  BY <1>2, <1>4, RetainSelects, RetainInjective, RetainRange
<1>6. Range(ready) \subseteq Back
  BY <1>1 DEF Returns
<1>7. IsInjective(retrying') /\ Back' = Back \ Range(ready)
  BY <1>1 DEF Returns
<1>8. OutOnce' /\ Out' = Out /\ UNCHANGED posted
  BY DEF HandleRetryReady, trackerVars, clientVars, Out, OutOnce, DInv
<1>. HIDE DEF kept
<1>9. Out \cap Back = {} /\ (Out \cup Back) \cap Queued = {}
  BY DEF DInv, AsideApart
<1>10. Range(kept) \subseteq Out \cup Back
  BY <1>5, <1>6
<1>11. OnePerKey(Range(kept)) /\ Precede(Range(kept), ordered_queues)
  BY <1>10 DEF OnePerKey, Precede, DInv, AsideFirst
<1>12. /\ QueuesApart' /\ Queued' = Queued \cup Range(kept)
       /\ Joined(Range(kept), ordered_queues)
  <2>1. /\ backlog \in Seq(Message) /\ ordered_queues \in [Keys -> Seq(Message)]
        /\ keys_in_flight \subseteq Keys
    BY DEF IInv, QueueOK
  <2>2. Apart(backlog, ordered_queues) /\ Queued = Within(backlog, ordered_queues)
    BY DEF DInv, QueuesApart, Queued
  <2>3. Within(backlog, ordered_queues) \cap Range(kept) = {}
    BY <1>9, <1>10, <2>2
  <2>4. QueuesApart' /\ Joined(Range(kept), ordered_queues)
    BY <1>3, <1>5, <1>11, <2>1, <2>2, <2>3, RequeueEachHolds
  <2>5. Queued' = Queued \cup Range(kept)
    BY <1>3, <1>5, <1>11, <2>1, <2>2, <2>3, RequeueEachHolds
  <2>. QED BY <2>4, <2>5
<1>13. AsideApart' /\ AsideFirst'
  <2>1. Out' = Out \ Range(ready) /\ Range(ready) \subseteq Out \cup Back
    BY <1>6, <1>8, <1>9
  <2>2. Queued' \subseteq Queued \cup Range(ready)
    BY <1>5, <1>12
  <2>3. \A k \in Keys :
          Range(ordered_queues'[k])
            \subseteq Range(ordered_queues[k]) \cup (Range(ready) \cap OfKey(k))
    BY <1>5, <1>12 DEF Joined
  <2>4. \A k \in keys_in_flight :
          \/ k \in keys_in_flight'
          \/ \E m \in Range(ready) : Keyed(m) /\ KeyOf[m] = k
    BY <1>3, <1>5 DEF RequeueEach, KeysOf
  <2>. QED BY <1>7, <2>1, <2>2, <2>3, <2>4, PlacesType, ReturnedAside DEF DInv
<1>14. FatesRight'
  <2>1. Range(ready) \subseteq Message
    BY <1>6, PlacesType
  <2>2. Queued' \cup Out' \cup Back' = (Queued \cup Out \cup Back) \ stale
    BY <1>5, <1>6, <1>7, <1>8, <1>9, <1>12
  <2>3. stale \subseteq Queued \cup Out \cup Back
    BY <1>6
  <2>. QED BY <1>3, <1>8, <2>2, <2>3, SettledFates DEF DInv
<1>. QED BY <1>7, <1>8, <1>12, <1>13, <1>14 DEF DInv

\* What is queued is a message.
LEMMA QueuedType ==
  ASSUME DInv PROVE Queued \subseteq Message
<1>1. Range(backlog) \subseteq Message
  BY DEF DInv, QueuesApart, Apart, Unkeyed
<1>2. \A k \in Keys : Range(ordered_queues[k]) \subseteq Message
  BY DEF DInv, QueuesApart, Apart, OfKey
<1>. QED BY <1>1, <1>2 DEF Queued, Within

\* A message is held exactly when it is live.
LEMMA LiveIsHeld ==
  ASSUME IInv, DInv, NEW S
  PROVE  {m \in Message \ S : fate[m] = "live"} = (Queued \cup Out \cup Back) \ S
BY QueuedType, PlacesType DEF DInv, FatesRight

\* What detach and delete clear is held nowhere.
LEMMA ClearMessagesDInv ==
  ASSUME IInv, DInv, ClearMessages, UNCHANGED posted
  PROVE  DInv'
<1>1. Range(<< >>) = {} /\ IsInjective(<< >>) /\ Rising(<< >>)
  BY SMTT(30) DEF Range, IsInjective, Rising
<1>2. DOMAIN outstanding' = {} /\ DOMAIN retrying' = {}
  BY DEF ClearMessages, Outstanding!Clear, Retry!Clear
<1>3. Out' = {} /\ Back' = {}
  BY <1>2 DEF Out, Back
<1>4. backlog' = << >> /\ \A k \in Keys : ordered_queues'[k] = << >>
  BY DEF ClearMessages
<1>5. Queued' = {}
  BY <1>1, <1>4 DEF Queued, Within
<1>6. QueuesApart'
  BY <1>1, <1>4 DEF QueuesApart, Apart
<1>7. OutOnce' /\ IsInjective(retrying')
  BY <1>2 DEF OutOnce, IsInjective
<1>8. AsideApart' /\ AsideFirst'
  BY <1>3 DEF AsideApart, AsideFirst, OnePerKey, Precede
<1>9. FatesRight'
  <2>1. {m \in Message : fate[m] = "live"} = Queued \cup Out \cup Back
    BY LiveIsHeld
  <2>2. Settle(Queued \cup Out \cup Back, "dropped")
    BY <2>1 DEF ClearMessages
  <2>. QED BY <1>3, <1>5, <2>2, SettledFates, SMTT(30) DEF DInv
<1>. QED BY <1>6, <1>7, <1>8, <1>9 DEF DInv

\* seek_to_time keeps DInv.
LEMMA SeekDInv ==
  ASSUME IInv, DInv, NEW seek_time, Seek(seek_time)
  PROVE  DInv'
<1>. DEFINE newer == {m \in Message : published[m] > seek_time}
            b == Retain(backlog, newer)
            q == [k \in Keys |-> Retain(ordered_queues[k], newer)]
<1>1. PICK drained \in Listings(DOMAIN outstanding),
           waited \in Listings(DOMAIN retrying) :
        RequeueEach(Retain(MessagesOf(drained)
                             \o [i \in DOMAIN waited |-> retrying[waited[i]]],
                           newer), b, q, {})
  BY DEF Seek
<1>2. Settle({m \in Message \ newer : fate[m] = "live"}, "dropped")
  BY DEF Seek
<1>. HIDE DEF newer
<1>. DEFINE waiters == [i \in DOMAIN waited |-> retrying[waited[i]]]
            all == MessagesOf(drained) \o waiters
            list == Retain(all, newer)
<1>3. DOMAIN outstanding' = {} /\ DOMAIN retrying' = {} /\ UNCHANGED posted
  BY DEF Seek, Outstanding!Clear, Retry!Clear, clientVars
<1>4. Out' = {} /\ Back' = {} /\ OutOnce' /\ IsInjective(retrying')
  BY <1>3 DEF Out, Back, OutOnce, IsInjective
<1>5. /\ MessagesOf(drained) \in Seq(Message) /\ IsInjective(MessagesOf(drained))
      /\ Range(MessagesOf(drained)) = Out
  <2>1. /\ drained \in Seq(DOMAIN outstanding) /\ IsInjective(drained)
        /\ Range(drained) = DOMAIN outstanding
    BY HeldFinite, ListingIsSeq DEF IInv, IsInjective
  <2>. QED BY <2>1, MessagesOfType, MessagesOfHolds DEF IInv, DInv, Out
<1>6. waiters \in Seq(Message) /\ IsInjective(waiters) /\ Range(waiters) = Back
  <2>1. /\ waited \in Seq(DOMAIN retrying) /\ DOMAIN waited = 1..Len(waited)
        /\ Range(waited) = DOMAIN retrying
        /\ \A i, j \in DOMAIN waited : waited[i] = waited[j] => i = j
    BY HeldFinite, ListingIsSeq DEF IInv
  <2>2. \A i \in 1..Len(waited) : /\ waited[i] \in DOMAIN retrying
                                  /\ retrying[waited[i]] \in Message
    BY <2>1, SMTT(30) DEF IInv, RetryOK
  <2>3. waiters \in Seq(Message)
    BY <2>1, <2>2, SMTT(30)
  <2>4. IsInjective(waiters)
    BY <2>1, <2>2, SMTT(30) DEF IsInjective, DInv
  <2>5. Range(waiters) = Back
    <3>1. Range(waiters) = {retrying[waited[i]] : i \in DOMAIN waited}
      BY <2>1 DEF Range
    <3>2. Range(waited) = {waited[i] : i \in DOMAIN waited}
      BY DEF Range
    <3>. HIDE DEF waiters
    <3>. QED BY <2>1, <3>1, <3>2, SMTT(30) DEF Back
  <2>. QED BY <2>3, <2>4, <2>5
<1>7. Out \cap Back = {} /\ (Out \cup Back) \cap Queued = {}
  BY DEF DInv, AsideApart
<1>. HIDE DEF waiters
<1>8. all \in Seq(Message) /\ IsInjective(all) /\ Range(all) = Out \cup Back
  <2>1. IsInjective(all)
    BY <1>5, <1>6, <1>7, ConcatInjective
  <2>. QED BY <1>5, <1>6, <2>1, ConcatIsSeq, SMTT(30)
<1>. HIDE DEF all
<1>9. /\ list \in Seq(Message) /\ IsInjective(list)
      /\ Range(list) = (Out \cup Back) \cap newer
  BY <1>8, RetainSelects, RetainInjective, RetainRange
<1>10. /\ b \in Seq(Message) /\ IsInjective(b)
       /\ Range(b) = Range(backlog) \cap newer
  BY RetainSelects, RetainInjective, RetainRange
     DEF IInv, QueueOK, DInv, QueuesApart, Apart
<1>11. ASSUME NEW k \in Keys
       PROVE  /\ q[k] \in Seq(Message) /\ Rising(q[k])
              /\ Range(q[k]) = Range(ordered_queues[k]) \cap newer
  <2>1. ordered_queues[k] \in Seq(Message) /\ Rising(ordered_queues[k])
    BY DEF IInv, QueueOK, DInv, QueuesApart, Apart
  <2>2. q[k] = Retain(ordered_queues[k], newer)
    OBVIOUS
  <2>. QED BY <2>1, <2>2, RetainSelects, RetainRising, RetainRange
<1>12. q \in [Keys -> Seq(Message)]
  BY <1>11
<1>13. RequeueEach(list, b, q, {})
  BY <1>1 DEF list, all, waiters
<1>. HIDE DEF list, b, q
<1>14. Apart(b, q) /\ Within(b, q) = Queued \cap newer
  <2>1. Apart(b, q)
    BY <1>10, <1>11 DEF Apart, DInv, QueuesApart
  <2>2. Within(b, q) = Queued \cap newer
    BY <1>10, <1>11, SMTT(30) DEF Within, Queued
  <2>. QED BY <2>1, <2>2
<1>15. /\ OnePerKey(Range(list)) /\ Precede(Range(list), q)
       /\ Within(b, q) \cap Range(list) = {}
  <2>1. OnePerKey(Range(list))
    BY <1>9 DEF OnePerKey, DInv, AsideFirst
  <2>2. Precede(Range(list), q)
    <3>. SUFFICES ASSUME NEW m \in Range(list), Keyed(m),
                         NEW x \in Range(q[KeyOf[m]])
                  PROVE  m < x
      BY DEF Precede
    <3>1. m \in Out \cup Back /\ KeyOf[m] \in Keys
      BY <1>9, PlacesType, Destinations DEF Unkeyed
    <3>. QED BY <1>11, <3>1 DEF DInv, AsideFirst, Precede
  <2>3. Within(b, q) \cap Range(list) = {}
    BY <1>7, <1>9, <1>14
  <2>. QED BY <2>1, <2>2, <2>3
<1>16. QueuesApart' /\ Queued' = (Queued \cup Out \cup Back) \cap newer
  <2>1. QueuesApart'
    BY <1>9, <1>10, <1>12, <1>13, <1>14, <1>15, RequeueEachHolds
  <2>2. Queued' = Within(b, q) \cup Range(list)
    BY <1>9, <1>10, <1>12, <1>13, <1>14, <1>15, RequeueEachHolds
  <2>. QED BY <1>9, <1>14, <2>1, <2>2
<1>17. AsideApart' /\ AsideFirst'
  BY <1>4 DEF AsideApart, AsideFirst, OnePerKey, Precede
<1>18. FatesRight'
  <2>1. {m \in Message \ newer : fate[m] = "live"}
          = (Queued \cup Out \cup Back) \ newer
    BY LiveIsHeld
  <2>2. Queued' \cup Out' \cup Back'
          = (Queued \cup Out \cup Back) \ ((Queued \cup Out \cup Back) \ newer)
    BY <1>4, <1>16
  <2>. QED BY <1>2, <1>3, <2>1, <2>2, SettledFates, SMTT(30) DEF DInv
<1>. QED BY <1>4, <1>16, <1>17, <1>18 DEF DInv

\* A step that leaves every message where it is.
LEMMA UnmovedDInv ==
  ASSUME DInv, UNCHANGED <<outstanding, retrying, backlog, ordered_queues,
                           keys_in_flight, fate, posted>>
  PROVE  DInv'
<1>1. Out' = Out /\ Back' = Back /\ Queued' = Queued
  BY DEF Out, Back, Queued
<1>2. QueuesApart' /\ OutOnce' /\ IsInjective(retrying')
  BY DEF DInv, QueuesApart, OutOnce
<1>3. AsideApart' /\ AsideFirst' /\ FatesRight'
  BY <1>1 DEF DInv, AsideApart, AsideFirst, FatesRight
<1>. QED BY <1>2, <1>3 DEF DInv

-----------------------------------------------------------------------------
\* A batch takes the n positions that follow the messages posted so far.
LEMMA BatchHolds ==
  ASSUME IInv, NEW n \in Nat, posted + n <= MaxMessages, NEW batch,
         batch = [i \in 1..n |-> posted + i]
  PROVE  /\ batch \in Seq(Message) /\ Rising(batch)
         /\ Range(batch) = {m \in Message : m > posted /\ m <= posted + n}
<1>1. posted \in Nat /\ MaxMessages \in Nat /\ Message = 1..MaxMessages
  BY ConstantTypes, BoundsAssumption DEF IInv, ClientOK, Message
<1>2. \A i \in 1..n : posted + i \in Message
  BY <1>1, SMTT(30)
<1>3. batch \in Seq(Message) /\ DOMAIN batch = 1..n
  BY <1>2, SMTT(30)
<1>4. Rising(batch)
  BY <1>1, <1>3, SMTT(30) DEF Rising
<1>5. ASSUME NEW m \in Message, m > posted, m <= posted + n PROVE m \in Range(batch)
  <2>1. m - posted \in 1..n /\ posted + (m - posted) = m
    BY <1>1, <1>5, SMTT(30)
  <2>. QED BY <1>3, <2>1 DEF Range
<1>6. \A x \in Range(batch) : x \in Message /\ x > posted /\ x <= posted + n
  BY <1>1, <1>2, <1>3, SMTT(30) DEF Range
<1>. QED BY <1>3, <1>4, <1>5, <1>6

\* post_messages keeps DInv.
LEMMA PostMessagesDInv ==
  ASSUME IInv, DInv, NEW n \in Nat, NEW time, PostMessages(n, time)
  PROVE  DInv'
<1>. DEFINE batch == [i \in 1..n |-> posted + i]
            accepted == Retain(batch, IF deleted THEN {} ELSE Matching)
<1>1. /\ posted + n <= MaxMessages /\ posted' = posted + n
      /\ backlog' = backlog \o Retain(accepted, Unkeyed)
      /\ ordered_queues' =
           [k \in Keys |-> ordered_queues[k] \o Retain(accepted, OfKey(k))]
      /\ fate' = [m \in Message |->
                    IF m \in Range(accepted) THEN "live"
                    ELSE IF m \in Range(batch) THEN "dropped" ELSE fate[m]]
      /\ UNCHANGED <<keys_in_flight, outstanding, retrying>>
  BY DEF PostMessages, trackerVars, retryVars
<1>2. posted \in Nat /\ Message \subseteq Nat
  BY ConstantTypes DEF IInv, ClientOK
<1>3. /\ batch \in Seq(Message) /\ Rising(batch)
      /\ Range(batch) = {m \in Message : m > posted /\ m <= posted + n}
  BY <1>1, BatchHolds
<1>. HIDE DEF batch
<1>4. /\ accepted \in Seq(Message) /\ Rising(accepted)
      /\ Range(accepted) \subseteq Range(batch)
  BY <1>3, RetainSelects, RetainRising, RetainRange, SMTT(30)
<1>. HIDE DEF accepted
<1>5. \A m \in Queued \cup Out \cup Back : m \in Nat /\ m <= posted
  <2>1. Queued \cup Out \cup Back = {m \in Message : fate[m] = "live"}
    BY LiveIsHeld
  <2>. TAKE m \in Queued \cup Out \cup Back
  <2>2. m \in Message /\ fate[m] = "live"
    BY <2>1
  <2>3. m \in Nat
    BY <1>2, <2>2
  <2>4. ~(m > posted)
    BY <2>2 DEF DInv, FatesRight
  <2>. QED BY <1>2, <2>3, <2>4, SMTT(30)
<1>6. \A y \in Range(accepted) : y \in Nat /\ y > posted
  BY <1>2, <1>3, <1>4
<1>7. /\ IsInjective(backlog') /\ Range(backlog') \subseteq Unkeyed
      /\ Range(backlog') = Range(backlog) \cup (Range(accepted) \cap Unkeyed)
  <2>. DEFINE new == Retain(accepted, Unkeyed)
  <2>1. new \in Seq(Message) /\ IsInjective(new)
    BY <1>2, <1>4, RetainSelects, RetainInjective, RisingIsInjective
  <2>2. Range(new) = Range(accepted) \cap Unkeyed
    BY <1>4, RetainRange
  <2>3. backlog' = backlog \o new
    BY <1>1
  <2>. HIDE DEF new
  <2>4. /\ backlog \in Seq(Message) /\ IsInjective(backlog)
        /\ Range(backlog) \subseteq Unkeyed
    BY DEF IInv, QueueOK, DInv, QueuesApart, Apart
  <2>5. Range(backlog) \cap Range(new) = {}
    <3>1. Range(backlog) \subseteq Queued
      BY DEF Queued, Within
    <3>2. \A x \in Range(backlog), y \in Range(new) : x # y
      BY <1>2, <1>5, <1>6, <2>2, <3>1, SMTT(30)
    <3>. QED BY <3>2
  <2>6. IsInjective(backlog \o new)
    BY <2>1, <2>4, <2>5, ConcatInjective
  <2>. QED BY <2>1, <2>2, <2>3, <2>4, <2>6, ConcatIsSeq, SMTT(30)
<1>8. ASSUME NEW k \in Keys
      PROVE  /\ Rising(ordered_queues'[k])
             /\ Range(ordered_queues'[k])
                  = Range(ordered_queues[k]) \cup (Range(accepted) \cap OfKey(k))
             /\ Range(ordered_queues'[k]) \subseteq OfKey(k)
  <2>. DEFINE new == Retain(accepted, OfKey(k))
  <2>1. new \in Seq(Message) /\ Rising(new)
    BY <1>4, RetainSelects, RetainRising
  <2>2. Range(new) = Range(accepted) \cap OfKey(k)
    BY <1>4, RetainRange
  <2>3. ordered_queues'[k] = ordered_queues[k] \o new
    BY <1>1
  <2>. HIDE DEF new
  <2>4. /\ ordered_queues[k] \in Seq(Message) /\ Rising(ordered_queues[k])
        /\ Range(ordered_queues[k]) \subseteq OfKey(k)
    BY DEF IInv, QueueOK, DInv, QueuesApart, Apart
  <2>5. \A x \in Range(ordered_queues[k]), y \in Range(new) : x < y
    <3>1. Range(ordered_queues[k]) \subseteq Queued
      BY DEF Queued, Within
    <3>. QED BY <1>2, <1>5, <1>6, <2>2, <3>1, SMTT(30)
  <2>6. Rising(ordered_queues[k] \o new)
    BY <2>1, <2>4, <2>5, ConcatRising
  <2>. QED BY <2>1, <2>2, <2>3, <2>4, <2>6, ConcatIsSeq, SMTT(30)
<1>9. QueuesApart'
  BY <1>7, <1>8 DEF QueuesApart, Apart
<1>10. Queued' = Queued \cup Range(accepted)
  <2>1. \A m \in Range(accepted) : m \in Unkeyed \/ \E k \in Keys : m \in OfKey(k)
    BY <1>3, <1>4, Destinations
  <2>. QED BY <1>7, <1>8, <2>1, SMTT(30) DEF Queued, Within
<1>11. Out' = Out /\ Back' = Back /\ OutOnce' /\ IsInjective(retrying')
  BY <1>1 DEF Out, Back, OutOnce, DInv
<1>12. AsideApart'
  <2>1. \A x \in Out \cup Back, y \in Range(accepted) : x # y
    BY <1>2, <1>5, <1>6, SMTT(30)
  <2>. QED BY <1>10, <1>11, <2>1 DEF AsideApart, DInv
<1>13. AsideFirst'
  <2>1. ASSUME NEW m \in Out \cup Back, Keyed(m),
               NEW x \in Range(ordered_queues'[KeyOf[m]])
        PROVE  m < x
    <3>1. KeyOf[m] \in Keys
      BY <2>1, PlacesType, Destinations DEF Unkeyed
    <3>2. x \in Range(ordered_queues[KeyOf[m]]) \/ x \in Range(accepted)
      BY <1>8, <2>1, <3>1
    <3>3. x \in Range(accepted) => m < x
      BY <1>2, <1>5, <1>6, <2>1, SMTT(30)
    <3>. QED BY <2>1, <3>2, <3>3 DEF DInv, AsideFirst, Precede
  <2>. QED BY <1>1, <1>11, <2>1 DEF DInv, AsideFirst, Precede
<1>14. FatesRight'
  <2>. SUFFICES ASSUME NEW m \in Message
                PROVE  /\ fate'[m] = "live" <=> m \in Queued' \cup Out' \cup Back'
                       /\ fate'[m] = "unposted" <=> m > posted'
    BY DEF FatesRight
  <2>1. /\ fate[m] = "live" <=> m \in Queued \cup Out \cup Back
        /\ fate[m] = "unposted" <=> m > posted
    BY DEF DInv, FatesRight
  <2>2. m \in Range(batch) <=> m > posted /\ m <= posted + n
    BY <1>3
  <2>3. fate'[m] = IF m \in Range(accepted) THEN "live"
                   ELSE IF m \in Range(batch) THEN "dropped" ELSE fate[m]
    BY <1>1
  <2>4. m \in Queued' \cup Out' \cup Back'
          <=> m \in Queued \cup Out \cup Back \/ m \in Range(accepted)
    BY <1>10, <1>11
  <2>5. m \in Queued \cup Out \cup Back => m \notin Range(batch)
    BY <1>2, <1>5, <2>2, SMTT(30)
  <2>6. fate'[m] = "live" <=> m \in Queued' \cup Out' \cup Back'
    BY <1>4, <2>1, <2>3, <2>4, <2>5
  <2>7. m \in Nat /\ posted' = posted + n
    BY <1>1, <1>2
  <2>8. m \in Range(accepted) => m \in Range(batch)
    BY <1>4
  <2>9. fate'[m] = "unposted" <=> m > posted'
    BY <1>2, <2>1, <2>2, <2>3, <2>7, <2>8, SMTT(30)
  <2>. QED BY <2>6, <2>9
<1>. QED BY <1>9, <1>11, <1>12, <1>13, <1>14 DEF DInv

-----------------------------------------------------------------------------
\* What a pull makes of the queue of a key it visits: the messages it drops,
\* the one it hands out, if any, and what stays.
Passed(k) == {ordered_queues[k][i] : i \in 1..(LivePosition(k) - 1)}
Handed(k) == IF HasLive(k) THEN {ordered_queues[k][LivePosition(k)]} ELSE {}
Rest(k) == SubSeq(ordered_queues[k], LivePosition(k) + 1, Len(ordered_queues[k]))

\* A pull cuts the queue of a key in three.
LEMMA QueueCut ==
  ASSUME IInv, DInv, NEW k \in Keys
  PROVE  /\ Rising(Rest(k))
         /\ Range(ordered_queues[k]) = Passed(k) \cup Handed(k) \cup Range(Rest(k))
         /\ Passed(k) \cap Handed(k) = {}
         /\ (Passed(k) \cup Handed(k)) \cap Range(Rest(k)) = {}
         /\ \A h \in Handed(k), x \in Range(Rest(k)) : h < x
<1>. DEFINE s == ordered_queues[k]
            p == LivePosition(k)
            n == Len(s)
<1>1. s \in Seq(Message) /\ Rising(s) /\ n \in Nat
  BY SMTT(30) DEF IInv, QueueOK, DInv, QueuesApart, Apart
<1>2. p \in 1..(n + 1) /\ (HasLive(k) <=> p <= n)
  BY LivePositionType DEF IInv, HasLive
<1>3. IsInjective(s) /\ DOMAIN s = 1..n
  <2>1. DOMAIN s = 1..n
    BY <1>1, SMTT(30)
  <2>2. Message \subseteq Nat
    BY ConstantTypes
  <2>. HIDE DEF s
  <2>. QED BY <1>1, <2>1, <2>2, RisingIsInjective
<1>4. /\ Passed(k) = {s[i] : i \in 1..(p - 1)}
      /\ Handed(k) = IF HasLive(k) THEN {s[p]} ELSE {}
      /\ Rest(k) = SubSeq(s, p + 1, n)
  BY DEF Passed, Handed, Rest
<1>. HIDE DEF s, p, n
<1>5. CASE p = n + 1
  <2>1. Rest(k) = << >> /\ Handed(k) = {} /\ p - 1 = n
    BY <1>1, <1>2, <1>4, <1>5, SMTT(30)
  <2>2. Range(<< >>) = {} /\ Rising(<< >>)
    BY SMTT(30) DEF Range, Rising
  <2>3. Range(s) = {s[i] : i \in 1..n}
    BY <1>3 DEF Range
  <2>. QED BY <1>4, <2>1, <2>2, <2>3 DEF s
<1>6. CASE p # n + 1
  <2>1. p \in 1..n /\ p \in 0..n /\ Handed(k) = {s[p]}
    BY <1>1, <1>2, <1>4, <1>6, SMTT(30)
  <2>2. Rising(Rest(k)) /\ Range(Rest(k)) = {s[i] : i \in (p + 1)..n}
        /\ Range(s) = {s[i] : i \in 1..n}
    <3>1. n = Len(s)
      BY DEF n
    <3>. QED BY <1>1, <1>4, <2>1, <3>1, CutRange, CutKeeps, SMTT(30)
  <2>3. \A i \in 1..n : i \in 1..(p - 1) \/ i = p \/ i \in (p + 1)..n
    BY <1>1, <2>1, SMTT(30)
  <2>4. /\ \A i \in 1..(p - 1) : i \in 1..n /\ i # p
        /\ \A j \in (p + 1)..n : j \in 1..n /\ p < j
        /\ \A i \in 1..(p - 1), j \in (p + 1)..n : i # j
    BY <1>1, <2>1, SMTT(30)
  <2>5. Range(s) = Passed(k) \cup Handed(k) \cup Range(Rest(k))
    BY <1>4, <2>1, <2>2, <2>3, <2>4
  <2>6. Passed(k) \cap Handed(k) = {}
    BY <1>3, <1>4, <2>1, <2>4 DEF IsInjective
  <2>7. Passed(k) \cap Range(Rest(k)) = {}
    BY <1>3, <1>4, <2>2, <2>4 DEF IsInjective
  <2>8. \A j \in (p + 1)..n : s[p] < s[j] /\ s[p] # s[j]
    <3>. TAKE j \in (p + 1)..n
    <3>1. j \in 1..n /\ p \in 1..n /\ p < j /\ p # j
      BY <1>1, <2>1, SMTT(30)
    <3>. QED BY <1>1, <1>3, <3>1 DEF Rising, IsInjective
  <2>. QED BY <2>1, <2>2, <2>5, <2>6, <2>7, <2>8 DEF s
<1>. QED BY <1>5, <1>6

\* What a pull makes of the backlog.
LEMMA BacklogCut ==
  ASSUME NEW s \in Seq(Message), IsInjective(s), NEW n \in 0..Len(s)
  PROVE  /\ SubSeq(s, 1, n) \in Seq(Message) /\ IsInjective(SubSeq(s, 1, n))
         /\ IsInjective(SubSeq(s, n + 1, Len(s)))
         /\ Range(SubSeq(s, 1, n)) \subseteq Range(s)
         /\ Range(SubSeq(s, n + 1, Len(s))) = Range(s) \ Range(SubSeq(s, 1, n))
<1>1. Len(s) \in Nat /\ DOMAIN s = 1..Len(s)
  BY SMTT(30)
<1>2. /\ SubSeq(s, 1, n) \in Seq(Message)
      /\ Range(SubSeq(s, 1, n)) = {s[i] : i \in 1..n}
      /\ Range(SubSeq(s, n + 1, Len(s))) = {s[i] : i \in (n + 1)..Len(s)}
      /\ Range(s) = {s[i] : i \in 1..Len(s)}
  BY CutRange, SMTT(30)
<1>3. /\ \A i \in 1..Len(s) : i \in 1..n \/ i \in (n + 1)..Len(s)
      /\ \A i \in 1..n : i \in 1..Len(s) /\ i \notin (n + 1)..Len(s)
      /\ \A i \in (n + 1)..Len(s) : i \in 1..Len(s)
  BY <1>1, SMTT(30)
<1>4. \A i \in 1..n, j \in (n + 1)..Len(s) : s[i] # s[j]
  BY <1>1, <1>3 DEF IsInjective
<1>5. Range(SubSeq(s, n + 1, Len(s))) = Range(s) \ Range(SubSeq(s, 1, n))
  BY <1>2, <1>3, <1>4
<1>6. Range(SubSeq(s, 1, n)) \subseteq Range(s)
  BY <1>2, <1>3
<1>. QED BY <1>2, <1>5, <1>6, CutKeeps

\* Deliveries added under new ids.
LEMMA AddHolds ==
  ASSUME TrackerOK, OutOnce, NEW batch \in Seq(Message), IsInjective(batch),
         Range(batch) \cap Out = {}, NEW ids,
         ids = next_ack_id .. (next_ack_id + Len(batch) - 1),
         NEW new, DOMAIN new = ids, Outstanding!Add(new),
         \A id \in ids : new[id].message = batch[id - next_ack_id + 1]
  PROVE  OutOnce' /\ Out' = Out \cup Range(batch)
<1>1. next_ack_id \in Nat /\ Len(batch) \in Nat /\ DOMAIN batch = 1..Len(batch)
  BY SMTT(30) DEF TrackerOK
<1>2. DOMAIN outstanding \cap ids = {}
  BY <1>1, SMTT(30) DEF TrackerOK
<1>3. \A id \in ids : id - next_ack_id + 1 \in DOMAIN batch
  BY <1>1, SMTT(30)
<1>4. \A i, j \in ids : i - next_ack_id + 1 = j - next_ack_id + 1 => i = j
  BY <1>1, SMTT(30)
<1>5. \A x \in Range(batch) : \E id \in ids : x = batch[id - next_ack_id + 1]
  <2>. TAKE x \in Range(batch)
  <2>1. PICK i \in 1..Len(batch) : x = batch[i]
    BY <1>1 DEF Range
  <2>2. /\ next_ack_id + i - 1 \in ids
        /\ (next_ack_id + i - 1) - next_ack_id + 1 = i
    BY <1>1, SMTT(30)
  <2>. QED BY <2>1, <2>2
<1>6. outstanding' = [id \in DOMAIN outstanding \cup ids |->
                        IF id \in ids THEN new[id] ELSE outstanding[id]]
  BY DEF Outstanding!Add
<1>7. DOMAIN outstanding' = DOMAIN outstanding \cup ids
  BY <1>6
<1>8. \A id \in ids : /\ outstanding'[id].message = batch[id - next_ack_id + 1]
                      /\ outstanding'[id].message \in Range(batch)
  BY <1>3, <1>6 DEF Range
<1>9. \A id \in DOMAIN outstanding :
        /\ outstanding'[id].message = outstanding[id].message
        /\ outstanding'[id].message \in Out
  BY <1>2, <1>6 DEF Out
<1>10. OutOnce'
  <2>1. \A i, j \in ids :
          outstanding'[i].message = outstanding'[j].message => i = j
    BY <1>3, <1>4, <1>8 DEF IsInjective
  <2>2. \A i, j \in DOMAIN outstanding :
          outstanding'[i].message = outstanding'[j].message => i = j
    BY <1>9 DEF OutOnce
  <2>3. \A i \in ids, j \in DOMAIN outstanding :
          outstanding'[i].message # outstanding'[j].message
    BY <1>8, <1>9
  <2>. QED BY <1>7, <2>1, <2>2, <2>3 DEF OutOnce
<1>11. Out' = Out \cup Range(batch)
  <2>1. Out' = {outstanding'[id].message : id \in DOMAIN outstanding'}
    BY DEF Out
  <2>2. \A x \in Range(batch) : \E id \in ids : x = outstanding'[id].message
    BY <1>5, <1>8, SMTT(30)
  <2>3. \A x \in Out : \E id \in DOMAIN outstanding : x = outstanding'[id].message
    BY <1>9, SMTT(30) DEF Out
  <2>. QED BY <1>7, <1>8, <1>9, <2>1, <2>2, <2>3, SMTT(30)
<1>. QED BY <1>10, <1>11

-----------------------------------------------------------------------------
\* A pull hands out what is first in line of its keys, and the front of the
\* backlog.
LEMMA DeliverDInv ==
  ASSUME IInv, DInv, NEW visited, visited \subseteq FreeKeys,
         NEW keys \in Listings({k \in visited : HasLive(k)}),
         NEW popped \in 0..Len(backlog), Deliver(keys, visited, popped),
         UNCHANGED <<retrying, posted>>
  PROVE  /\ DInv' /\ Out \subseteq Out' /\ Back' = Back
         /\ \A k \in keys_in_flight' \ keys_in_flight :
              \E m \in OfKey(k) : m \in Out'
<1>. DEFINE ready == {k \in visited : HasLive(k)}
            heads == [i \in DOMAIN keys |->
                        ordered_queues[keys[i]][LivePosition(keys[i])]]
            front == SubSeq(backlog, 1, popped)
            live == Retain(front, Live)
            batch == heads \o live
            ids == next_ack_id .. (next_ack_id + Len(batch) - 1)
            attempt(m) == IF delivery_attempts[m] = 0 THEN 1
                          ELSE delivery_attempts[m]
            delivery(m) == [message |-> m,
                            deadline |-> AckDeadline(now + info.ack_deadline),
                            delivery_attempt |-> attempt(m)]
            new == [id \in ids |-> delivery(batch[id - next_ack_id + 1])]
            stale == (Range(front) \ Live) \cup UNION {Passed(k) : k \in visited}
<1>1. /\ Outstanding!Add(new) /\ Settle(stale, "dropped")
      /\ keys_in_flight' = keys_in_flight \cup Range(keys)
      /\ ordered_queues' = [k \in Keys |-> IF k \in visited THEN Rest(k)
                                           ELSE ordered_queues[k]]
      /\ backlog' = SubSeq(backlog, popped + 1, Len(backlog))
  BY DEF Deliver, Rest, Passed
<1>2. DOMAIN new = ids
      /\ \A id \in ids : new[id].message = batch[id - next_ack_id + 1]
  OBVIOUS
<1>. HIDE DEF new, delivery, attempt
<1>3. visited \subseteq Keys /\ visited \cap keys_in_flight = {}
  BY DEF FreeKeys
<1>4. /\ keys \in Seq(ready) /\ Range(keys) = ready /\ DOMAIN keys = 1..Len(keys)
      /\ \A i, j \in DOMAIN keys : keys[i] = keys[j] => i = j
      /\ ready \subseteq visited
  <2>1. IsFiniteSet(ready)
    BY <1>3, ConstantTypes, FS_Subset
  <2>. QED BY <2>1, ListingIsSeq
<1>5. \A k \in ready : /\ k \in Keys
                       /\ Handed(k) = {ordered_queues[k][LivePosition(k)]}
                       /\ ordered_queues[k][LivePosition(k)] \in Message
  BY <1>3, LivePositionType DEF Handed, IInv
<1>6. \A k \in Keys : /\ Rising(Rest(k)) /\ Range(ordered_queues[k]) \subseteq OfKey(k)
                      /\ Range(ordered_queues[k])
                           = Passed(k) \cup Handed(k) \cup Range(Rest(k))
                      /\ Passed(k) \cap Handed(k) = {}
                      /\ (Passed(k) \cup Handed(k)) \cap Range(Rest(k)) = {}
                      /\ \A h \in Handed(k), x \in Range(Rest(k)) : h < x
  BY QueueCut DEF DInv, QueuesApart, Apart
<1>7. \A k \in visited : k \notin ready => Handed(k) = {}
  BY DEF Handed
<1>. HIDE DEF ready
<1>8. /\ heads \in Seq(Message) /\ IsInjective(heads)
      /\ Range(heads) = UNION {Handed(k) : k \in visited}
  <2>1. \A i \in DOMAIN keys : keys[i] \in ready
    BY <1>4, SMTT(30)
  <2>2. heads \in Seq(Message)
    BY <1>4, <1>5, <2>1, SMTT(30)
  <2>3. \A i \in DOMAIN keys : heads[i] \in OfKey(keys[i])
    BY <1>5, <1>6, <2>1
  <2>4. IsInjective(heads)
    BY <1>4, <1>5, <2>1, <2>3, SMTT(30) DEF IsInjective, OfKey
  <2>5. Range(heads) = UNION {Handed(k) : k \in ready}
    <3>1. \A k \in ready : \E i \in DOMAIN keys : keys[i] = k
      BY <1>4 DEF Range
    <3>2. \A i \in DOMAIN keys : Handed(keys[i]) = {heads[i]}
      BY <1>5, <2>1
    <3>. QED BY <2>1, <3>1, <3>2, SMTT(30) DEF Range
  <2>6. UNION {Handed(k) : k \in ready} = UNION {Handed(k) : k \in visited}
    BY <1>4, <1>7, SMTT(30)
  <2>. QED BY <2>2, <2>4, <2>5, <2>6
<1>9. /\ front \in Seq(Message) /\ IsInjective(front) /\ IsInjective(backlog')
      /\ Range(front) \subseteq Range(backlog)
      /\ Range(backlog') = Range(backlog) \ Range(front)
      /\ Range(backlog) \subseteq Unkeyed
  <2>1. /\ backlog \in Seq(Message) /\ IsInjective(backlog)
        /\ Range(backlog) \subseteq Unkeyed
    BY DEF IInv, QueueOK, DInv, QueuesApart, Apart
  <2>. QED BY <1>1, <2>1, BacklogCut
<1>. HIDE DEF heads, front
<1>10. /\ live \in Seq(Message) /\ IsInjective(live)
       /\ Range(live) = Range(front) \cap Live
  BY <1>9, RetainSelects, RetainInjective, RetainRange
<1>. HIDE DEF live
<1>11. \A m \in Range(heads) : \E k \in visited : m \in OfKey(k) /\ m \in Handed(k)
  BY <1>3, <1>6, <1>8
<1>12. Range(live) \subseteq Unkeyed /\ Range(heads) \cap Range(live) = {}
  BY <1>3, <1>9, <1>10, <1>11, Destinations
<1>13. /\ batch \in Seq(Message) /\ IsInjective(batch)
       /\ Range(batch) = Range(heads) \cup Range(live)
  <2>1. IsInjective(batch)
    BY <1>8, <1>10, <1>12, ConcatInjective
  <2>. QED BY <1>8, <1>10, <2>1, ConcatIsSeq, SMTT(30)
<1>. HIDE DEF batch, stale
<1>14. stale = (Range(front) \ Live) \cup UNION {Passed(k) : k \in visited}
  BY DEF stale
<1>15. /\ Queued = Range(backlog) \cup (UNION {Range(ordered_queues[k]) : k \in Keys})
       /\ Queued' = Range(backlog')
                      \cup (UNION {Range(ordered_queues'[k]) : k \in Keys})
  BY DEF Queued, Within
<1>16. \A k \in Keys : /\ k \in visited => ordered_queues'[k] = Rest(k)
                       /\ k \notin visited => ordered_queues'[k] = ordered_queues[k]
  BY <1>1
<1>17. /\ Range(batch) \subseteq Queued /\ stale \subseteq Queued
       /\ Range(batch) \cap stale = {}
  <2>1. Range(batch) \subseteq Queued
    BY <1>3, <1>6, <1>8, <1>9, <1>10, <1>13, <1>15, SMTT(30)
  <2>2. stale \subseteq Queued
    BY <1>3, <1>6, <1>9, <1>14, <1>15, SMTT(30)
  <2>3. Range(live) \cap stale = {}
    BY <1>3, <1>6, <1>10, <1>12, <1>14, Destinations, SMTT(30)
  <2>4. ASSUME NEW m \in Range(heads) PROVE m \notin stale
    <3>1. PICK k \in visited : m \in OfKey(k) /\ m \in Handed(k)
      BY <1>11
    <3>2. m \notin Range(front)
      BY <1>3, <1>9, <3>1, Destinations
    <3>3. \A j \in visited : m \in Passed(j) => j = k
      BY <1>3, <1>6, <3>1 DEF OfKey
    <3>. QED BY <1>3, <1>6, <1>14, <3>1, <3>2, <3>3
  <2>. QED BY <1>13, <2>1, <2>2, <2>3, <2>4
<1>18. Queued' = Queued \ (Range(batch) \cup stale)
  <2>1. ASSUME NEW m \in Range(backlog)
        PROVE  /\ m \in Range(batch) \cup stale <=> m \in Range(front)
               /\ \A k \in Keys : m \notin Range(ordered_queues[k])
    <3>1. \A k \in Keys : m \notin OfKey(k)
      BY <1>9, <2>1, Destinations
    <3>2. m \notin Range(heads) /\ \A k \in visited : m \notin Passed(k)
      BY <1>3, <1>6, <1>11, <3>1
    <3>. QED BY <1>6, <1>10, <1>13, <1>14, <3>1, <3>2, SMTT(30)
  <2>2. ASSUME NEW k \in Keys, NEW m \in Range(ordered_queues[k])
        PROVE  /\ m \notin Range(backlog)
               /\ m \in Range(batch) \cup stale
                    <=> k \in visited /\ m \in Passed(k) \cup Handed(k)
               /\ \A j \in Keys : m \in Range(ordered_queues[j]) => j = k
    <3>1. m \in OfKey(k) /\ m \notin Unkeyed
      BY <1>6, <2>2, Destinations
    <3>2. \A j \in Keys : m \in Range(ordered_queues[j]) => j = k
      BY <1>6, <3>1 DEF OfKey
    <3>3. \A j \in visited : m \in Passed(j) \cup Handed(j) => j = k
      BY <1>3, <1>6, <3>2
    <3>4. m \notin Range(backlog) /\ m \notin Range(front) /\ m \notin Range(live)
      BY <1>9, <1>10, <3>1
    <3>5. m \in Range(batch) \cup stale
            <=> \E j \in visited : m \in Passed(j) \cup Handed(j)
      BY <1>8, <1>13, <1>14, <3>4
    <3>. QED BY <3>2, <3>3, <3>4, <3>5
  <2>3. \A k \in Keys : Range(ordered_queues'[k])
          = IF k \in visited
            THEN Range(ordered_queues[k]) \ (Passed(k) \cup Handed(k))
            ELSE Range(ordered_queues[k])
    <3>. TAKE k \in Keys
    <3>1. CASE k \in visited
      BY <1>6, <1>16, <3>1
    <3>2. CASE k \notin visited
      BY <1>16, <3>2
    <3>. QED BY <3>1, <3>2
  <2>4. ASSUME NEW m \in Queued' PROVE m \in Queued \ (Range(batch) \cup stale)
    <3>1. CASE m \in Range(backlog')
      BY <1>9, <1>15, <2>1, <3>1
    <3>2. CASE \E k \in Keys : m \in Range(ordered_queues'[k])
      <4>1. PICK k \in Keys : m \in Range(ordered_queues'[k])
        BY <3>2
      <4>2. /\ m \in Range(ordered_queues[k])
            /\ ~(k \in visited /\ m \in Passed(k) \cup Handed(k))
        BY <2>3, <4>1
      <4>3. m \notin Range(batch) \cup stale
        BY <2>2, <4>2
      <4>. QED BY <1>15, <4>2, <4>3
    <3>. QED BY <1>15, <2>4, <3>1, <3>2
  <2>5. ASSUME NEW m \in Queued \ (Range(batch) \cup stale) PROVE m \in Queued'
    <3>1. CASE m \in Range(backlog)
      BY <1>9, <1>15, <2>1, <2>5, <3>1
    <3>2. CASE \E k \in Keys : m \in Range(ordered_queues[k])
      <4>1. PICK k \in Keys : m \in Range(ordered_queues[k])
        BY <3>2
      <4>2. ~(k \in visited /\ m \in Passed(k) \cup Handed(k))
        BY <2>2, <2>5, <4>1
      <4>3. m \in Range(ordered_queues'[k])
        BY <2>3, <4>1, <4>2
      <4>. QED BY <1>15, <4>3
    <3>. QED BY <1>15, <2>5, <3>1, <3>2
  <2>. QED BY <2>4, <2>5
<1>19. QueuesApart'
  <2>1. \A k \in Keys : /\ Rising(ordered_queues'[k])
                        /\ Range(ordered_queues'[k]) \subseteq OfKey(k)
    <3>. TAKE k \in Keys
    <3>1. CASE k \in visited
      BY <1>6, <1>16, <3>1
    <3>2. CASE k \notin visited
      BY <1>16, <3>2 DEF DInv, QueuesApart, Apart
    <3>. QED BY <3>1, <3>2
  <2>. QED BY <1>9, <2>1 DEF QueuesApart, Apart
<1>20. Out \cap Back = {} /\ (Out \cup Back) \cap Queued = {}
  BY DEF DInv, AsideApart
<1>21. OutOnce' /\ Out' = Out \cup Range(batch)
  <2>1. Range(batch) \cap Out = {}
    BY <1>17, <1>20
  <2>2. ids = next_ack_id .. (next_ack_id + Len(batch) - 1)
    OBVIOUS
  <2>. HIDE DEF ids
  <2>. QED BY <1>1, <1>2, <1>13, <2>1, <2>2, AddHolds DEF IInv, DInv
<1>22. Back' = Back /\ IsInjective(retrying')
  BY DEF Back, DInv
<1>23. AsideApart'
  <2>1. Out' \cap Back' = {}
    BY <1>17, <1>20, <1>21, <1>22
  <2>2. (Out' \cup Back') \cap Queued' = {}
    BY <1>18, <1>20, <1>21, <1>22
  <2>. QED BY <2>1, <2>2 DEF AsideApart
<1>24. \A m \in Range(batch) : Keyed(m) =>
         \E k \in visited : k = KeyOf[m] /\ m \in Handed(k)
  BY <1>11, <1>12, <1>13 DEF Unkeyed, OfKey
<1>25. ASSUME NEW m \in Out \cup Back, Keyed(m)
       PROVE  KeyOf[m] \in Keys /\ KeyOf[m] \in keys_in_flight /\ KeyOf[m] \notin visited
  <2>1. KeyOf[m] \in keys_in_flight
    BY <1>25 DEF DInv, AsideFirst
  <2>2. KeyOf[m] \in Keys
    BY <2>1 DEF IInv, QueueOK
  <2>. QED BY <1>3, <2>1, <2>2
<1>26. AsideFirst'
  <2>1. OnePerKey(Out' \cup Back')
    <3>. SUFFICES ASSUME NEW m \in Out' \cup Back', NEW n \in Out' \cup Back',
                         Keyed(m), Keyed(n), KeyOf[m] = KeyOf[n]
                  PROVE  m = n
      BY DEF OnePerKey
    <3>1. CASE m \in Out \cup Back /\ n \in Out \cup Back
      BY <3>1 DEF DInv, AsideFirst, OnePerKey
    <3>2. CASE m \in Range(batch) /\ n \in Range(batch)
      <4>1. m \in Handed(KeyOf[m]) /\ n \in Handed(KeyOf[m])
        BY <1>24, <3>2
      <4>. QED BY <4>1 DEF Handed
    <3>3. CASE m \in Range(batch) /\ n \in Out \cup Back
      BY <1>24, <1>25, <3>3
    <3>4. CASE m \in Out \cup Back /\ n \in Range(batch)
      BY <1>24, <1>25, <3>4
    <3>. QED BY <1>21, <1>22, <3>1, <3>2, <3>3, <3>4
  <2>2. Precede(Out' \cup Back', ordered_queues')
    <3>. SUFFICES ASSUME NEW m \in Out' \cup Back', Keyed(m),
                         NEW x \in Range(ordered_queues'[KeyOf[m]])
                  PROVE  m < x
      BY DEF Precede
    <3>1. CASE m \in Out \cup Back
      BY <1>16, <1>25, <3>1 DEF DInv, AsideFirst, Precede
    <3>2. CASE m \in Range(batch)
      <4>1. PICK k \in visited : k = KeyOf[m] /\ m \in Handed(k)
        BY <1>24, <3>2
      <4>2. k \in Keys /\ ordered_queues'[k] = Rest(k)
        BY <1>3, <1>16
      <4>. QED BY <1>6, <4>1, <4>2
    <3>. QED BY <1>21, <1>22, <3>1, <3>2
  <2>3. ASSUME NEW m \in Out' \cup Back', Keyed(m) PROVE KeyOf[m] \in keys_in_flight'
    <3>1. CASE m \in Out \cup Back
      BY <1>1, <1>25, <2>3, <3>1
    <3>2. CASE m \in Range(batch)
      BY <1>1, <1>4, <1>7, <1>24, <2>3, <3>2
    <3>. QED BY <1>21, <1>22, <3>1, <3>2
  <2>. QED BY <2>1, <2>2, <2>3 DEF AsideFirst
<1>27. FatesRight'
  <2>1. Queued' \cup Out' \cup Back' = (Queued \cup Out \cup Back) \ stale
    BY <1>17, <1>18, <1>20, <1>21, <1>22
  <2>2. stale \subseteq Queued \cup Out \cup Back
    BY <1>17
  <2>. QED BY <1>1, <2>1, <2>2, SettledFates DEF DInv
<1>28. \A k \in Range(keys) : \E m \in OfKey(k) : m \in Out'
  <2>1. \A k \in ready : \E m \in OfKey(k) : m \in Handed(k)
    BY <1>5, <1>6
  <2>. SUFFICES ASSUME NEW k \in Range(keys)
                PROVE  \E m \in OfKey(k) : m \in Out'
    OBVIOUS
  <2>2. PICK m \in OfKey(k) : m \in Handed(k)
    BY <1>4, <2>1
  <2>3. m \in Out'
    BY <1>4, <1>8, <1>13, <1>21, <2>2
  <2>. QED BY <2>3
<1>29. \A k \in keys_in_flight' \ keys_in_flight : k \in Range(keys)
  BY <1>1
<1>30. DInv'
  BY <1>19, <1>21, <1>22, <1>23, <1>26, <1>27 DEF DInv
<1>. QED BY <1>21, <1>22, <1>28, <1>29, <1>30

\* pull_messages keeps DInv.
LEMMA PullMessagesDInv ==
  ASSUME IInv, DInv, NEW max_count, NEW max_outstanding,
         PullMessages(max_count, max_outstanding)
  PROVE  /\ DInv' /\ Out \subseteq Out' /\ Back' = Back
         /\ \A k \in keys_in_flight' \ keys_in_flight :
              \E m \in OfKey(k) : m \in Out'
<1>. DEFINE capacity == Capacity(max_count, max_outstanding)
            visited == Visited(capacity)
<1>1. visited \subseteq FreeKeys
  BY DEF Visited
<1>2. PICK keys \in Ascending({k \in visited : HasLive(k)}) :
        Deliver(keys, visited, Popped(capacity - Len(keys)))
  BY DEF PullMessages
<1>3. UNCHANGED <<retrying, posted>>
  BY DEF PullMessages, clientVars, retryVars
<1>. HIDE DEF visited, capacity
<1>4. Popped(capacity - Len(keys)) \in 0..Len(backlog)
  BY PoppedType DEF IInv
<1>5. keys \in Listings({k \in visited : HasLive(k)})
  BY DEF Ascending
<1>. QED BY <1>1, <1>2, <1>3, <1>4, <1>5, DeliverDInv

-----------------------------------------------------------------------------
\* Every step keeps DInv.
LEMMA StepDInv == IInv /\ DInv /\ [Next]_vars => DInv'
<1>. SUFFICES ASSUME IInv, DInv, [Next]_vars PROVE DInv'
  OBVIOUS
<1>1. CASE UNCHANGED vars
  BY <1>1, UnmovedDInv DEF vars, clientVars, queueVars, trackerVars, retryVars
<1>2. ASSUME NEW n \in 1..MaxPost, NEW time \in 0..now, PostMessages(n, time)
      PROVE  DInv'
  BY <1>2, PostMessagesDInv, SMTT(30)
<1>3. ASSUME NEW max_count \in PullCounts, NEW max_outstanding \in OutstandingCaps,
             PullMessages(max_count, max_outstanding)
      PROVE  DInv'
  BY <1>3, PullMessagesDInv
<1>4. ASSUME NEW ids \in SUBSET AckIds, AcknowledgeMessages(ids)
      PROVE  DInv'
  BY <1>4, AcknowledgeMessagesDInv
<1>5. ASSUME NEW mods \in Modifications, NEW found \in DeadLetterTopicFound,
             ModifyDeadline(mods, found)
      PROVE  DInv'
  BY <1>5, ModifyDeadlineDInv
<1>6. ASSUME NEW found \in DeadLetterTopicFound, HandleExpiredMessages(found)
      PROVE  DInv'
  BY <1>6, HandleExpiredMessagesDInv
<1>7. CASE HandleRetryReady
  BY <1>7, HandleRetryReadyDInv
<1>8. CASE Detach
  BY <1>8, ClearMessagesDInv DEF Detach, clientVars
<1>9. CASE Delete
  BY <1>9, ClearMessagesDInv DEF Delete, clientVars
<1>10. ASSUME NEW seek_time \in 0..now, Seek(seek_time)
       PROVE  DInv'
  BY <1>10, SeekDInv
<1>11. ASSUME \/ \E new \in Infos : UpdateInfo(new)
              \/ DeleteClosed \/ ActorStop \/ Tick
       PROVE  DInv'
  <2>1. UNCHANGED <<clientVars, queueVars, trackerVars, retryVars, fate>>
    BY <1>11 DEF UpdateInfo, DeleteClosed, ActorStop, Tick
  <2>. QED BY <2>1, UnmovedDInv
              DEF clientVars, queueVars, trackerVars, retryVars
<1>. QED BY <1>1, <1>2, <1>3, <1>4, <1>5, <1>6, <1>7, <1>8, <1>9, <1>10, <1>11
            DEF Next, ExpireAny

\* DInv always holds.
LEMMA AlwaysDInv == Spec => [](IInv /\ DInv)
<1>1. Init => IInv /\ DInv
  BY InitIInv, InitDInv
<1>2. IInv /\ DInv /\ [Next]_vars => (IInv /\ DInv)'
  BY StepIInv, StepDInv
<1>. QED BY <1>1, <1>2, PTL DEF Spec

=============================================================================

---------------------- MODULE SubscriptionDeliveryProofs -----------------------
(***************************************************************************)
(* What the invariant of module DeliveryInvariant gives, for every number  *)
(* of messages and keys, every configuration and every bound: where a      *)
(* message is held, in which order the messages of a key go out, and that  *)
(* the actor keeps the promise of AtLeastOnce; what becomes of a message   *)
(* that runs out of attempts and of the key of a message that leaves       *)
(* delivery.                                                               *)
(***************************************************************************)
EXTENDS DeliveryInvariant, SubscriptionPromise

USE ZenonT(30)

-----------------------------------------------------------------------------
\* A set with at most one element has cardinality 0 or 1.
LEMMA AtMostOne ==
  ASSUME NEW S, \A x, y \in S : x = y
  PROVE  Cardinality(S) = IF S = {} THEN 0 ELSE 1
<1>1. CASE S = {}
  BY <1>1, FS_EmptySet
<1>2. CASE S # {}
  <2>1. PICK x : S = {x}
    BY <1>2, SMTT(30)
  <2>. QED BY <1>2, <2>1, FS_Singleton
<1>. QED BY <1>1, <1>2

\* The invariant says where a message is found.
LEMMA DInvHolds == IInv /\ DInv => HeldExactlyOnce
<1>. SUFFICES ASSUME IInv, DInv, NEW m \in Message
              PROVE  Cardinality(InBacklog(m)) + Cardinality(InQueue(m))
                       + Cardinality(InFlight(m)) + Cardinality(InBackoff(m))
                     = IF fate[m] = "live" THEN 1 ELSE 0
  BY DEF HeldExactlyOnce
<1>1. /\ Cardinality(InBacklog(m)) = IF InBacklog(m) = {} THEN 0 ELSE 1
      /\ InBacklog(m) # {} <=> m \in Range(backlog)
  <2>1. \A i, j \in InBacklog(m) : i = j
    BY DEF InBacklog, DInv, QueuesApart, Apart, IsInjective
  <2>2. InBacklog(m) # {} <=> m \in Range(backlog)
    BY DEF InBacklog, Range
  <2>. QED BY <2>1, <2>2, AtMostOne
<1>2. /\ Cardinality(InQueue(m)) = IF InQueue(m) = {} THEN 0 ELSE 1
      /\ InQueue(m) # {} <=> \E k \in Keys : m \in Range(ordered_queues[k])
  <2>1. \A p \in InQueue(m) : \E k \in Keys : \E i \in DOMAIN ordered_queues[k] :
          p = <<k, i>> /\ ordered_queues[k][i] = m
    BY SMTT(30) DEF InQueue
  <2>2. \A k \in Keys : \A i \in DOMAIN ordered_queues[k] :
          ordered_queues[k][i] = m => <<k, i>> \in InQueue(m)
    BY SMTT(30) DEF InQueue
  <2>3. \A p, r \in InQueue(m) : p = r
    <3>. SUFFICES ASSUME NEW p \in InQueue(m), NEW r \in InQueue(m) PROVE p = r
      OBVIOUS
    <3>1. PICK j, a :
            /\ j \in Keys /\ a \in DOMAIN ordered_queues[j]
            /\ p = <<j, a>> /\ ordered_queues[j][a] = m
      BY <2>1
    <3>2. PICK k, b :
            /\ k \in Keys /\ b \in DOMAIN ordered_queues[k]
            /\ r = <<k, b>> /\ ordered_queues[k][b] = m
      BY <2>1
    <3>3. m \in OfKey(j) /\ m \in OfKey(k)
      BY <3>1, <3>2 DEF DInv, QueuesApart, Apart, Range
    <3>4. j = k
      BY <3>3 DEF OfKey
    <3>5. IsInjective(ordered_queues[j])
      <4>1. ordered_queues[j] \in Seq(Message)
        BY <3>1 DEF IInv, QueueOK
      <4>2. Rising(ordered_queues[j])
        BY <3>1 DEF DInv, QueuesApart, Apart
      <4>. QED BY <4>1, <4>2, ConstantTypes, RisingIsInjective
    <3>6. a = b
      BY <3>1, <3>2, <3>4, <3>5 DEF IsInjective
    <3>. QED BY <3>1, <3>2, <3>4, <3>6
  <2>4. InQueue(m) # {} <=> \E k \in Keys : m \in Range(ordered_queues[k])
    BY <2>1, <2>2 DEF Range
  <2>. QED BY <2>3, <2>4, AtMostOne
<1>3. /\ Cardinality(InFlight(m)) = IF InFlight(m) = {} THEN 0 ELSE 1
      /\ InFlight(m) # {} <=> m \in Out
  <2>1. \A i, j \in InFlight(m) : i = j
    BY DEF InFlight, DInv, OutOnce
  <2>2. InFlight(m) # {} <=> m \in Out
    BY DEF InFlight, Out
  <2>. QED BY <2>1, <2>2, AtMostOne
<1>4. /\ Cardinality(InBackoff(m)) = IF InBackoff(m) = {} THEN 0 ELSE 1
      /\ InBackoff(m) # {} <=> m \in Back
  <2>1. \A i, j \in InBackoff(m) : i = j
    BY DEF InBackoff, DInv, IsInjective
  <2>2. InBackoff(m) # {} <=> m \in Back
    BY DEF InBackoff, Back
  <2>. QED BY <2>1, <2>2, AtMostOne
<1>5. ~(m \in Range(backlog) /\ \E k \in Keys : m \in Range(ordered_queues[k]))
  BY Destinations DEF DInv, QueuesApart, Apart
<1>6. /\ ~(m \in Out /\ m \in Back)
      /\ ~((m \in Out \/ m \in Back) /\ m \in Queued)
  BY DEF DInv, AsideApart
<1>7. m \in Queued <=> \/ m \in Range(backlog)
                       \/ \E k \in Keys : m \in Range(ordered_queues[k])
  BY DEF Queued, Within
<1>8. fate[m] = "live" <=> m \in Queued \/ m \in Out \/ m \in Back
  BY DEF DInv, FatesRight
<1>. QED BY <1>1, <1>2, <1>3, <1>4, <1>5, <1>6, <1>7, <1>8, SMTT(30)

\* DInv implies the three properties it is there for.
LEMMA DInvOrders == IInv /\ DInv => OrderedDelivery /\ BusyKeysInFlight
<1>. SUFFICES ASSUME IInv, DInv PROVE OrderedDelivery /\ BusyKeysInFlight
  OBVIOUS
<1>1. \A m \in Message : /\ InFlight(m) # {} <=> m \in Out
                         /\ InBackoff(m) # {} <=> m \in Back
  BY DEF InFlight, InBackoff, Out, Back
<1>2. ASSUME NEW m \in Message, NEW n \in Message, Keyed(m), Keyed(n),
             KeyOf[m] = KeyOf[n], m < n, n \in Out
      PROVE  fate[m] \notin {"live", "unposted"}
  <2>1. m \in Nat /\ n \in Nat /\ posted \in Nat
    BY ConstantTypes DEF IInv, ClientOK
  <2>2. m \notin Out \cup Back
    BY <1>2, <2>1, SMTT(30) DEF DInv, AsideFirst, OnePerKey
  <2>3. m \notin Queued
    <3>1. \A x \in Range(ordered_queues[KeyOf[m]]) : n < x
      BY <1>2 DEF DInv, AsideFirst, Precede
    <3>2. m \notin Range(ordered_queues[KeyOf[m]])
      BY <1>2, <2>1, <3>1, SMTT(30)
    <3>3. m \notin Range(backlog)
      BY <1>2 DEF DInv, QueuesApart, Apart, Unkeyed
    <3>4. \A k \in Keys : m \in Range(ordered_queues[k]) => k = KeyOf[m]
      BY DEF DInv, QueuesApart, Apart, OfKey
    <3>. QED BY <3>2, <3>3, <3>4 DEF Queued, Within
  <2>4. fate[m] # "live"
    BY <2>2, <2>3 DEF DInv, FatesRight
  <2>5. fate[n] = "live"
    BY <1>2 DEF DInv, FatesRight
  <2>6. n <= posted
    BY <2>1, <2>5, SMTT(30) DEF DInv, FatesRight
  <2>7. fate[m] # "unposted"
    BY <1>2, <2>1, <2>6, SMTT(30) DEF DInv, FatesRight
  <2>. QED BY <2>4, <2>7
<1>3. OrderedDelivery
  BY <1>1, <1>2 DEF OrderedDelivery
<1>4. BusyKeysInFlight
  BY <1>1 DEF BusyKeysInFlight, DInv, AsideFirst
<1>. QED BY <1>3, <1>4

\* Whatever happens to a subscription, a message it has accepted and not yet
\* settled is in exactly one place, once: no handler of the actor loses a
\* message or makes a second one of it.
THEOREM AlwaysHeldExactlyOnce == Spec => []HeldExactlyOnce
<1>1. IInv /\ DInv => HeldExactlyOnce
  BY DInvHolds
<1>. QED BY <1>1, AlwaysDInv, PTL

\* The messages of an ordering key are handed out one at a time, and none before
\* every earlier one of the key is settled, whatever nacks, expirations,
\* retries, seeks and changes of configuration come between.
THEOREM AlwaysOrderedDelivery == Spec => []OrderedDelivery
<1>1. IInv /\ DInv => OrderedDelivery
  BY DInvOrders
<1>. QED BY <1>1, AlwaysDInv, PTL

\* A key with a message handed out or waiting for its retry is in flight, so no
\* pull takes another message of the key.
THEOREM AlwaysBusyKeysInFlight == Spec => []BusyKeysInFlight
<1>1. IInv /\ DInv => BusyKeysInFlight
  BY DInvOrders
<1>. QED BY <1>1, AlwaysDInv, PTL

-----------------------------------------------------------------------------
\* The status of a message before and after a step, from where it is held.
LEMMA StatusIs ==
  \A m \in Message :
    /\ Status[m] = IF fate[m] # "live" THEN fate[m]
                   ELSE IF m \in Out THEN "out" ELSE "waiting"
    /\ Status'[m] = IF fate'[m] # "live" THEN fate'[m]
                    ELSE IF m \in Out' THEN "out" ELSE "waiting"
<1>1. \A m \in Message : /\ InFlight(m) # {} <=> m \in Out
                         /\ InFlight(m)' # {} <=> m \in Out'
  BY DEF InFlight, Out
<1>. QED BY <1>1 DEF Status

\* What is out for delivery is live.
LEMMA OutIsLive ==
  ASSUME IInv, DInv
  PROVE  /\ Out \subseteq Message /\ Back \subseteq Message
         /\ \A m \in Queued \cup Out \cup Back : m \in Message => fate[m] = "live"
         /\ Out \cap (Queued \cup Back) = {}
BY PlacesType DEF DInv, FatesRight, AsideApart

\* A step of the promise, from what becomes of each message.
LEMMA MovesBy ==
  ASSUME IInv, IInv', NEW from, NEW to,
         \A m \in Message :
           Status'[m] = Status[m] \/ (Status[m] \in from /\ Status'[m] \in to)
  PROVE  Promise!Moves(from, to)
<1>1. fate' \in [Message -> Fates]
  BY DEF IInv, AccountOK
<1>2. \A m \in Message : Status'[m] \in Promise!Statuses
  BY <1>1 DEF Status, Fates, Promise!Statuses, Promise!Unsettled
<1>3. Status' = [m \in Message |-> Status'[m]]
  BY DEF Status
<1>4. Status' \in [Message -> Promise!Statuses]
  BY <1>2, <1>3
<1>. QED BY <1>4 DEF Promise!Moves

\* Posting accepts or drops messages nobody had seen.
LEMMA PostKeepsPromise ==
  ASSUME IInv, DInv, IInv', DInv', NEW n \in Nat, NEW time, PostMessages(n, time)
  PROVE  Promise!Accept
<1>1. Out' = Out
  BY DEF PostMessages, trackerVars, Out
<1>. DEFINE batch == [i \in 1..n |-> posted + i]
            accepted == Retain(batch, IF deleted THEN {} ELSE Matching)
<1>2. \A m \in Message : fate'[m] = IF m \in Range(accepted) THEN "live"
                                    ELSE IF m \in Range(batch) THEN "dropped"
                                    ELSE fate[m]
  BY DEF PostMessages
<1>3. /\ batch \in Seq(Message)
      /\ Range(batch) = {m \in Message : m > posted /\ m <= posted + n}
  BY BatchHolds DEF PostMessages
<1>. HIDE DEF batch
<1>4. Range(accepted) \subseteq Range(batch)
  BY <1>3, RetainRange, SMTT(30)
<1>. HIDE DEF accepted
<1>5. \A m \in Range(batch) : fate[m] = "unposted"
  BY <1>3 DEF DInv, FatesRight
<1>6. ASSUME NEW m \in Message
      PROVE  \/ Status'[m] = Status[m]
             \/ Status[m] \in {"unposted"} /\ Status'[m] \in {"waiting", "dropped"}
  <2>1. CASE m \in Range(batch)
    <3>1. m \notin Out
      BY <1>5, <2>1, OutIsLive
    <3>. QED BY <1>1, <1>2, <1>5, <2>1, <3>1, StatusIs
  <2>2. CASE m \notin Range(batch)
    BY <1>1, <1>2, <1>4, <2>2, StatusIs
  <2>. QED BY <2>1, <2>2
<1>7. ASSUME NEW a \in Message, NEW b \in Message, a < b,
             Status'[a] = "unposted"
      PROVE  Status'[b] = "unposted"
  <2>1. fate'[a] = "unposted"
    BY <1>7, StatusIs
  <2>2. a > posted' /\ posted' \in Nat /\ a \in Nat /\ b \in Nat
    BY <2>1, ConstantTypes DEF DInv, FatesRight, IInv, ClientOK
  <2>3. fate'[b] = "unposted"
    BY <1>7, <2>2, SMTT(30) DEF DInv, FatesRight
  <2>. QED BY <2>3, StatusIs
<1>8. Promise!Moves({"unposted"}, {"waiting", "dropped"})
  BY <1>6, MovesBy
<1>. QED BY <1>7, <1>8 DEF Promise!Accept

\* The order the promise asks for is that of OrderedDelivery.
LEMMA HandOutBy ==
  ASSUME IInv, IInv', DInv', Out \subseteq Out', NEW S,
         S \subseteq Queued \cup Back, DInv, Settle(S, "dropped")
  PROVE  Promise!HandOut
<1>1. ASSUME NEW m \in Message
      PROVE  \/ Status'[m] = Status[m]
             \/ Status[m] \in {"waiting"} /\ Status'[m] \in {"out", "dropped"}
  <2>1. fate'[m] = IF m \in S THEN "dropped" ELSE fate[m]
    BY DEF Settle
  <2>2. m \in S => fate[m] = "live" /\ m \notin Out
    BY OutIsLive
  <2>3. m \in Out' => fate'[m] = "live"
    BY DEF DInv, FatesRight
  <2>. QED BY <2>1, <2>2, <2>3, StatusIs
<1>2. Promise!Moves({"waiting"}, {"out", "dropped"})
  BY <1>1, MovesBy
<1>3. OrderedDelivery'
  BY DInvOrders, PTL
<1>4. ASSUME NEW a \in Message, NEW b \in Message, Keyed(a), Keyed(b),
             KeyOf[a] = KeyOf[b], a < b, Status'[b] = "out"
      PROVE  Status'[a] \notin Promise!Unsettled
  <2>1. fate'[b] \in Fates /\ fate'[a] \in Fates
    BY DEF IInv, AccountOK
  <2>2. InFlight(b)' # {}
    BY <1>4, <2>1 DEF Status, Fates
  <2>3. fate'[a] \notin {"live", "unposted"}
    BY <1>3, <1>4, <2>2 DEF OrderedDelivery
  <2>. QED BY <2>1, <2>3, StatusIs DEF Fates, Promise!Unsettled
<1>. QED BY <1>2, <1>4 DEF Promise!HandOut

\* A pull delivers live messages and drops what has outlived its retention.
LEMMA PullKeepsPromise ==
  ASSUME IInv, DInv, IInv', DInv', NEW max_count, NEW max_outstanding,
         PullMessages(max_count, max_outstanding)
  PROVE  Promise!HandOut
<1>. DEFINE capacity == Capacity(max_count, max_outstanding)
            visited == Visited(capacity)
<1>1. visited \subseteq Keys
  BY DEF Visited, FreeKeys
<1>2. PICK keys \in Ascending({k \in visited : HasLive(k)}) :
        Deliver(keys, visited, Popped(capacity - Len(keys)))
  BY DEF PullMessages
<1>. HIDE DEF visited, capacity
<1>. DEFINE popped == Popped(capacity - Len(keys))
            front == SubSeq(backlog, 1, popped)
            stale == (Range(front) \ Live) \cup UNION {Passed(k) : k \in visited}
<1>3. popped \in 0..Len(backlog)
  BY PoppedType DEF IInv
<1>4. Settle(stale, "dropped") /\ \E new : Outstanding!Add(new)
  BY <1>2 DEF Deliver, Passed
<1>. HIDE DEF popped
<1>5. Range(front) \subseteq Range(backlog)
  BY <1>3, BacklogCut DEF IInv, QueueOK, DInv, QueuesApart, Apart
<1>6. \A k \in visited : Passed(k) \subseteq Range(ordered_queues[k])
  BY <1>1, QueueCut
<1>7. stale \subseteq Queued
  BY <1>1, <1>5, <1>6 DEF Queued, Within
<1>. HIDE DEF stale
<1>8. Out \subseteq Out'
  <2>1. DOMAIN outstanding \subseteq DOMAIN outstanding'
    BY <1>4 DEF Outstanding!Add
  <2>2. \A id \in DOMAIN outstanding :
          outstanding'[id].message = outstanding[id].message
    BY <2>1, PullAckIds DEF KeepsAckIds, IInv, TrackerOK
  <2>. QED BY <2>1, <2>2 DEF Out
<1>. QED BY <1>4, <1>7, <1>8, HandOutBy

\* Deliveries end: some messages are settled, the others wait again.
LEMMA EndingBy ==
  ASSUME IInv, DInv, IInv', DInv', Out' \subseteq Out, NEW S, S \subseteq Out,
         NEW as, Settle(S, as), NEW to, as \in to, as # "live",
         \/ "waiting" \in to
         \/ Out \ S \subseteq Out'
  PROVE  Promise!Moves({"out"}, to)
<1>1. ASSUME NEW m \in Message
      PROVE  \/ Status'[m] = Status[m]
             \/ Status[m] \in {"out"} /\ Status'[m] \in to
  <2>1. fate'[m] = IF m \in S THEN as ELSE fate[m]
    BY DEF Settle
  <2>2. m \in Out => fate[m] = "live"
    BY OutIsLive
  <2>. QED BY <2>1, <2>2, StatusIs
<1>. QED BY <1>1, MovesBy

\* An acknowledgement settles messages that were out.
LEMMA AcknowledgeKeepsPromise ==
  ASSUME IInv, DInv, IInv', DInv', NEW ids, AcknowledgeMessages(ids)
  PROVE  Promise!Acknowledge
<1>. DEFINE valid == ids \cap DOMAIN outstanding
            acked == {outstanding[id].message : id \in valid}
<1>1. Outstanding!RemoveIds(ids) /\ Settle(acked, "acked")
  BY DEF AcknowledgeMessages
<1>2. /\ DOMAIN outstanding' = DOMAIN outstanding \ valid
      /\ \A id \in DOMAIN outstanding' : outstanding'[id] = outstanding[id]
  BY <1>1 DEF Outstanding!RemoveIds
<1>3. acked \subseteq Out /\ Out' \subseteq Out /\ Out \ acked \subseteq Out'
  BY <1>2 DEF Out
<1>. HIDE DEF acked
<1>. QED BY <1>1, <1>3, EndingBy DEF Promise!Acknowledge

\* requeue_messages on deliveries that end.
LEMMA RequeueKeepsPromise ==
  ASSUME IInv, DInv, IInv', DInv', Out' \subseteq Out,
         NEW ids \in Seq(DOMAIN outstanding), NEW counter, NEW found,
         RequeueMessages(MessagesOf(ids), counter, found)
  PROVE  Promise!TakeBack
<1>. DEFINE list == MessagesOf(ids)
            dead == {m \in Range(list) : ExceedsAttempts(m)}
            to == {"waiting", "forwarded", "dropped"}
<1>1. Settle(dead, "forwarded") \/ Settle(dead, "dropped")
  BY DEF RequeueMessages
<1>2. dead \subseteq Out
  BY SMTT(30) DEF MessagesOf, Out, Range
<1>3. "waiting" \in to /\ "forwarded" \in to /\ "dropped" \in to
  OBVIOUS
<1>. HIDE DEF dead, to
<1>4. CASE Settle(dead, "forwarded")
  <2>1. Promise!Moves({"out"}, to)
    BY <1>2, <1>3, <1>4, EndingBy, SMTT(30)
  <2>. QED BY <2>1 DEF to, Promise!TakeBack
<1>5. CASE Settle(dead, "dropped")
  <2>1. Promise!Moves({"out"}, to)
    BY <1>2, <1>3, <1>5, EndingBy, SMTT(30)
  <2>. QED BY <2>1 DEF to, Promise!TakeBack
<1>. QED BY <1>1, <1>4, <1>5

\* A nack returns messages that were out, or settles them.
LEMMA ModifyKeepsPromise ==
  ASSUME IInv, DInv, IInv', DInv', NEW mods \in Modifications, NEW found,
         ModifyDeadline(mods, found)
  PROVE  Promise!TakeBack
<1>1. PICK nacks \in NackOrder(mods) :
        RequeueMessages(MessagesOf(nacks), "nacked", found)
  BY DEF ModifyDeadline
<1>2. Outstanding!Nacks(mods) \subseteq DOMAIN outstanding
  BY DEF Outstanding!Nacks, Outstanding!Mentioned
<1>3. nacks \in Seq(DOMAIN outstanding)
  <2>1. IsFiniteSet(Outstanding!Nacks(mods))
    BY <1>2, HeldFinite, FS_Subset DEF IInv
  <2>2. nacks \in Listings(Outstanding!Nacks(mods))
    BY DEF NackOrder
  <2>3. nacks \in Seq(Outstanding!Nacks(mods))
    BY <2>1, <2>2, ListingIsSeq
  <2>. QED BY <1>2, <2>3, SMTT(30)
<1>4. Out' \subseteq Out
  <2>1. KeepsAckIds
    BY ModifyAckIds DEF IInv, ModifyDeadline
  <2>2. DOMAIN outstanding' \subseteq DOMAIN outstanding
    BY DEF ModifyDeadline, Outstanding!ModifyDeadlines,
       Outstanding!ModifiedMessages
  <2>. QED BY <2>1, <2>2 DEF Out, KeepsAckIds, IInv, TrackerOK
<1>. QED BY <1>1, <1>3, <1>4, RequeueKeepsPromise

\* So does an expiry.
LEMMA ExpiryKeepsPromise ==
  ASSUME IInv, DInv, IInv', DInv', NEW found, HandleExpiredMessages(found)
  PROVE  Promise!TakeBack
<1>1. PICK due \in InOrder(Outstanding!Due(now)) :
        RequeueMessages(MessagesOf([i \in DOMAIN due |-> due[i][2]]),
                        "expired", found)
  BY DEF HandleExpiredMessages
<1>2. [i \in DOMAIN due |-> due[i][2]] \in Seq(DOMAIN outstanding)
  BY DueType DEF IInv
<1>3. Out' \subseteq Out
  BY DEF HandleExpiredMessages, Outstanding!TakeExpired, Out
<1>. QED BY <1>1, <1>2, <1>3, RequeueKeepsPromise

\* A retry that is ready returns, or is dropped.
LEMMA RetryKeepsPromise ==
  ASSUME IInv, DInv, IInv', DInv', HandleRetryReady
  PROVE  Promise!HandOut
<1>. DEFINE D == Retry!Ready(now)
<1>1. PICK due \in InOrder(D) :
        LET ready == [i \in DOMAIN due |-> retrying[due[i][2]]]
        IN  Settle(Range(ready) \ Live, "dropped")
  BY DEF HandleRetryReady
<1>2. \A e \in D : e[2] \in DOMAIN retrying
  BY DEF Retry!Ready, IInv, RetryOK, Retry!ScheduledOnce
<1>3. DOMAIN due = 1..Len(due) /\ \A i \in DOMAIN due : due[i] \in D
  <2>1. IsFiniteSet(D)
    BY EntriesFinite, FS_Subset DEF IInv, Retry!Ready
  <2>2. due \in Listings(D)
    BY DEF InOrder
  <2>. HIDE DEF D
  <2>. QED BY <2>1, <2>2, ListingIsSeq, SMTT(30)
<1>. DEFINE ready == [i \in DOMAIN due |-> retrying[due[i][2]]]
<1>4. Range(ready) \subseteq Back
  BY <1>2, <1>3 DEF Range, Back
<1>5. Settle(Range(ready) \ Live, "dropped")
  BY <1>1
<1>6. Out' = Out
  BY DEF HandleRetryReady, trackerVars, Out
<1>. HIDE DEF ready
<1>. QED BY <1>4, <1>5, <1>6, HandOutBy

\* Detach, delete and seek end every delivery.
LEMMA RewindBy ==
  ASSUME IInv, DInv, IInv', DInv', Outstanding!Clear, NEW S,
         \A m \in S \cap Message : fate[m] = "live", Settle(S, "dropped")
  PROVE  Promise!Rewind
<1>1. Out' = {}
  BY DEF Outstanding!Clear, Out
<1>2. ASSUME NEW m \in Message
      PROVE  /\ \/ Status'[m] = Status[m]
                \/ /\ Status[m] \in {"waiting", "out"}
                   /\ Status'[m] \in {"waiting", "dropped"}
             /\ Status'[m] # "out"
  <2>1. fate'[m] = IF m \in S THEN "dropped" ELSE fate[m]
    BY DEF Settle
  <2>2. fate[m] \in Fates
    BY DEF IInv, AccountOK
  <2>. QED BY <1>1, <2>1, <2>2, StatusIs DEF Fates
<1>3. Promise!Moves({"waiting", "out"}, {"waiting", "dropped"})
  BY <1>2, MovesBy
<1>. QED BY <1>2, <1>3 DEF Promise!Rewind

\* Every step of the actor is a step of the promise, or leaves it alone.
LEMMA StepKeepsPromise ==
  IInv /\ DInv /\ IInv' /\ DInv' /\ [Next]_vars => [Promise!Next]_Status
<1>. SUFFICES ASSUME IInv, DInv, IInv', DInv', [Next]_vars
              PROVE  Promise!Next \/ Status' = Status
  OBVIOUS
<1>. USE DEF Promise!Next
<1>1. ASSUME UNCHANGED <<fate, outstanding>>
      PROVE  Status' = Status
  BY <1>1 DEF Status, InFlight
<1>2. ASSUME NEW n \in 1..MaxPost, NEW time \in 0..now, PostMessages(n, time)
      PROVE  Promise!Next
  BY <1>2, PostKeepsPromise, SMTT(30)
<1>3. ASSUME NEW max_count \in PullCounts, NEW max_outstanding \in OutstandingCaps,
             PullMessages(max_count, max_outstanding)
      PROVE  Promise!Next
  BY <1>3, PullKeepsPromise
<1>4. ASSUME NEW ids \in SUBSET AckIds, AcknowledgeMessages(ids)
      PROVE  Promise!Next
  BY <1>4, AcknowledgeKeepsPromise
<1>5. ASSUME NEW mods \in Modifications, NEW found \in DeadLetterTopicFound,
             ModifyDeadline(mods, found)
      PROVE  Promise!Next
  BY <1>5, ModifyKeepsPromise
<1>6. ASSUME NEW found \in DeadLetterTopicFound, HandleExpiredMessages(found)
      PROVE  Promise!Next
  BY <1>6, ExpiryKeepsPromise
<1>7. CASE HandleRetryReady
  BY <1>7, RetryKeepsPromise
<1>8. CASE Detach \/ Delete
  <2>1. ClearMessages
    BY <1>8 DEF Detach, Delete
  <2>. QED BY <2>1, RewindBy DEF ClearMessages
<1>9. ASSUME NEW seek_time \in 0..now, Seek(seek_time)
      PROVE  Promise!Next
  <2>. DEFINE old == {m \in Message \ {x \in Message : published[x] > seek_time} :
                        fate[m] = "live"}
  <2>1. Outstanding!Clear /\ Settle(old, "dropped")
    BY <1>9 DEF Seek
  <2>2. \A m \in old \cap Message : fate[m] = "live"
    OBVIOUS
  <2>. HIDE DEF old
  <2>. QED BY <2>1, <2>2, RewindBy
<1>10. ASSUME \/ \E new \in Infos : UpdateInfo(new)
              \/ DeleteClosed \/ ActorStop \/ Tick \/ UNCHANGED vars
       PROVE  UNCHANGED <<fate, outstanding>>
  BY <1>10 DEF UpdateInfo, DeleteClosed, ActorStop, Tick, vars, trackerVars
<1>. QED BY <1>1, <1>2, <1>3, <1>4, <1>5, <1>6, <1>7, <1>8, <1>9, <1>10
            DEF Next, ExpireAny

\* The actor implements AtLeastOnce for every number of messages and keys and
\* every configuration: what a client sees of a message is the life the
\* abstract specification gives it.
THEOREM PromiseAlwaysKept == Spec => PromiseKept
<1>1. Init => Promise!Init
  BY DEF Init, Promise!Init, Status
<1>. QED BY <1>1, AlwaysDInv, StepKeepsPromise, PTL
         DEF Spec, PromiseKept, Promise!Spec

\* A settled message keeps its fate and is not handed out.
LEMMA SettledStays ==
  ASSUME IInv, DInv, IInv', DInv', [Next]_vars, NEW m \in Message,
         fate[m] \notin {"unposted", "live"}
  PROVE  fate'[m] = fate[m] /\ m \notin Out'
<1>1. fate[m] \in {"acked", "forwarded", "dropped"}
  BY DEF IInv, AccountOK, Fates
<1>2. Status[m] = fate[m]
  BY StatusIs
<1>3. Status'[m] = Status[m]
  <2>1. Promise!Next \/ Status' = Status
    BY StepKeepsPromise
  <2>. QED BY <1>1, <1>2, <2>1 DEF Promise!Next, Promise!Accept,
              Promise!HandOut, Promise!Acknowledge, Promise!TakeBack,
              Promise!Rewind, Promise!Moves
<1>4. fate'[m] = fate[m]
  BY <1>1, <1>2, <1>3, StatusIs
<1>5. m \in Out' => fate'[m] = "live"
  BY DEF DInv, FatesRight
<1>. QED BY <1>1, <1>4, <1>5

\* What is acknowledged, forwarded or dropped stays so and is not delivered
\* again, whatever late acks, expirations, retries and seeks follow: no step of
\* AtLeastOnce leaves a settled status.
THEOREM AlwaysSettledForGood == Spec => SettledForGood
<1>. DEFINE Stays ==
       \A m \in Message : fate[m] \notin {"unposted", "live"} =>
         /\ fate'[m] = fate[m]
         /\ \A id \in DOMAIN outstanding' \ DOMAIN outstanding :
              outstanding'[id].message # m
<1>1. ASSUME IInv, DInv, IInv', DInv', [Next]_vars PROVE Stays
  BY <1>1, SettledStays DEF Out
<1>2. IInv /\ DInv /\ (IInv /\ DInv)' /\ [Next]_vars => [Stays]_vars
  BY <1>1
<1>. HIDE DEF Stays
<1>3. Spec => [][Stays]_vars
  BY <1>2, AlwaysDInv, PTL DEF Spec
<1>. QED BY <1>3 DEF Stays, SettledForGood

-----------------------------------------------------------------------------
\* The setting of the dead letter counter: every configuration has a dead letter
\* policy, so that the actor is given a topic manager, and the topic it names is
\* always found.
AlwaysForwarded == AllLimited /\ DeadLetterTopicFound \subseteq {TRUE}

Forwarded == {m \in Message : fate[m] = "forwarded"}
DeadInv == topic_manager /\ counters["dead_lettered"] = Cardinality(Forwarded)

\* A step that forwards nothing counts nothing.
LEMMA NoneForwarded ==
  ASSUME IInv, DInv, IInv', DInv', [Next]_vars, DeadInv, UNCHANGED topic_manager,
         counters'["dead_lettered"] = counters["dead_lettered"],
         \A m \in Message : fate'[m] = "forwarded" => fate[m] = "forwarded"
  PROVE  DeadInv'
<1>1. Forwarded' = Forwarded
  BY SettledStays DEF Forwarded
<1>. QED BY <1>1 DEF DeadInv

\* A requeue counts what it forwards.
LEMMA RequeueForwards ==
  ASSUME IInv, DInv, DeadInv, UNCHANGED topic_manager, NEW list,
         NEW c \in {"nacked", "expired"}, Ends(list, c, TRUE)
  PROVE  DeadInv'
<1>. DEFINE dead == {m \in Range(list) : ExceedsAttempts(m)}
<1>1. Settle(dead, "forwarded") /\ Tally(c, list, dead)
  BY DEF Ends, RequeueMessages, DeadInv
<1>2. dead \subseteq Out
  BY DEF Ends
<1>. HIDE DEF dead
<1>3. dead \subseteq Message /\ Forwarded \cap dead = {}
  BY <1>2, OutIsLive DEF Forwarded
<1>4. Forwarded' = Forwarded \cup dead
  BY <1>1, <1>3 DEF Settle, Forwarded
<1>5. IsFiniteSet(Forwarded) /\ IsFiniteSet(dead)
  <2>1. Forwarded \subseteq Message
    BY DEF Forwarded
  <2>. QED BY <1>3, <2>1, ConstantTypes, FS_Subset
<1>6. Cardinality(Forwarded') = Cardinality(Forwarded) + Cardinality(dead)
  <2>1. Cardinality(Forwarded \cup dead) = Cardinality(Forwarded) + Cardinality(dead)
    BY <1>3, <1>5, DisjointUnion
  <2>. QED BY <1>4, <2>1
<1>7. counters'["dead_lettered"] = counters["dead_lettered"] + Cardinality(dead)
  <2>1. "dead_lettered" \in DOMAIN counters
    BY DEF IInv, AccountOK, Counters
  <2>. QED BY <1>1, <2>1 DEF Tally
<1>. QED BY <1>6, <1>7 DEF DeadInv

\* Every step keeps the counter equal to the number of forwarded messages.
LEMMA StepForwards ==
  ASSUME AlwaysForwarded, IInv, DInv, IInv', DInv', DeadInv, [Next]_vars
  PROVE  DeadInv'
<1>. USE DEF Settle, configVars
<1>1. "dead_lettered" \in DOMAIN counters
  BY DEF IInv, AccountOK, Counters
<1>2. ASSUME NEW n \in 1..MaxPost, NEW time \in 0..now, PostMessages(n, time)
      PROVE  DeadInv'
  BY <1>2, NoneForwarded DEF PostMessages
<1>3. ASSUME NEW max_count \in PullCounts, NEW max_outstanding \in OutstandingCaps,
             PullMessages(max_count, max_outstanding)
      PROVE  DeadInv'
  <2>1. PICK keys, visited, popped : Deliver(keys, visited, popped)
    BY <1>3 DEF PullMessages
  <2>2. PICK n : Count("pulled", n)
    BY <2>1 DEF Deliver
  <2>3. PICK S : Settle(S, "dropped")
    BY <2>1 DEF Deliver
  <2>. QED BY <1>1, <1>3, <2>2, <2>3, NoneForwarded DEF Count, PullMessages
<1>4. ASSUME NEW ids \in SUBSET AckIds, AcknowledgeMessages(ids)
      PROVE  DeadInv'
  <2>1. PICK n : Count("acked", n)
    BY <1>4 DEF AcknowledgeMessages
  <2>2. PICK S : Settle(S, "acked")
    BY <1>4 DEF AcknowledgeMessages
  <2>. QED BY <1>1, <1>4, <2>1, <2>2, NoneForwarded
              DEF Count, AcknowledgeMessages
<1>5. ASSUME NEW mods \in Modifications, NEW found \in DeadLetterTopicFound,
             ModifyDeadline(mods, found)
      PROVE  DeadInv'
  <2>1. found = TRUE /\ UNCHANGED topic_manager
    BY <1>5 DEF AlwaysForwarded, ModifyDeadline
  <2>2. PICK list : Ends(list, "nacked", TRUE)
    BY <1>5, <2>1, NackedMessages
  <2>. QED BY <2>1, <2>2, RequeueForwards
<1>6. ASSUME NEW found \in DeadLetterTopicFound, HandleExpiredMessages(found)
      PROVE  DeadInv'
  <2>1. found = TRUE /\ UNCHANGED topic_manager
    BY <1>6 DEF AlwaysForwarded, HandleExpiredMessages
  <2>2. PICK list : Ends(list, "expired", TRUE)
    BY <1>6, <2>1, ExpiredMessages
  <2>. QED BY <2>1, <2>2, RequeueForwards
<1>7. CASE HandleRetryReady
  <2>1. PICK S : Settle(S, "dropped")
    BY <1>7 DEF HandleRetryReady
  <2>. QED BY <1>7, <2>1, NoneForwarded DEF HandleRetryReady
<1>8. CASE Detach \/ Delete
  <2>1. ClearMessages /\ UNCHANGED <<topic_manager, counters>>
    BY <1>8 DEF Detach, Delete
  <2>2. PICK S : Settle(S, "dropped")
    BY <2>1 DEF ClearMessages
  <2>. QED BY <2>1, <2>2, NoneForwarded
<1>9. ASSUME NEW seek_time \in 0..now, Seek(seek_time)
      PROVE  DeadInv'
  <2>1. PICK S : Settle(S, "dropped")
    BY <1>9 DEF Seek
  <2>. QED BY <1>9, <2>1, NoneForwarded DEF Seek
<1>10. ASSUME \/ \E new \in Infos : UpdateInfo(new)
              \/ DeleteClosed \/ ActorStop \/ Tick \/ UNCHANGED vars
       PROVE  DeadInv'
  <2>1. UNCHANGED <<topic_manager, counters, fate>>
    BY <1>10 DEF UpdateInfo, DeleteClosed, ActorStop, Tick, vars
  <2>. QED BY <2>1 DEF DeadInv, Forwarded
<1>. QED BY <1>2, <1>3, <1>4, <1>5, <1>6, <1>7, <1>8, <1>9, <1>10
            DEF Next, ExpireAny

\* The dead letter counter of get_stats is the number of messages that were
\* handed to the dead letter topic, for any messages, keys and policies, as long
\* as every configuration names a dead letter topic that can be looked up.
THEOREM AlwaysDeadLetteredMeansForwarded ==
  ASSUME AlwaysForwarded
  PROVE  Spec => []DeadLetteredMeansForwarded
<1>1. Init => DeadInv
  <2>. SUFFICES ASSUME Init PROVE DeadInv
    OBVIOUS
  <2>1. Forwarded = {}
    BY DEF Init, Forwarded
  <2>2. topic_manager
    BY DEF Init, AlwaysForwarded, AllLimited, GivenTopicManager
  <2>3. counters["dead_lettered"] = 0
    BY DEF Init
  <2>. QED BY <2>1, <2>2, <2>3, FS_EmptySet DEF DeadInv
<1>2. IInv /\ DInv /\ (IInv /\ DInv)' /\ DeadInv /\ [Next]_vars => DeadInv'
  BY StepForwards
<1>3. DeadInv => DeadLetteredMeansForwarded
  BY DEF DeadInv, Forwarded, DeadLetteredMeansForwarded
<1>. QED BY <1>1, <1>2, <1>3, AlwaysDInv, PTL DEF Spec

-----------------------------------------------------------------------------
\* Configurations under which the actor drops no delivered message by itself:
\* neither a retention nor a dead letter policy.
NeverDrops ==
  \A i \in Infos :
    i.message_retention_duration = None /\ i.max_delivery_attempts = None

Aside == Out \cup Back
KeysHeld == \A k \in keys_in_flight : \E m \in OfKey(k) : m \in Aside

\* A key stays held when its messages leave only together with it.
LEMMA StillHeld ==
  ASSUME KeysHeld, NEW S, Aside \ S \subseteq Aside',
         keys_in_flight' \subseteq keys_in_flight,
         \A m \in S : Keyed(m) => KeyOf[m] \notin keys_in_flight'
  PROVE  KeysHeld'
<1>. SUFFICES ASSUME NEW k \in keys_in_flight'
              PROVE  \E m \in OfKey(k) : m \in Aside'
  BY DEF KeysHeld, OfKey, Keyed
<1>1. PICK m \in OfKey(k) : m \in Aside
  BY DEF KeysHeld
<1>2. m \notin S
  BY DEF OfKey
<1>. QED BY <1>1, <1>2

\* A key stays held when nothing leaves.
LEMMA MoreHeld ==
  ASSUME KeysHeld, Aside \subseteq Aside', keys_in_flight' = keys_in_flight
  PROVE  KeysHeld'
<1>. SUFFICES ASSUME NEW k \in keys_in_flight'
              PROVE  \E m \in OfKey(k) : m \in Aside'
  BY DEF KeysHeld, OfKey, Keyed
<1>. QED BY DEF KeysHeld

\* A requeue either releases the key of a message or keeps the message aside.
LEMMA RequeueHolds ==
  ASSUME NeverDrops, IInv, DInv, KeysHeld, NEW list, NEW c, NEW found,
         Ends(list, c, found)
  PROVE  KeysHeld'
<1>. DEFINE dead == {m \in Range(list) : ExceedsAttempts(m)}
            rest == Retain(list, Message \ dead)
<1>1. dead = {}
  BY DEF ExceedsAttempts, NeverDrops, IInv, ConfigOK
<1>2. list \in Seq(Message) /\ IsInjective(list) /\ Range(list) \subseteq Out
        /\ Out' = Out \ Range(list)
  BY DEF Ends
<1>3. /\ rest \in Seq(Message) /\ IsInjective(rest)
      /\ Range(rest) = Range(list) \cap (Message \ dead)
  BY <1>2, RetainSelects, RetainInjective, RetainRange
<1>4. IF info.retry_policy = None
      THEN /\ RequeueEach(rest, backlog, ordered_queues, keys_in_flight)
           /\ UNCHANGED retryVars
      ELSE Delay(rest)
  BY DEF Ends, RequeueMessages
<1>. HIDE DEF dead, rest
<1>5. Range(rest) = Range(list)
  BY <1>1, <1>2, <1>3, OutIsLive
<1>6. CASE info.retry_policy = None
  <2>1. keys_in_flight' = keys_in_flight \ KeysOf(rest) /\ UNCHANGED retrying
    BY <1>4, <1>6 DEF RequeueEach, retryVars
  <2>2. Aside \ Range(list) \subseteq Aside'
    BY <1>2, <2>1 DEF Aside, Back
  <2>3. \A m \in Range(list) : Keyed(m) => KeyOf[m] \notin keys_in_flight'
    BY <1>5, <2>1 DEF KeysOf
  <2>. QED BY <2>1, <2>2, <2>3, StillHeld
<1>7. CASE info.retry_policy # None
  <2>1. Delay(rest)
    BY <1>4, <1>7
  <2>2. Range(rest) \cap Back = {}
    BY <1>2, <1>5 DEF DInv, AsideApart
  <2>3. Back' = Back \cup Range(rest)
    BY <1>3, <2>1, <2>2, DelayHolds DEF IInv, DInv
  <2>4. Aside \subseteq Aside' /\ keys_in_flight' = keys_in_flight
    BY <1>2, <1>5, <2>1, <2>3 DEF Aside, Delay, queueVars
  <2>. QED BY <2>4, MoreHeld
<1>. QED BY <1>6, <1>7

\* Every step keeps each key in flight held by a message.
LEMMA StepHolds ==
  ASSUME NeverDrops, IInv, DInv, KeysHeld, [Next]_vars
  PROVE  KeysHeld'
<1>1. ASSUME UNCHANGED <<outstanding, retrying, keys_in_flight>>
      PROVE  KeysHeld'
  <2>1. Aside' = Aside
    BY <1>1 DEF Aside, Out, Back
  <2>. QED BY <1>1, <2>1, MoreHeld
<1>2. ASSUME NEW n \in 1..MaxPost, NEW time \in 0..now, PostMessages(n, time)
      PROVE  KeysHeld'
  BY <1>1, <1>2 DEF PostMessages, trackerVars, retryVars
<1>3. ASSUME NEW max_count \in PullCounts, NEW max_outstanding \in OutstandingCaps,
             PullMessages(max_count, max_outstanding)
      PROVE  KeysHeld'
  <2>1. /\ Out \subseteq Out' /\ Back' = Back
        /\ \A k \in keys_in_flight' \ keys_in_flight :
             \E m \in OfKey(k) : m \in Out'
    BY <1>3, PullMessagesDInv
  <2>2. \A k : OfKey(k)' = OfKey(k)
    BY DEF OfKey, Keyed
  <2>. QED BY <2>1, <2>2 DEF KeysHeld, Aside
<1>4. ASSUME NEW ids \in SUBSET AckIds, AcknowledgeMessages(ids)
      PROVE  KeysHeld'
  <2>. DEFINE valid == ids \cap DOMAIN outstanding
              acked == {outstanding[id].message : id \in valid}
              freed_keys == {KeyOf[m] : m \in {n \in acked : Keyed(n)}}
                              \cap keys_in_flight
  <2>1. /\ Outstanding!RemoveIds(ids) /\ UNCHANGED retrying
        /\ keys_in_flight' = keys_in_flight \ freed_keys
    BY <1>4 DEF AcknowledgeMessages, retryVars
  <2>2. /\ DOMAIN outstanding' = DOMAIN outstanding \ valid
        /\ \A id \in DOMAIN outstanding' : outstanding'[id] = outstanding[id]
    BY <2>1 DEF Outstanding!RemoveIds
  <2>3. Out \ acked \subseteq Out' /\ Back' = Back
    BY <2>1, <2>2 DEF Out, Back
  <2>4. \A m \in acked : Keyed(m) => KeyOf[m] \notin keys_in_flight'
    BY <2>1
  <2>. HIDE DEF acked, freed_keys
  <2>. QED BY <2>1, <2>3, <2>4, StillHeld DEF Aside
<1>5. ASSUME NEW mods \in Modifications, NEW found \in DeadLetterTopicFound,
             ModifyDeadline(mods, found)
      PROVE  KeysHeld'
  BY <1>5, NackedMessages, RequeueHolds
<1>6. ASSUME NEW found \in DeadLetterTopicFound, HandleExpiredMessages(found)
      PROVE  KeysHeld'
  BY <1>6, ExpiredMessages, RequeueHolds
<1>7. CASE HandleRetryReady
  <2>1. PICK ready : Returns(ready)
    BY <1>7, ReadyMessages
  <2>2. /\ ready \in Seq(Message) /\ Range(ready) \subseteq Back
        /\ Back' = Back \ Range(ready)
        /\ keys_in_flight' = keys_in_flight \ KeysOf(Retain(ready, Live))
    BY <2>1 DEF Returns, RequeueEach
  <2>3. Live = Message
    BY DEF Live, IsMessageExpired, NeverDrops, IInv, ConfigOK
  <2>4. Range(Retain(ready, Live)) = Range(ready)
    <3>1. Range(Retain(ready, Live)) = Range(ready) \cap Live
      BY <2>2, RetainRange
    <3>2. Range(ready) \subseteq Message
      BY <2>2, OutIsLive
    <3>. QED BY <2>3, <3>1, <3>2
  <2>5. Out' = Out
    BY <1>7 DEF HandleRetryReady, trackerVars, Out
  <2>6. \A m \in Range(ready) : Keyed(m) => KeyOf[m] \notin keys_in_flight'
    BY <2>2, <2>4 DEF KeysOf
  <2>7. Aside \ Range(ready) \subseteq Aside' /\ keys_in_flight' \subseteq keys_in_flight
    BY <2>2, <2>5 DEF Aside
  <2>. QED BY <2>6, <2>7, StillHeld
<1>8. CASE Detach \/ Delete
  BY <1>8 DEF Detach, Delete, ClearMessages, KeysHeld
<1>9. ASSUME NEW seek_time \in 0..now, Seek(seek_time)
      PROVE  KeysHeld'
  <2>1. PICK list, b, q : RequeueEach(list, b, q, {})
    BY <1>9 DEF Seek
  <2>. QED BY <2>1 DEF RequeueEach, KeysHeld
<1>10. ASSUME \/ \E new \in Infos : UpdateInfo(new)
              \/ DeleteClosed \/ ActorStop \/ Tick \/ UNCHANGED vars
       PROVE  KeysHeld'
  BY <1>1, <1>10 DEF UpdateInfo, DeleteClosed, ActorStop, Tick, vars,
     trackerVars, retryVars, queueVars
<1>. QED BY <1>2, <1>3, <1>4, <1>5, <1>6, <1>7, <1>8, <1>9, <1>10
            DEF Next, ExpireAny

\* No key is left in flight with nothing to release it, for any messages and
\* keys, whatever acks, nacks, expiries, backoffs and seeks follow, as long as
\* no configuration has a retention or a dead letter policy: those two are the
\* only ways in which the actor drops a message and keeps its key.
THEOREM NoKeyEverLeftInFlight ==
  ASSUME NeverDrops
  PROVE  Spec => []NoKeyLeftInFlight
<1>1. Init => KeysHeld
  BY DEF Init, KeysHeld
<1>2. IInv /\ DInv /\ KeysHeld /\ [Next]_vars => KeysHeld'
  BY StepHolds
<1>3. KeysHeld => NoKeyLeftInFlight
  <2>1. \A m \in Message : m \in Aside => InFlight(m) # {} \/ InBackoff(m) # {}
    BY DEF Aside, Out, Back, InFlight, InBackoff
  <2>. QED BY <2>1 DEF KeysHeld, NoKeyLeftInFlight, OfKey
<1>. QED BY <1>1, <1>2, <1>3, AlwaysDInv, PTL DEF Spec

===============================================================================

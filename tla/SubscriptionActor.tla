--------------------------- MODULE SubscriptionActor ---------------------------
(***************************************************************************)
(* The subscription actor: the one task that owns the state of a           *)
(* subscription.  It handles the requests of its mailbox one at a time,    *)
(* and between requests the deliveries whose deadline has passed and the   *)
(* retries whose backoff has elapsed.  Each handler is one action.         *)
(*                                                                         *)
(* A message is the position at which it was posted to the subscription,   *)
(* so post order is the order of the naturals.  An ordering key is a       *)
(* natural, NoKey stands for none; the per-key queues are a total function *)
(* in which an absent queue is empty, and the attempt counts one in which  *)
(* an absent count is 0.  Push configuration is not part of this module.   *)
(***************************************************************************)
EXTENDS SubscriptionObserver, Policies

CONSTANTS
  MaxMessages,      \* bound: messages posted to the subscription
  Keys,             \* the ordering keys in use
  KeyOf,            \* the ordering key of each message
  Matching,         \* the messages that pass the subscription's filter
  enable_message_ordering,
  Infos,            \* configurations that creation and updates can give
  None,             \* an absent policy or duration
  Precision, Nack,  \* see OutstandingTracker
  MAX_PULL_COUNT,   \* 1000 in the code
  U16,              \* 2^16 in the code: counts are cast to this width
  PullCounts,       \* the max_count values of pull requests
  OutstandingCaps,  \* the max_outstanding values of pull requests
  DeadLetterTopicFound, \* what looking up the dead letter topic can return
  MaxAckId, MaxTime, MaxPost, MaxMods \* bounds: deliveries, clock, batches

NoKey == 0
Message == 1..MaxMessages
Policy == [minimum_backoff : Nat, maximum_backoff : Nat]
Info == [ack_deadline : Nat,
         message_retention_duration : Nat \cup {None},
         max_delivery_attempts : Nat \cup {None},
         retry_policy : Policy \cup {None}]

\* apply_update: the fields in set change, the others stay.
ApplyUpdate(old, new, set) ==
  [field \in DOMAIN old |-> IF field \in set THEN new[field] ELSE old[field]]

ASSUME BoundsAssumption ==
  /\ MaxMessages \in Nat /\ MaxAckId \in Nat /\ MaxTime \in Nat
  /\ MaxPost \in Nat /\ MaxMods \in Nat
ASSUME KeyAssumption ==
  /\ Keys \subseteq Nat \ {NoKey}
  /\ IsFiniteSet(Keys)
  /\ KeyOf \in [Message -> Keys \cup {NoKey}]
ASSUME ConfigurationAssumption ==
  /\ Matching \subseteq Message
  /\ enable_message_ordering \in BOOLEAN
  /\ Infos \subseteq Info
  /\ Precision \in Nat \ {0}
  /\ None \notin Nat /\ None \notin Policy /\ Nack \notin Nat
  /\ U16 \in Nat \ {0} /\ MAX_PULL_COUNT \in Nat
  /\ PullCounts \subseteq 0..(U16-1) /\ OutstandingCaps \subseteq 0..(U16-1)
  /\ DeadLetterTopicFound \subseteq BOOLEAN
ASSUME UpdateAssumption ==
  \A old, new \in Infos : \A set \in SUBSET DOMAIN old :
    ApplyUpdate(old, new, set) \in Infos

VARIABLES
  now,               \* the clock
  posted,            \* how many messages have been posted
  published,         \* the publish time of each posted message
  info,              \* the configuration an update can change
  detached,          \* info.detached
  topic_manager,     \* whether the actor was started with a topic manager
  backlog,           \* messages to be pulled, without or regardless of a key
  ordered_queues,    \* per-key queues, when ordering is enabled
  keys_in_flight,    \* keys whose head has been handed out
  delivery_attempts, \* attempt number of the next delivery, 0 when absent
  next_ack_id,
  outstanding, expirations,      \* the tracker of deliveries
  schedule, retrying, next_seq,  \* the retry queue
  counters,          \* the cumulative counters of get_stats
  deleted,           \* the actor's own flag
  running,           \* whether the actor's task is alive
  fate,              \* history: what has become of each message
  withdrawn          \* history: deliveries ended by seek, detach or delete

clientVars == <<posted, published>>
configVars == <<info, detached, topic_manager>>
queueVars == <<backlog, ordered_queues, keys_in_flight>>
trackerVars == <<outstanding, expirations>>
retryVars == <<schedule, retrying, next_seq>>
lifeVars == <<deleted, running>>
vars == <<now, clientVars, configVars, queueVars, delivery_attempts,
          next_ack_id, trackerVars, retryVars, counters, lifeVars, fate,
          withdrawn, observerVars>>

Outstanding ==
  INSTANCE OutstandingTracker
    WITH messages <- outstanding, AckId <- Nat, Attempt <- Nat, Instant <- Nat

Retry ==
  INSTANCE RetryQueue WITH Instant <- Nat, MaxSeq <- 0, MaxEntries <- 0

AckDeadline(time) == Outstanding!AckDeadline(time)

-----------------------------------------------------------------------------
\* Whether the message goes through the per-key queues.
Keyed(m) == enable_message_ordering /\ KeyOf[m] # NoKey
OfKey(k) == {m \in Message : Keyed(m) /\ KeyOf[m] = k}
Unkeyed == {m \in Message : ~Keyed(m)}

\* is_message_expired, at the current instant.
IsMessageExpired(m) ==
  /\ info.message_retention_duration # None
  /\ now - published[m] >= info.message_retention_duration
Live == {m \in Message : ~IsMessageExpired(m)}

\* The messages behind a list of ack ids of deliveries.
MessagesOf(ids) == [i \in DOMAIN ids |-> outstanding[ids[i]].message]

Settle(messages, as) ==
  fate' = [m \in Message |-> IF m \in messages THEN as ELSE fate[m]]

Count(name, n) == counters' = [counters EXCEPT ![name] = @ + n]

\* notify_new_messages_available under a condition; no other signal.
NotifyAvailableIf(condition) ==
  /\ IF condition THEN NotifyNewMessagesAvailable ELSE UNCHANGED availableVars
  /\ UNCHANGED <<freedVars, deleted_signal>>

-----------------------------------------------------------------------------
\* create_subscription hands the actor a topic manager only if the subscription
\* is created with a dead letter policy.
GivenTopicManager(i) == i.max_delivery_attempts # None

Init ==
  /\ now = 0 /\ posted = 0
  /\ published = [m \in Message |-> 0]
  /\ info \in Infos
  /\ detached = FALSE
  /\ topic_manager = GivenTopicManager(info)
  /\ backlog = << >>
  /\ ordered_queues = [k \in Keys |-> << >>]
  /\ keys_in_flight = {}
  /\ delivery_attempts = [m \in Message |-> 0]
  /\ next_ack_id = 1
  /\ Outstanding!Init /\ Retry!Init
  /\ counters = [pulled |-> 0, acked |-> 0, nacked |-> 0, expired |-> 0,
                 dead_lettered |-> 0]
  /\ deleted = FALSE /\ running = TRUE
  /\ fate = [m \in Message |-> "unposted"]
  /\ withdrawn = 0
  /\ ObserverInit

\* post_messages: n further messages, published at one instant, not before
\* the ones posted earlier.  A detached subscription still takes them.
PostMessages(n, time) ==
  LET batch == [i \in 1..n |-> posted + i]
      accepted == Retain(batch, IF deleted THEN {} ELSE Matching)
  IN  /\ running
      /\ posted + n <= MaxMessages
      /\ \A m \in 1..posted : published[m] <= time
      /\ posted' = posted + n
      /\ published' = [m \in Message |->
                         IF m \in Range(batch) THEN time ELSE published[m]]
      /\ backlog' = backlog \o Retain(accepted, Unkeyed)
      /\ ordered_queues' =
           [k \in Keys |-> ordered_queues[k] \o Retain(accepted, OfKey(k))]
      /\ fate' = [m \in Message |->
                    IF m \in Range(accepted) THEN "live"
                    ELSE IF m \in Range(batch) THEN "dropped" ELSE fate[m]]
      /\ NotifyAvailableIf(accepted # << >>)
      /\ UNCHANGED <<now, configVars, keys_in_flight, delivery_attempts,
                     next_ack_id, trackerVars, retryVars, counters, lifeVars,
                     withdrawn>>

-----------------------------------------------------------------------------
\* Keys whose head can be handed out.
FreeKeys ==
  {k \in Keys : k \notin keys_in_flight /\ ordered_queues[k] # << >>}

\* How many deliveries are left under the caller's cap.
\* Variant: forgets the deliveries already out.
HeadroomOfCap(max_outstanding) == max_outstanding
Headroom(max_outstanding) ==
  Max({max_outstanding - (Cardinality(DOMAIN outstanding) % U16), 0})

\* How many messages a pull may hand out: counts are truncated to 16 bits,
\* the sum and the difference saturate.
Capacity(max_count, max_outstanding) ==
  LET pending_keyed == Cardinality(FreeKeys) % U16
      outgoing_len == Min({(Len(backlog) % U16) + pending_keyed, U16 - 1})
      effective_max == Min({max_count, Max({outgoing_len, MAX_PULL_COUNT})})
  IN  IF max_outstanding > 0
      THEN Min({effective_max, Headroom(max_outstanding)})
      ELSE effective_max

\* The position of the first message of a key's queue that has not outlived
\* its retention; one past the end when there is none.
LivePosition(k) ==
  Min({i \in DOMAIN ordered_queues[k] : ordered_queues[k][i] \in Live}
        \cup {Len(ordered_queues[k]) + 1})
HasLive(k) == LivePosition(k) <= Len(ordered_queues[k])

\* The keys the first loop of a pull visits: it takes them in order and stops
\* when the batch is full.
Visited(capacity) ==
  {k \in FreeKeys :
     Cardinality({j \in FreeKeys : j < k /\ HasLive(j)}) < capacity}

\* How much of the backlog the second loop pops to find room live messages.
Popped(room) ==
  Min({n \in 0..Len(backlog) :
         Cardinality({i \in 1..n : backlog[i] \in Live}) = room}
        \cup {Len(backlog)})

\* next of AckId, n times.
\* Variant: one step fewer, so that the last id is handed out again.
AckIdAfterFewer(id, n) == IF n = 0 THEN id ELSE id + n - 1
AckIdAfter(id, n) == id + n

\* A pull hands out the first live message of every visited key and then the
\* front of the backlog; what it meets past its retention is dropped.
Deliver(keys, visited, popped) ==
  LET heads == [i \in DOMAIN keys |->
                  ordered_queues[keys[i]][LivePosition(keys[i])]]
      front == SubSeq(backlog, 1, popped)
      batch == heads \o Retain(front, Live)
      ids == next_ack_id .. (next_ack_id + Len(batch) - 1)
      attempt(m) == IF delivery_attempts[m] = 0 THEN 1 ELSE delivery_attempts[m]
      delivery(m) == [message |-> m,
                      deadline |-> AckDeadline(now + info.ack_deadline),
                      delivery_attempt |-> attempt(m)]
      stale == (Range(front) \ Live) \cup
               UNION {{ordered_queues[k][i] : i \in 1..(LivePosition(k) - 1)} :
                        k \in visited}
  IN  /\ next_ack_id + Len(batch) - 1 <= MaxAckId
      /\ next_ack_id' = AckIdAfter(next_ack_id, Len(batch))
      /\ Outstanding!Add([id \in ids |-> delivery(batch[id - next_ack_id + 1])])
      /\ keys_in_flight' = keys_in_flight \cup Range(keys)
      /\ ordered_queues' =
           [k \in Keys |->
              IF k \in visited
              THEN SubSeq(ordered_queues[k], LivePosition(k) + 1,
                          Len(ordered_queues[k]))
              ELSE ordered_queues[k]]
      /\ backlog' = SubSeq(backlog, popped + 1, Len(backlog))
      /\ delivery_attempts' =
           [m \in Message |-> IF m \in stale THEN 0 ELSE delivery_attempts[m]]
      /\ Settle(stale, "dropped")
      /\ Count("pulled", Len(batch))

\* pull_messages.  On a deleted or detached subscription, and when there is no
\* capacity, it returns without changing or signalling anything.
PullMessages(max_count, max_outstanding) ==
  LET capacity == Capacity(max_count, max_outstanding)
      visited == Visited(capacity)
      ready == {k \in visited : HasLive(k)}
  IN  /\ running /\ ~deleted /\ ~detached
      /\ capacity > 0
      /\ \E keys \in Ascending(ready) :
           Deliver(keys, visited, Popped(capacity - Len(keys)))
      /\ NotifyAvailableIf(\/ backlog' # << >>
                           \/ \E k \in Keys : /\ k \notin keys_in_flight'
                                              /\ ordered_queues'[k] # << >>)
      /\ UNCHANGED <<now, clientVars, configVars, retryVars, lifeVars,
                     withdrawn>>

-----------------------------------------------------------------------------
\* The keys requeue_one releases for a list of messages.
KeysOf(list) == {KeyOf[m] : m \in {n \in Range(list) : Keyed(n)}}

\* Variants of RequeueEach: at the end of the key's queue; the key not released;
\* into the backlog as well.
RequeueAtEnd(list, b, q, f) ==
  /\ backlog' = b \o Retain(list, Unkeyed)
  /\ ordered_queues' = [k \in Keys |-> q[k] \o Retain(list, OfKey(k))]
  /\ keys_in_flight' = f \ KeysOf(list)
RequeueKeepingKey(list, b, q, f) ==
  /\ backlog' = b \o Retain(list, Unkeyed)
  /\ ordered_queues' =
       [k \in Keys |-> Reversed(Retain(list, OfKey(k))) \o q[k]]
  /\ keys_in_flight' = f
RequeueTwice(list, b, q, f) ==
  /\ backlog' = b \o list
  /\ ordered_queues' =
       [k \in Keys |-> Reversed(Retain(list, OfKey(k))) \o q[k]]
  /\ keys_in_flight' = f \ KeysOf(list)

\* requeue_one for each message of a list, on queues b, q and in-flight keys f:
\* a keyed message goes to the head of its queue and its key is released, any
\* other to the end of the backlog.
RequeueEach(list, b, q, f) ==
  /\ backlog' = b \o Retain(list, Unkeyed)
  /\ ordered_queues' =
       [k \in Keys |-> Reversed(Retain(list, OfKey(k))) \o q[k]]
  /\ keys_in_flight' = f \ KeysOf(list)

\* The attempt number requeue_messages gives to a returning message.
NextAttempt(m) ==
  IF delivery_attempts[m] = 0 THEN 2
  ELSE Min({delivery_attempts[m] + 1, U16 - 1})

\* Variant: compares the attempt just made.
ExceededAttempts(m) ==
  /\ info.max_delivery_attempts # None
  /\ delivery_attempts[m] > info.max_delivery_attempts
ExceedsAttempts(m) ==
  /\ info.max_delivery_attempts # None
  /\ NextAttempt(m) > info.max_delivery_attempts

\* The retry branch of requeue_messages: the messages wait for their backoff,
\* and their keys stay in flight.
\* Variant: the keys are released at once.
Retries(list) ==
  [i \in DOMAIN list |->
     [message |-> list[i],
      deliver_at |-> AckDeadline(now + CalculateBackoff(info.retry_policy,
                                                        NextAttempt(list[i])))]]
DelayReleasingKeys(list) ==
  /\ Retry!Add(Retries(list))
  /\ keys_in_flight' = keys_in_flight \ KeysOf(list)
  /\ UNCHANGED <<backlog, ordered_queues>>
Delay(list) == Retry!Add(Retries(list)) /\ UNCHANGED queueVars

\* The counters of requeue_messages and of its caller.
\* Variant: what is dead-lettered is not counted as nacked or expired.
TallyOnce(counter, list, dead) ==
  counters' = [counters EXCEPT ![counter] = @ + Len(Retain(list, Message \ dead)),
                               !["dead_lettered"] = @ + Cardinality(dead)]
Tally(counter, list, dead) ==
  counters' = [counters EXCEPT ![counter] = @ + Len(list),
                               !["dead_lettered"] = @ + Cardinality(dead)]

\* requeue_messages, with the counter its caller bumps first.  A message out
\* of attempts goes to the dead letter topic, if the actor can look one up and
\* finds it; with a retry policy the others wait for their backoff, without
\* one they return to their queue.
RequeueMessages(list, counter, found) ==
  LET dead == {m \in Range(list) : ExceedsAttempts(m)}
      rest == Retain(list, Message \ dead)
  IN  /\ IF info.retry_policy = None
         THEN /\ RequeueEach(rest, backlog, ordered_queues, keys_in_flight)
              /\ UNCHANGED retryVars
         ELSE Delay(rest)
      /\ delivery_attempts' =
           [m \in Message |-> IF m \in dead THEN 0
                              ELSE IF m \in Range(rest) THEN NextAttempt(m)
                              ELSE delivery_attempts[m]]
      /\ Settle(dead, IF topic_manager /\ found THEN "forwarded" ELSE "dropped")
      /\ Tally(counter, list, dead)
      /\ NotifyAvailableIf(backlog' # << >>)

\* acknowledge_messages: ids of no delivery are reported back and skipped.
AcknowledgeMessages(ids) ==
  LET valid == ids \cap DOMAIN outstanding
      acked == {outstanding[id].message : id \in valid}
      freed_keys == {KeyOf[m] : m \in {n \in acked : Keyed(n)}}
                      \cap keys_in_flight
  IN  /\ running /\ ~deleted
      /\ Outstanding!RemoveIds(ids)
      /\ delivery_attempts' =
           [m \in Message |-> IF m \in acked THEN 0 ELSE delivery_attempts[m]]
      /\ keys_in_flight' = keys_in_flight \ freed_keys
      /\ Settle(acked, "acked")
      /\ Count("acked", Cardinality(valid))
      /\ IF valid # {} THEN NotifyOutstandingFreed ELSE UNCHANGED freedVars
      /\ IF freed_keys # {} THEN NotifyNewMessagesAvailable
         ELSE UNCHANGED availableVars
      /\ UNCHANGED <<now, clientVars, configVars, backlog, ordered_queues,
                     next_ack_id, retryVars, lifeVars, withdrawn,
                     deleted_signal>>

\* The ids whose messages modify returns, in their order.
\* Variant: an id nacked twice is listed twice.
NackOrderRepeated(mods) ==
  LET nacks == {i \in DOMAIN mods : /\ mods[i].new_deadline = Nack
                                   /\ mods[i].ack_id \in DOMAIN outstanding}
  IN  {[i \in DOMAIN l |-> mods[l[i]].ack_id] : l \in Ascending(nacks)}
NackOrder(mods) ==
  {ids \in Listings(Outstanding!Nacks(mods)) : Outstanding!InNackOrder(mods, ids)}

\* modify_deadline.
ModifyDeadline(mods, found) ==
  /\ running /\ ~deleted
  /\ Outstanding!ModifyDeadlines(mods)
  /\ \E nacks \in NackOrder(mods) :
       RequeueMessages(MessagesOf(nacks), "nacked", found)
  /\ UNCHANGED <<now, clientVars, configVars, next_ack_id, lifeVars, withdrawn>>

\* The arm of the loop that takes the expired deliveries, in the order of
\* their expirations, and requeues them.
HandleExpiredMessages(found) ==
  /\ running
  /\ Outstanding!TakeExpired(now)
  /\ \E due \in InOrder(Outstanding!Due(now)) :
       RequeueMessages(MessagesOf([i \in DOMAIN due |-> due[i][2]]),
                       "expired", found)
  /\ UNCHANGED <<now, clientVars, configVars, next_ack_id, lifeVars, withdrawn>>

\* The arm of the loop that takes the retries whose backoff has elapsed.  One
\* that has outlived its retention is dropped; its key stays in flight.
HandleRetryReady ==
  /\ running
  /\ Retry!TakeReady(now)
  /\ \E due \in InOrder(Retry!Ready(now)) :
       LET ready == [i \in DOMAIN due |-> retrying[due[i][2]]]
           kept == Retain(ready, Live)
           stale == Range(ready) \ Live
       IN  /\ RequeueEach(kept, backlog, ordered_queues, keys_in_flight)
           /\ delivery_attempts' = [m \in Message |->
                IF m \in stale THEN 0 ELSE delivery_attempts[m]]
           /\ Settle(stale, "dropped")
           /\ NotifyAvailableIf(kept # << >>)
  /\ UNCHANGED <<now, clientVars, configVars, next_ack_id, trackerVars,
                 counters, lifeVars, withdrawn>>

-----------------------------------------------------------------------------
\* update_info: the fields an update sets take its values.
UpdateInfo(new) ==
  /\ running
  /\ \E set \in SUBSET DOMAIN info : info' = ApplyUpdate(info, new, set)
  /\ UNCHANGED <<now, clientVars, detached, topic_manager, queueVars,
                 delivery_attempts, next_ack_id, trackerVars, retryVars,
                 counters, lifeVars, fate, withdrawn, observerVars>>

\* What detach and delete do to the messages the subscription holds.
ClearMessages ==
  /\ Outstanding!Clear /\ Retry!Clear
  /\ backlog' = << >>
  /\ ordered_queues' = [k \in Keys |-> << >>]
  /\ keys_in_flight' = {}
  /\ delivery_attempts' = [m \in Message |-> 0]
  /\ Settle({m \in Message : fate[m] = "live"}, "dropped")
  /\ withdrawn' = withdrawn + Cardinality(DOMAIN outstanding)

\* detach; a second one changes nothing.  Waiting calls are not signalled, and
\* the topic keeps the subscription in its list.
Detach ==
  /\ running /\ ~detached
  /\ detached' = TRUE
  /\ ClearMessages
  /\ UNCHANGED <<now, clientVars, info, topic_manager, next_ack_id, counters,
                 lifeVars, observerVars>>

\* delete, when the topic is gone or removes the subscription from its list.
\* The actor waits for the topic's answer with the flag set and does nothing else
\* meanwhile, so the wait is left out here; module Lifecycle, which has the
\* mailboxes, has it.  The wait may last for ever: a liveness property over this
\* module excuses a deletion that has begun, or starts from the signal at its end.
Delete ==
  /\ running /\ ~deleted
  /\ deleted' = TRUE
  /\ ClearMessages
  /\ NotifyDeleted
  /\ UNCHANGED <<now, clientVars, configVars, next_ack_id, counters, running,
                 freedVars>>

\* delete, when the topic's actor has ended (its task panicked or the runtime is
\* going down): the early return leaves a subscription that is marked as deleted
\* but neither cleared nor stopped.
DeleteClosed ==
  /\ running /\ ~deleted
  /\ deleted' = TRUE
  /\ UNCHANGED <<now, clientVars, configVars, queueVars, delivery_attempts,
                 next_ack_id, trackerVars, retryVars, counters, running, fate,
                 withdrawn, observerVars>>

\* The task ends once notify_deleted has fired; until it is polled again the
\* loop may handle further requests.
ActorStop ==
  /\ running /\ deleted_signal
  /\ running' = FALSE
  /\ UNCHANGED <<now, clientVars, configVars, queueVars, delivery_attempts,
                 next_ack_id, trackerVars, retryVars, counters, deleted, fate,
                 withdrawn, observerVars>>

\* seek_to_time: messages published up to the seek time are dropped, the newer
\* ones are all made available again.  The maps are drained in any order.
Seek(seek_time) ==
  LET newer == {m \in Message : published[m] > seek_time}
  IN  /\ running /\ ~deleted
      /\ Outstanding!Clear /\ Retry!Clear
      /\ \E drained \in Listings(DOMAIN outstanding),
            waited \in Listings(DOMAIN retrying) :
           RequeueEach(Retain(MessagesOf(drained)
                                \o [i \in DOMAIN waited |-> retrying[waited[i]]],
                              newer),
                       Retain(backlog, newer),
                       [k \in Keys |-> Retain(ordered_queues[k], newer)],
                       {})
      /\ delivery_attempts' = [m \in Message |-> 0]
      /\ Settle({m \in Message \ newer : fate[m] = "live"}, "dropped")
      /\ withdrawn' = withdrawn + Cardinality(DOMAIN outstanding)
      /\ NotifyOutstandingFreed
      /\ NotifyNewMessagesAvailable
      /\ UNCHANGED <<now, clientVars, configVars, next_ack_id, counters,
                     lifeVars, deleted_signal>>

\* Time passes.
Tick ==
  /\ now < MaxTime
  /\ now' = now + 1
  /\ UNCHANGED <<clientVars, configVars, queueVars, delivery_attempts,
                 next_ack_id, trackerVars, retryVars, counters, lifeVars, fate,
                 withdrawn, observerVars>>

-----------------------------------------------------------------------------
AckIds == 1..MaxAckId
Modification ==
  [ack_id : AckIds, new_deadline : {AckDeadline(t) : t \in 0..MaxTime} \cup {Nack}]
Modifications == UNION {[1..n -> Modification] : n \in 1..MaxMods}

ExpireAny == \E found \in DeadLetterTopicFound : HandleExpiredMessages(found)

\* The requests of the mailbox, in any order, and the loop's other arms.
Next ==
  \/ \E n \in 1..MaxPost, time \in 0..now : PostMessages(n, time)
  \/ \E max_count \in PullCounts, max_outstanding \in OutstandingCaps :
       PullMessages(max_count, max_outstanding)
  \/ \E ids \in SUBSET AckIds : AcknowledgeMessages(ids)
  \/ \E mods \in Modifications, found \in DeadLetterTopicFound :
       ModifyDeadline(mods, found)
  \/ ExpireAny
  \/ HandleRetryReady
  \/ \E new \in Infos : UpdateInfo(new)
  \/ Detach
  \/ Delete
  \/ DeleteClosed
  \/ ActorStop
  \/ \E seek_time \in 0..now : Seek(seek_time)
  \/ Tick

Spec == Init /\ [][Next]_vars

-----------------------------------------------------------------------------
Fates == {"unposted", "live", "acked", "forwarded", "dropped"}

\* The state has its type.
TypeOK ==
  /\ now \in Nat /\ posted \in Nat /\ posted <= MaxMessages
  /\ published \in [Message -> Nat]
  /\ info \in Infos
  /\ detached \in BOOLEAN /\ topic_manager \in BOOLEAN
  /\ backlog \in Seq(Message)
  /\ ordered_queues \in [Keys -> Seq(Message)]
  /\ keys_in_flight \subseteq Keys
  /\ delivery_attempts \in [Message -> Nat]
  /\ next_ack_id \in Nat \ {0}
  /\ DOMAIN outstanding \subseteq Nat
  /\ outstanding \in [DOMAIN outstanding ->
                        [message : Message, deadline : Nat,
                         delivery_attempt : Nat]]
  /\ expirations \subseteq (Nat \X Nat)
  /\ next_seq \in Nat
  /\ DOMAIN retrying \subseteq Nat
  /\ retrying \in [DOMAIN retrying -> Message]
  /\ schedule \subseteq (Nat \X Nat)
  /\ counters \in [{"pulled", "acked", "nacked", "expired", "dead_lettered"}
                     -> Nat]
  /\ deleted \in BOOLEAN /\ running \in BOOLEAN
  /\ fate \in [Message -> Fates]
  /\ withdrawn \in Nat
  /\ ObserverTypeOK

\* The actor keeps to what the two trackers rely on (adding only under unused
\* ids): the deliveries and their expirations, and the retries and their
\* schedule, describe the same messages, as the unchecked read in
\* take_expired and the lookup in take_ready require.
TrackersInStep == Outstanding!SideBySide /\ Retry!ScheduledOnce

\* Where the subscription holds a message: the positions, ids or sequence
\* numbers under which it is found.
InBacklog(m) == {i \in DOMAIN backlog : backlog[i] = m}
InQueue(m) ==
  {p \in UNION {{k} \X DOMAIN ordered_queues[k] : k \in Keys} :
     ordered_queues[p[1]][p[2]] = m}
InFlight(m) == {id \in DOMAIN outstanding : outstanding[id].message = m}
InBackoff(m) == {n \in DOMAIN retrying : retrying[n] = m}

\* No message is lost and none is duplicated: one that was accepted and not
\* yet acknowledged, forwarded or deliberately dropped is held in exactly one
\* place, exactly once, and one that is settled is held nowhere, whatever the
\* order of pulls, acks, nacks, expiries, backoffs and seeks.
HeldExactlyOnce ==
  \A m \in Message :
    Cardinality(InBacklog(m)) + Cardinality(InQueue(m))
      + Cardinality(InFlight(m)) + Cardinality(InBackoff(m))
    = IF fate[m] = "live" THEN 1 ELSE 0

\* Per-key order: while a message of an ordering key is out for delivery,
\* every earlier accepted message of that key has been settled; in particular
\* at most one message of a key is out at a time (pull_messages hands out the
\* head of a key that is not in flight, requeue_one puts it back in front).
OrderedDelivery ==
  \A m, n \in Message :
    Keyed(m) /\ Keyed(n) /\ KeyOf[m] = KeyOf[n] /\ m < n /\ InFlight(n) # {}
      => fate[m] \notin {"live", "unposted"}

\* The cumulative counters account for every delivery: each one handed out
\* was acked, nacked, expired, withdrawn by a seek, detach or delete, or is
\* still outstanding (SubscriptionCounters).
CountersBalance ==
  counters.pulled = counters.acked + counters.nacked + counters.expired
                      + withdrawn + Cardinality(DOMAIN outstanding)

\* get_stats: the three gauges it reports.
\* Variant: the per-key queues are forgotten.
GetStatsUnkeyed ==
  [outstanding |-> Cardinality(DOMAIN outstanding),
   backlog |-> Len(backlog),
   retrying |-> Cardinality(DOMAIN retrying)]
GetStats ==
  LET pending[K \in SUBSET Keys] ==
        IF K = {} THEN 0
        ELSE LET k == CHOOSE k \in K : TRUE
             IN  Len(ordered_queues[k]) + pending[K \ {k}]
  IN  [outstanding |-> Cardinality(DOMAIN outstanding),
       backlog |-> Len(backlog) + pending[Keys],
       retrying |-> Cardinality(DOMAIN retrying)]

\* The gauges of get_stats add up to the unsettled messages: the metrics
\* neither hide a message nor count one twice.
StatsAccountForAll ==
  GetStats.outstanding + GetStats.backlog + GetStats.retrying
    = Cardinality({m \in Message : fate[m] = "live"})

\* Settled means settled: no later step, such as a late ack, an expiry or a
\* seek into the past, delivers an acknowledged, forwarded or dropped message
\* again or changes what has become of it.
SettledForGood ==
  [][\A m \in Message : fate[m] \notin {"unposted", "live"} =>
       /\ fate'[m] = fate[m]
       /\ \A id \in DOMAIN outstanding' \ DOMAIN outstanding :
            outstanding'[id].message # m]_vars

\* An ack id, once retired, never denotes a delivery again, and while it is
\* in use it denotes the same message (new ids come from a counter that only
\* grows): a late ack or extension cannot touch another delivery.
KeepsAckIds ==
  /\ next_ack_id' >= next_ack_id
  /\ \A id \in DOMAIN outstanding' :
       IF id < next_ack_id
       THEN /\ id \in DOMAIN outstanding
            /\ outstanding'[id].message = outstanding[id].message
       ELSE id < next_ack_id'
AckIdsNeverReissued == [][KeepsAckIds]_vars

\* Flow control: a pull with a cap never makes the number of outstanding
\* deliveries exceed the cap ("the returned batch never makes the total
\* outstanding count exceed it", pull_messages).
CapRespected ==
  [][\A max_count \in PullCounts, cap \in OutstandingCaps \ {0} :
       PullMessages(max_count, cap) =>
         \/ Cardinality(DOMAIN outstanding') <= cap
         \/ outstanding' = outstanding]_vars

\* A dead letter policy bounds redelivery: as long as every configuration has
\* one, no delivery carries an attempt number above the largest limit
\* (requeue_messages counts the attempt before it compares; a seek clears the
\* numbers, so it is the deliveries since the last one that are bounded).
AttemptsWithinPolicy ==
  (\A i \in Infos : i.max_delivery_attempts # None) =>
    \A id \in DOMAIN outstanding :
      outstanding[id].delivery_attempt
        <= Max({i.max_delivery_attempts : i \in Infos})

\* While a message of a key is out for delivery or waits for its backoff, the
\* key is in flight, so no later message of the key overtakes it: pull_messages
\* passes by a key in flight, and the retry branch of requeue_messages does not
\* release it, whatever its comment says (BackoffReleasesKey).
BusyKeysInFlight ==
  \A m \in Message :
    Keyed(m) /\ (InFlight(m) # {} \/ InBackoff(m) # {})
      => KeyOf[m] \in keys_in_flight

\* A key does not wait for the backoff of its message ("We just need to release
\* the key now so other streams aren't blocked while waiting for backoff", the
\* retry branch of requeue_messages).
BackoffReleasesKey ==
  \A m \in Message :
    Keyed(m) /\ InBackoff(m) # {} => KeyOf[m] \notin keys_in_flight

\* A key is in flight only while one of its messages is out for delivery or
\* waits for its backoff: otherwise nothing would ever release it.
NoKeyLeftInFlight ==
  \A k \in keys_in_flight :
    \E m \in OfKey(k) : InFlight(m) # {} \/ InBackoff(m) # {}

\* Every message counted as dead-lettered was handed to the dead letter topic
\* ("Total number of messages forwarded to a dead letter topic", stats.rs), as
\* long as looking up that topic always succeeds.
DeadLetteredMeansForwarded ==
  counters.dead_lettered = Cardinality({m \in Message : fate[m] = "forwarded"})

=============================================================================

-------------------------- MODULE OutstandingTracker --------------------------
(***************************************************************************)
(* The tracker of delivered but unsettled messages                         *)
(* (OutstandingMessageTracker): a map from ack id to pulled message and,   *)
(* beside it, the set of expirations <<deadline, ack id>> the actor polls. *)
(* take_expired reads the map without checking (unwrap_unchecked), which   *)
(* is sound only while the two structures describe the same deliveries.    *)
(*                                                                         *)
(* A pulled message is a record [message, deadline, delivery_attempt].     *)
(* Left out: the tracker's own Notify.  It only wakes poll_next_expired,   *)
(* whose future holds a mutable borrow of the tracker and is recreated on  *)
(* every turn of the actor's loop, so nothing can change the tracker while *)
(* that future waits.                                                      *)
(***************************************************************************)
EXTENDS Integers

CONSTANTS
  Message,    \* the messages a delivery can carry
  AckId,      \* the ack ids a caller can mention (naturals)
  Attempt,    \* the delivery attempt numbers that occur
  Instant,    \* the instants that occur (naturals)
  Precision,  \* deadlines are multiples of this many instants
  MaxMods,    \* bound: modifications in one ModifyAckDeadline call
  Nack        \* stands for "no new deadline" in a modification

ASSUME PrecisionAssumption == Precision \in Nat \ {0}
ASSUME InstantAssumption == Instant \subseteq Nat
ASSUME NackAssumption == Nack \notin Nat
ASSUME BatchAssumption == MaxMods \in Nat

VARIABLES
  messages,    \* ack id -> pulled message
  expirations  \* the set of <<deadline, ack id>>

trackerVars == <<messages, expirations>>

\* AckDeadline::new: the instant rounded up to a multiple of Precision.
AckDeadline(time) == ((time + Precision - 1) \div Precision) * Precision

\* The instants a deadline can be.
Deadline == {AckDeadline(t) : t \in Instant}

PulledMessage ==
  [message : Message, deadline : Deadline, delivery_attempt : Attempt]

\* expiration_key of the tracked message with this ack id.
ExpirationKey(id) == <<messages[id].deadline, id>>

-----------------------------------------------------------------------------
Init ==
  /\ messages = [id \in {} |-> 0]
  /\ expirations = {}

\* The add calls of one pull: every delivery of new enters both structures.
\* An insertion replaces what the map held; the set only grows.
Add(new) ==
  /\ messages' = [id \in DOMAIN messages \cup DOMAIN new |->
                    IF id \in DOMAIN new THEN new[id] ELSE messages[id]]
  /\ expirations' =
       expirations \cup {<<new[id].deadline, id>> : id \in DOMAIN new}

\* The expirations due at an instant, and the ack ids they name.
Due(time) == {e \in expirations : e[1] <= time}
ExpiredIds(time) == {e[2] : e \in Due(time)}

\* Variant: the messages stay in the map.
TakeExpiredKeeping(time) ==
  /\ Due(time) # {}
  /\ expirations' = expirations \ Due(time)
  /\ UNCHANGED messages

\* take_expired, called by poll_next_expired, which returns only when it has
\* something to return.
TakeExpired(time) ==
  /\ Due(time) # {}
  /\ expirations' = expirations \ Due(time)
  /\ messages' = [id \in DOMAIN messages \ ExpiredIds(time) |-> messages[id]]

\* Variant: the expirations stay in the set.
RemoveIdsOnly(ids) ==
  /\ messages' = [id \in DOMAIN messages \ ids |-> messages[id]]
  /\ UNCHANGED expirations

\* remove: unknown and repeated ids have no effect.
RemoveIds(ids) ==
  LET removed == ids \cap DOMAIN messages
  IN  /\ messages' = [id \in DOMAIN messages \ removed |-> messages[id]]
      /\ expirations' = expirations \ {ExpirationKey(id) : id \in removed}

\* What a batch of modifications <<[ack_id, new_deadline], ...>> does: an id
\* with a nack anywhere in the batch leaves the tracker, any other tracked id
\* mentioned gets the last deadline given for it, unknown ids are skipped.
Positions(mods, id) == {i \in DOMAIN mods : mods[i].ack_id = id}
Mentioned(mods) == {id \in DOMAIN messages : Positions(mods, id) # {}}
Nacks(mods) ==
  {id \in Mentioned(mods) :
     \E i \in Positions(mods, id) : mods[i].new_deadline = Nack}
\* Variant: the first deadline wins.
FirstPosition(mods, id) ==
  CHOOSE i \in Positions(mods, id) : \A j \in Positions(mods, id) : i <= j
LastPosition(mods, id) ==
  CHOOSE i \in Positions(mods, id) : \A j \in Positions(mods, id) : j <= i
Extended(mods, id) ==
  [messages[id] EXCEPT !.deadline = mods[LastPosition(mods, id)].new_deadline]

ModifiedMessages(mods) ==
  [id \in DOMAIN messages \ Nacks(mods) |->
     IF id \in Mentioned(mods) THEN Extended(mods, id) ELSE messages[id]]
ModifiedExpirations(mods) ==
  (expirations \ {ExpirationKey(id) : id \in Mentioned(mods)})
    \cup {<<Extended(mods, id).deadline, id>> :
            id \in Mentioned(mods) \ Nacks(mods)}

\* Whether a list of the nacked ids is in the order in which modify returns their
\* messages, that of their first nack: a second nack of an id finds it gone.
FirstNack(mods, id) ==
  CHOOSE i \in Positions(mods, id) :
    /\ mods[i].new_deadline = Nack
    /\ \A j \in Positions(mods, id) : mods[j].new_deadline = Nack => i <= j
InNackOrder(mods, ids) ==
  \A i, j \in DOMAIN ids :
    i < j => FirstNack(mods, ids[i]) < FirstNack(mods, ids[j])

ModifyDeadlines(mods) ==
  /\ messages' = ModifiedMessages(mods)
  /\ expirations' = ModifiedExpirations(mods)

\* clear and drain: both structures become empty.
Clear ==
  /\ messages' = [id \in {} |-> 0]
  /\ expirations' = {}

-----------------------------------------------------------------------------
\* A batch of modifications as the API hands it over.
Modification == [ack_id : AckId, new_deadline : Deadline \cup {Nack}]
Modifications == UNION {[1..n -> Modification] : n \in 1..MaxMods}

\* The tracker under any caller that adds messages under ack ids not in use,
\* which is what the counter next_ack_id of the actor is for.
Next ==
  \/ \E ids \in (SUBSET (AckId \ DOMAIN messages)) \ {{}} :
       \E new \in [ids -> PulledMessage] : Add(new)
  \/ \E time \in Instant : TakeExpired(time)
  \/ \E ids \in SUBSET AckId : RemoveIds(ids)
  \/ \E mods \in Modifications : ModifyDeadlines(mods)
  \/ Clear

Spec == Init /\ [][Next]_trackerVars

-----------------------------------------------------------------------------
\* The state has its type: deadlines are multiples of the precision.
TypeOK ==
  /\ DOMAIN messages \subseteq AckId
  /\ messages \in [DOMAIN messages -> PulledMessage]
  /\ expirations \subseteq (Deadline \X AckId)

\* The map and the set describe the same deliveries: every tracked message
\* has exactly its own expiration, and every expiration has its message.
\* This is the fact the unwrap_unchecked of take_expired rests on ("we track
\* both side by side").
SideBySide ==
  expirations = {ExpirationKey(id) : id \in DOMAIN messages}

=============================================================================

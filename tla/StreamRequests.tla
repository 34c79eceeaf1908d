---------------------------- MODULE StreamRequests ----------------------------
(***************************************************************************)
(* The requests a client sends on an open streaming pull: it acknowledges  *)
(* deliveries and modifies their deadlines, and with exactly-once delivery *)
(* every request is answered by a confirmation that says which ack ids     *)
(* were processed and which were rejected.                                 *)
(*                                                                         *)
(* A request takes two turns of the actor, one for the acknowledgements    *)
(* and one for the modifications; other streams, expiries, seeks and the   *)
(* deletion of the subscription come between.                              *)
(*                                                                         *)
(* A raw ack id is a pair: the number it denotes and how it is written.    *)
(***************************************************************************)
EXTENDS SubscriptionActor

CONSTANTS
  Streams,       \* the open streams
  Requests,      \* the requests clients send
  Flags, FlagUpdates, \* the exactly-once flag at creation and in updates
  MaxExtension   \* 600 seconds: the longest extension

ASSUME StreamAssumption ==
  /\ MaxExtension \in Nat \ {0} /\ Consumer = {}
  /\ Flags \subseteq BOOLEAN /\ FlagUpdates \subseteq BOOLEAN

VARIABLES
  enable_exactly_once_delivery, \* info.enable_exactly_once_delivery
  stream,        \* each stream, with the request it is handling
  confirmations  \* history: how often the ack of each id was confirmed

streamVars == <<enable_exactly_once_delivery, stream, confirmations>>
allVars == <<vars, streamVars>>

Empty == [ack_ids |-> {}, mods |-> << >>, well_formed |-> TRUE]
NoOutcome == [valid |-> {}, invalid |-> {}]
Closed == [stage |-> "closed", exactly_once |-> FALSE, request |-> Empty,
           mods |-> << >>, acked |-> NoOutcome, modified |-> NoOutcome]

StreamInit ==
  /\ Init
  /\ enable_exactly_once_delivery \in Flags
  /\ stream = [s \in Streams |-> Closed]
  /\ confirmations = [id \in AckIds |-> 0]

Set(s, new) == stream' = [stream EXCEPT ![s] = new]

-----------------------------------------------------------------------------
(* Parsing *)

Malformed == "malformed"
\* parse_ack_id: leading zeros do not matter.
Parses(raw) == raw[2] # Malformed
AckIdOf(raw) == raw[1]

\* parse_deadline_extension_duration, of a number that is not negative.
NewDeadline(seconds) ==
  IF seconds = 0 THEN Nack ELSE AckDeadline(now + Min({seconds, MaxExtension}))

\* parse_deadline_modifications fails as a whole.
ParsesAll(mods) == \A i \in DOMAIN mods : Parses(mods[i].raw) /\ mods[i].seconds >= 0
Parsed(mods) ==
  IF ParsesAll(mods)
  THEN [i \in DOMAIN mods |-> [ack_id |-> AckIdOf(mods[i].raw),
                               new_deadline |-> NewDeadline(mods[i].seconds)]]
  ELSE << >>

-----------------------------------------------------------------------------
(* Handling *)

\* The start of streaming_pull: the flag is read once.
Open(s) ==
  /\ stream[s].stage = "closed"
  /\ running /\ ~detached
  /\ Set(s, [Closed EXCEPT !.stage = "open",
                           !.exactly_once = enable_exactly_once_delivery])
  /\ UNCHANGED <<vars, enable_exactly_once_delivery, confirmations>>

\* A further request, with fields that belong to the first one or lists of
\* different lengths, ends the stream.
Receive(s, request) ==
  /\ stream[s].stage = "open"
  /\ Set(s, IF request.well_formed
            THEN [stream[s] EXCEPT !.stage = "acking", !.request = request]
            ELSE Closed)
  /\ UNCHANGED <<vars, enable_exactly_once_delivery, confirmations>>

\* What the confirmation says of the acknowledged ids: those that do not parse
\* join the ones acknowledge_messages finds invalid.
\* Variant: an id is rejected only if it does not parse.
AckOutcomeTrusting(raws) ==
  [valid |-> {r \in raws : Parses(r)}, invalid |-> {r \in raws : ~Parses(r)}]
AckOutcome(raws) ==
  LET known == {r \in raws : Parses(r) /\ AckIdOf(r) \in DOMAIN outstanding}
  IN  [valid |-> IF deleted THEN {} ELSE known,
       invalid |-> IF deleted THEN {r \in raws : ~Parses(r)} ELSE raws \ known]

\* The actor handles the acknowledgements; a deleted one reports nothing, a
\* stopped one fails the stream.
Acknowledge(s) ==
  LET raws == stream[s].request.ack_ids
      ids == {AckIdOf(r) : r \in {q \in raws : Parses(q)}}
  IN  /\ stream[s].stage = "acking"
      /\ IF raws = {} \/ deleted \/ ~running THEN UNCHANGED vars
         ELSE AcknowledgeMessages(ids)
      /\ Set(s, IF raws # {} /\ ~running THEN Closed
                ELSE [stream[s] EXCEPT !.stage = "acked",
                                       !.acked = AckOutcome(raws)])
      /\ UNCHANGED <<enable_exactly_once_delivery, confirmations>>

\* The modifications are parsed, with the instant of parsing.
Parse(s) ==
  /\ stream[s].stage = "acked"
  /\ Set(s, [stream[s] EXCEPT !.stage = "modifying",
                              !.mods = Parsed(stream[s].request.mods)])
  /\ UNCHANGED <<vars, enable_exactly_once_delivery, confirmations>>

\* What the confirmation says of the modified ids: all of them are rejected
\* when the list did not parse.
\* Variant: the ids that were rejected are left out.
ModifyOutcomeSilent(mods, raws) ==
  [valid |-> IF mods = << >> \/ deleted THEN {}
             ELSE {r \in raws : Parses(r) /\ AckIdOf(r) \in DOMAIN outstanding},
   invalid |-> {r \in raws : ~Parses(r)}]
ModifyOutcome(mods, raws) ==
  LET valid == IF mods = << >> \/ deleted THEN {}
               ELSE {r \in raws : Parses(r) /\ AckIdOf(r) \in DOMAIN outstanding}
  IN  [valid |-> valid, invalid |-> raws \ valid]

\* The actor handles the modifications; an empty list changes nothing.
Modify(s) ==
  LET raws == {stream[s].request.mods[i].raw : i \in DOMAIN stream[s].request.mods}
      mods == stream[s].mods
  IN  /\ stream[s].stage = "modifying"
      /\ \/ /\ mods = << >> \/ deleted \/ ~running
            /\ UNCHANGED vars
         \/ /\ mods # << >>
            /\ \E found \in DeadLetterTopicFound : ModifyDeadline(mods, found)
      /\ Set(s, IF raws # {} /\ ~running THEN Closed
                ELSE [stream[s] EXCEPT !.stage = "responding",
                                       !.modified = ModifyOutcome(mods, raws)])
      /\ UNCHANGED <<enable_exactly_once_delivery, confirmations>>

\* Whether the response carries the confirmations.
Confirms(s) == stream[s].exactly_once

Respond(s) ==
  /\ stream[s].stage = "responding"
  /\ confirmations' = [id \in AckIds |->
       IF Confirms(s) /\ \E r \in stream[s].acked.valid : AckIdOf(r) = id
       THEN confirmations[id] + 1 ELSE confirmations[id]]
  /\ Set(s, [Closed EXCEPT !.stage = "open", !.exactly_once = stream[s].exactly_once])
  /\ UNCHANGED <<vars, enable_exactly_once_delivery>>

\* update_subscription changes the flag.
UpdateExactlyOnce(flag) ==
  /\ running
  /\ enable_exactly_once_delivery' = flag
  /\ UNCHANGED <<vars, stream, confirmations>>

-----------------------------------------------------------------------------
\* The unary calls: one id that does not parse refuses the whole call, and all
\* deadlines are given by one number of seconds.
AcknowledgeCall(raws) ==
  /\ raws # {} /\ \A r \in raws : Parses(r)
  /\ AcknowledgeMessages({AckIdOf(r) : r \in raws})
ModifyAckDeadlineCall(mods) ==
  LET uniform == [i \in DOMAIN mods |-> [mods[i] EXCEPT !.seconds = mods[1].seconds]]
  IN  /\ mods # << >> /\ ParsesAll(uniform)
      /\ \E found \in DeadLetterTopicFound : ModifyDeadline(Parsed(uniform), found)

\* What others do to the subscription.
Elsewhere ==
  \/ \E request \in Requests : AcknowledgeCall(request.ack_ids)
  \/ \E request \in Requests : ModifyAckDeadlineCall(request.mods)
  \/ \E n \in 1..MaxPost : PostMessages(n, now)
  \/ \E max_count \in PullCounts : PullMessages(max_count, 0)
  \/ ExpireAny
  \/ \E time \in 0..now : Seek(time)
  \/ Detach
  \/ Delete
  \/ ActorStop
  \/ Tick

StreamNext ==
  \/ \E s \in Streams :
       \/ Open(s) \/ Acknowledge(s) \/ Parse(s) \/ Modify(s) \/ Respond(s)
       \/ \E request \in Requests : Receive(s, request)
  \/ \E flag \in FlagUpdates : UpdateExactlyOnce(flag)
  \/ Elsewhere /\ UNCHANGED streamVars

StreamSpec == StreamInit /\ [][StreamNext]_allVars

-----------------------------------------------------------------------------
Answering(s) == stream[s].stage = "responding" /\ Confirms(s)
AckedIds(s) == stream[s].request.ack_ids
ModifiedIds(s) == {m.raw : m \in Range(stream[s].request.mods)}

Splits(outcome, raws) ==
  /\ outcome.valid \cup outcome.invalid = raws
  /\ outcome.valid \cap outcome.invalid = {}

\* A confirmed acknowledgement is final, and only one request gets it: however
\* many streams acknowledge the same delivery, at most one is told that it
\* succeeded, and behind every confirmed id there is a message of its own that
\* is settled as acked and will not be delivered again.
ConfirmedExactlyOnce ==
  /\ \A id \in AckIds : confirmations[id] <= 1
  /\ Cardinality({id \in AckIds : confirmations[id] > 0})
       <= Cardinality({m \in Message : fate[m] = "acked"})

\* On a subscription that is not deleted, the confirmations split the ids of the
\* request into those that were processed and those that were rejected, and no
\* delivery is confirmed both as acknowledged and as modified.
ConfirmationsComplete ==
  \A s \in Streams : Answering(s) =>
    /\ deleted \/ Splits(stream[s].acked, AckedIds(s))
    /\ Splits(stream[s].modified, ModifiedIds(s))
    /\ {AckIdOf(r) : r \in stream[s].acked.valid}
         \cap {AckIdOf(r) : r \in stream[s].modified.valid} = {}

=============================================================================

------------------------------- MODULE PushLoop -------------------------------
(***************************************************************************)
(* The push loop over one push subscription: at every tick it spawns a     *)
(* round that pulls a page of messages and posts each to the endpoint, at  *)
(* most max_concurrency at a time, and then acknowledges the ones that     *)
(* were taken and nacks the others.  Rounds overlap when the endpoint is   *)
(* slow; a round ends with the subscription.                               *)
(***************************************************************************)
EXTENDS SubscriptionActor

CONSTANTS
  Rounds,          \* bound: the rounds the loop spawns, 1..n
  max_concurrency

ASSUME PushAssumption ==
  max_concurrency \in Nat \ {0} /\ Rounds \subseteq Nat /\ Consumer = {}

VARIABLES
  round,      \* each round: "none", "pulling", "dispatching" or "over"
  page,       \* its deliveries, an ack id and a message, not dispatched yet
  sending,    \* its dispatches waiting for the endpoint's answer
  answered,   \* its dispatches with an answer to be acked or nacked
  accepted    \* history: the deliveries the endpoint has accepted

pushVars == <<round, page, sending, answered, accepted>>
allVars == <<vars, pushVars>>

PushInit ==
  /\ Init
  /\ round = [r \in Rounds |-> "none"]
  /\ page = [r \in Rounds |-> << >>]
  /\ sending = [r \in Rounds |-> {}]
  /\ answered = [r \in Rounds |-> {}]
  /\ accepted = {}

-----------------------------------------------------------------------------
\* run: a tick finds the subscription in the registry and in the manager, which
\* forgets it when it is deleted.
\* Variant: it waits for the rounds before.
TockInTurn(r) ==
  /\ round[r] = "none"
  /\ \A q \in Rounds : q < r => round[q] = "over"
  /\ ~deleted_signal
  /\ round' = [round EXCEPT ![r] = "pulling"]
  /\ UNCHANGED <<vars, page, sending, answered, accepted>>
Tock(r) ==
  /\ round[r] = "none"
  /\ \A q \in Rounds : q < r => round[q] # "none"
  /\ ~deleted_signal
  /\ round' = [round EXCEPT ![r] = "pulling"]
  /\ UNCHANGED <<vars, page, sending, answered, accepted>>

\* The size of a page.
BatchSize == Min({max_concurrency * 2, 1000})

\* pull_messages.  A stopped or detached subscription ends the round; an empty
\* page, such as a deleted one returns, ends it after the loop.
Pull(r) ==
  /\ round[r] = "pulling"
  /\ \/ /\ PullMessages(BatchSize, 0)
        /\ page' = [page EXCEPT ![r] =
                      [i \in 1..(next_ack_id' - next_ack_id) |->
                         LET id == next_ack_id + i - 1
                         IN  <<id, outstanding'[id].message>>]]
        /\ round' = [round EXCEPT ![r] = "dispatching"]
     \/ /\ ~running \/ deleted \/ detached
        /\ round' = [round EXCEPT ![r] = "over"]
        /\ UNCHANGED <<vars, page>>
  /\ UNCHANGED <<sending, answered, accepted>>

\* A dispatch holds its permit until the message is acked or nacked.
Permits(r) == max_concurrency - Cardinality(sending[r] \cup answered[r])

\* The next message of the page is posted to the endpoint, when there is a
\* permit.  The pause after it (five milliseconds or the end of the dispatch)
\* bounds nothing.
Dispatch(r) ==
  /\ round[r] = "dispatching"
  /\ page[r] # << >> /\ Permits(r) > 0
  /\ sending' = [sending EXCEPT ![r] = @ \cup {Head(page[r])}]
  /\ page' = [page EXCEPT ![r] = Tail(@)]
  /\ UNCHANGED <<vars, round, answered, accepted>>

\* The endpoint answers, or the request fails.
Answer(r, success) ==
  /\ \E d \in sending[r] :
       /\ sending' = [sending EXCEPT ![r] = @ \ {d}]
       /\ answered' = [answered EXCEPT ![r] = @ \cup {d}]
       /\ accepted' = IF success THEN accepted \cup {d} ELSE accepted
  /\ UNCHANGED <<vars, round, page>>

\* What the answer makes of the message.
\* Variant: a refused message is acknowledged as well.
AckAlways(d) == TRUE
Success(d) == d \in accepted

\* The actor handles the ack or the nack, of an ack id that may have expired
\* meanwhile; a deleted or stopped subscription ignores it.
NackOne(id) ==
  \E found \in DeadLetterTopicFound :
    ModifyDeadline(<<[ack_id |-> id, new_deadline |-> Nack]>>, found)
SettleDispatch(r) ==
  /\ \E d \in answered[r] :
       /\ \/ Success(d) /\ AcknowledgeMessages({d[1]})
          \/ ~Success(d) /\ NackOne(d[1])
          \/ (deleted \/ ~running) /\ UNCHANGED vars
       /\ answered' = [answered EXCEPT ![r] = @ \ {d}]
  /\ UNCHANGED <<round, page, sending, accepted>>

\* The join set is empty.
\* Variant: the set is dropped with what is in it.
EndWithoutJoin(r) ==
  /\ round[r] = "dispatching" /\ page[r] = << >>
  /\ round' = [round EXCEPT ![r] = "over"]
  /\ sending' = [sending EXCEPT ![r] = {}]
  /\ answered' = [answered EXCEPT ![r] = {}]
  /\ UNCHANGED <<vars, page, accepted>>
EndRound(r) ==
  /\ round[r] = "dispatching"
  /\ page[r] = << >> /\ sending[r] = {} /\ answered[r] = {}
  /\ round' = [round EXCEPT ![r] = "over"]
  /\ UNCHANGED <<vars, page, sending, answered, accepted>>

\* The deletion drops the round with all its dispatches.
\* Variant: only a round that is still dispatching its page looks.
DropFirst(r) ==
  /\ round[r] = "dispatching" /\ page[r] # << >> /\ deleted_signal
  /\ round' = [round EXCEPT ![r] = "over"]
  /\ page' = [page EXCEPT ![r] = << >>]
  /\ sending' = [sending EXCEPT ![r] = {}]
  /\ answered' = [answered EXCEPT ![r] = {}]
  /\ UNCHANGED <<vars, accepted>>
DropRound(r) ==
  /\ round[r] \in {"pulling", "dispatching"} /\ deleted_signal
  /\ round' = [round EXCEPT ![r] = "over"]
  /\ page' = [page EXCEPT ![r] = << >>]
  /\ sending' = [sending EXCEPT ![r] = {}]
  /\ answered' = [answered EXCEPT ![r] = {}]
  /\ UNCHANGED <<vars, accepted>>

-----------------------------------------------------------------------------
\* What others do to the subscription.
Elsewhere ==
  \/ \E n \in 1..MaxPost : PostMessages(n, now)
  \/ ExpireAny
  \/ HandleRetryReady
  \/ Detach
  \/ Delete
  \/ ActorStop
  \/ Tick

RoundStep(r) ==
  \/ Tock(r) \/ Pull(r) \/ Dispatch(r) \/ EndRound(r) \/ DropRound(r)
  \/ \E success \in BOOLEAN : Answer(r, success)
  \/ SettleDispatch(r)

PushNext ==
  \/ \E r \in Rounds : RoundStep(r)
  \/ Elsewhere /\ UNCHANGED pushVars

PushSpec == PushInit /\ [][PushNext]_allVars

\* Scheduling: the loop keeps ticking, and the runtime keeps running a round
\* that has to pull or to be dropped.  Nothing is assumed of the endpoint, nor
\* of the dispatches.
FairPush ==
  /\ PushSpec
  /\ \A r \in Rounds : WF_allVars(Tock(r) \/ Pull(r)) /\ WF_allVars(DropRound(r))

-----------------------------------------------------------------------------
InRound(r) == Range(page[r]) \cup sending[r] \cup answered[r]

\* A message is acknowledged only if the endpoint has accepted it: a refusal, a
\* dropped round or a detached subscription never settles one as acked.
AckedMeansAccepted ==
  \A m \in Message : fate[m] = "acked" => \E d \in accepted : d[2] = m

\* Every delivery that a round pulled is in the hands of exactly one round, until
\* it is settled, expires or the subscription is gone: overlapping rounds never
\* share one and never drop one.
EachInOneRound ==
  /\ \A q, r \in Rounds : q # r => InRound(q) \cap InRound(r) = {}
  /\ \A id \in DOMAIN outstanding :
       \E r \in Rounds : <<id, outstanding[id].message>> \in InRound(r)

\* Every round ends with the subscription, whatever the endpoint does.
RoundsEndOnDeletion ==
  deleted_signal ~> \A r \in Rounds : round[r] \in {"none", "over"}

\* A message that can be pushed leaves the backlog, as long as the loop ticks
\* again, even while earlier rounds hang in the endpoint.
BacklogPushed ==
  \A m \in Message :
    InBacklog(m) # {} /\ round[Max(Rounds)] = "none"
      ~> InBacklog(m) = {} \/ deleted \/ detached

=============================================================================

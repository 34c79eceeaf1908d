------------------------------- MODULE Consumers -------------------------------
(***************************************************************************)
(* The calls that take messages from a subscription: unary pulls and the   *)
(* pulling half of streaming pulls, over the subscription actor and its    *)
(* signals.  Both loop: create the futures of the signals, send a pull to  *)
(* the actor, look at its answer, and with nothing to return wait for a    *)
(* signal.  A call may be dropped at any point where it waits (the client  *)
(* is gone, or a unary pull has waited for five minutes); a request it has *)
(* sent is then handled all the same and its answer is lost.               *)
(*                                                                         *)
(* Creating the futures and sending the request is one step: the request   *)
(* has no effect before the actor handles it.                              *)
(***************************************************************************)
EXTENDS SubscriptionActor

CONSTANTS
  Streams,       \* the consumers that are streaming pulls
  Immediate,     \* the unary pulls that do not wait for messages
  Steady,        \* the consumers that are never dropped
  MaxMessagesOf, \* the max_messages of each unary pull, as a u16
  CapOf,         \* the max_outstanding of each stream, as a u16
  SeekTimes      \* the times other clients seek to

ASSUME ConsumerAssumption ==
  /\ Streams \subseteq Consumer /\ Steady \subseteq Consumer
  /\ Immediate \subseteq Consumer \ Streams
  /\ MaxMessagesOf \in [Consumer \ Streams -> 0..(U16-1)]
  /\ CapOf \in [Streams -> 0..(U16-1)]

VARIABLES
  stage,   \* where each call is in its loop
  reply,   \* the actor's answer to its last request
  outcome  \* how the call ended

consumerVars == <<stage, reply, outcome>>
allVars == <<vars, consumerVars>>

\* The state of the actor alone.
actorVars == <<now, clientVars, configVars, queueVars, delivery_attempts,
               next_ack_id, trackerVars, retryVars, counters, lifeVars, fate,
               withdrawn>>

-----------------------------------------------------------------------------
\* The arguments of a consumer's pull_messages_capped.
MaxCount(c) ==
  IF c \notin Streams THEN MaxMessagesOf[c]
  ELSE IF CapOf[c] = 0 THEN U16 - 1 ELSE CapOf[c]
MaxOutstanding(c) == IF c \in Streams THEN CapOf[c] ELSE 0

\* Dropping a messages_available future: a notification it was given by
\* notify_one and has not seen goes to the next waiter, or is stored.
\* Variant: the notification is lost.
DropSignalSilently(c) ==
  /\ told' = told \ {c}
  /\ waiting' = Retain(waiting, Consumer \ {c})
  /\ UNCHANGED permit
DropSignal(c) ==
  IF c \notin told
  THEN waiting' = Retain(waiting, Consumer \ {c}) /\ UNCHANGED <<permit, told>>
  ELSE IF waiting = << >>
  THEN permit' = TRUE /\ told' = told \ {c} /\ UNCHANGED waiting
  ELSE /\ told' = (told \ {c}) \cup {Head(waiting)}
       /\ waiting' = Tail(waiting)
       /\ UNCHANGED permit

DropFutures(c) ==
  /\ DropSignal(c)
  /\ created' = created \ {c} /\ called' = called \ {c}
  /\ listening' = listening \ {c} /\ freed' = freed \ {c}
  /\ UNCHANGED deleted_signal

\* New futures of the signals, in place of the last round's.
Resubscribe(c) ==
  /\ created' = created \cup {c} /\ called' = called \ {c}
  /\ listening' = IF c \in Streams THEN listening \cup {c} ELSE listening
  /\ freed' = freed \ {c}
  /\ UNCHANGED deleted_signal

Send(c) ==
  /\ stage' = [stage EXCEPT ![c] = "asked"]
  /\ reply' = [reply EXCEPT ![c] = "none"]
  /\ outcome' = [outcome EXCEPT ![c] = "none"]
  /\ UNCHANGED actorVars

Finish(c, how) ==
  /\ DropFutures(c)
  /\ stage' = [stage EXCEPT ![c] = "over"]
  /\ reply' = [reply EXCEPT ![c] = "none"]
  /\ outcome' = [outcome EXCEPT ![c] = how]
  /\ UNCHANGED actorVars

ConsumersInit ==
  /\ Init
  /\ stage = [c \in Consumer |-> "over"]
  /\ reply = [c \in Consumer |-> "none"]
  /\ outcome = [c \in Consumer |-> "none"]

-----------------------------------------------------------------------------
\* A unary pull begins, or a client pulls again.
StartPull(c) ==
  /\ c \in Consumer \ Streams
  /\ stage[c] = "over"
  /\ Resubscribe(c)
  /\ UNCHANGED <<permit, waiting, told>>
  /\ Send(c)

\* streaming_pull up to its loop: it asks the actor for the configuration and
\* refuses a detached subscription.
OpenStream(c) ==
  /\ c \in Streams
  /\ stage[c] = "over" /\ outcome[c] = "none"
  /\ IF running /\ ~detached
     THEN stage' = [stage EXCEPT ![c] = "open"] /\ UNCHANGED outcome
     ELSE /\ outcome' = [outcome EXCEPT ![c] =
                           IF running THEN "failed_precondition" ELSE "closed"]
          /\ UNCHANGED stage
  /\ UNCHANGED <<vars, reply>>

\* The first round of a stream's loop.
StartStream(c) ==
  /\ stage[c] = "open"
  /\ Resubscribe(c)
  /\ UNCHANGED <<permit, waiting, told>>
  /\ Send(c)

\* The actor handles the request of a call, dropped or not, or the request is
\* dropped with the actor's mailbox.
Handle(c) ==
  LET answer(r) ==
        reply' = [reply EXCEPT ![c] = IF stage[c] = "asked" THEN r ELSE "none"]
  IN  /\ stage[c] \in {"asked", "orphan"}
      /\ \/ /\ PullMessages(MaxCount(c), MaxOutstanding(c))
            /\ answer(IF DOMAIN outstanding' = DOMAIN outstanding
                      THEN "empty" ELSE "some")
         \/ /\ running
            /\ \/ deleted
               \/ ~detached /\ Capacity(MaxCount(c), MaxOutstanding(c)) = 0
            /\ answer("empty")
            /\ UNCHANGED vars
         \/ /\ running /\ ~deleted /\ detached
            /\ answer("detached")
            /\ UNCHANGED vars
         \/ /\ ~running
            /\ answer("closed")
            /\ UNCHANGED vars
      /\ stage' = [stage EXCEPT ![c] =
                     IF stage[c] = "asked" THEN "answered" ELSE "over"]
      /\ UNCHANGED outcome

\* A call that is done with the answer it got.
Return(c) ==
  /\ stage[c] = "answered"
  /\ \/ reply[c] = "some" /\ c \notin Streams /\ Finish(c, "messages")
     \/ reply[c] = "empty" /\ c \in Immediate /\ Finish(c, "nothing")
     \/ /\ reply[c] = "detached"
        /\ Finish(c, IF c \in Streams THEN "ended" ELSE "failed_precondition")
     \/ /\ reply[c] = "closed"
        /\ Finish(c, IF c \in Streams THEN "ended" ELSE "closed")

\* A call that goes on to wait for a signal.
Awaits(c) ==
  \/ stage[c] = "waiting"
  \/ /\ stage[c] = "answered"
     /\ \/ c \in Streams /\ reply[c] \in {"some", "empty"}
        \/ c \notin Streams \cup Immediate /\ reply[c] = "empty"

\* Its futures are polled and none is ready.
Park(c) ==
  /\ Awaits(c) /\ stage[c] = "answered"
  /\ c \in created /\ ~permit
  /\ c \in Streams => c \notin freed /\ ~deleted_signal
  /\ created' = created \ {c}
  /\ waiting' = Append(waiting, c)
  /\ stage' = [stage EXCEPT ![c] = "waiting"]
  /\ UNCHANGED <<actorVars, permit, told, called, freedVars, deleted_signal,
                 reply, outcome>>

\* messages_available is ready: the next round.
WakeBySignal(c) ==
  /\ Awaits(c)
  /\ \/ /\ c \in created /\ permit
        /\ permit' = FALSE /\ UNCHANGED told
     \/ /\ c \in told \cup called
        /\ told' = told \ {c} /\ UNCHANGED permit
  /\ UNCHANGED waiting
  /\ Resubscribe(c)
  /\ Send(c)

\* outstanding_freed is ready: the next round.
WakeByFreed(c) ==
  /\ Awaits(c)
  /\ c \in freed
  /\ DropSignal(c)
  /\ Resubscribe(c)
  /\ Send(c)

WakeByDeleted(c) ==
  /\ Awaits(c)
  /\ c \in Streams /\ deleted_signal
  /\ Finish(c, "not_found")

\* The call is dropped.
Abandon(c) ==
  /\ c \notin Steady
  /\ stage[c] \in {"open", "asked", "answered", "waiting"}
  /\ DropFutures(c)
  /\ stage' = [stage EXCEPT ![c] =
                 IF stage[c] = "asked" THEN "orphan" ELSE "over"]
  /\ reply' = [reply EXCEPT ![c] = "none"]
  /\ outcome' = [outcome EXCEPT ![c] = "cancelled"]
  /\ UNCHANGED actorVars

-----------------------------------------------------------------------------
\* What the other clients and the actor itself do.
NackOne(id, found) ==
  ModifyDeadline(<<[ack_id |-> id, new_deadline |-> Nack]>>, found)
Elsewhere ==
  \/ \E n \in 1..MaxPost : PostMessages(n, now)
  \/ \E id \in DOMAIN outstanding : AcknowledgeMessages({id})
  \/ /\ MaxMods > 0
     /\ \E id \in AckIds \cap DOMAIN outstanding, found \in DeadLetterTopicFound :
          NackOne(id, found)
  \/ ExpireAny
  \/ HandleRetryReady
  \/ \E new \in Infos : UpdateInfo(new)
  \/ Detach
  \/ Delete
  \/ DeleteClosed
  \/ ActorStop
  \/ \E time \in SeekTimes : Seek(time)
  \/ Tick

Step(c) ==
  \/ StartPull(c) \/ OpenStream(c) \/ StartStream(c)
  \/ Handle(c) \/ Return(c) \/ Park(c)
  \/ WakeBySignal(c) \/ WakeByFreed(c) \/ WakeByDeleted(c)
  \/ Abandon(c)

ConsumersNext ==
  \/ \E c \in Consumer : Step(c)
  \/ Elsewhere /\ UNCHANGED consumerVars

ConsumersSpec == ConsumersInit /\ [][ConsumersNext]_allVars

\* Scheduling: tokio polls a woken task sooner or later, and the actor handles
\* every request of its mailbox until it stops.  A stream is opened; clients
\* need not pull, ack or go away.
Runs(c) ==
  \/ OpenStream(c) \/ StartStream(c) \/ Handle(c) \/ Return(c) \/ Park(c)
  \/ WakeBySignal(c) \/ WakeByFreed(c) \/ WakeByDeleted(c)
FairConsumers ==
  /\ ConsumersSpec
  /\ \A c \in Consumer : WF_allVars(Runs(c))
  /\ WF_allVars(ActorStop /\ UNCHANGED consumerVars)

-----------------------------------------------------------------------------
\* Whether messages_available is on its way to a pull: a notification is stored
\* or given to a future, or a pull is in the actor's mailbox.
Attended ==
  permit \/ told # {} \/ \E c \in Consumer : stage[c] \in {"asked", "orphan"}

\* No lost wake-up: while the subscription can deliver and its backlog is not
\* empty, some call is about to pull or the next one to wait will not wait,
\* however posts, pulls, expiries, seeks and dropped calls interleave.  It
\* takes calls that always have room (the loops create the signal before they
\* pull, and a pull that leaves messages behind signals again).
BacklogAttended ==
  running /\ ~deleted /\ ~detached /\ backlog # << >> => Attended


\* A bound: the ack ids of the instance are used up.
Exhausted == next_ack_id + Len(backlog) > MaxAckId + 1

\* A message in the backlog is handed out or dropped, as long as a stream is
\* there to take it (streaming_pull's loop) and the subscription is neither
\* deleted nor detached.
BacklogServed ==
  \A m \in Message :
    InBacklog(m) # {}
      ~> InBacklog(m) = {} \/ deleted \/ detached \/ Exhausted

=============================================================================

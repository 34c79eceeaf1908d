-------------------------- MODULE MCSubscriptionActor --------------------------
(***************************************************************************)
(* Instances of the subscription actor for model checking.  Deadlines are  *)
(* rounded up to even instants, and a retention is never shorter than an   *)
(* ack deadline, as the API guarantees.  Durations and the limit of        *)
(* delivery attempts are scaled down: the parsers ask for ten seconds and  *)
(* five attempts at least, to the actor they are just numbers.             *)
(***************************************************************************)
EXTENDS SubscriptionPromise

\* The first two messages have the same ordering key, the others none.
TwoKeyed == [m \in Message |-> IF m <= 2 THEN 1 ELSE NoKey]

Backoff == [minimum_backoff |-> 1, maximum_backoff |-> 2]

\* Every configuration made of some retentions, limits and retry policies:
\* updates merge any two of them field by field.
Configurations(retentions, limits, retry_policies) ==
  [ack_deadline : {1}, message_retention_duration : retentions,
   max_delivery_attempts : limits, retry_policy : retry_policies]

OnlyPlain == Configurations({None}, {None}, {None})
OnlyDeadLetter == Configurations({None}, {2}, {None})
OnlyRetrying == Configurations({None}, {None}, {Backoff})
PlainOrDeadLetter == Configurations({None}, {None, 2}, {None})
AllPolicies == Configurations({None, 2}, {2}, {None, Backoff})

=============================================================================

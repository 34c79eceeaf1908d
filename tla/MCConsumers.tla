------------------------------ MODULE MCConsumers ------------------------------
(***************************************************************************)
(* An instance of the consumers for model checking: a stream and a unary   *)
(* pull, without caps, over one subscription without policies.             *)
(***************************************************************************)
EXTENDS Consumers

Plain == [ack_deadline |-> 1, message_retention_duration |-> None,
          max_delivery_attempts |-> None, retry_policy |-> None]
OnlyPlain == {Plain}

NoneKeyed == [m \in Message |-> NoKey]

OneEach == [c \in Consumer \ Streams |-> 1]
Uncapped == [c \in Streams |-> 0]

=============================================================================

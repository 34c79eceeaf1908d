------------------------------ MODULE MCPushLoop ------------------------------
(***************************************************************************)
(* Instances of the push loop for model checking.                          *)
(***************************************************************************)
EXTENDS PushLoop

Plain == [ack_deadline |-> 1, message_retention_duration |-> None,
          max_delivery_attempts |-> None, retry_policy |-> None]
OnlyPlain == {Plain}

NoneKeyed == [m \in Message |-> NoKey]

=============================================================================

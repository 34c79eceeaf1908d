--------------------------- MODULE MCStreamRequests ---------------------------
(***************************************************************************)
(* Instances of the stream requests for model checking: an id is written   *)
(* plainly or with a leading zero, or cannot be parsed.                    *)
(***************************************************************************)
EXTENDS StreamRequests, TLC

Plain == [ack_deadline |-> 1, message_retention_duration |-> None,
          max_delivery_attempts |-> None, retry_policy |-> None]
OnlyPlain == {Plain}
NoneKeyed == [m \in Message |-> NoKey]

One == <<1, "plain">>
OneAgain == <<1, "zeros">>
Two == <<2, "plain">>
Bad == <<0, Malformed>>

Ack(raws) == [Empty EXCEPT !.ack_ids = raws]
Mod(raw, seconds) == [raw |-> raw, seconds |-> seconds]

AcksAndModifications ==
  { Ack({One}), Ack({One, OneAgain, Two, Bad}),
    [Ack({One}) EXCEPT !.mods = <<Mod(One, 0), Mod(Two, 9)>>],
    [Empty EXCEPT !.mods = <<Mod(One, 0), Mod(Bad, 1)>>],
    [Empty EXCEPT !.well_formed = FALSE] }
EitherStream == Permutations(Streams)
=============================================================================

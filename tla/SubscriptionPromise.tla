-------------------------- MODULE SubscriptionPromise --------------------------
(***************************************************************************)
(* The subscription actor seen from outside: what becomes of each message, *)
(* with the queues, the trackers and the clock hidden, as a behaviour of   *)
(* AtLeastOnce.                                                            *)
(***************************************************************************)
EXTENDS SubscriptionActor

\* The status the delivery promise gives each message.
Status ==
  [m \in Message |-> IF fate[m] # "live" THEN fate[m]
                     ELSE IF InFlight(m) # {} THEN "out" ELSE "waiting"]
Promise ==
  INSTANCE AtLeastOnce
    WITH status <- Status,
         Precedes <- {p \in Message \X Message :
                        /\ Keyed(p[1]) /\ Keyed(p[2])
                        /\ KeyOf[p[1]] = KeyOf[p[2]] /\ p[1] < p[2]}

\* The actor keeps the promise of AtLeastOnce: with its queues, trackers and
\* clocks hidden, every request and every arm of its loop is one step of it, or
\* none.
PromiseKept == Promise!Spec

=============================================================================

------------------------------ MODULE AtLeastOnce ------------------------------
(***************************************************************************)
(* What a subscription promises for each of its messages, without saying   *)
(* how: a message is accepted or refused when it is posted, waits, is      *)
(* handed out, and comes back until it is acknowledged, forwarded or       *)
(* dropped, after which nothing happens to it any more.  A message that    *)
(* others precede is handed out only once those are settled.               *)
(***************************************************************************)
EXTENDS Naturals

CONSTANTS
  Message,  \* positions in post order
  Precedes  \* the pairs of messages that are delivered in order

VARIABLE status

Unsettled == {"unposted", "waiting", "out"}
Statuses == Unsettled \cup {"acked", "forwarded", "dropped"}

Init == status = [m \in Message |-> "unposted"]

\* Every message whose status changes goes from one of a set to one of another.
Moves(from, to) ==
  /\ status' \in [Message -> Statuses]
  /\ \A m \in Message :
       status'[m] # status[m] => status[m] \in from /\ status'[m] \in to

\* Messages are posted; what is accepted starts to wait.
Accept ==
  /\ Moves({"unposted"}, {"waiting", "dropped"})
  /\ \A m, n \in Message :
       m < n /\ status'[m] = "unposted" => status'[n] = "unposted"

\* Waiting messages are handed out, or dropped because they are too old.
HandOut ==
  /\ Moves({"waiting"}, {"out", "dropped"})
  /\ \A p \in Precedes : status'[p[2]] = "out" => status'[p[1]] \notin Unsettled

\* Only what has been handed out can be acknowledged.
Acknowledge == Moves({"out"}, {"acked"})

\* A delivery is taken back: the message waits again, or its attempts are
\* used up.
TakeBack == Moves({"out"}, {"waiting", "forwarded", "dropped"})

\* The subscription is rewound or cleared: nothing stays out, and what is not
\* dropped waits again.
Rewind ==
  /\ Moves({"waiting", "out"}, {"waiting", "dropped"})
  /\ \A m \in Message : status'[m] # "out"

Next == Accept \/ HandOut \/ Acknowledge \/ TakeBack \/ Rewind

Spec == Init /\ [][Next]_status

=============================================================================

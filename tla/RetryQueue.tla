------------------------------ MODULE RetryQueue ------------------------------
(***************************************************************************)
(* The queue of nacked or expired messages that wait for their backoff     *)
(* (subscriptions::RetryQueue): a schedule of <<deliver_at, sequence       *)
(* number>> pairs and a map from sequence number to message.  As in the    *)
(* tracker, the queue's own Notify is left out: the future it wakes is     *)
(* recreated on every turn of the actor's loop.                            *)
(***************************************************************************)
EXTENDS Integers, Sequences

CONSTANTS
  Message,   \* the messages that can be retried
  Instant,   \* the instants that occur
  MaxSeq,    \* bound: sequence numbers handed out
  MaxEntries \* bound: messages added by one requeue

VARIABLES
  schedule,  \* the set of <<deliver_at, sequence number>>
  retrying,  \* sequence number -> message
  next_seq   \* the next sequence number

retryVars == <<schedule, retrying, next_seq>>

Entry == [message : Message, deliver_at : Instant]

-----------------------------------------------------------------------------
Init ==
  /\ schedule = {}
  /\ retrying = [n \in {} |-> 0]
  /\ next_seq = 0

\* The add calls of one requeue: entry i gets the i-th next sequence number.
Add(entries) ==
  LET added == next_seq .. (next_seq + Len(entries) - 1)
      entry(n) == entries[n - next_seq + 1]
  IN  /\ next_seq' = next_seq + Len(entries)
      /\ schedule' = schedule \cup {<<entry(n).deliver_at, n>> : n \in added}
      /\ retrying' = [n \in DOMAIN retrying \cup added |->
                        IF n \in added THEN entry(n).message ELSE retrying[n]]

\* The schedule entries that are ready at an instant.
Ready(time) == {e \in schedule : e[1] <= time}

\* Variant: the messages stay in the map.
TakeReadyKeeping(time) ==
  /\ Ready(time) # {}
  /\ schedule' = schedule \ Ready(time)
  /\ UNCHANGED <<retrying, next_seq>>

\* take_ready, called by poll_next_ready, which returns only when it has
\* something to return: ready entries leave the schedule, and their messages
\* the map, in schedule order.
TakeReady(time) ==
  /\ Ready(time) # {}
  /\ schedule' = schedule \ Ready(time)
  /\ retrying' = [n \in DOMAIN retrying \ {e[2] : e \in Ready(time)} |->
                     retrying[n]]
  /\ UNCHANGED next_seq

\* clear and drain: the queue becomes empty, the sequence numbers go on.
Clear ==
  /\ schedule' = {}
  /\ retrying' = [n \in {} |-> 0]
  /\ UNCHANGED next_seq

Next ==
  \/ \E k \in 1..MaxEntries : \E entries \in [1..k -> Entry] :
       next_seq + k <= MaxSeq /\ Add(entries)
  \/ \E time \in Instant : TakeReady(time)
  \/ Clear

Spec == Init /\ [][Next]_retryVars

-----------------------------------------------------------------------------
\* The state has its type.
TypeOK ==
  /\ next_seq \in Nat
  /\ DOMAIN retrying \subseteq Nat
  /\ retrying \in [DOMAIN retrying -> Message]
  /\ schedule \subseteq (Instant \X Nat)

\* Every message waiting for its backoff is scheduled exactly once, and every
\* schedule entry has its message: none is stranded in the map and take_ready
\* never pops an entry whose message is gone.
ScheduledOnce ==
  /\ {e[2] : e \in schedule} = DOMAIN retrying
  /\ \A e, f \in schedule : e[2] = f[2] => e = f
  /\ \A n \in DOMAIN retrying : n < next_seq

=============================================================================

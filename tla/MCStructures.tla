----------------------------- MODULE MCStructures -----------------------------
(***************************************************************************)
(* The two data structures that can be checked under any caller, on small  *)
(* instances: the tracker, with its batch operation modify run as the loop *)
(* it is in the code, and flow control.  They have no state in common; a   *)
(* behaviour is about one of them, its subject.                            *)
(***************************************************************************)
EXTENDS OutstandingTracker, FlowControl, Queues, SequencesExt

\* A large message or a small one.
LargeAndSmall == {<<3, 1>>, <<1, 1>>}

VARIABLE subject

StructuresInit ==
  /\ subject \in {"tracker", "flow control"}
  /\ Init /\ FlowInit

StructuresNext ==
  \/ subject = "tracker" /\ Next /\ UNCHANGED <<subject, vars>>
  \/ subject = "flow control" /\ FlowNext /\ UNCHANGED <<subject, trackerVars>>

\* The fairness is that of FlowControl.
Structures ==
  /\ StructuresInit /\ [][StructuresNext]_<<subject, trackerVars, vars>>
  /\ FairFlow

-----------------------------------------------------------------------------
\* One turn of the loop in modify, on t = [messages, expirations, result]: the
\* current expiration goes, then either a new deadline is recorded in both
\* structures or the message leaves and joins the result.
ModifyTurn(t, mod) ==
  LET id == mod.ack_id
      cleared == t.expirations \ {<<t.messages[id].deadline, id>>}
  IN  IF id \notin DOMAIN t.messages THEN t
      ELSE IF mod.new_deadline = Nack
      THEN [messages |-> Restrict(t.messages, DOMAIN t.messages \ {id}),
            expirations |-> cleared,
            result |-> Append(t.result, id)]
      ELSE [messages |-> [t.messages EXCEPT ![id].deadline = mod.new_deadline],
            expirations |-> cleared \cup {<<mod.new_deadline, id>>},
            result |-> t.result]

\* The whole loop of modify.
ModifyLoop(mods) ==
  FoldLeft(ModifyTurn,
           [messages |-> messages, expirations |-> expirations, result |-> << >>],
           mods)

\* A batch of deadline modifications, however its entries repeat or contradict
\* one another, has the outcome ModifyDeadlines states: a nack wins over every
\* extension of the same id, otherwise the last extension wins, and the nacked
\* messages are returned once each, in the order InNackOrder states
\* (OutstandingMessageTracker::modify).
ModifyIsTheLoop ==
  subject = "tracker" =>
    \A mods \in Modifications :
      LET loop == ModifyLoop(mods)
      IN  /\ loop.messages = ModifiedMessages(mods)
          /\ loop.expirations = ModifiedExpirations(mods)
          /\ {ids \in Listings(Nacks(mods)) : InNackOrder(mods, ids)}
               = {loop.result}

=============================================================================

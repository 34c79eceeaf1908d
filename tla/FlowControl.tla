------------------------------ MODULE FlowControl ------------------------------
(***************************************************************************)
(* Flow control for streaming pulls: two atomic counters and a notifier,   *)
(* shared by tasks that wait for space and tasks that take and give it     *)
(* back.  Every load, every addition and every notification is a step of   *)
(* its own; no lock makes any two of them one.                             *)
(*                                                                         *)
(* A future of the notifier counts from its creation: notify_waiters       *)
(* completes every future that exists, whether it was polled or not.       *)
(* `listening` holds the tasks whose future is not complete.               *)
(***************************************************************************)
EXTENDS Integers

CONSTANTS
  Waiters,                  \* tasks that call wait_for_available_space
  Holders,                  \* tasks that call inc and, later, dec
  Deltas,                   \* the <<bytes, messages>> of one such pair of calls
  max_outstanding_bytes, max_outstanding_messages,
  U64                       \* 2^64: the counters wrap

ASSUME FlowAssumption ==
  /\ Deltas \subseteq Nat \X Nat
  /\ max_outstanding_bytes \in Nat /\ max_outstanding_messages \in Nat
  /\ U64 \in Nat \ {0}

VARIABLES
  outstanding_bytes, outstanding_messages,
  listening,  \* the waiters whose future is not complete
  waiter,     \* where each waiter is in wait_for_available_space
  holder,     \* where each holder is in inc or dec
  held        \* what each holder has to add or to give back

counterVars == <<outstanding_bytes, outstanding_messages>>
waiterVars == <<listening, waiter>>
vars == <<counterVars, waiterVars, holder, held>>

FlowInit ==
  /\ outstanding_bytes = 0 /\ outstanding_messages = 0
  /\ listening = {}
  /\ waiter = [w \in Waiters |-> "away"]
  /\ holder = [h \in Holders |-> "free"]
  /\ held = [h \in Holders |-> <<0, 0>>]

-----------------------------------------------------------------------------
(* inc and dec *)

Holder(h, from, to) == holder[h] = from /\ holder' = [holder EXCEPT ![h] = to]

IncBytes(h, delta) ==
  /\ Holder(h, "free", "inc_messages")
  /\ held' = [held EXCEPT ![h] = delta]
  /\ outstanding_bytes' = (outstanding_bytes + delta[1]) % U64
  /\ UNCHANGED <<outstanding_messages, waiterVars>>

IncMessages(h) ==
  /\ Holder(h, "inc_messages", "inc_notify")
  /\ outstanding_messages' = (outstanding_messages + held[h][2]) % U64
  /\ UNCHANGED <<outstanding_bytes, waiterVars, held>>

DecBytes(h) ==
  /\ Holder(h, "holding", "dec_messages")
  /\ outstanding_bytes' = (outstanding_bytes - held[h][1]) % U64
  /\ UNCHANGED <<outstanding_messages, waiterVars, held>>

DecMessages(h) ==
  /\ Holder(h, "dec_messages", "dec_notify")
  /\ outstanding_messages' = (outstanding_messages - held[h][2]) % U64
  /\ UNCHANGED <<outstanding_bytes, waiterVars, held>>

\* Variant: one waiter is woken.
NotifyOne(h) ==
  /\ Holder(h, "inc_notify", "holding") \/ Holder(h, "dec_notify", "free")
  /\ listening' = listening \ {CHOOSE w \in Waiters : listening # {} => w \in listening}
  /\ UNCHANGED <<counterVars, waiter, held>>
\* Variant: a release that leaves messages outstanding wakes nobody.
NotifyWhenEmpty(h) ==
  /\ Holder(h, "inc_notify", "holding") \/ Holder(h, "dec_notify", "free")
  /\ listening' = IF outstanding_messages = 0 THEN {} ELSE listening
  /\ UNCHANGED <<counterVars, waiter, held>>
NotifyWaiters(h) ==
  /\ Holder(h, "inc_notify", "holding") \/ Holder(h, "dec_notify", "free")
  /\ listening' = {}
  /\ UNCHANGED <<counterVars, waiter, held>>

-----------------------------------------------------------------------------
(* wait_for_available_space *)

Waiter(w, from, to) == waiter[w] = from /\ waiter' = [waiter EXCEPT ![w] = to]

Wait(w) ==
  /\ Waiter(w, "away", "first_messages")
  /\ UNCHANGED <<counterVars, listening, holder, held>>

\* has_available_space: two loads, the second only if the first found space.
\* One that finds none goes on to the future, or to wait for it.
LoadMessages(w, here, then, otherwise) ==
  /\ Waiter(w, here,
            IF outstanding_messages >= max_outstanding_messages THEN otherwise ELSE then)
  /\ UNCHANGED <<counterVars, listening, holder, held>>
LoadBytes(w, here, otherwise) ==
  /\ Waiter(w, here,
            IF outstanding_bytes >= max_outstanding_bytes THEN otherwise ELSE "done")
  /\ UNCHANGED <<counterVars, listening, holder, held>>

FirstMessages(w) == LoadMessages(w, "first_messages", "first_bytes", "register")
FirstBytes(w) == LoadBytes(w, "first_bytes", "register")
SecondMessages(w) == LoadMessages(w, "second_messages", "second_bytes", "await")
SecondBytes(w) == LoadBytes(w, "second_bytes", "await")

\* notifier.notified().
Register(w) ==
  /\ Waiter(w, "register", "second_messages")
  /\ listening' = listening \cup {w}
  /\ UNCHANGED <<counterVars, holder, held>>

\* notified.await, and once more round the loop.
Awake(w) ==
  /\ w \notin listening
  /\ Waiter(w, "await", "register")
  /\ UNCHANGED <<counterVars, listening, holder, held>>

\* The call returns and drops its future.
Return(w) ==
  /\ Waiter(w, "done", "away")
  /\ listening' = listening \ {w}
  /\ UNCHANGED <<counterVars, holder, held>>

-----------------------------------------------------------------------------
WaiterRuns(w) ==
  \/ FirstMessages(w) \/ FirstBytes(w) \/ Register(w)
  \/ SecondMessages(w) \/ SecondBytes(w) \/ Awake(w) \/ Return(w)
HolderRuns(h) == IncMessages(h) \/ DecMessages(h) \/ NotifyWaiters(h)

FlowNext ==
  \/ \E w \in Waiters : Wait(w) \/ WaiterRuns(w)
  \/ \E h \in Holders : HolderRuns(h) \/ DecBytes(h)
                          \/ \E delta \in Deltas : IncBytes(h, delta)

FlowSpec == FlowInit /\ [][FlowNext]_vars

\* A call that has begun runs on; nobody has to call, or to give back.
FairFlow ==
  /\ \A w \in Waiters : WF_vars(WaiterRuns(w))
  /\ \A h \in Holders : WF_vars(HolderRuns(h))

-----------------------------------------------------------------------------
HasSpace ==
  /\ outstanding_messages < max_outstanding_messages
  /\ outstanding_bytes < max_outstanding_bytes

\* Holders that have changed a counter and not notified yet.
Notifies(h) == holder[h] \in {"inc_messages", "inc_notify", "dec_messages", "dec_notify"}

\* No wakeup is lost: a task that sleeps in wait_for_available_space while there
\* is space has a notification on its way, from a holder that has changed the
\* counters and not notified yet; wherever the loads, the registration and the
\* changes fall between one another.
NoneSleepsOverSpace ==
  \A w \in Waiters :
    waiter[w] = "await" /\ w \in listening /\ HasSpace => \E h \in Holders : Notifies(h)

\* Once there is space for good, every call of wait_for_available_space returns.
WaitersReturn ==
  <>[]HasSpace => \A w \in Waiters : (waiter[w] # "away") ~> (waiter[w] = "away")

=============================================================================

---------------------------- MODULE ComponentProofs ----------------------------
(***************************************************************************)
(* Proofs about the parts that stand on their own.  The tracker of         *)
(* outstanding messages: its type, that its map and its set of expirations *)
(* always describe the same deliveries, and that rounding a deadline never *)
(* shortens it.  The retry queue: its type, and that its map and its       *)
(* schedule always hold the same messages, each scheduled once.  Flow      *)
(* control: no wakeup is lost, for any number of tasks, any limits and any *)
(* amounts.                                                                *)
(***************************************************************************)
EXTENDS OutstandingTracker, FlowControl, Sequences, WellFoundedInduction, TLAPS

\* The retry queue, over the tracker's messages and instants.
CONSTANTS MaxSeq, MaxEntries
VARIABLES schedule, retrying, next_seq
Retry == INSTANCE RetryQueue

-----------------------------------------------------------------------------
(* The tracker *)

\* A nonempty set of naturals has a least element.
LEMMA LeastExists ==
  ASSUME NEW T, T \subseteq Nat, T # {}
  PROVE  \E x \in T : \A y \in T : x <= y
<1>1. IsWellFoundedOn(OpToRel(<, Nat), Nat)
  BY NatLessThanWellFounded, Zenon
<1>2. PICK x \in T : \A y \in T : ~(<<y, x>> \in OpToRel(<, Nat))
  BY <1>1, WFMin, Zenon
<1>3. \A y \in T : ~(y < x)
  BY <1>2, Zenon DEF OpToRel
<1>. QED BY <1>3

\* A nonempty set of bounded naturals has a greatest element.
LEMMA GreatestExists ==
  ASSUME NEW n \in Nat, NEW T, T \subseteq 0..n, T # {}
  PROVE  \E x \in T : \A y \in T : y <= x
<1>. DEFINE Bounds == {b \in Nat : \A y \in T : y <= b}
<1>1. n \in Bounds
  OBVIOUS
<1>2. PICK b \in Bounds : \A c \in Bounds : b <= c
  BY <1>1, LeastExists, Zenon
<1>3. b \in T
  <2>. SUFFICES ASSUME b \notin T PROVE FALSE
    OBVIOUS
  <2>1. PICK y \in T : TRUE
    BY Zenon
  <2>2. b - 1 \in Nat /\ \A z \in T : z <= b - 1
    BY <1>2, <2>1
  <2>. QED BY <1>2, <2>2
<1>. QED BY <1>2, <1>3

\* Rounding by AckDeadline::new never makes a deadline earlier, and makes it
\* later by less than the precision.
THEOREM RoundingIsLate ==
  ASSUME NEW time \in Nat
  PROVE  /\ AckDeadline(time) \in Nat
         /\ AckDeadline(time) >= time
         /\ AckDeadline(time) < time + Precision
BY PrecisionAssumption DEF AckDeadline

\* The position LastPosition chooses is a position of the id.
LEMMA LastPositionExists ==
  ASSUME NEW n \in Nat, NEW mods, DOMAIN mods = 1..n, NEW id,
         Positions(mods, id) # {}
  PROVE  LastPosition(mods, id) \in Positions(mods, id)
<1>1. Positions(mods, id) \subseteq 0..n
  BY DEF Positions
<1>2. \E i \in Positions(mods, id) : \A j \in Positions(mods, id) : j <= i
  BY <1>1, GreatestExists
<1>. QED BY <1>2 DEF LastPosition

\* A tracked id that a batch mentions and does not nack gets the deadline of
\* one of the modifications, and keeps its message and attempt.
LEMMA ExtendedType ==
  ASSUME TypeOK, NEW mods \in Modifications,
         NEW id \in Mentioned(mods) \ Nacks(mods)
  PROVE  Extended(mods, id) \in PulledMessage
<1>1. PICK n \in 1..MaxMods : mods \in [1..n -> Modification]
  BY BatchAssumption DEF Modifications
<1>. DEFINE p == LastPosition(mods, id)
<1>2. p \in Positions(mods, id)
  BY <1>1, LastPositionExists DEF Mentioned
<1>3. mods[p] \in Modification /\ mods[p].new_deadline # Nack
  BY <1>1, <1>2 DEF Positions, Nacks, Mentioned
<1>4. mods[p].new_deadline \in Deadline
  BY <1>3 DEF Modification
<1>5. messages[id] \in PulledMessage
  BY DEF TypeOK, Mentioned
<1>. QED BY <1>4, <1>5 DEF Extended, PulledMessage

-----------------------------------------------------------------------------
\* A new tracker is empty on both sides.
LEMMA TrackerInitially == Init => TypeOK /\ SideBySide
BY DEF Init, TypeOK, SideBySide, ExpirationKey

\* Every operation of the tracker keeps the two structures side by side.
LEMMA TrackerStep ==
  ASSUME TypeOK, SideBySide, [Next]_trackerVars
  PROVE  TypeOK' /\ SideBySide'
<1>1. ASSUME NEW ids \in SUBSET (AckId \ DOMAIN messages),
             NEW new \in [ids -> PulledMessage], Add(new)
      PROVE  TypeOK' /\ SideBySide'
  <2>. USE <1>1 DEF Add
  <2>1. TypeOK'
    BY DEF TypeOK, PulledMessage
  <2>2. SideBySide'
    BY DEF SideBySide, ExpirationKey
  <2>. QED BY <2>1, <2>2
<1>2. ASSUME NEW time \in Instant, TakeExpired(time)
      PROVE  TypeOK' /\ SideBySide'
  <2>. USE <1>2 DEF TakeExpired, Due, ExpiredIds
  <2>1. TypeOK'
    BY DEF TypeOK
  <2>2. SideBySide'
    BY DEF SideBySide, ExpirationKey
  <2>. QED BY <2>1, <2>2
<1>3. ASSUME NEW ids \in SUBSET AckId, RemoveIds(ids)
      PROVE  TypeOK' /\ SideBySide'
  <2>. USE <1>3 DEF RemoveIds
  <2>1. TypeOK'
    BY DEF TypeOK
  <2>2. SideBySide'
    BY DEF SideBySide, ExpirationKey
  <2>. QED BY <2>1, <2>2
<1>4. ASSUME NEW mods \in Modifications, ModifyDeadlines(mods)
      PROVE  TypeOK' /\ SideBySide'
  <2>. USE <1>4 DEF ModifyDeadlines
  <2>1. \A id \in Mentioned(mods) \ Nacks(mods) :
          Extended(mods, id) \in PulledMessage
    BY ExtendedType
  <2>2. Mentioned(mods) \subseteq DOMAIN messages
        /\ Nacks(mods) \subseteq Mentioned(mods)
    BY DEF Mentioned, Nacks
  <2>3. TypeOK'
    BY <2>1, <2>2 DEF TypeOK, ModifiedMessages, ModifiedExpirations, PulledMessage
  <2>4. SideBySide'
    BY <2>2 DEF SideBySide, ExpirationKey, ModifiedMessages,
                ModifiedExpirations
  <2>. QED BY <2>3, <2>4
<1>5. CASE Clear
  BY <1>5 DEF Clear, TypeOK, SideBySide, ExpirationKey
<1>6. CASE UNCHANGED trackerVars
  BY <1>6 DEF trackerVars, TypeOK, SideBySide, ExpirationKey
<1>. QED BY <1>1, <1>2, <1>3, <1>4, <1>5, <1>6 DEF Next

\* The tracker's state has its type.
THEOREM TrackerTypeCorrect == Spec => []TypeOK
BY TrackerInitially, TrackerStep, PTL DEF Spec

\* Under every caller that adds messages under unused ack ids, the map and the
\* expirations describe the same deliveries, so the unchecked read in
\* take_expired always finds its message.
THEOREM AlwaysSideBySide == Spec => []SideBySide
BY TrackerInitially, TrackerStep, PTL DEF Spec

-----------------------------------------------------------------------------
(* The retry queue *)

\* A new queue is empty on both sides.
LEMMA RetryInitially == Retry!Init => Retry!TypeOK /\ Retry!ScheduledOnce
BY DEF Retry!Init, Retry!TypeOK, Retry!ScheduledOnce

\* Every operation of the queue keeps the schedule and the map in step.  That
\* the sequence numbers in use are below the counter is what makes an added
\* entry a new one.
LEMMA RetryStep ==
  ASSUME MaxEntries \in Nat, Retry!TypeOK, Retry!ScheduledOnce,
         [Retry!Next]_(Retry!retryVars)
  PROVE  Retry!TypeOK' /\ Retry!ScheduledOnce'
<1>1. ASSUME NEW k \in 1..MaxEntries, NEW entries \in [1..k -> Retry!Entry],
             Retry!Add(entries)
      PROVE  Retry!TypeOK' /\ Retry!ScheduledOnce'
  <2>. DEFINE added == next_seq .. (next_seq + k - 1)
  <2>1. k \in Nat /\ Len(entries) = k
    OBVIOUS
  <2>2. next_seq \in Nat /\ \A n \in added : entries[n - next_seq + 1] \in Retry!Entry
    BY <2>1 DEF Retry!TypeOK
  <2>3. /\ next_seq' = next_seq + k
        /\ schedule' = schedule \cup
             {<<entries[n - next_seq + 1].deliver_at, n>> : n \in added}
        /\ retrying' = [n \in DOMAIN retrying \cup added |->
                          IF n \in added THEN entries[n - next_seq + 1].message
                          ELSE retrying[n]]
    BY <1>1, <2>1 DEF Retry!Add
  <2>4. Retry!TypeOK'
    <3>1. added \subseteq Nat
      BY <2>1, <2>2
    <3>. HIDE DEF added
    <3>2. \A n \in added : /\ entries[n - next_seq + 1].message \in Message
                           /\ entries[n - next_seq + 1].deliver_at \in Instant
      BY <2>2 DEF Retry!Entry
    <3>3. next_seq' \in Nat
      BY <2>1, <2>2, <2>3
    <3>4. /\ DOMAIN retrying' = DOMAIN retrying \cup added
          /\ retrying' \in [DOMAIN retrying' -> Message]
      BY <2>3, <3>2 DEF Retry!TypeOK
    <3>5. schedule' \subseteq (Instant \X Nat)
      BY <2>3, <3>1, <3>2 DEF Retry!TypeOK
    <3>. QED BY <3>1, <3>3, <3>4, <3>5 DEF Retry!TypeOK
  <2>5. \A e \in schedule : e[2] \in DOMAIN retrying /\ e[2] \notin added
    <3>. TAKE e \in schedule
    <3>1. e[2] \in DOMAIN retrying
      BY DEF Retry!ScheduledOnce
    <3>2. e[2] \in Nat /\ e[2] < next_seq
      BY <3>1 DEF Retry!ScheduledOnce, Retry!TypeOK
    <3>. QED BY <2>1, <2>2, <3>1, <3>2
  <2>6. Retry!ScheduledOnce'
    <3>1. {e[2] : e \in schedule}' = (DOMAIN retrying)'
      <4>. DEFINE new == {<<entries[n - next_seq + 1].deliver_at, n>> : n \in added}
      <4>1. {e[2] : e \in new} = added
        <5>. HIDE DEF added
        <5>1. ASSUME NEW n \in added PROVE n \in {e[2] : e \in new}
          <6>. DEFINE e == <<entries[n - next_seq + 1].deliver_at, n>>
          <6>1. e \in new /\ e[2] = n
            OBVIOUS
          <6>. QED BY <6>1
        <5>2. \A e \in new : e[2] \in added
          OBVIOUS
        <5>. HIDE DEF new
        <5>. QED BY <5>1, <5>2
      <4>2. {e[2] : e \in schedule \cup new}
              = {e[2] : e \in schedule} \cup {e[2] : e \in new}
        <5>. HIDE DEF new
        <5>. QED OBVIOUS
      <4>. HIDE DEF added
      <4>. QED BY <2>3, <4>1, <4>2 DEF Retry!ScheduledOnce
    <3>2. (\A e, f \in schedule : e[2] = f[2] => e = f)'
      BY <2>3, <2>5 DEF Retry!ScheduledOnce
    <3>3. (\A n \in DOMAIN retrying : n < next_seq)'
      BY <2>1, <2>2, <2>3 DEF Retry!ScheduledOnce, Retry!TypeOK
    <3>. QED BY <3>1, <3>2, <3>3 DEF Retry!ScheduledOnce
  <2>. QED BY <2>4, <2>6
<1>2. ASSUME NEW time \in Instant, Retry!TakeReady(time)
      PROVE  Retry!TypeOK' /\ Retry!ScheduledOnce'
  <2>. USE <1>2 DEF Retry!TakeReady, Retry!Ready
  <2>1. Retry!TypeOK'
    BY DEF Retry!TypeOK
  <2>2. Retry!ScheduledOnce'
    BY DEF Retry!ScheduledOnce
  <2>. QED BY <2>1, <2>2
<1>3. CASE Retry!Clear
  BY <1>3 DEF Retry!Clear, Retry!TypeOK, Retry!ScheduledOnce
<1>4. CASE UNCHANGED Retry!retryVars
  BY <1>4 DEF Retry!retryVars, Retry!TypeOK, Retry!ScheduledOnce
<1>. QED BY <1>1, <1>2, <1>3, <1>4 DEF Retry!Next

\* The queue's state has its type.
THEOREM RetryTypeCorrect ==
  ASSUME MaxEntries \in Nat PROVE Retry!Spec => []Retry!TypeOK
BY RetryInitially, RetryStep, PTL DEF Retry!Spec

\* No message is stranded in the map and no schedule entry lacks its message,
\* so take_ready returns every message whose backoff has elapsed, once.
THEOREM AlwaysScheduledOnce ==
  ASSUME MaxEntries \in Nat PROVE Retry!Spec => []Retry!ScheduledOnce
BY RetryInitially, RetryStep, PTL DEF Retry!Spec

-----------------------------------------------------------------------------
(* Flow control: the invariant is inductive together with the types.  A     *)
(* waiter goes to sleep in the step that loads a counter at its limit, and  *)
(* every later change of a counter leaves its holder with a notification to *)
(* make, which completes every future that exists.                          *)

\* The counters are numbers, and so is what is held.
FlowTypeOK ==
  /\ outstanding_bytes \in Nat /\ outstanding_messages \in Nat
  /\ held \in [Holders -> Nat \X Nat]
  /\ waiter \in [Waiters -> {"away", "first_messages", "first_bytes", "register",
                             "second_messages", "second_bytes", "await", "done"}]
  /\ holder \in [Holders -> {"free", "inc_messages", "inc_notify", "holding",
                             "dec_messages", "dec_notify"}]

FlowInvariant == FlowTypeOK /\ NoneSleepsOverSpace

\* A counter stays a number when it wraps.
LEMMA Wraps ==
  ASSUME NEW n \in Int PROVE n % U64 \in Nat
  BY FlowAssumption

\* Initially nobody sleeps.
LEMMA FlowInitially == FlowInit => FlowInvariant
  BY DEF FlowInit, FlowInvariant, FlowTypeOK, NoneSleepsOverSpace

\* The steps of inc and dec (fetch_add, fetch_sub and notify_waiters).
LEMMA HolderKeeps ==
  ASSUME FlowInvariant, NEW h \in Holders,
         \/ HolderRuns(h) \/ DecBytes(h)
         \/ \E delta \in Deltas : IncBytes(h, delta)
  PROVE  FlowInvariant'
<1> USE DEF FlowInvariant, FlowTypeOK
<1> SUFFICES FlowTypeOK' /\ NoneSleepsOverSpace'
  OBVIOUS
<1>1. CASE \E delta \in Deltas : IncBytes(h, delta)
  <2> PICK delta \in Deltas : IncBytes(h, delta)
    BY <1>1
  <2>1. delta \in Nat \X Nat /\ outstanding_bytes + delta[1] \in Int
    BY FlowAssumption
  <2>2. outstanding_bytes' \in Nat
    BY <2>1, Wraps DEF IncBytes
  <2>3. FlowTypeOK'
    BY <2>1, <2>2 DEF IncBytes, Holder, waiterVars
  <2>4. Notifies(h)'
    BY DEF IncBytes, Holder, Notifies
  <2> QED
    BY <2>3, <2>4 DEF NoneSleepsOverSpace
<1>2. CASE IncMessages(h)
  <2>1. outstanding_messages + held[h][2] \in Int
    OBVIOUS
  <2>2. outstanding_messages' \in Nat
    BY <1>2, <2>1, Wraps DEF IncMessages
  <2>3. FlowTypeOK'
    BY <1>2, <2>2 DEF IncMessages, Holder, waiterVars
  <2>4. Notifies(h)'
    BY <1>2 DEF IncMessages, Holder, Notifies
  <2> QED
    BY <2>3, <2>4 DEF NoneSleepsOverSpace
<1>3. CASE DecBytes(h)
  <2>1. outstanding_bytes - held[h][1] \in Int
    OBVIOUS
  <2>2. outstanding_bytes' \in Nat
    BY <1>3, <2>1, Wraps DEF DecBytes
  <2>3. FlowTypeOK'
    BY <1>3, <2>2 DEF DecBytes, Holder, waiterVars
  <2>4. Notifies(h)'
    BY <1>3 DEF DecBytes, Holder, Notifies
  <2> QED
    BY <2>3, <2>4 DEF NoneSleepsOverSpace
<1>4. CASE DecMessages(h)
  <2>1. outstanding_messages - held[h][2] \in Int
    OBVIOUS
  <2>2. outstanding_messages' \in Nat
    BY <1>4, <2>1, Wraps DEF DecMessages
  <2>3. FlowTypeOK'
    BY <1>4, <2>2 DEF DecMessages, Holder, waiterVars
  <2>4. Notifies(h)'
    BY <1>4 DEF DecMessages, Holder, Notifies
  <2> QED
    BY <2>3, <2>4 DEF NoneSleepsOverSpace
<1>5. CASE NotifyWaiters(h)
  <2>1. FlowTypeOK'
    BY <1>5 DEF NotifyWaiters, Holder, counterVars
  <2>2. listening' = {}
    BY <1>5 DEF NotifyWaiters
  <2> QED
    BY <2>1, <2>2 DEF NoneSleepsOverSpace
<1> QED
  BY <1>1, <1>2, <1>3, <1>4, <1>5 DEF HolderRuns

\* The steps of wait_for_available_space: the one that goes to sleep has just
\* loaded a counter at its limit.
LEMMA WaiterKeeps ==
  ASSUME FlowInvariant, NEW w \in Waiters, Wait(w) \/ WaiterRuns(w)
  PROVE  FlowInvariant'
<1> USE DEF FlowInvariant, FlowTypeOK
<1>1. UNCHANGED <<counterVars, holder, held>>
  BY DEF Wait, WaiterRuns, FirstMessages, FirstBytes, SecondMessages, SecondBytes,
         LoadMessages, LoadBytes, Register, Awake, Return
<1>2. FlowTypeOK'
  BY <1>1 DEF counterVars, Wait, WaiterRuns, FirstMessages, FirstBytes, SecondMessages,
         SecondBytes, LoadMessages, LoadBytes, Register, Awake, Return, Waiter
<1>3. (HasSpace' <=> HasSpace) /\ \A h \in Holders : Notifies(h)' <=> Notifies(h)
  BY <1>1 DEF counterVars, HasSpace, Notifies
<1>4. ASSUME NEW v \in Waiters, v # w, waiter'[v] = "await", v \in listening'
      PROVE  waiter[v] = "await" /\ v \in listening
  BY <1>4 DEF Wait, WaiterRuns, FirstMessages, FirstBytes, SecondMessages,
         SecondBytes, LoadMessages, LoadBytes, Register, Awake, Return, Waiter
<1>5. ASSUME waiter'[w] = "await" PROVE ~HasSpace
  <2>1. SecondMessages(w) \/ SecondBytes(w)
    BY <1>5 DEF Wait, WaiterRuns, FirstMessages, FirstBytes, LoadMessages, LoadBytes,
           Register, Awake, Return, Waiter
  <2>2. CASE SecondMessages(w)
    BY <1>5, <2>2, FlowAssumption DEF SecondMessages, LoadMessages, Waiter, HasSpace
  <2>3. CASE SecondBytes(w)
    BY <1>5, <2>3, FlowAssumption DEF SecondBytes, LoadBytes, Waiter, HasSpace
  <2> QED
    BY <2>1, <2>2, <2>3
<1>6. NoneSleepsOverSpace'
  BY <1>3, <1>4, <1>5 DEF NoneSleepsOverSpace
<1> QED
  BY <1>2, <1>6

\* No wakeup is lost (wait_for_available_space, inc and dec).
THEOREM NoLostWakeup == FlowSpec => []NoneSleepsOverSpace
<1>1. FlowInvariant /\ [FlowNext]_vars => FlowInvariant'
  <2> SUFFICES ASSUME FlowInvariant, [FlowNext]_vars PROVE FlowInvariant'
    OBVIOUS
  <2>1. CASE FlowNext
    BY <2>1, HolderKeeps, WaiterKeeps DEF FlowNext
  <2>2. CASE UNCHANGED vars
    BY <2>2 DEF vars, counterVars, waiterVars, FlowInvariant, FlowTypeOK,
                NoneSleepsOverSpace, HasSpace, Notifies
  <2> QED
    BY <2>1, <2>2
<1>2. FlowInvariant => NoneSleepsOverSpace
  BY DEF FlowInvariant
<1> QED
  BY <1>1, <1>2, FlowInitially, PTL DEF FlowSpec

=============================================================================

------------------------- MODULE LifecycleInvariant -------------------------
(***************************************************************************)
(* The lifecycle of topics and subscriptions, proved for every number of   *)
(* clients, names, topics and subscriptions and every bound.  AlwaysInv is *)
(* the inductive invariant: instances are numbered and listed, every call  *)
(* has its one request where it was sent, a deletion has done what its     *)
(* step says, a publish has one task for each subscription on the list,    *)
(* and no post overtakes another.  PatientInv adds what holds when no      *)
(* client touches a subscription before its creation has returned: nobody  *)
(* else knows a subscription that is being created, what a topic lists is  *)
(* alive, and no post fails.  Here are the invariants, the steps of        *)
(* callers and of topics that answer, and the steps that PatientInv does   *)
(* not notice.                                                             *)
(***************************************************************************)
EXTENDS Lifecycle, TLAPS

USE ZenonT(30)

\* The operations a subscription's actor serves for a caller, the steps of
\* its deletion, and the values of the state.
SubOps == {"get_subscription", "modify_push_config", "delete_subscription"}
Leaving == {"asking", "asked", "freeing"}
Results == {"none", "ok", "error"}
Requests == [op : ToTopic \cup SubOps \cup {"remove", "post"},
             from : Clients \cup SubId \cup {None},
             sub : SubId \cup {None}, id : Nat, push_config : Configs \cup {None}]
Tasks == UNION {[K -> {"pending", "done", "failed"}] : K \in SUBSET (SubId \X Nat)}
TopicActors ==
  [name : TopicNames \cup {None}, attached : [SubNames -> SubId \cup {None}],
   deleted : BOOLEAN, next_message_id : Nat, mailbox : Seq(Requests),
   publishing : Clients \cup {None}, tasks : Tasks]
SubActors ==
  [name : SubNames \cup {None}, topic : TopicId \cup {None},
   push_config : Configs \cup {None}, deleted : BOOLEAN, signalled : BOOLEAN,
   running : BOOLEAN, attached : BOOLEAN, mailbox : Seq(Requests),
   received : Seq(Nat), step : Leaving \cup {"idle", "unregistering"},
   caller : Clients \cup {None}]
Calls ==
  [op : ToTopic \cup SubOps \cup {"none"},
   name : SubNames \cup {None}, topic : TopicId \cup {None},
   sub : SubId \cup {None}, push_config : Configs \cup {None},
   stage : {"idle", "creating", "calling", "awaiting"}, result : Results]
LifecycleTypes ==
  /\ topics \in [TopicNames -> TopicId \cup {None}]
  /\ topic_next_id \in Nat \ {0}
  /\ subscriptions \in [SubNames -> SubId \cup {None}]
  /\ sub_next_id \in Nat \ {0}
  /\ registry \in [SubNames -> Configs \cup {None}]
  /\ topic \in [TopicId -> TopicActors]
  /\ sub \in [SubId -> SubActors]
  /\ call \in [Clients -> Calls]

\* The instances that exist.
Topics == 2..topic_next_id
\* The subscriptions created so far.
Subs == 2..sub_next_id

\* Instances are numbered in the order of their creation, and those to come are
\* blank.
Numbered ==
  /\ Topics \subseteq TopicId /\ Subs \subseteq SubId
  /\ \A t \in TopicId \ Topics : topic[t] = NoTopic
  /\ \A s \in SubId \ Subs : sub[s] = NoSub
  /\ \A t \in Topics : topic[t].name \in TopicNames
  /\ \A s \in Subs : sub[s].name \in SubNames /\ sub[s].topic \in Topics
  /\ \A n \in TopicNames : topics[n] # None => topics[n] \in Topics
  /\ \A n \in SubNames : subscriptions[n] # None =>
       subscriptions[n] \in Subs /\ sub[subscriptions[n]].name = n

\* A subscription that is being deleted keeps its name until it frees it.
Listed ==
  /\ \A t \in Topics : topic[t].deleted \/ topics[topic[t].name] = t
  /\ \A s \in Subs : (sub[s].deleted => sub[s].step \in Leaving) =>
                       subscriptions[sub[s].name] = s

\* Where a call is, and what it holds.
Tracked(c) ==
  /\ call[c].stage = "idle" =>
       call[c].op = "none" /\ call[c].topic = None /\ call[c].sub = None
  /\ call[c].stage # "idle" => call[c].op \in ToTopic \cup SubOps
  /\ call[c].topic # None => call[c].topic \in Topics
  /\ call[c].sub # None => call[c].sub \in Subs
  /\ call[c].op \in ToTopic => call[c].topic # None
  /\ call[c].op \in SubOps => call[c].sub # None
  /\ call[c].stage = "creating" =>
       call[c].op = "create_subscription" /\ call[c].sub = None
  /\ call[c].op = "create_subscription" => call[c].name \in SubNames
  /\ call[c].op = "create_subscription" /\ call[c].stage # "creating" =>
       /\ call[c].sub # None
       /\ sub[call[c].sub].name = call[c].name
       /\ sub[call[c].sub].topic = call[c].topic
CallsTracked == \A c \in Clients : Tracked(c)

\* Who waits for an answer has one request on its way, and it is where it was
\* sent.
OfCall(r, t) ==
  /\ r.from \in Clients /\ r.op \in ToTopic
  /\ call[r.from].stage = "awaiting" /\ call[r.from].op = r.op
  /\ call[r.from].topic = t /\ call[r.from].sub = r.sub
OfSub(r, t) ==
  /\ r.from \in Subs /\ r.op = "remove"
  /\ sub[r.from].step = "asked" /\ sub[r.from].topic = t
TopicRequestsOf(t) ==
  /\ \A i \in DOMAIN topic[t].mailbox :
       /\ OfCall(topic[t].mailbox[i], t) \/ OfSub(topic[t].mailbox[i], t)
       /\ topic[t].mailbox[i].from # topic[t].publishing
  /\ \A i, j \in DOMAIN topic[t].mailbox :
       topic[t].mailbox[i].from = topic[t].mailbox[j].from => i = j
  /\ topic[t].publishing # None =>
       /\ call[topic[t].publishing].stage = "awaiting"
       /\ call[topic[t].publishing].op = "publish"
       /\ call[topic[t].publishing].topic = t
TopicRequests == \A t \in TopicId : TopicRequestsOf(t)
\* What the requests in the mailbox of a subscription can be.
FromCall(r, s) ==
  /\ r.from \in Clients /\ r.op \in SubOps
  /\ call[r.from].stage = "awaiting" /\ call[r.from].op = r.op
  /\ call[r.from].sub = s
SubRequestsOf(s) ==
  /\ \A i \in DOMAIN sub[s].mailbox :
       \/ sub[s].mailbox[i].from = None /\ sub[s].mailbox[i].op = "post"
       \/ /\ FromCall(sub[s].mailbox[i], s)
          /\ sub[s].mailbox[i].from # sub[s].caller
  /\ \A i, j \in DOMAIN sub[s].mailbox :
       sub[s].mailbox[i].from = sub[s].mailbox[j].from =>
         i = j \/ sub[s].mailbox[i].from = None
  /\ sub[s].caller # None =>
       /\ call[sub[s].caller].stage = "awaiting"
       /\ call[sub[s].caller].op = "delete_subscription"
       /\ call[sub[s].caller].sub = s
SubRequests == \A s \in SubId : SubRequestsOf(s)

\* The stages of a deletion.
Deletions ==
  \A s \in SubId :
    /\ sub[s].step # "idle" =>
         sub[s].deleted /\ sub[s].running /\ sub[s].caller # None
    /\ sub[s].step = "idle" => sub[s].caller = None
    /\ sub[s].signalled <=> sub[s].deleted /\ sub[s].step \notin Leaving
    /\ s \in Subs /\ ~sub[s].running => sub[s].signalled
    /\ ~sub[s].running => sub[s].mailbox = << >>

\* A topic's list leads to subscriptions of this topic, under their names.
OnList ==
  \A t \in TopicId, n \in SubNames :
    LET s == topic[t].attached[n]
    IN  s # None => /\ s \in Subs /\ sub[s].name = n /\ sub[s].topic = t
                    /\ sub[s].attached

\* The posts of a publish.
LastId(t) == MessageId(t, topic[t].next_message_id)
\* What a topic that publishes has sent, and to whom.
PublishingOf(t) ==
  /\ topic[t].publishing = None => DOMAIN topic[t].tasks = {}
  /\ topic[t].publishing # None =>
       DOMAIN topic[t].tasks = Attached(t) \X {LastId(t)}
  /\ \A s \in SubId :
       <<s, LastId(t)>> \in DOMAIN topic[t].tasks
         /\ topic[t].tasks[<<s, LastId(t)>>] = "done" =>
           sub[s].deleted \/ Reached(s, LastId(t))
Publishing == \A t \in TopicId : PublishingOf(t)

\* What a subscription has got is no newer than what its topic has taken, and
\* older than what the topic is about to post to it.
Awaits(s, t) ==
  /\ <<s, LastId(t)>> \in DOMAIN topic[t].tasks
  /\ topic[t].tasks[<<s, LastId(t)>>] = "pending"
\* No post that has reached a subscription is newer than the last of its
\* topic, nor as new while that one is still to come.
OlderOf(s) ==
  \A x \in Nat : Reached(s, x) =>
    /\ x <= LastId(sub[s].topic)
    /\ Awaits(s, sub[s].topic) => x < LastId(sub[s].topic)
Older == \A s \in Subs : OlderOf(s)

\* With patient clients: whoever creates a subscription is alone with it.
CreatedAlone ==
  \A d \in Clients :
    call[d].op = "create_subscription" /\ call[d].sub # None =>
      /\ ~sub[call[d].sub].deleted /\ ~sub[call[d].sub].attached
      /\ \A c \in Clients \ {d} : call[c].sub # call[d].sub

\* With patient clients: no list of a topic that is held leads to a subscription
\* that has left it ...
Left ==
  \A s \in Subs : sub[s].deleted /\ sub[s].step \notin {"asking", "asked"} =>
    \A t \in TopicId, n \in SubNames : Held(t) => topic[t].attached[n] # s

\* ... and a subscription that was attached and has not left is on it.
Stays ==
  \A s \in Subs : sub[s].attached /\ ~sub[s].deleted =>
    \/ topic[sub[s].topic].deleted
    \/ topic[sub[s].topic].attached[sub[s].name] = s
\* The invariant that holds for any callers, and the one that holds when
\* callers are patient.
AlwaysInv ==
  /\ LifecycleTypes /\ Numbered /\ Listed /\ CallsTracked
  /\ TopicRequests /\ SubRequests /\ Deletions /\ OnList /\ Publishing /\ Older
  /\ PostedInOrder
PatientInv == AlwaysInv /\ CreatedAlone /\ Left /\ Stays /\ PublishNeverFails

\* A mailbox with one more request at its end, or without its first.
Grown(old, new, r) ==
  /\ new \in Seq(Requests)
  /\ \A i \in DOMAIN old : i \in DOMAIN new /\ new[i] = old[i]
  /\ \E last \in DOMAIN new :
       /\ new[last] = r
       /\ \A i \in DOMAIN new : i = last \/ (i \in DOMAIN old /\ i < last)
       /\ last \notin DOMAIN old
\* A mailbox that lost its oldest request.
Shrunk(old, new) ==
  /\ new \in Seq(Requests)
  /\ 1 \in DOMAIN old /\ Head(old) = old[1]
  /\ \A i \in DOMAIN new : i > 0 /\ i + 1 \in DOMAIN old /\ new[i] = old[i + 1]
  /\ \A i \in DOMAIN old : i = 1 \/ (i - 1 \in DOMAIN new /\ new[i - 1] = old[i])

\* A request sent to a mailbox is its newest.
LEMMA EnqueueGrows ==
  ASSUME NEW mailbox \in Seq(Requests), NEW r \in Requests
  PROVE  Grown(mailbox, Append(mailbox, r), r)
<1>. DEFINE new == Append(mailbox, r)
            last == Len(mailbox) + 1
<1>1. /\ new \in Seq(Requests) /\ DOMAIN new = 1..(Len(mailbox) + 1)
      /\ DOMAIN mailbox = 1..Len(mailbox) /\ Len(mailbox) \in Nat
      /\ \A i \in 1..Len(mailbox) : new[i] = mailbox[i]
      /\ new[Len(mailbox) + 1] = r
  BY SMTT(30)
<1>. HIDE DEF new
<1>2. /\ last \in DOMAIN new /\ new[last] = r /\ last \notin DOMAIN mailbox
      /\ \A i \in DOMAIN new : i = last \/ (i \in DOMAIN mailbox /\ i < last)
  BY <1>1, SMTT(30)
<1>. QED BY <1>1, <1>2, SMTT(30) DEF Grown

\* A request taken from a mailbox was its oldest.
LEMMA DequeueShrinks ==
  ASSUME NEW mailbox \in Seq(Requests), mailbox # << >>
  PROVE  Shrunk(mailbox, Tail(mailbox))
<1>1. /\ Tail(mailbox) \in Seq(Requests) /\ Len(mailbox) \in Nat \ {0}
      /\ DOMAIN Tail(mailbox) = 1..(Len(mailbox) - 1)
      /\ DOMAIN mailbox = 1..Len(mailbox)
      /\ \A i \in 1..(Len(mailbox) - 1) : Tail(mailbox)[i] = mailbox[i + 1]
      /\ Head(mailbox) = mailbox[1]
  BY SMTT(30)
<1>. QED BY <1>1, SMTT(30) DEF Shrunk

\* Sending to a topic changes its mailbox only.
LEMMA TopicEnqueued ==
  ASSUME NEW a \in TopicActors, NEW r \in Requests
  PROVE  LET b == Enqueue(a, r)
         IN  /\ b \in TopicActors
             /\ b.name = a.name /\ b.attached = a.attached
             /\ b.deleted = a.deleted /\ b.next_message_id = a.next_message_id
             /\ b.publishing = a.publishing /\ b.tasks = a.tasks
             /\ Grown(a.mailbox, b.mailbox, r)
<1>. DEFINE b == Enqueue(a, r)
<1>1. /\ Grown(a.mailbox, Append(a.mailbox, r), r)
      /\ Append(a.mailbox, r) \in Seq(Requests)
  BY EnqueueGrows, SMTT(30) DEF TopicActors
<1>2. /\ b.name = a.name /\ b.attached = a.attached
      /\ b.deleted = a.deleted /\ b.next_message_id = a.next_message_id
      /\ b.publishing = a.publishing /\ b.tasks = a.tasks
      /\ b.mailbox = Append(a.mailbox, r)
  BY DEF TopicActors, Enqueue
<1>3. b \in TopicActors
  BY <1>1 DEF TopicActors, Enqueue
<1>. QED BY <1>1, <1>2, <1>3

\* Taking a request changes the mailbox of a topic only.
LEMMA TopicDequeued ==
  ASSUME NEW a \in TopicActors, a.mailbox # << >>
  PROVE  LET b == Dequeue(a)
         IN  /\ b \in TopicActors
             /\ b.name = a.name /\ b.attached = a.attached
             /\ b.deleted = a.deleted /\ b.next_message_id = a.next_message_id
             /\ b.publishing = a.publishing /\ b.tasks = a.tasks
             /\ Shrunk(a.mailbox, b.mailbox)
<1>. DEFINE b == Dequeue(a)
<1>1. /\ Shrunk(a.mailbox, Tail(a.mailbox))
      /\ Tail(a.mailbox) \in Seq(Requests)
  BY DequeueShrinks, SMTT(30) DEF TopicActors
<1>2. /\ b.name = a.name /\ b.attached = a.attached
      /\ b.deleted = a.deleted /\ b.next_message_id = a.next_message_id
      /\ b.publishing = a.publishing /\ b.tasks = a.tasks
      /\ b.mailbox = Tail(a.mailbox)
  BY DEF TopicActors, Dequeue
<1>3. b \in TopicActors
  BY <1>1 DEF TopicActors, Dequeue
<1>. QED BY <1>1, <1>2, <1>3

\* Sending to a subscription changes its mailbox only.
LEMMA SubEnqueued ==
  ASSUME NEW a \in SubActors, NEW r \in Requests
  PROVE  LET b == Enqueue(a, r)
         IN  /\ b \in SubActors
             /\ b.name = a.name /\ b.topic = a.topic
             /\ b.push_config = a.push_config /\ b.deleted = a.deleted
             /\ b.signalled = a.signalled /\ b.running = a.running
             /\ b.attached = a.attached /\ b.received = a.received
             /\ b.step = a.step /\ b.caller = a.caller
             /\ Grown(a.mailbox, b.mailbox, r)
<1>. DEFINE b == Enqueue(a, r)
<1>1. /\ Grown(a.mailbox, Append(a.mailbox, r), r)
      /\ Append(a.mailbox, r) \in Seq(Requests)
  BY EnqueueGrows, SMTT(30) DEF SubActors
<1>2. /\ b.name = a.name /\ b.topic = a.topic
      /\ b.push_config = a.push_config /\ b.deleted = a.deleted
      /\ b.signalled = a.signalled /\ b.running = a.running
      /\ b.attached = a.attached /\ b.received = a.received
      /\ b.step = a.step /\ b.caller = a.caller
      /\ b.mailbox = Append(a.mailbox, r)
  BY DEF SubActors, Enqueue
<1>3. b \in SubActors
  BY <1>1 DEF SubActors, Enqueue
<1>. QED BY <1>1, <1>2, <1>3

\* Taking a request changes the mailbox of a subscription only.
LEMMA SubDequeued ==
  ASSUME NEW a \in SubActors, a.mailbox # << >>
  PROVE  LET b == Dequeue(a)
         IN  /\ b \in SubActors
             /\ b.name = a.name /\ b.topic = a.topic
             /\ b.push_config = a.push_config /\ b.deleted = a.deleted
             /\ b.signalled = a.signalled /\ b.running = a.running
             /\ b.attached = a.attached /\ b.received = a.received
             /\ b.step = a.step /\ b.caller = a.caller
             /\ Shrunk(a.mailbox, b.mailbox)
<1>. DEFINE b == Dequeue(a)
<1>1. /\ Shrunk(a.mailbox, Tail(a.mailbox))
      /\ Tail(a.mailbox) \in Seq(Requests)
  BY DequeueShrinks, SMTT(30) DEF SubActors
<1>2. /\ b.name = a.name /\ b.topic = a.topic
      /\ b.push_config = a.push_config /\ b.deleted = a.deleted
      /\ b.signalled = a.signalled /\ b.running = a.running
      /\ b.attached = a.attached /\ b.received = a.received
      /\ b.step = a.step /\ b.caller = a.caller
      /\ b.mailbox = Tail(a.mailbox)
  BY DEF SubActors, Dequeue
<1>3. b \in SubActors
  BY <1>1 DEF SubActors, Dequeue
<1>. QED BY <1>1, <1>2, <1>3

\* What keeps a conjunct: each reads only part of the state.
LEMMA Blank == UNCHANGED <<NoTopic, NoSub>>
BY DEF NoTopic, NoSub, NoTasks

\* What keeps the numbering of topics and subscriptions.
LEMMA NumberedKept ==
  ASSUME Numbered, Topics' = Topics, Subs' = Subs,
         \A t \in TopicId : topic'[t].name = topic[t].name,
         \A s \in SubId : sub'[s].name = sub[s].name /\ sub'[s].topic = sub[s].topic,
         \A t \in TopicId \ Topics : topic'[t] = topic[t],
         \A s \in SubId \ Subs : sub'[s] = sub[s],
         \A n \in TopicNames : topics'[n] \in {topics[n], None},
         \A n \in SubNames : subscriptions'[n] \in {subscriptions[n], None}
  PROVE  Numbered'
<1>1. /\ Topics' \subseteq TopicId /\ Subs' \subseteq SubId
      /\ \A t \in Topics' : topic'[t].name \in TopicNames
      /\ \A s \in Subs' : sub'[s].name \in SubNames /\ sub'[s].topic \in Topics'
      /\ \A t \in TopicId \ Topics' : topic'[t] = NoTopic
      /\ \A s \in SubId \ Subs' : sub'[s] = NoSub
  BY DEF Numbered
<1>2. \A n \in TopicNames : topics'[n] # None => topics'[n] \in Topics'
  BY DEF Numbered
<1>3. \A n \in SubNames : subscriptions'[n] # None =>
        subscriptions'[n] \in Subs' /\ sub'[subscriptions'[n]].name = n
  BY SMTT(30) DEF Numbered
<1>. QED BY <1>1, <1>2, <1>3, Blank DEF Numbered

\* Clients, instances and nobody are told apart.
LEMMA Apart ==
  /\ \A c \in Clients : c # None /\ c \notin Subs /\ c \notin SubId
  /\ \A x \in Subs \cup SubId \cup Topics \cup TopicId : x # None /\ x \in Nat
  /\ \A x \in Configs : x # None
BY LifecycleAssumption, SMTT(30) DEF Subs, SubId, Topics, TopicId

\* What keeps the tasks of a publishing topic right.
LEMMA PublishingKept ==
  ASSUME Publishing,
         \A t \in TopicId :
           /\ topic'[t].publishing = topic[t].publishing
           /\ topic'[t].tasks = topic[t].tasks
           /\ topic[t].publishing # None => topic'[t].attached = topic[t].attached
           /\ topic'[t].next_message_id = topic[t].next_message_id,
         \A s \in SubId :
           /\ sub[s].deleted => sub'[s].deleted
           /\ \A x : Reached(s, x) => sub'[s].deleted \/ Reached(s, x)'
  PROVE  Publishing'
<1>. SUFFICES ASSUME NEW t \in TopicId PROVE PublishingOf(t)'
  BY DEF Publishing
<1>1. /\ topic[t].publishing # None => Attached(t)' = Attached(t)
      /\ LastId(t)' = LastId(t)
  BY SMTT(30) DEF Attached, LastId
<1>. QED BY <1>1 DEF Publishing, PublishingOf

\* What keeps the posts of a subscription in order.
LEMMA OlderKept ==
  ASSUME Older, Numbered,
         \A t \in TopicId :
           /\ topic'[t].tasks = topic[t].tasks
           /\ topic'[t].next_message_id = topic[t].next_message_id,
         \A s \in Subs' :
           \/ /\ s \in Subs /\ sub'[s].topic = sub[s].topic
              /\ \A x : Reached(s, x)' => Reached(s, x)
           \/ \A x : ~Reached(s, x)'
  PROVE  Older'
<1>1. \A s \in Subs : s \in SubId /\ sub[s].topic \in TopicId
  BY DEF Subs, Numbered
<1>. SUFFICES ASSUME NEW s \in Subs' PROVE OlderOf(s)'
  BY <1>1 DEF Older
<1>2. CASE \A x : ~Reached(s, x)'
  BY <1>2 DEF OlderOf
<1>3. CASE /\ s \in Subs /\ sub'[s].topic = sub[s].topic
           /\ \A x : Reached(s, x)' => Reached(s, x)
  <2>1. /\ LastId(sub[s].topic)' = LastId(sub[s].topic)
        /\ Awaits(s, sub[s].topic)' => Awaits(s, sub[s].topic)
    BY <1>1, <1>3 DEF LastId, Awaits
  <2>. QED BY <1>3, <2>1 DEF Older, OlderOf
<1>. QED BY <1>2, <1>3

\* What keeps the calls under way tracked.
LEMMA TrackedKept ==
  ASSUME AlwaysInv, Topics \subseteq Topics', Subs \subseteq Subs',
         \A s \in Subs : sub'[s].name = sub[s].name /\ sub'[s].topic = sub[s].topic,
         \A c \in Clients : \/ call'[c] = call[c]
                            \/ /\ call'[c].op = call[c].op
                               /\ call'[c].name = call[c].name
                               /\ call'[c].topic = call[c].topic
                               /\ call'[c].sub = call[c].sub
                               /\ call[c].stage = "calling"
                               /\ call'[c].stage = "awaiting"
                            \/ Tracked(c)'
  PROVE  CallsTracked'
<1>. SUFFICES ASSUME NEW c \in Clients, ~Tracked(c)' PROVE FALSE
  BY DEF CallsTracked
<1>1. /\ Tracked(c) /\ call'[c].op = call[c].op /\ call'[c].name = call[c].name
      /\ call'[c].topic = call[c].topic /\ call'[c].sub = call[c].sub
      /\ \/ call'[c].stage = call[c].stage
         \/ call[c].stage = "calling" /\ call'[c].stage = "awaiting"
  BY DEF AlwaysInv, CallsTracked
<1>. QED BY <1>1 DEF Tracked

\* What keeps the requests of subscriptions right.
LEMMA SubRequestsKept ==
  ASSUME SubRequests, LifecycleTypes,
         \A s \in SubId :
           sub'[s].mailbox = sub[s].mailbox /\ sub'[s].caller = sub[s].caller,
         \A c \in Clients :
           call[c].stage = "awaiting" /\ call[c].op \in SubOps =>
             /\ call'[c].stage = "awaiting" /\ call'[c].op = call[c].op
             /\ call'[c].sub = call[c].sub
  PROVE  SubRequests'
<1>. SUFFICES ASSUME NEW s \in SubId PROVE SubRequestsOf(s)'
  BY DEF SubRequests
<1>1. sub[s].caller # None => sub[s].caller \in Clients
  BY DEF LifecycleTypes, SubActors
<1>2. \A r : FromCall(r, s) => FromCall(r, s)'
  BY DEF FromCall
<1>. QED BY <1>1, <1>2, SMTT(30) DEF SubRequests, SubRequestsOf, SubOps

\* What keeps the requests of topics right.
LEMMA TopicRequestsKept ==
  ASSUME TopicRequests, LifecycleTypes,
         \A t \in TopicId : /\ topic'[t].mailbox = topic[t].mailbox
                            /\ topic'[t].publishing = topic[t].publishing,
         \A s \in Subs : s \in Subs' /\ sub'[s].topic = sub[s].topic,
         \A s \in Subs : sub[s].step = "asked" => sub'[s].step = "asked",
         \A c \in Clients :
           call[c].stage = "awaiting" /\ call[c].op \in ToTopic =>
             /\ call'[c].stage = "awaiting" /\ call'[c].op = call[c].op
             /\ call'[c].sub = call[c].sub /\ call'[c].topic = call[c].topic
  PROVE  TopicRequests'
<1>. SUFFICES ASSUME NEW t \in TopicId PROVE TopicRequestsOf(t)'
  BY DEF TopicRequests
<1>1. topic[t].publishing # None => topic[t].publishing \in Clients
  BY DEF LifecycleTypes, TopicActors
<1>2. \A r : OfCall(r, t) => OfCall(r, t)'
  BY DEF OfCall
<1>3. \A r : OfSub(r, t) => OfSub(r, t)'
  BY DEF OfSub
<1>. QED BY <1>1, <1>2, <1>3, SMTT(30)
            DEF TopicRequests, TopicRequestsOf, ToTopic

\* The lists keep what they lead to, or lose it.
LEMMA OnListKept ==
  ASSUME Numbered, OnList, Subs' = Subs,
         \A t \in TopicId, n \in SubNames :
           \/ topic'[t].attached[n] = topic[t].attached[n]
           \/ topic'[t].attached[n] = None,
         \A s \in SubId : /\ sub'[s].name = sub[s].name
                          /\ sub'[s].topic = sub[s].topic
                          /\ sub[s].attached => sub'[s].attached
  PROVE  OnList'
<1>1. Subs \subseteq SubId
  BY DEF Numbered
<1>2. SUFFICES ASSUME NEW t \in TopicId, NEW n \in SubNames,
                      topic'[t].attached[n] # None
               PROVE  LET s == topic'[t].attached[n]
                      IN  /\ s \in Subs' /\ sub'[s].name = n
                          /\ sub'[s].topic = t /\ sub'[s].attached
  BY SMTT(30) DEF OnList
<1>3. topic'[t].attached[n] = topic[t].attached[n]
  BY <1>2
<1>4. PICK s \in Subs : s = topic[t].attached[n]
  BY <1>2, <1>3 DEF OnList
<1>5. sub[s].name = n /\ sub[s].topic = t /\ sub[s].attached
  BY <1>2, <1>3, <1>4, SMTT(30) DEF OnList
<1>. QED BY <1>1, <1>3, <1>4, <1>5, SMTT(30)

\* A step that is no step of a deletion keeps the stages of the deletions.
LEMMA DeletionsKept ==
  ASSUME Deletions, Subs' = Subs,
         \A s \in SubId :
           /\ sub'[s].step = sub[s].step /\ sub'[s].deleted = sub[s].deleted
           /\ sub'[s].running = sub[s].running
           /\ sub'[s].caller = sub[s].caller
           /\ sub'[s].signalled = sub[s].signalled
           /\ sub[s].mailbox = << >> => \/ sub'[s].mailbox = << >>
                                        \/ sub[s].running
  PROVE  Deletions'
<1>. SUFFICES ASSUME NEW s \in SubId
              PROVE  /\ sub'[s].step # "idle" =>
                          sub'[s].deleted /\ sub'[s].running /\ sub'[s].caller # None
                     /\ sub'[s].step = "idle" => sub'[s].caller = None
                     /\ sub'[s].signalled <=>
                          sub'[s].deleted /\ sub'[s].step \notin Leaving
                     /\ s \in Subs' /\ ~sub'[s].running => sub'[s].signalled
                     /\ ~sub'[s].running => sub'[s].mailbox = << >>
  BY DEF Deletions
<1>1. /\ sub[s].step # "idle" =>
           sub[s].deleted /\ sub[s].running /\ sub[s].caller # None
      /\ sub[s].step = "idle" => sub[s].caller = None
      /\ sub[s].signalled <=> sub[s].deleted /\ sub[s].step \notin Leaving
      /\ s \in Subs /\ ~sub[s].running => sub[s].signalled
      /\ ~sub[s].running => sub[s].mailbox = << >>
  BY DEF Deletions
<1>. QED BY <1>1

\* A step that deletes no topic and frees no name keeps what is listed.
LEMMA ListedKept ==
  ASSUME Numbered, Listed, Topics' = Topics, Subs' = Subs,
         \A t \in TopicId : /\ topic'[t].name = topic[t].name
                            /\ topic'[t].deleted = topic[t].deleted,
         \A s \in SubId : /\ sub'[s].name = sub[s].name
                          /\ sub'[s].deleted = sub[s].deleted
                          /\ sub'[s].step \in Leaving => sub[s].step \in Leaving,
         topics' = topics, subscriptions' = subscriptions
  PROVE  Listed'
<1>1. Subs \subseteq SubId /\ Topics \subseteq TopicId
  BY DEF Numbered
<1>2. ASSUME NEW t \in Topics
      PROVE  topic'[t].deleted \/ topics'[topic'[t].name] = t
  BY <1>1 DEF Listed
<1>3. ASSUME NEW s \in Subs, sub'[s].deleted => sub'[s].step \in Leaving
      PROVE  subscriptions'[sub'[s].name] = s
  BY <1>1, <1>3 DEF Listed
<1>. QED BY <1>2, <1>3 DEF Listed

\* Topics, and subscriptions, that change at most their mailboxes (and what they
\* have received, and push configurations).
TopicsKeep ==
  \A x \in TopicId :
    /\ topic'[x].name = topic[x].name
    /\ topic'[x].attached = topic[x].attached
    /\ topic'[x].deleted = topic[x].deleted
    /\ topic'[x].next_message_id = topic[x].next_message_id
    /\ topic'[x].publishing = topic[x].publishing
    /\ topic'[x].tasks = topic[x].tasks
\* A step that changes mailboxes and calls only.
SubsKeep ==
  \A x \in SubId :
    /\ sub'[x].name = sub[x].name
    /\ sub'[x].topic = sub[x].topic
    /\ sub'[x].deleted = sub[x].deleted
    /\ sub'[x].signalled = sub[x].signalled
    /\ sub'[x].running = sub[x].running
    /\ sub'[x].attached = sub[x].attached
    /\ sub'[x].step = sub[x].step
    /\ sub'[x].caller = sub[x].caller

\* Such a step keeps all that is not about mailboxes and calls.
LEMMA MailStep ==
  ASSUME AlwaysInv, TopicsKeep, SubsKeep,
         UNCHANGED <<topics, topic_next_id, subscriptions, sub_next_id>>,
         \A t \in TopicId \ Topics : topic'[t] = topic[t],
         \A s \in SubId \ Subs : sub'[s] = sub[s],
         \A s \in SubId : ~sub[s].running => sub'[s].mailbox = sub[s].mailbox,
         \A s \in SubId : \A x : /\ Reached(s, x)' => Reached(s, x)
                                 /\ Reached(s, x) => sub[s].deleted \/ Reached(s, x)'
  PROVE  /\ Topics' = Topics /\ Subs' = Subs
         /\ Numbered' /\ Listed' /\ Deletions' /\ OnList' /\ Publishing' /\ Older'
<1>1. UNCHANGED <<Topics, Subs>>
  BY DEF Topics, Subs
<1>2. Numbered'
  BY <1>1, Blank, SMTT(30) DEF AlwaysInv, Numbered, TopicsKeep, SubsKeep
<1>3. Listed'
  BY <1>1, ListedKept DEF AlwaysInv, TopicsKeep, SubsKeep
<1>4. Deletions'
  BY <1>1, SMTT(30) DEF AlwaysInv, Deletions, SubsKeep
<1>5. OnList'
  BY <1>1, OnListKept DEF AlwaysInv, TopicsKeep, SubsKeep
<1>6. Publishing'
  BY PublishingKept DEF AlwaysInv, TopicsKeep, SubsKeep
<1>7. Older'
  BY <1>1, OlderKept DEF AlwaysInv, Numbered, TopicsKeep, SubsKeep
<1>. QED BY <1>1, <1>2, <1>3, <1>4, <1>5, <1>6, <1>7

\* A call that has returned has its type.
LEMMA IdleCall ==
  ASSUME NEW result \in Results
  PROVE  Idle(result) \in Calls
BY DEF Idle, Calls, Results

\* A call that nobody is to answer changes: nothing but the call itself is
\* concerned.
LEMMA CallStep ==
  ASSUME AlwaysInv, NEW c \in Clients, call[c].stage # "awaiting",
         call' \in [Clients -> Calls],
         \A d \in Clients \ {c} : call'[d] = call[d],
         UNCHANGED <<topics, topic_next_id, subscriptions, sub_next_id, registry,
                     topic, sub>>,
         Tracked(c)'
  PROVE  AlwaysInv'
<1>1. /\ Topics' = Topics /\ Subs' = Subs
      /\ Numbered' /\ Listed' /\ Deletions' /\ OnList' /\ Publishing' /\ Older'
  BY MailStep DEF TopicsKeep, SubsKeep, Reached, Posts
<1>2. LifecycleTypes' /\ PostedInOrder'
  BY DEF AlwaysInv, LifecycleTypes, PostedInOrder, Posts
<1>3. CallsTracked'
  BY <1>1, SMTT(30) DEF AlwaysInv, CallsTracked, Tracked
<1>4. TopicRequests'
  BY <1>1, TopicRequestsKept DEF AlwaysInv
<1>5. SubRequests'
  BY SubRequestsKept DEF AlwaysInv
<1>. QED BY <1>1, <1>2, <1>3, <1>4, <1>5 DEF AlwaysInv

\* A call that returns is idle, and the others are where they were.
LEMMA ReturnedTracked ==
  ASSUME AlwaysInv, NEW c \in Clients, NEW result \in Results, Return(c, result)
  PROVE  /\ call' \in [Clients -> Calls]
         /\ \A d \in Clients \ {c} : call'[d] = call[d]
         /\ Tracked(c)' /\ call'[c].stage = "idle" /\ call'[c] = Idle(result)
<1>1. /\ Idle(result) \in Calls /\ call'[c] = Idle(result)
      /\ call' \in [Clients -> Calls]
      /\ \A d \in Clients \ {c} : call'[d] = call[d]
  BY IdleCall DEF AlwaysInv, LifecycleTypes, Return, Returned
<1>2. Tracked(c)' /\ call'[c].stage = "idle"
  BY <1>1, SMTT(30) DEF Tracked, Idle, ToTopic, SubOps
<1>. QED BY <1>1, <1>2

\* A call that returns before it has sent anything keeps the invariant.
LEMMA ReturnedCall ==
  ASSUME AlwaysInv, NEW c \in Clients, NEW result \in Results,
         call[c].stage # "awaiting", Return(c, result),
         UNCHANGED <<topics, topic_next_id, subscriptions, sub_next_id, registry,
                     topic, sub>>
  PROVE  AlwaysInv'
<1>1. /\ call' \in [Clients -> Calls]
      /\ \A d \in Clients \ {c} : call'[d] = call[d]
      /\ Tracked(c)' /\ call'[c].stage = "idle"
  BY ReturnedTracked
<1>. QED BY <1>1, CallStep

\* A caller that looks up its topic keeps the invariant.
LEMMA CallTopicKeeps ==
  ASSUME AlwaysInv, NEW c \in Clients, NEW n \in TopicNames,
         NEW op \in {"publish", "delete_topic", "get_topic"}
  PROVE  CallTopic(c, op, n) => AlwaysInv'
<1>1. SUFFICES ASSUME CallTopic(c, op, n) PROVE AlwaysInv'
  OBVIOUS
<1>2. CASE topics[n] = None
  BY <1>1, <1>2, ReturnedCall DEF CallTopic, Results
<1>3. CASE topics[n] # None
  <2>. DEFINE new == [Idle("none") EXCEPT !.op = op, !.topic = topics[n],
                                          !.stage = "calling"]
  <2>1. /\ topics[n] \in Topics /\ topics[n] \in TopicId
        /\ call \in [Clients -> Calls]
    BY <1>3 DEF AlwaysInv, Numbered, LifecycleTypes
  <2>2. /\ new.op = op /\ new.topic = topics[n]
        /\ new.sub = None /\ new.stage = "calling"
    BY DEF Idle
  <2>a. new \in Calls
    <3>1. Idle("none") \in Calls
      BY IdleCall DEF Results
    <3>. QED BY <2>1, <3>1 DEF Calls, ToTopic, SubOps
  <2>. HIDE DEF new
  <2>3. /\ call[c].stage = "idle" /\ call' = [call EXCEPT ![c] = new]
        /\ UNCHANGED <<topics, topic_next_id, subscriptions, sub_next_id,
                       registry, topic, sub>>
    BY <1>1, <1>3 DEF CallTopic, new
  <2>4. Tracked(c)'
    BY <1>3, <2>1, <2>2, <2>a, <2>3 DEF Tracked, ToTopic, SubOps, Topics
  <2>. QED BY <2>1, <2>2, <2>a, <2>3, <2>4, CallStep
<1>. QED BY <1>2, <1>3

\* A caller that finds the name of its subscription free keeps the
\* invariant.
LEMMA CreateSubscriptionKeeps ==
  ASSUME AlwaysInv, NEW c \in Clients, NEW n \in SubNames, NEW tn \in TopicNames,
         NEW config \in Configs \cup {None}
  PROVE  CreateSubscription(c, n, tn, config) => AlwaysInv'
<1>1. SUFFICES ASSUME CreateSubscription(c, n, tn, config) PROVE AlwaysInv'
  OBVIOUS
<1>2. CASE topics[tn] = None
  BY <1>1, <1>2, ReturnedCall DEF Results, CreateSubscription
<1>3. CASE topics[tn] # None
  <2>. DEFINE new == [Idle("none") EXCEPT !.op = "create_subscription",
                        !.name = n, !.topic = topics[tn], !.stage = "creating",
                        !.push_config = config]
  <2>1. /\ topics[tn] \in Topics /\ topics[tn] \in TopicId
        /\ call \in [Clients -> Calls]
    BY <1>3 DEF AlwaysInv, Numbered, LifecycleTypes
  <2>2. /\ new.op = "create_subscription"
        /\ new.topic = topics[tn] /\ new.name = n
        /\ new.sub = None /\ new.stage = "creating"
    BY DEF Idle
  <2>a. new \in Calls
    <3>1. Idle("none") \in Calls
      BY IdleCall DEF Results
    <3>. QED BY <2>1, <3>1 DEF Calls, ToTopic, SubOps
  <2>. HIDE DEF new
  <2>3. /\ call[c].stage = "idle" /\ call' = [call EXCEPT ![c] = new]
        /\ UNCHANGED <<topics, topic_next_id, subscriptions, sub_next_id,
                       registry, topic, sub>>
    BY <1>1, <1>3 DEF CreateSubscription, new
  <2>4. Tracked(c)'
    BY <1>3, <2>1, <2>2, <2>a, <2>3 DEF Tracked, ToTopic, SubOps, Topics
  <2>. QED BY <2>1, <2>2, <2>a, <2>3, <2>4, CallStep
<1>. QED BY <1>2, <1>3

\* A caller that looks up its subscription keeps the invariant.
LEMMA CallSubscriptionKeeps ==
  ASSUME AlwaysInv, NEW c \in Clients, NEW n \in SubNames, NEW op \in SubOps,
         NEW config \in Configs \cup {None}
  PROVE  CallSubscription(c, op, n, config) => AlwaysInv'
<1>1. SUFFICES ASSUME CallSubscription(c, op, n, config) PROVE AlwaysInv'
  OBVIOUS
<1>2. CASE subscriptions[n] = None
  BY <1>1, <1>2, ReturnedCall DEF Results, CallSubscription
<1>3. CASE subscriptions[n] # None
  <2>. DEFINE new == [Idle("none") EXCEPT !.op = op, !.sub = subscriptions[n],
                            !.push_config = config, !.stage = "calling"]
  <2>1. /\ subscriptions[n] \in Subs /\ subscriptions[n] \in SubId
        /\ call \in [Clients -> Calls]
    BY <1>3 DEF AlwaysInv, Numbered, LifecycleTypes
  <2>2. /\ new.op = op /\ new.topic = None
        /\ new.sub = subscriptions[n] /\ new.stage = "calling"
    BY DEF Idle
  <2>a. new \in Calls
    <3>1. Idle("none") \in Calls
      BY IdleCall DEF Results
    <3>. QED BY <2>1, <3>1 DEF Calls, ToTopic, SubOps
  <2>. HIDE DEF new
  <2>3. /\ call[c].stage = "idle" /\ call' = [call EXCEPT ![c] = new]
        /\ UNCHANGED <<topics, topic_next_id, subscriptions, sub_next_id,
                       registry, topic, sub>>
    BY <1>1, <1>3 DEF CallSubscription, new
  <2>4. Tracked(c)'
    BY <1>3, <2>1, <2>2, <2>3 DEF Tracked, ToTopic, SubOps, Subs
  <2>. QED BY <2>1, <2>2, <2>a, <2>3, <2>4, CallStep
<1>. QED BY <1>2, <1>3

\* The call's request reaches a mailbox.
LEMMA Sent ==
  ASSUME AlwaysInv, NEW c \in Clients, call[c].stage = "calling",
         call' = [call EXCEPT ![c].stage = "awaiting"]
  PROVE  /\ call' \in [Clients -> Calls]
         /\ \A d \in Clients \ {c} : call'[d] = call[d]
         /\ call'[c].stage = "awaiting" /\ call'[c].op = call[c].op
         /\ call'[c].name = call[c].name /\ call'[c].topic = call[c].topic
         /\ call'[c].sub = call[c].sub
BY SMTT(30) DEF AlwaysInv, LifecycleTypes, Calls

\* The request a caller sends.
SentRequest(c) ==
  [Request(call[c].op, c) EXCEPT !.sub = call[c].sub,
                                 !.push_config = call[c].push_config]

\* It has its type.
LEMMA SentRequests ==
  ASSUME AlwaysInv, NEW c \in Clients, call[c].op # "none"
  PROVE  LET r == SentRequest(c)
         IN  /\ r \in Requests
             /\ r.op = call[c].op /\ r.from = c /\ r.sub = call[c].sub
<1>1. call[c] \in Calls
  BY DEF AlwaysInv, LifecycleTypes
<1>. DEFINE r == SentRequest(c)
<1>2. r.op = call[c].op /\ r.from = c /\ r.sub = call[c].sub
  BY DEF SentRequest, Request
<1>3. Request(call[c].op, c) \in Requests
  BY <1>1 DEF Calls, Requests, Request
<1>4. r \in Requests
  BY <1>1, <1>3 DEF Calls, Requests, SentRequest
<1>. QED BY <1>2, <1>4

\* A topic's requests stay right when one more is sent.
LEMMA TopicMail ==
  ASSUME NEW t \in TopicId, TopicRequestsOf(t), NEW r,
         Grown(topic[t].mailbox, topic'[t].mailbox, r),
         topic'[t].publishing = topic[t].publishing,
         topic[t].publishing # r.from, OfCall(r, t)' \/ OfSub(r, t)',
         \A q : OfCall(q, t) => OfCall(q, t)' /\ q.from # r.from,
         \A q : OfSub(q, t) => OfSub(q, t)' /\ q.from # r.from,
         topic[t].publishing # None =>
           call'[topic[t].publishing] = call[topic[t].publishing]
  PROVE  TopicRequestsOf(t)'
<1>. DEFINE M == topic[t].mailbox
<1>1. PICK last \in DOMAIN M' :
        /\ M'[last] = r
        /\ \A i \in DOMAIN M' :
             i = last \/ (i \in DOMAIN M /\ i < last /\ M'[i] = M[i])
        /\ last \notin DOMAIN M
  BY DEF Grown
<1>. HIDE DEF M
<1>2. \A i \in DOMAIN M :
        (OfCall(M[i], t) \/ OfSub(M[i], t)) /\ M[i].from # topic[t].publishing
  BY DEF TopicRequestsOf, M
<1>3. \A i, j \in DOMAIN M : M[i].from = M[j].from => i = j
  BY DEF TopicRequestsOf, M
<1>4. (\A i \in DOMAIN M :
         (OfCall(M[i], t) \/ OfSub(M[i], t)) /\ M[i].from # topic[t].publishing)'
  BY <1>1, <1>2
<1>5. (\A i, j \in DOMAIN M : M[i].from = M[j].from => i = j)'
  BY <1>1, <1>2, <1>3, SMTT(30)
<1>. QED BY <1>4, <1>5 DEF TopicRequestsOf, M

\* Sending a request to a topic keeps the invariant.
LEMMA SendToTopicKeeps ==
  ASSUME AlwaysInv, NEW c \in Clients, NEW t, t = call[c].topic,
         NEW r, r = SentRequest(c)
  PROVE  /\ call[c].stage = "calling" /\ call[c].op \in ToTopic
         /\ topic' = [topic EXCEPT ![t] = Enqueue(topic[t], r)]
         /\ call' = [call EXCEPT ![c].stage = "awaiting"]
         /\ UNCHANGED <<topics, topic_next_id, subscriptions, sub_next_id,
                        registry, sub>>
         => AlwaysInv'
<1>1. SUFFICES
        ASSUME call[c].stage = "calling", call[c].op \in ToTopic,
               topic' = [topic EXCEPT ![t] = Enqueue(topic[t], r)],
               call' = [call EXCEPT ![c].stage = "awaiting"],
               UNCHANGED <<topics, topic_next_id, subscriptions, sub_next_id,
                           registry, sub>>
        PROVE  AlwaysInv'
  OBVIOUS
<1>2. /\ t \in Topics /\ t \in TopicId /\ r \in Requests
      /\ r.op = call[c].op /\ r.from = c /\ r.sub = call[c].sub
  BY <1>1, SentRequests DEF AlwaysInv, CallsTracked, Tracked, Numbered, ToTopic
<1>3. /\ topic' \in [TopicId -> TopicActors] /\ TopicsKeep
      /\ \A x \in TopicId \ {t} : topic'[x] = topic[x]
      /\ Grown(topic[t].mailbox, topic'[t].mailbox, r)
  BY <1>1, <1>2, TopicEnqueued, SMTT(30)
     DEF AlwaysInv, LifecycleTypes, TopicsKeep
<1>4. /\ call' \in [Clients -> Calls]
      /\ \A d \in Clients \ {c} : call'[d] = call[d]
      /\ call'[c].stage = "awaiting" /\ call'[c].op = call[c].op
      /\ call'[c].name = call[c].name /\ call'[c].topic = call[c].topic
      /\ call'[c].sub = call[c].sub
  BY <1>1, Sent
<1>5. /\ Topics' = Topics /\ Subs' = Subs
      /\ Numbered' /\ Listed' /\ Deletions' /\ OnList' /\ Publishing' /\ Older'
  BY <1>1, <1>2, <1>3, MailStep DEF SubsKeep, Reached, Posts
<1>6. LifecycleTypes' /\ PostedInOrder'
  BY <1>1, <1>3, <1>4 DEF AlwaysInv, LifecycleTypes, PostedInOrder, Posts
<1>7. CallsTracked'
  BY <1>1, <1>4, <1>5, TrackedKept
<1>8. SubRequests'
  <2>1. ToTopic \cap SubOps = {}
    BY DEF ToTopic, SubOps
  <2>. QED BY <1>1, <1>4, <2>1, SubRequestsKept DEF AlwaysInv
<1>9. TopicRequests'
  <2>. SUFFICES ASSUME NEW x \in TopicId PROVE TopicRequestsOf(x)'
    BY DEF TopicRequests
  <2>1. TopicRequestsOf(x)
    BY DEF AlwaysInv, TopicRequests
  <2>2. \A q : OfCall(q, x) => OfCall(q, x)' /\ q.from # c
    BY <1>1, <1>4 DEF OfCall
  <2>3. \A q : OfSub(q, x) => OfSub(q, x)' /\ q.from # c
    BY <1>1, <1>5, LifecycleAssumption, SMTT(30) DEF OfSub, Subs
  <2>4. topic[x].publishing # c /\ topic'[x].publishing = topic[x].publishing
    BY <1>1, <1>3, <2>1, LifecycleAssumption, SMTT(30)
       DEF TopicsKeep, TopicRequestsOf
  <2>5. topic[x].publishing # None =>
          call'[topic[x].publishing] = call[topic[x].publishing]
    BY <1>4, <2>4 DEF AlwaysInv, LifecycleTypes, TopicActors
  <2>6. CASE x # t
    BY <1>3, <2>1, <2>2, <2>3, <2>4, <2>5, <2>6, SMTT(30) DEF TopicRequestsOf
  <2>7. CASE x = t
    <3>1. OfCall(r, t)'
      BY <1>1, <1>2, <1>4 DEF OfCall
    <3>. QED BY <1>2, <1>3, <2>1, <2>2, <2>3, <2>4, <2>5, <2>7, <3>1,
                TopicMail, SMTT(30)
  <2>. QED BY <2>6, <2>7
<1>. QED BY <1>5, <1>6, <1>7, <1>8, <1>9 DEF AlwaysInv

\* What becomes of a subscription's messages when its mailbox grows, shrinks or
\* is dropped.
PostedOf(s) ==
  /\ \A i, j \in DOMAIN sub[s].received :
       i < j => sub[s].received[i] < sub[s].received[j]
  /\ \A i, j \in Posts(s) :
       i < j => sub[s].mailbox[i].id < sub[s].mailbox[j].id
  /\ \A i \in DOMAIN sub[s].received, j \in Posts(s) :
       sub[s].received[i] < sub[s].mailbox[j].id

\* Posts arrive in order just if they do at every subscription.
LEMMA PostedOfAll == PostedInOrder <=> \A s \in SubId : PostedOf(s)
BY DEF PostedInOrder, PostedOf

\* A request that is not a post adds none, and a post adds itself.
LEMMA PostedGrows ==
  ASSUME NEW s \in SubId, PostedOf(s), NEW r,
         sub'[s].received = sub[s].received,
         Grown(sub[s].mailbox, sub'[s].mailbox, r),
         r.op = "post" => \A x : Reached(s, x) => x < r.id
  PROVE  /\ PostedOf(s)'
         /\ \A x : Reached(s, x)' <=> Reached(s, x) \/ (r.op = "post" /\ x = r.id)
<1>. DEFINE M == sub[s].mailbox
            R == sub[s].received
<1>1. PICK last \in DOMAIN M' :
        /\ M'[last] = r
        /\ \A i \in DOMAIN M' :
             i = last \/ (i \in DOMAIN M /\ i < last /\ M'[i] = M[i])
        /\ last \notin DOMAIN M
        /\ \A i \in DOMAIN M : i \in DOMAIN M' /\ M'[i] = M[i]
  BY DEF Grown
<1>2. /\ \A i \in Posts(s)' : (i = last /\ r.op = "post") \/ (i \in Posts(s) /\ i < last)
      /\ \A i \in Posts(s) : i \in Posts(s)'
      /\ r.op = "post" => last \in Posts(s)'
  BY <1>1 DEF Posts
<1>3. \A x : Reached(s, x)' <=> Reached(s, x) \/ (r.op = "post" /\ x = r.id)
  BY <1>1, <1>2 DEF Reached, Posts
<1>4. r.op = "post" => /\ \A i \in DOMAIN R : R[i] < r.id
                       /\ \A i \in Posts(s) : M[i].id < r.id
  BY DEF Reached
<1>5. \A i \in DOMAIN M' : i \in Nat
  <2>1. M' \in Seq(Requests)
    BY DEF Grown
  <2>. HIDE DEF M
  <2>. QED BY <2>1, SMTT(30)
<1>6. (\A i, j \in Posts(s) : i < j => sub[s].mailbox[i].id < sub[s].mailbox[j].id)'
  <2>. SUFFICES ASSUME NEW i \in Posts(s)', NEW j \in Posts(s)', i < j
                PROVE  M'[i].id < M'[j].id
    OBVIOUS
  <2>1. i \in DOMAIN M' /\ j \in DOMAIN M'
    BY DEF Posts
  <2>2. i # last
    BY <1>2, <1>5, <2>1, SMTT(30)
  <2>3. i \in Posts(s) /\ M'[i] = M[i]
    BY <1>1, <1>2, <2>1, <2>2
  <2>4. CASE j = last
    <3>1. M'[j] = r /\ r.op = "post"
      BY <1>1, <2>4 DEF Posts
    <3>2. M[i].id < r.id
      BY <1>4, <2>3, <3>1
    <3>. QED BY <2>3, <3>1, <3>2
  <2>5. CASE j # last
    <3>1. j \in Posts(s) /\ M'[j] = M[j]
      BY <1>1, <1>2, <2>1, <2>5
    <3>2. M[i].id < M[j].id
      BY <2>3, <3>1 DEF PostedOf
    <3>. QED BY <2>3, <3>1, <3>2
  <2>. QED BY <2>4, <2>5
<1>7. (\A i \in DOMAIN sub[s].received, j \in Posts(s) :
         sub[s].received[i] < sub[s].mailbox[j].id)'
  <2>. SUFFICES ASSUME NEW i \in DOMAIN R, NEW j \in Posts(s)'
                PROVE  R[i] < M'[j].id
    OBVIOUS
  <2>1. j \in DOMAIN M'
    BY DEF Posts
  <2>2. CASE j = last
    <3>1. M'[j] = r /\ r.op = "post"
      BY <1>1, <2>2 DEF Posts
    <3>. QED BY <1>4, <3>1
  <2>3. CASE j # last
    <3>1. j \in Posts(s) /\ M'[j] = M[j]
      BY <1>1, <1>2, <2>1, <2>3
    <3>2. R[i] < M[j].id
      BY <3>1 DEF PostedOf
    <3>. QED BY <3>1, <3>2
  <2>. QED BY <2>2, <2>3
<1>8. (\A i, j \in DOMAIN sub[s].received :
         i < j => sub[s].received[i] < sub[s].received[j])'
  BY DEF PostedOf
<1>. QED BY <1>3, <1>6, <1>7, <1>8 DEF PostedOf

\* Taking the oldest request moves a post from the mailbox to what was
\* received, or drops it.
LEMMA PostedShrinks ==
  ASSUME NEW s \in SubId, PostedOf(s), sub[s].received \in Seq(Nat),
         sub[s].mailbox \in Seq(Requests),
         Shrunk(sub[s].mailbox, sub'[s].mailbox), NEW h, h = sub[s].mailbox[1],
         sub'[s].received = IF h.op = "post" /\ ~sub[s].deleted
                            THEN Append(sub[s].received, h.id)
                            ELSE sub[s].received
  PROVE  /\ PostedOf(s)'
         /\ \A x : Reached(s, x)' => Reached(s, x)
         /\ \A x : Reached(s, x) => sub[s].deleted \/ Reached(s, x)'
<1>. DEFINE M == sub[s].mailbox
            R == sub[s].received
<1>1. /\ 1 \in DOMAIN M
      /\ \A i \in DOMAIN M' : i > 0 /\ i + 1 \in DOMAIN M /\ M'[i] = M[i + 1]
      /\ \A i \in DOMAIN M : i = 1 \/ (i - 1 \in DOMAIN M' /\ M'[i - 1] = M[i])
      /\ M' \in Seq(Requests)
  BY DEF Shrunk
<1>2. /\ \A i \in DOMAIN M : i \in Nat
      /\ \A i \in DOMAIN M' : i \in Nat
      /\ h \in Requests /\ h.id \in Nat
  <2>1. M \in Seq(Requests) /\ h = M[1] /\ M' \in Seq(Requests)
    BY <1>1
  <2>. HIDE DEF M
  <2>2. /\ \A i \in DOMAIN M : i \in Nat /\ M[i] \in Requests
        /\ \A i \in DOMAIN M' : i \in Nat
    BY <2>1, SMTT(30)
  <2>3. h \in Requests
    BY <1>1, <2>1, <2>2
  <2>4. h.id \in Nat
    BY <2>3 DEF Requests
  <2>. QED BY <2>2, <2>3, <2>4
<1>3. /\ \A i \in Posts(s)' : i + 1 \in Posts(s) /\ M'[i] = M[i + 1]
      /\ \A i \in Posts(s) : i = 1 \/ (i - 1 \in Posts(s)' /\ M'[i - 1] = M[i])
      /\ 1 \in Posts(s) <=> h.op = "post"
  BY <1>1, <1>2 DEF Posts
<1>4. (\A i, j \in Posts(s) : i < j => sub[s].mailbox[i].id < sub[s].mailbox[j].id)'
  <2>. SUFFICES ASSUME NEW i \in Posts(s)', NEW j \in Posts(s)', i < j
                PROVE  M'[i].id < M'[j].id
    OBVIOUS
  <2>1. i \in Nat /\ j \in Nat /\ i + 1 < j + 1
    BY <1>2, SMTT(30) DEF Posts
  <2>2. M[i + 1].id < M[j + 1].id
    BY <1>3, <2>1 DEF PostedOf
  <2>. QED BY <1>3, <2>2
<1>5. CASE h.op = "post" /\ ~sub[s].deleted
  <2>1. /\ R' = Append(R, h.id) /\ R \in Seq(Nat)
    BY <1>5
  <2>2. /\ DOMAIN R = 1..Len(R) /\ Len(R) \in Nat
        /\ DOMAIN R' = 1..(Len(R) + 1)
        /\ \A i \in DOMAIN R : R'[i] = R[i]
        /\ R'[Len(R) + 1] = h.id
    <3>. HIDE DEF R
    <3>. QED BY <1>2, <2>1, SMTT(30)
  <2>3. \A i \in DOMAIN R : R[i] < h.id /\ R[i] \in Nat
    BY <1>1, <1>3, <1>5, SMTT(30) DEF PostedOf
  <2>4. \A j \in Posts(s)' : h.id < M'[j].id
    <3>. SUFFICES ASSUME NEW j \in Posts(s)' PROVE h.id < M'[j].id
      OBVIOUS
    <3>1. 1 \in Posts(s) /\ j + 1 \in Posts(s) /\ M'[j] = M[j + 1] /\ 1 < j + 1
      BY <1>1, <1>2, <1>3, <1>5, SMTT(30) DEF Posts
    <3>2. M[1].id < M[j + 1].id
      BY <3>1 DEF PostedOf
    <3>. QED BY <3>1, <3>2
  <2>. HIDE DEF R
  <2>5. (\A i, j \in DOMAIN R : i < j => R[i] < R[j])'
    <3>1. \A i, j \in DOMAIN R : i < j => R[i] < R[j]
      BY DEF PostedOf, R
    <3>. QED BY <2>2, <2>3, <3>1, SMTT(30)
  <2>6. (\A i \in DOMAIN R, j \in Posts(s) : R[i] < sub[s].mailbox[j].id)'
    <3>1. SUFFICES ASSUME NEW i \in DOMAIN R', NEW j \in Posts(s)'
                   PROVE  R'[i] < M'[j].id
      OBVIOUS
    <3>2. CASE i = Len(R) + 1
      BY <2>2, <2>4, <3>2
    <3>3. CASE i # Len(R) + 1
      <4>1. i \in DOMAIN R /\ R'[i] = R[i]
        BY <2>2, <3>3, SMTT(30)
      <4>2. j + 1 \in Posts(s) /\ M'[j] = M[j + 1]
        BY <1>3
      <4>. QED BY <4>1, <4>2 DEF PostedOf, R
    <3>. QED BY <3>2, <3>3
  <2>7. PostedOf(s)'
    BY <1>4, <2>5, <2>6 DEF PostedOf, R
  <2>8. \A x : Reached(s, x)' => Reached(s, x)
    <3>. SUFFICES ASSUME NEW x, Reached(s, x)' PROVE Reached(s, x)
      OBVIOUS
    <3>1. CASE \E i \in DOMAIN R' : R'[i] = x
      BY <1>1, <1>3, <1>5, <2>2, <3>1, SMTT(30) DEF Reached, R
    <3>2. CASE \E i \in Posts(s)' : M'[i].id = x
      BY <1>3, <3>2, SMTT(30) DEF Reached
    <3>. QED BY <3>1, <3>2 DEF Reached, R
  <2>9. \A x : Reached(s, x) => Reached(s, x)'
    <3>. SUFFICES ASSUME NEW x, Reached(s, x) PROVE Reached(s, x)'
      OBVIOUS
    <3>1. CASE \E i \in DOMAIN R : R[i] = x
      <4>1. \E i \in DOMAIN R' : R'[i] = x
        BY <2>2, <3>1, SMTT(30)
      <4>. QED BY <4>1 DEF Reached, R
    <3>2. CASE \E i \in Posts(s) : M[i].id = x
      <4>1. PICK i \in Posts(s) : M[i].id = x
        BY <3>2
      <4>2. CASE i = 1
        <5>1. Len(R) + 1 \in DOMAIN R' /\ R'[Len(R) + 1] = x
          BY <2>2, <4>1, <4>2, SMTT(30)
        <5>. QED BY <5>1 DEF Reached, R
      <4>3. CASE i # 1
        BY <1>3, <4>1, <4>3 DEF Reached
      <4>. QED BY <4>2, <4>3
    <3>. QED BY <3>1, <3>2 DEF Reached, R
  <2>. QED BY <2>7, <2>8, <2>9
<1>6. CASE ~(h.op = "post" /\ ~sub[s].deleted)
  <2>1. R' = R
    BY <1>6
  <2>2. PostedOf(s)'
    BY <1>3, <1>4, <2>1 DEF PostedOf
  <2>3. \A x : Reached(s, x)' => Reached(s, x)
    BY <1>3, <2>1, SMTT(30) DEF Reached
  <2>4. \A x : Reached(s, x) => sub[s].deleted \/ Reached(s, x)'
    BY <1>3, <1>6, <2>1 DEF Reached
  <2>. QED BY <2>2, <2>3, <2>4
<1>. QED BY <1>5, <1>6

\* A subscription's requests stay right when one more is sent.
LEMMA SubMail ==
  ASSUME NEW s \in SubId, SubRequestsOf(s), NEW r,
         Grown(sub[s].mailbox, sub'[s].mailbox, r),
         sub'[s].caller = sub[s].caller,
         \/ r.from = None /\ r.op = "post"
         \/ FromCall(r, s)' /\ r.from # sub[s].caller,
         \A q : FromCall(q, s) => FromCall(q, s)' /\ q.from # r.from,
         sub[s].caller # None => call'[sub[s].caller] = call[sub[s].caller]
  PROVE  SubRequestsOf(s)'
<1>. DEFINE M == sub[s].mailbox
            IsPost(q) == q.from = None /\ q.op = "post"
<1>1. PICK last \in DOMAIN M' :
        /\ M'[last] = r
        /\ \A i \in DOMAIN M' :
             i = last \/ (i \in DOMAIN M /\ i < last /\ M'[i] = M[i])
        /\ last \notin DOMAIN M
  BY DEF Grown
<1>. HIDE DEF M
<1>2. \A i \in DOMAIN M :
        IsPost(M[i]) \/ (FromCall(M[i], s) /\ M[i].from # sub[s].caller)
  BY DEF SubRequestsOf, M
<1>3. \A i, j \in DOMAIN M : M[i].from = M[j].from => i = j \/ M[i].from = None
  BY DEF SubRequestsOf, M
<1>4. \A q : FromCall(q, s)' => q.from # None
  BY LifecycleAssumption DEF FromCall
<1>5. (\A i \in DOMAIN M :
         IsPost(M[i]) \/ (FromCall(M[i], s) /\ M[i].from # sub[s].caller))'
  BY <1>1, <1>2
<1>6. (\A i, j \in DOMAIN M :
         M[i].from = M[j].from => i = j \/ M[i].from = None)'
  BY <1>1, <1>2, <1>3, <1>4, SMTT(30)
<1>. QED BY <1>5, <1>6 DEF SubRequestsOf, M

\* Sending a request to a subscription keeps the invariant.
LEMMA SendToSubKeeps ==
  ASSUME AlwaysInv, NEW c \in Clients, NEW s, s = call[c].sub,
         NEW r, r = SentRequest(c)
  PROVE  /\ call[c].stage = "calling" /\ call[c].op \notin ToTopic
         /\ sub[s].running
         /\ sub' = [sub EXCEPT ![s] = Enqueue(sub[s], r)]
         /\ call' = [call EXCEPT ![c].stage = "awaiting"]
         /\ UNCHANGED <<topics, topic_next_id, subscriptions, sub_next_id,
                        registry, topic>>
         => AlwaysInv'
<1>1. SUFFICES
        ASSUME call[c].stage = "calling", call[c].op \notin ToTopic,
               sub[s].running,
               sub' = [sub EXCEPT ![s] = Enqueue(sub[s], r)],
               call' = [call EXCEPT ![c].stage = "awaiting"],
               UNCHANGED <<topics, topic_next_id, subscriptions, sub_next_id,
                           registry, topic>>
        PROVE  AlwaysInv'
  OBVIOUS
<1>2. /\ s \in Subs /\ s \in SubId /\ r \in Requests
      /\ r.op = call[c].op /\ r.from = c /\ r.sub = call[c].sub
      /\ r.op \in SubOps /\ r.op # "post"
  <2>1. call[c].op \in SubOps
    BY <1>1 DEF AlwaysInv, CallsTracked, Tracked
  <2>2. call[c].op # "none" /\ call[c].op # "post"
    BY <2>1 DEF SubOps
  <2>. QED BY <2>1, <2>2, SentRequests
              DEF AlwaysInv, CallsTracked, Tracked, Numbered
<1>3. /\ sub' \in [SubId -> SubActors] /\ SubsKeep
      /\ \A x \in SubId \ {s} : sub'[x] = sub[x]
      /\ Grown(sub[s].mailbox, sub'[s].mailbox, r)
      /\ sub'[s].received = sub[s].received
  BY <1>1, <1>2, SubEnqueued, SMTT(30) DEF AlwaysInv, LifecycleTypes, SubsKeep
<1>4. /\ call' \in [Clients -> Calls]
      /\ \A d \in Clients \ {c} : call'[d] = call[d]
      /\ call'[c].stage = "awaiting" /\ call'[c].op = call[c].op
      /\ call'[c].name = call[c].name /\ call'[c].topic = call[c].topic
      /\ call'[c].sub = call[c].sub
  BY <1>1, Sent
<1>5. \A x \in SubId : PostedOf(x)' /\ \A y : Reached(x, y)' <=> Reached(x, y)
  <2>. SUFFICES ASSUME NEW x \in SubId
                PROVE  PostedOf(x)' /\ \A y : Reached(x, y)' <=> Reached(x, y)
    OBVIOUS
  <2>1. PostedOf(x)
    BY PostedOfAll DEF AlwaysInv
  <2>2. CASE x = s
    BY <1>2, <1>3, <2>1, <2>2, PostedGrows
  <2>3. CASE x # s
    BY <1>3, <2>1, <2>3 DEF PostedOf, Posts, Reached
  <2>. QED BY <2>2, <2>3
<1>6. /\ Topics' = Topics /\ Subs' = Subs
      /\ Numbered' /\ Listed' /\ Deletions' /\ OnList' /\ Publishing' /\ Older'
  BY <1>1, <1>2, <1>3, <1>5, MailStep DEF TopicsKeep
<1>7. LifecycleTypes' /\ PostedInOrder'
  <2>1. (\A x \in SubId : PostedOf(x))' => PostedInOrder'
    BY DEF PostedInOrder, PostedOf
  <2>. QED BY <1>1, <1>3, <1>4, <1>5, <2>1 DEF AlwaysInv, LifecycleTypes
<1>8. CallsTracked'
  BY <1>1, <1>3, <1>4, <1>6, TrackedKept DEF AlwaysInv, Numbered, SubsKeep
<1>9. TopicRequests'
  <2>1. \A x \in Subs : x \in SubId
    BY DEF AlwaysInv, Numbered
  <2>2. \A d \in Clients : call[d].stage = "awaiting" => call'[d] = call[d]
    BY <1>1, <1>4
  <2>. QED BY <1>1, <1>3, <1>6, <2>1, <2>2, TopicRequestsKept
              DEF AlwaysInv, SubsKeep
<1>10. SubRequests'
  <2>. SUFFICES ASSUME NEW x \in SubId PROVE SubRequestsOf(x)'
    BY DEF SubRequests
  <2>1. SubRequestsOf(x)
    BY DEF AlwaysInv, SubRequests
  <2>2. \A q : FromCall(q, x) => FromCall(q, x)' /\ q.from # c
    BY <1>1, <1>4 DEF FromCall
  <2>3. sub[x].caller # c /\ sub'[x].caller = sub[x].caller
    <3>1. sub[x].caller # c
      BY <1>1, <2>1, LifecycleAssumption DEF SubRequestsOf
    <3>. QED BY <1>3, <3>1 DEF SubsKeep
  <2>4. sub[x].caller # None => call'[sub[x].caller] = call[sub[x].caller]
    BY <1>4, <2>3 DEF AlwaysInv, LifecycleTypes, SubActors
  <2>5. CASE x # s
    <3>1. sub'[x].mailbox = sub[x].mailbox /\ sub'[x].caller = sub[x].caller
      BY <1>3, <2>3, <2>5
    <3>. QED BY <2>1, <2>2, <2>4, <3>1 DEF SubRequestsOf
  <2>6. CASE x = s
    <3>1. FromCall(r, s)'
      BY <1>1, <1>2, <1>4 DEF FromCall
    <3>. QED BY <1>2, <1>3, <2>1, <2>2, <2>3, <2>4, <2>6, <3>1, SubMail
  <2>. QED BY <2>5, <2>6
<1>. QED BY <1>6, <1>7, <1>8, <1>9, <1>10 DEF AlwaysInv

\* Sending a request keeps the invariant.
LEMMA SendKeeps ==
  ASSUME AlwaysInv, NEW c \in Clients
  PROVE  Send(c) => AlwaysInv'
<1>1. SUFFICES ASSUME Send(c) PROVE AlwaysInv'
  OBVIOUS
<1>2. PICK r : r = SentRequest(c)
  OBVIOUS
<1>3. CASE call[c].op \in ToTopic
  <2>1. topic' = [topic EXCEPT ![call[c].topic] = Enqueue(topic[call[c].topic], r)]
    BY <1>1, <1>2, <1>3 DEF Send, SentRequest
  <2>. QED BY <1>1, <1>2, <1>3, <2>1, SendToTopicKeeps DEF Send
<1>4. CASE call[c].op \notin ToTopic /\ sub[call[c].sub].running
  <2>1. sub' = [sub EXCEPT ![call[c].sub] = Enqueue(sub[call[c].sub], r)]
    BY <1>1, <1>2, <1>4 DEF Send, SentRequest
  <2>. QED BY <1>1, <1>2, <1>4, <2>1, SendToSubKeeps DEF Send
<1>5. CASE call[c].op \notin ToTopic /\ ~sub[call[c].sub].running
  BY <1>1, <1>5, ReturnedCall DEF Send, Results
<1>. QED BY <1>3, <1>4, <1>5

\* create_topic keeps the invariant.
LEMMA CreateTopicKeeps ==
  ASSUME AlwaysInv, NEW c \in Clients, NEW n \in TopicNames
  PROVE  CreateTopic(c, n) => AlwaysInv'
<1>1. SUFFICES ASSUME CreateTopic(c, n) PROVE AlwaysInv'
  OBVIOUS
<1>2. CASE topics[n] # None
  BY <1>1, <1>2, ReturnedCall DEF CreateTopic, Results
<1>3. CASE topics[n] = None
  <2>1. PICK t \in TopicId :
          /\ t = topic_next_id + 1 /\ topic_next_id' = t
          /\ topics' = [topics EXCEPT ![n] = t]
          /\ topic' = [topic EXCEPT ![t].name = n]
          /\ call' = [call EXCEPT ![c] =
                        [Idle("none") EXCEPT !.op = "get_topic",
                           !.topic = t, !.stage = "calling"]]
    BY <1>1, <1>3 DEF CreateTopic
  <2>2. /\ call[c].stage = "idle"
        /\ UNCHANGED <<subscriptions, sub_next_id, registry, sub>>
    BY <1>1 DEF CreateTopic
  <2>3. /\ Topics' = Topics \cup {t} /\ t \notin Topics /\ Subs' = Subs
        /\ topic[t] = NoTopic
    BY <2>1, <2>2, SMTT(30)
       DEF Topics, Subs, AlwaysInv, LifecycleTypes, Numbered
  <2>4. /\ topic' \in [TopicId -> TopicActors]
        /\ \A x \in TopicId \ {t} : topic'[x] = topic[x]
        /\ topic'[t].name = n
        /\ \A x \in TopicId :
             /\ topic'[x].attached = topic[x].attached
             /\ topic'[x].deleted = topic[x].deleted
             /\ topic'[x].next_message_id = topic[x].next_message_id
             /\ topic'[x].publishing = topic[x].publishing
             /\ topic'[x].tasks = topic[x].tasks
             /\ topic'[x].mailbox = topic[x].mailbox
    <3>. DEFINE new == [topic[t] EXCEPT !.name = n]
    <3>1. topic[t] \in TopicActors /\ topic \in [TopicId -> TopicActors]
      BY DEF AlwaysInv, LifecycleTypes
    <3>2. /\ new.name = n /\ new.attached = topic[t].attached
          /\ new.deleted = topic[t].deleted
          /\ new.next_message_id = topic[t].next_message_id
          /\ new.publishing = topic[t].publishing
          /\ new.tasks = topic[t].tasks /\ new.mailbox = topic[t].mailbox
      BY <3>1 DEF TopicActors
    <3>3. new \in TopicActors
      BY <3>1 DEF TopicActors
    <3>4. topic' = [topic EXCEPT ![t] = new]
      BY <2>1, <3>1
    <3>. HIDE DEF new
    <3>. QED BY <3>1, <3>2, <3>3, <3>4
  <2>5. /\ call' \in [Clients -> Calls]
        /\ \A d \in Clients \ {c} : call'[d] = call[d]
        /\ call'[c].stage = "calling" /\ call'[c].op = "get_topic"
        /\ call'[c].topic = t /\ call'[c].sub = None
    <3>. DEFINE new == [Idle("none") EXCEPT !.op = "get_topic",
                           !.topic = t, !.stage = "calling"]
    <3>1. new.op = "get_topic" /\ new.topic = t /\ new.sub = None
          /\ new.stage = "calling"
      BY DEF Idle
    <3>2. Idle("none") \in Calls
      BY IdleCall DEF Results
    <3>3. new \in Calls
      BY <3>2 DEF Calls, ToTopic
    <3>. HIDE DEF new
    <3>. QED BY <2>1, <3>1, <3>3 DEF AlwaysInv, LifecycleTypes, new
  <2>6. LifecycleTypes'
    BY <2>1, <2>2, <2>4, <2>5, SMTT(30) DEF AlwaysInv, LifecycleTypes
  <2>7. topics'[n] = t /\ \A m \in TopicNames \ {n} : topics'[m] = topics[m]
    BY <2>1 DEF AlwaysInv, LifecycleTypes
  <2>8. Numbered'
    BY <2>2, <2>3, <2>4, <2>7, Blank DEF AlwaysInv, Numbered
  <2>9. Listed'
    <3>1. \A x \in Topics : topic[x].deleted \/ topic[x].name # n
      BY <1>3, LifecycleAssumption, SMTT(30) DEF AlwaysInv, Listed, Topics
    <3>. QED BY <2>2, <2>3, <2>4, <2>7, <3>1, SMTT(30)
                DEF AlwaysInv, Numbered, Listed
  <2>10. CallsTracked'
    <3>1. Tracked(c)'
      <4>1. t # None /\ t \in Topics'
        BY <2>3, LifecycleAssumption, SMTT(30) DEF TopicId
      <4>. QED BY <2>5, <4>1 DEF Tracked, ToTopic, SubOps
    <3>. QED BY <2>2, <2>3, <2>5, <3>1, TrackedKept
  <2>11. \A d \in Clients : call[d].stage = "awaiting" => call'[d] = call[d]
    BY <2>2, <2>5
  <2>12. TopicRequests'
    BY <2>2, <2>3, <2>4, <2>11, TopicRequestsKept DEF AlwaysInv
  <2>13. SubRequests'
    BY <2>2, <2>11, SubRequestsKept DEF AlwaysInv
  <2>15. Deletions' /\ OnList'
    BY <2>2, <2>3, <2>4, SMTT(30) DEF AlwaysInv, Deletions, OnList
  <2>16. Publishing'
    BY <2>2, <2>4, PublishingKept DEF AlwaysInv, Reached, Posts
  <2>17. Older'
    BY <2>2, <2>3, <2>4, OlderKept DEF AlwaysInv, Reached, Posts
  <2>18. PostedInOrder'
    BY <2>2 DEF AlwaysInv, PostedInOrder, Posts
  <2>. QED BY <2>6, <2>8, <2>9, <2>10, <2>12, <2>13, <2>15, <2>16, <2>17, <2>18
              DEF AlwaysInv
<1>. QED BY <1>2, <1>3

\* The room that create_subscription left for itself.
LEMMA InsertSubscriptionKeeps ==
  ASSUME AlwaysInv, NEW c \in Clients, sub_next_id + 1 \in SubId
  PROVE  InsertSubscription(c) => AlwaysInv'
<1>1. SUFFICES ASSUME InsertSubscription(c) PROVE AlwaysInv'
  OBVIOUS
<1>2. PICK n \in SubNames, s \in SubId :
        n = call[c].name /\ s = sub_next_id + 1
  BY <1>1 DEF AlwaysInv, CallsTracked, Tracked, InsertSubscription
<1>3. CASE subscriptions[n] # None
  BY <1>1, <1>2, <1>3, ReturnedCall DEF InsertSubscription, Results
<1>4. CASE subscriptions[n] = None
  <2>. DEFINE new == [NoSub EXCEPT !.name = n, !.topic = call[c].topic,
                              !.push_config = call[c].push_config,
                              !.running = TRUE]
  <2>1. /\ call[c].stage = "creating"
        /\ sub_next_id' = s
        /\ subscriptions' = [subscriptions EXCEPT ![n] = s]
        /\ sub' = [sub EXCEPT ![s] = new]
        /\ registry' = IF call[c].push_config = None THEN registry
                             ELSE RegistrySet(n, call[c].push_config)
        /\ call' = [call EXCEPT ![c].sub = s, ![c].stage = "calling"]
        /\ UNCHANGED <<topics, topic_next_id, topic>>
    BY <1>1, <1>2, <1>4 DEF InsertSubscription
  <2>2. /\ call[c].op = "create_subscription" /\ call[c].topic \in Topics
        /\ call[c] \in Calls /\ call[c].topic # None
    <3>1. Tracked(c)
      BY DEF AlwaysInv, CallsTracked
    <3>2. call[c].op \in ToTopic
      BY <2>1, <3>1 DEF Tracked, ToTopic
    <3>. QED BY <2>1, <3>1, <3>2 DEF AlwaysInv, LifecycleTypes, Tracked
  <2>3. /\ new.name = n /\ new.topic = call[c].topic /\ new.running
        /\ new.mailbox = << >> /\ new.received = << >> /\ ~new.deleted
        /\ ~new.signalled /\ ~new.attached /\ new.step = "idle"
        /\ new.caller = None
    BY DEF NoSub
  <2>4. new \in SubActors
    <3>1. NoSub \in SubActors
      BY SMTT(30) DEF NoSub, SubActors
    <3>2. /\ n \in SubNames \cup {None} /\ call[c].topic \in TopicId \cup {None}
          /\ call[c].push_config \in Configs \cup {None}
      BY <2>2 DEF Calls
    <3>. QED BY <3>1, <3>2 DEF SubActors
  <2>. HIDE DEF new
  <2>5. /\ sub' \in [SubId -> SubActors] /\ sub'[s] = new
        /\ \A x \in SubId \ {s} : sub'[x] = sub[x]
    BY <2>1, <2>4 DEF AlwaysInv, LifecycleTypes
  <2>6. /\ call' \in [Clients -> Calls]
        /\ \A d \in Clients \ {c} : call'[d] = call[d]
        /\ call'[c].stage = "calling" /\ call'[c].sub = s
        /\ call'[c].op = call[c].op /\ call'[c].name = call[c].name
        /\ call'[c].topic = call[c].topic
    BY <2>1, SMTT(30) DEF AlwaysInv, LifecycleTypes, Calls
  <2>7. /\ Subs' = Subs \cup {s} /\ s \notin Subs /\ Topics' = Topics
        /\ sub[s] = NoSub
    <3>1. sub_next_id \in Nat \ {0}
      BY DEF AlwaysInv, LifecycleTypes
    <3>2. 2..(sub_next_id + 1) = (2..sub_next_id) \cup {sub_next_id + 1}
          /\ sub_next_id + 1 \notin 2..sub_next_id
      BY <3>1, SMTT(30)
    <3>3. Subs' = Subs \cup {s} /\ s \notin Subs
      BY <1>2, <2>1, <3>2 DEF Subs
    <3>. QED BY <2>1, <3>3 DEF Topics, AlwaysInv, Numbered
  <2>8. /\ subscriptions'[n] = s
        /\ \A m \in SubNames \ {n} : subscriptions'[m] = subscriptions[m]
    BY <2>1 DEF AlwaysInv, LifecycleTypes
  <2>9. LifecycleTypes'
    <3>1. registry' \in [SubNames -> Configs \cup {None}]
      BY <2>1, <2>2 DEF AlwaysInv, LifecycleTypes, RegistrySet, Calls
    <3>2. sub_next_id' \in Nat \ {0}
      BY <1>2, <2>1, SMTT(30) DEF SubId
    <3>. QED BY <2>1, <2>5, <2>6, <3>1, <3>2 DEF AlwaysInv, LifecycleTypes
  <2>10. Numbered'
    BY <2>1, <2>2, <2>3, <2>5, <2>7, <2>8, Blank, SMTT(30)
       DEF AlwaysInv, Numbered
  <2>11. Listed'
    <3>1. \A x \in Subs : (sub[x].deleted => sub[x].step \in Leaving) =>
                            sub[x].name # n
      BY <1>4, LifecycleAssumption, SMTT(30) DEF AlwaysInv, Listed, Subs
    <3>. QED BY <2>1, <2>3, <2>5, <2>7, <2>8, <3>1, SMTT(30)
                DEF AlwaysInv, Numbered, Listed
  <2>12. CallsTracked'
    <3>1. s # None
      BY LifecycleAssumption, SMTT(30) DEF SubId
    <3>2. Tracked(c)'
      BY <1>2, <2>2, <2>3, <2>5, <2>6, <2>7, <3>1 DEF Tracked, ToTopic, SubOps
    <3>3. \A x \in Subs : sub'[x].name = sub[x].name /\ sub'[x].topic = sub[x].topic
      BY <2>5, <2>7 DEF AlwaysInv, Numbered
    <3>. QED BY <2>6, <2>7, <3>2, <3>3, TrackedKept
  <2>13. \A d \in Clients : call[d].stage = "awaiting" => call'[d] = call[d]
    BY <2>1, <2>6
  <2>14. TopicRequests'
    <3>1. \A x \in Subs : sub'[x] = sub[x]
      BY <2>5, <2>7 DEF AlwaysInv, Numbered
    <3>. QED BY <2>1, <2>7, <2>13, <3>1, TopicRequestsKept DEF AlwaysInv
  <2>15. \A x \in SubId :
           /\ sub'[x].mailbox = sub[x].mailbox /\ sub'[x].caller = sub[x].caller
           /\ sub'[x].received = sub[x].received
           /\ sub'[x].deleted = sub[x].deleted
    <3>1. /\ NoSub.mailbox = << >> /\ NoSub.caller = None
          /\ NoSub.received = << >> /\ ~NoSub.deleted /\ NoSub \in SubActors
      BY SMTT(30) DEF NoSub, SubActors
    <3>2. new.deleted = NoSub.deleted
      BY <2>3, <2>4, <3>1 DEF SubActors
    <3>. QED BY <2>3, <2>5, <2>7, <3>1, <3>2
  <2>16. SubRequests'
    BY <2>13, <2>15, SubRequestsKept DEF AlwaysInv
  <2>18. Deletions'
    BY <2>3, <2>5, <2>7 DEF AlwaysInv, Deletions, Leaving
  <2>19. OnList'
    BY <2>1, <2>5, <2>7, SMTT(30) DEF AlwaysInv, Numbered, OnList
  <2>20. \A x \in SubId : \A y : Reached(x, y)' <=> Reached(x, y)
    BY <2>15 DEF Reached, Posts
  <2>21. Publishing'
    BY <2>1, <2>15, <2>20, PublishingKept DEF AlwaysInv
  <2>22. Older'
    <3>1. \A y : ~Reached(s, y)'
      BY <2>3, <2>5, SMTT(30) DEF Reached, Posts
    <3>2. \A x \in Subs : x \in SubId /\ sub'[x].topic = sub[x].topic
      BY <2>5, <2>7 DEF AlwaysInv, Numbered
    <3>. QED BY <2>1, <2>7, <2>20, <3>1, <3>2, OlderKept DEF AlwaysInv
  <2>23. PostedInOrder'
    BY <2>15 DEF AlwaysInv, PostedInOrder, Posts
  <2>. QED BY <2>9, <2>10, <2>11, <2>12, <2>14, <2>16, <2>18, <2>19, <2>21,
              <2>22, <2>23 DEF AlwaysInv
<1>. QED BY <1>3, <1>4

\* A request belongs to one topic: whoever sent it waits for no other.
LEMMA Elsewhere ==
  ASSUME NEW h, NEW t, NEW x, x # t, OfCall(h, t) \/ OfSub(h, t)
  PROVE  /\ \A c \in Clients : call[c].topic = x => c # h.from
         /\ \A q : OfCall(q, x) \/ OfSub(q, x) => q.from # h.from
<1>1. CASE OfCall(h, t)
  BY <1>1, Apart DEF OfCall, OfSub
<1>2. CASE OfSub(h, t)
  BY <1>2, Apart DEF OfCall, OfSub
<1>. QED BY <1>1, <1>2

\* The topic actor takes the first request h out of its mailbox.
LEMMA TopicTaken ==
  ASSUME AlwaysInv, NEW t \in TopicId, NEW h, h = topic[t].mailbox[1],
         topic[t].publishing = None,
         Shrunk(topic[t].mailbox, topic'[t].mailbox),
         \A x \in TopicId \ {t} :
           /\ topic'[x].mailbox = topic[x].mailbox
           /\ topic'[x].publishing = topic[x].publishing,
         \/ topic'[t].publishing = None
         \/ topic'[t].publishing = h.from /\ h.op = "publish" /\ call' = call,
         \A d \in Clients \ {h.from} : call'[d] = call[d],
         Subs' = Subs,
         \A s \in Subs : /\ sub'[s].topic = sub[s].topic
                         /\ s # h.from => sub'[s].step = sub[s].step
  PROVE  TopicRequests'
<1>. SUFFICES ASSUME NEW x \in TopicId PROVE TopicRequestsOf(x)'
  BY DEF TopicRequests
<1>1. TopicRequestsOf(t) /\ TopicRequestsOf(x)
  BY DEF AlwaysInv, TopicRequests
<1>2. /\ 1 \in DOMAIN topic[t].mailbox
      /\ OfCall(h, t) \/ OfSub(h, t)
  BY <1>1 DEF Shrunk, TopicRequestsOf
<1>3. \A q : q.from # h.from => /\ OfCall(q, x) => OfCall(q, x)'
                                /\ OfSub(q, x) => OfSub(q, x)'
  BY DEF OfCall, OfSub
<1>4. \A q, y : OfCall(q, y) \/ OfSub(q, y) => q.from # None
  BY Apart DEF OfCall, OfSub
<1>5. CASE x = t
  <2>. DEFINE M == topic[t].mailbox
  <2>1. /\ \A i \in DOMAIN M' : i > 0 /\ i + 1 \in DOMAIN M /\ M'[i] = M[i + 1]
        /\ 1 \in DOMAIN M /\ h = M[1]
        /\ M' \in Seq(Requests)
    BY DEF Shrunk
  <2>2. /\ \A i \in DOMAIN M : OfCall(M[i], t) \/ OfSub(M[i], t)
        /\ \A i, j \in DOMAIN M : M[i].from = M[j].from => i = j
    BY <1>1 DEF TopicRequestsOf
  <2>. HIDE DEF M
  <2>3. \A i \in DOMAIN M' : i \in Nat /\ i + 1 # 1
    BY <2>1, SMTT(30)
  <2>4. \A i \in DOMAIN M' : M'[i].from # h.from /\ M'[i].from # None
    BY <1>4, <2>1, <2>2, <2>3
  <2>5. (\A i \in DOMAIN M :
          (OfCall(M[i], t) \/ OfSub(M[i], t)) /\ M[i].from # topic[t].publishing)'
    BY <1>3, <1>5, <2>1, <2>2, <2>4
  <2>6. (\A i, j \in DOMAIN M : M[i].from = M[j].from => i = j)'
    BY <2>1, <2>2, <2>3, SMTT(30)
  <2>7. (topic[t].publishing # None =>
           /\ call[topic[t].publishing].stage = "awaiting"
           /\ call[topic[t].publishing].op = "publish"
           /\ call[topic[t].publishing].topic = t)'
    BY <1>2 DEF OfCall, OfSub
  <2>. QED BY <1>5, <2>5, <2>6, <2>7 DEF TopicRequestsOf, M
<1>6. CASE x # t
  <2>1. \A q : OfCall(q, x) \/ OfSub(q, x) => q.from # h.from
    BY <1>2, <1>6, Elsewhere
  <2>2. topic[x].publishing # None =>
          call'[topic[x].publishing] = call[topic[x].publishing]
    <3>1. topic[x].publishing # None => topic[x].publishing \in Clients
      BY DEF AlwaysInv, LifecycleTypes, TopicActors
    <3>2. topic[x].publishing # None => topic[x].publishing # h.from
      BY <1>1, <1>2, <1>6, <3>1, Elsewhere DEF TopicRequestsOf
    <3>. QED BY <3>1, <3>2
  <2>. QED BY <1>1, <1>3, <1>6, <2>1, <2>2, SMTT(30) DEF TopicRequestsOf
<1>. QED BY <1>5, <1>6

\* The request that is taken, and the topic without it.
LEMMA TopicTakes ==
  ASSUME AlwaysInv, NEW t \in TopicId, topic[t].mailbox # << >>, NEW h,
         h = Head(topic[t].mailbox)
  PROVE  /\ t \in Topics /\ h = topic[t].mailbox[1]
         /\ OfCall(h, t) \/ OfSub(h, t)
         /\ h.op # "remove" => OfCall(h, t)
         /\ h.op = "remove" => OfSub(h, t)
         /\ Shrunk(topic[t].mailbox, Dequeue(topic[t]).mailbox)
         /\ Dequeue(topic[t]) \in TopicActors
         /\ Dequeue(topic[t]).name = topic[t].name
         /\ Dequeue(topic[t]).attached = topic[t].attached
         /\ Dequeue(topic[t]).deleted = topic[t].deleted
         /\ Dequeue(topic[t]).next_message_id = topic[t].next_message_id
         /\ Dequeue(topic[t]).publishing = topic[t].publishing
         /\ Dequeue(topic[t]).tasks = topic[t].tasks
<1>1. topic[t] \in TopicActors
  BY DEF AlwaysInv, LifecycleTypes
<1>2. NoTopic.mailbox = << >>
  BY DEF NoTopic
<1>3. t \in Topics
  BY <1>2 DEF AlwaysInv, Numbered
<1>4. Shrunk(topic[t].mailbox, Dequeue(topic[t]).mailbox)
  BY <1>1, TopicDequeued
<1>5. h = topic[t].mailbox[1] /\ 1 \in DOMAIN topic[t].mailbox
  BY <1>4 DEF Shrunk
<1>6. OfCall(h, t) \/ OfSub(h, t)
  BY <1>5, SMTT(30) DEF AlwaysInv, TopicRequests, TopicRequestsOf
<1>7. /\ h.op # "remove" => OfCall(h, t)
      /\ h.op = "remove" => OfSub(h, t)
  BY <1>6 DEF OfCall, OfSub, ToTopic
<1>. QED BY <1>1, <1>3, <1>4, <1>5, <1>6, <1>7, TopicDequeued

\* Answering a request to a topic leaves the requests to subscriptions alone.
LEMMA TopicAnswered ==
  ASSUME AlwaysInv, NEW t \in TopicId, NEW h, OfCall(h, t) \/ OfSub(h, t),
         \A d \in Clients \ {h.from} : call'[d] = call[d],
         \A s \in SubId :
           sub'[s].mailbox = sub[s].mailbox /\ sub'[s].caller = sub[s].caller
  PROVE  SubRequests'
<1>1. \A d \in Clients : call[d].op \in SubOps => d # h.from
  BY Apart DEF OfCall, OfSub, ToTopic, SubOps
<1>. QED BY <1>1, SubRequestsKept DEF AlwaysInv

\* The topic's answer to a get keeps the invariant.
LEMMA GetTopicInfoKeeps ==
  ASSUME AlwaysInv, NEW t \in TopicId
  PROVE  /\ topic[t].publishing = None /\ topic[t].mailbox # << >>
         /\ Head(topic[t].mailbox).op # "remove" /\ GetTopicInfo(t)
         /\ UNCHANGED <<topic_next_id, subscriptions, sub_next_id, registry>>
         => AlwaysInv'
<1>1. SUFFICES
        ASSUME topic[t].publishing = None, topic[t].mailbox # << >>,
               Head(topic[t].mailbox).op # "remove", GetTopicInfo(t),
               UNCHANGED <<topic_next_id, subscriptions, sub_next_id, registry>>
        PROVE  AlwaysInv'
  OBVIOUS
<1>2. PICK h : h = Head(topic[t].mailbox)
  OBVIOUS
<1>3. /\ OfCall(h, t) /\ h.from \in Clients /\ h = topic[t].mailbox[1]
      /\ t \in Topics
  BY <1>1, <1>2, TopicTakes, SMTT(30) DEF OfCall
<1>4. /\ call' \in [Clients -> Calls]
      /\ \A d \in Clients \ {h.from} : call'[d] = call[d]
      /\ Tracked(h.from)' /\ call'[h.from].stage = "idle"
  BY <1>1, <1>2, <1>3, ReturnedTracked DEF GetTopicInfo, Results
<1>5. /\ topic' \in [TopicId -> TopicActors] /\ TopicsKeep
      /\ \A x \in TopicId \ {t} : topic'[x] = topic[x]
      /\ Shrunk(topic[t].mailbox, topic'[t].mailbox)
      /\ UNCHANGED <<topics, sub>>
  <2>1. topic' = [topic EXCEPT ![t] = Dequeue(topic[t])] /\ UNCHANGED <<topics, sub>>
    BY <1>1 DEF GetTopicInfo
  <2>. QED BY <1>1, <1>2, <2>1, TopicTakes, SMTT(30)
              DEF AlwaysInv, LifecycleTypes, TopicsKeep
<1>6. /\ Topics' = Topics /\ Subs' = Subs
      /\ Numbered' /\ Listed' /\ Deletions' /\ OnList' /\ Publishing' /\ Older'
  BY <1>1, <1>3, <1>5, MailStep DEF SubsKeep, Reached, Posts
<1>7. LifecycleTypes' /\ PostedInOrder'
  BY <1>1, <1>4, <1>5 DEF AlwaysInv, LifecycleTypes, PostedInOrder, Posts
<1>8. CallsTracked'
  BY <1>4, <1>5, <1>6, TrackedKept
<1>10. TopicRequests'
  BY <1>1, <1>3, <1>4, <1>5, <1>6, TopicTaken DEF TopicsKeep
<1>11. SubRequests'
  BY <1>3, <1>4, <1>5, TopicAnswered
<1>. QED BY <1>6, <1>7, <1>8, <1>10, <1>11 DEF AlwaysInv

\* The tasks of a publish have their type.
LEMMA TaskSet ==
  ASSUME NEW K \in SUBSET (SubId \X Nat),
         NEW tasks \in [K -> {"pending", "done", "failed"}]
  PROVE  tasks \in Tasks
BY DEF Tasks

\* A topic that begins to publish spawns one task for each attached
\* subscription, and keeps the invariant.
LEMMA PublishMessagesKeeps ==
  ASSUME AlwaysInv, NEW t \in TopicId
  PROVE  /\ topic[t].publishing = None /\ topic[t].mailbox # << >>
         /\ Head(topic[t].mailbox).op = "publish" /\ PublishMessages(t)
         /\ UNCHANGED <<topic_next_id, subscriptions, sub_next_id, registry>>
         => AlwaysInv'
<1>1. SUFFICES
        ASSUME topic[t].publishing = None, topic[t].mailbox # << >>,
               Head(topic[t].mailbox).op = "publish", PublishMessages(t),
               UNCHANGED <<topic_next_id, subscriptions, sub_next_id, registry>>
        PROVE  AlwaysInv'
  OBVIOUS
<1>2. PICK h : h = Head(topic[t].mailbox)
  OBVIOUS
<1>3. /\ OfCall(h, t) /\ h.from \in Clients /\ h = topic[t].mailbox[1]
      /\ t \in Topics /\ h.op = "publish" /\ h.from # None
  BY <1>1, <1>2, TopicTakes, Apart, SMTT(30) DEF OfCall
<1>. DEFINE n == topic[t].next_message_id + 1
            id == MessageId(t, n)
            jobs == [k \in Attached(t) \X {id} |-> "pending"]
            D == Dequeue(topic[t])
            new == [D EXCEPT !.next_message_id = n, !.publishing = h.from,
                             !.tasks = jobs]
<1>4. /\ topic' = [topic EXCEPT ![t] = new] /\ UNCHANGED <<topics, sub, call>>
      /\ Topics' = Topics /\ Subs' = Subs
  BY <1>1, <1>2 DEF PublishMessages, Topics, Subs
<1>5. /\ D \in TopicActors /\ topic[t] \in TopicActors
      /\ D.name = topic[t].name /\ D.attached = topic[t].attached
      /\ D.deleted = topic[t].deleted
      /\ Shrunk(topic[t].mailbox, D.mailbox)
  BY <1>1, TopicTakes DEF AlwaysInv, LifecycleTypes
<1>6. /\ n \in Nat /\ id \in Nat /\ LastId(t) \in Nat /\ LastId(t) < id
      /\ Attached(t) \subseteq SubId
  <2>1. topic[t].next_message_id \in Nat /\ t \in Nat /\ U32 \in Nat
    BY <1>5, LifecycleAssumption, SMTT(30) DEF TopicActors, TopicId
  <2>2. Attached(t) \subseteq SubId
    BY <1>5, SMTT(30) DEF TopicActors, Attached
  <2>3. t * U32 \in Nat
    BY <2>1, SMTT(30)
  <2>. QED BY <2>1, <2>2, <2>3, SMTT(30) DEF LastId, MessageId
<1>7. jobs \in Tasks
  <2>1. /\ jobs \in [Attached(t) \X {id} -> {"pending", "done", "failed"}]
        /\ Attached(t) \X {id} \subseteq SubId \X Nat
    BY <1>6
  <2>. QED BY <2>1, TaskSet
<1>. HIDE DEF D, n, id, jobs
<1>8. /\ new.name = topic[t].name /\ new.attached = topic[t].attached
      /\ new.deleted = topic[t].deleted /\ new.next_message_id = n
      /\ new.publishing = h.from /\ new.tasks = jobs
      /\ new.mailbox = D.mailbox
  BY <1>5 DEF TopicActors
<1>9. new \in TopicActors
  BY <1>3, <1>5, <1>6, <1>7 DEF TopicActors
<1>. HIDE DEF new
<1>10. /\ topic' \in [TopicId -> TopicActors]
       /\ \A x \in TopicId \ {t} : topic'[x] = topic[x]
       /\ topic'[t] = new
       /\ \A x \in TopicId : /\ topic'[x].name = topic[x].name
                             /\ topic'[x].attached = topic[x].attached
                             /\ topic'[x].deleted = topic[x].deleted
  BY <1>4, <1>8, <1>9 DEF AlwaysInv, LifecycleTypes
<1>11. LifecycleTypes' /\ PostedInOrder'
  BY <1>1, <1>4, <1>10 DEF AlwaysInv, LifecycleTypes, PostedInOrder, Posts
<1>12. Numbered'
  BY <1>1, <1>3, <1>4, <1>10, Blank DEF AlwaysInv, Numbered
<1>13. Listed'
  BY <1>1, <1>4, <1>10 DEF AlwaysInv, Numbered, Listed
<1>14. CallsTracked'
  BY <1>4, TrackedKept
<1>16. TopicRequests'
  BY <1>1, <1>3, <1>4, <1>5, <1>8, <1>10, TopicTaken
<1>17. SubRequests'
  BY <1>4, SubRequestsKept DEF AlwaysInv
<1>18. Deletions' /\ OnList'
  BY <1>4, <1>10, SMTT(30) DEF AlwaysInv, Deletions, OnList
<1>19. /\ LastId(t)' = id /\ Attached(t)' = Attached(t)
       /\ \A x \in TopicId \ {t} : LastId(x)' = LastId(x)
       /\ \A x \in TopicId : Attached(x)' = Attached(x)
       /\ \A x \in SubId : \A y : Reached(x, y)' <=> Reached(x, y)
  BY <1>4, <1>8, <1>10, SMTT(30) DEF LastId, Attached, Reached, Posts, id
<1>20. Publishing'
  <2>. SUFFICES ASSUME NEW x \in TopicId PROVE PublishingOf(x)'
    BY DEF Publishing
  <2>1. CASE x = t
    <3>1. /\ DOMAIN topic'[t].tasks = Attached(t) \X {id}
          /\ \A k \in DOMAIN topic'[t].tasks : topic'[t].tasks[k] = "pending"
      BY <1>8, <1>10 DEF jobs
    <3>. QED BY <1>3, <1>8, <1>10, <1>19, <2>1, <3>1 DEF PublishingOf
  <2>2. CASE x # t
    <3>1. PublishingOf(x)
      BY DEF AlwaysInv, Publishing
    <3>. QED BY <1>4, <1>10, <1>19, <2>2, <3>1 DEF PublishingOf
  <2>. QED BY <2>1, <2>2
<1>21. Older'
  <2>. SUFFICES ASSUME NEW s \in Subs PROVE OlderOf(s)'
    BY <1>4 DEF Older
  <2>1. s \in SubId /\ sub[s].topic \in TopicId /\ OlderOf(s)
    BY DEF AlwaysInv, Numbered, Older
  <2>2. CASE sub[s].topic = t
    BY <1>4, <1>6, <1>19, <2>1, <2>2, SMTT(30) DEF OlderOf
  <2>3. CASE sub[s].topic # t
    <3>1. /\ LastId(sub[s].topic)' = LastId(sub[s].topic)
          /\ Awaits(s, sub[s].topic)' => Awaits(s, sub[s].topic)
      BY <1>4, <1>10, <1>19, <2>1, <2>3 DEF Awaits
    <3>. QED BY <1>19, <2>1, <3>1 DEF OlderOf
  <2>. QED BY <2>2, <2>3
<1>. QED BY <1>11, <1>12, <1>13, <1>14, <1>16, <1>17, <1>18, <1>20, <1>21
            DEF AlwaysInv

\* A topic whose tasks are all done answers its caller and keeps the
\* invariant.
LEMMA JoinKeeps ==
  ASSUME AlwaysInv, NEW t \in TopicId
  PROVE  Join(t) => AlwaysInv'
<1>1. SUFFICES ASSUME Join(t) PROVE AlwaysInv'
  OBVIOUS
<1>2. PICK c \in Clients : c = topic[t].publishing
  BY <1>1 DEF Join, AlwaysInv, LifecycleTypes, TopicActors
<1>3. PICK result \in Results : Return(c, result)
  BY <1>1, <1>2 DEF Join, Outcome, Results
<1>. DEFINE new == [topic[t] EXCEPT !.publishing = None, !.tasks = NoTasks]
<1>4. /\ topic' = [topic EXCEPT ![t] = new]
      /\ UNCHANGED <<topics, topic_next_id, subscriptions, sub_next_id,
                     registry, sub>>
      /\ Topics' = Topics /\ Subs' = Subs
  BY <1>1 DEF Join, Topics, Subs, AlwaysInv, LifecycleTypes
<1>5. topic[t] \in TopicActors
  BY DEF AlwaysInv, LifecycleTypes
<1>6. /\ new.name = topic[t].name /\ new.attached = topic[t].attached
      /\ new.deleted = topic[t].deleted
      /\ new.next_message_id = topic[t].next_message_id
      /\ new.publishing = None /\ new.tasks = NoTasks
      /\ new.mailbox = topic[t].mailbox
  BY <1>5 DEF TopicActors
<1>7. new \in TopicActors
  <2>1. NoTasks \in Tasks
    <3>1. NoTasks \in [{} -> {"pending", "done", "failed"}]
      BY DEF NoTasks
    <3>. QED BY <3>1, TaskSet
  <2>. QED BY <1>5, <2>1 DEF TopicActors
<1>. HIDE DEF new
<1>8. /\ topic' \in [TopicId -> TopicActors]
      /\ \A x \in TopicId \ {t} : topic'[x] = topic[x]
      /\ topic'[t] = new
      /\ \A x \in TopicId : /\ topic'[x].name = topic[x].name
                            /\ topic'[x].attached = topic[x].attached
                            /\ topic'[x].deleted = topic[x].deleted
                            /\ topic'[x].next_message_id = topic[x].next_message_id
                            /\ topic'[x].mailbox = topic[x].mailbox
  BY <1>4, <1>6, <1>7 DEF AlwaysInv, LifecycleTypes
<1>9. /\ call' \in [Clients -> Calls]
      /\ \A d \in Clients \ {c} : call'[d] = call[d]
      /\ Tracked(c)' /\ call'[c].stage = "idle"
  BY <1>3, ReturnedTracked
<1>10. /\ call[c].stage = "awaiting" /\ call[c].op = "publish"
       /\ call[c].topic = t
  BY <1>2, Apart DEF AlwaysInv, TopicRequests, TopicRequestsOf
<1>11. LifecycleTypes' /\ PostedInOrder'
  BY <1>4, <1>8, <1>9 DEF AlwaysInv, LifecycleTypes, PostedInOrder, Posts
<1>12. Numbered'
  <2>1. t \in Topics
    <3>1. NoTopic.publishing = None
      BY DEF NoTopic
    <3>. QED BY <1>2, <3>1, Apart DEF AlwaysInv, Numbered
  <2>. QED BY <1>4, <1>8, <2>1, Blank DEF AlwaysInv, Numbered
<1>13. Listed'
  BY <1>4, <1>8, SMTT(30) DEF AlwaysInv, Numbered, Listed
<1>14. CallsTracked'
  BY <1>4, <1>9, TrackedKept
<1>16. TopicRequests'
  <2>. SUFFICES ASSUME NEW x \in TopicId PROVE TopicRequestsOf(x)'
    BY DEF TopicRequests
  <2>1. TopicRequestsOf(x)
    BY DEF AlwaysInv, TopicRequests
  <2>2. \A q : q.from # c => /\ OfCall(q, x) => OfCall(q, x)'
                             /\ OfSub(q, x) => OfSub(q, x)'
    BY <1>4, <1>9 DEF OfCall, OfSub
  <2>3. \A q : /\ OfCall(q, x) /\ x # t => q.from # c
               /\ OfSub(q, x) => q.from # c
               /\ OfCall(q, x) \/ OfSub(q, x) => q.from # None
    BY <1>10, Apart DEF OfCall, OfSub
  <2>4. CASE x = t
    BY <1>2, <1>6, <1>8, <2>1, <2>2, <2>3, <2>4, SMTT(30) DEF TopicRequestsOf
  <2>5. CASE x # t
    <3>1. topic[x].publishing # None =>
            call'[topic[x].publishing] = call[topic[x].publishing]
      BY <1>9, <1>10, <2>1, <2>5
         DEF TopicRequestsOf, AlwaysInv, LifecycleTypes, TopicActors
    <3>. QED BY <1>8, <2>1, <2>2, <2>3, <2>5, <3>1 DEF TopicRequestsOf
  <2>. QED BY <2>4, <2>5
<1>17. SubRequests'
  <2>1. call[c].op \notin SubOps
    BY <1>10 DEF SubOps
  <2>. QED BY <1>4, <1>9, <2>1, SubRequestsKept DEF AlwaysInv
<1>18. Deletions' /\ OnList'
  BY <1>4, <1>8, SMTT(30) DEF AlwaysInv, Deletions, OnList
<1>19. /\ \A x \in TopicId : LastId(x)' = LastId(x)
       /\ \A x \in TopicId : Attached(x)' = Attached(x)
       /\ \A x \in SubId : \A y : Reached(x, y)' <=> Reached(x, y)
       /\ DOMAIN topic'[t].tasks = {}
  BY <1>4, <1>6, <1>8, SMTT(30) DEF LastId, Attached, Reached, Posts, NoTasks
<1>20. Publishing'
  <2>. SUFFICES ASSUME NEW x \in TopicId PROVE PublishingOf(x)'
    BY DEF Publishing
  <2>1. CASE x = t
    BY <1>6, <1>8, <1>19, <2>1 DEF PublishingOf
  <2>2. CASE x # t
    <3>1. PublishingOf(x)
      BY DEF AlwaysInv, Publishing
    <3>. QED BY <1>4, <1>8, <1>19, <2>2, <3>1, SMTT(30) DEF PublishingOf
  <2>. QED BY <2>1, <2>2
<1>21. Older'
  <2>. SUFFICES ASSUME NEW s \in Subs PROVE OlderOf(s)'
    BY <1>4 DEF Older
  <2>1. s \in SubId /\ sub[s].topic \in TopicId /\ OlderOf(s)
    BY DEF AlwaysInv, Numbered, Older
  <2>2. /\ LastId(sub[s].topic)' = LastId(sub[s].topic)
        /\ Awaits(s, sub[s].topic)' => Awaits(s, sub[s].topic)
    BY <1>4, <1>8, <1>19, <2>1 DEF Awaits
  <2>. QED BY <1>19, <2>1, <2>2 DEF OlderOf
<1>. QED BY <1>11, <1>12, <1>13, <1>14, <1>16, <1>17, <1>18, <1>20, <1>21
            DEF AlwaysInv

\* A subscription actor takes the first request h out of its mailbox.
LEMMA SubTaken ==
  ASSUME AlwaysInv, NEW s \in SubId, NEW h, h = sub[s].mailbox[1],
         sub[s].caller = None,
         Shrunk(sub[s].mailbox, sub'[s].mailbox),
         \A x \in SubId \ {s} :
           sub'[x].mailbox = sub[x].mailbox /\ sub'[x].caller = sub[x].caller,
         \/ sub'[s].caller = None
         \/ /\ sub'[s].caller = h.from /\ h.op = "delete_subscription"
            /\ call' = call,
         \A d \in Clients \ {h.from} : call'[d] = call[d]
  PROVE  SubRequests'
<1>. SUFFICES ASSUME NEW x \in SubId PROVE SubRequestsOf(x)'
  BY DEF SubRequests
<1>. DEFINE IsPost(q) == q.from = None /\ q.op = "post"
<1>1. SubRequestsOf(s) /\ SubRequestsOf(x)
  BY DEF AlwaysInv, SubRequests
<1>2. 1 \in DOMAIN sub[s].mailbox /\ (IsPost(h) \/ FromCall(h, s))
  BY <1>1 DEF Shrunk, SubRequestsOf
<1>3. \A q : q.from # h.from /\ FromCall(q, x) => FromCall(q, x)'
  BY DEF FromCall
<1>4. \A q, y : FromCall(q, y) => q.from # None
  BY Apart DEF FromCall
<1>5. CASE x = s
  <2>. DEFINE M == sub[s].mailbox
  <2>1. /\ \A i \in DOMAIN M' : i > 0 /\ i + 1 \in DOMAIN M /\ M'[i] = M[i + 1]
        /\ 1 \in DOMAIN M /\ h = M[1]
        /\ M' \in Seq(Requests)
    BY DEF Shrunk
  <2>2. /\ \A i \in DOMAIN M : IsPost(M[i]) \/ FromCall(M[i], s)
        /\ \A i, j \in DOMAIN M : M[i].from = M[j].from =>
             i = j \/ M[i].from = None
    BY <1>1 DEF SubRequestsOf
  <2>. HIDE DEF M
  <2>3. \A i \in DOMAIN M' : i \in Nat /\ i + 1 # 1
    BY <2>1, SMTT(30)
  <2>4. \A i \in DOMAIN M' : FromCall(M'[i], s) => M'[i].from # h.from
    BY <1>4, <2>1, <2>2, <2>3, SMTT(30)
  <2>5. (\A i \in DOMAIN M :
           IsPost(M[i]) \/ (FromCall(M[i], s) /\ M[i].from # sub[s].caller))'
    BY <1>3, <1>4, <1>5, <2>1, <2>2, <2>4, SMTT(30)
  <2>6. (\A i, j \in DOMAIN M : M[i].from = M[j].from =>
           i = j \/ M[i].from = None)'
    BY <2>1, <2>2, <2>3, SMTT(30)
  <2>7. (sub[s].caller # None =>
           /\ call[sub[s].caller].stage = "awaiting"
           /\ call[sub[s].caller].op = "delete_subscription"
           /\ call[sub[s].caller].sub = s)'
    BY <1>2 DEF FromCall
  <2>. QED BY <1>5, <2>5, <2>6, <2>7 DEF SubRequestsOf, M
<1>6. CASE x # s
  <2>1. \A q : FromCall(q, x) => q.from # h.from
    BY <1>2, <1>4, <1>6 DEF FromCall
  <2>2. sub[x].caller # None =>
          call'[sub[x].caller] = call[sub[x].caller]
    <3>1. sub[x].caller # None => sub[x].caller \in Clients
      BY DEF AlwaysInv, LifecycleTypes, SubActors
    <3>2. sub[x].caller # None => sub[x].caller # h.from
      BY <1>1, <1>2, <1>6 DEF FromCall, SubRequestsOf
    <3>. QED BY <3>1, <3>2
  <2>3. sub'[x].mailbox = sub[x].mailbox /\ sub'[x].caller = sub[x].caller
    BY <1>6
  <2>4. (\A i \in DOMAIN sub[x].mailbox :
           \/ sub[x].mailbox[i].from = None /\ sub[x].mailbox[i].op = "post"
           \/ /\ FromCall(sub[x].mailbox[i], x)
              /\ sub[x].mailbox[i].from # sub[x].caller)'
    BY <1>1, <1>3, <2>1, <2>3 DEF SubRequestsOf
  <2>5. (sub[x].caller # None =>
           /\ call[sub[x].caller].stage = "awaiting"
           /\ call[sub[x].caller].op = "delete_subscription"
           /\ call[sub[x].caller].sub = x)'
    BY <1>1, <2>2, <2>3 DEF SubRequestsOf
  <2>6. (\A i, j \in DOMAIN sub[x].mailbox :
           sub[x].mailbox[i].from = sub[x].mailbox[j].from =>
             i = j \/ sub[x].mailbox[i].from = None)'
    <3>1. \A i, j \in DOMAIN sub[x].mailbox :
            sub[x].mailbox[i].from = sub[x].mailbox[j].from =>
              i = j \/ sub[x].mailbox[i].from = None
      BY <1>1 DEF SubRequestsOf
    <3>. QED BY <2>3, <3>1
  <2>. QED BY <2>4, <2>5, <2>6 DEF SubRequestsOf
<1>. QED BY <1>5, <1>6

\* What an actor that takes its oldest request changes.
LEMMA SubTakes ==
  ASSUME AlwaysInv, NEW s \in SubId, sub[s].mailbox # << >>, NEW h,
         h = Head(sub[s].mailbox)
  PROVE  /\ s \in Subs /\ h = sub[s].mailbox[1]
         /\ h.op # "post" => FromCall(h, s)
         /\ h.op = "post" => h.from = None
         /\ Shrunk(sub[s].mailbox, Dequeue(sub[s]).mailbox)
         /\ Dequeue(sub[s]) \in SubActors
         /\ Dequeue(sub[s]).name = sub[s].name
         /\ Dequeue(sub[s]).topic = sub[s].topic
         /\ Dequeue(sub[s]).push_config = sub[s].push_config
         /\ Dequeue(sub[s]).deleted = sub[s].deleted
         /\ Dequeue(sub[s]).signalled = sub[s].signalled
         /\ Dequeue(sub[s]).running = sub[s].running
         /\ Dequeue(sub[s]).attached = sub[s].attached
         /\ Dequeue(sub[s]).received = sub[s].received
         /\ Dequeue(sub[s]).step = sub[s].step
         /\ Dequeue(sub[s]).caller = sub[s].caller
<1>1. sub[s] \in SubActors
  BY DEF AlwaysInv, LifecycleTypes
<1>2. NoSub.mailbox = << >>
  BY DEF NoSub
<1>3. s \in Subs
  BY <1>2 DEF AlwaysInv, Numbered
<1>4. Shrunk(sub[s].mailbox, Dequeue(sub[s]).mailbox)
  BY <1>1, SubDequeued
<1>5. h = sub[s].mailbox[1] /\ 1 \in DOMAIN sub[s].mailbox
  BY <1>4 DEF Shrunk
<1>6. (h.from = None /\ h.op = "post") \/ FromCall(h, s)
  BY <1>5, SMTT(30) DEF AlwaysInv, SubRequests, SubRequestsOf
<1>7. /\ h.op # "post" => FromCall(h, s)
      /\ h.op = "post" => h.from = None
  BY <1>6 DEF FromCall, SubOps
<1>. QED BY <1>1, <1>3, <1>4, <1>5, <1>7, SubDequeued

\* The registry keeps its type.
LEMMA RegistrySetTyped ==
  ASSUME registry \in [SubNames -> Configs \cup {None}],
         NEW n \in SubNames, NEW config \in Configs \cup {None}
  PROVE  RegistrySet(n, config) \in [SubNames -> Configs \cup {None}]
BY DEF RegistrySet

\* A task of a publish is settled, and its topic changes in nothing else.
LEMMA Settled ==
  ASSUME AlwaysInv, NEW t \in TopicId, NEW k \in DOMAIN topic[t].tasks,
         NEW outcome \in {"done", "failed"},
         topic' = [topic EXCEPT ![t].tasks[k] = outcome]
  PROVE  /\ topic[t].publishing # None /\ t \in Topics
         /\ k = <<k[1], LastId(t)>> /\ k[1] \in Attached(t) /\ k[1] \in Subs
         /\ k[1] \in SubId /\ sub[k[1]].topic = t /\ LastId(t) \in Nat
         /\ topic' \in [TopicId -> TopicActors]
         /\ \A x \in TopicId \ {t} : topic'[x] = topic[x]
         /\ \A x \in TopicId :
              /\ topic'[x].name = topic[x].name
              /\ topic'[x].attached = topic[x].attached
              /\ topic'[x].deleted = topic[x].deleted
              /\ topic'[x].next_message_id = topic[x].next_message_id
              /\ topic'[x].publishing = topic[x].publishing
              /\ topic'[x].mailbox = topic[x].mailbox
<1>1. topic[t] \in TopicActors /\ topic \in [TopicId -> TopicActors]
  BY DEF AlwaysInv, LifecycleTypes
<1>2. PublishingOf(t)
  BY DEF AlwaysInv, Publishing
<1>3. topic[t].publishing # None
  BY <1>2 DEF PublishingOf
<1>4. PICK i \in Attached(t) : k = <<i, LastId(t)>>
  BY <1>2, <1>3, SMTT(30) DEF PublishingOf
<1>5. i \in Subs /\ i \in SubId /\ sub[i].topic = t
  BY SMTT(30) DEF Attached, AlwaysInv, OnList, Numbered
<1>6. t \in Topics
  BY <1>5 DEF AlwaysInv, Numbered
<1>. DEFINE jobs == [topic[t].tasks EXCEPT ![k] = outcome]
            new == [topic[t] EXCEPT !.tasks = jobs]
<1>7. topic' = [topic EXCEPT ![t] = new]
  BY <1>1
<1>8. LastId(t) \in Nat
  <2>1. topic[t].next_message_id \in Nat /\ t \in Nat /\ U32 \in Nat
    BY <1>1, LifecycleAssumption, SMTT(30) DEF TopicActors, TopicId
  <2>2. t * U32 \in Nat
    BY <2>1, SMTT(30)
  <2>. QED BY <2>1, <2>2, SMTT(30) DEF LastId, MessageId
<1>9. jobs \in Tasks
  <2>1. PICK K \in SUBSET (SubId \X Nat) :
          topic[t].tasks \in [K -> {"pending", "done", "failed"}]
    <3>1. topic[t].tasks \in Tasks
      BY <1>1 DEF TopicActors
    <3>. QED BY <3>1 DEF Tasks
  <2>2. jobs \in [K -> {"pending", "done", "failed"}]
    BY <2>1
  <2>. QED BY <2>2, TaskSet
<1>. HIDE DEF jobs
<1>10. /\ new.name = topic[t].name /\ new.attached = topic[t].attached
       /\ new.deleted = topic[t].deleted
       /\ new.next_message_id = topic[t].next_message_id
       /\ new.publishing = topic[t].publishing /\ new.tasks = jobs
       /\ new.mailbox = topic[t].mailbox
  BY <1>1 DEF TopicActors
<1>11. new \in TopicActors
  BY <1>1, <1>9 DEF TopicActors
<1>. HIDE DEF new
<1>12. /\ topic' \in [TopicId -> TopicActors] /\ topic'[t] = new
       /\ \A x \in TopicId \ {t} : topic'[x] = topic[x]
  BY <1>1, <1>7, <1>11
<1>. QED BY <1>3, <1>4, <1>5, <1>6, <1>8, <1>10, <1>12

\* Initially nothing exists.
LEMMA InitAlways == LifecycleInit => AlwaysInv
<1>1. SUFFICES ASSUME LifecycleInit PROVE AlwaysInv
  OBVIOUS
<1>2. /\ Topics = {} /\ Subs = {}
      /\ topic = [t \in TopicId |-> NoTopic] /\ sub = [s \in SubId |-> NoSub]
      /\ call = [c \in Clients |-> Idle("none")]
      /\ topics = [n \in TopicNames |-> None]
      /\ subscriptions = [n \in SubNames |-> None]
      /\ registry = [n \in SubNames |-> None]
      /\ topic_next_id = 1 /\ sub_next_id = 1
  BY <1>1, SMTT(30) DEF LifecycleInit, Topics, Subs
<1>3. /\ NoTopic \in TopicActors /\ NoTopic.mailbox = << >>
      /\ NoTopic.publishing = None /\ NoTopic.tasks = NoTasks
      /\ NoTopic.attached = [n \in SubNames |-> None]
  <2>1. NoTasks \in Tasks
    <3>1. NoTasks \in [{} -> {"pending", "done", "failed"}]
      BY DEF NoTasks
    <3>. QED BY <3>1, TaskSet
  <2>2. << >> \in Seq(Requests)
    BY SMTT(30)
  <2>. QED BY <2>1, <2>2 DEF NoTopic, TopicActors
<1>4. /\ NoSub \in SubActors /\ NoSub.mailbox = << >> /\ NoSub.received = << >>
      /\ NoSub.step = "idle" /\ NoSub.caller = None /\ ~NoSub.signalled
      /\ ~NoSub.deleted
  <2>1. << >> \in Seq(Requests) /\ << >> \in Seq(Nat)
    BY SMTT(30)
  <2>. QED BY <2>1 DEF NoSub, SubActors
<1>5. Idle("none") \in Calls
  BY IdleCall DEF Results
<1>6. LifecycleTypes
  BY <1>2, <1>3, <1>4, <1>5, SMTT(30) DEF LifecycleTypes
<1>7. Numbered /\ Listed /\ Older
  BY <1>2 DEF Numbered, Listed, Older
<1>8. CallsTracked
  BY <1>2 DEF CallsTracked, Tracked, Idle, ToTopic, SubOps
<1>9. TopicRequests /\ SubRequests
  BY <1>2, <1>3, <1>4, SMTT(30)
     DEF TopicRequests, TopicRequestsOf, SubRequests, SubRequestsOf
<1>10. Deletions
  BY <1>2, <1>4 DEF Deletions
<1>11. OnList /\ Publishing
  BY <1>2, <1>3 DEF OnList, Publishing, PublishingOf, NoTasks
<1>12. PostedInOrder
  BY <1>2, <1>4, SMTT(30) DEF PostedInOrder, Posts
<1>. QED BY <1>6, <1>7, <1>8, <1>9, <1>10, <1>11, <1>12 DEF AlwaysInv

-----------------------------------------------------------------------------
\* Steps that neither attach, delete nor post: what they leave alone.
Departing == {"asking", "asked"}
\* Subscriptions, their configurations, topics and names that a step leaves
\* as they are.
SubsSame ==
  \A x \in SubId :
    /\ sub'[x].name = sub[x].name
    /\ sub'[x].topic = sub[x].topic
    /\ sub'[x].deleted = sub[x].deleted
    /\ sub'[x].attached = sub[x].attached
    /\ sub'[x].step \in Departing <=> sub[x].step \in Departing
ConfigsSame == \A x \in SubId : sub'[x].push_config = sub[x].push_config
TopicsSame ==
  \A x \in TopicId :
    /\ topic'[x].attached = topic[x].attached
    /\ topic'[x].deleted = topic[x].deleted
    /\ \A k \in DOMAIN topic'[x].tasks : topic'[x].tasks[k] = "failed" =>
         k \in DOMAIN topic[x].tasks /\ topic[x].tasks[k] = "failed"
NamesSame ==
  \A n \in TopicNames : topics'[n] \in {topics[n], None} \/ topics'[n] \notin Topics

\* A call goes on, returns, or is new and found its topic, or a subscription
\* that nobody is creating.
Goes(c) == /\ call'[c].op = call[c].op /\ call'[c].sub = call[c].sub
           /\ call'[c].topic = call[c].topic
           /\ call[c].stage = "idle" => call'[c].stage = "idle"
\* The call is over, or new and has found its topic.
Begins(c) ==
  /\ call'[c].sub = None
  /\ \/ call'[c].stage = "idle"
     \/ call'[c].topic \notin Topics
     \/ \E n \in TopicNames : topics[n] = call'[c].topic
\* The call is new and has found a subscription that nobody is creating.
Finds(c) ==
  /\ call'[c].op \in SubOps /\ call'[c].topic = None
  /\ \A d \in Clients :
       Patient /\ call[d].op = "create_subscription" => call[d].sub # call'[c].sub
\* What a quiet step does.
CallsSame == \A c \in Clients : Goes(c) \/ Begins(c) \/ Finds(c)
Quiet == /\ Subs' = Subs /\ SubsSame /\ TopicsSame /\ NamesSame
         /\ \A c \in Clients : Goes(c) \/ Begins(c)

\* A return is quiet,
LEMMA ReturnQuiet ==
  ASSUME AlwaysInv, NEW c \in Clients, NEW result \in Results, Return(c, result)
  PROVE  \A d \in Clients : Goes(d) \/ Begins(d)
<1>1. /\ \A d \in Clients \ {c} : call'[d] = call[d]
      /\ call'[c] = Idle(result)
  BY ReturnedTracked
<1>2. Begins(c)
  BY <1>1, SMTT(30) DEF Begins, Idle
<1>. QED BY <1>1, <1>2 DEF Goes

\* creating a topic is,
LEMMA CreateTopicQuiet ==
  ASSUME AlwaysInv, NEW c \in Clients, NEW n \in TopicNames
  PROVE  CreateTopic(c, n) => Quiet /\ ConfigsSame
<1>1. SUFFICES ASSUME CreateTopic(c, n) PROVE Quiet /\ ConfigsSame
  OBVIOUS
<1>2. UNCHANGED <<sub, Subs>> /\ SubsSame /\ ConfigsSame
  BY <1>1 DEF CreateTopic, SubsSame, ConfigsSame, Subs
<1>3. CASE topics[n] # None
  <2>1. Return(c, "error") /\ UNCHANGED <<topics, topic>>
    BY <1>1, <1>3 DEF CreateTopic
  <2>2. \A d \in Clients : Goes(d) \/ Begins(d)
    BY <2>1, ReturnQuiet DEF Results
  <2>. QED BY <1>2, <2>1, <2>2 DEF Quiet, TopicsSame, NamesSame
<1>4. CASE topics[n] = None
  <2>. DEFINE t == topic_next_id + 1
              mine == [Idle("none") EXCEPT !.op = "get_topic", !.topic = t,
                                           !.stage = "calling"]
  <2>1. /\ t \in TopicId /\ topics' = [topics EXCEPT ![n] = t]
        /\ topic' = [topic EXCEPT ![t].name = n]
        /\ call' = [call EXCEPT ![c] = mine]
    BY <1>1, <1>4 DEF CreateTopic
  <2>2. /\ topic \in [TopicId -> TopicActors] /\ call \in [Clients -> Calls]
        /\ topics \in [TopicNames -> TopicId \cup {None}]
        /\ topic_next_id \in Nat
    BY DEF AlwaysInv, LifecycleTypes
  <2>3. t \notin Topics
    BY <2>2, SMTT(30) DEF Topics
  <2>4. mine.sub = None /\ mine.topic = t
    BY DEF Idle
  <2>. HIDE DEF mine, t
  <2>5. TopicsSame
    BY <2>1, <2>2 DEF TopicsSame, TopicActors
  <2>6. NamesSame
    BY <2>1, <2>2, <2>3 DEF NamesSame
  <2>7. \A d \in Clients : Goes(d) \/ Begins(d)
    <3>1. call'[c] = mine /\ \A d \in Clients \ {c} : call'[d] = call[d]
      BY <2>1, <2>2
    <3>. QED BY <2>3, <2>4, <3>1 DEF Goes, Begins
  <2>. QED BY <1>2, <2>5, <2>6, <2>7 DEF Quiet
<1>. QED BY <1>3, <1>4

\* looking up a topic is,
LEMMA CallTopicQuiet ==
  ASSUME AlwaysInv, NEW c \in Clients, NEW n \in TopicNames,
         NEW op \in {"publish", "delete_topic", "get_topic"}
  PROVE  CallTopic(c, op, n) => Quiet /\ ConfigsSame
<1>1. SUFFICES ASSUME CallTopic(c, op, n) PROVE Quiet /\ ConfigsSame
  OBVIOUS
<1>2. UNCHANGED <<sub, Subs, topic, topics>>
  BY <1>1 DEF CallTopic, Subs
<1>3. SubsSame /\ ConfigsSame /\ TopicsSame /\ NamesSame
  BY <1>2 DEF SubsSame, ConfigsSame, TopicsSame, NamesSame
<1>4. \A d \in Clients : Goes(d) \/ Begins(d)
  <2>1. CASE topics[n] = None
    BY <1>1, <2>1, ReturnQuiet DEF CallTopic, Results
  <2>2. CASE topics[n] # None
    <3>. DEFINE mine == [Idle("none") EXCEPT !.op = op, !.topic = topics[n],
                                             !.stage = "calling"]
    <3>1. call' = [call EXCEPT ![c] = mine] /\ call \in [Clients -> Calls]
      BY <1>1, <2>2 DEF CallTopic, AlwaysInv, LifecycleTypes
    <3>2. mine.sub = None /\ mine.topic = topics[n]
      BY DEF Idle
    <3>. HIDE DEF mine
    <3>3. call'[c] = mine /\ \A d \in Clients \ {c} : call'[d] = call[d]
      BY <3>1
    <3>. QED BY <3>2, <3>3 DEF Goes, Begins
  <2>. QED BY <2>1, <2>2
<1>. QED BY <1>2, <1>3, <1>4 DEF Quiet

\* beginning to create a subscription is,
LEMMA CreateSubscriptionQuiet ==
  ASSUME AlwaysInv, NEW c \in Clients, NEW n \in SubNames, NEW tn \in TopicNames,
         NEW config \in Configs \cup {None}
  PROVE  CreateSubscription(c, n, tn, config) => Quiet /\ ConfigsSame
<1>1. SUFFICES ASSUME CreateSubscription(c, n, tn, config)
               PROVE  Quiet /\ ConfigsSame
  OBVIOUS
<1>2. UNCHANGED <<sub, Subs, topic, topics>>
  BY <1>1 DEF CreateSubscription, Subs
<1>3. SubsSame /\ ConfigsSame /\ TopicsSame /\ NamesSame
  BY <1>2 DEF SubsSame, ConfigsSame, TopicsSame, NamesSame
<1>4. \A d \in Clients : Goes(d) \/ Begins(d)
  <2>1. CASE topics[tn] = None
    BY <1>1, <2>1, ReturnQuiet DEF CreateSubscription, Results
  <2>2. CASE topics[tn] # None
    <3>. DEFINE mine == [Idle("none") EXCEPT !.op = "create_subscription",
                        !.name = n, !.topic = topics[tn], !.stage = "creating",
                        !.push_config = config]
    <3>1. call' = [call EXCEPT ![c] = mine] /\ call \in [Clients -> Calls]
      BY <1>1, <2>2 DEF CreateSubscription, AlwaysInv, LifecycleTypes
    <3>2. mine.sub = None /\ mine.topic = topics[tn]
      BY DEF Idle
    <3>. HIDE DEF mine
    <3>3. call'[c] = mine /\ \A d \in Clients \ {c} : call'[d] = call[d]
      BY <3>1
    <3>. QED BY <3>2, <3>3 DEF Goes, Begins
  <2>. QED BY <2>1, <2>2
<1>. QED BY <1>2, <1>3, <1>4 DEF Quiet

\* looking up a subscription is,
LEMMA CallSubscriptionQuiet ==
  ASSUME AlwaysInv, NEW c \in Clients, NEW n \in SubNames, NEW op \in SubOps,
         NEW config \in Configs \cup {None}
  PROVE  CallSubscription(c, op, n, config) =>
           /\ UNCHANGED <<topics, topic, sub, Subs, registry, subscriptions>>
           /\ CallsSame
<1>1. SUFFICES ASSUME CallSubscription(c, op, n, config)
               PROVE  /\ UNCHANGED <<topics, topic, sub, Subs, registry, subscriptions>>
                      /\ CallsSame
  OBVIOUS
<1>2. UNCHANGED <<topics, topic, sub, Subs, registry, subscriptions>>
  BY <1>1 DEF CallSubscription, Subs
<1>3. CASE subscriptions[n] = None
  BY <1>1, <1>2, <1>3, ReturnQuiet DEF CallSubscription, Results, CallsSame
<1>4. CASE subscriptions[n] # None
  <2>. DEFINE mine == [Idle("none") EXCEPT !.op = op, !.sub = subscriptions[n],
                            !.push_config = config, !.stage = "calling"]
  <2>1. /\ call' = [call EXCEPT ![c] = mine] /\ call \in [Clients -> Calls]
        /\ Patient => ~\E d \in Clients : /\ call[d].op = "create_subscription"
                                          /\ call[d].name = n
    BY <1>1, <1>4 DEF CallSubscription, AlwaysInv, LifecycleTypes
  <2>2. mine.op = op /\ mine.topic = None /\ mine.sub = subscriptions[n]
    BY DEF Idle
  <2>. HIDE DEF mine
  <2>3. call'[c] = mine /\ \A d \in Clients \ {c} : call'[d] = call[d]
    BY <2>1
  <2>4. sub[subscriptions[n]].name = n
    BY <1>4 DEF AlwaysInv, Numbered
  <2>5. ASSUME Patient, NEW d \in Clients, call[d].op = "create_subscription",
               call[d].sub = subscriptions[n]
        PROVE  FALSE
    <3>1. call[d].stage # "creating"
      BY <1>4, <2>5 DEF AlwaysInv, CallsTracked, Tracked
    <3>2. sub[call[d].sub].name = call[d].name
      BY <2>5, <3>1 DEF AlwaysInv, CallsTracked, Tracked
    <3>. QED BY <2>1, <2>4, <2>5, <3>2
  <2>6. Finds(c)
    BY <2>2, <2>3, <2>5 DEF Finds
  <2>7. \A d \in Clients \ {c} : Goes(d)
    BY <2>3 DEF Goes
  <2>. QED BY <1>2, <2>6, <2>7 DEF CallsSame
<1>. QED BY <1>3, <1>4

\* and so is sending a request.
LEMMA SendQuiet ==
  ASSUME AlwaysInv, NEW c \in Clients
  PROVE  Send(c) => Quiet /\ ConfigsSame
<1>1. SUFFICES ASSUME Send(c) PROVE Quiet /\ ConfigsSame
  OBVIOUS
<1>2. PICK r : r = SentRequest(c)
  OBVIOUS
<1>3. /\ call[c].stage = "calling" /\ UNCHANGED <<topics, Subs>> /\ NamesSame
  BY <1>1 DEF Send, Subs, NamesSame
<1>4. /\ topic \in [TopicId -> TopicActors] /\ sub \in [SubId -> SubActors]
      /\ r \in Requests
      /\ call[c].op \in ToTopic => call[c].topic \in TopicId
      /\ call[c].op \notin ToTopic => call[c].sub \in SubId
  <2>1. call[c].op # "none" /\ call[c].op \in ToTopic \cup SubOps
    BY <1>3 DEF AlwaysInv, CallsTracked, Tracked, ToTopic, SubOps
  <2>2. /\ call[c].op \in ToTopic => call[c].topic \in TopicId
        /\ call[c].op \notin ToTopic => call[c].sub \in SubId
    BY <2>1 DEF AlwaysInv, CallsTracked, Tracked, Numbered
  <2>. QED BY <1>2, <2>1, <2>2, SentRequests DEF AlwaysInv, LifecycleTypes
<1>5. CASE call' = [call EXCEPT ![c].stage = "awaiting"]
  <2>1. \A d \in Clients : Goes(d)
    <3>1. /\ \A d \in Clients \ {c} : call'[d] = call[d]
          /\ call'[c].op = call[c].op /\ call'[c].topic = call[c].topic
          /\ call'[c].sub = call[c].sub
      BY <1>3, <1>5, Sent
    <3>. QED BY <1>3, <3>1 DEF Goes
  <2>2. CASE call[c].op \in ToTopic
    <3>1. UNCHANGED sub
          /\ topic' = [topic EXCEPT ![call[c].topic] = Enqueue(topic[call[c].topic], r)]
      BY <1>1, <1>2, <2>2 DEF Send, SentRequest
    <3>2. TopicsSame
      BY <1>4, <2>2, <3>1, TopicEnqueued, SMTT(30) DEF TopicsSame
    <3>3. SubsSame /\ ConfigsSame
      BY <3>1 DEF SubsSame, ConfigsSame
    <3>. QED BY <1>3, <2>1, <3>2, <3>3 DEF Quiet
  <2>3. CASE call[c].op \notin ToTopic
    <3>1. PICK s \in SubId : s = call[c].sub
      BY <1>4, <2>3
    <3>2. UNCHANGED topic /\ (sub' = [sub EXCEPT ![s] = Enqueue(sub[s], r)] \/ sub' = sub)
      BY <1>1, <1>2, <2>3, <3>1 DEF Send, SentRequest
    <3>3. SubsSame /\ ConfigsSame
      <4>1. CASE sub' = sub
        BY <4>1 DEF SubsSame, ConfigsSame
      <4>2. CASE sub' = [sub EXCEPT ![s] = Enqueue(sub[s], r)]
        <5>. DEFINE b == Enqueue(sub[s], r)
        <5>1. /\ b.name = sub[s].name /\ b.topic = sub[s].topic
              /\ b.deleted = sub[s].deleted /\ b.attached = sub[s].attached
              /\ b.push_config = sub[s].push_config /\ b.step = sub[s].step
          BY <1>4, SubEnqueued
        <5>2. sub' = [sub EXCEPT ![s] = b]
          BY <4>2
        <5>. HIDE DEF b
        <5>. QED BY <1>4, <5>1, <5>2 DEF SubsSame, ConfigsSame
      <4>. QED BY <3>2, <4>1, <4>2
    <3>4. TopicsSame
      BY <3>2 DEF TopicsSame
    <3>. QED BY <1>3, <2>1, <3>3, <3>4 DEF Quiet
  <2>. QED BY <2>2, <2>3
<1>6. CASE Return(c, "error") /\ UNCHANGED <<topic, sub>>
  <2>1. \A d \in Clients : Goes(d) \/ Begins(d)
    BY <1>6, ReturnQuiet DEF Results
  <2>. QED BY <1>3, <1>6, <2>1 DEF Quiet, SubsSame, ConfigsSame, TopicsSame
<1>. QED BY <1>1, <1>5, <1>6 DEF Send

\* The topic actor's steps that change no list.
LEMMA TopicQuiet ==
  ASSUME AlwaysInv, NEW t \in TopicId, NEW new \in TopicActors,
         topic' = [topic EXCEPT ![t] = new],
         new.attached = topic[t].attached, new.deleted = topic[t].deleted,
         \A k \in DOMAIN new.tasks : new.tasks[k] = "failed" =>
           k \in DOMAIN topic[t].tasks /\ topic[t].tasks[k] = "failed",
         UNCHANGED <<topics, sub_next_id, sub>>,
         \A d \in Clients : Goes(d) \/ Begins(d)
  PROVE  Quiet /\ ConfigsSame
<1>1. /\ topic'[t] = new /\ \A x \in TopicId \ {t} : topic'[x] = topic[x]
  BY DEF AlwaysInv, LifecycleTypes
<1>2. TopicsSame
  BY <1>1 DEF TopicsSame
<1>3. SubsSame /\ ConfigsSame /\ NamesSame /\ Subs' = Subs
  BY DEF SubsSame, ConfigsSame, NamesSame, Subs
<1>. QED BY <1>2, <1>3 DEF Quiet

\* A topic's answer to a get is quiet.
LEMMA GetTopicInfoQuiet ==
  ASSUME AlwaysInv, NEW t \in TopicId, topic[t].mailbox # << >>,
         Head(topic[t].mailbox).op # "remove", UNCHANGED sub_next_id
  PROVE  GetTopicInfo(t) => Quiet /\ ConfigsSame
<1>1. SUFFICES ASSUME GetTopicInfo(t) PROVE Quiet /\ ConfigsSame
  OBVIOUS
<1>. DEFINE new == Dequeue(topic[t])
<1>2. PICK h : h = Head(topic[t].mailbox)
  OBVIOUS
<1>3. /\ new \in TopicActors /\ new.attached = topic[t].attached
      /\ new.deleted = topic[t].deleted /\ new.tasks = topic[t].tasks
      /\ OfCall(h, t)
  BY <1>2, TopicTakes
<1>4. /\ topic' = [topic EXCEPT ![t] = new] /\ UNCHANGED <<topics, sub>>
      /\ Return(h.from, "ok")
  BY <1>1, <1>2 DEF GetTopicInfo
<1>5. \A d \in Clients : Goes(d) \/ Begins(d)
  BY <1>3, <1>4, ReturnQuiet DEF OfCall, Results
<1>. HIDE DEF new
<1>. QED BY <1>3, <1>4, <1>5, TopicQuiet

\* So is beginning to publish: the new tasks are pending.
LEMMA PublishMessagesQuiet ==
  ASSUME AlwaysInv, NEW t \in TopicId, topic[t].mailbox # << >>,
         UNCHANGED sub_next_id
  PROVE  PublishMessages(t) /\ AlwaysInv' => Quiet /\ ConfigsSame
<1>1. SUFFICES ASSUME PublishMessages(t), AlwaysInv' PROVE Quiet /\ ConfigsSame
  OBVIOUS
<1>2. PICK h : h = Head(topic[t].mailbox)
  OBVIOUS
<1>. DEFINE n == topic[t].next_message_id + 1
            jobs == [k \in Attached(t) \X {MessageId(t, n)} |-> "pending"]
            D == Dequeue(topic[t])
            new == [D EXCEPT !.next_message_id = n, !.publishing = h.from,
                             !.tasks = jobs]
<1>3. /\ topic' = [topic EXCEPT ![t] = new] /\ UNCHANGED <<topics, sub, call>>
  BY <1>1, <1>2 DEF PublishMessages
<1>4. /\ D \in TopicActors /\ D.attached = topic[t].attached
      /\ D.deleted = topic[t].deleted
  BY TopicTakes
<1>5. \A k \in DOMAIN jobs : jobs[k] # "failed"
  OBVIOUS
<1>. HIDE DEF D, n, jobs
<1>6. /\ new.attached = topic[t].attached /\ new.deleted = topic[t].deleted
      /\ new.tasks = jobs
  BY <1>4 DEF TopicActors
<1>. HIDE DEF new
<1>7. topic' \in [TopicId -> TopicActors]
  BY <1>1 DEF AlwaysInv, LifecycleTypes
<1>8. new \in TopicActors
  BY <1>3, <1>7 DEF AlwaysInv, LifecycleTypes
<1>9. \A d \in Clients : Goes(d) \/ Begins(d)
  BY <1>3 DEF Goes
<1>. QED BY <1>3, <1>5, <1>6, <1>8, <1>9, TopicQuiet

\* So is answering the publisher.
LEMMA JoinQuiet ==
  ASSUME AlwaysInv, NEW t \in TopicId
  PROVE  Join(t) /\ AlwaysInv' => Quiet /\ ConfigsSame
<1>1. SUFFICES ASSUME Join(t), AlwaysInv' PROVE Quiet /\ ConfigsSame
  OBVIOUS
<1>2. PICK c \in Clients : c = topic[t].publishing
  BY <1>1 DEF Join, AlwaysInv, LifecycleTypes, TopicActors
<1>3. PICK result \in Results : Return(c, result)
  BY <1>1, <1>2 DEF Join, Outcome, Results
<1>. DEFINE new == [topic[t] EXCEPT !.publishing = None, !.tasks = NoTasks]
<1>4. topic \in [TopicId -> TopicActors] /\ topic[t] \in TopicActors
      /\ topic' \in [TopicId -> TopicActors]
  BY <1>1 DEF AlwaysInv, LifecycleTypes
<1>5. topic' = [topic EXCEPT ![t] = new] /\ UNCHANGED <<topics, sub_next_id, sub>>
  BY <1>1, <1>4 DEF Join
<1>6. /\ new.attached = topic[t].attached /\ new.deleted = topic[t].deleted
      /\ new.tasks = NoTasks
  BY <1>4 DEF TopicActors
<1>7. DOMAIN NoTasks = {}
  BY DEF NoTasks
<1>. HIDE DEF new
<1>8. new \in TopicActors
  BY <1>4, <1>5
<1>9. \A d \in Clients : Goes(d) \/ Begins(d)
  BY <1>3, ReturnQuiet
<1>. QED BY <1>5, <1>6, <1>7, <1>8, <1>9, TopicQuiet

\* The subscription actor's.
LEMMA SubQuiet ==
  ASSUME AlwaysInv, NEW s \in SubId, NEW new,
         sub' = [sub EXCEPT ![s] = new],
         new.name = sub[s].name, new.topic = sub[s].topic,
         new.deleted = sub[s].deleted, new.attached = sub[s].attached,
         new.step \in Departing <=> sub[s].step \in Departing,
         UNCHANGED <<topics, sub_next_id, topic>>,
         \A d \in Clients : Goes(d) \/ Begins(d)
  PROVE  Quiet /\ (new.push_config = sub[s].push_config => ConfigsSame)
<1>1. /\ sub'[s] = new /\ \A x \in SubId \ {s} : sub'[x] = sub[x]
  BY DEF AlwaysInv, LifecycleTypes
<1>2. SubsSame /\ (new.push_config = sub[s].push_config => ConfigsSame)
  BY <1>1 DEF SubsSame, ConfigsSame
<1>3. TopicsSame /\ NamesSame /\ Subs' = Subs
  BY DEF TopicsSame, NamesSame, Subs
<1>. QED BY <1>2, <1>3 DEF Quiet

\* A subscription that takes a post is quiet.
LEMMA PostMessagesQuiet ==
  ASSUME AlwaysInv, NEW s \in SubId, sub[s].mailbox # << >>,
         UNCHANGED <<topics, sub_next_id, topic>>
  PROVE  PostMessages(s) => Quiet /\ ConfigsSame
<1>1. SUFFICES ASSUME PostMessages(s) PROVE Quiet /\ ConfigsSame
  OBVIOUS
<1>2. PICK got : got = IF sub[s].deleted THEN sub[s].received
                       ELSE Append(sub[s].received, Head(sub[s].mailbox).id)
  OBVIOUS
<1>. DEFINE D == Dequeue(sub[s])
            new == [D EXCEPT !.received = got]
<1>3. /\ D \in SubActors /\ D.received = sub[s].received
      /\ D.name = sub[s].name /\ D.topic = sub[s].topic
      /\ D.deleted = sub[s].deleted /\ D.attached = sub[s].attached
      /\ D.step = sub[s].step /\ D.push_config = sub[s].push_config
  BY SubTakes
<1>4. sub' = [sub EXCEPT ![s] = new] /\ UNCHANGED call
  BY <1>1, <1>2, <1>3 DEF PostMessages
<1>. HIDE DEF D
<1>5. /\ new.name = sub[s].name /\ new.topic = sub[s].topic
      /\ new.deleted = sub[s].deleted /\ new.attached = sub[s].attached
      /\ new.step = sub[s].step /\ new.push_config = sub[s].push_config
  BY <1>3 DEF SubActors
<1>. HIDE DEF new
<1>6. \A d \in Clients : Goes(d) \/ Begins(d)
  BY <1>4 DEF Goes
<1>. QED BY <1>4, <1>5, <1>6, SubQuiet

\* So is its answer to a get.
LEMMA GetInfoQuiet ==
  ASSUME AlwaysInv, NEW s \in SubId, sub[s].mailbox # << >>,
         Head(sub[s].mailbox).op # "post", UNCHANGED <<topics, sub_next_id, topic>>
  PROVE  GetInfo(s) => Quiet /\ ConfigsSame
<1>1. SUFFICES ASSUME GetInfo(s) PROVE Quiet /\ ConfigsSame
  OBVIOUS
<1>2. PICK h : h = Head(sub[s].mailbox)
  OBVIOUS
<1>. DEFINE new == Dequeue(sub[s])
<1>3. /\ new.name = sub[s].name /\ new.topic = sub[s].topic
      /\ new.deleted = sub[s].deleted /\ new.attached = sub[s].attached
      /\ new.step = sub[s].step /\ new.push_config = sub[s].push_config
      /\ FromCall(h, s)
  BY <1>2, SubTakes
<1>4. sub' = [sub EXCEPT ![s] = new] /\ Return(h.from, "ok")
  BY <1>1, <1>2 DEF GetInfo
<1>5. \A d \in Clients : Goes(d) \/ Begins(d)
  BY <1>3, <1>4, ReturnQuiet DEF FromCall, Results
<1>. HIDE DEF new
<1>. QED BY <1>3, <1>4, <1>5, SubQuiet

\* So is modify_push_config.
LEMMA ModifyPushConfigQuiet ==
  ASSUME AlwaysInv, NEW s \in SubId, sub[s].mailbox # << >>,
         Head(sub[s].mailbox).op # "post", UNCHANGED <<topics, sub_next_id, topic>>
  PROVE  ModifyPushConfig(s) => Quiet
<1>1. SUFFICES ASSUME ModifyPushConfig(s) PROVE Quiet
  OBVIOUS
<1>2. PICK h : h = Head(sub[s].mailbox)
  OBVIOUS
<1>. DEFINE D == Dequeue(sub[s])
            new == [D EXCEPT !.push_config = h.push_config]
<1>3. /\ D \in SubActors
      /\ D.name = sub[s].name /\ D.topic = sub[s].topic
      /\ D.deleted = sub[s].deleted /\ D.attached = sub[s].attached
      /\ D.step = sub[s].step /\ FromCall(h, s)
  BY <1>2, SubTakes
<1>4. sub' = [sub EXCEPT ![s] = new] /\ Return(h.from, "ok")
  BY <1>1, <1>2 DEF ModifyPushConfig
<1>. HIDE DEF D
<1>5. /\ new.name = sub[s].name /\ new.topic = sub[s].topic
      /\ new.deleted = sub[s].deleted /\ new.attached = sub[s].attached
      /\ new.step = sub[s].step
  BY <1>3 DEF SubActors
<1>. HIDE DEF new
<1>6. \A d \in Clients : Goes(d) \/ Begins(d)
  BY <1>3, <1>4, ReturnQuiet DEF FromCall, Results
<1>. QED BY <1>4, <1>5, <1>6, SubQuiet

\* A subscription that asks its topic to let it go is quiet.
LEMMA AskTopicQuiet ==
  ASSUME AlwaysInv, NEW s \in SubId
  PROVE  AskTopic(s) => Quiet /\ ConfigsSame
<1>1. SUFFICES ASSUME AskTopic(s) PROVE Quiet /\ ConfigsSame
  OBVIOUS
<1>2. /\ sub[s].step = "asking" /\ sub \in [SubId -> SubActors]
      /\ topic \in [TopicId -> TopicActors] /\ sub[s] \in SubActors
  BY <1>1 DEF AskTopic, AlwaysInv, LifecycleTypes
<1>3. PICK t \in TopicId : t = sub[s].topic
  <2>1. NoSub.step = "idle"
    BY DEF NoSub
  <2>. QED BY <1>2, <2>1 DEF AlwaysInv, Numbered
<1>4. PICK r \in Requests : r = Request("remove", s)
  BY Apart DEF Request, Requests
<1>. DEFINE b == [sub[s] EXCEPT !.step = "asked"]
            new == Enqueue(topic[t], r)
<1>5. /\ topic' = [topic EXCEPT ![t] = new]
      /\ sub' = [sub EXCEPT ![s] = b]
      /\ UNCHANGED <<topics, sub_next_id, call>>
  BY <1>1, <1>2, <1>3, <1>4 DEF AskTopic
<1>6. /\ b.name = sub[s].name /\ b.topic = sub[s].topic
      /\ b.deleted = sub[s].deleted /\ b.attached = sub[s].attached
      /\ b.push_config = sub[s].push_config /\ b.step = "asked"
  BY <1>2 DEF SubActors
<1>7. /\ new.attached = topic[t].attached /\ new.deleted = topic[t].deleted
      /\ new.tasks = topic[t].tasks
  BY <1>2, TopicEnqueued
<1>. HIDE DEF b, new
<1>8. SubsSame /\ ConfigsSame
  BY <1>2, <1>5, <1>6 DEF SubsSame, ConfigsSame, Departing
<1>9. TopicsSame
  BY <1>2, <1>5, <1>7 DEF TopicsSame
<1>10. NamesSame /\ Subs' = Subs /\ \A d \in Clients : Goes(d)
  BY <1>5 DEF NamesSame, Subs, Goes
<1>. QED BY <1>8, <1>9, <1>10 DEF Quiet

\* So is freeing its name.
LEMMA FreeNameQuiet ==
  ASSUME AlwaysInv, NEW s \in SubId
  PROVE  FreeName(s) => Quiet /\ ConfigsSame
<1>1. SUFFICES ASSUME FreeName(s) PROVE Quiet /\ ConfigsSame
  OBVIOUS
<1>2. /\ sub[s].step = "freeing" /\ sub \in [SubId -> SubActors]
      /\ sub[s] \in SubActors
  BY <1>1 DEF FreeName, AlwaysInv, LifecycleTypes
<1>. DEFINE b == [sub[s] EXCEPT !.step = "unregistering", !.signalled = TRUE]
<1>3. sub' = [sub EXCEPT ![s] = b] /\ UNCHANGED <<topics, sub_next_id, topic, call>>
  BY <1>1, <1>2 DEF FreeName
<1>4. /\ b.name = sub[s].name /\ b.topic = sub[s].topic
      /\ b.deleted = sub[s].deleted /\ b.attached = sub[s].attached
      /\ b.push_config = sub[s].push_config /\ b.step = "unregistering"
  BY <1>2 DEF SubActors
<1>. HIDE DEF b
<1>5. /\ \A d \in Clients : Goes(d) \/ Begins(d)
      /\ b.step \notin Departing /\ sub[s].step \notin Departing
  BY <1>2, <1>3, <1>4 DEF Goes, Departing
<1>. QED BY <1>3, <1>4, <1>5, SubQuiet

\* So is leaving the registry.
LEMMA UnregisterQuiet ==
  ASSUME AlwaysInv, NEW s \in SubId
  PROVE  Unregister(s) => Quiet /\ ConfigsSame
<1>1. SUFFICES ASSUME Unregister(s) PROVE Quiet /\ ConfigsSame
  OBVIOUS
<1>2. /\ sub[s].step = "unregistering" /\ sub \in [SubId -> SubActors]
      /\ sub[s] \in SubActors
  BY <1>1 DEF Unregister, AlwaysInv, LifecycleTypes
<1>3. sub[s].caller \in Clients
  BY <1>2 DEF AlwaysInv, Deletions, SubActors
<1>. DEFINE b == [sub[s] EXCEPT !.step = "idle", !.caller = None]
<1>4. sub' = [sub EXCEPT ![s] = b] /\ UNCHANGED <<topics, sub_next_id, topic>>
      /\ Return(sub[s].caller, "ok")
  BY <1>1, <1>2 DEF Unregister
<1>5. /\ b.name = sub[s].name /\ b.topic = sub[s].topic
      /\ b.deleted = sub[s].deleted /\ b.attached = sub[s].attached
      /\ b.push_config = sub[s].push_config /\ b.step = "idle"
  BY <1>2 DEF SubActors
<1>. HIDE DEF b
<1>6. \A d \in Clients : Goes(d) \/ Begins(d)
  BY <1>3, <1>4, ReturnQuiet DEF Results
<1>7. b.step \notin Departing /\ sub[s].step \notin Departing
  BY <1>2, <1>5 DEF Departing
<1>. QED BY <1>4, <1>5, <1>6, <1>7, SubQuiet

\* So is the end of its actor.
LEMMA StopQuiet ==
  ASSUME AlwaysInv, NEW s \in SubId
  PROVE  Stop(s) => Quiet /\ ConfigsSame
<1>1. SUFFICES ASSUME Stop(s) PROVE Quiet /\ ConfigsSame
  OBVIOUS
<1>2. sub \in [SubId -> SubActors] /\ sub[s] \in SubActors
  BY DEF AlwaysInv, LifecycleTypes
<1>3. PICK left : left = {sub[s].mailbox[i].from : i \in DOMAIN sub[s].mailbox} \ {None}
  OBVIOUS
<1>. DEFINE b == [sub[s] EXCEPT !.running = FALSE, !.mailbox = << >>]
<1>4. /\ sub' = [sub EXCEPT ![s] = b] /\ UNCHANGED <<topics, sub_next_id, topic>>
      /\ call' = [c \in Clients |-> IF c \in left THEN Idle("error") ELSE call[c]]
  BY <1>1, <1>2, <1>3 DEF Stop
<1>5. /\ b.name = sub[s].name /\ b.topic = sub[s].topic
      /\ b.deleted = sub[s].deleted /\ b.attached = sub[s].attached
      /\ b.push_config = sub[s].push_config /\ b.step = sub[s].step
  BY <1>2 DEF SubActors
<1>. HIDE DEF b
<1>6. \A d \in Clients : Goes(d) \/ Begins(d)
  <2>1. Idle("error").sub = None /\ Idle("error").stage = "idle"
    BY DEF Idle
  <2>2. \A d \in Clients : call'[d] = Idle("error") \/ call'[d] = call[d]
    BY <1>4
  <2>. QED BY <2>1, <2>2 DEF Goes, Begins
<1>. QED BY <1>4, <1>5, <1>6, SubQuiet

\* Nobody takes hold of a topic that everybody has let go of.
LEMMA HeldKept ==
  ASSUME AlwaysInv, NamesSame, CallsSame,
         \A x \in SubId : sub'[x].step \in Departing =>
           /\ sub'[x].topic = sub[x].topic
           /\ sub[x].step \in Departing \/ Held(sub[x].topic)
  PROVE  \A t \in Topics : Held(t)' => Held(t)
<1>. SUFFICES ASSUME NEW t \in Topics, Held(t)' PROVE Held(t)
  OBVIOUS
<1>1. t # None
  BY Apart
<1>2. CASE \E n \in TopicNames : topics'[n] = t
  BY <1>1, <1>2 DEF NamesSame, Held
<1>3. CASE \E c \in Clients : call'[c].stage # "idle" /\ call'[c].topic = t
  <2>1. PICK c \in Clients : call'[c].stage # "idle" /\ call'[c].topic = t
    BY <1>3
  <2>2. CASE Goes(c)
    BY <2>1, <2>2 DEF Goes, Held
  <2>3. CASE Begins(c)
    BY <2>1, <2>3 DEF Begins, Held
  <2>4. CASE Finds(c)
    BY <1>1, <2>1, <2>4 DEF Finds
  <2>. QED BY <2>2, <2>3, <2>4 DEF CallsSame
<1>4. CASE \E s \in SubId : sub'[s].topic = t /\ sub'[s].step \in Departing
  BY <1>4 DEF Held, Departing
<1>. QED BY <1>2, <1>3, <1>4 DEF Held, Departing

\* A subscription being created stays unknown to other callers.
LEMMA CreatedAloneKept ==
  ASSUME AlwaysInv, CreatedAlone, Patient, CallsSame,
         \A x \in SubId : /\ sub'[x].deleted = sub[x].deleted
                          /\ sub'[x].attached = sub[x].attached
  PROVE  CreatedAlone'
<1>. SUFFICES ASSUME NEW d \in Clients, call'[d].op = "create_subscription",
                     call'[d].sub # None
              PROVE  /\ ~sub'[call'[d].sub].deleted /\ ~sub'[call'[d].sub].attached
                     /\ \A c \in Clients \ {d} : call'[c].sub # call'[d].sub
  BY DEF CreatedAlone
<1>1. Goes(d)
  BY DEF CallsSame, Begins, Finds, SubOps
<1>2. /\ call[d].op = "create_subscription" /\ call[d].sub # None
      /\ call'[d].sub = call[d].sub /\ call[d].sub \in SubId
  BY <1>1 DEF Goes, AlwaysInv, CallsTracked, Tracked, Numbered
<1>3. ~sub'[call'[d].sub].deleted /\ ~sub'[call'[d].sub].attached
  BY <1>2 DEF CreatedAlone
<1>4. ASSUME NEW c \in Clients \ {d} PROVE call'[c].sub # call'[d].sub
  <2>1. CASE Goes(c)
    BY <1>2, <1>4, <2>1 DEF Goes, CreatedAlone
  <2>2. CASE Begins(c)
    BY <1>2, <2>2 DEF Begins
  <2>3. CASE Finds(c)
    BY <1>2, <2>3 DEF Finds
  <2>. QED BY <2>1, <2>2, <2>3 DEF CallsSame
<1>. QED BY <1>3, <1>4

\* A quiet step keeps PatientInv.
LEMMA QuietKept ==
  ASSUME PatientInv, AlwaysInv', Patient, Subs' = Subs, SubsSame, TopicsSame,
         NamesSame, CallsSame
  PROVE  PatientInv'
<1>1. \A t \in Topics : Held(t)' => Held(t)
  BY HeldKept DEF PatientInv, SubsSame
<1>2. CreatedAlone'
  BY CreatedAloneKept DEF PatientInv, SubsSame
<1>3. Left'
  <2>. SUFFICES ASSUME NEW s \in Subs, sub'[s].deleted, sub'[s].step \notin Departing,
                       NEW t \in TopicId, NEW n \in SubNames, Held(t)',
                       topic'[t].attached[n] = s
                PROVE  FALSE
    BY DEF Left, Departing
  <2>1. /\ s \in SubId /\ topic[t].attached[n] = s /\ s # None
    BY Apart DEF TopicsSame, PatientInv, AlwaysInv, Numbered
  <2>2. sub[s].deleted /\ sub[s].step \notin Departing
    BY <2>1 DEF SubsSame
  <2>3. sub[s].topic = t
    <3>1. OnList
      BY DEF PatientInv, AlwaysInv
    <3>2. topic[t].attached[n] # None => sub[topic[t].attached[n]].topic = t
      BY <3>1 DEF OnList
    <3>. QED BY <2>1, <3>2
  <2>4. t \in Topics
    BY <2>3 DEF PatientInv, AlwaysInv, Numbered
  <2>. QED BY <1>1, <2>1, <2>2, <2>4 DEF PatientInv, Left, Departing
<1>4. Stays'
  <2>. SUFFICES ASSUME NEW s \in Subs, sub'[s].attached, ~sub'[s].deleted
                PROVE  \/ topic'[sub'[s].topic].deleted
                       \/ topic'[sub'[s].topic].attached[sub'[s].name] = s
    BY DEF Stays
  <2>1. /\ s \in SubId /\ sub[s].topic \in TopicId
        /\ sub'[s].topic = sub[s].topic /\ sub'[s].name = sub[s].name
        /\ sub[s].attached /\ ~sub[s].deleted
    BY DEF SubsSame, PatientInv, AlwaysInv, Numbered
  <2>. QED BY <2>1, SMTT(30) DEF TopicsSame, PatientInv, Stays
<1>5. PublishNeverFails'
  BY DEF PatientInv, PublishNeverFails, TopicsSame
<1>. QED BY <1>2, <1>3, <1>4, <1>5 DEF PatientInv

\* The same, from the definition of a quiet step.
LEMMA PatientQuiet ==
  ASSUME PatientInv, AlwaysInv', Patient, Quiet
  PROVE  PatientInv'
BY QuietKept DEF Quiet, CallsSame

=============================================================================

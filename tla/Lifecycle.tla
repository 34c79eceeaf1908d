------------------------------- MODULE Lifecycle -------------------------------
(***************************************************************************)
(* Topics and subscriptions as they come and go: the two managers with     *)
(* their maps from names to instances, the topic actors and what a         *)
(* subscription actor does outside its own queues, the bounded mailboxes   *)
(* between them, the push registry, and the calls of the gRPC services     *)
(* that create, delete, publish and configure.                             *)
(*                                                                         *)
(* An instance is its internal id; the same name may belong to several     *)
(* instances over time.  A topic's actor lives as long as somebody can     *)
(* send to it, so nobody ever waits on a topic that is gone.               *)
(***************************************************************************)
EXTENDS Integers, Sequences, FiniteSetsExt

CONSTANTS
  TopicNames, SubNames, Clients,
  None,          \* no instance, no caller, no push configuration
  Configs,       \* push configurations
  Capacity,      \* the bound of every mailbox, 128 in the code
  U32,           \* 2^32 in the code: message ids of a topic
  Patient,       \* whether clients leave a subscription alone until the call
                 \* that creates it has returned
  MaxTopicId, MaxSubId, MaxPublished \* bounds: instances, messages

ASSUME LifecycleAssumption ==
  /\ None \notin Nat /\ None \notin Configs /\ None \notin Clients
  /\ Clients \cap Nat = {}
  /\ Capacity \in Nat \ {0} /\ U32 \in Nat \ {0}
  /\ MaxTopicId \in Nat /\ MaxSubId \in Nat
  /\ MaxPublished \in Nat /\ MaxPublished < U32

TopicId == 2..MaxTopicId
SubId == 2..MaxSubId

VARIABLES
  topics, topic_next_id,        \* TopicManager: names in use, the last id
  subscriptions, sub_next_id,   \* SubscriptionManager
  registry,     \* PushSubscriptionsRegistry
  topic,        \* the topic actors, with their mailboxes
  sub,          \* the subscription actors, with their mailboxes
  call          \* the call each client is in

vars == <<topics, topic_next_id, subscriptions, sub_next_id, registry, topic,
          sub, call>>

NoTasks == [k \in {} |-> "pending"]
NoTopic == [name |-> None, attached |-> [n \in SubNames |-> None],
            deleted |-> FALSE, next_message_id |-> 0, mailbox |-> << >>,
            publishing |-> None, tasks |-> NoTasks]
NoSub == [name |-> None, topic |-> None, push_config |-> None,
          deleted |-> FALSE, signalled |-> FALSE, running |-> FALSE,
          attached |-> FALSE, mailbox |-> << >>, received |-> << >>,
          step |-> "idle", caller |-> None]
Idle(result) ==
  [op |-> "none", name |-> None, topic |-> None, sub |-> None,
   push_config |-> None, stage |-> "idle", result |-> result]

LifecycleInit ==
  /\ topics = [n \in TopicNames |-> None] /\ topic_next_id = 1
  /\ subscriptions = [n \in SubNames |-> None] /\ sub_next_id = 1
  /\ registry = [n \in SubNames |-> None]
  /\ topic = [t \in TopicId |-> NoTopic]
  /\ sub = [s \in SubId |-> NoSub]
  /\ call = [c \in Clients |-> Idle("none")]

-----------------------------------------------------------------------------
\* MessageId::new.
MessageId(t, n) == t * U32 + n

\* registry.set: or_insert for a configuration, remove for none.
\* Variant: nothing is removed.
RegistryInsert(n, config) ==
  IF config # None /\ registry[n] = None
  THEN [registry EXCEPT ![n] = config] ELSE registry
RegistrySet(n, config) ==
  IF config = None THEN [registry EXCEPT ![n] = None]
  ELSE IF registry[n] = None THEN [registry EXCEPT ![n] = config]
  ELSE registry

\* The requests that wait in a mailbox, and the instance they are for.
Request(op, from) == [op |-> op, from |-> from, sub |-> None, id |-> 0,
                      push_config |-> None]
Full(actor) == Len(actor.mailbox) >= Capacity
Enqueue(actor, r) == [actor EXCEPT !.mailbox = Append(@, r)]
Dequeue(actor) == [actor EXCEPT !.mailbox = Tail(@)]

\* Who keeps a topic alive: the manager, the calls that looked it up, and the
\* subscriptions that are about to leave it.
Held(t) ==
  \/ \E n \in TopicNames : topics[n] = t
  \/ \E c \in Clients : call[c].stage # "idle" /\ call[c].topic = t
  \/ \E s \in SubId : sub[s].topic = t /\ sub[s].step \in {"asking", "asked"}

\* A call returns.
Returned(calls, c, result) == [calls EXCEPT ![c] = Idle(result)]
Return(c, result) == call' = Returned(call, c, result)

\* Bounds: a call that would exceed one is not made.
InCall(op) == {c \in Clients : call[c].op = op}
MayPublish ==
  MapThenSumSet(LAMBDA t : topic[t].next_message_id, TopicId)
    + Cardinality(InCall("publish")) < MaxPublished
Spare(calls, last) ==
  \E number \in [calls -> SubId] :
    \A d \in calls : /\ number[d] > last
                     /\ \A e \in calls : number[d] = number[e] => d = e

-----------------------------------------------------------------------------
\* create_topic: a name in use is refused; then the new topic is asked for its
\* info.
CreateTopic(c, n) ==
  /\ call[c].stage = "idle"
  /\ IF topics[n] # None
     THEN Return(c, "error") /\ UNCHANGED <<topics, topic_next_id, topic>>
     ELSE LET t == topic_next_id + 1
          IN  /\ t \in TopicId
              /\ topic_next_id' = t
              /\ topics' = [topics EXCEPT ![n] = t]
              /\ topic' = [topic EXCEPT ![t].name = n]
              /\ call' = [call EXCEPT ![c] =
                            [Idle("none") EXCEPT !.op = "get_topic",
                               !.topic = t, !.stage = "calling"]]
  /\ UNCHANGED <<subscriptions, sub_next_id, registry, sub>>

\* publish, delete_topic and get_topic look the topic up and then call it.
CallTopic(c, op, n) ==
  /\ call[c].stage = "idle"
  /\ op = "publish" => MayPublish
  /\ IF topics[n] = None THEN Return(c, "error")
     ELSE call' = [call EXCEPT ![c] =
                     [Idle("none") EXCEPT !.op = op, !.topic = topics[n],
                                          !.stage = "calling"]]
  /\ UNCHANGED <<topics, topic_next_id, subscriptions, sub_next_id, registry,
                 topic, sub>>

\* create_subscription looks up the topic ...
CreateSubscription(c, n, tn, config) ==
  /\ call[c].stage = "idle"
  /\ Spare(InCall("create_subscription") \cup {c}, sub_next_id)
  /\ IF topics[tn] = None THEN Return(c, "error")
     ELSE call' = [call EXCEPT ![c] =
                     [Idle("none") EXCEPT !.op = "create_subscription",
                        !.name = n, !.topic = topics[tn], !.stage = "creating",
                        !.push_config = config]]
  /\ UNCHANGED <<topics, topic_next_id, subscriptions, sub_next_id, registry,
                 topic, sub>>

\* ... enters the name and starts the actor, which registers itself for push,
\* under the manager's lock, and goes on to attach it to the topic.
InsertSubscription(c) ==
  LET n == call[c].name
      s == sub_next_id + 1
  IN  /\ call[c].stage = "creating"
      /\ IF subscriptions[n] # None
         THEN /\ Return(c, "error")
              /\ UNCHANGED <<subscriptions, sub_next_id, registry, sub>>
         ELSE /\ sub_next_id' = s
              /\ subscriptions' = [subscriptions EXCEPT ![n] = s]
              /\ sub' = [sub EXCEPT ![s] =
                           [NoSub EXCEPT !.name = n, !.topic = call[c].topic,
                              !.push_config = call[c].push_config,
                              !.running = TRUE]]
              /\ registry' = IF call[c].push_config = None THEN registry
                             ELSE RegistrySet(n, call[c].push_config)
              /\ call' = [call EXCEPT ![c].sub = s, ![c].stage = "calling"]
      /\ UNCHANGED <<topics, topic_next_id, topic>>

\* delete_subscription, modify_push_config and get_subscription look the
\* subscription up and then call it.
CallSubscription(c, op, n, config) ==
  LET s == subscriptions[n]
  IN  /\ call[c].stage = "idle"
      /\ Patient => ~\E d \in Clients : /\ call[d].op = "create_subscription"
                                        /\ call[d].name = n
      /\ IF s = None THEN Return(c, "error")
         ELSE call' = [call EXCEPT ![c] =
                         [Idle("none") EXCEPT !.op = op, !.sub = s,
                            !.push_config = config, !.stage = "calling"]]
      /\ UNCHANGED <<topics, topic_next_id, subscriptions, sub_next_id,
                     registry, topic, sub>>

\* The call's request reaches the mailbox, or finds the subscription stopped.
ToTopic == {"publish", "delete_topic", "get_topic", "create_subscription"}
Send(c) ==
  LET r == [Request(call[c].op, c) EXCEPT !.sub = call[c].sub,
                                          !.push_config = call[c].push_config]
      t == call[c].topic
      s == call[c].sub
  IN  /\ call[c].stage = "calling"
      /\ \/ /\ call[c].op \in ToTopic
            /\ ~Full(topic[t])
            /\ topic' = [topic EXCEPT ![t] = Enqueue(topic[t], r)]
            /\ call' = [call EXCEPT ![c].stage = "awaiting"]
            /\ UNCHANGED sub
         \/ /\ call[c].op \notin ToTopic /\ sub[s].running
            /\ ~Full(sub[s])
            /\ sub' = [sub EXCEPT ![s] = Enqueue(sub[s], r)]
            /\ call' = [call EXCEPT ![c].stage = "awaiting"]
            /\ UNCHANGED topic
         \/ /\ call[c].op \notin ToTopic /\ ~sub[s].running
            /\ Return(c, "error")
            /\ UNCHANGED <<topic, sub>>
      /\ UNCHANGED <<topics, topic_next_id, subscriptions, sub_next_id,
                     registry>>

-----------------------------------------------------------------------------
\* publish_messages up to the join: the message gets its id, and one task per
\* attached subscription will post it.
Attached(t) == {topic[t].attached[m] : m \in SubNames} \ {None}
\* Variant: the topic does not wait for its posts.
PublishWithoutWaiting(t) ==
  LET n == topic[t].next_message_id + 1
      id == MessageId(t, n)
  IN  /\ topic' = [topic EXCEPT ![t] =
                     [Dequeue(topic[t]) EXCEPT
                        !.next_message_id = n,
                        !.tasks = [k \in DOMAIN @ \cup (Attached(t) \X {id}) |->
                                     IF k \in DOMAIN @ THEN @[k] ELSE "pending"]]]
      /\ Return(Head(topic[t].mailbox).from, "ok")
      /\ UNCHANGED <<topics, sub>>
PublishMessages(t) ==
  LET n == topic[t].next_message_id + 1
      id == MessageId(t, n)
  IN  /\ topic' = [topic EXCEPT ![t] =
                     [Dequeue(topic[t]) EXCEPT
                        !.next_message_id = n,
                        !.publishing = Head(topic[t].mailbox).from,
                        !.tasks = [k \in Attached(t) \X {id} |-> "pending"]]]
      /\ UNCHANGED <<topics, sub, call>>

\* A task of the join set posts to its subscription: it waits for room in the
\* mailbox, and fails once the subscription has stopped.
Post(t, s) ==
  \E k \in DOMAIN topic[t].tasks :
      /\ k[1] = s /\ topic[t].tasks[k] = "pending"
      /\ \/ /\ sub[s].running /\ ~Full(sub[s])
            /\ sub' = [sub EXCEPT ![s] =
                         Enqueue(@, [Request("post", None) EXCEPT !.id = k[2]])]
            /\ topic' = [topic EXCEPT ![t].tasks[k] = "done"]
         \/ /\ ~sub[s].running
            /\ topic' = [topic EXCEPT ![t].tasks[k] = "failed"]
            /\ UNCHANGED sub
      /\ UNCHANGED <<topics, topic_next_id, subscriptions, sub_next_id,
                     registry, call>>

\* The join: the first failure ends the publish, and the tasks that have not
\* posted yet are aborted with their set.
\* Variant: failures are ignored and the join stops at the first success.
OutcomeOfAny(tasks) ==
  IF DOMAIN tasks = {} \/ \E k \in DOMAIN tasks : tasks[k] = "done" THEN "ok"
  ELSE "none"
Outcome(tasks) ==
  IF \E k \in DOMAIN tasks : tasks[k] = "failed" THEN "error"
  ELSE IF \A k \in DOMAIN tasks : tasks[k] = "done" THEN "ok"
  ELSE "none"
Join(t) ==
  LET result == Outcome(topic[t].tasks)
  IN  /\ topic[t].publishing # None
      /\ result # "none"
      /\ Return(topic[t].publishing, result)
      /\ topic' = [topic EXCEPT ![t].publishing = None, ![t].tasks = NoTasks]
      /\ UNCHANGED <<topics, topic_next_id, subscriptions, sub_next_id,
                     registry, sub>>

\* attach_subscription: an occupied name is left alone.  The call goes on to
\* ask the subscription for its info.
AttachSubscription(t) ==
  LET r == Head(topic[t].mailbox)
      n == sub[r.sub].name
  IN  /\ topic' = [topic EXCEPT ![t] =
                     [Dequeue(topic[t]) EXCEPT
                        !.attached[n] = IF @ = None THEN r.sub ELSE @]]
      /\ sub' = [sub EXCEPT ![r.sub].attached = TRUE]
      /\ call' = [call EXCEPT ![r.from].op = "get_subscription",
                              ![r.from].stage = "calling"]
      /\ UNCHANGED <<topics>>

\* remove_subscription, by name; the subscription goes on with its deletion.
RemoveSubscription(t) ==
  LET r == Head(topic[t].mailbox)
  IN  /\ topic' = [topic EXCEPT ![t] =
                     [Dequeue(topic[t]) EXCEPT
                        !.attached[sub[r.from].name] = None]]
      /\ sub' = [sub EXCEPT ![r.from].step = "freeing"]
      /\ UNCHANGED <<topics, call>>

\* delete: the name is freed in the manager; a second one changes nothing.
\* Variant: a second one frees the name again.
NeverAlreadyDeleted(t) == FALSE
AlreadyDeleted(t) == topic[t].deleted
DeleteTopic(t) ==
  LET r == Head(topic[t].mailbox)
      without == Dequeue(topic[t])
  IN  /\ IF AlreadyDeleted(t)
         THEN topic' = [topic EXCEPT ![t] = without] /\ UNCHANGED topics
         ELSE /\ topic' = [topic EXCEPT ![t] =
                             [without EXCEPT !.deleted = TRUE,
                                !.attached = [n \in SubNames |-> None]]]
              /\ topics' = [topics EXCEPT ![topic[t].name] = None]
      /\ Return(r.from, "ok")
      /\ UNCHANGED <<sub>>

GetTopicInfo(t) ==
  /\ topic' = [topic EXCEPT ![t] = Dequeue(topic[t])]
  /\ Return(Head(topic[t].mailbox).from, "ok")
  /\ UNCHANGED <<topics, sub>>

TopicReceive(t) ==
  /\ topic[t].publishing = None /\ topic[t].mailbox # << >>
  /\ LET op == Head(topic[t].mailbox).op
     IN  \/ op = "publish" /\ PublishMessages(t)
         \/ op = "create_subscription" /\ AttachSubscription(t)
         \/ op = "remove" /\ RemoveSubscription(t)
         \/ op = "delete_topic" /\ DeleteTopic(t)
         \/ op = "get_topic" /\ GetTopicInfo(t)
  /\ UNCHANGED <<topic_next_id, subscriptions, sub_next_id, registry>>

-----------------------------------------------------------------------------
\* The subscription actor handles a request other than a deletion.
PostMessages(s) ==
  LET r == Head(sub[s].mailbox)
  IN  /\ sub' = [sub EXCEPT ![s] =
                   [Dequeue(sub[s]) EXCEPT
                      !.received = IF sub[s].deleted THEN @ ELSE Append(@, r.id)]]
      /\ UNCHANGED <<registry, call>>
GetInfo(s) ==
  /\ sub' = [sub EXCEPT ![s] = Dequeue(sub[s])]
  /\ Return(Head(sub[s].mailbox).from, "ok")
  /\ UNCHANGED registry
ModifyPushConfig(s) ==
  LET r == Head(sub[s].mailbox)
  IN  /\ sub' = [sub EXCEPT ![s] =
                   [Dequeue(sub[s]) EXCEPT !.push_config = r.push_config]]
      /\ registry' = RegistrySet(sub[s].name, r.push_config)
      /\ Return(r.from, "ok")

\* delete, up to its first await: the subscription takes hold of its topic if
\* there still is one.
\* Variant: the topic is not told.
FirstStepAlone(s) == "freeing"
FirstStep(s) == IF Held(sub[s].topic) THEN "asking" ELSE "freeing"
Delete(s) ==
  LET r == Head(sub[s].mailbox)
      without == Dequeue(sub[s])
  IN  /\ IF sub[s].deleted
         THEN sub' = [sub EXCEPT ![s] = without] /\ Return(r.from, "ok")
         ELSE /\ sub' = [sub EXCEPT ![s] =
                           [without EXCEPT !.deleted = TRUE, !.caller = r.from,
                              !.step = FirstStep(s)]]
              /\ UNCHANGED call
      /\ UNCHANGED registry

SubReceive(s) ==
  /\ sub[s].running /\ sub[s].step = "idle" /\ sub[s].mailbox # << >>
  /\ LET op == Head(sub[s].mailbox).op
     IN  \/ op = "post" /\ PostMessages(s)
         \/ op = "get_subscription" /\ GetInfo(s)
         \/ op = "modify_push_config" /\ ModifyPushConfig(s)
         \/ op = "delete_subscription" /\ Delete(s)
  /\ UNCHANGED <<topics, topic_next_id, subscriptions, sub_next_id, topic>>

\* The rest of delete: ask the topic, wait for its answer, free the name in
\* the manager and raise the signal, clear the queues, and unregister from
\* push.  Between the last two another thread may run.
AskTopic(s) ==
  LET t == sub[s].topic
  IN  /\ sub[s].step = "asking"
      /\ ~Full(topic[t])
      /\ topic' = [topic EXCEPT ![t] = Enqueue(topic[t], Request("remove", s))]
      /\ sub' = [sub EXCEPT ![s].step = "asked"]
      /\ UNCHANGED <<topics, topic_next_id, subscriptions, sub_next_id,
                     registry, call>>
FreeName(s) ==
  /\ sub[s].step = "freeing"
  /\ subscriptions' = [subscriptions EXCEPT ![sub[s].name] = None]
  /\ sub' = [sub EXCEPT ![s].step = "unregistering", ![s].signalled = TRUE]
  /\ UNCHANGED <<topics, topic_next_id, sub_next_id, registry, topic, call>>
Unregister(s) ==
  /\ sub[s].step = "unregistering"
  /\ registry' = RegistrySet(sub[s].name, None)
  /\ sub' = [sub EXCEPT ![s].step = "idle", ![s].caller = None]
  /\ Return(sub[s].caller, "ok")
  /\ UNCHANGED <<topics, topic_next_id, subscriptions, sub_next_id, topic>>

\* The actor stops after the signal; whoever waits for an answer to a request
\* left in its mailbox gets an error.
\* Variant: the mailbox outlives the actor.
StopKeepingMailbox(s) ==
  /\ sub[s].running /\ sub[s].signalled /\ sub[s].step = "idle"
  /\ sub' = [sub EXCEPT ![s].running = FALSE]
  /\ UNCHANGED <<topics, topic_next_id, subscriptions, sub_next_id, registry,
                 topic, call>>
Stop(s) ==
  LET left == {sub[s].mailbox[i].from : i \in DOMAIN sub[s].mailbox} \ {None}
  IN  /\ sub[s].running /\ sub[s].signalled /\ sub[s].step = "idle"
      /\ sub' = [sub EXCEPT ![s].running = FALSE, ![s].mailbox = << >>]
      /\ call' = [c \in Clients |->
                    IF c \in left THEN Idle("error") ELSE call[c]]
      /\ UNCHANGED <<topics, topic_next_id, subscriptions, sub_next_id,
                     registry, topic>>

-----------------------------------------------------------------------------
\* The calls that clients make.
Begin(c) ==
  \/ \E n \in TopicNames :
       \/ CreateTopic(c, n)
       \/ \E op \in {"publish", "delete_topic", "get_topic"} : CallTopic(c, op, n)
       \/ \E m \in SubNames, config \in Configs \cup {None} :
            CreateSubscription(c, m, n, config)
  \/ \E n \in SubNames :
       \/ \E op \in {"delete_subscription", "get_subscription"} :
            CallSubscription(c, op, n, None)
       \/ \E config \in Configs \cup {None} :
            CallSubscription(c, "modify_push_config", n, config)

\* What the server does on its own.
Serve ==
  \/ \E c \in Clients : InsertSubscription(c) \/ Send(c)
  \/ \E t \in TopicId :
       TopicReceive(t) \/ Join(t) \/ \E s \in SubId : Post(t, s)
  \/ \E s \in SubId :
       SubReceive(s) \/ AskTopic(s) \/ FreeName(s) \/ Unregister(s) \/ Stop(s)

LifecycleNext == (\E c \in Clients : Begin(c)) \/ Serve

LifecycleSpec == LifecycleInit /\ [][LifecycleNext]_vars

\* Scheduling: the runtime keeps running whatever can run; nobody has to start
\* a call.
FairLifecycle ==
  /\ LifecycleSpec
  /\ \A c \in Clients : WF_vars(InsertSubscription(c) \/ Send(c))
  /\ \A t \in TopicId :
       /\ WF_vars(TopicReceive(t) \/ Join(t))
       /\ \A s \in SubId : WF_vars(Post(t, s))
  /\ \A s \in SubId :
       WF_vars(SubReceive(s) \/ AskTopic(s) \/ FreeName(s) \/ Unregister(s))

-----------------------------------------------------------------------------
\* A live instance keeps its name: as long as a topic or a subscription is not
\* being deleted the manager's map leads to it, whatever becomes of other
\* instances of that name (the delegates remove by name; the deleted flags
\* make sure that each does so once).
LiveAreListed ==
  /\ \A t \in 2..topic_next_id : topic[t].deleted \/ topics[topic[t].name] = t
  /\ \A s \in 2..sub_next_id :
       sub[s].deleted \/ subscriptions[sub[s].name] = s

\* A subscription that has been deleted is on no topic's list ("If the topic is
\* still around, remove ourselves from it's list of subscriptions",
\* SubscriptionActor::delete).
NoneAttachedDeleted ==
  \A s \in 2..sub_next_id : sub[s].signalled =>
    \A t \in TopicId, n \in SubNames : Held(t) => topic[t].attached[n] # s

\* Deleting a subscription never makes a publish fail: no post finds its
\* subscription stopped, since a subscription does not stop before its topic
\* has let go of it, and the topic does not while it posts.
PublishNeverFails ==
  \A t \in TopicId : \A k \in DOMAIN topic[t].tasks :
    topic[t].tasks[k] # "failed"

\* A publish that returns its ids has reached every subscription of the topic
\* that has been attached, unless it or the topic is being deleted: the message
\* is in its hands or in its mailbox (the join of publish_messages), and an
\* attached subscription stays attached, whatever becomes of the others.
Posts(s) == {i \in DOMAIN sub[s].mailbox : sub[s].mailbox[i].op = "post"}
Reached(s, id) ==
  \/ \E i \in DOMAIN sub[s].received : sub[s].received[i] = id
  \/ \E i \in Posts(s) : sub[s].mailbox[i].id = id
PublishedEverywhere ==
  [][\A t \in TopicId :
       /\ topic[t].publishing # None /\ topic'[t].publishing = None
       /\ call'[topic[t].publishing].result = "ok"
       => \A s \in 2..sub_next_id :
            sub[s].topic = t /\ sub[s].attached
              /\ ~sub[s].deleted /\ ~topic[t].deleted =>
                Reached(s, MessageId(t, topic[t].next_message_id))]_vars

\* Messages reach a subscription in the order in which its topic took them,
\* each once (the topic awaits its posts before it takes the next request).
PostedInOrder ==
  \A s \in SubId :
    LET received == sub[s].received
        mailbox == sub[s].mailbox
    IN  /\ \A i, j \in DOMAIN received : i < j => received[i] < received[j]
        /\ \A i, j \in Posts(s) : i < j => mailbox[i].id < mailbox[j].id
        /\ \A i \in DOMAIN received, j \in Posts(s) :
             received[i] < mailbox[j].id

\* The push registry follows the subscriptions: as long as none of a name has
\* been deleted, the name is registered exactly when its subscription has a push
\* configuration (SubscriptionActor::start, modify_push_config).
RegistryFollows ==
  \A n \in SubNames :
    (\A s \in 2..sub_next_id : sub[s].name = n => ~sub[s].deleted) =>
      LET s == subscriptions[n]
      IN  registry[n] # None <=> s # None /\ sub[s].push_config # None

\* Every call returns: the actors never wait for each other in a circle, as
\* long as the mailboxes have room for the requests on their way.
CallsReturn ==
  \A c \in Clients : call[c].stage # "idle" ~> call[c].stage = "idle"

=============================================================================

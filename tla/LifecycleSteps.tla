--------------------------- MODULE LifecycleSteps ---------------------------
(***************************************************************************)
(* The steps that attach, remove and delete, those of a subscription's     *)
(* actor and those of the tasks of a publish keep AlwaysInv.               *)
(***************************************************************************)
EXTENDS LifecycleInvariant

USE ZenonT(30)

\* Subscriptions that change at most one field.
SubsKeepButAttached ==
  \A x \in SubId :
    /\ sub'[x].name = sub[x].name
    /\ sub'[x].topic = sub[x].topic
    /\ sub'[x].deleted = sub[x].deleted
    /\ sub'[x].signalled = sub[x].signalled
    /\ sub'[x].running = sub[x].running
    /\ sub'[x].received = sub[x].received
    /\ sub'[x].step = sub[x].step
    /\ sub'[x].caller = sub[x].caller
    /\ sub'[x].mailbox = sub[x].mailbox
\* A step that changes calls and the deletion step of subscriptions.
SubsKeepButStep ==
  \A x \in SubId :
    /\ sub'[x].name = sub[x].name
    /\ sub'[x].topic = sub[x].topic
    /\ sub'[x].deleted = sub[x].deleted
    /\ sub'[x].signalled = sub[x].signalled
    /\ sub'[x].running = sub[x].running
    /\ sub'[x].received = sub[x].received
    /\ sub'[x].caller = sub[x].caller
    /\ sub'[x].attached = sub[x].attached
    /\ sub'[x].mailbox = sub[x].mailbox

\* Attaching a subscription keeps the invariant.
LEMMA AttachSubscriptionKeeps ==
  ASSUME AlwaysInv, NEW t \in TopicId
  PROVE  /\ topic[t].publishing = None /\ topic[t].mailbox # << >>
         /\ Head(topic[t].mailbox).op = "create_subscription"
         /\ AttachSubscription(t)
         /\ UNCHANGED <<topic_next_id, subscriptions, sub_next_id, registry>>
         => AlwaysInv'
<1>1. SUFFICES
        ASSUME topic[t].publishing = None, topic[t].mailbox # << >>,
               Head(topic[t].mailbox).op = "create_subscription",
               AttachSubscription(t),
               UNCHANGED <<topic_next_id, subscriptions, sub_next_id, registry>>
        PROVE  AlwaysInv'
  OBVIOUS
<1>2. PICK h : h = Head(topic[t].mailbox)
  OBVIOUS
<1>3. /\ OfCall(h, t) /\ h.from \in Clients /\ h = topic[t].mailbox[1]
      /\ t \in Topics /\ h.op = "create_subscription"
  BY <1>1, <1>2, TopicTakes, SMTT(30) DEF OfCall
<1>4. PICK c \in Clients, s \in SubId, n \in SubNames :
        /\ c = h.from /\ s = h.sub /\ n = sub[s].name /\ s \in Subs
        /\ call[c].stage = "awaiting" /\ call[c].op = "create_subscription"
        /\ call[c].topic = t /\ call[c].sub = s /\ sub[s].topic = t
  <2>1. /\ Tracked(h.from) /\ call[h.from].op = "create_subscription"
        /\ call[h.from].stage = "awaiting" /\ call[h.from].topic = t
        /\ call[h.from].sub = h.sub
    BY <1>3 DEF OfCall, AlwaysInv, CallsTracked
  <2>2. /\ h.sub \in Subs /\ sub[h.sub].name \in SubNames /\ sub[h.sub].topic = t
    BY <2>1 DEF Tracked
  <2>. QED BY <1>3, <2>1, <2>2 DEF AlwaysInv, Numbered
<1>. DEFINE D == Dequeue(topic[t])
            new == [D EXCEPT !.attached[n] = IF @ = None THEN s ELSE @]
<1>5. /\ topic' = [topic EXCEPT ![t] = new]
      /\ sub' = [sub EXCEPT ![s].attached = TRUE]
      /\ call' = [call EXCEPT ![c].op = "get_subscription",
                              ![c].stage = "calling"]
  <2>1. topic' = [topic EXCEPT ![t] = new]
    BY <1>1, <1>2, <1>4 DEF AttachSubscription
  <2>2. sub' = [sub EXCEPT ![s].attached = TRUE]
    BY <1>1, <1>2, <1>4 DEF AttachSubscription
  <2>3. call' = [call EXCEPT ![c].op = "get_subscription",
                             ![c].stage = "calling"]
    BY <1>1, <1>2, <1>4 DEF AttachSubscription
  <2>. QED BY <2>1, <2>2, <2>3
<1>0. UNCHANGED topics /\ Topics' = Topics /\ Subs' = Subs
  BY <1>1 DEF AttachSubscription, Topics, Subs
<1>6. /\ D \in TopicActors /\ topic[t] \in TopicActors
      /\ D.name = topic[t].name /\ D.attached = topic[t].attached
      /\ D.deleted = topic[t].deleted /\ D.publishing = topic[t].publishing
      /\ D.next_message_id = topic[t].next_message_id
      /\ D.tasks = topic[t].tasks
      /\ Shrunk(topic[t].mailbox, D.mailbox)
  BY <1>1, TopicTakes DEF AlwaysInv, LifecycleTypes
<1>. HIDE DEF D
<1>7. /\ new.name = topic[t].name /\ new.deleted = topic[t].deleted
      /\ new.next_message_id = topic[t].next_message_id
      /\ new.publishing = topic[t].publishing /\ new.tasks = topic[t].tasks
      /\ new.mailbox = D.mailbox
      /\ new.attached = [topic[t].attached EXCEPT ![n] = IF @ = None THEN s ELSE @]
  BY <1>6 DEF TopicActors
<1>8. new \in TopicActors
  BY <1>6 DEF TopicActors
<1>9. \A m \in SubNames : \/ new.attached[m] = topic[t].attached[m]
                          \/ m = n /\ new.attached[m] = s
  BY <1>6, <1>7 DEF TopicActors
<1>. HIDE DEF new
<1>10. /\ topic' \in [TopicId -> TopicActors]
       /\ \A x \in TopicId \ {t} : topic'[x] = topic[x]
       /\ topic'[t] = new
       /\ \A x \in TopicId : /\ topic'[x].name = topic[x].name
                             /\ topic'[x].deleted = topic[x].deleted
                             /\ topic'[x].publishing = topic[x].publishing
                             /\ topic'[x].tasks = topic[x].tasks
                             /\ topic'[x].next_message_id = topic[x].next_message_id
  BY <1>5, <1>7, <1>8 DEF AlwaysInv, LifecycleTypes
<1>11. /\ sub' \in [SubId -> SubActors]
       /\ \A x \in SubId \ {s} : sub'[x] = sub[x]
       /\ sub'[s].attached
       /\ \A x \in SubId : /\ sub'[x].mailbox = sub[x].mailbox
                           /\ sub[x].attached => sub'[x].attached
       /\ SubsKeepButAttached
  <2>. DEFINE b == [sub[s] EXCEPT !.attached = TRUE]
  <2>1. sub[s] \in SubActors /\ sub \in [SubId -> SubActors]
    BY DEF AlwaysInv, LifecycleTypes
  <2>2. sub' = [sub EXCEPT ![s] = b]
    BY <1>5, <2>1
  <2>3. /\ b.name = sub[s].name /\ b.topic = sub[s].topic
        /\ b.deleted = sub[s].deleted /\ b.signalled = sub[s].signalled
        /\ b.running = sub[s].running /\ b.received = sub[s].received
        /\ b.step = sub[s].step /\ b.caller = sub[s].caller
        /\ b.mailbox = sub[s].mailbox /\ b.attached
    BY <2>1 DEF SubActors
  <2>4. b \in SubActors
    BY <2>1 DEF SubActors
  <2>. HIDE DEF b
  <2>. QED BY <2>1, <2>2, <2>3, <2>4 DEF SubsKeepButAttached
<1>12. /\ call' \in [Clients -> Calls]
       /\ \A d \in Clients \ {c} : call'[d] = call[d]
       /\ call'[c].stage = "calling" /\ call'[c].op = "get_subscription"
       /\ call'[c].topic = call[c].topic /\ call'[c].sub = s
  BY <1>4, <1>5, SMTT(30) DEF AlwaysInv, LifecycleTypes, Calls, SubOps
<1>13. /\ \A x \in SubId : \A y : Reached(x, y)' <=> Reached(x, y)
       /\ PostedInOrder'
  BY <1>11, SMTT(30)
     DEF Reached, Posts, SubsKeepButAttached, AlwaysInv, PostedInOrder
<1>14. LifecycleTypes'
  BY <1>1, <1>0, <1>10, <1>11, <1>12 DEF AlwaysInv, LifecycleTypes
<1>15. Numbered'
  <2>1. \A x \in TopicId \ Topics : topic'[x] = topic[x]
    BY <1>3, <1>4, <1>10
  <2>2. \A x \in SubId \ Subs : sub'[x] = sub[x]
    BY <1>3, <1>4, <1>11
  <2>3. \A x \in SubId : sub'[x].name = sub[x].name /\ sub'[x].topic = sub[x].topic
    BY <1>11 DEF SubsKeepButAttached
  <2>4. Numbered /\ UNCHANGED <<topics, subscriptions>>
    BY <1>1, <1>0 DEF AlwaysInv
  <2>. QED BY <1>0, <1>10, <2>1, <2>2, <2>3, <2>4, NumberedKept
<1>16. Listed'
  BY <1>1, <1>0, <1>10, <1>11, SMTT(30)
     DEF AlwaysInv, Numbered, Listed, SubsKeepButAttached
<1>17. CallsTracked'
  <2>1. Tracked(c)'
    <3>1. s # None /\ s \in Subs' /\ t \in Topics'
      BY <1>3, <1>4, <1>0, Apart
    <3>. QED BY <1>4, <1>12, <3>1 DEF Tracked, ToTopic, SubOps
  <2>2. \A x \in Subs : sub'[x].name = sub[x].name /\ sub'[x].topic = sub[x].topic
    BY <1>11 DEF SubsKeepButAttached, AlwaysInv, Numbered
  <2>. QED BY <1>0, <1>12, <2>1, <2>2, TrackedKept
<1>19. TopicRequests'
  <2>1. \A x \in Subs : sub'[x].topic = sub[x].topic /\ sub'[x].step = sub[x].step
    BY <1>11 DEF SubsKeepButAttached, AlwaysInv, Numbered
  <2>2. \A d \in Clients \ {h.from} : call'[d] = call[d]
    BY <1>4, <1>12
  <2>. QED BY <1>1, <1>3, <1>0, <1>6, <1>7, <1>10, <2>1, <2>2, TopicTaken,
              SMTT(30)
<1>20. SubRequests'
  BY <1>3, <1>4, <1>11, <1>12, TopicAnswered DEF SubsKeepButAttached
<1>21. Deletions'
  BY <1>0, <1>11, DeletionsKept DEF AlwaysInv, SubsKeepButAttached
<1>22. OnList'
  <2>. SUFFICES ASSUME NEW x \in TopicId, NEW m \in SubNames,
                       topic'[x].attached[m] # None
                PROVE  LET y == topic'[x].attached[m]
                       IN  /\ y \in Subs /\ sub'[y].name = m
                           /\ sub'[y].topic = x /\ sub'[y].attached
    BY <1>0, SMTT(30) DEF OnList
  <2>1. CASE topic'[x].attached[m] = topic[x].attached[m]
    BY <1>11, <2>1, SMTT(30)
       DEF AlwaysInv, OnList, Numbered, SubsKeepButAttached
  <2>2. CASE x = t /\ m = n /\ topic'[x].attached[m] = s
    BY <1>4, <1>11, <2>2, SMTT(30) DEF SubsKeepButAttached
  <2>. QED BY <1>9, <1>10, <2>1, <2>2
<1>23. Publishing'
  BY <1>1, <1>10, <1>11, <1>13, PublishingKept
     DEF AlwaysInv, SubsKeepButAttached
<1>24. Older'
  BY <1>0, <1>10, <1>11, <1>13, OlderKept
     DEF AlwaysInv, Numbered, SubsKeepButAttached
<1>. QED BY <1>13, <1>14, <1>15, <1>16, <1>17, <1>19, <1>20, <1>21, <1>22,
            <1>23, <1>24 DEF AlwaysInv

\* Removing a subscription keeps the invariant.
LEMMA RemoveSubscriptionKeeps ==
  ASSUME AlwaysInv, NEW t \in TopicId
  PROVE  /\ topic[t].publishing = None /\ topic[t].mailbox # << >>
         /\ Head(topic[t].mailbox).op = "remove" /\ RemoveSubscription(t)
         /\ UNCHANGED <<topic_next_id, subscriptions, sub_next_id, registry>>
         => AlwaysInv'
<1>1. SUFFICES
        ASSUME topic[t].publishing = None, topic[t].mailbox # << >>,
               Head(topic[t].mailbox).op = "remove", RemoveSubscription(t),
               UNCHANGED <<topic_next_id, subscriptions, sub_next_id, registry>>
        PROVE  AlwaysInv'
  OBVIOUS
<1>2. PICK h : h = Head(topic[t].mailbox)
  OBVIOUS
<1>3. /\ OfSub(h, t) /\ h = topic[t].mailbox[1] /\ t \in Topics
  BY <1>1, <1>2, TopicTakes
<1>4. PICK s \in SubId, n \in SubNames :
        /\ s = h.from /\ n = sub[s].name /\ s \in Subs
        /\ sub[s].step = "asked" /\ sub[s].topic = t
  BY <1>3 DEF OfSub, AlwaysInv, Numbered
<1>. DEFINE D == Dequeue(topic[t])
            new == [D EXCEPT !.attached[n] = None]
<1>5. /\ topic' = [topic EXCEPT ![t] = new]
      /\ sub' = [sub EXCEPT ![s].step = "freeing"]
      /\ UNCHANGED <<topics, call>> /\ Topics' = Topics /\ Subs' = Subs
  BY <1>1, <1>2, <1>4 DEF RemoveSubscription, Topics, Subs
<1>6. /\ D \in TopicActors /\ topic[t] \in TopicActors
      /\ D.name = topic[t].name /\ D.attached = topic[t].attached
      /\ D.deleted = topic[t].deleted /\ D.publishing = topic[t].publishing
      /\ D.next_message_id = topic[t].next_message_id
      /\ D.tasks = topic[t].tasks
      /\ Shrunk(topic[t].mailbox, D.mailbox)
  BY <1>1, TopicTakes DEF AlwaysInv, LifecycleTypes
<1>. HIDE DEF D
<1>7. /\ new.name = topic[t].name /\ new.deleted = topic[t].deleted
      /\ new.next_message_id = topic[t].next_message_id
      /\ new.publishing = topic[t].publishing /\ new.tasks = topic[t].tasks
      /\ new.mailbox = D.mailbox
      /\ new.attached = [topic[t].attached EXCEPT ![n] = None]
  BY <1>6 DEF TopicActors
<1>8. new \in TopicActors
  BY <1>6 DEF TopicActors
<1>9. \A m \in SubNames : \/ new.attached[m] = topic[t].attached[m] /\ m # n
                          \/ m = n /\ new.attached[m] = None
  BY <1>6, <1>7 DEF TopicActors
<1>. HIDE DEF new
<1>10. /\ topic' \in [TopicId -> TopicActors]
       /\ \A x \in TopicId \ {t} : topic'[x] = topic[x]
       /\ topic'[t] = new
       /\ \A x \in TopicId : /\ topic'[x].name = topic[x].name
                             /\ topic'[x].deleted = topic[x].deleted
                             /\ topic'[x].publishing = topic[x].publishing
                             /\ topic'[x].tasks = topic[x].tasks
                             /\ topic'[x].next_message_id = topic[x].next_message_id
  BY <1>5, <1>7, <1>8 DEF AlwaysInv, LifecycleTypes
<1>11. /\ sub' \in [SubId -> SubActors]
       /\ \A x \in SubId \ {s} : sub'[x] = sub[x]
       /\ sub'[s].step = "freeing"
       /\ SubsKeepButStep
  <2>. DEFINE b == [sub[s] EXCEPT !.step = "freeing"]
  <2>1. sub[s] \in SubActors /\ sub \in [SubId -> SubActors]
    BY DEF AlwaysInv, LifecycleTypes
  <2>2. sub' = [sub EXCEPT ![s] = b]
    BY <1>5, <2>1
  <2>3. /\ b.name = sub[s].name /\ b.topic = sub[s].topic
        /\ b.deleted = sub[s].deleted /\ b.signalled = sub[s].signalled
        /\ b.running = sub[s].running /\ b.received = sub[s].received
        /\ b.step = "freeing" /\ b.caller = sub[s].caller
        /\ b.mailbox = sub[s].mailbox /\ b.attached = sub[s].attached
    BY <2>1 DEF SubActors
  <2>4. b \in SubActors
    BY <2>1 DEF SubActors, Leaving
  <2>. HIDE DEF b
  <2>. QED BY <2>1, <2>2, <2>3, <2>4 DEF SubsKeepButStep
<1>12. /\ \A x \in SubId : \A y : Reached(x, y)' <=> Reached(x, y)
       /\ PostedInOrder'
  BY <1>11, SMTT(30)
     DEF Reached, Posts, SubsKeepButStep, AlwaysInv, PostedInOrder
<1>13. LifecycleTypes'
  BY <1>1, <1>5, <1>10, <1>11 DEF AlwaysInv, LifecycleTypes
<1>14. Numbered'
  <2>1. \A x \in TopicId \ Topics : topic'[x] = topic[x]
    BY <1>3, <1>4, <1>10
  <2>2. \A x \in SubId \ Subs : sub'[x] = sub[x]
    BY <1>3, <1>4, <1>11
  <2>3. \A x \in SubId : sub'[x].name = sub[x].name /\ sub'[x].topic = sub[x].topic
    BY <1>11 DEF SubsKeepButStep
  <2>4. Numbered /\ UNCHANGED <<topics, subscriptions>>
    BY <1>1, <1>5 DEF AlwaysInv
  <2>. QED BY <1>5, <1>10, <2>1, <2>2, <2>3, <2>4, NumberedKept
<1>15. Listed'
  BY <1>1, <1>4, <1>5, <1>10, <1>11, SMTT(30)
     DEF AlwaysInv, Numbered, Listed, SubsKeepButStep, Leaving
<1>16. CallsTracked'
  BY <1>5, <1>11, TrackedKept DEF SubsKeepButStep, AlwaysInv, Numbered
<1>18. TopicRequests'
  <2>1. \A x \in Subs : /\ sub'[x].topic = sub[x].topic
                        /\ x # h.from => sub'[x].step = sub[x].step
    BY <1>4, <1>11 DEF SubsKeepButStep, AlwaysInv, Numbered
  <2>. QED BY <1>1, <1>3, <1>5, <1>6, <1>7, <1>10, <2>1, TopicTaken, SMTT(30)
<1>19. SubRequests'
  BY <1>5, <1>11, SubRequestsKept DEF SubsKeepButStep, AlwaysInv
<1>20. Deletions'
  BY <1>4, <1>5, <1>11, SMTT(30)
     DEF AlwaysInv, Deletions, SubsKeepButStep, Leaving
<1>21. OnList'
  <2>. SUFFICES ASSUME NEW x \in TopicId, NEW m \in SubNames,
                       topic'[x].attached[m] # None
                PROVE  LET y == topic'[x].attached[m]
                       IN  /\ y \in Subs /\ sub'[y].name = m
                           /\ sub'[y].topic = x /\ sub'[y].attached
    BY <1>5, SMTT(30) DEF OnList
  <2>1. topic'[x].attached[m] = topic[x].attached[m]
    BY <1>9, <1>10
  <2>. QED BY <1>11, <2>1, SMTT(30)
              DEF AlwaysInv, OnList, Numbered, SubsKeepButStep
<1>22. Publishing'
  BY <1>1, <1>10, <1>11, <1>12, PublishingKept DEF AlwaysInv, SubsKeepButStep
<1>23. Older'
  BY <1>5, <1>10, <1>11, <1>12, OlderKept
     DEF AlwaysInv, Numbered, SubsKeepButStep
<1>. QED BY <1>12, <1>13, <1>14, <1>15, <1>16, <1>18, <1>19, <1>20, <1>21,
            <1>22, <1>23 DEF AlwaysInv

\* Deleting a topic keeps the invariant.
LEMMA DeleteTopicKeeps ==
  ASSUME AlwaysInv, NEW t \in TopicId
  PROVE  /\ topic[t].publishing = None /\ topic[t].mailbox # << >>
         /\ Head(topic[t].mailbox).op = "delete_topic" /\ DeleteTopic(t)
         /\ UNCHANGED <<topic_next_id, subscriptions, sub_next_id, registry>>
         => AlwaysInv'
<1>1. SUFFICES
        ASSUME topic[t].publishing = None, topic[t].mailbox # << >>,
               Head(topic[t].mailbox).op = "delete_topic", DeleteTopic(t),
               UNCHANGED <<topic_next_id, subscriptions, sub_next_id, registry>>
        PROVE  AlwaysInv'
  OBVIOUS
<1>2. CASE topic[t].deleted
  <2>1. GetTopicInfo(t)
    BY <1>1, <1>2 DEF DeleteTopic, GetTopicInfo, AlreadyDeleted
  <2>. QED BY <1>1, <2>1, GetTopicInfoKeeps
<1>3. CASE ~topic[t].deleted
  <2>2. PICK h : h = Head(topic[t].mailbox)
    OBVIOUS
  <2>3. /\ OfCall(h, t) /\ h.from \in Clients /\ h = topic[t].mailbox[1]
        /\ t \in Topics
    BY <1>1, <2>2, TopicTakes DEF OfCall
  <2>. DEFINE D == Dequeue(topic[t])
              new == [D EXCEPT !.deleted = TRUE,
                               !.attached = [n \in SubNames |-> None]]
  <2>4. /\ topic' = [topic EXCEPT ![t] = new]
        /\ topics' = [topics EXCEPT ![topic[t].name] = None]
        /\ Return(h.from, "ok")
        /\ UNCHANGED sub /\ Topics' = Topics /\ Subs' = Subs
    BY <1>1, <1>3, <2>2 DEF DeleteTopic, AlreadyDeleted, Topics, Subs
  <2>5. /\ D \in TopicActors /\ topic[t] \in TopicActors
        /\ D.name = topic[t].name /\ D.publishing = topic[t].publishing
        /\ D.next_message_id = topic[t].next_message_id
        /\ D.tasks = topic[t].tasks
        /\ Shrunk(topic[t].mailbox, D.mailbox)
    BY <1>1, TopicTakes DEF AlwaysInv, LifecycleTypes
  <2>. HIDE DEF D
  <2>6. /\ new.name = topic[t].name /\ new.deleted
        /\ new.next_message_id = topic[t].next_message_id
        /\ new.publishing = topic[t].publishing /\ new.tasks = topic[t].tasks
        /\ new.mailbox = D.mailbox
        /\ \A n \in SubNames : new.attached[n] = None
    BY <2>5 DEF TopicActors
  <2>7. new \in TopicActors
    BY <2>5 DEF TopicActors
  <2>. HIDE DEF new
  <2>8. /\ topic' \in [TopicId -> TopicActors]
        /\ \A x \in TopicId \ {t} : topic'[x] = topic[x]
        /\ topic'[t] = new
        /\ \A x \in TopicId : /\ topic'[x].name = topic[x].name
                              /\ topic'[x].publishing = topic[x].publishing
                              /\ topic'[x].tasks = topic[x].tasks
                              /\ topic'[x].next_message_id = topic[x].next_message_id
    BY <2>4, <2>6, <2>7 DEF AlwaysInv, LifecycleTypes
  <2>9. /\ call' \in [Clients -> Calls]
        /\ \A d \in Clients \ {h.from} : call'[d] = call[d]
        /\ Tracked(h.from)' /\ call'[h.from].stage = "idle"
    BY <2>3, <2>4, ReturnedTracked DEF Results
  <2>10. /\ topic[t].name \in TopicNames
         /\ topics'[topic[t].name] = None
         /\ \A n \in TopicNames : n # topic[t].name => topics'[n] = topics[n]
    BY <2>3, <2>4 DEF AlwaysInv, LifecycleTypes, Numbered
  <2>11. LifecycleTypes'
    BY <1>1, <2>4, <2>8, <2>9 DEF AlwaysInv, LifecycleTypes
  <2>12. Numbered'
    BY <1>1, <2>3, <2>4, <2>8, <2>10, Blank, SMTT(30) DEF AlwaysInv, Numbered
  <2>13. Listed'
    <3>1. \A x \in Topics : x # t /\ ~topic[x].deleted => topic[x].name # topic[t].name
      BY <1>3, <2>3 DEF AlwaysInv, Listed
    <3>. QED BY <1>1, <2>4, <2>6, <2>8, <2>10, <3>1, SMTT(30)
                DEF AlwaysInv, Numbered, Listed
  <2>14. CallsTracked'
    BY <2>4, <2>9, TrackedKept
  <2>16. TopicRequests'
    BY <1>1, <2>3, <2>4, <2>5, <2>6, <2>8, <2>9, TopicTaken, SMTT(30)
  <2>17. SubRequests'
    BY <2>3, <2>4, <2>9, TopicAnswered
  <2>18. Deletions' /\ OnList'
    <3>1. Deletions'
      BY <2>4, DeletionsKept DEF AlwaysInv
    <3>2. OnList'
      BY <2>4, <2>6, <2>8, OnListKept DEF AlwaysInv
    <3>. QED BY <3>1, <3>2
  <2>19. /\ \A x \in SubId : \A y : Reached(x, y)' <=> Reached(x, y)
         /\ PostedInOrder'
    BY <2>4 DEF Reached, Posts, AlwaysInv, PostedInOrder
  <2>20. Publishing'
    BY <1>1, <2>4, <2>8, <2>19, PublishingKept DEF AlwaysInv
  <2>21. Older'
    BY <2>4, <2>8, <2>19, OlderKept DEF AlwaysInv, Numbered
  <2>. QED BY <2>11, <2>12, <2>13, <2>14, <2>16, <2>17, <2>18, <2>19, <2>20,
              <2>21 DEF AlwaysInv
<1>. QED BY <1>2, <1>3

\* Whatever request a topic takes, it keeps the invariant.
LEMMA TopicReceiveKeeps ==
  ASSUME AlwaysInv, NEW t \in TopicId
  PROVE  TopicReceive(t) => AlwaysInv'
BY PublishMessagesKeeps, AttachSubscriptionKeeps, RemoveSubscriptionKeeps,
   DeleteTopicKeeps, GetTopicInfoKeeps DEF TopicReceive

\* It handles a request and goes on.
LEMMA SubServes ==
  ASSUME AlwaysInv, NEW s \in SubId, sub[s].mailbox # << >>, NEW h,
         h = Head(sub[s].mailbox), sub[s].running, sub[s].step = "idle",
         sub' \in [SubId -> SubActors], SubsKeep,
         \A x \in SubId \ {s} : sub'[x] = sub[x],
         Shrunk(sub[s].mailbox, sub'[s].mailbox),
         sub'[s].received = IF h.op = "post" /\ ~sub[s].deleted
                            THEN Append(sub[s].received, h.id)
                            ELSE sub[s].received,
         registry' \in [SubNames -> Configs \cup {None}],
         UNCHANGED <<topics, topic_next_id, subscriptions, sub_next_id, topic>>,
         \/ h.op = "post" /\ UNCHANGED call
         \/ h.op # "post" /\ Return(h.from, "ok")
  PROVE  AlwaysInv'
<1>1. /\ s \in Subs /\ h = sub[s].mailbox[1] /\ sub[s].caller = None
      /\ h.op # "post" => FromCall(h, s) /\ h.from \in Clients
      /\ h.op = "post" => h.from = None
  <2>1. /\ s \in Subs /\ h = sub[s].mailbox[1]
        /\ h.op # "post" => FromCall(h, s)
        /\ h.op = "post" => h.from = None
    BY SubTakes
  <2>2. sub[s].caller = None
    BY DEF AlwaysInv, Deletions
  <2>3. FromCall(h, s) => h.from \in Clients
    BY DEF FromCall
  <2>. QED BY <2>1, <2>2, <2>3
<1>2. /\ call' \in [Clients -> Calls]
      /\ \A d \in Clients : call'[d] = call[d] \/ (d = h.from /\ Tracked(d)')
      /\ \A d \in Clients : call'[d].stage = "creating" => call[d].stage = "creating"
      /\ \A d \in Clients \ {h.from} : call'[d] = call[d]
  <2>1. CASE h.op = "post" /\ UNCHANGED call
    BY <2>1 DEF AlwaysInv, LifecycleTypes
  <2>2. CASE h.op # "post" /\ Return(h.from, "ok")
    BY <1>1, <2>2, ReturnedTracked DEF Results
  <2>. QED BY <2>1, <2>2
<1>3. \A x \in SubId :
        /\ PostedOf(x)' 
        /\ \A y : /\ Reached(x, y)' => Reached(x, y)
                  /\ Reached(x, y) => sub[x].deleted \/ Reached(x, y)'
  <2>. SUFFICES ASSUME NEW x \in SubId
                PROVE  /\ PostedOf(x)' 
                       /\ \A y : /\ Reached(x, y)' => Reached(x, y)
                                 /\ Reached(x, y) => sub[x].deleted \/ Reached(x, y)'
    OBVIOUS
  <2>1. PostedOf(x)
    BY PostedOfAll DEF AlwaysInv
  <2>2. CASE x = s
    <3>1. sub[s].received \in Seq(Nat) /\ sub[s].mailbox \in Seq(Requests)
      BY DEF AlwaysInv, LifecycleTypes, SubActors
    <3>. QED BY <1>1, <2>1, <2>2, <3>1, PostedShrinks
  <2>3. CASE x # s
    BY <2>1, <2>3 DEF PostedOf, Posts, Reached
  <2>. QED BY <2>2, <2>3
<1>4. /\ Topics' = Topics /\ Subs' = Subs
      /\ Numbered' /\ Listed' /\ Deletions' /\ OnList' /\ Publishing' /\ Older'
  <2>1. /\ \A t \in TopicId \ Topics : topic'[t] = topic[t]
        /\ \A x \in SubId \ Subs : sub'[x] = sub[x]
        /\ \A x \in SubId : ~sub[x].running => sub'[x].mailbox = sub[x].mailbox
        /\ TopicsKeep
    BY <1>1 DEF TopicsKeep
  <2>. QED BY <1>3, <2>1, MailStep
<1>5. LifecycleTypes' /\ PostedInOrder'
  <2>1. (\A x \in SubId : PostedOf(x))' => PostedInOrder'
    BY DEF PostedInOrder, PostedOf
  <2>2. LifecycleTypes'
    BY <1>2 DEF AlwaysInv, LifecycleTypes
  <2>. QED BY <1>3, <2>1, <2>2
<1>7. \A x \in Subs :
        sub'[x].name = sub[x].name /\ sub'[x].topic = sub[x].topic
          /\ sub'[x].step = sub[x].step
  BY DEF SubsKeep, AlwaysInv, Numbered
<1>8. CallsTracked'
  BY <1>2, <1>4, <1>7, TrackedKept
<1>9. SubRequests'
  BY <1>1, <1>2, SubTaken, SMTT(30) DEF SubsKeep
<1>10. TopicRequests'
  <2>1. \A d \in Clients : call[d].op \in ToTopic => call'[d] = call[d]
    <3>1. h.op # "post" => call[h.from].op \in SubOps
      BY <1>1 DEF FromCall
    <3>2. \A d \in Clients : call[d].op \in ToTopic => d # h.from
      BY <1>1, <3>1, Apart DEF ToTopic, SubOps
    <3>. QED BY <1>2, <3>2
  <2>. QED BY <1>4, <1>7, <2>1, TopicRequestsKept DEF AlwaysInv
<1>. QED BY <1>4, <1>5, <1>8, <1>9, <1>10 DEF AlwaysInv

\* A subscription that takes a post keeps the invariant: the post was the
\* oldest on its way.
LEMMA PostMessagesKeeps ==
  ASSUME AlwaysInv, NEW s \in SubId
  PROVE  /\ sub[s].running /\ sub[s].step = "idle" /\ sub[s].mailbox # << >>
         /\ Head(sub[s].mailbox).op = "post" /\ PostMessages(s)
         /\ UNCHANGED <<topics, topic_next_id, subscriptions, sub_next_id, topic>>
         => AlwaysInv'
<1>1. SUFFICES
        ASSUME sub[s].running, sub[s].step = "idle", sub[s].mailbox # << >>,
               Head(sub[s].mailbox).op = "post", PostMessages(s),
               UNCHANGED <<topics, topic_next_id, subscriptions, sub_next_id, topic>>
        PROVE  AlwaysInv'
  OBVIOUS
<1>2. PICK h : h = Head(sub[s].mailbox)
  OBVIOUS
<1>. DEFINE D == Dequeue(sub[s])
            got == IF sub[s].deleted THEN sub[s].received
                   ELSE Append(sub[s].received, h.id)
            new == [D EXCEPT !.received = got]
<1>3. /\ D \in SubActors /\ Shrunk(sub[s].mailbox, D.mailbox)
      /\ D.received = sub[s].received /\ h = sub[s].mailbox[1]
      /\ D.name = sub[s].name /\ D.topic = sub[s].topic
      /\ D.deleted = sub[s].deleted /\ D.signalled = sub[s].signalled
      /\ D.running = sub[s].running /\ D.attached = sub[s].attached
      /\ D.step = sub[s].step /\ D.caller = sub[s].caller
  BY <1>1, <1>2, SubTakes
<1>4. got \in Seq(Nat)
  <2>1. sub[s].received \in Seq(Nat) /\ sub[s].mailbox \in Seq(Requests)
    BY DEF AlwaysInv, LifecycleTypes, SubActors
  <2>2. h \in Requests
    BY <1>1, <1>2, <2>1, SMTT(30)
  <2>3. h.id \in Nat
    BY <2>2 DEF Requests
  <2>. QED BY <2>1, <2>3, SMTT(30)
<1>5. sub' = [sub EXCEPT ![s] = new] /\ UNCHANGED <<registry, call>>
  BY <1>1, <1>2, <1>3 DEF PostMessages
<1>. HIDE DEF D, got
<1>6. /\ new.received = got /\ new.mailbox = D.mailbox
      /\ new.name = sub[s].name /\ new.topic = sub[s].topic
      /\ new.deleted = sub[s].deleted /\ new.signalled = sub[s].signalled
      /\ new.running = sub[s].running /\ new.attached = sub[s].attached
      /\ new.step = sub[s].step /\ new.caller = sub[s].caller
  BY <1>3 DEF SubActors
<1>7. new \in SubActors
  BY <1>3, <1>4 DEF SubActors
<1>. HIDE DEF new
<1>8. /\ sub' \in [SubId -> SubActors] /\ sub'[s] = new
      /\ \A x \in SubId \ {s} : sub'[x] = sub[x]
      /\ registry' \in [SubNames -> Configs \cup {None}]
  BY <1>5, <1>7 DEF AlwaysInv, LifecycleTypes
<1>9. SubsKeep
  BY <1>6, <1>8 DEF SubsKeep
<1>. QED BY <1>1, <1>2, <1>3, <1>5, <1>6, <1>8, <1>9, SubServes, SMTT(30)
            DEF got

\* A subscription's answer to a get keeps the invariant.
LEMMA GetInfoKeeps ==
  ASSUME AlwaysInv, NEW s \in SubId
  PROVE  /\ sub[s].running /\ sub[s].step = "idle" /\ sub[s].mailbox # << >>
         /\ Head(sub[s].mailbox).op # "post" /\ GetInfo(s)
         /\ UNCHANGED <<topics, topic_next_id, subscriptions, sub_next_id, topic>>
         => AlwaysInv'
<1>1. SUFFICES
        ASSUME sub[s].running, sub[s].step = "idle", sub[s].mailbox # << >>,
               Head(sub[s].mailbox).op # "post", GetInfo(s),
               UNCHANGED <<topics, topic_next_id, subscriptions, sub_next_id, topic>>
        PROVE  AlwaysInv'
  OBVIOUS
<1>2. PICK h : h = Head(sub[s].mailbox)
  OBVIOUS
<1>. DEFINE new == Dequeue(sub[s])
<1>3. /\ new \in SubActors /\ Shrunk(sub[s].mailbox, new.mailbox)
      /\ new.received = sub[s].received
      /\ new.name = sub[s].name /\ new.topic = sub[s].topic
      /\ new.deleted = sub[s].deleted /\ new.signalled = sub[s].signalled
      /\ new.running = sub[s].running /\ new.attached = sub[s].attached
      /\ new.step = sub[s].step /\ new.caller = sub[s].caller
  BY <1>1, <1>2, SubTakes
<1>4. /\ sub' = [sub EXCEPT ![s] = new] /\ UNCHANGED registry
      /\ Return(h.from, "ok")
  BY <1>1, <1>2 DEF GetInfo
<1>. HIDE DEF new
<1>5. /\ sub' \in [SubId -> SubActors] /\ sub'[s] = new
      /\ \A x \in SubId \ {s} : sub'[x] = sub[x]
      /\ registry' \in [SubNames -> Configs \cup {None}]
  BY <1>3, <1>4 DEF AlwaysInv, LifecycleTypes
<1>6. SubsKeep
  BY <1>3, <1>5 DEF SubsKeep
<1>. QED BY <1>1, <1>2, <1>3, <1>4, <1>5, <1>6, SubServes

\* modify_push_config keeps the invariant.
LEMMA ModifyPushConfigKeeps ==
  ASSUME AlwaysInv, NEW s \in SubId
  PROVE  /\ sub[s].running /\ sub[s].step = "idle" /\ sub[s].mailbox # << >>
         /\ Head(sub[s].mailbox).op # "post" /\ ModifyPushConfig(s)
         /\ UNCHANGED <<topics, topic_next_id, subscriptions, sub_next_id, topic>>
         => AlwaysInv'
<1>1. SUFFICES
        ASSUME sub[s].running, sub[s].step = "idle", sub[s].mailbox # << >>,
               Head(sub[s].mailbox).op # "post", ModifyPushConfig(s),
               UNCHANGED <<topics, topic_next_id, subscriptions, sub_next_id, topic>>
        PROVE  AlwaysInv'
  OBVIOUS
<1>2. PICK h : h = Head(sub[s].mailbox)
  OBVIOUS
<1>. DEFINE D == Dequeue(sub[s])
            new == [D EXCEPT !.push_config = h.push_config]
<1>3. /\ D \in SubActors /\ Shrunk(sub[s].mailbox, D.mailbox) /\ s \in Subs
      /\ D.received = sub[s].received
      /\ D.name = sub[s].name /\ D.topic = sub[s].topic
      /\ D.deleted = sub[s].deleted /\ D.signalled = sub[s].signalled
      /\ D.running = sub[s].running /\ D.attached = sub[s].attached
      /\ D.step = sub[s].step /\ D.caller = sub[s].caller
  BY <1>1, <1>2, SubTakes
<1>4. h.push_config \in Configs \cup {None} /\ sub[s].name \in SubNames
  <2>1. sub[s].mailbox \in Seq(Requests)
    BY DEF AlwaysInv, LifecycleTypes, SubActors
  <2>2. h \in Requests
    BY <1>1, <1>2, <2>1, SMTT(30)
  <2>3. sub[s].name \in SubNames
    BY <1>3 DEF AlwaysInv, Numbered
  <2>. QED BY <2>2, <2>3 DEF Requests
<1>5. /\ sub' = [sub EXCEPT ![s] = new] /\ Return(h.from, "ok")
      /\ registry' = RegistrySet(sub[s].name, h.push_config)
  BY <1>1, <1>2 DEF ModifyPushConfig
<1>. HIDE DEF D
<1>6. /\ new.received = sub[s].received /\ new.mailbox = D.mailbox
      /\ new.name = sub[s].name /\ new.topic = sub[s].topic
      /\ new.deleted = sub[s].deleted /\ new.signalled = sub[s].signalled
      /\ new.running = sub[s].running /\ new.attached = sub[s].attached
      /\ new.step = sub[s].step /\ new.caller = sub[s].caller
  BY <1>3 DEF SubActors
<1>7. new \in SubActors
  BY <1>3, <1>4 DEF SubActors
<1>. HIDE DEF new
<1>8. /\ sub' \in [SubId -> SubActors] /\ sub'[s] = new
      /\ \A x \in SubId \ {s} : sub'[x] = sub[x]
  BY <1>5, <1>7 DEF AlwaysInv, LifecycleTypes
<1>9. registry' \in [SubNames -> Configs \cup {None}]
  BY <1>4, <1>5, RegistrySetTyped DEF AlwaysInv, LifecycleTypes
<1>10. SubsKeep
  BY <1>6, <1>8 DEF SubsKeep
<1>. QED BY <1>1, <1>2, <1>3, <1>5, <1>6, <1>8, <1>9, <1>10, SubServes

\* The first deletion of a subscription, up to its first await.
LEMMA DeleteKeeps ==
  ASSUME AlwaysInv, NEW s \in SubId
  PROVE  /\ sub[s].running /\ sub[s].step = "idle" /\ sub[s].mailbox # << >>
         /\ Head(sub[s].mailbox).op = "delete_subscription" /\ Delete(s)
         /\ UNCHANGED <<topics, topic_next_id, subscriptions, sub_next_id, topic>>
         => AlwaysInv'
<1>1. SUFFICES
        ASSUME sub[s].running, sub[s].step = "idle", sub[s].mailbox # << >>,
               Head(sub[s].mailbox).op = "delete_subscription", Delete(s),
               UNCHANGED <<topics, topic_next_id, subscriptions, sub_next_id, topic>>
        PROVE  AlwaysInv'
  OBVIOUS
<1>2. CASE sub[s].deleted
  BY <1>1, <1>2, GetInfoKeeps DEF Delete, GetInfo
<1>3. CASE ~sub[s].deleted
  <2>1. PICK h : h = Head(sub[s].mailbox)
    OBVIOUS
  <2>2. /\ FromCall(h, s) /\ h.from \in Clients /\ h.from # None
        /\ h = sub[s].mailbox[1] /\ h.op = "delete_subscription" /\ s \in Subs
    <3>1. FromCall(h, s) /\ h = sub[s].mailbox[1] /\ s \in Subs
      BY <1>1, <2>1, SubTakes
    <3>. QED BY <1>1, <2>1, <3>1, Apart DEF FromCall
  <2>3. PICK step \in {"asking", "freeing"} : step = FirstStep(s)
    BY DEF FirstStep
  <2>. DEFINE D == Dequeue(sub[s])
              new == [D EXCEPT !.deleted = TRUE, !.caller = h.from, !.step = step]
  <2>4. sub' = [sub EXCEPT ![s] = new] /\ UNCHANGED <<call, registry>>
    BY <1>1, <1>3, <2>1, <2>3 DEF Delete
  <2>5. /\ D \in SubActors /\ Shrunk(sub[s].mailbox, D.mailbox)
        /\ D.received = sub[s].received
        /\ D.name = sub[s].name /\ D.topic = sub[s].topic
        /\ D.signalled = sub[s].signalled
        /\ D.running = sub[s].running /\ D.attached = sub[s].attached
    BY <1>1, <2>1, SubTakes
  <2>. HIDE DEF D
  <2>6. /\ new.received = sub[s].received /\ new.mailbox = D.mailbox
        /\ new.name = sub[s].name /\ new.topic = sub[s].topic
        /\ new.deleted = TRUE /\ new.signalled = sub[s].signalled
        /\ new.running = sub[s].running /\ new.attached = sub[s].attached
        /\ new.step = step /\ new.caller = h.from
    BY <2>5 DEF SubActors
  <2>7. new \in SubActors
    BY <2>2, <2>5 DEF SubActors, Leaving
  <2>. HIDE DEF new
  <2>8. /\ sub' \in [SubId -> SubActors] /\ sub'[s] = new
        /\ \A x \in SubId \ {s} : sub'[x] = sub[x]
    BY <2>4, <2>7 DEF AlwaysInv, LifecycleTypes
  <2>9. /\ UNCHANGED <<Topics, Subs, topics, topic_next_id, subscriptions,
                       sub_next_id, topic, call, registry>>
        /\ \A x \in SubId : sub'[x].name = sub[x].name
                              /\ sub'[x].topic = sub[x].topic
                              /\ sub'[x].attached = sub[x].attached
    BY <1>1, <2>4, <2>6, <2>8 DEF Topics, Subs
  <2>10. \A x \in SubId :
          /\ PostedOf(x)' 
          /\ \A y : /\ Reached(x, y)' => Reached(x, y)
                    /\ Reached(x, y) => sub'[x].deleted \/ Reached(x, y)'
    <3>. SUFFICES ASSUME NEW x \in SubId
                  PROVE  /\ PostedOf(x)' 
                         /\ \A y : /\ Reached(x, y)' => Reached(x, y)
                                   /\ Reached(x, y) => sub'[x].deleted \/ Reached(x, y)'
      OBVIOUS
    <3>1. PostedOf(x)
      BY PostedOfAll DEF AlwaysInv
    <3>2. CASE x = s
      <4>1. sub[s].received \in Seq(Nat) /\ sub[s].mailbox \in Seq(Requests)
        BY DEF AlwaysInv, LifecycleTypes, SubActors
      <4>2. /\ Shrunk(sub[s].mailbox, sub'[s].mailbox) /\ h.op # "post"
            /\ sub'[s].received = sub[s].received /\ sub'[s].deleted
        BY <2>2, <2>5, <2>6, <2>8
      <4>. QED BY <2>2, <3>1, <3>2, <4>1, <4>2, PostedShrinks
    <3>3. CASE x # s
      BY <2>8, <3>1, <3>3 DEF PostedOf, Posts, Reached
    <3>. QED BY <3>2, <3>3
  <2>11. LifecycleTypes' /\ PostedInOrder'
    <3>1. (\A x \in SubId : PostedOf(x))' => PostedInOrder'
      BY DEF PostedInOrder, PostedOf
    <3>2. LifecycleTypes'
      BY <2>8, <2>9 DEF AlwaysInv, LifecycleTypes
    <3>. QED BY <2>10, <3>1, <3>2
  <2>12. Numbered'
    <3>1. \A x \in SubId \ Subs : sub'[x] = sub[x]
      BY <2>2, <2>8
    <3>. QED BY <2>9, <3>1, NumberedKept DEF AlwaysInv
  <2>13. Listed'
    <3>1. subscriptions[sub[s].name] = s
      BY <1>3, <2>2 DEF AlwaysInv, Listed
    <3>. QED BY <2>2, <2>8, <2>9, <3>1, SMTT(30)
                DEF AlwaysInv, Numbered, Listed
  <2>15. CallsTracked'
    BY <2>9, TrackedKept DEF AlwaysInv, Numbered
  <2>16. TopicRequests'
    <3>1. \A x \in Subs : sub[x].step = "asked" => sub'[x].step = "asked"
      BY <1>1, <2>8 DEF AlwaysInv, Numbered
    <3>. QED BY <2>9, <3>1, TopicRequestsKept DEF AlwaysInv, Numbered
  <2>17. SubRequests'
    <3>1. sub[s].caller = None
      BY <1>1 DEF AlwaysInv, Deletions
    <3>. QED BY <2>2, <2>5, <2>6, <2>8, <2>9, <3>1, SubTaken
  <2>18. Deletions'
    <3>1. ~sub[s].signalled
      BY <1>3 DEF AlwaysInv, Deletions
    <3>2. /\ sub'[s].step \in Leaving /\ sub'[s].step # "idle" /\ sub'[s].deleted
          /\ sub'[s].running /\ sub'[s].caller # None /\ ~sub'[s].signalled
      BY <1>1, <2>2, <2>3, <2>6, <2>8, <3>1 DEF Leaving
    <3>. QED BY <2>8, <2>9, <3>2 DEF AlwaysInv, Deletions
  <2>19. OnList'
    BY <2>9, OnListKept DEF AlwaysInv
  <2>20. Publishing'
    <3>1. \A x \in SubId : sub[x].deleted => sub'[x].deleted
      BY <2>6, <2>8
    <3>. QED BY <2>9, <2>10, <3>1, PublishingKept DEF AlwaysInv
  <2>21. Older'
    BY <2>9, <2>10, OlderKept DEF AlwaysInv, Numbered
  <2>. QED BY <2>11, <2>12, <2>13, <2>15, <2>16, <2>17, <2>18, <2>19, <2>20,
              <2>21 DEF AlwaysInv
<1>. QED BY <1>2, <1>3

\* Whatever request a subscription takes, it keeps the invariant.
LEMMA SubReceiveKeeps ==
  ASSUME AlwaysInv, NEW s \in SubId
  PROVE  SubReceive(s) => AlwaysInv'
BY PostMessagesKeeps, GetInfoKeeps, ModifyPushConfigKeeps, DeleteKeeps
   DEF SubReceive

\* Asking the topic to let the subscription go keeps the invariant.
LEMMA AskTopicKeeps ==
  ASSUME AlwaysInv, NEW s \in SubId
  PROVE  AskTopic(s) => AlwaysInv'
<1>1. SUFFICES ASSUME AskTopic(s) PROVE AlwaysInv'
  OBVIOUS
<1>2. sub[s].step = "asking"
  BY <1>1 DEF AskTopic
<1>3. PICK t \in TopicId : t = sub[s].topic /\ t \in Topics /\ s \in Subs
  <2>1. NoSub.step = "idle"
    BY DEF NoSub
  <2>2. s \in Subs
    BY <1>2, <2>1 DEF AlwaysInv, Numbered
  <2>. QED BY <2>2 DEF AlwaysInv, Numbered
<1>4. PICK r : r = Request("remove", s)
  OBVIOUS
<1>5. r \in Requests /\ r.from = s /\ r.op = "remove"
  BY <1>4, Apart DEF Request, Requests
<1>. DEFINE new == Enqueue(topic[t], r)
            b == [sub[s] EXCEPT !.step = "asked"]
<1>6. /\ topic' = [topic EXCEPT ![t] = new]
      /\ sub' = [sub EXCEPT ![s] = b]
  BY <1>1, <1>3, <1>4 DEF AskTopic, AlwaysInv, LifecycleTypes
<1>7. UNCHANGED <<topics, topic_next_id, subscriptions, sub_next_id, registry,
                  call, Topics, Subs>>
  BY <1>1 DEF AskTopic, Topics, Subs
<1>8. /\ topic[t] \in TopicActors /\ sub[s] \in SubActors
      /\ topic \in [TopicId -> TopicActors] /\ sub \in [SubId -> SubActors]
  BY DEF AlwaysInv, LifecycleTypes
<1>9. /\ b \in SubActors /\ b.name = sub[s].name /\ b.topic = sub[s].topic
      /\ b.deleted = sub[s].deleted /\ b.signalled = sub[s].signalled
      /\ b.running = sub[s].running /\ b.received = sub[s].received
      /\ b.step = "asked" /\ b.caller = sub[s].caller
      /\ b.mailbox = sub[s].mailbox /\ b.attached = sub[s].attached
  BY <1>8 DEF SubActors, Leaving
<1>10. /\ new \in TopicActors /\ new.name = topic[t].name
       /\ new.attached = topic[t].attached /\ new.deleted = topic[t].deleted
       /\ new.next_message_id = topic[t].next_message_id
       /\ new.publishing = topic[t].publishing /\ new.tasks = topic[t].tasks
       /\ Grown(topic[t].mailbox, new.mailbox, r)
  BY <1>5, <1>8, TopicEnqueued
<1>. HIDE DEF b, new
<1>11. /\ sub' \in [SubId -> SubActors] /\ sub'[s] = b
       /\ \A x \in SubId \ {s} : sub'[x] = sub[x]
       /\ SubsKeepButStep
  BY <1>6, <1>8, <1>9 DEF SubsKeepButStep
<1>12. /\ topic' \in [TopicId -> TopicActors] /\ topic'[t] = new
       /\ \A x \in TopicId \ {t} : topic'[x] = topic[x]
       /\ TopicsKeep
  BY <1>6, <1>8, <1>10 DEF TopicsKeep
<1>13. /\ \A x \in SubId : \A y : Reached(x, y)' <=> Reached(x, y)
       /\ PostedInOrder'
  BY <1>11, SMTT(30)
     DEF Reached, Posts, SubsKeepButStep, AlwaysInv, PostedInOrder
<1>14. LifecycleTypes'
  BY <1>7, <1>11, <1>12 DEF AlwaysInv, LifecycleTypes
<1>15. Numbered'
  BY <1>3, <1>7, <1>11, <1>12, NumberedKept
     DEF AlwaysInv, SubsKeepButStep, TopicsKeep
<1>16. Listed'
  <2>1. subscriptions[sub[s].name] = s
    BY <1>2, <1>3 DEF AlwaysInv, Listed, Leaving
  <2>. QED BY <1>3, <1>7, <1>11, <1>12, <2>1, SMTT(30)
              DEF AlwaysInv, Numbered, Listed, SubsKeepButStep, TopicsKeep
<1>17. CallsTracked'
  BY <1>7, <1>11, TrackedKept DEF SubsKeepButStep, AlwaysInv, Numbered
<1>19. SubRequests'
  BY <1>7, <1>11, SubRequestsKept DEF SubsKeepButStep, AlwaysInv
<1>20. Deletions'
  <2>1. sub'[s].step = "asked"
    BY <1>9, <1>11
  <2>. QED BY <1>2, <1>7, <1>11, <2>1, SMTT(30)
              DEF AlwaysInv, Deletions, SubsKeepButStep, Leaving
<1>21. OnList'
  BY <1>7, <1>11, <1>12, OnListKept DEF AlwaysInv, SubsKeepButStep, TopicsKeep
<1>22. Publishing'
  BY <1>11, <1>12, <1>13, PublishingKept
     DEF AlwaysInv, SubsKeepButStep, TopicsKeep
<1>23. Older'
  BY <1>7, <1>11, <1>12, <1>13, OlderKept
     DEF AlwaysInv, Numbered, SubsKeepButStep, TopicsKeep
<1>24. TopicRequests'
  <2>. SUFFICES ASSUME NEW x \in TopicId PROVE TopicRequestsOf(x)'
    BY DEF TopicRequests
  <2>1. TopicRequestsOf(x)
    BY DEF AlwaysInv, TopicRequests
  <2>2. \A q : OfCall(q, x) => OfCall(q, x)' /\ q.from # r.from
    BY <1>5, <1>7, Apart DEF OfCall
  <2>3. \A q : OfSub(q, x) => OfSub(q, x)' /\ q.from # r.from
    <3>1. \A y \in Subs : y \in SubId
      BY DEF AlwaysInv, Numbered
    <3>. QED BY <1>2, <1>5, <1>7, <1>11, <3>1 DEF OfSub, SubsKeepButStep
  <2>4. CASE x = t
    <3>1. OfSub(r, t)'
      BY <1>3, <1>5, <1>7, <1>9, <1>11 DEF OfSub
    <3>2. topic[t].publishing # r.from
      BY <1>5, <1>8, Apart DEF TopicActors
    <3>. QED BY <1>7, <1>10, <1>12, <2>1, <2>2, <2>3, <2>4, <3>1, <3>2,
                TopicMail
  <2>5. CASE x # t
    BY <1>7, <1>12, <2>1, <2>2, <2>3, <2>5 DEF TopicRequestsOf
  <2>. QED BY <2>4, <2>5
<1>. QED BY <1>13, <1>14, <1>15, <1>16, <1>17, <1>19, <1>20, <1>21, <1>22,
            <1>23, <1>24 DEF AlwaysInv

\* Subscriptions that keep all but the marks of their deletion.
SubsKeepButMarks ==
  \A x \in SubId :
    /\ sub'[x].name = sub[x].name
    /\ sub'[x].topic = sub[x].topic
    /\ sub'[x].deleted = sub[x].deleted
    /\ sub'[x].running = sub[x].running
    /\ sub'[x].received = sub[x].received
    /\ sub'[x].attached = sub[x].attached
    /\ sub'[x].mailbox = sub[x].mailbox

\* Freeing the name of a deleted subscription keeps the invariant.
LEMMA FreeNameKeeps ==
  ASSUME AlwaysInv, NEW s \in SubId
  PROVE  FreeName(s) => AlwaysInv'
<1>1. SUFFICES ASSUME FreeName(s) PROVE AlwaysInv'
  OBVIOUS
<1>2. sub[s].step = "freeing"
  BY <1>1 DEF FreeName
<1>3. s \in Subs /\ sub[s].deleted /\ subscriptions[sub[s].name] = s
      /\ sub[s].name \in SubNames
  <2>1. NoSub.step = "idle"
    BY DEF NoSub
  <2>2. s \in Subs
    BY <1>2, <2>1 DEF AlwaysInv, Numbered
  <2>. QED BY <1>2, <2>2 DEF AlwaysInv, Numbered, Listed, Leaving, Deletions
<1>. DEFINE b == [sub[s] EXCEPT !.step = "unregistering", !.signalled = TRUE]
<1>4. /\ sub' = [sub EXCEPT ![s] = b]
      /\ subscriptions' = [subscriptions EXCEPT ![sub[s].name] = None]
  BY <1>1 DEF FreeName, AlwaysInv, LifecycleTypes
<1>5. UNCHANGED <<topics, topic_next_id, sub_next_id, registry, topic, call,
                  Topics, Subs>>
  BY <1>1 DEF FreeName, Topics, Subs
<1>6. sub[s] \in SubActors /\ sub \in [SubId -> SubActors]
      /\ subscriptions \in [SubNames -> SubId \cup {None}]
  BY DEF AlwaysInv, LifecycleTypes
<1>7. /\ b \in SubActors /\ b.name = sub[s].name /\ b.topic = sub[s].topic
      /\ b.deleted = sub[s].deleted /\ b.signalled = TRUE
      /\ b.running = sub[s].running /\ b.received = sub[s].received
      /\ b.step = "unregistering" /\ b.caller = sub[s].caller
      /\ b.mailbox = sub[s].mailbox /\ b.attached = sub[s].attached
  BY <1>6 DEF SubActors
<1>. HIDE DEF b
<1>8. /\ sub' \in [SubId -> SubActors] /\ sub'[s] = b
      /\ \A x \in SubId \ {s} : sub'[x] = sub[x]
      /\ SubsKeepButMarks
      /\ \A x \in SubId : sub'[x].caller = sub[x].caller
  BY <1>4, <1>6, <1>7 DEF SubsKeepButMarks
<1>9. /\ subscriptions' \in [SubNames -> SubId \cup {None}]
      /\ \A n \in SubNames : \/ n = sub[s].name /\ subscriptions'[n] = None
                             \/ n # sub[s].name /\ subscriptions'[n] = subscriptions[n]
  BY <1>4, <1>6
<1>10. /\ \A x \in SubId : \A y : Reached(x, y)' <=> Reached(x, y)
       /\ PostedInOrder'
  BY <1>8, SMTT(30)
     DEF Reached, Posts, SubsKeepButMarks, AlwaysInv, PostedInOrder
<1>11. LifecycleTypes'
  BY <1>5, <1>8, <1>9 DEF AlwaysInv, LifecycleTypes
<1>12. Numbered'
  BY <1>3, <1>5, <1>8, <1>9, NumberedKept DEF AlwaysInv, SubsKeepButMarks
<1>13. Listed'
  <2>1. \A t \in Topics' : topic'[t].deleted \/ topics'[topic'[t].name] = t
    BY <1>5 DEF AlwaysInv, Listed
  <2>2. ASSUME NEW x \in Subs, sub'[x].deleted => sub'[x].step \in Leaving
        PROVE  subscriptions'[sub'[x].name] = x
    <3>1. x # s
      BY <1>3, <1>7, <1>8, <2>2 DEF Leaving
    <3>2. /\ sub'[x] = sub[x] /\ sub[x].name \in SubNames
          /\ subscriptions[sub[x].name] = x
      BY <1>8, <2>2, <3>1 DEF AlwaysInv, Numbered, Listed
    <3>3. sub[x].name # sub[s].name
      BY <1>3, <3>1, <3>2
    <3>. QED BY <1>9, <3>2, <3>3
  <2>. QED BY <1>5, <2>1, <2>2 DEF Listed
<1>14. CallsTracked'
  BY <1>5, <1>8, TrackedKept DEF SubsKeepButMarks, AlwaysInv, Numbered
<1>16. TopicRequests'
  <2>1. \A x \in Subs : /\ sub'[x].topic = sub[x].topic
                        /\ sub[x].step = "asked" => sub'[x].step = "asked"
    BY <1>2, <1>8 DEF AlwaysInv, Numbered, SubsKeepButMarks
  <2>. QED BY <1>5, <2>1, TopicRequestsKept DEF AlwaysInv
<1>17. SubRequests'
  BY <1>5, <1>8, SubRequestsKept DEF SubsKeepButMarks, AlwaysInv
<1>18. Deletions'
  <2>1. sub'[s].step = "unregistering" /\ sub'[s].signalled
    BY <1>7, <1>8
  <2>. QED BY <1>2, <1>3, <1>5, <1>8, <2>1, SMTT(30)
              DEF AlwaysInv, Deletions, SubsKeepButMarks, Leaving
<1>19. OnList'
  BY <1>5, <1>8, OnListKept DEF AlwaysInv, SubsKeepButMarks
<1>20. Publishing'
  BY <1>5, <1>8, <1>10, PublishingKept DEF AlwaysInv, SubsKeepButMarks
<1>21. Older'
  BY <1>5, <1>8, <1>10, OlderKept DEF AlwaysInv, Numbered, SubsKeepButMarks
<1>. QED BY <1>10, <1>11, <1>12, <1>13, <1>14, <1>16, <1>17, <1>18, <1>19,
            <1>20, <1>21 DEF AlwaysInv

\* Leaving the registry keeps the invariant.
LEMMA UnregisterKeeps ==
  ASSUME AlwaysInv, NEW s \in SubId
  PROVE  Unregister(s) => AlwaysInv'
<1>1. SUFFICES ASSUME Unregister(s) PROVE AlwaysInv'
  OBVIOUS
<1>2. sub[s].step = "unregistering"
  BY <1>1 DEF Unregister
<1>3. s \in Subs /\ sub[s].deleted /\ sub[s].running /\ sub[s].signalled
      /\ sub[s].name \in SubNames
  <2>1. NoSub.step = "idle"
    BY DEF NoSub
  <2>2. s \in Subs
    BY <1>2, <2>1 DEF AlwaysInv, Numbered
  <2>. QED BY <1>2, <2>2 DEF AlwaysInv, Numbered, Leaving, Deletions
<1>4. PICK c \in Clients :
        /\ c = sub[s].caller /\ call[c].stage = "awaiting"
        /\ call[c].op = "delete_subscription" /\ call[c].sub = s
  <2>1. sub[s].caller \in Clients \cup {None} /\ sub[s].caller # None
    BY <1>2 DEF AlwaysInv, LifecycleTypes, SubActors, Deletions
  <2>. QED BY <2>1 DEF AlwaysInv, SubRequests, SubRequestsOf
<1>. DEFINE b == [sub[s] EXCEPT !.step = "idle", !.caller = None]
<1>5. /\ sub' = [sub EXCEPT ![s] = b]
      /\ registry' = RegistrySet(sub[s].name, None)
      /\ Return(c, "ok")
  BY <1>1, <1>4 DEF Unregister, AlwaysInv, LifecycleTypes
<1>6. UNCHANGED <<topics, topic_next_id, subscriptions, sub_next_id, topic,
                  Topics, Subs>>
  BY <1>1 DEF Unregister, Topics, Subs
<1>7. sub[s] \in SubActors /\ sub \in [SubId -> SubActors]
  BY DEF AlwaysInv, LifecycleTypes
<1>8. /\ b \in SubActors /\ b.name = sub[s].name /\ b.topic = sub[s].topic
      /\ b.deleted = sub[s].deleted /\ b.signalled = sub[s].signalled
      /\ b.running = sub[s].running /\ b.received = sub[s].received
      /\ b.step = "idle" /\ b.caller = None
      /\ b.mailbox = sub[s].mailbox /\ b.attached = sub[s].attached
  BY <1>7 DEF SubActors
<1>. HIDE DEF b
<1>9. /\ sub' \in [SubId -> SubActors] /\ sub'[s] = b
      /\ \A x \in SubId \ {s} : sub'[x] = sub[x]
      /\ SubsKeepButMarks
      /\ \A x \in SubId : sub'[x].signalled = sub[x].signalled
  BY <1>5, <1>7, <1>8 DEF SubsKeepButMarks
<1>10. registry' \in [SubNames -> Configs \cup {None}]
  BY <1>3, <1>5, RegistrySetTyped DEF AlwaysInv, LifecycleTypes
<1>11. /\ call' \in [Clients -> Calls]
       /\ \A d \in Clients \ {c} : call'[d] = call[d]
       /\ Tracked(c)' /\ call'[c].stage = "idle"
  BY <1>5, ReturnedTracked DEF Results
<1>12. /\ \A x \in SubId : \A y : Reached(x, y)' <=> Reached(x, y)
       /\ PostedInOrder'
  BY <1>9, SMTT(30)
     DEF Reached, Posts, SubsKeepButMarks, AlwaysInv, PostedInOrder
<1>13. LifecycleTypes'
  BY <1>6, <1>9, <1>10, <1>11 DEF AlwaysInv, LifecycleTypes
<1>14. Numbered'
  BY <1>3, <1>6, <1>9, NumberedKept DEF AlwaysInv, SubsKeepButMarks
<1>15. Listed'
  <2>1. \A t \in Topics' : topic'[t].deleted \/ topics'[topic'[t].name] = t
    BY <1>6 DEF AlwaysInv, Listed
  <2>2. ASSUME NEW x \in Subs, sub'[x].deleted => sub'[x].step \in Leaving
        PROVE  subscriptions'[sub'[x].name] = x
    <3>1. x # s
      BY <1>3, <1>8, <1>9, <2>2 DEF Leaving
    <3>. QED BY <1>6, <1>9, <2>2, <3>1 DEF AlwaysInv, Numbered, Listed
  <2>. QED BY <1>6, <2>1, <2>2 DEF Listed
<1>16. CallsTracked'
  BY <1>6, <1>9, <1>11, TrackedKept DEF SubsKeepButMarks, AlwaysInv, Numbered
<1>18. TopicRequests'
  <2>1. \A x \in Subs : /\ sub'[x].topic = sub[x].topic
                        /\ sub[x].step = "asked" => sub'[x].step = "asked"
    BY <1>2, <1>9 DEF AlwaysInv, Numbered, SubsKeepButMarks
  <2>2. call[c].op \notin ToTopic
    BY <1>4 DEF ToTopic
  <2>. QED BY <1>6, <1>11, <2>1, <2>2, TopicRequestsKept DEF AlwaysInv
<1>19. SubRequests'
  <2>. SUFFICES ASSUME NEW x \in SubId PROVE SubRequestsOf(x)'
    BY DEF SubRequests
  <2>1. SubRequestsOf(x)
    BY DEF AlwaysInv, SubRequests
  <2>2. \A q : q.from # c /\ FromCall(q, x) => FromCall(q, x)'
    BY <1>11 DEF FromCall
  <2>3. \A q : FromCall(q, x) => q.from # None /\ (x # s => q.from # c)
    BY <1>4, Apart DEF FromCall
  <2>4. CASE x = s
    BY <1>4, <1>8, <1>9, <2>1, <2>2, <2>3, <2>4, SMTT(30) DEF SubRequestsOf
  <2>5. CASE x # s
    <3>1. sub[x].caller # None => call'[sub[x].caller] = call[sub[x].caller]
      <4>1. sub[x].caller # None => sub[x].caller \in Clients
        BY DEF AlwaysInv, LifecycleTypes, SubActors
      <4>2. sub[x].caller # c
        BY <1>4, <2>1, <2>5, Apart DEF SubRequestsOf
      <4>. QED BY <1>11, <4>1, <4>2
    <3>. QED BY <1>9, <2>1, <2>2, <2>3, <2>5, <3>1, SMTT(30) DEF SubRequestsOf
  <2>. QED BY <2>4, <2>5
<1>20. Deletions'
  <2>1. sub'[s].step = "idle" /\ sub'[s].caller = None
    BY <1>8, <1>9
  <2>. QED BY <1>2, <1>3, <1>6, <1>9, <2>1, SMTT(30)
              DEF AlwaysInv, Deletions, SubsKeepButMarks, Leaving
<1>21. OnList'
  BY <1>6, <1>9, OnListKept DEF AlwaysInv, SubsKeepButMarks
<1>22. Publishing'
  BY <1>6, <1>9, <1>12, PublishingKept DEF AlwaysInv, SubsKeepButMarks
<1>23. Older'
  BY <1>6, <1>9, <1>12, OlderKept DEF AlwaysInv, Numbered, SubsKeepButMarks
<1>. QED BY <1>12, <1>13, <1>14, <1>15, <1>16, <1>18, <1>19, <1>20, <1>21,
            <1>22, <1>23 DEF AlwaysInv

\* The end of a subscription's actor keeps the invariant: its mailbox goes,
\* and who waits for an answer gets an error.
LEMMA StopKeeps ==
  ASSUME AlwaysInv, NEW s \in SubId
  PROVE  Stop(s) => AlwaysInv'
<1>1. SUFFICES ASSUME Stop(s) PROVE AlwaysInv'
  OBVIOUS
<1>2. /\ sub[s].running /\ sub[s].signalled /\ sub[s].step = "idle"
      /\ sub[s].deleted /\ sub[s].caller = None
  BY <1>1 DEF Stop, AlwaysInv, Deletions
<1>3. s \in Subs
  <2>1. ~NoSub.signalled
    BY DEF NoSub
  <2>. QED BY <1>2, <2>1 DEF AlwaysInv, Numbered
<1>4. PICK left : left = {sub[s].mailbox[i].from : i \in DOMAIN sub[s].mailbox} \ {None}
  OBVIOUS
<1>5. \A c \in left : /\ c \in Clients /\ call[c].op \in SubOps
                      /\ call[c].stage = "awaiting" /\ call[c].sub = s
  BY <1>4, SMTT(30) DEF AlwaysInv, SubRequests, SubRequestsOf, FromCall
<1>. DEFINE b == [sub[s] EXCEPT !.running = FALSE, !.mailbox = << >>]
<1>6. /\ sub' = [sub EXCEPT ![s] = b]
      /\ call' = [c \in Clients |-> IF c \in left THEN Idle("error") ELSE call[c]]
  BY <1>1, <1>4 DEF Stop, AlwaysInv, LifecycleTypes
<1>7. UNCHANGED <<topics, topic_next_id, subscriptions, sub_next_id, registry,
                  topic, Topics, Subs>>
  BY <1>1 DEF Stop, Topics, Subs
<1>8. sub[s] \in SubActors /\ sub \in [SubId -> SubActors]
      /\ call \in [Clients -> Calls]
  BY DEF AlwaysInv, LifecycleTypes
<1>9. /\ b \in SubActors /\ b.name = sub[s].name /\ b.topic = sub[s].topic
      /\ b.deleted = sub[s].deleted /\ b.signalled = sub[s].signalled
      /\ b.running = FALSE /\ b.received = sub[s].received
      /\ b.step = sub[s].step /\ b.caller = sub[s].caller
      /\ b.mailbox = << >> /\ b.attached = sub[s].attached
  <2>1. << >> \in Seq(Requests)
    BY SMTT(30)
  <2>2. /\ b.name = sub[s].name /\ b.topic = sub[s].topic
        /\ b.deleted = sub[s].deleted /\ b.signalled = sub[s].signalled
        /\ b.running = FALSE /\ b.received = sub[s].received
        /\ b.step = sub[s].step /\ b.caller = sub[s].caller
        /\ b.mailbox = << >> /\ b.attached = sub[s].attached
    BY <1>8 DEF SubActors
  <2>3. b \in SubActors
    BY <1>8, <2>1 DEF SubActors
  <2>. QED BY <2>2, <2>3
<1>. HIDE DEF b
<1>10. /\ sub' \in [SubId -> SubActors] /\ sub'[s] = b
       /\ \A x \in SubId \ {s} : sub'[x] = sub[x]
  BY <1>6, <1>8, <1>9
<1>11. \A x \in SubId :
         /\ sub'[x].name = sub[x].name /\ sub'[x].topic = sub[x].topic
         /\ sub'[x].deleted = sub[x].deleted
         /\ sub'[x].attached = sub[x].attached
         /\ sub'[x].step = sub[x].step /\ sub'[x].caller = sub[x].caller
  BY <1>9, <1>10
<1>12. /\ call' \in [Clients -> Calls]
       /\ \A d \in Clients \ left : call'[d] = call[d]
       /\ \A d \in left : call'[d] = Idle("error")
  <2>1. Idle("error") \in Calls
    BY IdleCall DEF Results
  <2>. QED BY <1>5, <1>6, <1>8, <2>1
<1>13. \A d \in left : Tracked(d)' /\ call'[d].stage = "idle"
  BY <1>12, SMTT(30) DEF Tracked, Idle, ToTopic, SubOps
<1>14. \A x \in SubId :
         /\ PostedOf(x)'
         /\ \A y : /\ Reached(x, y)' => Reached(x, y)
                   /\ Reached(x, y) => sub'[x].deleted \/ Reached(x, y)'
  <2>. SUFFICES ASSUME NEW x \in SubId
                PROVE  /\ PostedOf(x)'
                       /\ \A y : /\ Reached(x, y)' => Reached(x, y)
                                 /\ Reached(x, y) => sub'[x].deleted \/ Reached(x, y)'
    OBVIOUS
  <2>1. PostedOf(x)
    BY PostedOfAll DEF AlwaysInv
  <2>2. CASE x = s
    <3>1. /\ sub'[s].mailbox = << >> /\ sub'[s].deleted
          /\ sub'[s].received = sub[s].received
      BY <1>2, <1>9, <1>10
    <3>2. DOMAIN sub'[s].mailbox = {}
      BY <3>1, SMTT(30)
    <3>3. Posts(s)' = {}
      BY <3>2 DEF Posts
    <3>. QED BY <2>1, <2>2, <3>1, <3>3 DEF PostedOf, Reached
  <2>3. CASE x # s
    BY <1>10, <2>1, <2>3 DEF PostedOf, Posts, Reached
  <2>. QED BY <2>2, <2>3
<1>15. LifecycleTypes' /\ PostedInOrder'
  <2>1. (\A x \in SubId : PostedOf(x))' => PostedInOrder'
    BY DEF PostedInOrder, PostedOf
  <2>2. LifecycleTypes'
    BY <1>7, <1>10, <1>12 DEF AlwaysInv, LifecycleTypes
  <2>. QED BY <1>14, <2>1, <2>2
<1>16. Numbered'
  BY <1>3, <1>7, <1>10, <1>11, NumberedKept DEF AlwaysInv
<1>17. Listed'
  BY <1>7, <1>11, ListedKept DEF AlwaysInv
<1>18. CallsTracked'
  BY <1>7, <1>11, <1>12, <1>13, TrackedKept DEF AlwaysInv, Numbered
<1>20. TopicRequests'
  <2>1. \A x \in Subs : sub'[x].topic = sub[x].topic /\ sub'[x].step = sub[x].step
    BY <1>11 DEF AlwaysInv, Numbered
  <2>2. \A d \in Clients : call[d].op \in ToTopic => call'[d] = call[d]
    BY <1>5, <1>12 DEF ToTopic, SubOps
  <2>. QED BY <1>7, <2>1, <2>2, TopicRequestsKept DEF AlwaysInv
<1>21. SubRequests'
  <2>. SUFFICES ASSUME NEW x \in SubId PROVE SubRequestsOf(x)'
    BY DEF SubRequests
  <2>1. CASE x = s
    <3>1. DOMAIN sub'[s].mailbox = {} /\ sub'[s].caller = None
      BY <1>2, <1>9, <1>10, SMTT(30)
    <3>. QED BY <2>1, <3>1 DEF SubRequestsOf
  <2>2. CASE x # s
    <3>1. SubRequestsOf(x)
      BY DEF AlwaysInv, SubRequests
    <3>2. \A q : FromCall(q, x) => FromCall(q, x)'
      BY <1>5, <1>12, <2>2 DEF FromCall
    <3>3. sub[x].caller # None => call'[sub[x].caller] = call[sub[x].caller]
      <4>1. sub[x].caller # None => sub[x].caller \in Clients
        BY DEF AlwaysInv, LifecycleTypes, SubActors
      <4>2. sub[x].caller # None => sub[x].caller \notin left
        BY <1>5, <2>2, <3>1 DEF SubRequestsOf
      <4>. QED BY <1>12, <4>1, <4>2
    <3>. QED BY <1>10, <2>2, <3>1, <3>2, <3>3, SMTT(30) DEF SubRequestsOf
  <2>. QED BY <2>1, <2>2
<1>22. Deletions'
  <2>1. /\ sub'[s].step = "idle" /\ sub'[s].caller = None /\ sub'[s].signalled
        /\ sub'[s].deleted /\ sub'[s].mailbox = << >>
    BY <1>2, <1>9, <1>10
  <2>. QED BY <1>7, <1>10, <2>1 DEF AlwaysInv, Deletions, Leaving
<1>23. OnList'
  BY <1>7, <1>11, OnListKept DEF AlwaysInv
<1>24. Publishing'
  BY <1>7, <1>11, <1>14, PublishingKept DEF AlwaysInv
<1>25. Older'
  BY <1>7, <1>11, <1>14, OlderKept DEF AlwaysInv, Numbered
<1>. QED BY <1>15, <1>16, <1>17, <1>18, <1>20, <1>21, <1>22, <1>23, <1>24,
            <1>25 DEF AlwaysInv

\* A task that posts keeps the invariant: it comes after every earlier post
\* of its topic.
LEMMA PostKeeps ==
  ASSUME AlwaysInv, NEW t \in TopicId, NEW s \in SubId
  PROVE  Post(t, s) => AlwaysInv'
<1>1. SUFFICES ASSUME Post(t, s) PROVE AlwaysInv'
  OBVIOUS
<1>2. PICK k \in DOMAIN topic[t].tasks, outcome \in {"done", "failed"} :
        /\ k[1] = s /\ topic[t].tasks[k] = "pending"
        /\ topic' = [topic EXCEPT ![t].tasks[k] = outcome]
        /\ \/ /\ outcome = "done" /\ sub[s].running
              /\ sub' = [sub EXCEPT ![s] =
                   Enqueue(sub[s], [Request("post", None) EXCEPT !.id = k[2]])]
           \/ outcome = "failed" /\ sub' = sub
  <2>1. sub \in [SubId -> SubActors]
    BY DEF AlwaysInv, LifecycleTypes
  <2>. QED BY <1>1, <2>1 DEF Post
<1>3. UNCHANGED <<topics, topic_next_id, subscriptions, sub_next_id, registry,
                  call, Topics, Subs>>
  BY <1>1 DEF Post, Topics, Subs
<1>a. PICK r : r = [Request("post", None) EXCEPT !.id = k[2]]
  OBVIOUS
<1>b. /\ k = <<k[1], LastId(t)>> /\ LastId(t) \in Nat
      /\ k[1] \in Subs /\ sub[k[1]].topic = t
  <2>1. topic' = [topic EXCEPT ![t].tasks[k] = outcome]
    BY <1>2
  <2>. QED BY <2>1, Settled
<1>4. PICK id \in Nat : id = LastId(t) /\ k = <<s, id>>
  <2>1. k[1] = s
    BY <1>2
  <2>. QED BY <1>b, <2>1
<1>5. /\ topic[t].publishing # None /\ t \in Topics /\ s \in Subs
      /\ sub[s].topic = t
      /\ topic' \in [TopicId -> TopicActors]
      /\ \A x \in TopicId \ {t} : topic'[x] = topic[x]
      /\ DOMAIN topic'[t].tasks = DOMAIN topic[t].tasks
      /\ \A j \in DOMAIN topic[t].tasks :
           topic'[t].tasks[j] = IF j = k THEN outcome ELSE topic[t].tasks[j]
      /\ \A x \in TopicId :
           /\ topic'[x].name = topic[x].name
           /\ topic'[x].attached = topic[x].attached
           /\ topic'[x].deleted = topic[x].deleted
           /\ topic'[x].next_message_id = topic[x].next_message_id
           /\ topic'[x].publishing = topic[x].publishing
           /\ topic'[x].mailbox = topic[x].mailbox
  <2>1. topic' = [topic EXCEPT ![t].tasks[k] = outcome]
    BY <1>2
  <2>2. s \in Subs /\ sub[s].topic = t
    BY <1>2, <1>b
  <2>3. /\ topic[t].publishing # None /\ t \in Topics
        /\ topic' \in [TopicId -> TopicActors]
        /\ \A x \in TopicId \ {t} : topic'[x] = topic[x]
    BY <2>1, Settled
  <2>4. /\ DOMAIN topic'[t].tasks = DOMAIN topic[t].tasks
        /\ \A j \in DOMAIN topic[t].tasks :
             topic'[t].tasks[j] = IF j = k THEN outcome ELSE topic[t].tasks[j]
    <3>. DEFINE jobs == [topic[t].tasks EXCEPT ![k] = outcome]
    <3>1. topic \in [TopicId -> TopicActors] /\ topic[t] \in TopicActors
      BY DEF AlwaysInv, LifecycleTypes
    <3>2. topic'[t] = [topic[t] EXCEPT !.tasks = jobs]
      BY <2>1, <3>1
    <3>3. topic'[t].tasks = jobs
      <4>. HIDE DEF jobs
      <4>. QED BY <3>1, <3>2 DEF TopicActors
    <3>. QED BY <3>3
  <2>5. \A x \in TopicId :
           /\ topic'[x].name = topic[x].name
           /\ topic'[x].attached = topic[x].attached
           /\ topic'[x].deleted = topic[x].deleted
           /\ topic'[x].next_message_id = topic[x].next_message_id
           /\ topic'[x].publishing = topic[x].publishing
           /\ topic'[x].mailbox = topic[x].mailbox
    BY <2>1, Settled
  <2>. QED BY <2>2, <2>3, <2>4, <2>5
<1>6. /\ r \in Requests /\ r.from = None /\ r.op = "post" /\ r.id = id
  BY <1>4, <1>a DEF Request, Requests
<1>7. /\ sub \in [SubId -> SubActors] /\ sub[s] \in SubActors
  BY DEF AlwaysInv, LifecycleTypes
<1>8. /\ sub' \in [SubId -> SubActors] /\ SubsKeep
      /\ \A x \in SubId \ {s} : sub'[x] = sub[x]
      /\ sub'[s].received = sub[s].received
      /\ \/ /\ outcome = "done" /\ sub[s].running
            /\ Grown(sub[s].mailbox, sub'[s].mailbox, r)
         \/ outcome = "failed" /\ sub' = sub
  <2>1. CASE outcome = "done" /\ sub' = [sub EXCEPT ![s] = Enqueue(sub[s], r)]
             /\ sub[s].running
    <3>. DEFINE b == Enqueue(sub[s], r)
    <3>1. /\ b \in SubActors
          /\ b.name = sub[s].name /\ b.topic = sub[s].topic
          /\ b.deleted = sub[s].deleted
          /\ b.signalled = sub[s].signalled /\ b.running = sub[s].running
          /\ b.attached = sub[s].attached /\ b.received = sub[s].received
          /\ b.step = sub[s].step /\ b.caller = sub[s].caller
          /\ Grown(sub[s].mailbox, b.mailbox, r)
      BY <1>6, <1>7, SubEnqueued
    <3>2. sub' = [sub EXCEPT ![s] = b]
      BY <2>1
    <3>. HIDE DEF b
    <3>. QED BY <1>7, <2>1, <3>1, <3>2 DEF SubsKeep
  <2>2. CASE outcome = "failed" /\ sub' = sub
    BY <1>7, <2>2 DEF SubsKeep
  <2>. QED BY <1>2, <1>a, <2>1, <2>2
<1>9. \A x : Reached(s, x) => x < id
  <2>1. Awaits(s, t)
    BY <1>2, <1>4 DEF Awaits
  <2>2. \A x \in Nat : Reached(s, x) => x < id
    BY <1>4, <1>5, <2>1 DEF AlwaysInv, Older, OlderOf
  <2>3. \A x : Reached(s, x) => x \in Nat
    <3>1. sub[s].received \in Seq(Nat) /\ sub[s].mailbox \in Seq(Requests)
      BY <1>7 DEF SubActors
    <3>2. /\ \A i \in DOMAIN sub[s].received : sub[s].received[i] \in Nat
          /\ \A i \in DOMAIN sub[s].mailbox : sub[s].mailbox[i] \in Requests
      BY <3>1, SMTT(30)
    <3>3. \A q \in Requests : q.id \in Nat
      BY DEF Requests
    <3>. QED BY <3>2, <3>3 DEF Reached, Posts
  <2>. QED BY <2>2, <2>3
<1>10. /\ PostedOf(s)'
       /\ \A x : Reached(s, x)' <=> Reached(s, x) \/ (outcome = "done" /\ x = id)
  <2>1. PostedOf(s)
    BY PostedOfAll DEF AlwaysInv
  <2>2. CASE outcome = "done"
    BY <1>6, <1>8, <1>9, <2>1, <2>2, PostedGrows
  <2>3. CASE outcome = "failed"
    BY <1>8, <2>1, <2>3 DEF PostedOf, Posts, Reached
  <2>. QED BY <2>2, <2>3
<1>11. \A x \in SubId \ {s} : PostedOf(x)' /\ \A y : Reached(x, y)' <=> Reached(x, y)
  <2>1. \A x \in SubId : PostedOf(x)
    BY PostedOfAll DEF AlwaysInv
  <2>. QED BY <1>8, <2>1, SMTT(30) DEF PostedOf, Posts, Reached
<1>12. LifecycleTypes' /\ PostedInOrder'
  <2>1. (\A x \in SubId : PostedOf(x))' => PostedInOrder'
    BY DEF PostedInOrder, PostedOf
  <2>2. LifecycleTypes'
    BY <1>3, <1>5, <1>8 DEF AlwaysInv, LifecycleTypes
  <2>. QED BY <1>10, <1>11, <2>1, <2>2
<1>13. Numbered'
  BY <1>3, <1>5, <1>8, NumberedKept DEF AlwaysInv, SubsKeep
<1>14. Listed'
  BY <1>3, <1>5, <1>8, SMTT(30) DEF AlwaysInv, Numbered, Listed, SubsKeep
<1>15. CallsTracked'
  BY <1>3, <1>8, TrackedKept DEF AlwaysInv, Numbered, SubsKeep
<1>17. TopicRequests'
  <2>1. \A x \in Subs : sub'[x].topic = sub[x].topic /\ sub'[x].step = sub[x].step
    BY <1>8 DEF AlwaysInv, Numbered, SubsKeep
  <2>. QED BY <1>3, <1>5, <2>1, TopicRequestsKept DEF AlwaysInv
<1>18. SubRequests'
  <2>. SUFFICES ASSUME NEW x \in SubId PROVE SubRequestsOf(x)'
    BY DEF SubRequests
  <2>1. SubRequestsOf(x)
    BY DEF AlwaysInv, SubRequests
  <2>2. \A q : FromCall(q, x) => FromCall(q, x)' /\ q.from # None
    BY <1>3, Apart DEF FromCall
  <2>3. sub'[x].caller = sub[x].caller
    BY <1>8 DEF SubsKeep
  <2>4. CASE x = s /\ outcome = "done"
    BY <1>3, <1>6, <1>8, <2>1, <2>2, <2>3, <2>4, SubMail
  <2>5. CASE x # s \/ outcome = "failed"
    <3>1. sub'[x].mailbox = sub[x].mailbox
      BY <1>8, <2>5
    <3>. QED BY <1>3, <2>1, <2>2, <2>3, <3>1 DEF SubRequestsOf
  <2>. QED BY <2>4, <2>5
<1>19. Deletions'
  BY <1>3, <1>8, DeletionsKept DEF AlwaysInv, SubsKeep
<1>20. OnList'
  <2>1. \A x \in TopicId : topic'[x].attached = topic[x].attached
    BY <1>5
  <2>. QED BY <1>3, <1>8, <2>1, OnListKept DEF AlwaysInv, SubsKeep
<1>21. \A x \in TopicId : LastId(x)' = LastId(x) /\ Attached(x)' = Attached(x)
  BY <1>5, SMTT(30) DEF LastId, Attached
<1>22. Publishing'
  <2>. SUFFICES ASSUME NEW x \in TopicId PROVE PublishingOf(x)'
    BY DEF Publishing
  <2>1. PublishingOf(x)
    BY DEF AlwaysInv, Publishing
  <2>2. /\ DOMAIN topic'[x].tasks = DOMAIN topic[x].tasks
        /\ \A j \in DOMAIN topic[x].tasks :
             \/ topic'[x].tasks[j] = topic[x].tasks[j]
             \/ x = t /\ j = <<s, id>> /\ topic'[x].tasks[j] = outcome
    BY <1>4, <1>5, SMTT(30)
  <2>3. \A y \in SubId : sub'[y].deleted = sub[y].deleted
    BY <1>8 DEF SubsKeep
  <2>4. ASSUME NEW y \in SubId, <<y, LastId(x)>> \in DOMAIN topic[x].tasks,
               topic'[x].tasks[<<y, LastId(x)>>] = "done"
        PROVE  sub[y].deleted \/ Reached(y, LastId(x))'
    <3>1. CASE topic[x].tasks[<<y, LastId(x)>>] = "done"
      <4>1. sub[y].deleted \/ Reached(y, LastId(x))
        BY <2>1, <2>4, <3>1 DEF PublishingOf
      <4>2. \A z : Reached(y, z) => Reached(y, z)'
        BY <1>10, <1>11
      <4>3. LastId(x)' = LastId(x)
        BY <1>21
      <4>4. CASE sub[y].deleted
        BY <4>4
      <4>5. CASE Reached(y, LastId(x))
        <5>1. PICK z : z = LastId(x)
          OBVIOUS
        <5>2. Reached(y, z)'
          BY <4>2, <4>5, <5>1
        <5>. QED BY <4>3, <5>1, <5>2
      <4>. QED BY <4>1, <4>4, <4>5
    <3>2. CASE topic[x].tasks[<<y, LastId(x)>>] # "done"
      <4>1. x = t /\ y = s /\ LastId(x) = id /\ outcome = "done"
        BY <1>4, <2>2, <2>4, <3>2
      <4>2. Reached(s, id)'
        BY <1>10, <4>1
      <4>. QED BY <1>21, <4>1, <4>2
    <3>. QED BY <3>1, <3>2
  <2>. QED BY <1>5, <1>21, <2>1, <2>2, <2>3, <2>4 DEF PublishingOf
<1>23. Older'
  <2>. SUFFICES ASSUME NEW y \in Subs PROVE OlderOf(y)'
    BY <1>3 DEF Older
  <2>1. y \in SubId /\ sub[y].topic \in TopicId /\ OlderOf(y)
        /\ sub'[y].topic = sub[y].topic
    BY <1>8 DEF AlwaysInv, Numbered, Older, SubsKeep
  <2>2. LastId(sub[y].topic)' = LastId(sub[y].topic)
    BY <1>21, <2>1
  <2>3. CASE y = s
    <3>1. ~Awaits(s, t)'
      BY <1>4, <1>5, <1>21 DEF Awaits
    <3>. QED BY <1>4, <1>5, <1>9, <1>10, <2>1, <2>2, <2>3, <3>1, SMTT(30)
                DEF OlderOf
  <2>4. CASE y # s
    <3>1. Awaits(y, sub[y].topic)' => Awaits(y, sub[y].topic)
      <4>1. CASE sub[y].topic = t
        BY <1>4, <1>5, <2>1, <2>2, <2>4, <4>1, SMTT(30) DEF Awaits
      <4>2. CASE sub[y].topic # t
        BY <1>5, <2>1, <2>2, <4>2, SMTT(30) DEF Awaits
      <4>. QED BY <4>1, <4>2
    <3>. QED BY <1>11, <2>1, <2>2, <2>4, <3>1 DEF OlderOf
  <2>. QED BY <2>3, <2>4
<1>. QED BY <1>12, <1>13, <1>14, <1>15, <1>17, <1>18, <1>19, <1>20, <1>22,
            <1>23 DEF AlwaysInv

\* A step that changes nothing keeps the invariant.
LEMMA StutterKeeps ==
  ASSUME AlwaysInv, UNCHANGED vars
  PROVE  AlwaysInv'
<1>1. UNCHANGED <<topics, topic_next_id, subscriptions, sub_next_id, registry,
                  topic, sub, call>>
  BY DEF vars
<1>2. /\ Topics' = Topics /\ Subs' = Subs
      /\ Numbered' /\ Listed' /\ Deletions' /\ OnList' /\ Publishing' /\ Older'
  BY <1>1, MailStep DEF TopicsKeep, SubsKeep, Reached, Posts
<1>3. LifecycleTypes' /\ PostedInOrder'
  BY <1>1 DEF AlwaysInv, LifecycleTypes, PostedInOrder, Posts
<1>4. CallsTracked'
  BY <1>1, <1>2, TrackedKept
<1>6. TopicRequests' /\ SubRequests'
  BY <1>1, <1>2, TopicRequestsKept, SubRequestsKept DEF AlwaysInv
<1>. QED BY <1>2, <1>3, <1>4, <1>6 DEF AlwaysInv

\* Every step keeps the invariant.
LEMMA StepAlways ==
  ASSUME AlwaysInv, [LifecycleNext]_vars,
         \A c \in Clients : call[c].stage = "creating" => sub_next_id + 1 \in SubId
  PROVE  AlwaysInv'
<1>1. ASSUME NEW c \in Clients, Begin(c)
      PROVE  AlwaysInv'
  <2>1. ASSUME NEW n \in TopicNames, CreateTopic(c, n) PROVE AlwaysInv'
    BY <1>1, <2>1, CreateTopicKeeps
  <2>2. ASSUME NEW n \in TopicNames, NEW op \in {"publish", "delete_topic", "get_topic"},
               CallTopic(c, op, n)
        PROVE  AlwaysInv'
    BY <1>1, <2>2, CallTopicKeeps
  <2>3. ASSUME NEW n \in TopicNames, NEW m \in SubNames,
               NEW config \in Configs \cup {None}, CreateSubscription(c, m, n, config)
        PROVE  AlwaysInv'
    BY <1>1, <2>3, CreateSubscriptionKeeps
  <2>4. ASSUME NEW n \in SubNames, NEW op \in SubOps,
               NEW config \in Configs \cup {None}, CallSubscription(c, op, n, config)
        PROVE  AlwaysInv'
    BY <1>1, <2>4, CallSubscriptionKeeps
  <2>. QED BY <1>1, <2>1, <2>2, <2>3, <2>4 DEF Begin, SubOps
<1>2. ASSUME Serve
      PROVE  AlwaysInv'
  <2>1. ASSUME NEW c \in Clients, InsertSubscription(c) \/ Send(c) PROVE AlwaysInv'
    BY <2>1, InsertSubscriptionKeeps, SendKeeps DEF InsertSubscription
  <2>2. ASSUME NEW t \in TopicId, TopicReceive(t) \/ Join(t) PROVE AlwaysInv'
    BY <1>2, <2>2, TopicReceiveKeeps, JoinKeeps
  <2>3. ASSUME NEW t \in TopicId, NEW s \in SubId, Post(t, s) PROVE AlwaysInv'
    BY <1>2, <2>3, PostKeeps
  <2>4. ASSUME NEW s \in SubId,
               SubReceive(s) \/ AskTopic(s) \/ FreeName(s) \/ Unregister(s) \/ Stop(s)
        PROVE  AlwaysInv'
    BY <1>2, <2>4, SubReceiveKeeps, AskTopicKeeps, FreeNameKeeps,
       UnregisterKeeps, StopKeeps
  <2>. QED BY <1>2, <2>1, <2>2, <2>3, <2>4 DEF Serve
<1>. QED BY <1>1, <1>2, StutterKeeps DEF LifecycleNext
=============================================================================

-------------------------- MODULE LifecycleProofs --------------------------
(***************************************************************************)
(* What the lifecycle of topics and subscriptions guarantees, for every    *)
(* number of clients, names, topics and subscriptions and every bound: the *)
(* steps that PatientInv notices, the registry of push configurations, the *)
(* room for every creation under way, and the theorems.                    *)
(***************************************************************************)
EXTENDS LifecycleSteps

USE ZenonT(30)

\* The steps that do attach, delete or post.
LEMMA InsertSubscriptionPatient ==
  ASSUME PatientInv, AlwaysInv', Patient, NEW c \in Clients,
         sub_next_id + 1 \in SubId
  PROVE  InsertSubscription(c) => PatientInv'
<1>0. AlwaysInv
  BY DEF PatientInv
<1>1. SUFFICES ASSUME InsertSubscription(c) PROVE PatientInv'
  OBVIOUS
<1>2. PICK n \in SubNames, s \in SubId :
        n = call[c].name /\ s = sub_next_id + 1
  BY <1>0, <1>1 DEF AlwaysInv, CallsTracked, Tracked, InsertSubscription
<1>3. CASE subscriptions[n] # None
  <2>1. UNCHANGED <<topics, topic, sub, sub_next_id>> /\ Return(c, "error")
    BY <1>1, <1>2, <1>3 DEF InsertSubscription
  <2>2. \A d \in Clients : Goes(d) \/ Begins(d)
    BY <1>0, <2>1, ReturnQuiet DEF Results
  <2>3. Quiet
    BY <2>1, <2>2 DEF Quiet, SubsSame, TopicsSame, NamesSame, Subs
  <2>. QED BY <2>3, PatientQuiet
<1>4. CASE subscriptions[n] = None
  <2>. DEFINE new == [NoSub EXCEPT !.name = n, !.topic = call[c].topic,
                              !.push_config = call[c].push_config,
                              !.running = TRUE]
  <2>1. /\ call[c].stage = "creating"
        /\ sub' = [sub EXCEPT ![s] = new]
        /\ call' = [call EXCEPT ![c].sub = s, ![c].stage = "calling"]
    BY <1>1, <1>2, <1>4 DEF InsertSubscription
  <2>2. UNCHANGED <<topics, topic_next_id, topic, Topics>> /\ sub_next_id' = s
    BY <1>1, <1>2, <1>4 DEF InsertSubscription, Topics
  <2>3. /\ ~new.deleted /\ ~new.attached /\ new.step = "idle"
    BY DEF NoSub
  <2>. HIDE DEF new
  <2>4. /\ sub'[s] = new /\ \A x \in SubId \ {s} : sub'[x] = sub[x]
    BY <1>0, <2>1 DEF AlwaysInv, LifecycleTypes
  <2>5. /\ \A d \in Clients \ {c} : call'[d] = call[d]
        /\ call'[c].sub = s /\ call'[c].topic = call[c].topic
    BY <1>0, <2>1, SMTT(30) DEF AlwaysInv, LifecycleTypes, Calls
  <2>6. /\ Subs' = Subs \cup {s} /\ s \notin Subs /\ s # None
    BY <1>0, <1>2, <2>2, Apart, SMTT(30) DEF Subs, AlwaysInv, LifecycleTypes
  <2>7. \A t \in TopicId : Held(t)' => Held(t)
    <3>. SUFFICES ASSUME NEW t \in TopicId, Held(t)' PROVE Held(t)
      OBVIOUS
    <3>1. CASE \E m \in TopicNames : topics'[m] = t
      BY <2>2, <3>1 DEF Held
    <3>2. CASE \E d \in Clients : call'[d].stage # "idle" /\ call'[d].topic = t
      BY <2>1, <2>5, <3>2 DEF Held
    <3>3. CASE \E x \in SubId : sub'[x].topic = t /\ sub'[x].step \in Departing
      BY <2>3, <2>4, <3>3 DEF Held, Departing
    <3>. QED BY <3>1, <3>2, <3>3 DEF Held, Departing
  <2>8. CreatedAlone'
    <3>. SUFFICES ASSUME NEW d \in Clients, call'[d].op = "create_subscription",
                         call'[d].sub # None
                  PROVE  /\ ~sub'[call'[d].sub].deleted
                         /\ ~sub'[call'[d].sub].attached
                         /\ \A e \in Clients \ {d} : call'[e].sub # call'[d].sub
      BY DEF CreatedAlone
    <3>1. \A e \in Clients \ {c} :
            call'[e].sub = call[e].sub /\ call'[e].sub # s
      BY <1>0, <2>5, <2>6, SMTT(30) DEF AlwaysInv, CallsTracked, Tracked
    <3>2. CASE d = c
      BY <2>3, <2>4, <2>5, <3>1, <3>2
    <3>3. CASE d # c
      <4>1. /\ call[d].op = "create_subscription" /\ call[d].sub # None
            /\ call'[d].sub = call[d].sub /\ call[d].sub \in SubId \ {s}
        BY <1>0, <2>5, <3>1, <3>3, SMTT(30)
           DEF AlwaysInv, CallsTracked, Tracked, Numbered
      <4>2. ~sub'[call'[d].sub].deleted /\ ~sub'[call'[d].sub].attached
        BY <2>4, <4>1 DEF PatientInv, CreatedAlone
      <4>3. ASSUME NEW e \in Clients \ {d} PROVE call'[e].sub # call'[d].sub
        <5>1. CASE e = c
          BY <2>5, <4>1, <5>1
        <5>2. CASE e # c
          BY <3>1, <4>1, <4>3, <5>2 DEF PatientInv, CreatedAlone
        <5>. QED BY <5>1, <5>2
      <4>. QED BY <4>2, <4>3
    <3>. QED BY <3>2, <3>3
  <2>9. Left'
    <3>. SUFFICES ASSUME NEW x \in Subs', sub'[x].deleted, sub'[x].step \notin Departing,
                         NEW t \in TopicId, NEW m \in SubNames, Held(t)',
                         topic'[t].attached[m] = x
                  PROVE  FALSE
      BY DEF Left, Departing
    <3>1. x \in Subs /\ x # s
      BY <2>3, <2>4, <2>6
    <3>2. sub'[x] = sub[x]
      BY <1>0, <2>4, <3>1 DEF AlwaysInv, Numbered
    <3>. QED BY <2>2, <2>7, <3>1, <3>2 DEF PatientInv, Left, Departing
  <2>10. Stays'
    <3>. SUFFICES ASSUME NEW x \in Subs', sub'[x].attached, ~sub'[x].deleted
                  PROVE  \/ topic'[sub'[x].topic].deleted
                         \/ topic'[sub'[x].topic].attached[sub'[x].name] = x
      BY DEF Stays
    <3>1. x \in Subs /\ x # s
      BY <2>3, <2>4, <2>6
    <3>2. sub'[x] = sub[x]
      BY <1>0, <2>4, <3>1 DEF AlwaysInv, Numbered
    <3>. QED BY <2>2, <3>1, <3>2 DEF PatientInv, Stays
  <2>11. PublishNeverFails'
    BY <2>2 DEF PatientInv, PublishNeverFails
  <2>. QED BY <2>8, <2>9, <2>10, <2>11 DEF PatientInv
<1>. QED BY <1>3, <1>4

\* Attaching keeps PatientInv: what the topic attaches has an actor that
\* nobody has deleted, for its creator still waits.
LEMMA AttachSubscriptionPatient ==
  ASSUME PatientInv, AlwaysInv', Patient, NEW t \in TopicId,
         topic[t].mailbox # << >>,
         Head(topic[t].mailbox).op = "create_subscription", UNCHANGED sub_next_id
  PROVE  AttachSubscription(t) => PatientInv'
<1>0. AlwaysInv
  BY DEF PatientInv
<1>1. SUFFICES ASSUME AttachSubscription(t) PROVE PatientInv'
  OBVIOUS
<1>2. PICK h : h = Head(topic[t].mailbox)
  OBVIOUS
<1>3. OfCall(h, t) /\ h.from \in Clients /\ t \in Topics
      /\ h.op = "create_subscription"
  BY <1>0, <1>2, TopicTakes DEF OfCall
<1>4. PICK c \in Clients, s \in SubId, n \in SubNames :
        /\ c = h.from /\ s = h.sub /\ n = sub[s].name /\ s \in Subs
        /\ call[c].stage = "awaiting" /\ call[c].op = "create_subscription"
        /\ call[c].topic = t /\ call[c].sub = s /\ sub[s].topic = t
  <2>1. /\ Tracked(h.from) /\ call[h.from].op = "create_subscription"
        /\ call[h.from].stage = "awaiting" /\ call[h.from].topic = t
        /\ call[h.from].sub = h.sub
    BY <1>0, <1>3 DEF OfCall, AlwaysInv, CallsTracked
  <2>2. /\ h.sub \in Subs /\ sub[h.sub].name \in SubNames /\ sub[h.sub].topic = t
    BY <1>0, <2>1 DEF Tracked, AlwaysInv, Numbered
  <2>. QED BY <1>0, <1>3, <2>1, <2>2 DEF AlwaysInv, Numbered
<1>. DEFINE D == Dequeue(topic[t])
            new == [D EXCEPT !.attached[n] = IF @ = None THEN s ELSE @]
            b == [sub[s] EXCEPT !.attached = TRUE]
<1>5. /\ topic' = [topic EXCEPT ![t] = new]
      /\ call' = [call EXCEPT ![c].op = "get_subscription",
                              ![c].stage = "calling"]
  <2>1. topic' = [topic EXCEPT ![t] = new]
    BY <1>1, <1>2, <1>4 DEF AttachSubscription
  <2>2. call' = [call EXCEPT ![c].op = "get_subscription",
                             ![c].stage = "calling"]
    BY <1>1, <1>2, <1>4 DEF AttachSubscription
  <2>. QED BY <2>1, <2>2
<1>6. sub' = [sub EXCEPT ![s] = b]
  BY <1>0, <1>1, <1>2, <1>4 DEF AttachSubscription, AlwaysInv, LifecycleTypes
<1>7. UNCHANGED <<topics, Subs>>
  BY <1>1 DEF AttachSubscription, Subs
<1>8. /\ D \in TopicActors /\ D.attached = topic[t].attached
      /\ D.deleted = topic[t].deleted /\ D.tasks = topic[t].tasks
      /\ topic[t] \in TopicActors /\ sub[s] \in SubActors
      /\ topic \in [TopicId -> TopicActors] /\ sub \in [SubId -> SubActors]
  BY <1>0, TopicTakes DEF AlwaysInv, LifecycleTypes
<1>. HIDE DEF D
<1>9. /\ new.deleted = topic[t].deleted /\ new.tasks = topic[t].tasks
      /\ new.attached = [topic[t].attached EXCEPT ![n] = IF @ = None THEN s ELSE @]
  BY <1>8 DEF TopicActors
<1>10. /\ \A m \in SubNames \ {n} : new.attached[m] = topic[t].attached[m]
       /\ new.attached[n] = IF topic[t].attached[n] = None THEN s
                            ELSE topic[t].attached[n]
  BY <1>8, <1>9 DEF TopicActors
<1>11. /\ b.name = sub[s].name /\ b.topic = sub[s].topic
       /\ b.deleted = sub[s].deleted /\ b.step = sub[s].step /\ b.attached
  BY <1>8 DEF SubActors
<1>. HIDE DEF new, b
<1>12. /\ topic'[t] = new /\ \A x \in TopicId \ {t} : topic'[x] = topic[x]
  BY <1>5, <1>8
<1>13. /\ sub'[s] = b /\ \A x \in SubId \ {s} : sub'[x] = sub[x]
  BY <1>6, <1>8
<1>14. /\ \A d \in Clients \ {c} : call'[d] = call[d]
       /\ call'[c].op = "get_subscription" /\ call'[c].sub = s
       /\ call'[c].topic = t
  BY <1>0, <1>4, <1>5 DEF AlwaysInv, LifecycleTypes, Calls
<1>15. /\ ~sub[s].deleted
       /\ \A d \in Clients \ {c} : call[d].sub # s
  BY <1>4, Apart DEF PatientInv, CreatedAlone
<1>16. Held(t)
  BY <1>4 DEF Held
<1>17. topic'[t].attached[n] = s
  <2>1. SUFFICES ASSUME NEW y, y = topic[t].attached[n], y # None, y # s PROVE FALSE
    BY <1>10, <1>12
  <2>2. y \in Subs /\ sub[y].name = n
    BY <1>0, <2>1, SMTT(30) DEF AlwaysInv, OnList
  <2>3. subscriptions[n] = s
    BY <1>0, <1>4, <1>15 DEF AlwaysInv, Listed
  <2>4. sub[y].deleted /\ sub[y].step \notin Leaving
    BY <1>0, <2>1, <2>2, <2>3 DEF AlwaysInv, Listed
  <2>5. sub[y].step \notin Departing
    BY <2>4 DEF Leaving, Departing
  <2>. QED BY <1>16, <2>1, <2>2, <2>4, <2>5 DEF PatientInv, Left, Departing
<1>18. \A x \in Topics : Held(x)' => Held(x)
  <2>. SUFFICES ASSUME NEW x \in Topics, Held(x)' PROVE Held(x)
    OBVIOUS
  <2>1. CASE \E m \in TopicNames : topics'[m] = x
    BY <1>7, <2>1 DEF Held
  <2>2. CASE \E d \in Clients : call'[d].stage # "idle" /\ call'[d].topic = x
    BY <1>14, <1>16, <2>2, SMTT(30) DEF Held
  <2>3. CASE \E y \in SubId : sub'[y].topic = x /\ sub'[y].step \in Departing
    BY <1>11, <1>13, <2>3 DEF Held, Departing
  <2>. QED BY <2>1, <2>2, <2>3 DEF Held, Departing
<1>19. CreatedAlone'
  <2>. SUFFICES ASSUME NEW d \in Clients, call'[d].op = "create_subscription",
                       call'[d].sub # None
                PROVE  /\ ~sub'[call'[d].sub].deleted
                       /\ ~sub'[call'[d].sub].attached
                       /\ \A e \in Clients \ {d} : call'[e].sub # call'[d].sub
    BY DEF CreatedAlone
  <2>1. d # c
    BY <1>14
  <2>2. /\ call[d].op = "create_subscription" /\ call[d].sub # None
        /\ call'[d].sub = call[d].sub /\ call[d].sub \in SubId \ {s}
    BY <1>0, <1>14, <1>15, <2>1 DEF AlwaysInv, CallsTracked, Tracked, Numbered
  <2>3. ~sub'[call'[d].sub].deleted /\ ~sub'[call'[d].sub].attached
    BY <1>13, <2>2 DEF PatientInv, CreatedAlone
  <2>4. ASSUME NEW e \in Clients \ {d} PROVE call'[e].sub # call'[d].sub
    <3>1. call'[e].sub = call[e].sub
      BY <1>4, <1>14
    <3>. QED BY <2>2, <2>4, <3>1 DEF PatientInv, CreatedAlone
  <2>. QED BY <2>3, <2>4
<1>20. Left'
  <2>. SUFFICES ASSUME NEW x \in Subs, sub'[x].deleted, sub'[x].step \notin Departing,
                       NEW u \in TopicId, NEW m \in SubNames, Held(u)',
                       topic'[u].attached[m] = x
                PROVE  FALSE
    BY <1>7 DEF Left, Departing
  <2>1. x # s
    BY <1>11, <1>13, <1>15
  <2>2. sub'[x] = sub[x] /\ x \in SubId
    BY <1>0, <1>13, <2>1 DEF AlwaysInv, Numbered
  <2>3. topic[u].attached[m] = x
    BY <1>10, <1>12, <1>17, <2>1
  <2>4. u \in Topics
    <3>1. topic[u].attached[m] # None
      BY <2>2, <2>3, Apart
    <3>2. sub[topic[u].attached[m]].topic = u
      BY <1>0, <3>1 DEF AlwaysInv, OnList
    <3>. QED BY <1>0, <2>3, <3>2, SMTT(30) DEF AlwaysInv, Numbered
  <2>. QED BY <1>18, <2>2, <2>3, <2>4 DEF PatientInv, Left, Departing
<1>21. Stays'
  <2>. SUFFICES ASSUME NEW x \in Subs, sub'[x].attached, ~sub'[x].deleted
                PROVE  \/ topic'[sub'[x].topic].deleted
                       \/ topic'[sub'[x].topic].attached[sub'[x].name] = x
    BY <1>7 DEF Stays
  <2>1. CASE x = s
    BY <1>4, <1>11, <1>13, <1>17, <2>1
  <2>2. CASE x # s
    <3>1. /\ sub'[x] = sub[x] /\ x \in SubId /\ x # None /\ sub[x].topic \in TopicId
          /\ sub[x].name \in SubNames
      BY <1>0, <1>13, <2>2, Apart DEF AlwaysInv, Numbered
    <3>2. \/ topic[sub[x].topic].deleted
          \/ topic[sub[x].topic].attached[sub[x].name] = x
      BY <3>1 DEF PatientInv, Stays
    <3>3. CASE sub[x].topic # t
      BY <1>12, <3>1, <3>2, <3>3
    <3>4. CASE sub[x].topic = t
      <4>1. topic[t].attached[sub[x].name] = x => new.attached[sub[x].name] = x
        BY <1>10, <3>1
      <4>. QED BY <1>9, <1>12, <3>1, <3>2, <3>4, <4>1
    <3>. QED BY <3>3, <3>4
  <2>. QED BY <2>1, <2>2
<1>22. PublishNeverFails'
  BY <1>9, <1>12, SMTT(30) DEF PatientInv, PublishNeverFails
<1>. QED BY <1>19, <1>20, <1>21, <1>22 DEF PatientInv

\* The topic that removes a subscription keeps PatientInv: the deleted one
\* leaves the list.
LEMMA RemoveSubscriptionPatient ==
  ASSUME PatientInv, AlwaysInv', Patient, NEW t \in TopicId,
         topic[t].mailbox # << >>, Head(topic[t].mailbox).op = "remove",
         UNCHANGED sub_next_id
  PROVE  RemoveSubscription(t) => PatientInv'
<1>0. AlwaysInv
  BY DEF PatientInv
<1>1. SUFFICES ASSUME RemoveSubscription(t) PROVE PatientInv'
  OBVIOUS
<1>2. PICK h : h = Head(topic[t].mailbox)
  OBVIOUS
<1>3. OfSub(h, t)
  BY <1>0, <1>2, TopicTakes
<1>4. PICK s \in SubId, n \in SubNames :
        /\ s = h.from /\ n = sub[s].name /\ s \in Subs
        /\ sub[s].step = "asked" /\ sub[s].topic = t
  BY <1>0, <1>3 DEF OfSub, AlwaysInv, Numbered
<1>. DEFINE D == Dequeue(topic[t])
            new == [D EXCEPT !.attached[n] = None]
            b == [sub[s] EXCEPT !.step = "freeing"]
<1>5. topic' = [topic EXCEPT ![t] = new]
  BY <1>1, <1>2, <1>4 DEF RemoveSubscription
<1>6. sub' = [sub EXCEPT ![s] = b]
  BY <1>0, <1>1, <1>2, <1>4 DEF RemoveSubscription, AlwaysInv, LifecycleTypes
<1>7. UNCHANGED <<topics, call, Subs>>
  BY <1>1 DEF RemoveSubscription, Subs
<1>8. /\ D \in TopicActors /\ D.attached = topic[t].attached
      /\ D.deleted = topic[t].deleted /\ D.tasks = topic[t].tasks
      /\ topic[t] \in TopicActors /\ sub[s] \in SubActors
      /\ topic \in [TopicId -> TopicActors] /\ sub \in [SubId -> SubActors]
  BY <1>0, TopicTakes DEF AlwaysInv, LifecycleTypes
<1>. HIDE DEF D
<1>9. /\ new.deleted = topic[t].deleted /\ new.tasks = topic[t].tasks
      /\ new.attached = [topic[t].attached EXCEPT ![n] = None]
  BY <1>8 DEF TopicActors
<1>10. /\ \A m \in SubNames \ {n} : new.attached[m] = topic[t].attached[m]
       /\ new.attached[n] = None
  BY <1>8, <1>9 DEF TopicActors
<1>11. /\ b.name = sub[s].name /\ b.topic = sub[s].topic
       /\ b.deleted = sub[s].deleted /\ b.attached = sub[s].attached
       /\ b.step = "freeing"
  BY <1>8 DEF SubActors
<1>. HIDE DEF new, b
<1>12. /\ topic'[t] = new /\ \A x \in TopicId \ {t} : topic'[x] = topic[x]
  BY <1>5, <1>8
<1>13. /\ sub'[s] = b /\ \A x \in SubId \ {s} : sub'[x] = sub[x]
  BY <1>6, <1>8
<1>14. NamesSame /\ CallsSame
  BY <1>7 DEF NamesSame, CallsSame, Goes
<1>15. \A x \in SubId : /\ sub'[x].topic = sub[x].topic
                        /\ sub'[x].deleted = sub[x].deleted
                        /\ sub'[x].attached = sub[x].attached
                        /\ sub'[x].step \in Departing => sub[x].step \in Departing
  BY <1>11, <1>13 DEF Departing
<1>16. \A x \in Topics : Held(x)' => Held(x)
  BY <1>0, <1>14, <1>15, HeldKept
<1>17. CreatedAlone'
  BY <1>0, <1>14, <1>15, CreatedAloneKept DEF PatientInv
<1>18. Left'
  <2>. SUFFICES ASSUME NEW x \in Subs, sub'[x].deleted, sub'[x].step \notin Departing,
                       NEW u \in TopicId, NEW m \in SubNames, Held(u)',
                       topic'[u].attached[m] = x
                PROVE  FALSE
    BY <1>7 DEF Left, Departing
  <2>1. topic[u].attached[m] = x /\ topic[u].attached[m] # None /\ x \in SubId
        /\ (u # t \/ m # n)
    BY <1>0, <1>10, <1>12, Apart, SMTT(30) DEF AlwaysInv, Numbered
  <2>2. sub[x].name = m /\ sub[x].topic = u
    BY <1>0, <2>1, SMTT(30) DEF AlwaysInv, OnList
  <2>3. x # s /\ u \in Topics
    BY <1>0, <1>4, <2>1, <2>2 DEF AlwaysInv, Numbered
  <2>. QED BY <1>13, <1>16, <2>1, <2>3 DEF PatientInv, Left, Departing
<1>19. Stays'
  <2>. SUFFICES ASSUME NEW x \in Subs, sub'[x].attached, ~sub'[x].deleted
                PROVE  \/ topic'[sub'[x].topic].deleted
                       \/ topic'[sub'[x].topic].attached[sub'[x].name] = x
    BY <1>7 DEF Stays
  <2>1. x \in SubId /\ sub[x].topic \in TopicId /\ sub[x].name \in SubNames
    BY <1>0 DEF AlwaysInv, Numbered
  <2>2. sub[s].deleted
    BY <1>0, <1>4 DEF AlwaysInv, Deletions
  <2>3. x # s /\ sub'[x] = sub[x]
    BY <1>13, <1>15, <2>1, <2>2
  <2>4. \/ topic[sub[x].topic].deleted
        \/ topic[sub[x].topic].attached[sub[x].name] = x
    BY <2>3 DEF PatientInv, Stays
  <2>5. sub[x].name # n
    <3>1. subscriptions[n] = s
      BY <1>0, <1>4 DEF AlwaysInv, Listed, Leaving
    <3>2. subscriptions[sub[x].name] = x
      BY <1>0, <2>3 DEF AlwaysInv, Listed
    <3>. QED BY <2>3, <3>1, <3>2
  <2>6. CASE sub[x].topic = t
    <3>1. /\ topic'[t].deleted = topic[t].deleted
          /\ topic'[t].attached[sub[x].name] = topic[t].attached[sub[x].name]
      BY <1>9, <1>10, <1>12, <2>1, <2>5
    <3>. QED BY <2>3, <2>4, <2>6, <3>1
  <2>7. CASE sub[x].topic # t
    BY <1>12, <2>1, <2>3, <2>4, <2>7
  <2>. QED BY <2>6, <2>7
<1>20. PublishNeverFails'
  BY <1>9, <1>12, SMTT(30) DEF PatientInv, PublishNeverFails
<1>. QED BY <1>17, <1>18, <1>19, <1>20 DEF PatientInv

\* Deleting a topic keeps PatientInv: its list becomes empty.
LEMMA DeleteTopicPatient ==
  ASSUME PatientInv, AlwaysInv', Patient, NEW t \in TopicId,
         topic[t].mailbox # << >>, Head(topic[t].mailbox).op = "delete_topic",
         UNCHANGED sub_next_id
  PROVE  DeleteTopic(t) => PatientInv'
<1>0. AlwaysInv
  BY DEF PatientInv
<1>1. SUFFICES ASSUME DeleteTopic(t) PROVE PatientInv'
  OBVIOUS
<1>2. CASE topic[t].deleted
  <2>1. GetTopicInfo(t)
    BY <1>1, <1>2 DEF DeleteTopic, GetTopicInfo, AlreadyDeleted
  <2>. QED BY <1>0, <2>1, GetTopicInfoQuiet, PatientQuiet
<1>3. CASE ~topic[t].deleted
  <2>1. PICK h : h = Head(topic[t].mailbox)
    OBVIOUS
  <2>2. h.from \in Clients /\ t \in Topics
    BY <1>0, <2>1, TopicTakes DEF OfCall
  <2>. DEFINE D == Dequeue(topic[t])
              new == [D EXCEPT !.deleted = TRUE,
                               !.attached = [n \in SubNames |-> None]]
  <2>3. /\ topic' = [topic EXCEPT ![t] = new]
        /\ topics' = [topics EXCEPT ![topic[t].name] = None]
        /\ Return(h.from, "ok")
    BY <1>1, <1>3, <2>1 DEF DeleteTopic, AlreadyDeleted
  <2>4. UNCHANGED <<sub, Subs>>
    BY <1>1 DEF DeleteTopic, Subs
  <2>5. /\ D \in TopicActors /\ D.tasks = topic[t].tasks
        /\ topic \in [TopicId -> TopicActors]
    BY <1>0, TopicTakes DEF AlwaysInv, LifecycleTypes
  <2>. HIDE DEF D
  <2>6. /\ new.deleted /\ new.tasks = topic[t].tasks
        /\ \A n \in SubNames : new.attached[n] = None
    BY <2>5 DEF TopicActors
  <2>. HIDE DEF new
  <2>7. /\ topic'[t] = new /\ \A x \in TopicId \ {t} : topic'[x] = topic[x]
    BY <2>3, <2>5
  <2>8. NamesSame
    BY <1>0, <2>3 DEF NamesSame, AlwaysInv, LifecycleTypes
  <2>9. CallsSame
    BY <1>0, <2>2, <2>3, ReturnQuiet DEF CallsSame, Results
  <2>10. \A x \in Topics : Held(x)' => Held(x)
    BY <1>0, <2>4, <2>8, <2>9, HeldKept
  <2>11. CreatedAlone'
    BY <1>0, <2>4, <2>9, CreatedAloneKept DEF PatientInv
  <2>12. Left'
    <3>. SUFFICES ASSUME NEW x \in Subs, sub[x].deleted, sub[x].step \notin Departing,
                         NEW u \in TopicId, NEW m \in SubNames, Held(u)',
                         topic'[u].attached[m] = x
                  PROVE  FALSE
      BY <2>4 DEF Left, Departing
    <3>1. topic[u].attached[m] = x /\ topic[u].attached[m] # None
      BY <1>0, <2>6, <2>7, Apart, SMTT(30) DEF AlwaysInv, Numbered
    <3>2. sub[topic[u].attached[m]].topic = u
      BY <1>0, <3>1 DEF AlwaysInv, OnList
    <3>3. u \in Topics
      BY <1>0, <3>1, <3>2, SMTT(30) DEF AlwaysInv, Numbered
    <3>. QED BY <2>10, <3>1, <3>3 DEF PatientInv, Left, Departing
  <2>13. Stays'
    <3>. SUFFICES ASSUME NEW x \in Subs, sub[x].attached, ~sub[x].deleted
                  PROVE  \/ topic'[sub[x].topic].deleted
                         \/ topic'[sub[x].topic].attached[sub[x].name] = x
      BY <2>4 DEF Stays
    <3>1. sub[x].topic \in TopicId
      BY <1>0 DEF AlwaysInv, Numbered
    <3>. QED BY <2>6, <2>7, <3>1 DEF PatientInv, Stays
  <2>14. PublishNeverFails'
    BY <2>6, <2>7, SMTT(30) DEF PatientInv, PublishNeverFails
  <2>. QED BY <2>11, <2>12, <2>13, <2>14 DEF PatientInv
<1>. QED BY <1>2, <1>3

\* A subscription that begins its deletion keeps PatientInv: it asks the
\* topic that lists it to let it go.
LEMMA DeletePatient ==
  ASSUME PatientInv, AlwaysInv', Patient, NEW s \in SubId,
         sub[s].step = "idle", sub[s].mailbox # << >>,
         Head(sub[s].mailbox).op = "delete_subscription",
         UNCHANGED <<topics, sub_next_id, topic>>
  PROVE  Delete(s) => PatientInv'
<1>0. AlwaysInv
  BY DEF PatientInv
<1>1. SUFFICES ASSUME Delete(s) PROVE PatientInv'
  OBVIOUS
<1>2. CASE sub[s].deleted
  <2>1. GetInfo(s)
    BY <1>1, <1>2 DEF Delete, GetInfo
  <2>. QED BY <1>0, <2>1, GetInfoQuiet, PatientQuiet
<1>3. CASE ~sub[s].deleted
  <2>1. PICK h : h = Head(sub[s].mailbox)
    OBVIOUS
  <2>2. PICK e \in Clients :
          e = h.from /\ call[e].op = "delete_subscription" /\ call[e].sub = s
    BY <1>0, <2>1, SubTakes, SMTT(30) DEF FromCall
  <2>3. PICK step \in {"asking", "freeing"} :
          step = FirstStep(s) /\ (Held(sub[s].topic) <=> step = "asking")
    BY DEF FirstStep
  <2>. DEFINE D == Dequeue(sub[s])
              new == [D EXCEPT !.deleted = TRUE, !.caller = h.from, !.step = step]
  <2>4. sub' = [sub EXCEPT ![s] = new] /\ UNCHANGED <<call, Subs>>
    BY <1>1, <1>3, <2>1, <2>3 DEF Delete, Subs
  <2>5. /\ D \in SubActors /\ D.name = sub[s].name /\ D.topic = sub[s].topic
        /\ D.attached = sub[s].attached /\ sub \in [SubId -> SubActors]
    BY <1>0, <2>1, SubTakes DEF AlwaysInv, LifecycleTypes
  <2>. HIDE DEF D
  <2>6. /\ new.name = sub[s].name /\ new.topic = sub[s].topic /\ new.deleted
        /\ new.attached = sub[s].attached /\ new.step = step
    BY <2>5 DEF SubActors
  <2>. HIDE DEF new
  <2>7. sub'[s] = new /\ \A x \in SubId \ {s} : sub'[x] = sub[x]
    BY <2>4, <2>5
  <2>8. NamesSame /\ CallsSame
    BY <2>4 DEF NamesSame, CallsSame, Goes
  <2>9. \A x \in SubId : sub'[x].step \in Departing =>
           /\ sub'[x].topic = sub[x].topic
           /\ sub[x].step \in Departing \/ Held(sub[x].topic)
    BY <2>3, <2>6, <2>7 DEF Departing
  <2>10. \A x \in Topics : Held(x)' => Held(x)
    BY <1>0, <2>8, <2>9, HeldKept
  <2>11. CreatedAlone'
    <3>. SUFFICES ASSUME NEW d \in Clients, call[d].op = "create_subscription",
                         call[d].sub # None
                  PROVE  /\ ~sub'[call[d].sub].deleted
                         /\ ~sub'[call[d].sub].attached
                         /\ \A c \in Clients \ {d} : call[c].sub # call[d].sub
      BY <2>4 DEF CreatedAlone
    <3>1. /\ ~sub[call[d].sub].deleted /\ ~sub[call[d].sub].attached
          /\ \A c \in Clients \ {d} : call[c].sub # call[d].sub
      BY DEF PatientInv, CreatedAlone
    <3>2. call[d].sub \in SubId \ {s}
      BY <1>0, <2>2, <3>1 DEF AlwaysInv, CallsTracked, Tracked, Numbered
    <3>. QED BY <2>7, <3>1, <3>2
  <2>12. Left'
    <3>. SUFFICES ASSUME NEW x \in Subs, sub'[x].deleted,
                         sub'[x].step \notin Departing,
                         NEW u \in TopicId, NEW m \in SubNames, Held(u)',
                         topic[u].attached[m] = x
                  PROVE  FALSE
      BY <2>4 DEF Left, Departing
    <3>1. topic[u].attached[m] # None /\ x \in SubId
      BY <1>0, Apart DEF AlwaysInv, Numbered
    <3>2. sub[x].topic = u
      BY <1>0, <3>1, SMTT(30) DEF AlwaysInv, OnList
    <3>3. Held(u)
      BY <1>0, <2>10, <3>2 DEF AlwaysInv, Numbered
    <3>4. CASE x = s
      BY <2>3, <2>6, <2>7, <3>2, <3>3, <3>4 DEF Departing
    <3>5. CASE x # s
      BY <2>7, <3>1, <3>3, <3>5 DEF PatientInv, Left, Departing
    <3>. QED BY <3>4, <3>5
  <2>13. Stays'
    <3>. SUFFICES ASSUME NEW x \in Subs, sub'[x].attached, ~sub'[x].deleted
                  PROVE  \/ topic[sub'[x].topic].deleted
                         \/ topic[sub'[x].topic].attached[sub'[x].name] = x
      BY <2>4 DEF Stays
    <3>1. sub'[x] = sub[x]
      BY <1>0, <2>6, <2>7 DEF AlwaysInv, Numbered
    <3>. QED BY <3>1 DEF PatientInv, Stays
  <2>14. PublishNeverFails'
    BY DEF PatientInv, PublishNeverFails
  <2>. QED BY <2>11, <2>12, <2>13, <2>14 DEF PatientInv
<1>. QED BY <1>2, <1>3

\* No post finds its subscription stopped: the topic is held while it publishes.
LEMMA PostPatient ==
  ASSUME PatientInv, AlwaysInv', Patient, NEW t \in TopicId, NEW s \in SubId
  PROVE  Post(t, s) => PatientInv'
<1>0. AlwaysInv
  BY DEF PatientInv
<1>1. SUFFICES ASSUME Post(t, s) PROVE PatientInv'
  OBVIOUS
<1>2. PICK k \in DOMAIN topic[t].tasks, outcome \in {"done", "failed"} :
        /\ k[1] = s
        /\ topic' = [topic EXCEPT ![t].tasks[k] = outcome]
        /\ \/ /\ outcome = "done"
              /\ sub' = [sub EXCEPT ![s] =
                   Enqueue(sub[s], [Request("post", None) EXCEPT !.id = k[2]])]
           \/ outcome = "failed" /\ ~sub[s].running
  <2>1. sub \in [SubId -> SubActors]
    BY <1>0 DEF AlwaysInv, LifecycleTypes
  <2>. QED BY <1>1, <2>1 DEF Post
<1>3. UNCHANGED <<topics, call, Subs>>
  BY <1>1 DEF Post, Subs
<1>4. /\ topic[t].publishing # None /\ k[1] \in Attached(t) /\ k[1] \in Subs
      /\ k[2] \in Nat
  <2>1. topic' = [topic EXCEPT ![t].tasks[k] = outcome]
    BY <1>2
  <2>2. /\ topic[t].publishing # None /\ k[1] \in Attached(t) /\ k[1] \in Subs
        /\ k = <<k[1], LastId(t)>> /\ LastId(t) \in Nat
    BY <1>0, <2>1, Settled
  <2>. QED BY <2>2, SMTT(30)
<1>5. outcome = "done"
  <2>1. SUFFICES ASSUME ~sub[s].running PROVE FALSE
    BY <1>2
  <2>2. sub[s].deleted /\ sub[s].step \notin Leaving
    BY <1>0, <1>2, <1>4, <2>1 DEF AlwaysInv, Deletions
  <2>3. Held(t)
    <3>1. TopicRequestsOf(t) /\ topic[t] \in TopicActors
      BY <1>0 DEF AlwaysInv, TopicRequests, LifecycleTypes
    <3>2. topic[t].publishing \in Clients
      BY <1>4, <3>1 DEF TopicActors
    <3>3. /\ call[topic[t].publishing].stage = "awaiting"
          /\ call[topic[t].publishing].topic = t
      BY <1>4, <3>1 DEF TopicRequestsOf
    <3>. QED BY <3>2, <3>3 DEF Held
  <2>4. PICK m \in SubNames : topic[t].attached[m] = s
    BY <1>2, <1>4 DEF Attached
  <2>. QED BY <1>2, <1>4, <2>2, <2>3, <2>4 DEF PatientInv, Left, Leaving
<1>6. /\ \A x \in TopicId : /\ topic'[x].attached = topic[x].attached
                            /\ topic'[x].deleted = topic[x].deleted
      /\ \A x \in TopicId \ {t} : topic'[x] = topic[x]
  <2>1. topic' = [topic EXCEPT ![t].tasks[k] = outcome]
    BY <1>2
  <2>. QED BY <1>0, <2>1, Settled
<1>7. \A j \in DOMAIN topic'[t].tasks : topic'[t].tasks[j] = "failed" =>
        j \in DOMAIN topic[t].tasks /\ topic[t].tasks[j] = "failed"
  <2>. DEFINE jobs == [topic[t].tasks EXCEPT ![k] = outcome]
  <2>1. topic \in [TopicId -> TopicActors] /\ topic[t] \in TopicActors
    BY <1>0 DEF AlwaysInv, LifecycleTypes
  <2>2. topic'[t] = [topic[t] EXCEPT !.tasks = jobs]
    BY <1>2, <2>1
  <2>3. topic'[t].tasks = jobs
    <3>. HIDE DEF jobs
    <3>. QED BY <2>1, <2>2 DEF TopicActors
  <2>. QED BY <1>5, <2>3
<1>8. TopicsSame
  BY <1>6, <1>7 DEF TopicsSame
<1>9. SubsSame
  <2>. DEFINE r == [Request("post", None) EXCEPT !.id = k[2]]
              b == Enqueue(sub[s], r)
  <2>1. r \in Requests
    BY <1>4 DEF Request, Requests
  <2>2. sub' = [sub EXCEPT ![s] = b] /\ sub[s] \in SubActors
        /\ sub \in [SubId -> SubActors]
    BY <1>0, <1>2, <1>5 DEF AlwaysInv, LifecycleTypes
  <2>. HIDE DEF r
  <2>3. /\ b.name = sub[s].name /\ b.topic = sub[s].topic
        /\ b.deleted = sub[s].deleted /\ b.attached = sub[s].attached
        /\ b.step = sub[s].step
    BY <2>1, <2>2, SubEnqueued
  <2>. HIDE DEF b
  <2>. QED BY <2>2, <2>3 DEF SubsSame
<1>10. Quiet
  BY <1>3, <1>8, <1>9 DEF Quiet, NamesSame, Goes
<1>. QED BY <1>10, PatientQuiet

\* Initially nothing exists and nobody calls.
LEMMA InitPatient == LifecycleInit => PatientInv
<1>1. SUFFICES ASSUME LifecycleInit PROVE PatientInv
  OBVIOUS
<1>2. AlwaysInv
  BY <1>1, InitAlways
<1>3. Subs = {} /\ \A c \in Clients : call[c].sub = None
  BY <1>1, SMTT(30) DEF LifecycleInit, Subs, Idle
<1>4. \A t \in TopicId : DOMAIN topic[t].tasks = {}
  BY <1>1 DEF LifecycleInit, NoTopic, NoTasks
<1>. QED BY <1>2, <1>3, <1>4
            DEF PatientInv, CreatedAlone, Left, Stays, PublishNeverFails

\* A creation that has reached the manager still has a number to take.
RoomToCreate ==
  \A c \in Clients : call[c].stage = "creating" => sub_next_id + 1 \in SubId

\* Every step keeps PatientInv when callers are patient.
LEMMA StepPatient ==
  ASSUME PatientInv, AlwaysInv', Patient, RoomToCreate, [LifecycleNext]_vars
  PROVE  PatientInv'
<1>0. AlwaysInv
  BY DEF PatientInv
<1>1. ASSUME NEW c \in Clients, Begin(c)
      PROVE  PatientInv'
  <2>1. ASSUME NEW n \in TopicNames, CreateTopic(c, n) PROVE PatientInv'
    BY <1>0, <2>1, CreateTopicQuiet, PatientQuiet
  <2>2. ASSUME NEW n \in TopicNames, NEW op \in {"publish", "delete_topic", "get_topic"},
               CallTopic(c, op, n)
        PROVE  PatientInv'
    BY <1>0, <2>2, CallTopicQuiet, PatientQuiet
  <2>3. ASSUME NEW n \in TopicNames, NEW m \in SubNames,
               NEW config \in Configs \cup {None}, CreateSubscription(c, m, n, config)
        PROVE  PatientInv'
    BY <1>0, <2>3, CreateSubscriptionQuiet, PatientQuiet
  <2>4. ASSUME NEW n \in SubNames, NEW op \in SubOps,
               NEW config \in Configs \cup {None}, CallSubscription(c, op, n, config)
        PROVE  PatientInv'
    <3>1. UNCHANGED <<topics, topic, sub, Subs>> /\ CallsSame
      BY <1>0, <2>4, CallSubscriptionQuiet
    <3>2. SubsSame /\ TopicsSame /\ NamesSame
      BY <3>1 DEF SubsSame, TopicsSame, NamesSame
    <3>. QED BY <3>1, <3>2, QuietKept
  <2>. QED BY <1>1, <2>1, <2>2, <2>3, <2>4 DEF Begin, SubOps
<1>2. ASSUME NEW c \in Clients, InsertSubscription(c) \/ Send(c) PROVE PatientInv'
  <2>1. CASE InsertSubscription(c)
    <3>1. sub_next_id + 1 \in SubId
      BY <2>1 DEF InsertSubscription, RoomToCreate
    <3>. QED BY <2>1, <3>1, InsertSubscriptionPatient
  <2>2. CASE Send(c)
    BY <1>0, <2>2, SendQuiet, PatientQuiet
  <2>. QED BY <1>2, <2>1, <2>2
<1>3. ASSUME NEW t \in TopicId, TopicReceive(t) PROVE PatientInv'
  <2>1. topic[t].mailbox # << >> /\ UNCHANGED sub_next_id
    BY <1>3 DEF TopicReceive
  <2>2. CASE Head(topic[t].mailbox).op = "publish" /\ PublishMessages(t)
    BY <1>0, <2>1, <2>2, PublishMessagesQuiet, PatientQuiet
  <2>3. CASE Head(topic[t].mailbox).op = "create_subscription" /\ AttachSubscription(t)
    BY <2>1, <2>3, AttachSubscriptionPatient
  <2>4. CASE Head(topic[t].mailbox).op = "remove" /\ RemoveSubscription(t)
    BY <2>1, <2>4, RemoveSubscriptionPatient
  <2>5. CASE Head(topic[t].mailbox).op = "delete_topic" /\ DeleteTopic(t)
    BY <2>1, <2>5, DeleteTopicPatient
  <2>6. CASE Head(topic[t].mailbox).op = "get_topic" /\ GetTopicInfo(t)
    BY <1>0, <2>1, <2>6, GetTopicInfoQuiet, PatientQuiet
  <2>. QED BY <1>3, <2>2, <2>3, <2>4, <2>5, <2>6 DEF TopicReceive
<1>4. ASSUME NEW t \in TopicId, Join(t) PROVE PatientInv'
  BY <1>0, <1>4, JoinQuiet, PatientQuiet
<1>5. ASSUME NEW t \in TopicId, NEW s \in SubId, Post(t, s) PROVE PatientInv'
  BY <1>5, PostPatient
<1>6. ASSUME NEW s \in SubId, SubReceive(s) PROVE PatientInv'
  <2>1. sub[s].step = "idle" /\ sub[s].mailbox # << >>
        /\ UNCHANGED <<topics, sub_next_id, topic>>
    BY <1>6 DEF SubReceive
  <2>2. CASE PostMessages(s)
    BY <1>0, <2>1, <2>2, PostMessagesQuiet, PatientQuiet
  <2>3. CASE Head(sub[s].mailbox).op = "get_subscription" /\ GetInfo(s)
    BY <1>0, <2>1, <2>3, GetInfoQuiet, PatientQuiet
  <2>4. CASE Head(sub[s].mailbox).op = "modify_push_config" /\ ModifyPushConfig(s)
    BY <1>0, <2>1, <2>4, ModifyPushConfigQuiet, PatientQuiet
  <2>5. CASE Head(sub[s].mailbox).op = "delete_subscription" /\ Delete(s)
    BY <2>1, <2>5, DeletePatient
  <2>. QED BY <1>6, <2>2, <2>3, <2>4, <2>5 DEF SubReceive
<1>7. ASSUME NEW s \in SubId,
             AskTopic(s) \/ FreeName(s) \/ Unregister(s) \/ Stop(s)
      PROVE  PatientInv'
  BY <1>0, <1>7, AskTopicQuiet, FreeNameQuiet, UnregisterQuiet, StopQuiet,
     PatientQuiet
<1>8. ASSUME UNCHANGED vars PROVE PatientInv'
  BY <1>8, PatientQuiet
     DEF vars, Quiet, SubsSame, TopicsSame, NamesSame, Goes, Subs
<1>. QED BY <1>1, <1>2, <1>3, <1>4, <1>5, <1>6, <1>7, <1>8
            DEF LifecycleNext, Serve

-----------------------------------------------------------------------------
\* The push registry.
LEMMA RegistryKept ==
  ASSUME AlwaysInv, RegistryFollows, UNCHANGED <<registry, subscriptions, Subs>>,
         \A x \in SubId : /\ sub'[x].name = sub[x].name
                          /\ sub'[x].deleted = sub[x].deleted
                          /\ sub'[x].push_config = sub[x].push_config
  PROVE  RegistryFollows'
<1>. SUFFICES ASSUME NEW n \in SubNames,
                     \A x \in Subs : sub'[x].name = n => ~sub'[x].deleted
              PROVE  registry[n] # None <=> /\ subscriptions[n] # None
                                            /\ sub'[subscriptions[n]].push_config # None
  BY DEF RegistryFollows, Subs
<1>1. \A x \in Subs : x \in SubId
  BY DEF AlwaysInv, Numbered
<1>2. \A x \in Subs : sub[x].name = n => ~sub[x].deleted
  BY <1>1
<1>3. registry[n] # None <=> /\ subscriptions[n] # None
                             /\ sub[subscriptions[n]].push_config # None
  BY <1>2 DEF RegistryFollows, Subs
<1>4. subscriptions[n] # None => subscriptions[n] \in SubId
  BY <1>1 DEF AlwaysInv, Numbered
<1>. QED BY <1>3, <1>4

\* Steps that leave subscriptions and their configurations alone leave the
\* registry right.
LEMMA RegistryQuiet ==
  ASSUME AlwaysInv, RegistryFollows, Quiet, ConfigsSame,
         UNCHANGED <<registry, subscriptions>>
  PROVE  RegistryFollows'
BY RegistryKept DEF Quiet, SubsSame, ConfigsSame

\* A step about a subscription that is, or gets, deleted.
LEMMA RegistryOfDeleted ==
  ASSUME AlwaysInv, RegistryFollows, UNCHANGED Subs, NEW s \in Subs,
         sub'[s].deleted,
         \A x \in SubId : sub'[x].name = sub[x].name,
         \A x \in SubId \ {s} : /\ sub'[x].deleted = sub[x].deleted
                                /\ sub'[x].push_config = sub[x].push_config,
         \A n \in SubNames \ {sub[s].name} :
           registry'[n] = registry[n] /\ subscriptions'[n] = subscriptions[n]
  PROVE  RegistryFollows'
<1>. SUFFICES ASSUME NEW n \in SubNames,
                     \A x \in Subs : sub'[x].name = n => ~sub'[x].deleted
              PROVE  registry'[n] # None <=>
                       /\ subscriptions'[n] # None
                       /\ sub'[subscriptions'[n]].push_config # None
  BY DEF RegistryFollows, Subs
<1>1. \A x \in Subs : x \in SubId
  BY DEF AlwaysInv, Numbered
<1>2. n # sub[s].name
  BY <1>1
<1>3. \A x \in Subs : sub[x].name = n => ~sub[x].deleted
  BY <1>1, <1>2
<1>4. registry[n] # None <=> /\ subscriptions[n] # None
                             /\ sub[subscriptions[n]].push_config # None
  BY <1>3 DEF RegistryFollows, Subs
<1>5. subscriptions[n] # None => subscriptions[n] \in SubId \ {s}
  BY <1>1, <1>2, SMTT(30) DEF AlwaysInv, Numbered
<1>. QED BY <1>2, <1>4, <1>5

\* modify_push_config sets the configuration and then the registry, in one
\* handler.
LEMMA ModifyPushConfigRegistry ==
  ASSUME AlwaysInv, RegistryFollows, NEW s \in SubId, sub[s].mailbox # << >>,
         Head(sub[s].mailbox).op # "post", UNCHANGED <<subscriptions, sub_next_id>>
  PROVE  ModifyPushConfig(s) => RegistryFollows'
<1>1. SUFFICES ASSUME ModifyPushConfig(s) PROVE RegistryFollows'
  OBVIOUS
<1>2. PICK h : h = Head(sub[s].mailbox)
  OBVIOUS
<1>. DEFINE D == Dequeue(sub[s])
            new == [D EXCEPT !.push_config = h.push_config]
<1>3. sub' = [sub EXCEPT ![s] = new]
  BY <1>1, <1>2 DEF ModifyPushConfig
<1>4. registry' = RegistrySet(sub[s].name, h.push_config) /\ UNCHANGED Subs
  BY <1>1, <1>2 DEF ModifyPushConfig, Subs
<1>5. /\ D \in SubActors /\ D.name = sub[s].name /\ D.deleted = sub[s].deleted
      /\ sub \in [SubId -> SubActors] /\ s \in Subs
  BY <1>2, SubTakes DEF AlwaysInv, LifecycleTypes
<1>. HIDE DEF D
<1>6. /\ new.name = sub[s].name /\ new.deleted = sub[s].deleted
      /\ new.push_config = h.push_config
  BY <1>5 DEF SubActors
<1>. HIDE DEF new
<1>7. sub'[s] = new /\ \A x \in SubId \ {s} : sub'[x] = sub[x]
  BY <1>3, <1>5
<1>8. /\ sub[s].name \in SubNames
      /\ registry'[sub[s].name] = None <=> h.push_config = None
      /\ \A n \in SubNames \ {sub[s].name} : registry'[n] = registry[n]
  <2>1. sub[s].name \in SubNames
    BY <1>5 DEF AlwaysInv, Numbered
  <2>2. registry \in [SubNames -> Configs \cup {None}]
    BY DEF AlwaysInv, LifecycleTypes
  <2>. QED BY <1>4, <2>1, <2>2 DEF RegistrySet
<1>9. CASE sub[s].deleted
  BY <1>4, <1>5, <1>6, <1>7, <1>8, <1>9, RegistryOfDeleted
<1>10. CASE ~sub[s].deleted
  <2>. SUFFICES ASSUME NEW n \in SubNames,
                       \A x \in Subs : sub'[x].name = n => ~sub'[x].deleted
                PROVE  registry'[n] # None <=>
                         /\ subscriptions[n] # None
                         /\ sub'[subscriptions[n]].push_config # None
    BY <1>4 DEF RegistryFollows, Subs
  <2>1. \A x \in Subs : x \in SubId
    BY DEF AlwaysInv, Numbered
  <2>2. CASE n = sub[s].name
    <3>1. subscriptions[n] = s /\ s # None
      BY <1>5, <1>10, <2>2, Apart DEF AlwaysInv, Listed
    <3>. QED BY <1>6, <1>7, <1>8, <2>2, <3>1
  <2>3. CASE n # sub[s].name
    <3>1. \A x \in Subs : sub[x].name = n => ~sub[x].deleted
      BY <1>6, <1>7, <2>1
    <3>2. registry[n] # None <=> /\ subscriptions[n] # None
                                 /\ sub[subscriptions[n]].push_config # None
      BY <3>1 DEF RegistryFollows, Subs
    <3>3. subscriptions[n] # None => subscriptions[n] \in SubId \ {s}
      BY <2>1, <2>3 DEF AlwaysInv, Numbered
    <3>. QED BY <1>7, <1>8, <2>3, <3>2, <3>3
  <2>. QED BY <2>2, <2>3
<1>. QED BY <1>9, <1>10

\* create_subscription enters the push configuration of the new
\* subscription in the registry.
LEMMA InsertSubscriptionRegistry ==
  ASSUME AlwaysInv, RegistryFollows, NEW c \in Clients, sub_next_id + 1 \in SubId
  PROVE  InsertSubscription(c) => RegistryFollows'
<1>1. SUFFICES ASSUME InsertSubscription(c) PROVE RegistryFollows'
  OBVIOUS
<1>. PICK config : config = call[c].push_config
  OBVIOUS
<1>2. PICK n \in SubNames, s \in SubId :
        n = call[c].name /\ s = sub_next_id + 1 /\ config = call[c].push_config
  BY <1>1 DEF AlwaysInv, CallsTracked, Tracked, InsertSubscription
<1>3. CASE subscriptions[n] # None
  <2>1. UNCHANGED <<sub, subscriptions, registry, Subs>>
    BY <1>1, <1>2, <1>3 DEF InsertSubscription, Subs
  <2>. QED BY <2>1, RegistryKept
<1>4. CASE subscriptions[n] = None
  <2>. DEFINE new == [NoSub EXCEPT !.name = n, !.topic = call[c].topic,
                              !.push_config = config, !.running = TRUE]
  <2>1. /\ sub_next_id' = s
        /\ subscriptions' = [subscriptions EXCEPT ![n] = s]
        /\ registry' = IF config = None THEN registry ELSE RegistrySet(n, config)
    BY <1>1, <1>2, <1>4 DEF InsertSubscription
  <2>2. sub' = [sub EXCEPT ![s] = new]
    BY <1>1, <1>2, <1>4 DEF InsertSubscription
  <2>3. new.name = n /\ new.push_config = config
    BY DEF NoSub
  <2>. HIDE DEF new
  <2>4. /\ sub'[s] = new /\ \A x \in SubId \ {s} : sub'[x] = sub[x]
    BY <2>2 DEF AlwaysInv, LifecycleTypes
  <2>5. /\ Subs' = Subs \cup {s} /\ s \notin Subs /\ s # None
        /\ \A x \in Subs : x \in SubId \ {s}
    BY <1>2, <2>1, Apart, SMTT(30)
       DEF Subs, AlwaysInv, LifecycleTypes, Numbered
  <2>6. /\ subscriptions'[n] = s
        /\ \A m \in SubNames \ {n} : subscriptions'[m] = subscriptions[m]
        /\ \A m \in SubNames \ {n} : registry'[m] = registry[m]
        /\ config # None => registry'[n] # None
        /\ config = None => registry'[n] = registry[n]
    <3>1. /\ registry \in [SubNames -> Configs \cup {None}]
          /\ subscriptions \in [SubNames -> SubId \cup {None}]
      BY DEF AlwaysInv, LifecycleTypes
    <3>. QED BY <2>1, <3>1 DEF RegistrySet
  <2>. SUFFICES ASSUME NEW m \in SubNames,
                       \A x \in Subs' : sub'[x].name = m => ~sub'[x].deleted
                PROVE  registry'[m] # None <=>
                         /\ subscriptions'[m] # None
                         /\ sub'[subscriptions'[m]].push_config # None
    BY DEF RegistryFollows, Subs
  <2>7. \A x \in Subs : sub[x].name = m => ~sub[x].deleted
    BY <2>4, <2>5
  <2>8. registry[m] # None <=> /\ subscriptions[m] # None
                               /\ sub[subscriptions[m]].push_config # None
    BY <2>7 DEF RegistryFollows, Subs
  <2>9. CASE m = n
    BY <1>4, <2>3, <2>4, <2>5, <2>6, <2>8, <2>9
  <2>10. CASE m # n
    <3>1. subscriptions[m] # None => subscriptions[m] \in Subs
      BY DEF AlwaysInv, Numbered
    <3>. QED BY <2>4, <2>5, <2>6, <2>8, <2>10, <3>1
  <2>. QED BY <2>9, <2>10
<1>. QED BY <1>3, <1>4

\* A subscription that begins its deletion is marked as deleted, and the
\* registry has no more to follow for its name.
LEMMA DeleteRegistry ==
  ASSUME AlwaysInv, RegistryFollows, NEW s \in SubId, sub[s].mailbox # << >>,
         Head(sub[s].mailbox).op = "delete_subscription",
         UNCHANGED <<topics, subscriptions, sub_next_id, topic>>
  PROVE  Delete(s) => RegistryFollows'
<1>1. SUFFICES ASSUME Delete(s) PROVE RegistryFollows'
  OBVIOUS
<1>2. UNCHANGED <<registry, Subs>>
  BY <1>1 DEF Delete, Subs
<1>3. CASE sub[s].deleted
  <2>1. GetInfo(s)
    BY <1>1, <1>3 DEF Delete, GetInfo
  <2>. QED BY <1>2, <2>1, GetInfoQuiet, RegistryQuiet
<1>4. CASE ~sub[s].deleted
  <2>1. PICK caller, step : caller = Head(sub[s].mailbox).from /\ step = FirstStep(s)
    OBVIOUS
  <2>. DEFINE D == Dequeue(sub[s])
              new == [D EXCEPT !.deleted = TRUE, !.caller = caller, !.step = step]
  <2>2. sub' = [sub EXCEPT ![s] = new]
    BY <1>1, <1>4, <2>1 DEF Delete
  <2>3. /\ D \in SubActors /\ D.name = sub[s].name /\ s \in Subs
        /\ sub \in [SubId -> SubActors]
    BY SubTakes DEF AlwaysInv, LifecycleTypes
  <2>. HIDE DEF D
  <2>4. new.name = sub[s].name /\ new.deleted
    BY <2>3 DEF SubActors
  <2>. HIDE DEF new
  <2>5. sub'[s] = new /\ \A x \in SubId \ {s} : sub'[x] = sub[x]
    BY <2>2, <2>3
  <2>. QED BY <1>2, <2>3, <2>4, <2>5, RegistryOfDeleted
<1>. QED BY <1>3, <1>4

\* Freeing the name of a deleted subscription.
LEMMA FreeNameRegistry ==
  ASSUME AlwaysInv, RegistryFollows, NEW s \in SubId
  PROVE  FreeName(s) => RegistryFollows'
<1>1. SUFFICES ASSUME FreeName(s) PROVE RegistryFollows'
  OBVIOUS
<1>2. /\ sub[s].step = "freeing" /\ UNCHANGED <<registry, Subs>>
      /\ subscriptions' = [subscriptions EXCEPT ![sub[s].name] = None]
  BY <1>1 DEF FreeName, Subs
<1>3. SubsSame /\ ConfigsSame
  BY <1>1, FreeNameQuiet DEF Quiet
<1>4. sub[s].deleted /\ s \in Subs
  <2>1. NoSub.step = "idle"
    BY DEF NoSub
  <2>. QED BY <1>2, <2>1 DEF AlwaysInv, Deletions, Numbered
<1>5. sub'[s].deleted
  BY <1>3, <1>4 DEF SubsSame
<1>6. \A n \in SubNames \ {sub[s].name} : subscriptions'[n] = subscriptions[n]
  BY <1>2 DEF AlwaysInv, LifecycleTypes
<1>7. \A x \in SubId : /\ sub'[x].name = sub[x].name /\ sub'[x].deleted = sub[x].deleted
                       /\ sub'[x].push_config = sub[x].push_config
  BY <1>3 DEF SubsSame, ConfigsSame
<1>. QED BY <1>2, <1>4, <1>5, <1>6, <1>7, RegistryOfDeleted

\* Removing a deleted subscription from the registry.
LEMMA UnregisterRegistry ==
  ASSUME AlwaysInv, RegistryFollows, NEW s \in SubId
  PROVE  Unregister(s) => RegistryFollows'
<1>1. SUFFICES ASSUME Unregister(s) PROVE RegistryFollows'
  OBVIOUS
<1>2. /\ sub[s].step = "unregistering" /\ UNCHANGED <<subscriptions, Subs>>
      /\ registry' = RegistrySet(sub[s].name, None)
  BY <1>1 DEF Unregister, Subs
<1>3. SubsSame /\ ConfigsSame
  BY <1>1, UnregisterQuiet DEF Quiet
<1>4. sub[s].deleted /\ s \in Subs
  <2>1. NoSub.step = "idle"
    BY DEF NoSub
  <2>. QED BY <1>2, <2>1 DEF AlwaysInv, Deletions, Numbered
<1>5. sub'[s].deleted
  BY <1>3, <1>4 DEF SubsSame
<1>6. \A n \in SubNames \ {sub[s].name} : registry'[n] = registry[n]
  BY <1>2 DEF AlwaysInv, LifecycleTypes, RegistrySet
<1>7. \A x \in SubId : /\ sub'[x].name = sub[x].name /\ sub'[x].deleted = sub[x].deleted
                       /\ sub'[x].push_config = sub[x].push_config
  BY <1>3 DEF SubsSame, ConfigsSame
<1>. QED BY <1>2, <1>4, <1>5, <1>6, <1>7, RegistryOfDeleted

\* Attaching, detaching, posting and deleting a topic are of no concern to the
\* registry.
LEMMA TopicReceiveRegistry ==
  ASSUME AlwaysInv, AlwaysInv', RegistryFollows, NEW t \in TopicId
  PROVE  TopicReceive(t) => RegistryFollows'
<1>1. SUFFICES ASSUME TopicReceive(t) PROVE RegistryFollows'
  OBVIOUS
<1>2. topic[t].mailbox # << >> /\ UNCHANGED <<sub_next_id, registry, subscriptions, Subs>>
  BY <1>1 DEF TopicReceive, Subs
<1>3. sub \in [SubId -> SubActors]
  BY DEF AlwaysInv, LifecycleTypes
<1>4. CASE UNCHANGED sub
  BY <1>2, <1>4, RegistryKept
<1>5. ASSUME NEW s, sub' = [sub EXCEPT ![s].attached = TRUE]
      PROVE  RegistryFollows'
  <2>1. \A x \in SubId : /\ sub'[x].name = sub[x].name
                         /\ sub'[x].deleted = sub[x].deleted
                         /\ sub'[x].push_config = sub[x].push_config
    BY <1>3, <1>5 DEF SubActors
  <2>. QED BY <1>2, <2>1, RegistryKept
<1>6. ASSUME NEW s, sub' = [sub EXCEPT ![s].step = "freeing"]
      PROVE  RegistryFollows'
  <2>1. \A x \in SubId : /\ sub'[x].name = sub[x].name
                         /\ sub'[x].deleted = sub[x].deleted
                         /\ sub'[x].push_config = sub[x].push_config
    BY <1>3, <1>6 DEF SubActors
  <2>. QED BY <1>2, <2>1, RegistryKept
<1>7. CASE PublishMessages(t) \/ DeleteTopic(t) \/ GetTopicInfo(t)
  BY <1>4, <1>7 DEF PublishMessages, DeleteTopic, GetTopicInfo
<1>8. CASE AttachSubscription(t)
  BY <1>5, <1>8 DEF AttachSubscription
<1>9. CASE RemoveSubscription(t)
  BY <1>6, <1>9 DEF RemoveSubscription
<1>. QED BY <1>1, <1>7, <1>8, <1>9 DEF TopicReceive

\* A task that posts to a subscription leaves the registry alone.
LEMMA PostRegistry ==
  ASSUME AlwaysInv, RegistryFollows, NEW t \in TopicId, NEW s \in SubId
  PROVE  Post(t, s) => RegistryFollows'
<1>1. SUFFICES ASSUME Post(t, s) PROVE RegistryFollows'
  OBVIOUS
<1>2. UNCHANGED <<registry, subscriptions, Subs>> /\ sub \in [SubId -> SubActors]
  BY <1>1 DEF Post, Subs, AlwaysInv, LifecycleTypes
<1>3. CASE UNCHANGED sub
  BY <1>2, <1>3, RegistryKept
<1>4. ASSUME NEW r, sub' = [sub EXCEPT ![s] = Enqueue(sub[s], r)]
      PROVE  RegistryFollows'
  <2>1. /\ Enqueue(sub[s], r).name = sub[s].name
        /\ Enqueue(sub[s], r).deleted = sub[s].deleted
        /\ Enqueue(sub[s], r).push_config = sub[s].push_config
    BY <1>2 DEF Enqueue, SubActors
  <2>2. \A x \in SubId : /\ sub'[x].name = sub[x].name
                         /\ sub'[x].deleted = sub[x].deleted
                         /\ sub'[x].push_config = sub[x].push_config
    BY <1>2, <1>4, <2>1
  <2>. QED BY <1>2, <2>2, RegistryKept
<1>5. ASSUME ~UNCHANGED sub
      PROVE  \E r : sub' = [sub EXCEPT ![s] = Enqueue(sub[s], r)]
  BY <1>1, <1>2, <1>5 DEF Post
<1>. QED BY <1>3, <1>4, <1>5

\* Every step keeps the registry right.
LEMMA StepRegistry ==
  ASSUME AlwaysInv, AlwaysInv', RegistryFollows, RoomToCreate, [LifecycleNext]_vars
  PROVE  RegistryFollows'
<1>1. ASSUME NEW c \in Clients, Begin(c)
      PROVE  RegistryFollows'
  <2>1. UNCHANGED <<sub, registry, subscriptions, Subs>>
    BY <1>1 DEF Begin, CreateTopic, CallTopic, CreateSubscription,
       CallSubscription, Subs
  <2>. QED BY <2>1, RegistryKept
<1>2. ASSUME NEW c \in Clients, InsertSubscription(c) \/ Send(c)
      PROVE  RegistryFollows'
  <2>1. CASE InsertSubscription(c)
    <3>1. sub_next_id + 1 \in SubId
      BY <2>1 DEF InsertSubscription, RoomToCreate
    <3>. QED BY <2>1, <3>1, InsertSubscriptionRegistry
  <2>2. CASE Send(c)
    <3>1. UNCHANGED <<registry, subscriptions>>
      BY <2>2 DEF Send
    <3>. QED BY <2>2, <3>1, SendQuiet, RegistryQuiet
  <2>. QED BY <1>2, <2>1, <2>2
<1>3. ASSUME NEW t \in TopicId, Join(t) PROVE RegistryFollows'
  <2>1. UNCHANGED <<registry, subscriptions>>
    BY <1>3 DEF Join
  <2>. QED BY <1>3, <2>1, JoinQuiet, RegistryQuiet
<1>4. ASSUME NEW s \in SubId, SubReceive(s) PROVE RegistryFollows'
  <2>1. sub[s].mailbox # << >>
        /\ UNCHANGED <<topics, subscriptions, sub_next_id, topic>>
    BY <1>4 DEF SubReceive
  <2>2. CASE PostMessages(s)
    <3>1. UNCHANGED registry
      BY <2>2 DEF PostMessages
    <3>. QED BY <2>1, <2>2, <3>1, PostMessagesQuiet, RegistryQuiet
  <2>3. CASE Head(sub[s].mailbox).op = "get_subscription" /\ GetInfo(s)
    <3>1. UNCHANGED registry
      BY <2>3 DEF GetInfo
    <3>. QED BY <2>1, <2>3, <3>1, GetInfoQuiet, RegistryQuiet
  <2>4. CASE Head(sub[s].mailbox).op = "modify_push_config" /\ ModifyPushConfig(s)
    BY <2>1, <2>4, ModifyPushConfigRegistry
  <2>5. CASE Head(sub[s].mailbox).op = "delete_subscription" /\ Delete(s)
    BY <2>1, <2>5, DeleteRegistry
  <2>. QED BY <1>4, <2>2, <2>3, <2>4, <2>5 DEF SubReceive
<1>5. ASSUME NEW s \in SubId, AskTopic(s) \/ Stop(s) PROVE RegistryFollows'
  <2>1. UNCHANGED <<registry, subscriptions>>
    BY <1>5 DEF AskTopic, Stop
  <2>. QED BY <1>5, <2>1, AskTopicQuiet, StopQuiet, RegistryQuiet
<1>6. ASSUME NEW s \in SubId, FreeName(s) \/ Unregister(s) PROVE RegistryFollows'
  BY <1>6, FreeNameRegistry, UnregisterRegistry
<1>7. ASSUME UNCHANGED vars PROVE RegistryFollows'
  BY <1>7, RegistryKept DEF vars, Subs
<1>. QED BY <1>1, <1>2, <1>3, <1>4, <1>5, <1>6, <1>7, TopicReceiveRegistry,
            PostRegistry DEF LifecycleNext, Serve

\* The bound on subscriptions: who is creating one finds a number for it.
Creating == {c \in Clients : call[c].stage = "creating"}
\* Every creation under way will find a number below the bound.
Room == Spare(Creating, sub_next_id)

\* Fewer calls need fewer numbers.
LEMMA SpareFewer ==
  ASSUME NEW S, NEW T, NEW n, T \subseteq S, Spare(S, n)
  PROVE  Spare(T, n)
<1>1. PICK number \in [S -> SubId] :
        \A d \in S : /\ number[d] > n
                    /\ \A e \in S : number[d] = number[e] => d = e
  BY DEF Spare
<1>. DEFINE other == [d \in T |-> number[d]]
<1>2. /\ other \in [T -> SubId]
      /\ \A d \in T : /\ other[d] > n
                     /\ \A e \in T : other[d] = other[e] => d = e
  BY <1>1
<1>. HIDE DEF other
<1>. QED BY <1>2 DEF Spare

\* Room stays when no creation begins and no number is taken.
LEMMA RoomKept ==
  ASSUME Room, UNCHANGED sub_next_id,
         \A d \in Clients : call'[d].stage = "creating" =>
                              call[d].stage = "creating"
  PROVE  Room'
<1>1. Creating' \subseteq Creating
  BY DEF Creating
<1>. QED BY <1>1, SpareFewer DEF Room

\* A creation under way finds a number.
LEMMA RoomSuffices ==
  ASSUME Room, LifecycleTypes PROVE RoomToCreate
<1>. SUFFICES ASSUME NEW c \in Clients, call[c].stage = "creating"
              PROVE  sub_next_id + 1 \in SubId
  BY DEF RoomToCreate
<1>1. PICK number \in [Creating -> SubId] :
        \A d \in Creating : number[d] > sub_next_id
  BY DEF Room, Spare
<1>2. number[c] \in SubId /\ number[c] > sub_next_id
  BY <1>1 DEF Creating
<1>3. sub_next_id \in Nat \ {0} /\ MaxSubId \in Nat
  BY LifecycleAssumption DEF LifecycleTypes
<1>. QED BY <1>2, <1>3, SMTT(30) DEF SubId

\* The creation that takes a number is no longer under way, and whoever would
\* have taken that number can have its own.
LEMMA InsertSubscriptionRoom ==
  ASSUME Room, AlwaysInv, NEW c \in Clients
  PROVE  InsertSubscription(c) => Room'
<1>1. SUFFICES ASSUME InsertSubscription(c) PROVE Room'
  OBVIOUS
<1>2. call \in [Clients -> Calls] /\ c \in Creating
  BY <1>1 DEF AlwaysInv, LifecycleTypes, InsertSubscription, Creating
<1>3. CASE subscriptions[call[c].name] # None
  <2>1. Return(c, "error") /\ UNCHANGED sub_next_id
    BY <1>1, <1>3 DEF InsertSubscription
  <2>2. \A d \in Clients : call'[d].stage = "creating" =>
                             call[d].stage = "creating"
    BY <1>2, <2>1 DEF Return, Returned, Idle
  <2>. QED BY <2>1, <2>2, RoomKept
<1>4. CASE subscriptions[call[c].name] = None
  <2>1. /\ sub_next_id' = sub_next_id + 1
        /\ call' = [call EXCEPT ![c].sub = sub_next_id + 1, ![c].stage = "calling"]
    BY <1>1, <1>4 DEF InsertSubscription
  <2>2. /\ call'[c].stage = "calling"
        /\ \A d \in Clients \ {c} : call'[d] = call[d]
    BY <1>2, <2>1 DEF Calls
  <2>3. Creating' = Creating \ {c}
    BY <2>2 DEF Creating
  <2>4. PICK number \in [Creating -> SubId] :
          \A d \in Creating :
            /\ number[d] > sub_next_id
            /\ \A e \in Creating : number[d] = number[e] => d = e
    BY DEF Room, Spare
  <2>. DEFINE other == [d \in Creating \ {c} |->
                          IF number[d] = sub_next_id + 1 THEN number[c]
                          ELSE number[d]]
  <2>5. other \in [Creating \ {c} -> SubId]
    BY <1>2, <2>4
  <2>6. sub_next_id \in Nat /\ \A x \in SubId : x \in Nat
    BY SMTT(30) DEF AlwaysInv, LifecycleTypes, SubId
  <2>7. \A x \in SubId : x > sub_next_id /\ x # sub_next_id + 1 =>
                           x > sub_next_id + 1
    BY <2>6, SMTT(30)
  <2>8. ASSUME NEW d \in Creating \ {c}
        PROVE  /\ other[d] > sub_next_id + 1
               /\ \A e \in Creating \ {c} : other[d] = other[e] => d = e
    <3>1. CASE number[d] = sub_next_id + 1
      BY <1>2, <2>4, <2>7, <2>8, <3>1
    <3>2. CASE number[d] # sub_next_id + 1
      BY <1>2, <2>4, <2>7, <2>8, <3>2
    <3>. QED BY <3>1, <3>2
  <2>. HIDE DEF other
  <2>. QED BY <2>1, <2>3, <2>5, <2>8 DEF Room, Spare
<1>. QED BY <1>3, <1>4

\* A creation begins only while there is room for one more.
LEMMA CreateSubscriptionRoom ==
  ASSUME Room, AlwaysInv, NEW c \in Clients, NEW n, NEW tn, NEW config
  PROVE  CreateSubscription(c, n, tn, config) => Room'
<1>1. SUFFICES ASSUME CreateSubscription(c, n, tn, config) PROVE Room'
  OBVIOUS
<1>2. /\ call \in [Clients -> Calls] /\ UNCHANGED sub_next_id
      /\ Spare(InCall("create_subscription") \cup {c}, sub_next_id)
  BY <1>1 DEF AlwaysInv, LifecycleTypes, CreateSubscription
<1>3. \A d \in Clients \ {c} : call'[d] = call[d]
  BY <1>1, <1>2 DEF CreateSubscription, Return, Returned
<1>4. Creating \subseteq InCall("create_subscription")
  BY DEF InCall, Creating, AlwaysInv, CallsTracked, Tracked
<1>5. Creating' \subseteq InCall("create_subscription") \cup {c}
  BY <1>3, <1>4 DEF Creating
<1>. QED BY <1>2, <1>5, SpareFewer DEF Room

\* Every other step lets nobody begin to create.
LEMMA StepRoom ==
  ASSUME AlwaysInv, Room, [LifecycleNext]_vars
  PROVE  Room'
<1>1. LifecycleTypes /\ call \in [Clients -> Calls]
  BY DEF AlwaysInv, LifecycleTypes
<1>2. ASSUME UNCHANGED <<sub_next_id, call>> PROVE Room'
  BY <1>1, <1>2, RoomKept
<1>3. ASSUME UNCHANGED sub_next_id, NEW c, NEW result, Return(c, result) PROVE Room'
  <2>1. \A d \in Clients : call'[d].stage = "creating" => call[d].stage = "creating"
    BY <1>1, <1>3 DEF Return, Returned, Idle
  <2>. QED BY <1>1, <1>3, <2>1, RoomKept
<1>4. ASSUME UNCHANGED sub_next_id, NEW c, NEW new, call' = [call EXCEPT ![c] = new],
             new.stage # "creating"
      PROVE  Room'
  <2>1. \A d \in Clients : call'[d].stage = "creating" => call[d].stage = "creating"
    BY <1>1, <1>4
  <2>. QED BY <1>1, <1>4, <2>1, RoomKept
<1>5. ASSUME NEW c \in Clients, Begin(c) PROVE Room'
  <2>1. ASSUME NEW n \in TopicNames, CreateTopic(c, n) PROVE Room'
    <3>. DEFINE new == [Idle("none") EXCEPT !.op = "get_topic",
                          !.topic = topic_next_id + 1, !.stage = "calling"]
    <3>1. new.stage = "calling"
      BY DEF Idle
    <3>2. /\ UNCHANGED sub_next_id
          /\ Return(c, "error") \/ call' = [call EXCEPT ![c] = new]
      BY <2>1 DEF CreateTopic
    <3>. HIDE DEF new
    <3>. QED BY <1>3, <1>4, <3>1, <3>2
  <2>2. ASSUME NEW n \in TopicNames, NEW op, CallTopic(c, op, n) PROVE Room'
    <3>. DEFINE new == [Idle("none") EXCEPT !.op = op, !.topic = topics[n],
                                            !.stage = "calling"]
    <3>1. new.stage = "calling"
      BY DEF Idle
    <3>2. /\ UNCHANGED sub_next_id
          /\ Return(c, "error") \/ call' = [call EXCEPT ![c] = new]
      BY <2>2 DEF CallTopic
    <3>. HIDE DEF new
    <3>. QED BY <1>3, <1>4, <3>1, <3>2
  <2>3. ASSUME NEW n \in SubNames, NEW op, NEW config, CallSubscription(c, op, n, config)
        PROVE  Room'
    <3>. DEFINE new == [Idle("none") EXCEPT !.op = op, !.sub = subscriptions[n],
                            !.push_config = config, !.stage = "calling"]
    <3>1. new.stage = "calling"
      BY DEF Idle
    <3>2. /\ UNCHANGED sub_next_id
          /\ Return(c, "error") \/ call' = [call EXCEPT ![c] = new]
      BY <2>3 DEF CallSubscription
    <3>. HIDE DEF new
    <3>. QED BY <1>3, <1>4, <3>1, <3>2
  <2>. QED BY <1>5, <2>1, <2>2, <2>3, CreateSubscriptionRoom DEF Begin
<1>6. ASSUME NEW c \in Clients, Send(c) PROVE Room'
  <2>1. UNCHANGED sub_next_id
    BY <1>6 DEF Send
  <2>2. CASE call' = [call EXCEPT ![c].stage = "awaiting"]
    <3>1. call'[c].stage = "awaiting" /\ \A d \in Clients \ {c} : call'[d] = call[d]
      BY <1>1, <2>2 DEF Calls
    <3>2. \A d \in Clients : call'[d].stage = "creating" => call[d].stage = "creating"
      BY <3>1
    <3>. QED BY <1>1, <2>1, <3>2, RoomKept
  <2>3. CASE Return(c, "error")
    BY <1>3, <2>1, <2>3
  <2>. QED BY <1>6, <2>2, <2>3 DEF Send
<1>7. ASSUME NEW t \in TopicId, TopicReceive(t) PROVE Room'
  <2>1. UNCHANGED sub_next_id
    BY <1>7 DEF TopicReceive
  <2>2. CASE PublishMessages(t) \/ RemoveSubscription(t)
    BY <1>2, <2>1, <2>2 DEF PublishMessages, RemoveSubscription
  <2>3. CASE DeleteTopic(t) \/ GetTopicInfo(t)
    BY <1>3, <2>1, <2>3 DEF DeleteTopic, GetTopicInfo
  <2>4. CASE AttachSubscription(t)
    <3>1. PICK c : c = Head(topic[t].mailbox).from
      OBVIOUS
    <3>2. call' = [call EXCEPT ![c].op = "get_subscription", ![c].stage = "calling"]
      BY <2>4, <3>1 DEF AttachSubscription
    <3>3. \A d \in Clients : call'[d].stage = "creating" => call[d].stage = "creating"
      BY <1>1, <3>2 DEF Calls
    <3>. QED BY <1>1, <2>1, <3>3, RoomKept
  <2>. QED BY <1>7, <2>2, <2>3, <2>4 DEF TopicReceive
<1>8. ASSUME NEW t \in TopicId, Join(t) PROVE Room'
  BY <1>3, <1>8 DEF Join
<1>9. ASSUME NEW t \in TopicId, NEW s \in SubId, Post(t, s) PROVE Room'
  BY <1>2, <1>9 DEF Post
<1>10. ASSUME NEW s \in SubId, SubReceive(s) PROVE Room'
  <2>1. UNCHANGED sub_next_id
    BY <1>10 DEF SubReceive
  <2>2. CASE PostMessages(s)
    BY <1>2, <2>1, <2>2 DEF PostMessages
  <2>3. CASE GetInfo(s) \/ ModifyPushConfig(s)
    BY <1>3, <2>1, <2>3 DEF GetInfo, ModifyPushConfig
  <2>4. CASE Delete(s)
    <3>1. UNCHANGED call \/ \E c : Return(c, "ok")
      BY <2>4 DEF Delete
    <3>. QED BY <1>2, <1>3, <2>1, <3>1
  <2>. QED BY <1>10, <2>2, <2>3, <2>4 DEF SubReceive
<1>11. ASSUME NEW s \in SubId, AskTopic(s) \/ FreeName(s) PROVE Room'
  BY <1>2, <1>11 DEF AskTopic, FreeName
<1>12. ASSUME NEW s \in SubId, Unregister(s) PROVE Room'
  BY <1>3, <1>12 DEF Unregister
<1>13. ASSUME NEW s \in SubId, Stop(s) PROVE Room'
  <2>1. UNCHANGED sub_next_id
    BY <1>13 DEF Stop
  <2>2. \A d \in Clients : call'[d] = call[d] \/ call'[d] = Idle("error")
    BY <1>13 DEF Stop
  <2>3. \A d \in Clients : call'[d].stage = "creating" => call[d].stage = "creating"
    BY <2>2, SMTT(30) DEF Idle
  <2>. QED BY <1>1, <2>1, <2>3, RoomKept
<1>14. CASE UNCHANGED vars
  BY <1>2, <1>14 DEF vars
<1>. QED BY <1>5, <1>6, <1>7, <1>8, <1>9, <1>10, <1>11, <1>12, <1>13, <1>14,
            InsertSubscriptionRoom DEF LifecycleNext, Serve

\* What a publish has reached when it returns: only the join ends a publish.
LEMMA StepPublished ==
  ASSUME PatientInv, [LifecycleNext]_vars, NEW t \in TopicId,
         topic[t].publishing # None, topic'[t].publishing = None,
         call'[topic[t].publishing].result = "ok",
         NEW s \in Subs, sub[s].topic = t, sub[s].attached, ~sub[s].deleted,
         ~topic[t].deleted
  PROVE  Reached(s, MessageId(t, topic[t].next_message_id))
<1>1. topic \in [TopicId -> TopicActors] /\ call \in [Clients -> Calls]
  BY DEF PatientInv, AlwaysInv, LifecycleTypes
<1>2. ASSUME NEW x, NEW new, topic' = [topic EXCEPT ![x] = new],
             x = t => new.publishing = topic[t].publishing
      PROVE  FALSE
  BY <1>1, <1>2
<1>3. ASSUME NEW x, NEW r, topic' = [topic EXCEPT ![x] = Enqueue(topic[x], r)]
      PROVE  FALSE
  <2>1. x = t => Enqueue(topic[x], r).publishing = topic[t].publishing
    BY <1>1, SMTT(30) DEF Enqueue, TopicActors
  <2>. QED BY <1>2, <1>3, <2>1
<1>4. ASSUME NEW c \in Clients, Begin(c) PROVE FALSE
  <2>1. topic' # topic
    OBVIOUS
  <2>2. PICK n \in TopicNames : CreateTopic(c, n)
    BY <1>4, <2>1 DEF Begin, CallTopic, CreateSubscription, CallSubscription
  <2>3. PICK u : topic' = [topic EXCEPT ![u].name = n]
    BY <2>1, <2>2 DEF CreateTopic
  <2>. QED BY <1>1, <2>3, SMTT(30) DEF TopicActors
<1>5. ASSUME NEW c \in Clients, Send(c) PROVE FALSE
  <2>1. topic' # topic
    OBVIOUS
  <2>2. PICK r : topic' = [topic EXCEPT ![call[c].topic] =
                             Enqueue(topic[call[c].topic], r)]
    BY <1>5, <2>1 DEF Send
  <2>. QED BY <1>3, <2>2
<1>6. ASSUME NEW x \in TopicId, TopicReceive(x) PROVE FALSE
  <2>1. x # t
    BY <1>6 DEF TopicReceive
  <2>2. \E new : topic' = [topic EXCEPT ![x] = new]
    BY <1>6 DEF TopicReceive, PublishMessages, AttachSubscription,
       RemoveSubscription, DeleteTopic, GetTopicInfo
  <2>. QED BY <1>2, <2>1, <2>2
<1>7. ASSUME NEW x \in TopicId, NEW y \in SubId, Post(x, y) PROVE FALSE
  <2>1. PICK k, done : topic' = [topic EXCEPT ![x].tasks[k] = done]
    BY <1>7, SMTT(30) DEF Post
  <2>. QED BY <1>1, <2>1, SMTT(30) DEF TopicActors
<1>8. ASSUME NEW x \in SubId, AskTopic(x) PROVE FALSE
  BY <1>3, <1>8 DEF AskTopic
<1>9. ASSUME UNCHANGED topic PROVE FALSE
  BY <1>9
<1>10. PICK x \in TopicId : Join(x)
  <2>1. \A c \in Clients : InsertSubscription(c) => UNCHANGED topic
    BY DEF InsertSubscription
  <2>2. \A y \in SubId : SubReceive(y) \/ FreeName(y) \/ Unregister(y) \/ Stop(y)
                           => UNCHANGED topic
    BY DEF SubReceive, FreeName, Unregister, Stop
  <2>. QED BY <1>4, <1>5, <1>6, <1>7, <1>8, <1>9, <2>1, <2>2
              DEF LifecycleNext, Serve, vars
<1>11. x = t
  <2>1. topic' = [topic EXCEPT ![x].publishing = None, ![x].tasks = NoTasks]
    BY <1>10 DEF Join
  <2>. QED BY <1>1, <2>1
<1>12. \A k \in DOMAIN topic[t].tasks : topic[t].tasks[k] = "done"
  <2>1. topic[t].publishing \in Clients
    BY <1>1 DEF TopicActors
  <2>2. Return(topic[t].publishing, Outcome(topic[t].tasks))
    BY <1>10, <1>11 DEF Join
  <2>3. call'[topic[t].publishing] = Idle(Outcome(topic[t].tasks))
    BY <1>1, <2>1, <2>2 DEF Return, Returned
  <2>4. Outcome(topic[t].tasks) = "ok"
    BY <2>3, SMTT(30) DEF Idle
  <2>. QED BY <2>4 DEF Outcome
<1>13. topic[t].attached[sub[s].name] = s
  BY DEF PatientInv, Stays
<1>14. s \in SubId /\ s # None /\ sub[s].name \in SubNames
  BY Apart DEF PatientInv, AlwaysInv, Numbered
<1>15. s \in Attached(t)
  BY <1>13, <1>14 DEF Attached
<1>16. PublishingOf(t)
  BY DEF PatientInv, AlwaysInv, Publishing
<1>17. <<s, LastId(t)>> \in DOMAIN topic[t].tasks
  BY <1>15, <1>16 DEF PublishingOf
<1>18. Reached(s, LastId(t))
  BY <1>12, <1>14, <1>16, <1>17 DEF PublishingOf
<1>. QED BY <1>18 DEF LastId

\* What holds of every client, patient or not.
Ready == AlwaysInv /\ Room

\* Initially both hold.
LEMMA InitReady == LifecycleInit => Ready
<1>1. LifecycleInit => Creating = {}
  BY SMTT(30) DEF LifecycleInit, Creating, Idle
<1>2. Spare({}, sub_next_id)
  <2>1. [d \in {} |-> 1] \in [{} -> SubId]
    OBVIOUS
  <2>. QED BY <2>1 DEF Spare
<1>. QED BY <1>1, <1>2, InitAlways DEF Ready, Room

\* Every step keeps both.
LEMMA StepReady == Ready /\ [LifecycleNext]_vars => Ready'
<1>. SUFFICES ASSUME Ready, [LifecycleNext]_vars PROVE Ready'
  OBVIOUS
<1>1. RoomToCreate
  BY RoomSuffices DEF Ready, AlwaysInv
<1>. QED BY <1>1, StepAlways, StepRoom DEF Ready, RoomToCreate

\* The inductive invariant of the lifecycle holds, for any number of clients,
\* names and instances and any mailbox capacity.
THEOREM AlwaysHolds == LifecycleSpec => []Ready
BY InitReady, StepReady, PTL DEF LifecycleSpec

\* A live instance keeps its name, whatever becomes of other instances of that
\* name: no delegate of a deleted topic or subscription removes the entry of its
\* successor in the manager's map.
THEOREM LiveAlwaysListed == LifecycleSpec => []LiveAreListed
<1>1. Ready => LiveAreListed
  BY DEF Ready, AlwaysInv, Listed, LiveAreListed, Topics, Subs
<1>. QED BY <1>1, AlwaysHolds, PTL

\* Messages reach a subscription in the order in which its topic took them, each
\* once, however publishes, deletions and full mailboxes interleave.
THEOREM AlwaysPostedInOrder == LifecycleSpec => []PostedInOrder
<1>1. Ready => PostedInOrder
  BY DEF Ready, AlwaysInv
<1>. QED BY <1>1, AlwaysHolds, PTL

\* The push registry follows the subscriptions of a name as long as none of them
\* has been deleted.
THEOREM RegistryAlwaysFollows == LifecycleSpec => []RegistryFollows
<1>1. LifecycleInit => RegistryFollows
  BY DEF LifecycleInit, RegistryFollows
<1>2. Ready /\ Ready' /\ RegistryFollows /\ [LifecycleNext]_vars => RegistryFollows'
  <2>. SUFFICES ASSUME Ready, Ready', RegistryFollows, [LifecycleNext]_vars
                PROVE  RegistryFollows'
    OBVIOUS
  <2>1. RoomToCreate
    BY RoomSuffices DEF Ready, AlwaysInv
  <2>. QED BY <2>1, StepRegistry DEF Ready
<1>. QED BY <1>1, <1>2, AlwaysHolds, PTL DEF LifecycleSpec

\* With patient clients, who do not delete, change or look up a subscription
\* before its creation has returned, the rest of the invariant holds too.
THEOREM PatientHolds == ASSUME Patient PROVE LifecycleSpec => []PatientInv
<1>1. Ready /\ Ready' /\ PatientInv /\ [LifecycleNext]_vars => PatientInv'
  <2>. SUFFICES ASSUME Ready, Ready', PatientInv, [LifecycleNext]_vars
                PROVE  PatientInv'
    OBVIOUS
  <2>1. RoomToCreate
    BY RoomSuffices DEF Ready, AlwaysInv
  <2>. QED BY <2>1, StepPatient DEF Ready
<1>. QED BY <1>1, InitPatient, AlwaysHolds, PTL DEF LifecycleSpec

\* A subscription that has been deleted is on no list of a topic that anybody
\* still holds, for patient clients.
THEOREM NoneEverAttachedDeleted ==
  ASSUME Patient PROVE LifecycleSpec => []NoneAttachedDeleted
<1>1. PatientInv => NoneAttachedDeleted
  <2>1. SUFFICES ASSUME PatientInv, NEW s \in 2..sub_next_id, sub[s].signalled,
                        NEW t \in TopicId, NEW n \in SubNames, Held(t)
                 PROVE  topic[t].attached[n] # s
    BY DEF NoneAttachedDeleted
  <2>2. s \in Subs /\ s \in SubId
    BY <2>1 DEF Subs, PatientInv, AlwaysInv, Numbered
  <2>3. sub[s].deleted /\ sub[s].step \notin Leaving
    BY <2>1, <2>2 DEF PatientInv, AlwaysInv, Deletions
  <2>. QED BY <2>1, <2>2, <2>3 DEF PatientInv, Left, Leaving
<1>. QED BY <1>1, PatientHolds, PTL

\* No publish fails because a subscription is deleted meanwhile, for patient
\* clients: no post finds its subscription stopped.
THEOREM PublishingNeverFails ==
  ASSUME Patient PROVE LifecycleSpec => []PublishNeverFails
<1>1. PatientInv => PublishNeverFails
  BY DEF PatientInv
<1>. QED BY <1>1, PatientHolds, PTL

\* A publish that returns its ids has reached every attached subscription of the
\* topic that is not being deleted, for patient clients.
THEOREM AlwaysPublishedEverywhere ==
  ASSUME Patient PROVE LifecycleSpec => PublishedEverywhere
<1>1. PatientInv /\ [LifecycleNext]_vars =>
        [\A t \in TopicId :
           /\ topic[t].publishing # None /\ topic'[t].publishing = None
           /\ call'[topic[t].publishing].result = "ok"
           => \A s \in 2..sub_next_id :
                sub[s].topic = t /\ sub[s].attached
                  /\ ~sub[s].deleted /\ ~topic[t].deleted =>
                    Reached(s, MessageId(t, topic[t].next_message_id))]_vars
  BY StepPublished DEF Subs
<1>. QED BY <1>1, PatientHolds, PTL DEF LifecycleSpec, PublishedEverywhere

=============================================================================

--------------------------------- MODULE Scrape ---------------------------------
(***************************************************************************)
(* A scrape of /metrics (MetricsService::render): it lists the topics and  *)
(* the subscriptions, asks every listed topic's and then every listed      *)
(* subscription's actor for its statistics, and renders a row per answer,  *)
(* while resources are created, used, deleted and created again.           *)
(*                                                                         *)
(* Of the statistics of a resource the model keeps one counter, that of    *)
(* the messages published or pulled.  A topic's actor lives as long as     *)
(* somebody holds the topic, and the scrape holds what it has listed; a    *)
(* subscription's actor stops some time after its deletion.                *)
(***************************************************************************)
EXTENDS Naturals, FiniteSets

CONSTANTS
  Topic, Subscription, \* names
  MaxId,               \* bound: resources created
  MaxCount             \* bound: messages through a resource

Name == Topic \cup Subscription
Absent == 0

VARIABLES
  registered, \* the managers' maps: the resource of each name
  actor,      \* the actors started so far: name, status and statistics
  stage,      \* where the scrape is
  listed,     \* the resources it has listed
  unanswered, \* the actors it waits for
  rows,       \* the statistics it has collected
  steady      \* history: statistics, at the start of the scrape, of what existed

vars == <<registered, actor, stage, listed, unanswered, rows, steady>>
scrapeVars == <<stage, listed, unanswered, rows, steady>>

Init ==
  /\ registered = [n \in Name |-> Absent]
  /\ actor = << >>
  /\ stage = "idle"
  /\ listed = {} /\ unanswered = {} /\ rows = {} /\ steady = {}

Of(names) == {registered[n] : n \in names} \ {Absent}
Row(id) == [id |-> id, name |-> actor[id].name, count |-> actor[id].count]

-----------------------------------------------------------------------------
\* create_topic, create_subscription: the name is free.
Create(name) ==
  /\ registered[name] = Absent
  /\ Cardinality(DOMAIN actor) < MaxId
  /\ LET id == Cardinality(DOMAIN actor) + 1
     IN  /\ registered' = [registered EXCEPT ![name] = id]
         /\ actor' = [i \in 1..id |->
                        IF i < id THEN actor[i]
                        ELSE [name |-> name, status |-> "live", count |-> 0]]
  /\ UNCHANGED scrapeVars

\* A message is published, or handed out.
Use(id) ==
  /\ actor[id].status = "live" /\ actor[id].count < MaxCount
  /\ actor' = [actor EXCEPT ![id].count = @ + 1]
  /\ UNCHANGED <<registered, scrapeVars>>

\* The resource is marked as deleted and cleared, and its name is free again.
Delete(id) ==
  /\ actor[id].status = "live"
  /\ actor' = [actor EXCEPT ![id].status = "deleted"]
  /\ registered' = [registered EXCEPT ![actor[id].name] = Absent]
  /\ UNCHANGED scrapeVars

\* The actor of a deleted subscription stops.
Stop(id) ==
  /\ actor[id].name \in Subscription /\ actor[id].status = "deleted"
  /\ actor' = [actor EXCEPT ![id].status = "stopped"]
  /\ UNCHANGED <<registered, scrapeVars>>

-----------------------------------------------------------------------------
\* A scrape begins: list_all_topics.
ListTopics ==
  /\ stage = "idle"
  /\ stage' = "listing"
  /\ listed' = Of(Topic)
  /\ steady' = {Row(id) : id \in Of(Name)}
  /\ UNCHANGED <<registered, actor, unanswered, rows>>

\* list_all_subscriptions, and the topics are asked.
ListSubscriptions ==
  /\ stage = "listing"
  /\ stage' = "topics"
  /\ unanswered' = listed
  /\ listed' = listed \cup Of(Subscription)
  /\ UNCHANGED <<registered, actor, rows, steady>>

\* An actor answers, or its request is dropped with its mailbox; without an
\* answer there is no row.
\* Variant: one missing answer fails the collection.
CollectAll(id) ==
  rows' = IF actor[id].status = "stopped" THEN {}
          ELSE rows \cup {Row(id)}
Collect(id) ==
  rows' = IF actor[id].status = "stopped" THEN rows
          ELSE rows \cup {Row(id)}
Answer(id) ==
  /\ stage \in {"topics", "subscriptions"} /\ id \in unanswered
  /\ Collect(id)
  /\ unanswered' = unanswered \ {id}
  /\ UNCHANGED <<registered, actor, stage, listed, steady>>

\* All the topics have answered: the subscriptions are asked.
AskSubscriptions ==
  /\ stage = "topics" /\ unanswered = {}
  /\ stage' = "subscriptions"
  /\ unanswered' = {id \in listed : actor[id].name \in Subscription}
  /\ UNCHANGED <<registered, actor, listed, rows, steady>>

\* All have answered: the text is rendered, one row per statistics.
Render ==
  /\ stage = "subscriptions" /\ unanswered = {}
  /\ stage' = "rendered"
  /\ UNCHANGED <<registered, actor, listed, unanswered, rows, steady>>

Respond ==
  /\ stage = "rendered"
  /\ stage' = "idle"
  /\ listed' = {} /\ rows' = {} /\ steady' = {}
  /\ UNCHANGED <<registered, actor, unanswered>>

ScrapeStep == ListSubscriptions \/ AskSubscriptions \/ Render \/ Respond

Next ==
  \/ \E name \in Name : Create(name)
  \/ \E id \in DOMAIN actor : Use(id) \/ Delete(id) \/ Stop(id) \/ Answer(id)
  \/ ListTopics \/ ScrapeStep

Spec == Init /\ [][Next]_vars

-----------------------------------------------------------------------------
\* A scrape leaves out nothing that is there all the time, whatever is deleted
\* or created meanwhile: a resource that existed when the scrape began and
\* still exists has a row, its counter is not behind the start of the scrape,
\* and no other row has its name (render: "Resources that get deleted
\* mid-scrape simply drop out").
ScrapeComplete ==
  stage = "rendered" =>
    \A s \in steady : actor[s.id].status = "live" =>
      /\ \E r \in rows : r.id = s.id /\ s.count <= r.count
      /\ \A r \in rows : r.name = s.name => r.id = s.id

=============================================================================

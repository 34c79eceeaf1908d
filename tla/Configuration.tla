----------------------------- MODULE Configuration -----------------------------
(***************************************************************************)
(* The configuration of one subscription or topic: how a resource that a   *)
(* client sends is parsed, how an update with a field mask is merged by    *)
(* the actor, and how the configuration is turned into a resource again.   *)
(* Clients read the resource, edit their copy and send it back with a      *)
(* mask, and do so concurrently.                                           *)
(*                                                                         *)
(* A duration is a natural, in units of which a second has Second; in a    *)
(* resource it is the pair of its whole seconds and the remaining units.   *)
(* Field names are those of the masks.                                     *)
(***************************************************************************)
EXTENDS Integers, FiniteSetsExt

CONSTANTS
  Kind,           \* "subscription" or "topic"
  Client,
  None, Invalid,  \* an absent value, a value that does not parse
  Second,         \* units per second
  RawDeadlines, RawRetentions, RawRetryPolicies, RawDeadLetterPolicies,
  Labels,         \* the values clients send
  KnownTopics,    \* names that parse as a topic's
  DeadLetterTopicExists, \* what the lookup of creation can return
  Masks           \* the field masks clients send

VARIABLES
  info,    \* the actor's configuration, None before the creation
  copy,    \* the resource as each client last saw it
  pending, \* the updates in the actor's mailbox, with their masks
  written  \* history: the value of the last update that named each field

vars == <<info, copy, pending, written>>

-----------------------------------------------------------------------------
Clamp(value, low, high) == Min({Max({value, low}), high})

\* parse_create_ack_deadline.
parse_create_ack_deadline(seconds) == Max({seconds, 10}) * Second

\* A backoff of parse_retry_policy: negative parts count as zero.
ParseBackoff(duration, default) ==
  Min({600 * Second,
       IF duration = None THEN default * Second
       ELSE Max({duration[1], 0}) * Second + Max({duration[2], 0})})

parse_retry_policy(policy) ==
  IF policy = None THEN None
  ELSE LET minimum == ParseBackoff(policy.minimum_backoff, 10)
           maximum == ParseBackoff(policy.maximum_backoff, 600)
       IN  IF minimum > maximum THEN Invalid
           ELSE [minimum_backoff |-> minimum, maximum_backoff |-> maximum]

\* Variant: the lower limit is excluded.
parse_dead_letter_policy_above(policy) ==
  IF policy = None THEN None
  ELSE LET attempts == policy.max_delivery_attempts
       IN  IF \/ policy.dead_letter_topic \notin KnownTopics
              \/ attempts # 0 /\ attempts \notin 6..100
           THEN Invalid
           ELSE [policy EXCEPT !.max_delivery_attempts =
                   IF attempts = 0 THEN 5 ELSE attempts]
parse_dead_letter_policy(policy) ==
  IF policy = None THEN None
  ELSE LET attempts == policy.max_delivery_attempts
       IN  IF \/ policy.dead_letter_topic \notin KnownTopics
              \/ attempts # 0 /\ attempts \notin 5..100
           THEN Invalid
           ELSE [policy EXCEPT !.max_delivery_attempts =
                   IF attempts = 0 THEN 5 ELSE attempts]

parse_message_retention_duration(duration) ==
  IF duration = None THEN None
  ELSE IF duration[1] < 0 \/ duration[2] < 0 THEN Invalid
  ELSE Clamp(duration[1] * Second + duration[2], 600 * Second, 604800 * Second)

-----------------------------------------------------------------------------
\* The fields an update can name; every other path is refused.
Updatable ==
  IF Kind = "topic" THEN {"labels", "message_retention_duration"}
  ELSE {"ack_deadline_seconds", "retry_policy", "dead_letter_policy",
        "message_retention_duration", "enable_exactly_once_delivery"}

\* The values a client may put in a field.
Raw(field) ==
  CASE field = "ack_deadline_seconds" -> RawDeadlines
    [] field = "retry_policy" -> RawRetryPolicies
    [] field = "dead_letter_policy" -> RawDeadLetterPolicies
    [] field = "message_retention_duration" -> RawRetentions
    [] field = "labels" -> Labels
    [] OTHER -> BOOLEAN

Parsed(field, resource) ==
  LET value == resource[field]
  IN  CASE field = "ack_deadline_seconds" -> parse_create_ack_deadline(value)
        [] field = "retry_policy" -> parse_retry_policy(value)
        [] field = "dead_letter_policy" -> parse_dead_letter_policy(value)
        [] field = "message_retention_duration" ->
             parse_message_retention_duration(value)
        [] OTHER -> value

\* parse_subscription_update, parse_topic_update.
\* Variant: the whole resource is taken, whatever the mask names.
parse_update_unmasked(resource, paths) ==
  IF \/ paths = {} \/ ~(paths \subseteq Updatable)
     \/ \E f \in Updatable : Parsed(f, resource) = Invalid
  THEN Invalid
  ELSE [f \in Updatable |-> Parsed(f, resource)]
parse_update(resource, paths) ==
  IF \/ paths = {} \/ ~(paths \subseteq Updatable)
     \/ \E f \in paths : Parsed(f, resource) = Invalid
  THEN Invalid
  ELSE [f \in paths |-> Parsed(f, resource)]

apply_update(update) ==
  [f \in Updatable |-> IF f \in DOMAIN update THEN update[f] ELSE info[f]]

\* map_to_subscription_resource, map_to_topic_resource.
ToProto(duration) == <<duration \div Second, duration % Second>>
map_to_resource(i) ==
  [field \in Updatable |->
     CASE field = "ack_deadline_seconds" -> i[field] \div Second
       [] field = "retry_policy" /\ i[field] # None ->
            [minimum_backoff |-> ToProto(i[field].minimum_backoff),
             maximum_backoff |-> ToProto(i[field].maximum_backoff)]
       [] field = "message_retention_duration" /\ i[field] # None ->
            ToProto(i[field])
       [] OTHER -> i[field]]

-----------------------------------------------------------------------------
Init ==
  /\ info = None
  /\ copy = [c \in Client |-> None]
  /\ pending = [c \in Client |-> None]
  /\ written = None

\* create_subscription, create_topic: every field has to parse, and a dead letter
\* topic has to exist.  The name is free.
Create(resource, exists) ==
  /\ info = None
  /\ \A f \in Updatable : Parsed(f, resource) # Invalid
  /\ Kind = "subscription" /\ resource["dead_letter_policy"] # None => exists
  /\ info' = [f \in Updatable |-> Parsed(f, resource)]
  /\ written' = info'
  /\ UNCHANGED <<copy, pending>>

\* get_subscription, get_topic.
Get(c) ==
  /\ info # None
  /\ pending[c] = None
  /\ copy' = [copy EXCEPT ![c] = map_to_resource(info)]
  /\ UNCHANGED <<info, pending, written>>

\* update_subscription, update_topic, up to the actor's mailbox: a client edits a
\* field of its copy; what does not parse is refused here.
Update(c, field, value, paths) ==
  LET resource == [copy[c] EXCEPT ![field] = value]
      update == parse_update(resource, paths)
  IN  /\ copy[c] # None /\ pending[c] = None
      /\ update # Invalid
      /\ pending' = [pending EXCEPT ![c] = [update |-> update, mask |-> paths,
                                            resource |-> resource]]
      /\ UNCHANGED <<info, copy, written>>

\* The actor merges the update and answers with the result.
UpdateInfo(c) ==
  /\ pending[c] # None
  /\ info' = apply_update(pending[c].update)
  /\ copy' = [copy EXCEPT ![c] = map_to_resource(info')]
  /\ written' = [f \in Updatable |->
                   IF f \in pending[c].mask THEN Parsed(f, pending[c].resource)
                   ELSE written[f]]
  /\ pending' = [pending EXCEPT ![c] = None]

\* The resources a client may create with.
Resources ==
  IF Kind = "topic"
  THEN [labels : Labels, message_retention_duration : RawRetentions]
  ELSE [ack_deadline_seconds : RawDeadlines,
        retry_policy : RawRetryPolicies,
        dead_letter_policy : RawDeadLetterPolicies,
        message_retention_duration : RawRetentions,
        enable_exactly_once_delivery : BOOLEAN]

Next ==
  \/ \E resource \in Resources, exists \in DeadLetterTopicExists :
       Create(resource, exists)
  \/ \E c \in Client :
       \/ Get(c) \/ UpdateInfo(c)
       \/ \E field \in Updatable, paths \in Masks : \E value \in Raw(field) :
            Update(c, field, value, paths)

Spec == Init /\ [][Next]_vars

-----------------------------------------------------------------------------
\* No update is lost: every field has the value of the last update that named
\* it, however old the copy another client sent meanwhile with a mask that does
\* not name it (apply_update merges in the actor).
NoUpdateLost == info # None => \A f \in Updatable : info[f] = written[f]

\* Sending back the resource that was returned, with a mask of all its fields, is
\* accepted and changes nothing: the parsers invert the mapping on every
\* configuration that can come about.
ReadBackUnchanged ==
  info # None =>
    LET update == parse_update(map_to_resource(info), Updatable)
    IN  update # Invalid /\ apply_update(update) = info

=============================================================================

------------------------- MODULE SubscriptionObserver -------------------------
(***************************************************************************)
(* The signals a subscription actor raises for the calls that wait on the  *)
(* subscription (SubscriptionObserver): two tokio Notify objects and a     *)
(* one-shot for deletion.  The behaviour of Notify, a library type, is     *)
(* modelled from its use here:                                             *)
(*  - notify_one completes the future that has waited longest; when none   *)
(*    waits it stores a permit for the next one that looks;                *)
(*  - notify_waiters completes every future that exists, polled or not,    *)
(*    and stores nothing.                                                  *)
(***************************************************************************)
EXTENDS Queues

CONSTANT Consumer  \* the pull calls and streams waiting on the subscription

VARIABLES
  permit,     \* messages_available: a stored notification
  created,    \* messages_available: futures not polled yet
  waiting,    \* messages_available: futures waiting, oldest first
  told,       \* messages_available: futures completed by notify_one
  called,     \* messages_available: futures completed by notify_waiters
  listening,  \* outstanding_freed: pending futures
  freed,      \* outstanding_freed: completed futures
  deleted_signal  \* whether notify_deleted has fired

availableVars == <<permit, created, waiting, told, called>>
freedVars == <<listening, freed>>
observerVars == <<availableVars, freedVars, deleted_signal>>

ObserverInit ==
  /\ permit = FALSE
  /\ created = {} /\ waiting = << >> /\ told = {} /\ called = {}
  /\ listening = {} /\ freed = {}
  /\ deleted_signal = FALSE

\* notify_new_messages_available: notify_one.
NotifyNewMessagesAvailable ==
  /\ IF waiting = << >>
     THEN permit' = TRUE /\ UNCHANGED <<waiting, told>>
     ELSE /\ waiting' = Tail(waiting)
          /\ told' = told \cup {Head(waiting)}
          /\ UNCHANGED permit
  /\ UNCHANGED <<created, called>>

\* notify_outstanding_freed: notify_waiters.
NotifyOutstandingFreed ==
  /\ freed' = freed \cup listening
  /\ listening' = {}

\* notify_deleted: the one-shot fires, then notify_waiters on the first
\* Notify.  A second call finds the sender taken and does nothing.
NotifyDeleted ==
  IF deleted_signal THEN UNCHANGED <<availableVars, deleted_signal>>
  ELSE /\ deleted_signal' = TRUE
       /\ called' = called \cup created \cup Range(waiting)
       /\ created' = {} /\ waiting' = << >>
       /\ UNCHANGED <<permit, told>>

ObserverTypeOK ==
  /\ permit \in BOOLEAN /\ deleted_signal \in BOOLEAN
  /\ waiting \in Seq(Consumer)
  /\ created \subseteq Consumer /\ told \subseteq Consumer
  /\ called \subseteq Consumer
  /\ listening \subseteq Consumer /\ freed \subseteq Consumer

=============================================================================

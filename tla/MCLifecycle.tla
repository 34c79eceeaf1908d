------------------------------ MODULE MCLifecycle ------------------------------
(* Clients are interchangeable, and so are the names of subscriptions. *)
EXTENDS Lifecycle, TLC

AnyClientAnyName == Permutations(Clients) \cup Permutations(SubNames)

=============================================================================

------------------------------- MODULE Queues -------------------------------
(***************************************************************************)
(* Sequences of messages, as the subscription keeps them: the VecDeque of  *)
(* collections::Messages and the per-key queues of the subscription actor. *)
(*                                                                         *)
(* Retain is a recursive function and Listings a set of bijections, rather *)
(* than SelectSeq and SetToSeq, so that theorems can be proved about the   *)
(* specifications that use them; Reversed is here because module           *)
(* SequencesExt would slow every proof down.                               *)
(***************************************************************************)
EXTENDS Integers, Sequences, FiniteSets, Functions

\* The elements of s that are in the set kept, in the order of s
\* (Messages::retain, and every loop that keeps the messages passing a test).
Retain(s, kept) ==
  LET upTo[i \in 0..Len(s)] ==
        IF i = 0 THEN << >>
        ELSE IF s[i] \in kept THEN Append(upTo[i-1], s[i]) ELSE upTo[i-1]
  IN  upTo[Len(s)]

\* What pushing the elements of s to the front of a queue, one by one, puts
\* there.
Reversed(s) == [i \in 1..Len(s) |-> s[Len(s) - i + 1]]

\* Every order in which the elements of the finite set S can be listed.
Listings(S) == Bijection(1..Cardinality(S), S)

\* The one listing of a finite set of integers in ascending order.
Ascending(S) == {l \in Listings(S) : \A i, j \in DOMAIN l : i < j => l[i] < l[j]}

\* The one listing, in ascending order, of a finite set of pairs
\* <<instant, number>> (the order of a BTreeSet of such pairs).
InOrder(S) ==
  {l \in Listings(S) :
     \A i, j \in DOMAIN l :
        i < j => \/ l[i][1] < l[j][1]
                 \/ l[i][1] = l[j][1] /\ l[i][2] < l[j][2]}

=============================================================================

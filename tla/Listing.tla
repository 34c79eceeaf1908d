------------------------------- MODULE Listing -------------------------------
(***************************************************************************)
(* Listing topics and subscriptions page by page, while both are created   *)
(* and deleted.                                                            *)
(*                                                                         *)
(* A client walks a listing: it asks for a page, receives the resources    *)
(* and an opaque token, and asks again with the token until it receives    *)
(* none.  Nothing is locked between two pages: the token only carries the  *)
(* number of resources already skipped.  Three listings share this code    *)
(* (Resource): the topics of a project, the subscriptions of a project,    *)
(* and the subscriptions attached to a topic.                              *)
(***************************************************************************)
EXTENDS Integers, FiniteSets, Sequences, SequencesExt, Folds

CONSTANTS
    Names,          \* names of topics or of subscriptions
    Mine,           \* the names in the project (or topic) that is listed
    Resource,       \* "topic", "subscription" or "attached"
    Sizes,          \* page sizes a client asks for
    Default,        \* 20: the page size that 0 stands for
    Largest,        \* 1000: the largest page size Paging::new keeps
    Limit,          \* 10000: the cap of Paging::size
    Bytes, Base,    \* a token is Bytes digits in base Base (8 and 256)
    MaxId           \* bound: resources created in all

VARIABLES
    state,          \* the manager's map: name -> internal id
    next_id,        \* the manager's State::next_id
    stopped,        \* ids whose actor has left its loop
    walk,           \* the client's walk through the listing
    present,        \* ghost: the listed ids when the walk began
    deletions       \* ghost: listed resources deleted since

vars == <<state, next_id, stopped, walk, present, deletions>>

-----------------------------------------------------------------------------
(* Page tokens and paging parameters *)

None == -1

\* A token of another length than encode gives.
Malformed == <<0>>

encode(v) == [i \in 1..Bytes |-> (v \div Base^(i - 1)) % Base]

try_decode(token) ==
    IF Len(token) = Bytes
    THEN FoldFunctionOnSet(+, 0, [i \in 1..Bytes |-> token[i] * Base^(i - 1)], 1..Bytes)
    ELSE None

\* An empty token is no token; one that does not decode refuses the request.
Refused(size, token) ==
    \/ size < 0
    \/ token # <<>> /\ try_decode(token) = None

Smaller(a, b) == IF a < b THEN a ELSE b

PageSize(size) == Smaller(IF size = 0 THEN Default ELSE Smaller(size, Largest), Limit)

ToSkip(token) == IF token = <<>> THEN 0 ELSE try_decode(token)

NextOffsetPastPage(skip, page) == IF page # <<>> THEN skip + Len(page) + 1 ELSE None

next_page_from_slice_result(skip, page) ==
    IF page # <<>> THEN skip + Len(page) ELSE None

-----------------------------------------------------------------------------
(* The managers *)

Listed == {state[n] : n \in DOMAIN state \cap Mine}

NewId == next_id + 1

Create(n) ==
    /\ next_id < MaxId
    /\ n \notin DOMAIN state
    /\ next_id' = next_id + 1
    /\ state' = [m \in DOMAIN state \cup {n} |-> IF m = n THEN NewId ELSE state[m]]
    /\ UNCHANGED <<stopped, walk, present, deletions>>

\* The name leaves the map first; a subscription's actor stops afterwards.
Delete(n) ==
    /\ n \in DOMAIN state
    /\ state' = [m \in DOMAIN state \ {n} |-> state[m]]
    /\ deletions' = IF n \in Mine /\ walk.stage \in {"asked", "listed"} THEN deletions + 1 ELSE deletions
    /\ UNCHANGED <<next_id, stopped, walk, present>>

\* A topic's actor serves its mailbox as long as somebody holds the topic, and
\* a page holds the topics on it; a subscription's actor stops by itself.
Stop(i) ==
    /\ Resource = "subscription"
    /\ i \in 1..next_id \ ({state[n] : n \in DOMAIN state} \cup stopped)
    /\ stopped' = stopped \cup {i}
    /\ UNCHANGED <<state, next_id, walk, present, deletions>>

-----------------------------------------------------------------------------
(* The walk *)

Idle == [stage |-> "idle", size |-> 0, token |-> <<>>, page |-> <<>>,
         offset |-> None, seen |-> <<>>]

Page(skip, size) ==
    LET sorted == SetToSortSeq(Listed, <)
    IN  SubSeq(sorted, skip + 1, Smaller(skip + size, Len(sorted)))

Start(size, token) ==
    /\ walk.stage = "idle"
    /\ walk' = IF Refused(size, token)
               THEN [Idle EXCEPT !.stage = "refused"]
               ELSE [Idle EXCEPT !.stage = "asked", !.size = size]
    /\ present' = Listed
    /\ deletions' = 0
    /\ UNCHANGED <<state, next_id, stopped>>

\* The manager (or the topic's actor) takes the page from its map at once.
List ==
    /\ walk.stage = "asked"
    /\ LET skip == ToSkip(walk.token)
           page == Page(skip, PageSize(walk.size))
       IN  walk' = [walk EXCEPT !.stage = "listed", !.page = page,
                                !.offset = next_page_from_slice_result(skip, page)]
    /\ UNCHANGED <<state, next_id, stopped, present, deletions>>

\* Each resource on the page is then asked for its info (names of attached
\* subscriptions need none); one that has stopped fails the whole call.
Answer ==
    /\ walk.stage = "listed"
    /\ walk' = IF Resource = "subscription" /\ Range(walk.page) \cap stopped # {}
               THEN [Idle EXCEPT !.stage = "conflict"]
               ELSE [walk EXCEPT
                        !.stage = IF walk.offset = None THEN "done" ELSE "asked",
                        !.token = IF walk.offset = None THEN <<>> ELSE encode(walk.offset),
                        !.seen = @ \o walk.page, !.page = <<>>, !.offset = None]
    /\ UNCHANGED <<state, next_id, stopped, present, deletions>>

Leave ==
    /\ walk.stage \in {"done", "conflict", "refused"}
    /\ walk' = Idle
    /\ present' = {} /\ deletions' = 0
    /\ UNCHANGED <<state, next_id, stopped>>

ListingInit ==
    /\ state = <<>>
    /\ next_id = 1
    /\ stopped = {}
    /\ walk = Idle
    /\ present = {}
    /\ deletions = 0

ListingNext ==
    \/ \E n \in Names : Create(n) \/ Delete(n)
    \/ \E i \in 1..MaxId : Stop(i)
    \/ \E size \in Sizes \cup {-1}, token \in {<<>>, Malformed} : Start(size, token)
    \/ List
    \/ Answer
    \/ Leave

ListingSpec == ListingInit /\ [][ListingNext]_vars

-----------------------------------------------------------------------------
(* Properties *)

\* A walk accounts for what is listed.  Over all its pages it returns the
\* resources in the order of their creation and none twice, whatever is created
\* and deleted between two pages (list_topics and its like sort by the internal
\* id, so a new resource can only appear behind the offset); and when it ends it
\* has missed a resource that was there from beginning to end only because of
\* deletions, at most one for each.
WalkAccountsForAll ==
    /\ \A i, j \in 1..Len(walk.seen) : i < j => walk.seen[i] < walk.seen[j]
    /\ walk.stage = "done" =>
          Cardinality((present \cap Listed) \ Range(walk.seen)) <= deletions

=============================================================================

--------------------------------- MODULE MCApi ---------------------------------
(***************************************************************************)
(* Instances of what the API layer does by itself: configurations that are *)
(* parsed, merged and read back, filters that are tokenized and parsed,    *)
(* listings that are walked, metrics that are scraped.  The four have no   *)
(* state in common; a behaviour is about one of them, its subject.         *)
(***************************************************************************)
EXTENDS Integers, Sequences, TLC

CONSTANTS c1, c2, Nothing, Invalid, t1, s1, n1, n2, n3, n4

VARIABLES subject, info, copy, pending, written, tokens, text,
          state, next_id, stopped, walk, present, deletions,
          registered, actor, stage, listed, unanswered, rows, steady

-----------------------------------------------------------------------------
\* Two clients and values at the limits and beyond; a second has two units.
Backoffs(minimum, maximum) ==
  [minimum_backoff |-> minimum, maximum_backoff |-> maximum]
DeadLetters(topic, attempts) ==
  [dead_letter_topic |-> topic, max_delivery_attempts |-> attempts]
RetryPolicies ==
  {Nothing, Backoffs(<<10, 1>>, <<600, 1>>), Backoffs(Nothing, <<-1, 0>>)}
DeadLetterPolicies ==
  {Nothing, DeadLetters("topic", 0), DeadLetters("topic", 4),
   DeadLetters("malformed", 5)}
Retentions == {Nothing, <<599, 1>>, <<604800, 1>>, <<-1, 0>>}
Fields == {"ack_deadline_seconds", "retry_policy", "dead_letter_policy",
           "message_retention_duration", "enable_exactly_once_delivery",
           "labels", "name"}
SingleMasks == {{}} \cup {{f} : f \in Fields}

Sub ==
  INSTANCE Configuration WITH
    None <- Nothing, Kind <- "subscription", Client <- {c1, c2}, Second <- 2,
    Labels <- {},
    RawDeadlines <- {-1}, RawRetentions <- {Nothing, <<-1, 0>>},
    RawRetryPolicies <- RetryPolicies, RawDeadLetterPolicies <- DeadLetterPolicies,
    KnownTopics <- {"topic"}, DeadLetterTopicExists <- BOOLEAN,
    Masks <- SingleMasks
Top ==
  INSTANCE Configuration WITH
    None <- Nothing, Kind <- "topic", Client <- {c1, c2}, Second <- 2,
    Labels <- {"none", "some"},
    RawDeadlines <- {}, RawRetentions <- Retentions,
    RawRetryPolicies <- {}, RawDeadLetterPolicies <- {},
    KnownTopics <- {}, DeadLetterTopicExists <- {TRUE},
    Masks <- SingleMasks

\* Keys and strings are sequences of letters; one is a prefix of another.
Operators ==
  INSTANCE FilterParser WITH
    Kinds <- {"(", ")", "and", "or", "not", "attribute_has"},
    Keys <- {<<"k">>, <<"l">>}, Values <- {<<"a">>}, MaxTokens <- 6
Prefixes ==
  INSTANCE FilterParser WITH
    Kinds <- {"(", ")", ",", "attribute", "str", "prefix"},
    Keys <- {<<"k">>}, Values <- {<<"a">>, <<"a", "b">>}, MaxTokens <- 6
Comparisons ==
  INSTANCE FilterParser WITH
    Kinds <- {"(", ")", "=", "!=", "attribute", "str", "ident"},
    Keys <- {<<"k">>}, Values <- {<<"a">>, <<"a", "b">>}, MaxTokens <- 5
Lexer ==
  INSTANCE FilterLexer WITH
    Chars <- {"x", "1", "-", "and", "attributes", ".", ":", "(", "!", "=", " ",
              "quote", "backslash"},
    MaxChars <- 4

\* Pages of at most two; a token has three binary digits.
Pages ==
  INSTANCE Listing WITH
    Names <- {n1, n2, n3, n4}, Mine <- {n1, n2, n3}, Resource <- "subscription",
    Sizes <- {0, 1, 3}, Default <- 2, Largest <- 2, Limit <- 2,
    Bytes <- 3, Base <- 2, MaxId <- 4

Metrics ==
  INSTANCE Scrape WITH
    Topic <- {t1}, Subscription <- {s1}, MaxId <- 3, MaxCount <- 1

-----------------------------------------------------------------------------
configuration == <<info, copy, pending, written>>
listing == <<state, next_id, stopped, walk, present, deletions>>
scrape == <<registered, actor, stage, listed, unanswered, rows, steady>>

Init ==
  /\ subject \in {"subscription", "topic", "operators", "prefixes",
                  "comparisons", "text", "listing", "scrape"}
  /\ Sub!Init /\ Operators!FilterInit /\ Lexer!LexerInit
  /\ Pages!ListingInit /\ Metrics!Init

Configure ==
  /\ \/ subject = "subscription" /\ Sub!Next
     \/ subject = "topic" /\ Top!Next
  /\ UNCHANGED <<subject, tokens, text, listing, scrape>>
Filter ==
  /\ \/ subject = "operators" /\ Operators!FilterNext
     \/ subject = "prefixes" /\ Prefixes!FilterNext
     \/ subject = "comparisons" /\ Comparisons!FilterNext
  /\ UNCHANGED <<subject, configuration, text, listing, scrape>>
Tokenize ==
  /\ subject = "text" /\ Lexer!LexerNext
  /\ UNCHANGED <<subject, configuration, tokens, listing, scrape>>
WalkPages ==
  /\ subject = "listing" /\ Pages!ListingNext
  /\ UNCHANGED <<subject, configuration, tokens, text, scrape>>
ScrapeMetrics ==
  /\ subject = "scrape" /\ Metrics!Next
  /\ UNCHANGED <<subject, configuration, tokens, text, listing>>

Next == Configure \/ Filter \/ Tokenize \/ WalkPages \/ ScrapeMetrics

Spec == Init /\ [][Next]_<<subject, configuration, tokens, text, listing, scrape>>

Interchangeable == Permutations({c1, c2}) \cup Permutations({n1, n2, n3})

-----------------------------------------------------------------------------
\* The property of Configuration, of a subscription or a topic: concurrent
\* updates with masks lose nothing.
NoUpdateLost ==
  IF subject = "topic" THEN Top!NoUpdateLost ELSE Sub!NoUpdateLost

\* The property of Configuration, of a subscription or a topic: a resource that
\* is sent back as it was read changes nothing.
ReadBackUnchanged ==
  IF subject = "topic" THEN Top!ReadBackUnchanged ELSE Sub!ReadBackUnchanged

\* The property of FilterParser: Filter::parse and matches give a filter the
\* meaning its operators and parentheses say.
FilterMeansWhatItSays ==
  CASE subject = "prefixes" -> Prefixes!FilterMeansWhatItSays
    [] subject = "comparisons" -> Comparisons!FilterMeansWhatItSays
    [] OTHER -> Operators!FilterMeansWhatItSays

\* The property of FilterLexer: tokenize neither loses nor mistakes a character.
TextIsItsTokens == Lexer!TextIsItsTokens

\* The property of Listing: a walk through the pages of list_subscriptions
\* accounts for all that is listed.
WalkAccountsForAll == Pages!WalkAccountsForAll

\* The property of Scrape: render leaves out nothing that exists all the time.
ScrapeComplete == Metrics!ScrapeComplete

=============================================================================

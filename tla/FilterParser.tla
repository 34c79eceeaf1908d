----------------------------- MODULE FilterParser -----------------------------
(***************************************************************************)
(* The filter language of a subscription: the recursive-descent parser and *)
(* the evaluator, against a definition of the language that does not       *)
(* descend: it splits the tokens at the operator that binds least.         *)
(*                                                                         *)
(* The specification enumerates every sequence of tokens up to a length;   *)
(* what the tokenizer makes of the text is the subject of FilterLexer.     *)
(***************************************************************************)
EXTENDS Naturals, Sequences, SequencesExt, FiniteSetsExt

CONSTANTS
    Kinds,          \* the kinds of tokens that occur
    Keys,           \* attribute keys, as sequences
    Values,         \* string literals and attribute values, as sequences
    MaxTokens       \* bound: length of a filter

VARIABLE tokens     \* the tokens of a filter

-----------------------------------------------------------------------------
(* Tokens and attributes *)

\* "prefix" is the identifier hasPrefix, "ident" is any other.
Texts(kind) ==
    CASE kind \in {"attribute", "attribute_has"} -> Keys
      [] kind = "str" -> Values
      [] OTHER -> {<<>>}

Token == UNION {{[kind |-> k, text |-> s] : s \in Texts(k)} : k \in Kinds}

\* A message has no attributes at all, or a map of them.
Attributes ==
    {[some |-> FALSE, map |-> <<>>]}
    \cup {[some |-> TRUE, map |-> m] : m \in UNION {[K -> Values] : K \in SUBSET Keys}}

Has(attrs, key) == attrs.some /\ key \in DOMAIN attrs.map

-----------------------------------------------------------------------------
(* Parser: every parse function returns whether it succeeded, the expression
   and the position of the next token. *)

Failed == [ok |-> FALSE, expr |-> <<>>, pos |-> 0]
Parsed(expr, pos) == [ok |-> TRUE, expr |-> expr, pos |-> pos]

peek(ts, p) == IF p <= Len(ts) THEN ts[p].kind ELSE "end"

\* The kinds of the n tokens from p on: what expect, expect_string and
\* expect_attribute demand one after the other.
Follows(ts, p, kinds) == \A i \in 1..Len(kinds) : peek(ts, p + i - 1) = kinds[i]

RECURSIVE parse_or(_, _), parse_and(_, _), parse_not(_, _), parse_primary(_, _)
RECURSIVE OrTail(_, _), AndTail(_, _)

Joined(op, left, right) ==
    IF right.ok THEN Parsed(<<op, left.expr, right.expr>>, right.pos) ELSE Failed

OrTail(ts, left) ==
    IF left.ok /\ peek(ts, left.pos) = "or"
    THEN OrTail(ts, Joined("or", left, parse_and(ts, left.pos + 1)))
    ELSE left

parse_or(ts, p) == OrTail(ts, parse_and(ts, p))

AndTail(ts, left) ==
    IF left.ok /\ peek(ts, left.pos) = "and"
    THEN AndTail(ts, Joined("and", left, parse_not(ts, left.pos + 1)))
    ELSE left

parse_and(ts, p) == AndTail(ts, parse_not(ts, p))

\* Variant: NOT takes all that AND joins.
NotOverAnd(ts, p) ==
    IF peek(ts, p) = "not"
    THEN LET inner == parse_and(ts, p + 1)
         IN  IF inner.ok THEN Parsed(<<"not", inner.expr>>, inner.pos) ELSE Failed
    ELSE parse_primary(ts, p)

parse_not(ts, p) ==
    IF peek(ts, p) = "not"
    THEN LET inner == parse_not(ts, p + 1)
         IN  IF inner.ok THEN Parsed(<<"not", inner.expr>>, inner.pos) ELSE Failed
    ELSE parse_primary(ts, p)

parse_primary(ts, p) ==
    CASE peek(ts, p) = "(" ->
            LET inner == parse_or(ts, p + 1)
            IN  IF inner.ok /\ peek(ts, inner.pos) = ")"
                THEN Parsed(inner.expr, inner.pos + 1) ELSE Failed
      [] peek(ts, p) = "attribute" ->
            IF peek(ts, p + 1) \in {"=", "!="} /\ peek(ts, p + 2) = "str"
            THEN Parsed(<<"eq", ts[p].text, ts[p + 2].text, ts[p + 1].kind = "!=">>, p + 3)
            ELSE Failed
      [] peek(ts, p) = "attribute_has" -> Parsed(<<"has", ts[p].text>>, p + 1)
      [] peek(ts, p) = "prefix" ->
            IF Follows(ts, p + 1, <<"(", "attribute", ",", "str", ")">>)
            THEN Parsed(<<"prefix", ts[p + 2].text, ts[p + 4].text>>, p + 6)
            ELSE Failed
      [] OTHER -> Failed

\* expect_end: the expression has to take every token.
Filter_parse(ts) ==
    LET r == parse_or(ts, 1) IN IF r.ok /\ r.pos > Len(ts) THEN r ELSE Failed

RECURSIVE eval(_, _)

EvalEq(attrs, key, value, negated) ==
    (Has(attrs, key) /\ attrs.map[key] = value) # negated

eval(e, attrs) ==
    CASE e[1] = "eq" -> EvalEq(attrs, e[2], e[3], e[4])
      [] e[1] = "prefix" -> Has(attrs, e[2]) /\ IsPrefix(e[3], attrs.map[e[2]])
      [] e[1] = "has" -> Has(attrs, e[2])
      [] e[1] = "and" -> eval(e[2], attrs) /\ eval(e[3], attrs)
      [] e[1] = "or" -> eval(e[2], attrs) \/ eval(e[3], attrs)
      [] e[1] = "not" -> ~eval(e[2], attrs)

-----------------------------------------------------------------------------
(* The language, by splitting: the set of truth values a sequence of tokens
   denotes, which is empty when it is not a filter. *)

Depth(ts, i) ==
    Quantify(1..(i - 1), LAMBDA j : ts[j].kind = "(")
      - Quantify(1..(i - 1), LAMBDA j : ts[j].kind = ")")

Outside(ts, kind) == {i \in 1..Len(ts) : ts[i].kind = kind /\ Depth(ts, i) = 0}

Shape(ts) == [i \in 1..Len(ts) |-> ts[i].kind]

AtomMeans(ts, attrs) ==
    CASE Shape(ts) = <<"attribute_has">> -> {Has(attrs, ts[1].text)}
      [] Shape(ts) = <<"attribute", "=", "str">> ->
            {Has(attrs, ts[1].text) /\ attrs.map[ts[1].text] = ts[3].text}
      [] Shape(ts) = <<"attribute", "!=", "str">> ->
            {Has(attrs, ts[1].text) => attrs.map[ts[1].text] # ts[3].text}
      [] Shape(ts) = <<"prefix", "(", "attribute", ",", "str", ")">> ->
            {Has(attrs, ts[3].text) /\ \E s \in {attrs.map[ts[3].text]} :
                Len(ts[5].text) <= Len(s) /\ SubSeq(s, 1, Len(ts[5].text)) = ts[5].text}
      [] OTHER -> {}

RECURSIVE Means(_, _)
Means(ts, attrs) ==
    LET Around(i) == <<SubSeq(ts, 1, i - 1), SubSeq(ts, i + 1, Len(ts))>>
        or == Outside(ts, "or")
        and == Outside(ts, "and")
    IN  IF or # {} THEN LET s == Around(Min(or))
                        IN  {x \/ y : x \in Means(s[1], attrs), y \in Means(s[2], attrs)}
        ELSE IF and # {} THEN LET s == Around(Min(and))
                              IN  {x /\ y : x \in Means(s[1], attrs), y \in Means(s[2], attrs)}
        ELSE IF ts # <<>> /\ ts[1].kind = "not" THEN {~x : x \in Means(Tail(ts), attrs)}
        ELSE IF Len(ts) > 2 /\ ts[1].kind = "(" /\ ts[Len(ts)].kind = ")"
             THEN Means(SubSeq(ts, 2, Len(ts) - 1), attrs)
        ELSE AtomMeans(ts, attrs)

-----------------------------------------------------------------------------
FilterInit == tokens = <<>>

Write(t) == Len(tokens) < MaxTokens /\ tokens' = Append(tokens, t)

FilterNext == \E t \in Token : Write(t)

FilterSpec == FilterInit /\ [][FilterNext]_tokens

\* Filter::parse accepts exactly the filters of the language, and what it
\* accepts matches exactly the messages the filter denotes, whether a message
\* has the attribute, lacks it or has no attributes: "NOT binds tighter than
\* AND, AND tighter than OR", parentheses first, and != holds of what is missing.
FilterMeansWhatItSays ==
    LET r == Filter_parse(tokens)
    IN  \A attrs \in Attributes :
            Means(tokens, attrs) = IF r.ok THEN {eval(r.expr, attrs)} ELSE {}
=============================================================================

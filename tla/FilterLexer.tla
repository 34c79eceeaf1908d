----------------------------- MODULE FilterLexer -----------------------------
(***************************************************************************)
(* tokenize: from the text of a filter to its tokens.                      *)
(*                                                                         *)
(* A character stands for its class; the words "and" (with "or" and "not", *)
(* in any case) and "attributes" are one letter each, so that "and" is a   *)
(* keyword and "andx" is not.  The tokenizer works on the UTF-8 bytes of   *)
(* the text: "e'" is a character of two bytes, high1 and high2.            *)
(***************************************************************************)
EXTENDS Naturals, Sequences, SequencesExt, FiniteSetsExt

CONSTANTS
    Chars,          \* the characters a filter is written with
    MaxChars        \* bound: length of a text

VARIABLE text       \* a text: the filter, or the string it shall contain

-----------------------------------------------------------------------------
(* Characters and bytes *)

Space == " "
Quote == "quote"
Backslash == "backslash"
Punctuation == {"(", ")", ",", "="}
Letters == {"x", "_", "and", "attributes"}
WordBytes == Letters \cup {"1", "-"}

Utf8(t) == FlattenSeq([i \in 1..Len(t) |->
                          IF t[i] = "e'" THEN <<"high1", "high2">> ELSE <<t[i]>>])

\* `b as char`: the character whose number the byte is.  Only for ASCII is it
\* the character that the byte encodes.
as_char(b) == IF b = "high1" THEN "latin1" ELSE IF b = "high2" THEN "latin2" ELSE b

-----------------------------------------------------------------------------
(* The tokenizer.  Every reader returns whether it succeeded, what it read and
   where it stopped. *)

Failed == [ok |-> FALSE, read |-> <<>>, next |-> 0]
Done(read, next) == [ok |-> TRUE, read |-> read, next |-> next]

RECURSIVE ReadString(_, _, _)

\* From behind the opening quote.
ReadString(bytes, i, s) ==
    IF i > Len(bytes) THEN Failed
    ELSE IF bytes[i] = Quote THEN Done(s, i + 1)
    ELSE IF bytes[i] = Backslash
         THEN IF i + 1 <= Len(bytes) /\ bytes[i + 1] \in {Quote, Backslash}
              THEN ReadString(bytes, i + 2, Append(s, bytes[i + 1]))
              ELSE Failed
    ELSE ReadString(bytes, i + 1, Append(s, as_char(bytes[i])))

WordEnd(bytes, i) ==
    Min({j \in i..(Len(bytes) + 1) : j > Len(bytes) \/ bytes[j] \notin WordBytes})

Token(kind, s) == [kind |-> kind, text |-> s]

\* `attributes` has to be followed by a dot or a colon and a key.
ReadAttribute(bytes, i) ==
    LET end == WordEnd(bytes, i + 1)
    IN  IF i <= Len(bytes) /\ bytes[i] \in {".", ":"} /\ end > i + 1
        THEN Done(Token(IF bytes[i] = "." THEN "attribute" ELSE "attribute_has",
                        SubSeq(bytes, i + 1, end - 1)), end)
        ELSE Failed

ReadWord(bytes, i) ==
    LET end == WordEnd(bytes, i)
        word == SubSeq(bytes, i, end - 1)
    IN  IF word = <<"and">> THEN Done(Token("and", <<>>), end)
        ELSE IF word = <<"attributes">> THEN ReadAttribute(bytes, end)
        ELSE Done(Token("ident", word), end)

\* Variant: a lone exclamation mark is taken with whatever follows it.
ReadBangAlone(bytes, i) ==
    IF i + 1 <= Len(bytes) THEN Done(Token("!=", <<>>), i + 2) ELSE Failed

ReadBang(bytes, i) ==
    IF i + 1 <= Len(bytes) /\ bytes[i + 1] = "="
    THEN Done(Token("!=", <<>>), i + 2) ELSE Failed

ReadToken(bytes, i) ==
    CASE bytes[i] \in Punctuation -> Done(Token(bytes[i], <<>>), i + 1)
      [] bytes[i] = "!" -> ReadBang(bytes, i)
      [] bytes[i] = Quote ->
            LET s == ReadString(bytes, i + 1, <<>>)
            IN  IF s.ok THEN Done(Token("str", s.read), s.next) ELSE Failed
      [] bytes[i] \in Letters -> ReadWord(bytes, i)
      [] OTHER -> Failed

RECURSIVE TokensFrom(_, _, _)
TokensFrom(bytes, i, out) ==
    IF i > Len(bytes) THEN Done(out, i)
    ELSE IF bytes[i] = Space THEN TokensFrom(bytes, i + 1, out)
    ELSE LET t == ReadToken(bytes, i)
         IN  IF t.ok THEN TokensFrom(bytes, t.next, Append(out, t.read)) ELSE Failed

tokenize(t) == TokensFrom(Utf8(t), 1, <<>>)

-----------------------------------------------------------------------------
(* Texts *)

\* A string as it is written in a filter.
Literal(s) ==
    <<Quote>> \o FlattenSeq([i \in 1..Len(s) |->
        IF s[i] \in {Quote, Backslash} THEN <<Backslash, s[i]>> ELSE <<s[i]>>]) \o <<Quote>>

Written(t) ==
    CASE t.kind = "str" -> Literal(t.text)
      [] t.kind = "ident" -> t.text
      [] t.kind = "attribute" -> <<"attributes", ".">> \o t.text
      [] t.kind = "attribute_has" -> <<"attributes", ":">> \o t.text
      [] t.kind = "!=" -> <<"!", "=">>
      [] OTHER -> <<t.kind>>

LexerInit == text = <<>>

Write(c) == Len(text) < MaxChars /\ text' = Append(text, c)

LexerNext == \E c \in Chars : Write(c)

LexerSpec == LexerInit /\ [][LexerNext]_text

-----------------------------------------------------------------------------
(* Properties *)

\* The tokens carry all that the text says.  The tokens of a text without
\* strings, written one after the other, are the text without its spaces: no
\* byte is lost or taken twice.  And written with one space between any two
\* they are read as the same tokens: none depends on what stands around it.
TextIsItsTokens ==
    LET r == tokenize(text)
        words == [i \in 1..Len(r.read) |-> Written(r.read[i])]
        again == tokenize(FlattenSeq([i \in 1..Len(words) |-> words[i] \o <<Space>>]))
    IN  r.ok => /\ again.ok /\ again.read = r.read
                /\ \/ Quote \in Range(text)
                   \/ FlattenSeq(words) = SelectSeq(text, LAMBDA c : c # Space)

=============================================================================

------------------------------ MODULE ReadOnly ------------------------------
(***************************************************************************)
(* assert_readonly (safety.rs): does every statement of a batch begin with *)
(* a keyword that only reads?                                              *)
(*                                                                         *)
(* A text is a sequence of tokens: words, quotes, comment marks, newlines, *)
(* parentheses, semicolons.  Space between tokens is left out: the code    *)
(* trims it wherever a token may begin.                                    *)
(***************************************************************************)
EXTENDS Integers, Sequences, SequencesExt

CONSTANTS Words,   \* runs of letters
          Symbols  \* numbers, operators: what means nothing to the code

Readers == {"SELECT", "EXPLAIN"}          \* of READONLY_KEYWORDS
Modifiers == {"ANALYZE", "FORMAT"}        \* VERBOSE is as ANALYZE
Quotes == {"'", "\""}
Breaks == Quotes \cup {";"}  \* what split_statements looks for
Marks == Breaks \cup {"--", "newline", "/*", "*/", "(", ")"}
Vocabulary == Words \cup Symbols \cup Marks

ASSUME VocabularyAssumption ==
  /\ Readers \cup Modifiers \cup {"DELETE", "json"} \subseteq Words
  /\ (Words \cup Symbols) \cap (Marks \cup {""}) = {}
  /\ Words \cap Symbols = {}

Rest(text, i) == SubSeq(text, i + 1, Len(text))

\* What follows the first token that is mark, or nothing.
After(text, mark) ==
  LET at == SelectInSeq(text, LAMBDA token : token = mark)
  IN IF at = 0 THEN <<>> ELSE Rest(text, at)

(***************************************************************************)
(* split_statements                                                        *)
(***************************************************************************)

\* What a token makes of the quote a literal is open in, or of "".
Toggled(quote, token) ==
  CASE quote = "" /\ token \in Quotes -> token
    [] quote # "" /\ token = quote -> ""
    [] OTHER -> quote

\* The quote a literal is open in before token i, or "".
Inside(text, i) ==
  LET quote[j \in 0 .. Len(text)] == IF j = 0 THEN "" ELSE Toggled(quote[j - 1], text[j])
  IN quote[i - 1]

\* Mutant: semicolons in literals separate statements too.
EverySeparator(text) == {i \in DOMAIN text : text[i] = ";"}

Separators(text) == {i \in DOMAIN text : text[i] = ";" /\ Inside(text, i) = ""}

\* No end of a statement is between i and j.
Adjacent(i, j, ends) == i < j /\ \A k \in ends : k <= i \/ j <= k

\* What stands between the separators.  The first statement that does not read
\* is enough to reject the batch, whatever the order.
Statements(text) ==
  LET ends == {0, Len(text) + 1} \cup Separators(text)
  IN {SubSeq(text, e[1] + 1, e[2] - 1) : e \in {e \in ends \X ends : Adjacent(e[1], e[2], ends)}}

Blank(text) == ToSet(text) \subseteq {"newline"}

(***************************************************************************)
(* check_single                                                            *)
(***************************************************************************)

IsNoisy(text) == text # <<>> /\ text[1] \in {"newline", "--", "/*"}

\* A newline, or a comment.
LessNoise(text) ==
  CASE text[1] = "newline" -> Tail(text)
    [] text[1] = "--" -> After(text, "newline")
    [] OTHER -> After(Tail(text), "*/")

\* strip_leading_noise
Stripped(text) ==
  LET from[t \in Seq(Vocabulary)] == IF IsNoisy(t) THEN from[LessNoise(t)] ELSE t
  IN from[text]

\* Newlines are space as well.
Trimmed(text) ==
  LET at == SelectInSeq(text, LAMBDA token : token # "newline")
  IN IF at = 0 THEN <<>> ELSE Rest(text, at - 1)

WithoutWord(text) ==
  IF text # <<>> /\ text[1] \in Words THEN Trimmed(Tail(text)) ELSE text

IsModified(text) == text # <<>> /\ text[1] \in Modifiers

\* FORMAT takes the word after it along.
WithoutModifier(text) ==
  LET rest == Trimmed(Tail(text))
  IN IF text[1] = "FORMAT" THEN WithoutWord(rest) ELSE rest

\* Any modifiers.
SkipWords(text) ==
  LET from[t \in Seq(Vocabulary)] == IF IsModified(t) THEN from[WithoutModifier(t)] ELSE t
  IN from[text]

\* A list in parentheses, nothing being left of a text where it is not closed.
SkipList(text) ==
  CASE text # <<>> /\ text[1] = "(" /\ Contains(text, ")") -> Trimmed(After(text, ")"))
    [] text # <<>> /\ text[1] = "(" /\ ~Contains(text, ")") -> <<>>
    [] OTHER -> text

\* skip_explain_modifiers
SkipModifiers(text) == SkipWords(SkipList(Trimmed(text)))

Inner(text) == SkipModifiers(Tail(text))

Explains(text) == text # <<>> /\ text[1] = "EXPLAIN" /\ Inner(text) # <<>>

\* check_single: a keyword that reads, and a statement that reads after EXPLAIN
\* if there is anything after it.
Reads(text) ==
  LET reads[t \in Seq(Vocabulary)] ==
        IF Explains(t) THEN reads[Stripped(Inner(t))] ELSE t # <<>> /\ t[1] \in Readers
  IN reads[Stripped(text)]

\* assert_readonly
Accepts(text) == \A t \in Statements(text) : Blank(t) \/ Reads(t)

(***************************************************************************)
(* What is expected.                                                       *)
(***************************************************************************)

Closed(text) == Inside(text, Len(text) + 1) = ""
OneStatement(text) == Separators(text) = {} /\ ~Blank(text)

\* A text that does not begin with what EXPLAIN would take for a modifier.
Unmodified(text) == Trimmed(text)[1] \notin Modifiers \cup {"("}

Lacks(text, tokens) == ToSet(text) \cap tokens = {}

\* A comment in front of a statement changes nothing if it has neither quotes nor
\* semicolons, or if those it has leave the two one statement.
IsNoise(comment, a) ==
  Lacks(comment, Breaks) \/ OneStatement(comment \o a) =>
    (Accepts(comment \o a) <=> Accepts(a))

\* The guard follows the structure of a batch: two batches with a semicolon
\* between them are accepted when both are, if no literal is left open in the
\* first; a comment in front of a statement changes nothing, unless its quotes or
\* semicolons divide the text otherwise (split_statements knows no comments, and
\* takes the apostrophe of one for the beginning of a literal); nor does a literal
\* in single quotes, whatever it contains but such a quote; and EXPLAIN changes
\* nothing, with or without modifiers, so an explained write is a write.
GuardFollowsStructure(a, b) ==
  /\ Closed(a) => (Accepts(a \o <<";">> \o b) <=> Accepts(a) /\ Accepts(b))
  /\ OneStatement(a) =>
       /\ Lacks(b, {"newline"}) => IsNoise(<<"--">> \o b \o <<"newline">>, a)
       /\ Lacks(b, {"*/"}) => IsNoise(<<"/*">> \o b \o <<"*/">>, a)
       /\ Closed(a) /\ Lacks(b, {"'"}) => \A w \in {"SELECT", "DELETE"} :
            Accepts(<<w>> \o a \o <<"'">> \o b \o <<"'">>) <=> w \in Readers
       /\ Unmodified(a) =>
            \A modifiers \in {<<>>, <<"FORMAT", "json", "ANALYZE">>, <<"(", "ANALYZE", ")">>} :
              Accepts(<<"EXPLAIN">> \o modifiers \o a) <=> Accepts(a)
=============================================================================

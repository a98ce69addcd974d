---------------------------- MODULE MCAlgorithms ----------------------------
(***************************************************************************)
(* The pure functions behind the agent-facing calls, over bounded inputs.  *)
(* One input after the other is chosen; a property is about the answers to *)
(* it.                                                                     *)
(***************************************************************************)
EXTENDS Statements, ReadOnly, MCSources

\* A schema of two tables.
users == [schema |-> "app", name |-> "users", columns |-> <<"id", "email">>]
orders == [schema |-> "app", name |-> "orders", columns |-> <<"id", "total">>]
Schema == <<users, orders>>

MCNames == {"users", "orders", "userz", "id", "email", "total", "emial", "u", "o", "n"}

Alike(jw) == [blank |-> FALSE, same |-> FALSE, within |-> FALSE, jw |-> jw]

MCLikeness ==
  [ref \in {<<n>> : n \in MCNames} |->
     [n \in MCNames |->
        IF <<ref[1], n>> \in {<<"userz", "users">>, <<"emial", "email">>}
          THEN Alike(92) ELSE Alike(30)]]

(***************************************************************************)
(* Statements: up to two items, a misspelt column or table among them.     *)
(***************************************************************************)

Item(q, c, as, counted) ==
  [qualifier |-> q, column |-> c, as |-> as, counted |-> counted]

FirstItems ==
  {Item(q, c, as, FALSE) : q \in {None, "users", "u"},
                           c \in {"id", "email", "total", "emial"}, as \in {None, "n"}}
    \cup {Item(None, "id", "n", TRUE)}

SecondItems ==
  {Item(None, "email", None, FALSE), Item("o", "total", None, FALSE),
   Item("orders", "total", "n", FALSE), Item(None, "email", None, TRUE)}

ItemLists == {<<i>> : i \in FirstItems} \cup {<<i, j>> : i \in FirstItems, j \in SecondItems}

Froms == [table : {"users", "userz"}, alias : {None, "u", "orders"}]
Seconds == {None} \cup [table : {"orders"}, alias : {None, "o"}]
Filters == {None, [qualifier |-> None, column |-> "email"],
            [qualifier |-> "users", column |-> "emial"]}

AskStatement ==
  \E items \in ItemLists, from \in Froms, second \in Seconds,
     joined \in {"JOIN", "INNER", ","}, filter \in Filters :
    Ask([st |-> [items |-> items, from |-> from, second |-> second,
                 joined |-> joined, filter |-> filter]])

\* Every issue of a statement is one, and one it has is reported.  validate.rs
StatementsAreJudged == AskedAbout("statement") => PlainIsJudged(Schema, input.st)

\* A statement the schema can answer gets no issue.
ValidatorStaysSilent == AskedAbout("statement") => StaysSilent(Schema, input.st)

(***************************************************************************)
(* Names: tables of up to five columns, one more than an answer names, and *)
(* what the name asked about has in common with each.                      *)
(***************************************************************************)

Table(schema, name, columns) == [schema |-> schema, name |-> name, columns |-> columns]

ASSUME NoneIsNoName == None \notin {"a", "b", "c", "d", "e", "s", "t"}

Letters == <<"a", "b", "c", "d", "e">>

\* No element twice.
Lists(S) == {l \in BoundedSeq(S, Cardinality(S)) : IsInjective(l)}

\* Empty, the same, below the threshold, below it but for the bonus, and with
\* the bonus cut to a perfect score.
Likes ==
  {[Alike(0) EXCEPT !.blank = TRUE, !.within = TRUE],
   [Alike(100) EXCEPT !.same = TRUE, !.within = TRUE], Alike(58),
   [Alike(58) EXCEPT !.within = TRUE], [Alike(97) EXCEPT !.within = TRUE]}

AskResolve ==
  \E n \in 0 .. 5 :
    LET columns == SubSeq(Letters, 1, n)
    IN \E like \in [ToSet(columns) -> Likes] :
         Ask([t |-> Table(None, "a", columns), like |-> like])

Synonyms == [alias : {"x", "y"}, table : {None, "a", "b"}, target : {"b", "c", "zz"}]

AskSynonyms ==
  \E columns \in Lists({"b", "c"}), synonyms \in BoundedSeq(Synonyms, 2) :
    Ask([t |-> Table(None, "a", columns), synonyms |-> synonyms,
         like |-> [n \in {"b", "c"} |-> Alike(58)]])

AskHint ==
  \E x \in Lists({"a", "b"}), y \in Lists({"a", "b"}), like \in [{"a", "b"} -> Likes],
     complaint \in {"column", "table", "ambiguous", "other"},
     ref \in {<<"x">>, <<"a", "x">>, <<"zz", "x">>} :
    Ask([db |-> <<Table(None, "a", x), Table(None, "b", y)>>, like |-> like,
         message |-> [complaint |-> complaint, ref |-> ref]])

\* The best there is answers for a name, synonyms answer in their scope only,
\* and a hint is the best of the database.  resolve.rs, synonyms.rs, hint.rs
NamesAreResolved ==
  /\ AskedAbout("resolve") =>
       AnswerIsTheBest(input.t, input.like, ResolveColumn(input.t, input.like))
  /\ AskedAbout("synonyms") =>
       SynonymsStayInScope(input.t, "x", input.synonyms, input.like,
         ResolveWithSynonyms(input.t, "x", input.synonyms, input.like))
  /\ AskedAbout("hint") =>
       HintIsTheBest(input.db, input.message, input.like,
         HintForError(input.db, input.message, input.like))

\* Members name a schema for all their tables or for none.
Members ==
  {<<>>} \cup {[i \in DOMAIN names |-> Table(None, names[i], <<>>)] :
                 names \in Lists({"a", "b"})}
         \cup {[i \in DOMAIN refs |-> Table(refs[i][1], refs[i][2], <<>>)] :
                 refs \in Lists({<<"s", "a">>, <<"t", "a">>, <<"s", "b">>})}

AskFederation ==
  \E fed \in BoundedSeq(Members, 2) : Ask([fed |-> fed])

\* A table that is listed is found by the name it is listed under.  federation.rs
ListedTablesAreFound == AskedAbout("federation") => ListedIsFound(input.fed)

(***************************************************************************)
(* Texts: what is accepted, described and rendered.                        *)
(***************************************************************************)

GuardTokens == {"SELECT", "EXPLAIN", "ANALYZE", "FORMAT", "DELETE", "'", "\"", ";", "--",
                "newline", "/*", "*/", "(", ")"}

AskGuard ==
  \E a \in BoundedSeq(GuardTokens, 3),
     b \in {<<>>, <<"SELECT">>, <<"DELETE">>, <<"\"", ";">>, <<"DELETE", "--">>, <<"/*", "newline">>} :
    Ask([first |-> a, second |-> b])

\* A batch is accepted by the structure of its statements.  safety.rs
GuardIsStructural == AskedAbout("guard") => GuardFollowsStructure(input.first, input.second)

\* Three tables of two sizes, one of which may refer to another.
Described(name, n, words, fks) ==
  [schema |-> None, name |-> name, bare |-> 1, size |-> [part \in ToSet(Parts) |-> n],
   inName |-> words[1], inColumns |-> words[2], fks |-> fks]

Hints == {<<0, 0>>, <<0, 1>>, <<0, 5>>, <<1, 0>>, <<2, 0>>}

AskDescribe ==
  \E v \in Hints, w \in Hints, u \in Hints, x \in {{}, {<<"b">>}}, y \in {{}, {<<"c">>}},
     names \in {None, <<<<"c">>, <<"zz">>, <<"b">>>>},
     wanted \in {ToSet(Parts), ToSet(Parts) \ {"examples"}}, budget \in {1, 2, 3, 6, 20} :
    Ask([db |-> <<Described("a", 1, v, x), Described("b", 0, w, y), Described("c", 1, u, {})>>,
         names |-> names, wanted |-> wanted, budget |-> budget])

\* What matters most to a hint is given up last.  agent.rs
DescriptionsKeepWhatMatters ==
  AskedAbout("describe") =>
    DescriptionKeepsWhatMatters(input.db, input.names, input.wanted, input.budget)

\* A result without columns has no rows, and so was not cut.
AskResult ==
  \E marker \in {1, 3}, rows \in BoundedSeq({1, 2}, 4), truncated \in BOOLEAN,
     named \in BOOLEAN, budget \in 0 .. 12 :
    /\ named \/ (rows = <<>> /\ ~truncated)
    /\ Ask([result |-> [named |-> named, header |-> 2, marker |-> marker, rows |-> rows, truncated |-> truncated],
            budget |-> budget])

\* What is shown of a result says when it was cut, by whichever limit and
\* backend, and a cost that is not known says why.  lib.rs, backends/
ResultsAreHonest ==
  /\ AskedAbout("result") => ResultIsHonest(input.result, input.budget)
  /\ AskedAbout("run") => RunIsHonest(input.backend, input.st, 2, input.budget)
  /\ AskedAbout("plan") => CostIsExplained(input.backend, input.plan)

Subjects ==
  {"statement", "resolve", "synonyms", "hint", "federation", "guard", "describe", "result", "table",
   "column", "kind", "run", "plan", "suggestion", "diff", "snapshot", "tool", "document", "date"}

Init == about \in Subjects /\ input = None

Choose ==
  /\ input = None /\ UNCHANGED about
  /\ \/ about = "statement" /\ AskStatement
     \/ about = "resolve" /\ AskResolve
     \/ about = "synonyms" /\ AskSynonyms
     \/ about = "hint" /\ AskHint
     \/ about = "federation" /\ AskFederation
     \/ about = "guard" /\ AskGuard
     \/ about = "describe" /\ AskDescribe
     \/ about = "result" /\ AskResult
     \/ about = "table" /\ AskTable
     \/ about = "column" /\ AskColumn
     \/ about = "kind" /\ AskKind
     \/ about = "run" /\ AskRun
     \/ about = "plan" /\ AskPlan
     \/ about = "suggestion" /\ AskSuggestion
     \/ about = "diff" /\ AskDiff
     \/ about = "snapshot" /\ AskSnapshot
     \/ about = "tool" /\ AskTool
     \/ about = "document" /\ AskDocument
     \/ about = "date" /\ AskDate

Answered == input # None /\ input' = None /\ UNCHANGED about

Next == Choose \/ Answered

Spec == Init /\ [][Next]_<<about, input>>
=============================================================================

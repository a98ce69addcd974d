------------------------------ MODULE Describe ------------------------------
(***************************************************************************)
(* Texts cut to a token budget: the description of a schema                *)
(* (describe_for_agent, agent.rs) and the result of a query                *)
(* (render_table_for_agent, lib.rs).                                       *)
(*                                                                         *)
(* The token count of a text is taken to be the sum over its parts.  A     *)
(* table has the count of its bare description and of each part that can   *)
(* be left out, and the words of the hint that its name and its columns    *)
(* contain.  Its foreign keys are the references to the tables they name.  *)
(***************************************************************************)
EXTENDS Catalog

\* The parts in the order they are given up; the levels of the code.
Parts == <<"samples", "examples", "comments", "fks", "columns">>

Boost == 5  \* what a table gains from a foreign key to or from the best ones

(***************************************************************************)
(* The order of the tables.                                                *)
(***************************************************************************)

Relevance(t) == 10 * t.inName + t.inColumns

RefersTo(t, other) == t.fks \cap {<<other.name>>, QualifiedName(other)} # {}

\* The tables next to a best one gain Boost.  The scores change while the code
\* goes through the tables: one that reaches the highest score in this way
\* passes for a best one when later tables look for references to themselves.
Gains(ts, own, top, scores, i) ==
  /\ scores[i] # top
  /\ \/ \E b \in DOMAIN ts : own[b] = top /\ RefersTo(ts[i], ts[b])
     \/ \E j \in DOMAIN ts : scores[j] = top /\ RefersTo(ts[j], ts[i])

Raise(ts, own, top, scores, i) ==
  IF Gains(ts, own, top, scores, i) THEN [scores EXCEPT ![i] = @ + Boost] ELSE scores

Boosted(ts, own, top) ==
  LET raised[n \in 0 .. Len(ts)] ==
        IF n = 0 THEN own ELSE Raise(ts, own, top, raised[n - 1], n)
  IN IF top = 0 THEN own ELSE raised[Len(ts)]

Relevances(ts) == [i \in DOMAIN ts |-> Relevance(ts[i])]

Scores(ts) == Boosted(ts, Relevances(ts), Max({0} \cup ToSet(Relevances(ts))))

\* Mutant: the least relevant first.
Ascending(ts, scores) ==
  LET order == Ranking([i \in DOMAIN ts |-> -scores[i]])
  IN [k \in DOMAIN ts |-> ts[order[k]]]

\* By falling score; tables with the same score stay in order.
Ranked(ts, scores) ==
  LET order == Ranking(scores) IN [k \in DOMAIN ts |-> ts[order[k]]]

\* The tables asked for, those that are not there left out; else all of them.
Asked(db, names) ==
  IF names = None THEN db
  ELSE FlattenSeq([i \in DOMAIN names |->
         LET at == TableAt(db, names[i]) IN IF at = 0 THEN <<>> ELSE <<db[at]>>])

(***************************************************************************)
(* The truncation.  Attempt k gives up the first k parts, and when there   *)
(* are no more parts one table after the other, the last first, but one.   *)
(***************************************************************************)

SumOver(s, f(_)) == SumFunction([i \in DOMAIN s |-> f(s[i])])

\* Mutant: parts are given up but for those of the last table.
LevelsOf(k) == SubSeq(Parts, Min({k, 4}) + 1, 5)

\* The parts attempt k leaves in.
Levels(k) == SubSeq(Parts, Min({k, Len(Parts)}) + 1, Len(Parts))

TablesLeft(ts, k) == SubSeq(ts, 1, Len(ts) - Max({0, k - Len(Parts)}))

\* The token count of a rendering.
Tokens(ts, wanted, k) ==
  SumOver(TablesLeft(ts, k), LAMBDA t :
    t.bare + SumOver(Levels(k), LAMBDA part : IF part \in wanted THEN t.size[part] ELSE 0))

Attempts(ts) == 0 .. Len(Parts) + Max({0, Len(ts) - 1})

Attempt(ts, wanted, k) ==
  [tables |-> TablesLeft(ts, k), levels |-> Levels(k), tokens |-> Tokens(ts, wanted, k)]

\* The first attempt within the budget.  wanted are the parts the options include.
Fitted(ts, wanted, budget) ==
  LET fitting == {k \in Attempts(ts) : Tokens(ts, wanted, k) <= budget}
  IN IF fitting = {} THEN None ELSE Attempt(ts, wanted, Min(fitting))

DescribeForAgent(db, names, hinted, wanted, budget) ==
  LET asked == Asked(db, names)
  IN Fitted(IF hinted THEN Ranked(asked, Scores(asked)) ELSE asked, wanted, budget)

(***************************************************************************)
(* A result of rows; sizes[i] is the count of row i.  Rows are given up    *)
(* from the bottom, and a marker tells that there were more.               *)
(***************************************************************************)

\* Mutant: only what the runner has cut is marked.
MarksRunnersCut(result, dropped) == result.truncated

Marked(result, dropped) == result.truncated \/ dropped > 0

TableTokens(result, dropped) ==
  result.header + SumOver(SubSeq(result.rows, 1, Len(result.rows) - dropped), LAMBDA n : n)
    + (IF Marked(result, dropped) THEN result.marker ELSE 0)

Renderings == [rows : Int, marked : BOOLEAN]

ASSUME NoneIsNoRendering == None \notin Renderings

\* The rows left and whether they are marked, or None.  In place of a result
\* without columns stands a note, which header is then the count of.
RenderTable(result, budget) ==
  LET dropped == IF result.named THEN 0 .. Len(result.rows) ELSE {0}
      tokens(d) == IF result.named THEN TableTokens(result, d) ELSE result.header
      fitting == {d \in dropped : tokens(d) <= budget}
  IN IF fitting = {} THEN None
     ELSE [rows |-> Len(result.rows) - Min(fitting),
           marked |-> result.named /\ Marked(result, Min(fitting))]

(***************************************************************************)
(* What is expected.                                                       *)
(***************************************************************************)

Joined(t, u) == RefersTo(t, u) \/ RefersTo(u, t)

\* A table whose own words lead by more than what foreign keys may add.
Leads(ts, i) ==
  \A j \in DOMAIN ts \ {i} : Relevance(ts[i]) > Relevance(ts[j]) + Boost

\* i is joined to a best table and is not one itself, and j, which has no more
\* of the hint in it, is joined to no table at all.
Companion(ts, i, j) ==
  /\ \E b \in DOMAIN ts :
       /\ \A k \in DOMAIN ts : Relevance(ts[b]) >= Relevance(ts[k])
       /\ Relevance(ts[b]) > Relevance(ts[i])
       /\ Joined(ts[i], ts[b])
  /\ Relevance(ts[i]) >= Relevance(ts[j])
  /\ \A k \in DOMAIN ts : ~Joined(ts[j], ts[k])

\* A description is within its budget and gives up tables only when it has
\* given up everything else.  Of the tables the hint is about it keeps the one
\* that clearly leads, and it does not keep a stranger rather than a table that
\* is joined to a best one.  With more budget it never says less.
KeepsWhatMatters(ts, d, more, budget) ==
  d # None =>
       /\ d.tokens <= budget
       /\ Len(d.tables) < Len(ts) => d.levels = <<>>
       /\ \A i \in DOMAIN ts : Leads(ts, i) => d.tables[1] = ts[i]
       /\ \A i, j \in DOMAIN ts :
            Companion(ts, i, j) /\ Contains(d.tables, ts[j]) => Contains(d.tables, ts[i])
       /\ IsPrefix(d.tables, more.tables) /\ IsSuffix(d.levels, more.levels)

DescriptionKeepsWhatMatters(db, names, wanted, budget) ==
  KeepsWhatMatters(Asked(db, names), DescribeForAgent(db, names, TRUE, wanted, budget),
                   DescribeForAgent(db, names, TRUE, wanted, budget + 1), budget)

\* A rendered result tells when it is not the whole result and only then, and
\* with more budget never has fewer rows.
ResultIsHonest(result, budget) ==
  LET r == RenderTable(result, budget)
      more == RenderTable(result, budget + 1)
  IN r # None =>
       /\ r.marked <=> (r.rows < Len(result.rows) \/ result.truncated)
       /\ more # None /\ more.rows >= r.rows
=============================================================================

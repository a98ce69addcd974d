------------------------------ MODULE Runners ------------------------------
(***************************************************************************)
(* What a statement brings back: run_sql, run_sql_streaming and            *)
(* preview_cost of the backends (introspector.rs, backends/) and the       *)
(* calls of SchemaCache that render it (lib.rs).                           *)
(*                                                                         *)
(* A statement has the sequence of its rows, [bytes, tokens], says whether *)
(* it has columns (named) and how many rows Snowflake sends at once        *)
(* (sent).  A result is what render_table_for_agent takes.  limit is 200   *)
(* in every call.                                                          *)
(***************************************************************************)
EXTENDS Describe, FiniteSetsExt

Result(named, rows, truncated) == [named |-> named, rows |-> rows, truncated |-> truncated]

FirstRows(rows, n) == SubSeq(rows, 1, Min({n, Len(rows)}))

(***************************************************************************)
(* A limit of rows.                                                        *)
(***************************************************************************)

\* SQLite, PostgreSQL and MySQL fetch every row; columns are those of the first.
FetchAll(st, limit) ==
  Result(st.rows # <<>>, FirstRows(st.rows, limit), Len(st.rows) > limit)

Keep(result, row, limit) ==
  IF Len(result.rows) >= limit THEN [result EXCEPT !.truncated = TRUE]
  ELSE [result EXCEPT !.rows = Append(@, row)]

\* SQL Server sends the columns ahead of the rows, which are read to the end.
ReadStream(st, limit) ==
  LET read[k \in 0 .. Len(st.rows)] ==
        IF k = 0 THEN Result(st.named, <<>>, FALSE) ELSE Keep(read[k - 1], st.rows[k], limit)
  IN read[Len(st.rows)]

\* Mutant: no more than is kept is asked for.
AsksForLimit(limit) == limit

Asks(limit) == limit + 1

\* BigQuery is asked for one row more than is kept.
FetchOneMore(st, limit) ==
  LET sent == FirstRows(st.rows, Asks(limit))
  IN Result(st.named, FirstRows(sent, limit), Len(sent) > limit)

\* Snowflake says how many rows there are and sends the first of them.
FetchPartition(st, limit) ==
  Result(st.named, FirstRows(FirstRows(st.rows, st.sent), limit), Len(st.rows) > limit)

Runnable == {"sqlite", "postgres", "mysql", "mssql", "bigquery", "snowflake"}

RunSql(backend, st, limit) ==
  CASE backend \in {"sqlite", "postgres", "mysql"} -> FetchAll(st, limit)
    [] backend = "mssql" -> ReadStream(st, limit)
    [] backend = "bigquery" -> FetchOneMore(st, limit)
    [] backend = "snowflake" -> FetchPartition(st, limit)

(***************************************************************************)
(* A budget of tokens.                                                     *)
(***************************************************************************)

EstimateTokensFromBytes(bytes) == (bytes * 3) \div 10

\* The first row always is within the budget.
Overruns(taken, row, budget) ==
  taken.rows # <<>> /\ taken.tokens + EstimateTokensFromBytes(row.bytes) > budget

Take(taken, row, budget) ==
  IF taken.truncated \/ Overruns(taken, row, budget) THEN [taken EXCEPT !.truncated = TRUE]
  ELSE [taken EXCEPT !.tokens = @ + EstimateTokensFromBytes(row.bytes), !.rows = Append(@, row)]

\* Rows are taken until the next would exceed the budget.
StreamRows(st, budget) ==
  LET taken[k \in 0 .. Len(st.rows)] ==
        IF k = 0 THEN [tokens |-> 0, rows |-> <<>>, truncated |-> FALSE]
        ELSE Take(taken[k - 1], st.rows[k], budget)
      end == taken[Len(st.rows)]
  IN Result(end.rows # <<>>, end.rows, end.truncated)

\* The default is run_sql.
RunSqlStreaming(backend, st, limit, budget) ==
  IF backend \in {"sqlite", "postgres", "mysql"} THEN StreamRows(st, budget)
  ELSE RunSql(backend, st, limit)

\* What of a result the rendering counts.
Counted(result, st) ==
  [named |-> result.named, rows |-> [i \in DOMAIN result.rows |-> result.rows[i].tokens],
   truncated |-> result.truncated, header |-> st.header, marker |-> st.marker]

Rendered(result, st, budget) == RenderTable(Counted(result, st), budget)

(***************************************************************************)
(* The cost of a statement.  PostgreSQL is asked for a plan, which may     *)
(* fail, not decode, or lack its parts; the others are not asked.          *)
(***************************************************************************)

Warnings == {"not supported", "failed", "undecoded", "no plan"}

ASSUME NoneIsNoWarning == None \notin Warnings

PreviewCost(backend, plan) ==
  CASE backend # "postgres" -> [rows |-> None, warning |-> "not supported"]
    [] backend = "postgres" /\ plan.answer # "plan" -> [rows |-> None, warning |-> plan.answer]
    [] OTHER -> [rows |-> plan.rows,
                 warning |-> IF plan.rows = None /\ plan.cost = None THEN "no plan" ELSE plan.cost]

(***************************************************************************)
(* What is expected.                                                       *)
(***************************************************************************)

IsStatement(st) ==
  /\ st.rows \in Seq([bytes : Int, tokens : Int])
  /\ st.named \in BOOLEAN /\ (st.named \/ st.rows = <<>>)
  /\ st.sent \in Nat /\ st.header \in Int /\ st.marker \in Int

\* An answer says that there is more exactly when there is, if the runner can
\* tell, and the answer to a larger budget does not show less.
AnswerIsHonest(answer, more, total, whole) ==
  answer # None =>
    /\ whole => (answer.marked <=> answer.rows < total)
    /\ more # None /\ more.rows >= answer.rows

\* What an agent is shown of a statement is honest, by whichever limit it was
\* cut.  Snowflake cannot hand out what it has not sent.
RunIsHonest(backend, st, limit, budget) ==
  LET whole == backend # "snowflake" \/ st.sent >= Min({limit, Len(st.rows)})
      ran == RunSql(backend, st, limit)
      streamed(b) == RunSqlStreaming(backend, st, limit, b)
  IN /\ AnswerIsHonest(Rendered(ran, st, budget), Rendered(ran, st, budget + 1), Len(st.rows), whole)
     /\ AnswerIsHonest(Rendered(streamed(budget), st, budget),
                       Rendered(streamed(budget + 1), st, budget + 1), Len(st.rows), whole)

IsPlan(plan) == plan.answer \in {"failed", "undecoded", "plan"}

\* An estimate without a number of rows says why.
CostIsExplained(backend, plan) ==
  LET cost == PreviewCost(backend, plan) IN cost.rows = None => cost.warning # None
=============================================================================

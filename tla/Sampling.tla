------------------------------ MODULE Sampling ------------------------------
(***************************************************************************)
(* What is kept of the values of a column: how often the most frequent     *)
(* values occur, which one is a sentinel, and where numbers lie            *)
(* (sampling.rs), what a backend asks its database for that                *)
(* (sample_column in sqlite.rs, postgres.rs, mysql.rs and duckdb.rs), and  *)
(* whether values look personal (pii.rs).                                  *)
(*                                                                         *)
(* A column has the sequence of its cells, None or a number each, and says *)
(* how the driver sees them (stored).  named and marked say whether its    *)
(* name and its comment hold a word of the redaction policy.  A fraction   *)
(* is the pair of its parts, <<n, of>>.                                    *)
(***************************************************************************)
EXTENDS Catalog, FiniteSetsExt

SentinelThreshold == 40  \* percent
NaN == -1                \* a cell that is not a number

IsNumeric(class) == class \in {"Integer", "Float", "Decimal"}
IsCategorical(class) == class \in {"Text", "Bool", "Uuid", "Date"}

ShouldRedact(redaction, col) == redaction # None /\ (col.named \/ col.marked)

Exceeds(fraction) == fraction[2] > 0 /\ 100 * fraction[1] > SentinelThreshold * fraction[2]

\* Nothing is said of no rows.
NullFraction(nulls, others) == IF nulls + others = 0 THEN None ELSE <<nulls, nulls + others>>

\* A value and how often it occurs.
Shares == [value : Int, share : Nat \X Nat]

ASSUME NoneIsNoShare == None \notin Shares

CategoricalSample(top, total, nulls, distinct, policy) ==
  LET first == SubSeq(top, 1, Min({policy.topK, Len(top)}))
      by == Ranking([i \in DOMAIN first |-> first[i].count])
      values == [i \in DOMAIN by |->
                   [value |-> first[by[i]].value, share |-> <<first[by[i]].count, total>>]]
  IN [values |-> values,
      sentinel |-> IF values # <<>> /\ Exceeds(values[1].share) THEN values[1] ELSE None,
      nulls |-> NullFraction(nulls, total), distinct |-> distinct]

\* The value below which q percent of the sorted values lie, rounded down but
\* never before the first.
Percentile(sorted, q) == sorted[Max({(Len(sorted) * q) \div 100, 1})]

NumericSample(values, nulls) ==
  IF values = <<>> THEN [nulls |-> None, points |-> <<>>]
  ELSE LET by == Ranking([i \in DOMAIN values |-> -values[i]])
           sorted == [k \in DOMAIN by |-> values[by[k]]]
       IN [nulls |-> NullFraction(nulls, Len(values)),
           points |-> <<sorted[1], Percentile(sorted, 50), Percentile(sorted, 95),
                        Percentile(sorted, 99), sorted[Len(sorted)]>>]

(***************************************************************************)
(* The queries of a backend.  A query in failing fails; when it is the one *)
(* for the values there is no sample.  Cells the driver cannot decode are  *)
(* dropped.                                                                *)
(***************************************************************************)

NonNull(cells) == Picked(cells, {i \in DOMAIN cells : cells[i] # None})
Count(cells, v) == Cardinality({i \in DOMAIN cells : cells[i] = v})

\* SELECT v, count(star) ... GROUP BY 1 ORDER BY count(star) DESC LIMIT k
TopGroups(cells, k) ==
  LET values == SetToSeq(ToSet(NonNull(cells)))
      by == Ranking([i \in DOMAIN values |-> Count(cells, values[i])])
  IN [i \in 1 .. Min({k, Len(by)}) |->
        [value |-> values[by[i]], count |-> Count(cells, values[by[i]])]]

NullCount(col, failing) == IF "nulls" \in failing THEN 0 ELSE Count(col.cells, None)

Numbers(col, decodes, policy) ==
  LET present == NonNull(col.cells)
      sampled == SubSeq(present, 1, Min({policy.sampleRows, Len(present)}))
  IN Picked(sampled, {i \in DOMAIN sampled : decodes /\ sampled[i] # NaN})

\* Mutant: the most frequent value alone is what the shares are of.
LargestTotal(top) == IF top = <<>> THEN 0 ELSE top[1].count

\* The rows the shares are of: those of the groups that came back.
TotalNonNull(top) ==
  LET total[n \in 0 .. Len(top)] == IF n = 0 THEN 0 ELSE total[n - 1] + top[n].count
  IN total[Len(top)]

SampleValues(col, decodes, policy, failing) ==
  LET top == IF decodes THEN TopGroups(col.cells, policy.topK) ELSE <<>>
      distinct == IF "distinct" \in failing THEN None
                  ELSE Cardinality(ToSet(NonNull(col.cells)))
  IN IF ShouldRedact(policy.redaction, col) \/ "values" \in failing THEN None
     ELSE CASE IsNumeric(col.class) ->
                 NumericSample(Numbers(col, decodes, policy), NullCount(col, failing))
            [] IsCategorical(col.class) ->
                 CategoricalSample(top, TotalNonNull(top), NullCount(col, failing), distinct, policy)
            [] OTHER -> None

\* Comments are not read; a number in a column declared as a boolean is not a string.
SqliteSample(col, policy, failing) ==
  SampleValues([col EXCEPT !.marked = FALSE],
               IsNumeric(col.class) \/ col.stored = "text", policy, failing)

\* Comments are not read; the query casts what it selects.
PostgresSample(col, policy, failing) ==
  SampleValues([col EXCEPT !.marked = FALSE], TRUE, policy, failing)

\* A decimal is neither of the numbers it is tried as.
MysqlSample(col, policy, failing) ==
  SampleValues(col, IsCategorical(col.class) \/ col.stored # "decimal", policy, failing)

\* The queries run one after the other on a thread that may block.
DuckdbSample(col, policy, failing) ==
  SampleValues([col EXCEPT !.marked = FALSE], TRUE, policy, failing)

Samples(col, policy, failing) ==
  {SqliteSample(col, policy, failing), PostgresSample(col, policy, failing),
   MysqlSample(col, policy, failing), DuckdbSample(col, policy, failing)}

(***************************************************************************)
(* Values are the patterns each matches.  A number of a card or a person   *)
(* is a number one could call as well.                                     *)
(***************************************************************************)

\* Mutant: the pattern of a telephone first.
PhoneFirst == <<"Email", "Phone", "Ssn", "CreditCard">>

PiiKinds == <<"Email", "Ssn", "CreditCard", "Phone">>

ASSUME NoneIsNoKind == None \notin ToSet(PiiKinds)

\* The first kind that two thirds of the values, rounded up, match.
ClassifyColumn(values) ==
  LET enough == (2 * Len(values) + 2) \div 3
      hits(kind) == Cardinality({i \in DOMAIN values : kind \in values[i]})
      found == SelectInSeq(PiiKinds, LAMBDA kind : hits(kind) >= enough)
  IN IF values = <<>> \/ found = 0 THEN None ELSE PiiKinds[found]

ShouldRedactColumn(redaction, col, values) ==
  \/ ShouldRedact(redaction, col)
  \/ redaction # None /\ redaction.classifyValues /\ ClassifyColumn(values) # None

(***************************************************************************)
(* What is expected.                                                       *)
(***************************************************************************)

Over(cells, v) == Exceeds(<<Count(cells, v), Len(NonNull(cells))>>)

\* A sample of values has a sentinel when a value covers more than the threshold
\* of the rows, and none that is rarer; and when every value came back it makes
\* none up and its shares are those of the rows.
ValuesAreHonest(s, col, policy, failing) ==
  LET all == ToSet(NonNull(col.cells))
  IN /\ \A v \in all : Over(col.cells, v) =>
          s.sentinel # None /\ Count(col.cells, s.sentinel.value) >= Count(col.cells, v)
     /\ \A i \in DOMAIN s.values : s.values[i].share[1] = Count(col.cells, s.values[i].value)
     /\ Cardinality(all) <= policy.topK =>
          /\ {s.values[i].value : i \in DOMAIN s.values} = all
          /\ s.sentinel # None => Over(col.cells, s.sentinel.value)
          /\ "nulls" \notin failing =>
               s.nulls = NullFraction(Count(col.cells, None), Len(NonNull(col.cells)))

\* A sample of numbers is about cells that are there, its points do not fall,
\* and at least q percent of the sample, rounded down, lie at or below each.
NumbersAreHonest(s, col, policy) ==
  LET seen == Numbers(col, TRUE, policy)
      upTo(p) == Cardinality({i \in DOMAIN seen : seen[i] <= p})
  IN s.points # <<>> =>
       /\ \A i \in 1 .. 4 : s.points[i] <= s.points[i + 1]
       /\ ToSet(s.points) \subseteq ToSet(seen)
       /\ \A i \in 2 .. 4 : 100 * upTo(s.points[i]) > <<0, 50, 95, 99>>[i] * Len(seen) - 100

\* Nothing is kept of a column whose name the policy denies.  Of one whose comment
\* it denies nothing is kept by MySQL alone: the others read no comments of columns
\* (sqlite.rs:216, postgres.rs:347, duckdb.rs:261), so the policy is asked about
\* none and they keep what they keep of any column.
SampleIsHonest(col, policy, failing) ==
  /\ policy.redaction # None /\ col.named => Samples(col, policy, failing) = {None}
  /\ policy.redaction # None /\ col.marked => MysqlSample(col, policy, failing) = None
  /\ col.stored = (IF IsNumeric(col.class) THEN "number" ELSE "text") =>
       \A s \in Samples(col, policy, failing) \ {None} :
         IF IsNumeric(col.class) THEN NumbersAreHonest(s, col, policy)
         ELSE ValuesAreHonest(s, col, policy, failing)

\* What a column is called is what two thirds of its values are and no less
\* special a kind.
KindIsRight(values) ==
  LET all(kinds) == 3 * Cardinality({i \in DOMAIN values : values[i] = kinds}) >= 2 * Len(values)
  IN values # <<>> =>
       /\ all({"Email"}) => ClassifyColumn(values) = "Email"
       /\ all({"Ssn", "Phone"}) => ClassifyColumn(values) = "Ssn"
       /\ all({"CreditCard", "Phone"}) => ClassifyColumn(values) = "CreditCard"
       /\ all({}) => ClassifyColumn(values) = None
       /\ \A redaction \in {None, [classifyValues |-> FALSE], [classifyValues |-> TRUE]} :
            ShouldRedactColumn(redaction, [named |-> FALSE, marked |-> FALSE], values) <=>
              redaction # None /\ redaction.classifyValues
                /\ \E k \in ToSet(PiiKinds) :
                     3 * Cardinality({i \in DOMAIN values : k \in values[i]}) >= 2 * Len(values)

\* A sentinel covers more than the threshold of the rows.
SentinelIsReal(col, policy) ==
  LET s == PostgresSample(col, policy, {})
  IN s # None /\ IsCategorical(col.class) /\ s.sentinel # None => Over(col.cells, s.sentinel.value)
=============================================================================

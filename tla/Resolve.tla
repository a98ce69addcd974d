------------------------------ MODULE Resolve ------------------------------
(***************************************************************************)
(* From a name somebody made up to a name of the schema: resolve_column    *)
(* (resolve.rs), the synonyms that go before it (synonyms.rs), and the     *)
(* hint that is made from the error message of a database (hint.rs).       *)
(*                                                                         *)
(* How alike two spellings are is for the strsim library to say.  like[n]  *)
(* is what it and the comparisons around it say of the name in question    *)
(* and n: whether either is empty once punctuation is gone (blank),        *)
(* whether they are then the same (same), whether one contains the other   *)
(* (within), and their Jaro-Winkler similarity in percent (jw).            *)
(***************************************************************************)
EXTENDS Catalog

Exact == 100     \* the confidence of a perfect match, in percent
Threshold == 60  \* a suggestion that is less sure is not made

Fuzzy(l) == Min({Exact, l.jw + (IF l.within THEN 5 ELSE 0)})

Score(l) ==
  CASE l.blank -> 0
    [] ~l.blank /\ l.same -> Exact
    [] OTHER -> Fuzzy(l)

NoMatch == [matched |-> None, confidence |-> 0, alternatives |-> <<>>]

\* The columns with their scores, the best first.
Answers(t, scores, order) ==
  [i \in DOMAIN order |-> <<t.columns[order[i]], scores[order[i]]>>]

\* The first is the match, up to three more are alternatives.
Match(answers) ==
  [matched |-> answers[1][1], confidence |-> answers[1][2],
   alternatives |-> SubSeq(answers, 2, Min({4, Len(answers)}))]

ResolveColumn(t, like) ==
  LET scores == [i \in DOMAIN t.columns |-> Score(like[t.columns[i]])]
  IN IF t.columns = <<>> THEN NoMatch ELSE Match(Answers(t, scores, Ranking(scores)))

(***************************************************************************)
(* Synonyms are a sequence of entries: alias, the table it is for or None, *)
(* and the real name.                                                      *)
(***************************************************************************)

\* Mutant: an entry for another table counts as a global one.
LeakyTarget(synonyms, scope, name) ==
  LET at == SelectInSeq(synonyms, LAMBDA e : e.alias = name)
  IN IF at = 0 THEN None ELSE synonyms[at].target

\* The target of the first entry for name in this scope.
Target(synonyms, scope, name) ==
  LET at == SelectInSeq(synonyms, LAMBDA e : e.alias = name /\ e.table = scope)
  IN IF at = 0 THEN None ELSE synonyms[at].target

\* What the entries of the table say, if anything; else what the global ones say.
ScopedTarget(synonyms, table, name) ==
  LET scoped == Target(synonyms, table, name)
  IN IF scoped # None THEN scoped ELSE Target(synonyms, None, name)

ResolveWithSynonyms(t, name, synonyms, like) ==
  LET hits == <<ScopedTarget(synonyms, t.name, name), Target(synonyms, None, name)>>
      at == SelectInSeq(hits, LAMBDA hit : HasColumn(t, hit))
  IN IF at = 0
       THEN ResolveColumn(t, like)
       ELSE [matched |-> hits[at], confidence |-> Exact, alternatives |-> <<>>]

(***************************************************************************)
(* Hints.  A message is what one of the patterns finds in the text of an   *)
(* error: the complaint and the reference it is about.  Of a reference to  *)
(* a table that MySQL reports only the last part counts, the patterns for  *)
(* columns take all but the last part for the table.                       *)
(***************************************************************************)

NoColumn == [table |-> None, matched |-> None, confidence |-> 0]

Located(t, r) == [table |-> t.name, matched |-> r.matched, confidence |-> r.confidence]

ColumnOf(t, like) == Located(t, ResolveColumn(t, like))

\* Mutant: the last table that has anything like it wins.
LastBest(best, c) == IF c.matched # None THEN c ELSE best

Better(best, c) ==
  IF c.matched # None /\ (best = NoColumn \/ c.confidence > best.confidence)
    THEN c ELSE best

\* Of every table's best column the best, the earliest of equals.
BestColumn(db, like) ==
  LET best[n \in 0 .. Len(db)] ==
        IF n = 0 THEN NoColumn ELSE Better(best[n - 1], ColumnOf(db[n], like))
  IN best[Len(db)]

\* Here like is about the names of tables.
FuzzyTable(db, like) ==
  LET scores == [i \in DOMAIN db |-> Fuzzy(like[db[i].name])]
      best == Ranking(scores)[1]
  IN IF db = <<>> \/ scores[best] < Threshold THEN None ELSE db[best].name

FoundColumn(db, ref, like) ==
  LET at == TableAt(db, Front(ref))
  IN CASE Len(ref) = 1 -> BestColumn(db, like)
       [] Len(ref) # 1 /\ at = 0 -> NoColumn
       [] OTHER -> ColumnOf(db[at], like)

ColumnHint(found) ==
  [kind |-> "column", table |-> found.table,
   suggestion |-> IF found.confidence >= Threshold THEN found.matched ELSE None]

HintForError(db, message, like) ==
  CASE message.complaint = "column" ->
         ColumnHint(FoundColumn(db, message.ref, like))
    [] message.complaint = "table" ->
         [kind |-> "table", table |-> None, suggestion |-> FuzzyTable(db, like)]
    [] message.complaint = "ambiguous" ->
         [kind |-> "ambiguous", table |-> None, suggestion |-> None]
    [] OTHER -> None

(***************************************************************************)
(* What is expected of r, the answer, and of hint.                         *)
(***************************************************************************)

\* A table as it can be asked about: no column twice, each with a likeness.
IsComparable(t, like) ==
  /\ t.columns \in Seq(ToSet(t.columns)) /\ IsInjective(t.columns)
  /\ None \notin ToSet(t.columns)
  /\ \A c \in ToSet(t.columns) : like[c].jw \in 0 .. Exact

IsDatabaseToHint(db, like) ==
  /\ db \in Seq(ToSet(db))
  /\ \A t \in ToSet(db) :
       IsComparable(t, like) /\ t.name # None /\ like[t.name].jw \in 0 .. Exact

\* The match is the first of the columns that are most alike, the alternatives
\* are others by falling likeness, and no column that is left out is more alike
\* than one that is named.
AnswerIsTheBest(t, like, r) ==
  LET score(c) == Score(like[c])
      named == <<<<r.matched, r.confidence>>>> \o r.alternatives
      left == ToSet(t.columns) \ {named[i][1] : i \in DOMAIN named}
  IN t.columns # <<>> =>
       /\ Len(named) = Min({4, Len(t.columns)})
       /\ \A i \in DOMAIN named : named[i][2] = score(named[i][1])
       /\ \A i, j \in DOMAIN named : i < j => named[i][1] # named[j][1]
       /\ \A i \in DOMAIN t.columns :
            \/ score(t.columns[i]) < r.confidence
            \/ \E j \in 1 .. i : t.columns[j] = r.matched
       /\ \A i, j \in DOMAIN named : i < j => named[i][2] >= named[j][2]
       /\ \A c \in left, i \in DOMAIN named : score(c) <= named[i][2]

\* With synonyms the answer is the one without, or a column that an entry for
\* this table or for every table names; the table's own entry goes first.
SynonymsStayInScope(t, name, synonyms, like, r) ==
  LET scopes == {None, t.name}
  IN /\ r = ResolveColumn(t, like) \/
          /\ r.confidence = Exact /\ HasColumn(t, r.matched)
          /\ \E e \in ToSet(synonyms) :
               e.alias = name /\ e.table \in scopes /\ e.target = r.matched
     /\ \A i \in DOMAIN synonyms :
          (/\ synonyms[i].alias = name /\ synonyms[i].table = t.name
           /\ HasColumn(t, synonyms[i].target)
           /\ \A j \in 1 .. i - 1 : ~(synonyms[j].alias = name /\ synonyms[j].table = t.name))
          => r.matched = synonyms[i].target

\* The tables a hint about a column is taken from.
Searched(db, message) ==
  IF Len(message.ref) = 1 THEN ToSet(db)
  ELSE {t \in ToSet(db) : TableAt(db, Front(message.ref)) # 0
                           /\ t = db[TableAt(db, Front(message.ref))]}

\* A hint about a column suggests, of the tables it may be about, a column that
\* no other one is more like, and names its table; one about a table suggests a
\* table that no other one is more like.  It suggests none only when none is
\* like it enough.
HintIsTheBest(db, message, like, hint) ==
  LET columns == UNION {{Score(like[c]) : c \in ToSet(t.columns)} : t \in Searched(db, message)}
      tables == {Fuzzy(like[t.name]) : t \in ToSet(db)}
  IN /\ message.complaint = "column" =>
          /\ hint.suggestion = None <=> \A s \in columns : s < Threshold
          /\ hint.suggestion # None =>
               /\ \A s \in columns : s <= Score(like[hint.suggestion])
               /\ \E t \in Searched(db, message) :
                    t.name = hint.table /\ HasColumn(t, hint.suggestion)
     /\ message.complaint = "table" =>
          /\ hint.suggestion = None <=> \A s \in tables : s < Threshold
          /\ hint.suggestion # None => \A s \in tables : s <= Fuzzy(like[hint.suggestion])
=============================================================================

------------------------------ MODULE Reports ------------------------------
(***************************************************************************)
(* The command-line tools that read caches: what changed between two       *)
(* (schemadex_diff.rs), and a cache as a document (schemadex_docs.rs).     *)
(*                                                                         *)
(* A database is the sequence of its tables, [schema, name, columns, fks]; *)
(* a column is [name, type, ordinal].  For the documents a name is a        *)
(* sequence of letters, which are numbers.  The tool that compares takes   *)
(* names that differ in their case for one; a name is a pair there: the    *)
(* name without case, and as it is spelled.                                *)
(***************************************************************************)
EXTENDS Catalog, FiniteSetsExt

ASSUME NoneIsNoArgument == None \notin {"snapshot", "pair", "cache", "url", "out"} /\ None \notin Nat

(***************************************************************************)
(* Which files.  A file of the history comes with the time its name begins *)
(* with, [time, file].  The directory lists files in any order.            *)
(***************************************************************************)

\* Mutant: the oldest first.
OldestFirst(files) == SortSeq(files, LAMBDA f, g : f.time < g.time)

\* By falling time; what cannot be read as a time is left out.
ListHistory(listed) ==
  LET files == Picked(listed, {i \in DOMAIN listed : listed[i].time # None})
      order == Ranking([i \in DOMAIN files |-> files[i].time])
  IN [i \in DOMAIN order |-> files[order[i]]]

\* The nth most recent, or None.
ResolveSnapshot(current, listed, n) ==
  LET files == ListHistory(listed)
  IN IF n = 0 \/ ~current \/ n > Len(files) THEN None ELSE files[n]

\* A directory and a number go before two files; given neither, None.
DiffArgs(from, to, dir, n) ==
  CASE dir # None /\ n # None -> "snapshot"
    [] (dir = None \/ n = None) /\ from # None /\ to # None -> "pair"
    [] OTHER -> None

DocsArgs(cache, url, output) ==
  CASE output = None \/ (cache # None /\ url # None) -> None
    [] output # None /\ cache # None /\ url = None -> "cache"
    [] output # None /\ cache = None /\ url # None -> "url"
    [] OTHER -> None

\* A file is compressed or not, and called so or not; its database may be in an
\* envelope.  One tool goes by the name.
LoadDatabase(file) ==
  IF file.called = file.compressed THEN file.database ELSE None

\* The other tries.
LoadCache(file) == file.database

\* What the first tool compares: two files, or a snapshot with the present
\* cache of a directory, [current, listed].
Compares(given, dir) ==
  LET command == DiffArgs(given.from, given.to, dir, given.n)
      s == IF command = "snapshot" THEN ResolveSnapshot(dir.current # None, dir.listed, given.n) ELSE None
      files == CASE command = "pair" -> <<given.from, given.to>>
                 [] command = "snapshot" /\ s # None -> <<s.file, dir.current>>
                 [] OTHER -> <<>>
      databases == [i \in DOMAIN files |-> LoadDatabase(files[i])]
  IN IF files = <<>> \/ None \in ToSet(databases) THEN None ELSE databases

\* What the second tool writes about: a cache, or what it finds itself.
Documents(cache, url, output) ==
  LET command == DocsArgs(cache, url, output)
  IN CASE command = "cache" -> LoadCache(cache)
       [] command = "url" -> url
       [] OTHER -> None

(***************************************************************************)
(* What changed.                                                           *)
(***************************************************************************)

Lower(t) == [i \in DOMAIN QualifiedName(t) |-> QualifiedName(t)[i][1]]

\* A map collected from pairs: the last value of each key.
Collect(pairs) ==
  LET last(k) == SelectLastInSeq(pairs, LAMBDA p : p[1] = k)
  IN [k \in {p[1] : p \in ToSet(pairs)} |-> pairs[last(k)][2]]

ByName(db) == Collect([i \in DOMAIN db |-> <<Lower(db[i]), db[i]>>])

Columns(t) == Collect([i \in DOMAIN t.columns |-> <<t.columns[i].name[1], t.columns[i]>>])

DiffColumns(old, new) ==
  LET o == Columns(old)
      n == Columns(new)
  IN [added |-> {<<n[k].name, n[k].type>> : k \in DOMAIN n \ DOMAIN o},
      removed |-> {<<o[k].name, o[k].type>> : k \in DOMAIN o \ DOMAIN n},
      retyped |-> {<<n[k].name, o[k].type, n[k].type>> :
                     k \in {k \in DOMAIN o \cap DOMAIN n : o[k].type # n[k].type}}]

NoChange == [added |-> {}, removed |-> {}, retyped |-> {}]

Diff(old, new) ==
  LET o == ByName(old)
      n == ByName(new)
  IN [added |-> {QualifiedName(n[k]) : k \in DOMAIN n \ DOMAIN o},
      removed |-> {QualifiedName(o[k]) : k \in DOMAIN o \ DOMAIN n},
      changed |-> {<<QualifiedName(n[k]), DiffColumns(o[k], n[k])>> :
                     k \in {k \in DOMAIN o \cap DOMAIN n : DiffColumns(o[k], n[k]) # NoChange}}]

NoChanges == [added |-> {}, removed |-> {}, changed |-> {}]

(***************************************************************************)
(* A document.                                                             *)
(***************************************************************************)

Hyphen == 0  \* the letters that are none, and "main" as one letter
Dot == 1
Underscore == 2
Main == 9

\* Backends without schemas get the one that is meant.
DisplayName(t, backend) ==
  CASE t.schema # None -> t.schema \o <<Dot>> \o t.name
    [] t.schema = None /\ backend \in {"sqlite", "duckdb"} -> <<Main, Dot>> \o t.name
    [] OTHER -> t.name

\* Letters, digits, hyphens and underscores.
AnchorOf(name) == Picked(name, {i \in DOMAIN name : name[i] # Dot})

MermaidIdent(name) ==
  IF name = <<>> THEN <<Underscore>>
  ELSE [i \in DOMAIN name |-> IF name[i] \in {Hyphen, Dot} THEN Underscore ELSE name[i]]

Before(a, b) ==
  \E i \in 1 .. Min({Len(b), Len(a) + 1}) :
    SubSeq(a, 1, i - 1) = SubSeq(b, 1, i - 1) /\ (i = Len(a) + 1 \/ a[i] < b[i])

\* A table with its columns by their ordinals, and an edge a foreign key, the
\* table referred to first and neither with its schema.
Section(t, backend) ==
  LET order == Ranking([i \in DOMAIN t.columns |-> -t.columns[i].ordinal])
  IN [title |-> DisplayName(t, backend), columns |-> [i \in DOMAIN order |-> t.columns[order[i]].name],
      edges |-> [i \in DOMAIN t.fks |-> <<MermaidIdent(t.fks[i]), MermaidIdent(t.name)>>]]

\* The places of the tables by their titles, those with the same title in order.
InTitleOrder(db, backend) ==
  LET title(i) == DisplayName(db[i], backend)
  IN {p \in (DOMAIN db) \X (DOMAIN db) :
        \/ Before(title(p[1]), title(p[2]))
        \/ ~Before(title(p[2]), title(p[1])) /\ p[1] < p[2]}

Render(db, backend) ==
  LET order == Ordering(DOMAIN db, InTitleOrder(db, backend))
      sections == [i \in DOMAIN order |-> Section(db[order[i]], backend)]
  IN [contents |-> [i \in DOMAIN sections |-> AnchorOf(sections[i].title)],
      sections |-> sections, edges |-> FlattenSeq([i \in DOMAIN sections |-> sections[i].edges])]

(***************************************************************************)
(* The date in its header.                                                 *)
(***************************************************************************)

\* Mutant: a century has a day too many.
LongCenturies(doe) == (doe - doe \div 1460 - doe \div 146096) \div 365

YearOfEra(doe) == (doe - doe \div 1460 + doe \div 36524 - doe \div 146096) \div 365

EpochDay == 719468  \* 1970 begins, since the March of year 0
EraDays == 146097   \* 400 years

\* Year, month and day of a number of days since 1970.
CivilFromDays(days) ==
  LET z == days + EpochDay
      era == z \div EraDays
      doe == z - era * EraDays
      yoe == YearOfEra(doe)
      doy == doe - (365 * yoe + yoe \div 4 - yoe \div 100)
      mp == (5 * doy + 2) \div 153
      m == IF mp < 10 THEN mp + 3 ELSE mp - 9
  IN <<yoe + era * 400 + (IF m <= 2 THEN 1 ELSE 0), m, doy - (153 * mp + 2) \div 5 + 1>>

DaySeconds == 86400
HourSeconds == 3600

FormatIsoUtc(secs) ==
  CivilFromDays(secs \div DaySeconds)
    \o <<(secs % DaySeconds) \div HourSeconds, ((secs % DaySeconds) % HourSeconds) \div 60, secs % 60>>

(***************************************************************************)
(* What is expected.                                                       *)
(***************************************************************************)

\* What is reported, done to the old database, gives the new one.
Patched(old, d) ==
  LET o == ByName(old)
      gone(k) == \E name \in d.removed : Lower(o[k]) = [i \in DOMAIN name |-> name[i][1]]
      about(k) == {c \in d.changed : [i \in DOMAIN c[1] |-> c[1][i][1]] = k}
      edited(k) == LET types == [n \in DOMAIN Columns(o[k]) |-> Columns(o[k])[n].type]
                       c == IF about(k) = {} THEN NoChange ELSE (CHOOSE c \in about(k) : TRUE)[2]
                       kept == DOMAIN types \ {r[1][1] : r \in c.removed}
                   IN {<<n, types[n]>> : n \in kept \ {r[1][1] : r \in c.retyped}}
                        \cup {<<r[1][1], r[3]>> : r \in c.retyped} \cup {<<a[1][1], a[2]>> : a \in c.added}
  IN [k \in {k \in DOMAIN o : ~gone(k)} |-> edited(k)]

TypesOf(db, keys) ==
  [k \in keys |-> {<<c.name[1], c.type>> : c \in ToSet(ByName(db)[k].columns)}]

\* Its columns differ in more than their case.
Distinguished(db) ==
  \A t \in ToSet(db) : IsInjective([i \in DOMAIN t.columns |-> t.columns[i].name[1]])

DiffIsExact(old, new) ==
  LET d == Diff(old, new)
      back == Diff(new, old)
      kept == DOMAIN ByName(old) \cap DOMAIN ByName(new)
  IN /\ Distinguished(old) /\ Distinguished(new) => Patched(old, d) = TypesOf(new, kept)
     /\ Cardinality(d.added) = Cardinality(DOMAIN ByName(new) \ kept)
     /\ (d = NoChanges) <=> (back = NoChanges)
     /\ Cardinality(d.added) = Cardinality(back.removed) /\ Cardinality(d.changed) = Cardinality(back.changed)

\* Snapshots of different seconds are found by their age whatever the order
\* they are listed in.
SnapshotIsTheNth(listed, n) ==
  LET times == {f.time : f \in ToSet(listed)} \ {None}
      s == ResolveSnapshot(TRUE, listed, n)
  IN Cardinality(times) = Cardinality({i \in DOMAIN listed : listed[i].time # None}) =>
       IF n \in 1 .. Cardinality(times)
         THEN s # None /\ Cardinality({u \in times : u > s.time}) = n - 1
         ELSE s = None

\* A pair that is compared is a pair of databases the second tool can write
\* about; a directory as the cache leaves it can be compared with each of its
\* snapshots; a document is about the one database it was asked for.
ToolsReadCaches(given, dir, url) ==
  LET pair == Compares(given, dir)
      written(f) == f.called /\ f.compressed
  IN /\ pair # None /\ (dir = None \/ given.n = None) =>
          pair = <<Documents(given.from, None, "out"), Documents(given.to, None, "out")>>
     /\ /\ dir # None /\ dir.current # None /\ given.n \in DOMAIN dir.listed
        /\ written(dir.current) /\ \A f \in ToSet(dir.listed) : f.time # None /\ written(f.file)
        => pair # None /\ pair[2] = dir.current.database
     /\ Documents(given.from, url, "out") # None <=> (given.from = None) # (url = None)

\* Every table has one section and every foreign key one edge; in a schema of
\* its own every entry of the contents leads to the section of its table.
DocumentIsComplete(db, backend) ==
  LET r == Render(db, backend)
      titles == {DisplayName(t, backend) : t \in ToSet(db)}
  IN /\ Len(r.sections) = Len(db) /\ {s.title : s \in ToSet(r.sections)} = titles
     /\ Len(r.edges) = Cardinality(UNION {{<<i, k>> : k \in DOMAIN db[i].fks} : i \in DOMAIN db})
     /\ \A i \in 1 .. Len(db) - 1 : ~Before(r.sections[i + 1].title, r.sections[i].title)
     /\ Cardinality({t.schema : t \in ToSet(db)}) = 1 =>
          \A i, j \in DOMAIN db : r.contents[i] = r.contents[j] <=> r.sections[i].title = r.sections[j].title

MonthLengths(leap) == <<31, IF leap THEN 29 ELSE 28, 31, 30, 31, 30, 31, 31, 30, 31, 30, 31>>
IsLeap(year) == year % 4 = 0 /\ (year % 100 # 0 \/ year % 400 = 0)

\* The day after a date, by the lengths of the months.
DayAfter(d) ==
  LET last == MonthLengths(IsLeap(d[1]))[d[2]]
  IN CASE d[3] < last -> <<d[1], d[2], d[3] + 1>>
       [] d[3] = last /\ d[2] < 12 -> <<d[1], d[2] + 1, 1>>
       [] OTHER -> <<d[1] + 1, 1, 1>>

DatesFollow(days) ==
  /\ CivilFromDays(0) = <<1970, 1, 1>>
  /\ CivilFromDays(days + 1) = DayAfter(CivilFromDays(days))
  /\ LET secs == (days % 20000) * 86400 + ((61 * days) % 86400)
         f == FormatIsoUtc(secs)
     IN /\ f[4] \in 0 .. 23 /\ f[5] \in 0 .. 59 /\ f[6] \in 0 .. 59
        /\ 3600 * f[4] + 60 * f[5] + f[6] = secs % 86400
=============================================================================

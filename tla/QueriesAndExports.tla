--------------------------- MODULE QueriesAndExports ---------------------------
(***************************************************************************)
(* The query builder (packages/core/src/query-builder.ts): the parameters  *)
(* of the queries it builds, and the pages it reads with them; and exports *)
(* (data-export.ts): the fields of nested records, their lines of          *)
(* separated values, exports in batches, and the totals of usage records.  *)
(*                                                                         *)
(* The database is external: it binds the parameters of a statement to its *)
(* placeholders from left to right and refuses another number of them; AND *)
(* binds closer than OR; no comparison holds of NULL, which is None here.  *)
(*                                                                         *)
(* A record to export is the sequence of its leaves, [path, value]: the    *)
(* path is a sequence of keys, a key a sequence of what its dots separate. *)
(* An object that is empty is a leaf with value EmptyObject.  A text is a  *)
(* sequence of characters.                                                 *)
(***************************************************************************)
EXTENDS Questions, Integers, FiniteSetsExt, SequencesExt, Functions

CONSTANTS TableRows,        \* [k, a]: k is the primary key, a may be None
          QueryConditions,  \* [type, field, op, values]: one value, or those of in and not_in
          CursorValues,     \* values of k a cursor stands at
          QueryLimits,      \* limits, with None
          ExportRecords,    \* records
          ExportFields,     \* fields that may be asked for or left out
          DayHours,         \* hours in a day of week keys
          UsageRecords      \* [user, model, time, input, output], each may be None

-----------------------------------------------------------------------------
(* build *)

ConditionParams(c) ==
  IF c.op \in {"is_null", "is_not_null"} THEN <<>> ELSE c.values

AllParams(conditions) == FoldLeft(LAMBDA params, c : params \o ConditionParams(c), <<>>, conditions)

CursorCondition(q) ==
  IF q.cursor = None THEN <<>> ELSE <<[type |-> "and", field |-> "k", op |-> ">", values |-> <<q.cursor>>]>>

(* A mistake in Build: the cursor's value comes first. *)
BuildCursorFirst(q) ==
  [where |-> q.conditions \o CursorCondition(q),
   params |-> AllParams(CursorCondition(q)) \o AllParams(q.conditions),
   count |-> q.limit # None]

Build(q) ==
  [where |-> q.conditions \o CursorCondition(q),
   params |-> AllParams(q.conditions) \o AllParams(CursorCondition(q)),
   count |-> q.limit # None]

(* What is selected and grouped by: chosen fields count only without
   aggregates and time buckets. *)
SelectedColumns(q) ==
  IF q.aggregates = {} /\ q.buckets = {} THEN q.select ELSE q.groupBy \cup q.aggregates \cup q.buckets

GroupColumns(q) == q.groupBy \cup q.buckets

-----------------------------------------------------------------------------
(* The database *)

Placeholders(where) == Len(AllParams(where))

(* The values a condition gets: those of its placeholders. *)
BoundTo(where, params, i) ==
  LET before == Placeholders(SubSeq(where, 1, i - 1))
  IN  SubSeq(params, before + 1, before + Len(ConditionParams(where[i])))

HoldsOf(row, c, bound) ==
  LET x == row[c.field]
  IN  CASE c.op = "is_null" -> x = None
        [] c.op = "is_not_null" -> x # None
        [] c.op = "in" -> x # None /\ x \in Range(bound)
        [] c.op = "not_in" -> x # None /\ x \notin Range(bound)
        [] c.op = "=" -> x # None /\ x = bound[1]
        [] c.op = ">" -> x # None /\ x > bound[1]

Where(row, where, params) ==
  where = <<>> \/
  \E s \in DOMAIN where :
    /\ s = 1 \/ where[s].type = "or"
    /\ \A i \in s..Len(where) :
         (\A j \in (s + 1)..i : where[j].type = "and") => HoldsOf(row, where[i], BoundTo(where, params, i))

RowsOf(where, params) == {r \in TableRows : Where(r, where, params)}

QueryRows(q) ==
  LET built == Build(q)
      ordered == SetToSortSeq(RowsOf(built.where, built.params),
                              LAMBDA r, s : IF q.descending THEN r.k > s.k ELSE r.k < s.k)
  IN  IF q.limit = None \/ Len(ordered) <= q.limit THEN ordered ELSE SubSeq(ordered, 1, q.limit)

-----------------------------------------------------------------------------
(* paginate: the count query gets as many of the parameters as there are
   conditions; the call is rejected when it has placeholders for more or fewer. *)

CountParams(q) ==
  LET params == Build(q).params
  IN  SubSeq(params, 1, Min({Len(params), Len(q.conditions)}))

Rejected(q) == Build(q).count /\ Len(CountParams(q)) # Placeholders(q.conditions)

PaginateQuery(q) ==
  LET rows == QueryRows(q)
      hasMore == q.limit # None /\ Len(rows) = q.limit
  IN  [rows |-> rows, hasMore |-> hasMore,
       total |-> IF Build(q).count THEN Cardinality(RowsOf(q.conditions, CountParams(q))) ELSE None,
       nextCursor |-> IF hasMore /\ rows # <<>> /\ q.cursor # None THEN Last(rows).k ELSE None]

PageQuestions ==
  [about : {"query pages"}, conditions : UNION {TupleOf(QueryConditions, n) : n \in 0..2},
   cursor : CursorValues \cup {None}, limit : QueryLimits, descending : BOOLEAN]

ColumnNames == {"a", "k"}
ColumnQuestions == [about : {"query columns"}, select : {{"*"}, {"a"}}, groupBy : SUBSET ColumnNames,
                    aggregates : SUBSET {"count_k"}, buckets : SUBSET {"day_bucket"}]

Unlimited(q) == [q EXCEPT !.limit = None]

RECURSIVE FollowCursor(_)
FollowCursor(q) ==
  LET page == PaginateQuery(q)
  IN  page.rows \o (IF page.nextCursor = None THEN <<>> ELSE FollowCursor([q EXCEPT !.cursor = page.nextCursor]))

(* Every placeholder of a page's query gets the value of its own condition, so
   that its rows are those that the conditions describe. *)
PagesFiltered ==
  AskedAbout("query pages") =>
    LET built == Build(asked)
    IN  /\ Placeholders(built.where) = Len(built.params)
        /\ \A i \in DOMAIN built.where : BoundTo(built.where, built.params, i) = ConditionParams(built.where[i])

(* In ascending order, over conditions that are all required, whoever follows
   the cursors sees every row behind the first one, once and in order; a page
   that says there is no more is the last, whatever the conditions. *)
CursorsReachAll ==
  (AskedAbout("query pages") /\ ~Rejected(asked)) =>
    /\ (asked.cursor # None /\ ~asked.descending /\ asked.limit # 0
          /\ \A i \in DOMAIN asked.conditions : i > 1 => asked.conditions[i].type = "and") =>
         (FollowCursor(asked) = QueryRows(Unlimited(asked)))
    /\ ~PaginateQuery(asked).hasMore => PaginateQuery(asked).rows = QueryRows(Unlimited(asked))

(* Pages over conditions of one value each are read, with the number of rows
   of all pages as their total, and so they are whenever they are read; a
   single condition of several values is enough for a rejection. *)
TotalsExact ==
  (AskedAbout("query pages") /\ asked.limit # None) =>
    /\ ~Rejected(asked) =>
         PaginateQuery(asked).total = Len(QueryRows([Unlimited(asked) EXCEPT !.cursor = None]))
    /\ (\A c \in Range(asked.conditions) : Len(ConditionParams(c)) = 1) => ~Rejected(asked)
    /\ (Len(asked.conditions) = 1 /\ Len(ConditionParams(asked.conditions[1])) > 1) => Rejected(asked)

(* A grouped query that aggregates shows what it groups by. *)
GroupsAreShown ==
  (AskedAbout("query columns") /\ (asked.aggregates # {} \/ asked.buckets # {})) =>
    GroupColumns(asked) \subseteq SelectedColumns(asked)

(* Parameters, pages and totals of built queries. *)
QueriesSound == PagesFiltered /\ CursorsReachAll /\ TotalsExact /\ GroupsAreShown

-----------------------------------------------------------------------------
(* Exports: fields *)

EmptyObject == <<"{}">>

FieldOf(path) == FoldLeft(LAMBDA field, key : field \o key, <<>>, path)

(* Of leaves that come to one field the last stands. *)
FlattenObject(record) ==
  LET leaves == SelectSeq(record, LAMBDA l : l.value # EmptyObject)
      at(field) == {i \in DOMAIN leaves : FieldOf(leaves[i].path) = field}
  IN  [field \in {FieldOf(l.path) : l \in Range(leaves)} |-> leaves[Max(at(field))].value]

GetAllFields(records) == UNION {DOMAIN FlattenObject(r) : r \in Range(records)}

(* fields and excluded are sets: none asked for is all, and those asked for
   that no record has are not there. *)
FilterFields(all, fields, excluded) == (IF fields = {} THEN all ELSE fields \cap all) \ excluded

ExportToJson(records, fields, excluded) ==
  LET shown == FilterFields(GetAllFields(records), fields, excluded)
  IN  [i \in DOMAIN records |-> LET flat == FlattenObject(records[i])
                                IN  [f \in shown \cap DOMAIN flat |-> flat[f]]]

(* The batches' fields are collected and asked for, unless others were. A
   mistake in StreamedExport: those of the first batch are. *)
StreamedByFirstBatch(batches, fields, excluded) ==
  LET asks == IF fields = None THEN GetAllFields(Head(batches)) ELSE fields
  IN  ExportToJson(FlattenSeq(batches), asks, excluded)

StreamedExport(batches, fields, excluded) ==
  LET asks == IF fields = None THEN UNION {GetAllFields(b) : b \in Range(batches)} ELSE fields
  IN  ExportToJson(FlattenSeq(batches), asks, excluded)

ExportQuestions == [about : {"export"}, records : TupleOf(ExportRecords, 2),
                    fields : {None} \cup SUBSET ExportFields, excluded : SUBSET ExportFields]

(* An export in batches is the export of all records at once; nothing that is
   left out is shown, nor anything that was not asked for; and every field
   shown has the value its record gives last. *)
ExportsAgree ==
  AskedAbout("export") =>
    LET fields == OrElse(asked.fields, {})
        whole == ExportToJson(asked.records, fields, asked.excluded)
    IN  /\ StreamedExport(<<SubSeq(asked.records, 1, 1), SubSeq(asked.records, 2, 2)>>, asked.fields, asked.excluded) = whole
        /\ Len(whole) = Len(asked.records)
        /\ \A i \in DOMAIN whole : \A f \in DOMAIN whole[i] :
             /\ f \notin asked.excluded /\ (fields # {} => f \in fields)
             /\ \E l \in Range(asked.records[i]) : FieldOf(l.path) = f /\ l.value = whole[i][f]

-----------------------------------------------------------------------------
(* Lines of separated values *)

Special == {",", "q", "newline"}

EscapeCsvValue(text) ==
  IF Range(text) \cap Special = {} THEN text
  ELSE <<"q">> \o FlattenSeq([i \in DOMAIN text |-> IF text[i] = "q" THEN <<"q", "q">> ELSE <<text[i]>>]) \o <<"q">>

JoinedBy(texts, separator) ==
  FoldLeft(LAMBDA line, i : line \o (IF i = 1 THEN <<>> ELSE <<separator>>) \o texts[i], <<>>, [i \in DOMAIN texts |-> i])

ExportToCsv(rows) ==
  JoinedBy([r \in DOMAIN rows |-> JoinedBy([v \in DOMAIN rows[r] |-> EscapeCsvValue(rows[r][v])], ",")], "newline")

(* A reader of such lines: in quotes, two of them are one. *)
RECURSIVE ReadCsv(_, _, _, _, _)
ReadCsv(rest, rows, row, text, quoted) ==
  IF rest = <<>> THEN Append(rows, Append(row, text))
  ELSE IF quoted
    THEN IF Head(rest) # "q" THEN ReadCsv(Tail(rest), rows, row, Append(text, Head(rest)), TRUE)
         ELSE IF Len(rest) > 1 /\ rest[2] = "q"
           THEN ReadCsv(SubSeq(rest, 3, Len(rest)), rows, row, Append(text, "q"), TRUE)
         ELSE ReadCsv(Tail(rest), rows, row, text, FALSE)
  ELSE CASE Head(rest) = "q" -> ReadCsv(Tail(rest), rows, row, text, TRUE)
         [] Head(rest) = "," -> ReadCsv(Tail(rest), rows, Append(row, text), <<>>, FALSE)
         [] Head(rest) = "newline" -> ReadCsv(Tail(rest), Append(rows, Append(row, text)), <<>>, <<>>, FALSE)
         [] OTHER -> ReadCsv(Tail(rest), rows, row, Append(text, Head(rest)), FALSE)

CsvTexts == UNION {TupleOf(Special \cup {"x"}, n) : n \in 0..2}
CsvQuestions == [about : {"csv"}, row : TupleOf(CsvTexts, 2)]

(* Whatever characters the values have, a reader gets them back. *)
CsvReadsBack ==
  AskedAbout("csv") =>
    LET rows == << << <<"x">>, <<>> >>, asked.row >> IN ReadCsv(ExportToCsv(rows), <<>>, <<>>, <<>>, FALSE) = rows

-----------------------------------------------------------------------------
(* Totals of usage records *)

(* Sunday of the local week, at the record's hour, as a day in UTC: day 0 is a
   Thursday. *)
WeekKey(time, zone) ==
  LET localDay == (time + zone) \div DayHours
  IN  (time - (((localDay + 4) % 7) * DayHours)) \div DayHours

UnknownKey == <<"unknown">>

UsageKey(record, groupBy, zone) ==
  IF groupBy \in {"day", "week"}
    THEN IF record.time = None THEN UnknownKey
         ELSE <<groupBy, IF groupBy = "day" THEN record.time \div DayHours ELSE WeekKey(record.time, zone)>>
    ELSE OrElse(record[groupBy], UnknownKey)

SumField(records, field) == FoldLeft(LAMBDA sum, r : sum + OrElse(r[field], 0), 0, records)

AggregateUsageRecords(records, groupBy, zone) ==
  [key \in {UsageKey(r, groupBy, zone) : r \in Range(records)} |->
     LET own == SelectSeq(records, LAMBDA r : UsageKey(r, groupBy, zone) = key)
     IN  [records |-> Len(own), input |-> SumField(own, "input"), output |-> SumField(own, "output")]]

TotalsQuestions == [about : {"usage totals"}, records : UNION {TupleOf(UsageRecords, n) : n \in 1..3},
                    groupBy : {"user", "model", "day", "week"}, zone : {-1, 0, 1}]

(* Nothing is lost or counted twice by grouping; at UTC a week's key is the
   Sunday it begins with, and elsewhere at most the day before or after. *)
TotalsAddUp ==
  AskedAbout("usage totals") =>
    LET groups == AggregateUsageRecords(asked.records, asked.groupBy, asked.zone)
        over(field) == FoldFunction(LAMBDA g, sum : g[field] + sum, 0, groups)
    IN  /\ over("records") = Len(asked.records)
        /\ over("input") = SumField(asked.records, "input") /\ over("output") = SumField(asked.records, "output")
        /\ asked.groupBy = "week" =>
             \A r \in {s \in Range(asked.records) : s.time # None} :
               LET day == UsageKey(r, "week", asked.zone)[2]
               IN  /\ (day + 4) % 7 \in (IF asked.zone = 0 THEN {0} ELSE {6, 0, 1})
                   /\ day \in ((r.time \div DayHours) - 6)..(r.time \div DayHours)

(* Fields, lines and totals of exports. *)
ExportsSound == ExportsAgree /\ CsvReadsBack /\ TotalsAddUp
=============================================================================

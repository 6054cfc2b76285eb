------------------------------ MODULE Queries -------------------------------
(***************************************************************************)
(* Queries over work packages: the builder and the presets of op-queries   *)
(* (builder.rs, filters.rs, sorts.rs) and the executor of op-db that turns *)
(* a query into SQL (query_executor.rs) and reads it page by page          *)
(* (repository.rs), while others change the table.                         *)
(*                                                                         *)
(* A condition is kept as the column, the comparison and the literals of   *)
(* its text, and is given SQL's meaning: NULL makes a comparison unknown,  *)
(* and a text the database cannot read makes the statement fail.  A day is *)
(* its distance from CURRENT_DATE.                                         *)
(***************************************************************************)
EXTENDS Integers, Sequences, FiniteSets, Functions

CONSTANTS
  Ids,           \* ids of work packages
  Rows,          \* what a row may hold
  Callers,       \* current_user_id: the users who read, or Null
  Conditions,    \* the filters clients add
  Criteria,      \* the sort criteria clients add
  PresetsUsed,   \* the presets clients start from
  WeekStart,     \* the Monday of this week
  PageSize,
  MaxFilters, MaxCriteria, MaxChanges,   \* bounds of the model
  Null,          \* of SQL, and the None of the code
  NoRow          \* where the table has no row

Day == Int
Words == Seq({"a", "b"})
Row == [assigned_to_id : Nat \cup {Null}, due_date : Day \cup {Null},
        subject : Words, status_is_closed : BOOLEAN]

Columns == {"id", "author_id", "assigned_to_id", "due_date", "subject", "status_id",
            "status_is_closed"}
Unfiltered == {"watcher_id", "subproject_id", "manual_sort", "cf_1"}

\* What FilterValue holds, by its kind; a number is a whole one.
IsValue(v) ==
  /\ v = [kind |-> v.kind, list |-> v.list]
  /\ \/ v.kind \in {"Id", "Number"} /\ v.list \in Seq(Int) /\ Len(v.list) = 1
     \/ v.kind = "Ids" /\ v.list \in Seq(Int)
     \/ v.kind = "Date" /\ v.list \in Seq(Day) /\ Len(v.list) = 1
     \/ v.kind = "DateRange" /\ v.list \in Seq(Day) /\ Len(v.list) = 2
     \/ v.kind = "String" /\ v.list \in Seq(Words) /\ Len(v.list) = 1
     \/ v.kind = "Strings" /\ v.list \in Seq(Words)
     \/ v.kind = "Bool" /\ v.list \in Seq(BOOLEAN) /\ Len(v.list) = 1
     \/ v.kind \in {"Me", "None"} /\ v.list = <<>>

\* The order of texts and of truth values is left out.
IsFilter(f) ==
  /\ f = [attribute |-> f.attribute, operator |-> f.operator, days |-> f.days, values |-> f.values]
  /\ f.attribute \in Columns \cup Unfiltered /\ f.days \in Int /\ IsValue(f.values)
  /\ f.operator \in {"GreaterThan", "GreaterThanOrEqual", "LessThan", "LessThanOrEqual"} =>
       f.values.kind \notin {"String", "Strings", "Bool"}

Criterion ==
  [attribute : {"id", "due_date", "assigned_to", "updated_at", "start_date",
                "spent_hours", "remaining_hours", "manual_sort"},
   direction : {"asc", "desc"}]

ASSUME QueriesAssumption ==
  /\ Ids \subseteq Nat /\ IsFiniteSet(Ids) /\ Rows \subseteq Row /\ NoRow \notin Rows
  /\ Null \notin Int /\ Callers \subseteq Nat \cup {Null}
  /\ (\A f \in Conditions : IsFilter(f)) /\ Criteria \subseteq Criterion
  /\ PresetsUsed \subseteq {"my_work_packages", "created_by_me", "watched_by_me", "all_open",
                           "recently_updated", "basic_board", "gantt_chart", "overdue"}
  /\ WeekStart \in -6 .. 0 /\ PageSize \in Nat \ {0}
  /\ MaxFilters \in Nat /\ MaxCriteria \in Nat /\ MaxChanges \in Nat

VARIABLES
  rows,      \* the table
  me,        \* who reads
  filters, sorts,   \* the query being built
  pc,        \* "build", "count", "select", "done" or "failed"
  page, total,      \* the page being read, the count that came with it
  seen,      \* history: the ids read so far, in the order they came
  changes    \* history: how often others changed the table while it was read

queriesVars == <<rows, me, filters, sorts, pc, page, total, seen, changes>>

Stored == {i \in Ids : rows[i] # NoRow}

-----------------------------------------------------------------------------
(* Filters.                                                                *)
Value(kind, list) == [kind |-> kind, list |-> list]
NoValue == Value("None", <<>>)
FromIds(ids) == Value(IF Len(ids) = 1 THEN "Id" ELSE "Ids", ids)

\* Operators that count days carry the number, the others 0.
Filter(attribute, operator, days, values) ==
  [attribute |-> attribute, operator |-> operator, days |-> days, values |-> values]

(* The builder's filter methods, by the filter they add.                   *)
ByIds(attribute, ids) == Filter(attribute, "Equals", 0, FromIds(ids))
ById(attribute, id) == Filter(attribute, "Equals", 0, Value("Id", <<id>>))
ByMe(attribute) == Filter(attribute, "CurrentUser", 0, Value("Me", <<>>))
Without(attribute) == Filter(attribute, "IsNull", 0, NoValue)
SubjectContains(text) == Filter("subject", "Contains", 0, Value("String", <<text>>))
DueToday == Filter("due_date", "Today", 0, NoValue)
DueThisWeek == Filter("due_date", "ThisWeek", 0, NoValue)
Overdue == Filter("due_date", "LessThanDaysAgo", 0, NoValue)
Open == Filter("status_id", "IsNotNull", 0, NoValue)
Closed == Filter("status_id", "IsNull", 0, NoValue)

Asc(attribute) == [attribute |-> attribute, direction |-> "asc"]
Desc(attribute) == [attribute |-> attribute, direction |-> "desc"]
DefaultSort == <<Desc("id")>>

Preset(name) ==
  CASE name = "my_work_packages" -> [filters |-> <<ByMe("assigned_to_id"), Open>>,
                                     sorts |-> <<Desc("updated_at")>>]
    [] name = "created_by_me" -> [filters |-> <<ByMe("author_id")>>, sorts |-> <<Desc("updated_at")>>]
    [] name = "watched_by_me" -> [filters |-> <<ByMe("watcher_id")>>,
                                  sorts |-> <<Desc("updated_at")>>]
    [] name = "all_open" -> [filters |-> <<Open>>, sorts |-> <<Desc("updated_at")>>]
    [] name = "recently_updated" -> [filters |-> <<>>, sorts |-> <<Desc("updated_at")>>]
    [] name = "basic_board" -> [filters |-> <<Open>>, sorts |-> DefaultSort]
    [] name = "gantt_chart" -> [filters |-> <<>>, sorts |-> <<Asc("start_date"), Asc("due_date")>>]
    [] name = "overdue" -> [filters |-> <<Overdue, Open>>, sorts |-> <<Asc("due_date")>>]

-----------------------------------------------------------------------------
(* filter_to_sql.                                                          *)

\* attribute_to_column: a filter on an attribute it does not know is left out.
AttributeToColumn(attribute) ==
  IF attribute \in Unfiltered THEN "none" ELSE attribute

ColumnType(column) ==
  CASE column \in {"id", "author_id", "assigned_to_id", "status_id"} -> "number"
    [] column = "due_date" -> "date"
    [] column = "subject" -> "text"
    [] column = "status_is_closed" -> "bool"

LiteralType(kind) ==
  CASE kind \in {"Id", "Ids", "Number", "Me"} -> "number"
    [] kind \in {"Date", "DateRange"} -> "date"
    [] kind \in {"String", "Strings"} -> "text"
    [] kind = "Bool" -> "bool"
    [] kind = "None" -> "none"

ValuesToSql(values) ==
  IF values.kind = "Me" THEN IF me = Null THEN <<>> ELSE <<me>> ELSE values.list

\* Conditions: a column compared with literals of a type.
Sql(column, test, type, literals) ==
  [column |-> column, test |-> test, type |-> type, literals |-> literals]
NoCondition == Sql("none", "none", "none", <<>>)

Compare == [GreaterThan |-> ">", GreaterThanOrEqual |-> ">=",
            LessThan |-> "<", LessThanOrEqual |-> "<="]
Like == [Contains |-> "has", NotContains |-> "has not", StartsWith |-> "starts", EndsWith |-> "ends"]

\* Mutant: more than n days ago includes the day itself.
RelativeInclusive ==
  [Today |-> "=", DaysAgo |-> "=", DaysFromNow |-> "=",
   LessThanDaysAgo |-> ">", MoreThanDaysAgo |-> "<=",
   LessThanDaysFromNow |-> "<", MoreThanDaysFromNow |-> ">"]

Relative == [Today |-> "=", DaysAgo |-> "=", DaysFromNow |-> "=",
             LessThanDaysAgo |-> ">", MoreThanDaysAgo |-> "<",
             LessThanDaysFromNow |-> "<", MoreThanDaysFromNow |-> ">"]

DayMeant(f) == IF f.operator \in {"DaysFromNow", "LessThanDaysFromNow", "MoreThanDaysFromNow"}
               THEN f.days ELSE -f.days

\* Anonymous user, no match: "1 = 0".
IsMe(column) ==
  IF me = Null THEN Sql(column, "never", "none", <<>>) ELSE Sql(column, "in", "number", <<me>>)

FilterToSql(f) ==
  LET column == AttributeToColumn(f.attribute)
      type == LiteralType(f.values.kind)
      literals == ValuesToSql(f.values)
      op == f.operator
  IN  IF column = "none" THEN NoCondition ELSE
      CASE op = "Equals" -> Sql(column, "in", type, literals)
        [] op = "NotEquals" -> Sql(column, "not in", type, literals)
        [] op \in DOMAIN Like ->
             IF f.values.kind = "String" THEN Sql(column, Like[op], "text", literals)
             ELSE NoCondition
        [] op \in DOMAIN Compare ->
             IF literals = <<>> THEN NoCondition
             ELSE Sql(column, Compare[op], type, <<literals[1]>>)
        [] op = "Between" ->
             IF f.values.kind = "DateRange" THEN Sql(column, "between", "date", literals)
             ELSE NoCondition
        [] op = "IsNull" -> Sql(column, "null", "none", <<>>)
        [] op = "IsNotNull" -> Sql(column, "not null", "none", <<>>)
        [] op \in DOMAIN Relative -> Sql(column, Relative[op], "date", <<DayMeant(f)>>)
        [] op = "ThisWeek" -> Sql(column, "between", "date", <<WeekStart, WeekStart + 6>>)
        [] op = "CurrentUser" -> IsMe(column)

-----------------------------------------------------------------------------
(* What Postgres makes of a condition.  A column the model does not keep   *)
(* tells no rows apart.                                                    *)
ValueOf(i, column) ==
  CASE column = "id" -> i
    [] column \in {"author_id", "status_id"} -> 1
    [] column \in {"assigned_to_id", "due_date", "subject", "status_is_closed"} -> rows[i][column]
    [] OTHER -> 0

\* IN () is no SQL, and a literal is compared with a column of its own type.
Readable(c) ==
  /\ c.test \in {"in", "not in"} => c.literals # <<>>
  /\ c.type # "none" => c.type = ColumnType(c.column)

Within(text, whole) ==
  \E k \in 0 .. Len(whole) - Len(text) : SubSeq(whole, k + 1, k + Len(text)) = text

\* A test of a value that is not NULL.
Holds(test, x, v) ==
  CASE test = "not null" -> TRUE
    [] test = "in" -> x \in Range(v)
    [] test = "not in" -> x \notin Range(v)
    [] test = "=" -> x = v[1]
    [] test = "<" -> x < v[1]
    [] test = "<=" -> x <= v[1]
    [] test = ">" -> x > v[1]
    [] test = ">=" -> x >= v[1]
    [] test = "between" -> v[1] <= x /\ x <= v[2]
    [] test = "has" -> Within(v[1], x)
    [] test = "has not" -> ~Within(v[1], x)
    [] test = "starts" -> Len(v[1]) <= Len(x) /\ SubSeq(x, 1, Len(v[1])) = v[1]
    [] test = "ends" -> Len(v[1]) <= Len(x)
                        /\ SubSeq(x, Len(x) - Len(v[1]) + 1, Len(x)) = v[1]
    [] OTHER -> FALSE

True(c, i) ==
  LET x == ValueOf(i, c.column)
  IN  \/ c.test = "none"
      \/ c.test = "null" /\ x = Null
      \/ x # Null /\ Holds(c.test, x, c.literals)

Runs == \A f \in Range(filters) : Readable(FilterToSql(f))

\* build_where_clause joins the conditions by AND.
Matching == {i \in Stored : \A f \in Range(filters) : True(FilterToSql(f), i)}

-----------------------------------------------------------------------------
(* build_order_clause.  A column the executor does not know is left out: it *)
(* tells no rows apart.  If it knows none, the newest id comes first.      *)
SortColumn(attribute) ==
  CASE attribute = "id" -> "id"
    [] attribute = "due_date" -> "due_date"
    [] attribute = "assigned_to" -> "assigned_to_id"
    [] attribute \in {"updated_at", "start_date"} -> "other"
    [] attribute \in {"spent_hours", "remaining_hours", "manual_sort"} -> "none"

OrderParts ==
  IF \A k \in DOMAIN sorts : SortColumn(sorts[k].attribute) = "none" THEN DefaultSort ELSE sorts

\* ASC NULLS LAST, DESC NULLS FIRST.
Less(x, y) == x # Null /\ (y = Null \/ x < y)
Ahead(c, i, j) ==
  LET x == ValueOf(i, SortColumn(c.attribute))
      y == ValueOf(j, SortColumn(c.attribute))
  IN  IF c.direction = "asc" THEN Less(x, y) ELSE Less(y, x)

Before(i, j) ==
  \E k \in DOMAIN OrderParts :
    /\ Ahead(OrderParts[k], i, j)
    /\ \A h \in 1 .. k - 1 : ~Ahead(OrderParts[h], j, i) /\ ~Ahead(OrderParts[h], i, j)

\* What ORDER BY leaves open each statement decides anew.
Orderings(S) ==
  LET n == Cardinality(S)
  IN  {s \in [1 .. n -> S] :
         \A a, b \in 1 .. n : a < b => s[a] # s[b] /\ ~Before(s[b], s[a])}

-----------------------------------------------------------------------------
QueriesInit ==
  /\ rows \in [Ids -> Rows \cup {NoRow}]
  /\ me \in Callers
  /\ filters = <<>> /\ sorts = DefaultSort
  /\ pc = "build" /\ page = 1 /\ total = 0
  /\ seen = <<>> /\ changes = 0

reading == <<pc, page, total, seen, changes>>

AddFilter(f) ==
  /\ pc = "build" /\ Len(filters) < MaxFilters
  /\ filters' = Append(filters, f)
  /\ UNCHANGED <<rows, me, sorts, reading>>

SortBy(c) ==
  /\ pc = "build"
  /\ sorts' = <<c>>
  /\ UNCHANGED <<rows, me, filters, reading>>

ThenBy(c) ==
  /\ pc = "build" /\ Len(sorts) < MaxCriteria
  /\ sorts' = Append(sorts, c)
  /\ UNCHANGED <<rows, me, filters, reading>>

UsePreset(name) ==
  /\ pc = "build" /\ filters = <<>>
  /\ filters' = Preset(name).filters /\ sorts' = Preset(name).sorts
  /\ pc' = "count"
  /\ UNCHANGED <<rows, me, page, total, seen, changes>>

Build ==
  /\ pc = "build"
  /\ pc' = "count"
  /\ UNCHANGED <<rows, me, filters, sorts, page, total, seen, changes>>

\* Mutant: pages are counted from 0.
OffsetFromZero == page * PageSize

\* Pagination::page
Offset == (page - 1) * PageSize

\* PaginatedResult::has_next
HasNext == Offset + PageSize < total

\* execute: the number of rows, in a statement of its own.
Count ==
  /\ pc = "count"
  /\ IF Runs THEN pc' = "select" /\ total' = Cardinality(Matching)
     ELSE pc' = "failed" /\ UNCHANGED total
  /\ UNCHANGED <<rows, me, filters, sorts, page, seen, changes>>

\* execute: LIMIT and OFFSET; its caller goes on to the next page.
Select ==
  /\ pc = "select"
  /\ \E s \in Orderings(Matching) :
       seen' = seen \o SubSeq(s, Offset + 1,
                              IF Offset + PageSize < Len(s) THEN Offset + PageSize ELSE Len(s))
  /\ IF HasNext THEN pc' = "count" /\ page' = page + 1
     ELSE pc' = "done" /\ UNCHANGED page
  /\ UNCHANGED <<rows, me, filters, sorts, total, changes>>

\* Others write between the statements.
Change(i, row) ==
  /\ pc \in {"count", "select"} /\ changes < MaxChanges /\ rows[i] # row
  /\ rows' = [rows EXCEPT ![i] = row]
  /\ changes' = changes + 1
  /\ UNCHANGED <<me, filters, sorts, pc, page, total, seen>>

QueriesNext ==
  \/ \E f \in Conditions : AddFilter(f)
  \/ \E c \in Criteria : SortBy(c) \/ ThenBy(c)
  \/ \E name \in PresetsUsed : UsePreset(name)
  \/ Build \/ Count \/ Select
  \/ \E i \in Ids, row \in Rows \cup {NoRow} : Change(i, row)

QueriesSpec == QueriesInit /\ [][QueriesNext]_queriesVars

-----------------------------------------------------------------------------
(* Opposite operators: no row passes both, and one that has a value passes *)
(* one of them; n days ago is either less than, exactly or more than that. *)
Opposites ==
  {{"Equals", "NotEquals"}, {"Contains", "NotContains"}, {"IsNull", "IsNotNull"},
   {"GreaterThan", "LessThanOrEqual"}, {"LessThan", "GreaterThanOrEqual"},
   {"DaysAgo", "LessThanDaysAgo", "MoreThanDaysAgo"},
   {"DaysFromNow", "LessThanDaysFromNow", "MoreThanDaysFromNow"}}

As(f, operator) == FilterToSql([f EXCEPT !.operator = operator])

OppositesDivide ==
  \A f \in Range(filters), group \in Opposites :
    f.operator \in group /\ (\A op \in group : As(f, op) # NoCondition /\ Readable(As(f, op)))
      => \A i \in Stored :
           LET passed == {op \in group : True(As(f, op), i)}
           IN  IF ValueOf(i, As(f, f.operator).column) = Null /\ "IsNull" \notin group
               THEN passed = {} ELSE Cardinality(passed) = 1

(* Reading page by page with an order that tells all rows apart finds      *)
(* every row once and in that order, if nobody wrote in between.           *)
PagesComplete ==
  pc = "done" /\ changes = 0 /\ (\E k \in DOMAIN OrderParts : OrderParts[k].attribute = "id")
    => seen \in Orderings(Matching) /\ total = Len(seen)

=============================================================================

------------------------------- MODULE Schema -------------------------------
(***************************************************************************)
(* The schema made from extracted facts (op-surreal-ast, from_triples.rs). *)
(* Tables, kinds of associations, class names, types, nullability and      *)
(* validations are collected from the whole stream first; a second pass    *)
(* adds fields, indexes and notes triple by triple, and what it has put    *)
(* off, asserts and unique indexes, is done at the end, one by one.        *)
(*                                                                         *)
(* The stream may come in any order and repeat itself, so the second pass  *)
(* takes the triples one at a time, whichever comes next.  A triple is the *)
(* table its subject names, its predicate, the member it is about, which   *)
(* is part of the subject or of the object, and a value.  The order of     *)
(* fields and notes, which is that of the stream, is left out.             *)
(***************************************************************************)
EXTENDS Integers, Sequences, FiniteSets

CONSTANTS
  Identifiers,    \* of classes and columns
  Streams,        \* the sets of triples that streams are made of
  ExtraTargets,   \* extra_targets: classes known but not extracted
  TargetClass,    \* rails_target_class: the class a relation is named after
  ForeignKey,     \* the column of a relation, "<relation>_id"
  IndexName(_),   \* what the columns of a unique index are called, joined by "_"
  MaxRepeats,     \* bound of the model: triples that come again
  Nil             \* the None of the code

Triple(p, table, member, value) ==
  [p |-> p, table |-> table, member |-> member, value |-> value]

\* The predicates collected first that give one value to a member.
Options == {"association_kind", "class_name", "field_type"}

\* A triple about a class, with a value of the type its predicate has.
WellFormed(t) ==
  /\ t.table \in Identifiers
  /\ t.p = "declares_association" => t.member \in DOMAIN ForeignKey
  /\ t.p \in {"has_attribute", "has_field", "validates_constraint", "validation_kind"} =>
       t.member \in Identifiers
  /\ t.p = "class_name" => t.value \in Identifiers
  /\ t.p = "validation_param" => t.value.columns \in Seq(Identifiers)

ASSUME SchemaAssumption ==
  /\ MaxRepeats \in Nat /\ ExtraTargets \subseteq Identifiers
  /\ DOMAIN TargetClass = DOMAIN ForeignKey
  /\ \A r \in DOMAIN ForeignKey : ForeignKey[r] \in Identifiers /\ TargetClass[r] \in Identifiers
  /\ \A r, s \in DOMAIN ForeignKey : ForeignKey[r] = ForeignKey[s] => r = s
  /\ \A stream \in Streams : \A t, u \in stream :
       /\ WellFormed(t)
       /\ t.p \in Options /\ u.p = t.p /\ u.table = t.table /\ u.member = t.member => u = t

VARIABLES
  facts,     \* the triples of the stream
  left,      \* those the second pass has yet to meet
  repeats,   \* history: how many it met again
  tables,    \* the TableBuilder of each declared table
  stubs,     \* stub_targets
  pending,   \* pending_asserts
  overruled, \* history: columns that were required after they were validated, if ever
  ended,     \* whether the second pass is over
  schema     \* the outcome, Nil before

schemaVars == <<facts, left, repeats, tables, stubs, pending, overruled, ended, schema>>

-----------------------------------------------------------------------------
(* The first pass.                                                         *)
Declared == {t.table : t \in {u \in facts : u.p = "rdf:type"}}
KnownTargets == Declared \cup ExtraTargets

Values(p, table, member) ==
  {t.value : t \in {u \in facts : u.p = p /\ u.table = table /\ u.member = member}}
Option(p, table, member, default) ==
  IF Values(p, table, member) = {} THEN default ELSE CHOOSE v \in Values(p, table, member) : TRUE

NotNull(table, field) == Values("column_not_null", table, field) # {}

(* Kinds.                                                                  *)
Kind(base, target) == [base |-> base, target |-> target, option |-> FALSE]
AnyKind == Kind("any", Nil)
Optional(kind) == [kind EXCEPT !.option = TRUE]

\* from_rails_type, Nil for a type it does not know.
FromRailsType(type) ==
  CASE type \in {"integer", "bigint"} -> "int"
    [] type \in {"big_integer", "decimal", "numeric"} -> "decimal"
    [] type \in {"string", "text", "immutable_string"} -> "string"
    [] type \in {"datetime", "timestamp", "date", "time"} -> "datetime"
    [] type = "boolean" -> "bool"
    [] type = "binary" -> "bytes"
    [] type \in {"float", "uuid"} -> type
    [] OTHER -> Nil

RailsType(table, field) == FromRailsType(Option("field_type", table, field, Nil))

(* compose_validation_assert, as the set of its clauses.  A parameter is   *)
(* its kind and its key, whether its value is a number, and the columns it *)
(* names if it is the scope of a uniqueness.                               *)
NotNone == "$value != NONE"
PresenceLike == {"presence", "uniqueness", "length", "format", "inclusion", "exclusion",
                 "confirmation", "comparison"}
KindClauses(kind) ==
  CASE kind = "numericality" -> {"type::is_number($value)"}
    [] kind = "acceptance" -> {"$value == true"}
    [] kind = "absence" -> {"$value == NONE"}
    [] kind \in PresenceLike -> {NotNone}
    [] OTHER -> {}

ParamClause(param) ==
  IF /\ param.number
     /\ \/ param.kind = "length" /\ param.key \in {"maximum", "minimum", "is"}
        \/ /\ param.kind \in {"numericality", "comparison"}
           /\ param.key \in {"greater_than", "less_than", "greater_than_or_equal_to",
                             "less_than_or_equal_to", "equal_to"}
  THEN {param.key} ELSE {}

ComposeValidationAssert(kinds, params) ==
  LET clauses == UNION ({KindClauses(k) : k \in kinds} \cup {ParamClause(p) : p \in params})
  IN  IF clauses = {} THEN {NotNone} ELSE clauses

\* What validates_constraint asserts of a field.
Validation(table, field) ==
  LET kinds == Values("validation_kind", table, field)
  IN  IF kinds = {} THEN {NotNone}
      ELSE ComposeValidationAssert(kinds, Values("validation_param", table, field))

ScopeParams(table, field) ==
  {p \in Values("validation_param", table, field) : p.kind = "uniqueness" /\ p.key = "scope"}
UniquenessScope(table, field) ==
  IF ScopeParams(table, field) = {} THEN <<>>
  ELSE (CHOOSE p \in ScopeParams(table, field) : TRUE).columns

-----------------------------------------------------------------------------
(* TableBuilder.                                                           *)
NoFields == [name \in {} |-> Nil]
NewBuilder == [fields |-> NoFields, indices |-> <<>>, notes |-> {}]
Index(columns, unique) == [columns |-> columns, unique |-> unique]

HasField(b, name) == name \in DOMAIN b.fields

AddField(b, name, kind) ==
  IF HasField(b, name) THEN b
  ELSE [b EXCEPT !.fields =
          [f \in DOMAIN b.fields \cup {name} |->
             IF f = name THEN [kind |-> kind, assert |-> {}] ELSE b.fields[f]]]

\* Mutant: the column that came first keeps its kind.
UpgradeFieldKindNever(b, name, kind) == b

UpgradeFieldKind(b, name, kind) == [b EXCEPT !.fields[name].kind = kind]

AddIndex(b, columns) == [b EXCEPT !.indices = Append(@, Index(columns, FALSE))]

\* Deduplicated by its name; <<"a_b">> and <<"a", "b">> have the same.
HasUniqueIndex(b, columns) ==
  \E k \in DOMAIN b.indices :
    b.indices[k].unique /\ IndexName(b.indices[k].columns) = IndexName(columns)
AddUniqueIndex(b, columns) ==
  IF HasUniqueIndex(b, columns) THEN b
  ELSE [b EXCEPT !.indices = Append(@, Index(columns, TRUE))]

AddAnnotation(b, note) == [b EXCEPT !.notes = @ \cup {note}]

AddFieldAssert(b, name, expr) ==
  IF HasField(b, name) THEN [b EXCEPT !.fields[name].assert = expr] ELSE b

-----------------------------------------------------------------------------
(* The second pass.                                                        *)
SecondPass == {"has_attribute", "has_field", "declares_association", "validates_constraint", "note"}

SchemaInit ==
  /\ facts \in Streams
  /\ left = {t \in facts : t.p \in SecondPass}
  /\ repeats = 0
  /\ tables = [table \in Declared |-> NewBuilder]
  /\ stubs = {} /\ pending = <<>> /\ overruled = {} /\ ended = FALSE /\ schema = Nil

SetTable(table, b) == tables' = [tables EXCEPT ![table] = b]

HasAttribute(t) ==
  /\ t.p = "has_attribute"
  /\ LET type == RailsType(t.table, t.member)
         kind == IF type = Nil THEN AnyKind ELSE Optional(Kind(type, Nil))
     IN  SetTable(t.table, AddField(tables[t.table], t.member, kind))
  /\ UNCHANGED <<stubs, pending, overruled>>

\* A NOT NULL column of a type nobody knows is asserted not to be NONE.
HasFieldTriple(t) ==
  /\ t.p = "has_field"
  /\ LET type == RailsType(t.table, t.member)
         required == NotNull(t.table, t.member)
         kind == IF type = Nil THEN AnyKind
                 ELSE IF required THEN Kind(type, Nil) ELSE Optional(Kind(type, Nil))
         newly == ~HasField(tables[t.table], t.member)
     IN  /\ SetTable(t.table, AddField(tables[t.table], t.member, kind))
         /\ IF newly /\ type = Nil /\ required
            THEN /\ pending' = Append(pending, [table |-> t.table, field |-> t.member, expr |-> {NotNone}])
                 /\ overruled' = overruled \cup {<<t.table, t.member>>}
            ELSE UNCHANGED <<pending, overruled>>
  /\ UNCHANGED stubs

Target(t) == Option("class_name", t.table, t.member, TargetClass[t.member])
AssociationKind(t) == Option("association_kind", t.table, t.member, "belongs_to")

\* The kind of a foreign key: a link if its target is known.
ForeignKeyKind(t) ==
  LET base == IF Target(t) \in KnownTargets THEN Kind("record", Target(t)) ELSE AnyKind
  IN  IF NotNull(t.table, ForeignKey[t.member]) THEN base ELSE Optional(base)

\* Mutant: links to classes that were not extracted are left as they are.
StubTargetsIgnored(t) == {}

StubTargets(t) == {Target(t)} \cap (KnownTargets \ Declared)

\* The field, or its kind if a column came first, and with either its index.
BelongsTo(t) ==
  LET b == tables[t.table]
      field == ForeignKey[t.member]
      kind == ForeignKeyKind(t)
      newly == ~HasField(b, field)
      upgraded == ~newly /\ b.fields[field].kind # kind
      built == IF newly THEN AddField(b, field, kind) ELSE UpgradeFieldKind(b, field, kind)
  IN  SetTable(t.table, IF newly \/ upgraded THEN AddIndex(built, <<field>>) ELSE b)

DeclaresAssociation(t) ==
  /\ t.p = "declares_association"
  /\ IF AssociationKind(t) = "belongs_to"
     THEN BelongsTo(t) /\ stubs' = stubs \cup StubTargets(t)
     ELSE /\ SetTable(t.table, AddAnnotation(tables[t.table], <<AssociationKind(t), t.member, Target(t)>>))
          /\ UNCHANGED stubs
  /\ UNCHANGED <<pending, overruled>>

\* Mutant: the assert is attached at once, if the field is there already.
ValidatesConstraintAtOnce(t) ==
  /\ t.p = "validates_constraint"
  /\ SetTable(t.table, AddFieldAssert(tables[t.table], t.member, Validation(t.table, t.member)))
  /\ overruled' = overruled \ {<<t.table, t.member>>}
  /\ UNCHANGED <<stubs, pending>>

ValidatesConstraint(t) ==
  /\ t.p = "validates_constraint"
  /\ pending' = Append(pending, [table |-> t.table, field |-> t.member,
                                 expr |-> Validation(t.table, t.member)])
  /\ overruled' = overruled \ {<<t.table, t.member>>}
  /\ UNCHANGED <<tables, stubs>>

\* The predicates that only leave a note: acts_as, has_callback, has_scope and the like.
Note(t) ==
  /\ t.p = "note"
  /\ SetTable(t.table, AddAnnotation(tables[t.table], <<t.value, t.member, Nil>>))
  /\ UNCHANGED <<stubs, pending, overruled>>

\* A subject that is no declared table is passed over.
Undeclared(t) ==
  /\ t.table \notin Declared
  /\ UNCHANGED <<tables, stubs, pending, overruled>>

Take(t) ==
  /\ ~ended /\ t.p \in SecondPass
  /\ \/ t \in left /\ left' = left \ {t} /\ UNCHANGED repeats
     \/ t \notin left /\ repeats < MaxRepeats /\ repeats' = repeats + 1 /\ UNCHANGED left
  /\ \/ Undeclared(t)
     \/ /\ t.table \in Declared
        /\ HasAttribute(t) \/ HasFieldTriple(t) \/ DeclaresAssociation(t)
             \/ ValidatesConstraint(t) \/ Note(t)
  /\ UNCHANGED <<facts, ended, schema>>

-----------------------------------------------------------------------------
(* What was put off.                                                       *)
EndStream ==
  /\ ~ended /\ left = {}
  /\ ended' = TRUE
  /\ UNCHANGED <<facts, left, repeats, tables, stubs, pending, overruled, schema>>

\* The last one of a field is the one that stays.
ApplyAssert ==
  /\ ended /\ pending # <<>>
  /\ LET a == Head(pending)
     IN  SetTable(a.table, AddFieldAssert(tables[a.table], a.field, a.expr))
  /\ pending' = Tail(pending)
  /\ UNCHANGED <<facts, left, repeats, stubs, overruled, ended, schema>>

\* Mutant: what is validated to be unique is indexed, there or not.
UniqueColumnsUnguarded(table) ==
  {t.member : t \in {u \in facts :
     u.p = "validation_kind" /\ u.table = table /\ u.value = "uniqueness"}}

UniqueColumns(table) ==
  {t.member : t \in {u \in facts :
     /\ u.p = "validation_kind" /\ u.table = table /\ u.value = "uniqueness"
     /\ HasField(tables[table], u.member)}}

IndexColumns(table, field) == <<field>> \o UniquenessScope(table, field)
Unindexed(table) ==
  {field \in UniqueColumns(table) : ~HasUniqueIndex(tables[table], IndexColumns(table, field))}

IndexUnique(table) ==
  /\ ended /\ pending = <<>> /\ schema = Nil
  /\ \E field \in Unindexed(table) :
       SetTable(table, AddUniqueIndex(tables[table], IndexColumns(table, field)))
  /\ UNCHANGED <<facts, left, repeats, stubs, pending, overruled, ended, schema>>

Stub == AddAnnotation(NewBuilder, <<"stub", Nil, Nil>>)

Finish ==
  /\ ended /\ pending = <<>> /\ schema = Nil
  /\ \A table \in Declared : Unindexed(table) = {}
  /\ schema' = [table \in Declared \cup stubs |->
                 IF table \in Declared THEN tables[table] ELSE Stub]
  /\ UNCHANGED <<facts, left, repeats, tables, stubs, pending, overruled, ended>>

SchemaNext ==
  \/ \E t \in facts : Take(t)
  \/ EndStream \/ ApplyAssert \/ Finish
  \/ \E table \in Declared : IndexUnique(table)

SchemaSpec == SchemaInit /\ [][SchemaNext]_schemaVars

-----------------------------------------------------------------------------
Done == schema # Nil
BelongsTos == {t \in facts : t.p = "declares_association" /\ t.table \in Declared
                             /\ AssociationKind(t) = "belongs_to"}

\* On a column that is there, alone or, if it is unique, with the columns
\* that the validation of that column names as its scope.
OnItsColumns(table, b, i) ==
  /\ HasField(b, i.columns[1])
  /\ i.columns = IF i.unique THEN IndexColumns(table, i.columns[1]) ELSE <<i.columns[1]>>

Links(table) ==
  {schema[table].fields[f].kind.target :
     f \in {g \in DOMAIN schema[table].fields : schema[table].fields[g].kind.base = "record"}}

(* "the record links never dangle" and no table is made up: a link leads   *)
(* to a table of the schema, a table was declared or is linked to, and     *)
(* every column of every index is there, except those a validation names   *)
(* as the scope of a uniqueness, which are indexed extracted or not.       *)
NothingDangles ==
  Done =>
    /\ \A table \in DOMAIN schema :
         /\ Links(table) \subseteq DOMAIN schema
         /\ \A k \in DOMAIN schema[table].indices :
              OnItsColumns(table, schema[table], schema[table].indices[k])
    /\ \A stub \in DOMAIN schema \ Declared : \E table \in Declared : stub \in Links(table)

(* "AR shape owns the kind", "Companion index once per field": whether the *)
(* column or the association came first, and however often, the foreign    *)
(* key is the link the association asks for, with one index for the link.  *)
AssociationOwnsColumn ==
  Done => \A t \in BelongsTos :
    LET field == ForeignKey[t.member]
        mine == {k \in DOMAIN schema[t.table].indices :
                   schema[t.table].indices[k] = Index(<<field>>, FALSE)}
    IN  /\ schema[t.table].fields[field].kind = ForeignKeyKind(t)
        /\ Cardinality(mine) <= 1
        /\ ForeignKeyKind(t).base = "record" => mine # {}

\* The validations of the columns that are there.
Validations ==
  {t \in facts : /\ t.p = "validates_constraint" /\ t.table \in Declared
                 /\ HasField(schema[t.table], t.member)}
AssertOf(t) == schema[t.table].fields[t.member].assert
LastWritten(table, field) ==
  IF <<table, field>> \in overruled THEN {NotNone} ELSE Validation(table, field)

(* "Last-writer-wins": every validated column that is there asserts all    *)
(* its validations, before or after it as they may come, unless it was     *)
(* found to be NOT NULL, of a type nobody knows, after the last time it    *)
(* was validated, when it asserts only that.                               *)
ValidatedIsAsserted ==
  Done => \A t \in Validations : AssertOf(t) = LastWritten(t.table, t.member)

(* "the `validates_constraint` -> ASSERT wiring is independent of triple   *)
(* stream order": whatever came first, what a column asserts is what is    *)
(* validated of it.                                                        *)
AssertsInAnyOrder ==
  Done => \A t \in Validations : AssertOf(t) = Validation(t.table, t.member)

=============================================================================

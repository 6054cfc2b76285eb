------------------------------ MODULE MCSchema ------------------------------
(* Streams about a work package: columns that come with an association,    *)
(* with an attribute or alone, of known and unknown types.                 *)
EXTENDS Schema

LOCAL INSTANCE SequencesExt

WP == "WorkPackage"
T(p, member, value) == Triple(p, WP, member, value)
Targets == [project |-> "Project", owner |-> "Owner", parent |-> "WorkPackage"]
Keys == [project |-> "project_id", owner |-> "owner_id", parent |-> "parent_id"]

MCIdentifiers == {"WorkPackage", "Project", "User", "Owner", "Type", "Missing",
            "project_id", "owner_id", "parent_id", "data", "name", "project_id_data"}

MCIndexName(columns) ==
  FoldLeft(LAMBDA x, y : x \o "_" \o y, Head(columns), Tail(columns))

Declarations == {Triple("rdf:type", WP, Nil, Nil), Triple("rdf:type", "Project", Nil, Nil)}
Param(kind, key, number, columns) ==
  [kind |-> kind, key |-> key, number |-> number, columns |-> columns]

\* A link to a table, its column and what is validated of it.
Linked ==
  {T("declares_association", "project", Nil), T("has_field", "project_id", Nil),
   T("has_attribute", "project_id", Nil), T("column_not_null", "project_id", Nil),
   T("field_type", "project_id", "bigint"), T("validates_constraint", "project_id", Nil),
   T("validation_kind", "project_id", "uniqueness"),
   T("validation_param", "project_id", Param("uniqueness", "scope", FALSE, <<"data">>))}

\* A link to a class that is known, or to one that is not, or the other way round.
Owned ==
  {T("declares_association", "owner", Nil), T("class_name", "owner", "User"),
   T("association_kind", "owner", "has_many"), T("has_attribute", "owner_id", Nil),
   T("column_not_null", "owner_id", Nil), T("has_field", "owner_id", Nil),
   T("note", "list", "acts_as"), Triple("has_attribute", "Missing", "name", Nil)}

\* A column with and without a type, and what is validated of it.
Validated ==
  {T("has_field", "data", Nil), T("has_attribute", "data", Nil),
   T("column_not_null", "data", Nil), T("field_type", "data", "jsonb"),
   T("field_type", "data", "string"), T("validates_constraint", "data", Nil),
   T("validation_kind", "data", "numericality"), T("validation_kind", "data", "uniqueness"),
   T("validation_param", "data", Param("numericality", "greater_than", TRUE, <<>>))}

\* Two uniquenesses whose indexes have the same name.
Colliding ==
  {T("has_attribute", "project_id", Nil), T("has_attribute", "project_id_data", Nil),
   T("validation_kind", "project_id", "uniqueness"),
   T("validation_kind", "project_id_data", "uniqueness"),
   T("validation_param", "project_id", Param("uniqueness", "scope", FALSE, <<"data">>))}

OneType(s) == Cardinality({t \in s : t.p = "field_type"}) <= 1

MCStreams ==
  {Declarations \cup s : s \in {x \in SUBSET Linked \cup SUBSET Owned \cup SUBSET Validated : OneType(x)}}
  \cup {Declarations \cup (Linked \ {x}) \cup (Owned \ {y}) : x \in Linked, y \in Owned}
  \cup {Declarations \cup Colliding}
=============================================================================

----------------------------- MODULE MCQueries ------------------------------
(* Rows with and without assignee and due date, one of them closed, and    *)
(* every operator on columns of every type.                                *)
EXTENDS Queries

R(assignee, due, subject, closed) ==
  [assigned_to_id |-> assignee, due_date |-> due, subject |-> subject,
   status_is_closed |-> closed]

MCRows == {R(1, -1, <<"a", "b">>, FALSE), R(Null, 0, <<"b">>, FALSE), R(2, Null, <<>>, TRUE)}

Days == {Filter("due_date", op, n, Value("Date", <<0>>)) :
           op \in DOMAIN Relative \cup {"ThisWeek", "Equals", "LessThan", "GreaterThan"},
           n \in {0, 1}}

MCConditions ==
  Days \cup
  {ByIds("assigned_to_id", <<1, 2>>), ByIds("assigned_to_id", <<1>>), ById("id", 1),
   ByMe("assigned_to_id"), ByMe("watcher_id"), Without("assigned_to_id"),
   SubjectContains(<<"a">>), Open, Closed, DueToday, DueThisWeek, Overdue,
   Filter("assigned_to_id", "NotEquals", 0, FromIds(<<2>>)),
   Filter("assigned_to_id", "NotEquals", 0, Value("Me", <<>>)),
   Filter("assigned_to_id", "IsNotNull", 0, NoValue),
   Filter("subject", "NotContains", 0, Value("String", <<<<"b">>>>)),
   Filter("subject", "StartsWith", 0, Value("String", <<<<"a">>>>)),
   Filter("subject", "EndsWith", 0, Value("String", <<<<"a">>>>)),
   Filter("subject", "Contains", 0, Value("Strings", <<<<"a">>, <<"b">>>>)),
   Filter("due_date", "Between", 0, Value("DateRange", <<-1, 0>>)),
   Filter("due_date", "LessThanOrEqual", 0, Value("Date", <<-1>>)),
   Filter("id", "GreaterThanOrEqual", 0, Value("Number", <<2>>)),
   Filter("status_is_closed", "Equals", 0, Value("Bool", <<TRUE>>))}

MCCriteria == {Asc("id"), Desc("due_date"), Asc("assigned_to"), Desc("spent_hours")}
Monday == -1
=============================================================================

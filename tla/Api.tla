--------------------------------- MODULE Api --------------------------------
(***************************************************************************)
(* The handlers of /api/v3 (op-api): what each asks of its caller, which   *)
(* calls of a repository it awaits one after the other, and how it answers *)
(* what they return.  A call of a repository is one step here; the         *)
(* statements it consists of are in Repositories and WorkPackageRows.      *)
(*                                                                         *)
(* A handler is a gate, decided before anything is awaited, and a sequence *)
(* of steps.  What the table of a resource holds is abstracted to rows     *)
(* with an owner and one value; the ids are never used again.              *)
(***************************************************************************)
EXTENDS Integers, Sequences, FiniteSets

CONSTANTS
  Requests,    \* the requests that overlap, each sent once
  Ids,         \* ids of rows; those of users double as user ids
  LetIn,       \* the users the extractor lets in, 0 for the anonymous one
  Admins,      \* those among them who are administrators
  Served,      \* the resources this instance looks at
  None

\* Ids are given out by a sequence, from 1 on.
ASSUME ApiAssumption ==
  /\ IsFiniteSet(Ids) /\ Ids = 1 .. Cardinality(Ids)
  /\ LetIn \subseteq Nat /\ 0 \in LetIn
  /\ Admins \subseteq LetIn \cap Ids
  /\ None \notin Nat /\ None \notin [owner : Nat, value : {0, 1}]

VARIABLES
  closed,     \* config.require_authentication
  connected,  \* whether AppState has a pool
  resource,   \* the resource all requests are for
  rows,       \* its table
  next,       \* the next id of its sequence
  hidden,     \* rows of watchers that a search does not show
  req,        \* what each request is: handler, caller, id, where it is
  wrote, absent, failed,   \* history of each request: it changed its row, its row was
                           \* missing at some moment, the database failed it
  answer      \* the status it was answered with, 0 if it was dropped

vars == <<closed, connected, resource, rows, next, hidden, req, wrote, absent, failed, answer>>

Row == [owner : Nat, value : {0, 1}]
NoRequest == [handler |-> None, user |-> 0, id |-> 0, at |-> 0]

-----------------------------------------------------------------------------
(* The handlers.  "named" are the errors of the repository that the        *)
(* handler answers with a status of their own; any other is a 500.         *)
Handler(gate, steps, named) == [gate |-> gate, steps |-> steps, named |-> named]

\* The routes of both; those of f where they are the same.
Joined(f, g) == [x \in DOMAIN f \cup DOMAIN g |-> IF x \in DOMAIN f THEN f[x] ELSE g[x]]

AllErrors == {"NotFound", "Conflict", "Validation"}
Read(steps) == Handler("anyone", steps, {})
Reads == [list |-> Read(<<"list">>), get |-> Read(<<"get">>)]

\* create, update and delete for administrators.
AdminWrites(onCreate, onUpdate, onDelete) ==
  [create |-> Handler("admin", <<"create">>, onCreate),
   update |-> Handler("admin", <<"update">>, onUpdate),
   delete |-> Handler("admin", <<"delete">>, onDelete)]

Activities == Joined(Reads, AdminWrites({"Conflict", "Validation"}, AllErrors, {"Conflict", "NotFound"}))
Categories == Joined(Reads, AdminWrites({"Conflict", "Validation"}, AllErrors, {"Conflict", "NotFound"}))
Versions == Joined(Reads, AdminWrites({"Conflict", "Validation"}, AllErrors, {"Conflict", "NotFound"}))
Priorities == Joined(Reads, AdminWrites({"Conflict"}, {"Conflict", "NotFound"}, {"Conflict", "NotFound"}))
Types == Joined(Reads, AdminWrites({"Conflict"}, {"Conflict", "NotFound"}, {"Conflict", "NotFound"}))

\* Mutant: a name that is taken is an error of the database like any other.
StatusesForgetConflict ==
  Joined(Reads, AdminWrites({"Validation"}, AllErrors, {"Conflict", "NotFound"}))

Statuses == Joined(Reads, AdminWrites({"Conflict", "Validation"}, AllErrors, {"Conflict", "NotFound"}))

\* The row and then its permissions, if any are given.
Roles ==
  [list |-> Read(<<"list", "list">>), get |-> Read(<<"get", "list">>),
   create |-> Handler("admin", <<"create", "more", "list">>, {"Conflict"}),
   update |-> Handler("admin", <<"update", "more", "list">>, {"Conflict", "NotFound"}),
   delete |-> Handler("admin", <<"delete">>, {"Conflict", "NotFound"})]

\* The answer shows the roles, read again.
Memberships ==
  Joined(Reads,
  [create |-> Handler("admin", <<"create", "recall">>, {"Conflict", "Validation"}),
   update |-> Handler("admin", <<"update", "recall">>, AllErrors),
   delete |-> Handler("admin", <<"delete">>, {"Conflict", "NotFound"})])

Projects ==
  Joined(Reads,
  [create |-> Handler("admin", <<"unique", "create">>, {}),
   update |-> Handler("admin", <<"exists", "update">>, {"NotFound"})])

Archiving ==
  [delete |-> Handler("admin", <<"delete">>, {"Conflict", "NotFound"}),
   archive |-> Handler("admin", <<"get", "set", "get">>, {}),
   unarchive |-> Handler("admin", <<"get", "set", "get">>, {})]

\* Mutant: everybody may look at an account, and write to it.
UsersOpen ==
  [list |-> Read(<<"list">>), get |-> Handler("anyone", <<"get">>, {}), me |-> Read(<<"get">>),
   create |-> Handler("admin", <<"unique", "unique", "create">>, {}),
   update |-> Handler("anyone", <<"exists", "unique", "update">>, {"NotFound"})]

Users ==
  [list |-> Read(<<"list">>), get |-> Handler("self", <<"get">>, {}), me |-> Read(<<"get">>),
   create |-> Handler("admin", <<"unique", "unique", "create">>, {}),
   update |-> Handler("self", <<"exists", "unique", "update">>, {"NotFound"})]

Locking ==
  [delete |-> Handler("another", <<"delete">>, {"NotFound"}),
   lock |-> Handler("another", <<"get", "set", "get">>, {}),
   unlock |-> Handler("admin", <<"get", "set", "get">>, {})]

QueryReads ==
  Joined(Reads, [defaults |-> Handler("anyone", <<>>, {}), available_projects |-> Read(<<"list">>)])

\* Mutant: the query is written before its owner is looked up.
QueryWritesEarly ==
  [create |-> Handler("anyone", <<"create">>, {"Validation"}),
   update |-> Handler("anyone", <<"update", "owner", "list">>, {"NotFound", "Validation"}),
   delete |-> Handler("anyone", <<"owner", "delete">>, {"NotFound"})]

QueryWrites ==
  [create |-> Handler("anyone", <<"create">>, {"Validation"}),
   update |-> Handler("anyone", <<"owner", "update", "list">>, {"NotFound", "Validation"}),
   delete |-> Handler("anyone", <<"owner", "delete">>, {"NotFound"})]

Stars ==
  [star |-> Handler("anyone", <<"star", "get">>, {"NotFound"}),
   unstar |-> Handler("anyone", <<"unstar", "get">>, {})]

AttachmentWrites ==
  [create |-> Handler("anyone", <<"create">>, {"Validation"}),
   update |-> Handler("anyone", <<"owner", "update">>, {"NotFound"}),
   delete |-> Handler("anyone", <<"owner", "delete">>, {"NotFound"})]
Attachments == Joined(Reads, AttachmentWrites)

Journals == Joined(Reads, [update |-> Handler("anyone", <<"owner", "update">>, {"NotFound"})])

News == Reads

Relations ==
  Joined(Reads,
  [create |-> Handler("anyone", <<"create">>, {"Conflict", "Validation"}),
   update |-> Handler("anyone", <<"update">>, {"NotFound", "Validation"}),
   delete |-> Handler("anyone", <<"delete">>, {"NotFound"})])

TimeEntries ==
  Joined(Reads,
  [create |-> Handler("anyone", <<"date", "create">>, {}),
   update |-> Handler("anyone", <<"date", "update">>, {"NotFound"}),
   delete |-> Handler("anyone", <<"delete">>, {"NotFound"})])

\* Watching what one watches already, or not watching at all, is no error.
\* The answer shows the watcher, searched for among those of the work package.
Watchers ==
  [list |-> Read(<<"list">>), is_watching |-> Read(<<"list">>),
   add |-> Handler("anyone", <<"create", "search">>, {"Conflict", "Validation"}),
   remove |-> Handler("anyone", <<"remove">>, {}),
   watch |-> Handler("anyone", <<"create">>, {"Validation", "Already"}),
   unwatch |-> Handler("anyone", <<"unset">>, {})]

WorkPackages ==
  Joined(Reads,
  [create |-> Handler("anyone", <<"create">>, {}),
   update |-> Handler("anyone", <<"update">>, {"Conflict", "NotFound"}),
   delete |-> Handler("anyone", <<"delete">>, {"NotFound"})])

\* api_v3_router
Router ==
  [activities |-> Activities, attachments |-> Attachments, categories |-> Categories,
   journals |-> Journals, memberships |-> Memberships, news |-> News, priorities |-> Priorities,
   projects |-> Joined(Projects, Archiving), queries |-> Joined(QueryReads, Joined(QueryWrites, Stars)),
   relations |-> Relations, roles |-> Roles, statuses |-> Statuses, time_entries |-> TimeEntries,
   types |-> Types, users |-> Joined(Users, Locking), versions |-> Versions, watchers |-> Watchers,
   work_packages |-> WorkPackages]

ASSUME RouterAssumption ==
  Served \subseteq DOMAIN Router /\ \A p \in Served : None \notin DOMAIN Router[p]

(* What a repository refuses, apart from failing.                          *)
Refuses(op) ==
  CASE op = "create" ->
         CASE resource \in {"activities", "categories", "memberships", "relations", "statuses",
                            "versions", "watchers"} -> {"Conflict", "Validation"}
           [] resource \in {"priorities", "roles", "types"} -> {"Conflict"}
           [] resource \in {"attachments", "queries"} -> {"Validation"}
           [] OTHER -> {}
    [] op = "update" ->
         CASE resource \in {"activities", "categories", "statuses", "versions"} -> AllErrors
           [] resource \in {"priorities", "roles", "types"} -> {"Conflict", "NotFound"}
           [] resource \in {"memberships", "queries", "relations"} -> {"NotFound", "Validation"}
           [] resource = "work_packages" -> {"Conflict"}
           [] OTHER -> {"NotFound"}
    [] op = "delete" ->
         CASE resource \in {"attachments", "queries", "relations", "time_entries", "users",
                            "work_packages"} -> {"NotFound"}
           [] OTHER -> {"Conflict", "NotFound"}
    [] op = "star" -> {"NotFound"}
    [] OTHER -> {}

-----------------------------------------------------------------------------
(* ApiError::status_code, and the codes of the handlers that succeed.      *)
StatusCode == [NotFound |-> 404, Conflict |-> 409, Validation |-> 400]
Success(handler) ==
  CASE handler \in {"create", "add"} -> 201
    [] handler \in {"delete", "remove", "watch", "unwatch"} -> 204
    [] OTHER -> 200

Present(i) == i \in Ids /\ rows[i] # None
IsAdmin(u) == u \in Admins
H(r) == Router[resource][req[r].handler]
Step(r) == H(r).steps[req[r].at]
Active == {r \in Requests : req[r].handler # None /\ answer[r] = None}

Init ==
  /\ closed \in BOOLEAN /\ connected \in BOOLEAN
  /\ resource \in Served
  /\ \E owners \in [Ids -> Ids \cup {0, None}] :
       /\ \A i \in Ids : owners[i] # None => \A j \in Ids : j < i => owners[j] # None
       /\ rows = [i \in Ids |-> IF owners[i] = None THEN None
                                ELSE [owner |-> IF resource = "users" THEN i ELSE owners[i],
                                      value |-> 0]]
       /\ next = Cardinality({i \in Ids : owners[i] # None}) + 1
  /\ hidden = {}
  /\ req = [r \in Requests |-> NoRequest]
  /\ wrote = [r \in Requests |-> FALSE] /\ absent = [r \in Requests |-> FALSE]
  /\ failed = [r \in Requests |-> FALSE] /\ answer = [r \in Requests |-> None]

(* AuthenticatedUser: whoever sends credentials is refused, and so is      *)
(* everybody else where authentication is required.                        *)
Extracted(u, header) ==
  IF header \/ closed THEN None ELSE u

\* What a handler answers before it awaits anything, None to go on.
Gate(h, u, i) ==
  CASE h.gate = "admin" /\ ~IsAdmin(u) -> 403
    [] h.gate = "self" /\ u # i /\ ~IsAdmin(u) -> 403
    [] h.gate = "another" /\ ~IsAdmin(u) -> 403
    [] h.gate = "another" /\ u = i -> 409
    [] h.steps # <<>> /\ ~connected -> 500
    [] OTHER -> None

Begin(r, name, u, i, header) ==
  /\ req[r] = NoRequest
  /\ LET user == Extracted(u, header)
         target == IF name = "me" THEN user ELSE i
         code == IF user = None THEN 401 ELSE Gate(Router[resource][name], user, i)
     IN  /\ req' = [req EXCEPT ![r] = IF user = None THEN [NoRequest EXCEPT !.handler = name]
              ELSE [handler |-> name, user |-> user, id |-> target, at |-> 1]]
         /\ answer' = [answer EXCEPT ![r] =
              IF code = None /\ Router[resource][name].steps = <<>> THEN 200 ELSE code]
         /\ absent' = [absent EXCEPT ![r] = ~Present(target)]
  /\ UNCHANGED <<closed, connected, resource, rows, next, hidden, wrote, failed>>

Proceed(r) ==
  IF req[r].at = Len(H(r).steps)
  THEN /\ answer' = [answer EXCEPT ![r] = Success(req[r].handler)]
       /\ UNCHANGED req
  ELSE /\ req' = [req EXCEPT ![r].at = @ + 1]
       /\ UNCHANGED answer

Answer(r, code) ==
  /\ answer' = [answer EXCEPT ![r] = code]
  /\ UNCHANGED req

same == <<closed, connected, resource, hidden, failed>>
Unwritten == UNCHANGED <<rows, next, wrote, absent>>

\* find_by_id, exists, the owner's check, and what else only looks.
Look(r) ==
  /\ r \in Active
  /\ LET i == req[r].id
         u == req[r].user
     IN  CASE Step(r) \in {"get", "exists"} -> IF Present(i) THEN Proceed(r) ELSE Answer(r, 404)
           [] Step(r) = "owner" -> IF ~Present(i) THEN Answer(r, 404)
                                   ELSE IF rows[i].owner # u /\ ~IsAdmin(u) THEN Answer(r, 403)
                                   ELSE Proceed(r)
           [] Step(r) = "recall" -> IF Present(i) THEN Proceed(r) ELSE Answer(r, 500)
           [] Step(r) = "search" -> IF Present(i) /\ i \notin hidden THEN Proceed(r)
                                    ELSE Answer(r, 500)
           [] Step(r) = "unique" -> Proceed(r) \/ Answer(r, 409)
           [] Step(r) = "date" -> Proceed(r) \/ Answer(r, 400)
           [] Step(r) = "list" -> Proceed(r)
           [] OTHER -> FALSE
  /\ Unwritten /\ UNCHANGED same

\* Mutant: what the handler does not know is the client's fault.
NamedAsMissing(r, error) ==
  IF error = "Conflict" /\ "Already" \in H(r).named THEN 204
  ELSE IF error \in H(r).named THEN StatusCode["NotFound"] ELSE 500

\* map_err
Named(r, error) ==
  IF error = "Conflict" /\ "Already" \in H(r).named THEN 204
  ELSE IF error \in H(r).named THEN StatusCode[error] ELSE 500

\* The repository refuses: its row is missing, or a choice of the client's is.
Refuse(r, error) ==
  /\ r \in Active /\ error \in Refuses(Step(r))
  /\ error = "NotFound" => ~Present(req[r].id)
  /\ Answer(r, Named(r, error))
  /\ Unwritten /\ UNCHANGED same

\* The row i is written by r.
Written(r, i, row) ==
  /\ rows' = [rows EXCEPT ![i] = row]
  /\ wrote' = [wrote EXCEPT ![r] = TRUE]
  /\ absent' = [q \in Requests |-> absent[q] \/ (row = None /\ q \in Active /\ req[q].id = i)]

\* create: the request goes on with the id of the new row.
Create(r) ==
  /\ r \in Active /\ Step(r) = "create" /\ next \in Ids
  /\ Written(r, next, [owner |-> IF resource = "users" THEN next ELSE req[r].user, value |-> 0])
  /\ next' = next + 1
  /\ IF Len(H(r).steps) = req[r].at
     THEN /\ answer' = [answer EXCEPT ![r] = Success(req[r].handler)]
          /\ req' = [req EXCEPT ![r].id = next]
     ELSE /\ req' = [req EXCEPT ![r].id = next, ![r].at = @ + 1]
          /\ UNCHANGED answer
  /\ UNCHANGED same

\* update, archive, lock and set_permissions: of a row that is there.
Update(r) ==
  /\ r \in Active /\ Step(r) \in {"update", "set", "more"}
  /\ Step(r) = "update" => Present(req[r].id)
  /\ IF Present(req[r].id)
     THEN /\ Written(r, req[r].id, [rows[req[r].id] EXCEPT !.value = 1 - @])
          /\ UNCHANGED next
     ELSE Unwritten
  /\ Proceed(r) /\ UNCHANGED same

\* delete, and the DELETE of a watcher that tells whether there was one.
Delete(r) ==
  /\ r \in Active /\ Step(r) \in {"delete", "remove", "unset"}
  /\ Step(r) = "delete" => Present(req[r].id)
  /\ IF Present(req[r].id)
     THEN Written(r, req[r].id, None) /\ Proceed(r) /\ UNCHANGED next
     ELSE /\ Unwritten
          /\ IF Step(r) = "remove" THEN Answer(r, 404) ELSE Proceed(r)
  /\ UNCHANGED same

\* star and unstar write the caller's view of a query, not the query.
Star(r) ==
  /\ r \in Active /\ Step(r) \in {"star", "unstar"}
  /\ Step(r) = "star" => Present(req[r].id)
  /\ Proceed(r)
  /\ Unwritten /\ UNCHANGED same

\* A call of the repository fails: "Database error".
Fail(r) ==
  /\ r \in Active /\ Step(r) # "date"
  /\ failed' = [failed EXCEPT ![r] = TRUE]
  /\ Answer(r, 500)
  /\ Unwritten /\ UNCHANGED <<closed, connected, resource, hidden>>

\* The client hangs up, and the handler is dropped at its await.
Drop(r) ==
  /\ r \in Active
  /\ Answer(r, 0)
  /\ Unwritten /\ UNCHANGED same

\* The search joins the users and reads 1000 rows, the newest first: it does
\* not show a watcher whose user was deleted, or that lies beyond these.
Hide(i) ==
  /\ resource = "watchers" /\ Present(i)
  /\ hidden' = hidden \cup {i}
  /\ UNCHANGED <<closed, connected, resource, rows, next, req, wrote, absent, failed, answer>>

Next ==
  \/ \E r \in Requests :
       \/ \E name \in DOMAIN Router[resource], u \in LetIn, i \in Ids, header \in BOOLEAN :
            Begin(r, name, u, i, header)
       \/ Look(r) \/ Create(r) \/ Update(r) \/ Delete(r) \/ Star(r) \/ Fail(r) \/ Drop(r)
       \/ \E error \in AllErrors : Refuse(r, error)
  \/ \E i \in Ids : Hide(i)

Spec == Init /\ [][Next]_vars

-----------------------------------------------------------------------------
(* A refusal means that nothing happened: whoever is answered with a 4xx   *)
(* changed no row that is still there, although the handler may have       *)
(* written before it looked again.                                         *)
RefusalHasNoEffect ==
  \A r \in Requests :
    answer[r] \in {400, 401, 403, 404, 409} /\ wrote[r] => ~Present(req[r].id)

(* A 404 is true: at some moment of the request its row was not there.     *)
NotFoundIsTrue == \A r \in Requests : answer[r] = 404 => absent[r]

(* Everything a repository may refuse is answered with a status of its     *)
(* own: a 500 is a failure of the database, or a row the handler wrote and *)
(* could not show, as it was deleted meanwhile or, of a watcher, is there  *)
(* but out of the search's sight.                                          *)
InternalMeansTrouble ==
  \A r \in Requests :
    answer[r] = 500 =>
      \/ ~connected \/ failed[r]
      \/ wrote[r] /\ (absent[r] \/ (resource = "watchers" /\ req[r].id \in hidden))

AdminTables ==
  {"activities", "categories", "versions", "priorities", "types", "statuses", "roles",
   "memberships", "projects"}
OwnedTables == {"queries", "attachments", "journals", "users"}

(* What administrators write nobody else does, from the others' queries,   *)
(* attachments, journals and accounts everybody keeps away, although the   *)
(* owner was looked up before an await, and where authentication is        *)
(* required nobody changes anything, header or not.                        *)
ByRight ==
  [][\A i \in Ids :
       rows'[i] # rows[i] =>
         ~closed /\ \E r \in Active :
           /\ resource \in AdminTables => IsAdmin(req[r].user)
           /\ resource \in OwnedTables /\ rows[i] # None
                => IsAdmin(req[r].user) \/ rows[i].owner = req[r].user
           /\ wrote'[r]]_vars

=============================================================================

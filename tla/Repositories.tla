---------------------------- MODULE Repositories ----------------------------
(***************************************************************************)
(* The repositories of op-db, the handlers of op-api that add statements   *)
(* of their own to a repository call, and the journal service, whose store *)
(* is used the same way.                                                   *)
(*                                                                         *)
(* A repository method is a few SQL statements sent one by one: there is   *)
(* no transaction, and almost no constraint in the schema.  Each method is *)
(* the sequence of its statements, each statement is one action, and       *)
(* requests overlap between any two of them.  Any statement may fail, and  *)
(* `?` then ends the method with what it has written so far; a request     *)
(* whose client hangs up is dropped at its next await, which leaves the    *)
(* same.  A statement under an `if` is in the sequence, and does nothing   *)
(* when its condition is false.  The tables share no state that two        *)
(* repositories write, so a behaviour is about one of them, chosen at the  *)
(* start.                                                                  *)
(***************************************************************************)
EXTENDS Integers, Sequences, FiniteSets

CONSTANTS
  Requests,   \* calls in progress at the same time; each is used again
  MaxBreaks,  \* bound of the model: calls a failed statement or a hang-up ends
  MaxId,      \* bound of the model: rows ever inserted
  Names,      \* values of the column a repository keeps unique
  Links,      \* what a row is linked to: permissions, roles, projects
  LinkSets,   \* the sets of them a request may give
  Lows, Highs, \* numbers a request may give for the two number columns
  MaxDownloads, \* bound of the model: downloads of one attachment
  Referable,  \* rows another table may come to refer to
  None        \* a column a request does not give

ASSUME RepositoriesAssumption ==
  /\ MaxId \in Nat /\ MaxDownloads \in Nat /\ MaxBreaks \in Nat
  /\ Lows \subseteq Nat /\ Highs \subseteq Nat /\ Referable \subseteq 1 .. MaxId
  /\ LinkSets \subseteq SUBSET Links
  /\ None \notin Names /\ None \notin BOOLEAN

VARIABLES
  repo,    \* the repository the behaviour is about
  rows,    \* its table
  links,   \* the rows of its join table, by the row they belong to
  used,    \* the rows another table refers to
  next,    \* the sequence of the id column
  pc,      \* the statement each request is at; 0 idle, -1 broken off
  req,     \* what each request was called with
  copy,    \* the row it read, or the numbers it drew
  left,    \* the links it has still to insert
  cut,     \* history: rows that a call broken off left half written
  calm,    \* history: requests during which nobody else changed the tables
  start,   \* history: the tables when such a request began
  met      \* history: names others gave to rows since a request looked for them

tables == <<rows, links, used, next>>
history == <<cut, calm, start, met>>
vars == <<repo, tables, pc, req, copy, left, history>>

Ids == 1 .. MaxId

(***************************************************************************)
(* A row, reduced to the column that must be unique, one boolean column    *)
(* (is_default; active of a project; status of a user), two numbers (the   *)
(* dates of a version, lft and rgt of a project, the version of a journal  *)
(* entry; any other column elsewhere, 0 being NULL), and whether it is one *)
(* of the seeded rows that may not be deleted.                             *)
(***************************************************************************)
Row == [name : Names \cup {None}, flag : BOOLEAN, low : Nat, high : Nat,
        protected : BOOLEAN]
NoRow == [name |-> None, flag |-> FALSE, low |-> 0, high |-> 0, protected |-> FALSE]

Methods == {"create", "update", "delete", "link", "unlink", "grant", "star", "unstar",
            "unwatch", "download"}
Request == [method : Methods \cup {"none"}, id : 0 .. MaxId, name : Names \cup {None},
            flag : BOOLEAN \cup {None}, low : Nat, high : Nat, links : SUBSET Links]
NoRequest == [method |-> "none", id |-> 0, name |-> None, flag |-> None,
              low |-> 0, high |-> 0, links |-> {}]

Stored(i) == rows[i].name # None
Untouched == [rows |-> [i \in Ids |-> NoRow], links |-> [i \in Ids |-> {}], used |-> {}]

\* The columns of a row after those a request gives are put in.
Merge(row, q) ==
  [row EXCEPT !.name = IF q.name = None THEN @ ELSE q.name,
              !.flag = IF q.flag = None THEN @ ELSE q.flag,
              !.low = IF q.low = 0 THEN @ ELSE q.low,
              !.high = IF q.high = 0 THEN @ ELSE q.high]

-----------------------------------------------------------------------------
(***************************************************************************)
(* The methods of each repository: the statements in their order, and the  *)
(* columns a caller may give.                                              *)
(***************************************************************************)
M(steps, gives) == [steps |-> steps, gives |-> gives]

\* Mutant: the row is merged in memory and written back whole.
StatusesReadBack ==
  [create |-> M(<<"CheckName", "Insert", "ClearOthers">>, {"name", "flag"}),
   update |-> M(<<"Read", "CheckName", "WriteRow", "ClearOthers">>, {"name", "flag"}),
   delete |-> M(<<"CheckUnused", "Delete">>, {})]

Statuses ==
  [create |-> M(<<"CheckName", "Insert", "ClearOthers">>, {"name", "flag"}),
   update |-> M(<<"CheckName", "Update", "ClearOthers">>, {"name", "flag"}),
   delete |-> M(<<"CheckUnused", "Delete">>, {})]

\* Mutant: the other defaults are cleared before the new one is written.
PrioritiesClearFirst ==
  [create |-> M(<<"CheckName", "ClearOthers", "Insert">>, {"name", "flag"}),
   update |-> M(<<"CheckName", "Update", "ClearOthers">>, {"name", "flag"}),
   delete |-> M(<<"CheckUnused", "Delete">>, {})]

Priorities ==
  [create |-> M(<<"CheckName", "Insert", "ClearOthers">>, {"name", "flag"}),
   update |-> M(<<"CheckName", "Update", "ClearOthers">>, {"name", "flag"}),
   delete |-> M(<<"CheckUnused", "Delete">>, {})]

\* Mutant: the default is cleared before the name is checked.
ActivitiesClearEarly ==
  [create |-> M(<<"ClearAll", "CheckName", "Insert">>, {"name", "flag"}),
   update |-> M(<<"Read", "CheckName", "ClearAll", "WriteRow">>, {"flag"}),
   delete |-> M(<<"CheckExists", "CheckUnused", "Delete">>, {})]

\* Activities clear the default first, and merge in memory.  Renaming is as
\* for categories.
Activities ==
  [create |-> M(<<"CheckName", "ClearAll", "Insert">>, {"name", "flag"}),
   update |-> M(<<"Read", "CheckName", "ClearAll", "WriteRow">>, {"flag"}),
   delete |-> M(<<"CheckExists", "CheckUnused", "Delete">>, {})]

\* Link and unlink are enable_for_project and disable_for_project.
Types ==
  [create |-> M(<<"CheckName", "Insert">>, {"name"}),
   update |-> M(<<"CheckName", "Update">>, {"name"}),
   delete |-> M(<<"CheckProtected", "CheckUnused", "Delete">>, {}),
   link |-> M(<<"InsertLinks">>, {"link"}),
   unlink |-> M(<<"RemoveLinks">>, {"link"})]

\* The handlers call set_permissions after create, and after update when
\* permissions are given.  Deleting a role leaves its permissions behind.
Roles ==
  [create |-> M(<<"CheckName", "Insert", "DeleteLinks", "InsertLinks">>,
                {"name", "links"}),
   update |-> M(<<"CheckProtected", "CheckName", "Update">>, {"name"}),
   grant |-> M(<<"CheckProtected", "CheckName", "Update", "DeleteLinks", "InsertLinks">>,
               {"links"}),
   delete |-> M(<<"CheckProtected", "CheckUnused", "Delete">>, {})]

\* Mutant: what is validated is what the request gives, not the result.
VersionsCoalesce ==
  [create |-> M(<<"CheckDates", "CheckName", "Insert">>, {"name", "low", "high"}),
   update |-> M(<<"CheckExists", "CheckDates", "CheckName", "Update">>,
                {"low", "high"}),
   delete |-> M(<<"CheckExists", "CheckUnused", "Delete">>, {})]

\* Renaming is as for categories.
Versions ==
  [create |-> M(<<"CheckDates", "CheckName", "Insert">>, {"name", "low", "high"}),
   update |-> M(<<"Read", "CheckDates", "CheckName", "WriteRow">>,
                {"low", "high"}),
   delete |-> M(<<"CheckExists", "CheckUnused", "Delete">>, {})]

Categories ==
  [create |-> M(<<"CheckName", "Insert">>, {"name", "high"}),
   update |-> M(<<"Read", "CheckName", "WriteRow">>, {"name", "high"}),
   delete |-> M(<<"CheckExists", "CheckUnused", "Delete">>, {})]

\* Mutant: create does not insist on a role.
MembersBlank ==
  [create |-> M(<<"CheckName", "Insert", "DeleteLinks", "InsertLinks">>, {"name", "links"}),
   update |-> M(<<"CheckExists", "CheckLinks", "DeleteLinks", "InsertLinks">>, {"links"}),
   delete |-> M(<<"CheckExists", "DeleteLinks", "Delete">>, {})]

\* The unique column is the pair of user and project.
Members ==
  [create |-> M(<<"CheckLinks", "CheckName", "Insert", "DeleteLinks", "InsertLinks">>,
                {"name", "links"}),
   update |-> M(<<"CheckExists", "CheckLinks", "DeleteLinks", "InsertLinks">>, {"links"}),
   delete |-> M(<<"CheckExists", "DeleteLinks", "Delete">>, {})]

\* The unique column is the unordered pair of work packages.
Relations ==
  [create |-> M(<<"CheckName", "Insert">>, {"name", "high"}),
   update |-> M(<<"Read", "WriteRow">>, {"high"}),
   delete |-> M(<<"CheckExists", "Delete">>, {})]

\* The links are the query's menu items.
Queries ==
  [create |-> M(<<"Insert">>, {"name"}),
   update |-> M(<<"Read", "WriteRow">>, {"name"}),
   delete |-> M(<<"CheckExists", "DeleteLinks", "Delete">>, {}),
   star |-> M(<<"CheckExists", "Star">>, {}),
   unstar |-> M(<<"DeleteLinks">>, {})]

\* Archive and unarchive are such updates too.
Projects ==
  [create |-> M(<<"CheckName", "DrawPlace", "Insert">>, {"name", "flag"}),
   update |-> M(<<"CheckExists", "Update">>, {"flag"}),
   delete |-> M(<<"CheckUnused", "Delete">>, {})]

\* The unique column is the pair of user and entity.
Watchers ==
  [create |-> M(<<"CheckName", "Insert">>, {"name"}),
   delete |-> M(<<"CheckExists", "Delete">>, {}),
   unwatch |-> M(<<"DeleteNamed">>, {"name"})]

\* Lock and unlock are the updates that give only the status.
Users ==
  [create |-> M(<<"CheckName", "Insert">>, {"name", "flag"}),
   update |-> M(<<"CheckExists", "CheckName", "Update">>, {"name", "flag"}),
   delete |-> M(<<"Delete">>, {})]

\* The name is the entity an entry is about.
Journals ==
  [create |-> M(<<"DrawVersion", "Insert">>, {"name"}),
   update |-> M(<<"Read", "WriteRow">>, {"high"}),
   delete |-> M(<<"Delete">>, {})]

\* The high number is the data of the entry; the flag says it has notes.
JournalService ==
  [create |-> M(<<"FirstVersion", "Insert">>, {"name", "flag", "high"}),
   update |-> M(<<"DrawVersion", "Insert">>, {"name", "flag", "high"}),
   delete |-> M(<<"DeleteNamed">>, {"name"})]

TimeEntries ==
  [create |-> M(<<"Insert">>, {"name"}),
   update |-> M(<<"Update">>, {"high"}),
   delete |-> M(<<"Delete">>, {})]

\* The low number is the count of downloads, which update does not write.
AttachmentRows ==
  [create |-> M(<<"Insert">>, {"name"}),
   update |-> M(<<"Read", "WriteRow">>, {"high"}),
   download |-> M(<<"Increment">>, {}),
   delete |-> M(<<"CheckExists", "Delete">>, {})]

Code ==
  [statuses |-> Statuses, priorities |-> Priorities, activities |-> Activities,
   types |-> Types, roles |-> Roles, versions |-> Versions,
   categories |-> Categories, members |-> Members, relations |-> Relations,
   queries |-> Queries, projects |-> Projects, watchers |-> Watchers,
   users |-> Users, journals |-> Journals, journalService |-> JournalService,
   timeEntries |-> TimeEntries, attachments |-> AttachmentRows]

Steps(m) == Code[repo][m].steps
Gives(m) == Code[repo][m].gives
Has(m, s) == \E k \in DOMAIN Steps(m) : Steps(m)[k] = s

\* Methods that address no row by its id.
ByName(m) == Has(m, "Insert") \/ Has(m, "DeleteNamed")

At(r, s) == pc[r] > 0 /\ Steps(req[r].method)[pc[r]] = s
Ahead(r, s) ==
  /\ pc[r] > 0
  /\ \E k \in DOMAIN Steps(req[r].method) : k >= pc[r] /\ Steps(req[r].method)[k] = s

-----------------------------------------------------------------------------
\* Types and roles hold a seeded row that no caller may delete.
Init ==
  /\ repo \in DOMAIN Code
  /\ \/ repo \notin {"types", "roles"} /\ rows = [i \in Ids |-> NoRow] /\ next = 1
     \/ /\ repo \in {"types", "roles"} /\ next = 2 /\ MaxId > 0
        /\ \E n \in Names :
             rows = [i \in Ids |-> IF i = 1 THEN [NoRow EXCEPT !.name = n, !.protected = TRUE]
                                   ELSE NoRow]
  /\ links = [i \in Ids |-> {}]
  /\ used = {} /\ cut = {} /\ calm = {}
  /\ pc = [r \in Requests |-> 0]
  /\ req = [r \in Requests |-> NoRequest]
  /\ copy = [r \in Requests |-> NoRow]
  /\ left = [r \in Requests |-> {}]
  /\ start = [r \in Requests |-> Untouched]
  /\ met = [r \in Requests |-> {}]

\* Who was undisturbed so far, what the tables were when it began, and which
\* names others gave to rows since it looked whether they are taken.
Moves(r) == pc'[r] # pc[r] \/ left'[r] # left[r]
Disturbed(r) == ~Moves(r) /\ <<rows, links, used>>' # <<rows, links, used>>
Looked(r) ==
  /\ pc[r] > 0
  /\ LET steps == Steps(req[r].method)
     IN  \E k, l \in DOMAIN steps : /\ k < pc[r] /\ steps[k] \in {"CheckName", "DrawVersion"}
                                   /\ l >= pc[r] /\ steps[l] \in {"Insert", "Update", "WriteRow"}
NewNames == {rows'[i].name : i \in {k \in Ids : rows'[k].name \notin {rows[k].name, None}}}
Record ==
  /\ calm' = {r \in Requests : pc'[r] > 0 /\ (pc[r] = 0 \/ (r \in calm /\ ~Disturbed(r)))}
  /\ start' = [r \in Requests |->
                IF r \notin calm' THEN Untouched
                ELSE IF pc[r] = 0
                     THEN [rows |-> rows, links |-> links, used |-> used]
                     ELSE start[r]]
  /\ met' = [r \in Requests |->
              IF ~Looked(r)' THEN {}
              ELSE IF Moves(r) THEN met[r]
              ELSE met[r] \cup NewNames]

\* What a method can be called with.
Calls(m) ==
  [method : {m},
   id : IF ByName(m) THEN {0} ELSE Ids,
   name : IF "name" \notin Gives(m) THEN {None}
          ELSE IF ByName(m) THEN Names ELSE Names \cup {None},
   flag : IF "flag" \notin Gives(m) THEN {None}
          ELSE IF ByName(m) THEN BOOLEAN ELSE BOOLEAN \cup {None},
   low : IF "low" \in Gives(m) THEN Lows ELSE {0},
   high : IF "high" \in Gives(m) THEN Highs ELSE {0},
   links : IF "links" \in Gives(m) THEN LinkSets
           ELSE IF "link" \in Gives(m) THEN {{l} : l \in Links} ELSE {{}}]

\* The bounds: no more rows, and no more downloads, are asked for than MaxId
\* and MaxDownloads allow.
Creating == {r \in Requests : pc[r] > 0 /\ req[r].id = 0 /\ Has(req[r].method, "Insert")}
Counting == {r \in Requests : pc[r] > 0 /\ Has(req[r].method, "Increment")}
Affordable(q) ==
  /\ Has(q.method, "Insert") => next + Cardinality(Creating) <= MaxId
  /\ Has(q.method, "Increment") => rows[q.id].low + Cardinality(Counting) < MaxDownloads

Begin(r) ==
  /\ pc[r] = 0
  /\ \E m \in DOMAIN Code[repo] : \E q \in Calls(m) :
       /\ Affordable(q)
       /\ req' = [req EXCEPT ![r] = q]
       /\ left' = [left EXCEPT ![r] = q.links]
  /\ pc' = [pc EXCEPT ![r] = 1]
  /\ UNCHANGED <<repo, tables, copy, cut>>
  /\ Record

\* The call returns (0), or is broken off (-1).
Leave(r, where) ==
  /\ pc' = [pc EXCEPT ![r] = where]
  /\ req' = [req EXCEPT ![r] = NoRequest]
  /\ copy' = [copy EXCEPT ![r] = NoRow]
  /\ left' = [left EXCEPT ![r] = {}]
  /\ UNCHANGED repo

\* The statement was sent; the call knows its row by id i, and holds row.
Proceed(r, i, row) ==
  IF pc[r] = Len(Steps(req[r].method))
  THEN Leave(r, 0)
  ELSE /\ pc' = [pc EXCEPT ![r] = @ + 1]
       /\ req' = [req EXCEPT ![r].id = i]
       /\ copy' = [copy EXCEPT ![r] = row]
       /\ UNCHANGED <<repo, left>>

Go(r) == Proceed(r, req[r].id, copy[r])

\* A check that fails returns the error to the caller.
Check(r, s, holds) ==
  /\ At(r, s)
  /\ IF holds THEN Go(r) ELSE Leave(r, 0)
  /\ UNCHANGED <<tables, cut>>
  /\ Record

Merged(r) == Merge(copy[r], req[r])
Ordered(row) == row.low = 0 \/ row.high = 0 \/ row.low <= row.high

\* is_name_unique: of the name given, or of the one it is merged to.
CheckName(r) ==
  Check(r, "CheckName",
        \A i \in Ids \ {req[r].id} : Stored(i) => rows[i].name # Merged(r).name)

CheckUnused(r) == Check(r, "CheckUnused", req[r].id \notin used)
CheckExists(r) == Check(r, "CheckExists", Stored(req[r].id))
CheckProtected(r) == Check(r, "CheckProtected", ~rows[req[r].id].protected)
CheckLinks(r) == Check(r, "CheckLinks", req[r].links # {})
CheckDates(r) == Check(r, "CheckDates", Ordered(Merged(r)))

Read(r) ==
  /\ At(r, "Read")
  /\ IF Stored(req[r].id) THEN Proceed(r, req[r].id, rows[req[r].id]) ELSE Leave(r, 0)
  /\ UNCHANGED <<tables, cut>>
  /\ Record

\* One more than the largest of a set of numbers, or 1.
Following(S) == {n \in {k + 1 : k \in S \cup {0}} : \A k \in S : k < n}

DrawPlace(r) ==
  /\ At(r, "DrawPlace")
  /\ \E n \in Following({rows[i].high : i \in Ids}) :
       Proceed(r, 0, [copy[r] EXCEPT !.low = n, !.high = n + 1])
  /\ UNCHANGED <<tables, cut>>
  /\ Record

VersionsOf(n, table) == {table[i].low : i \in {k \in Ids : table[k].name = n}}

\* The entry of an entity with the highest version, of several the last.
LatestOf(n, table) ==
  {i \in Ids : /\ table[i].name = n
               /\ \A k \in Ids : table[k].name = n =>
                    table[k].low < table[i].low \/ (table[k].low = table[i].low /\ k <= i)}

\* record_update has something to record; elsewhere there always is.
News(q, table) ==
  q.method = "update" => q.flag = TRUE \/ \A i \in LatestOf(q.name, table) : table[i].high # q.high

\* Mutant: an update is recorded under the version of the latest entry.
DrawVersionSame(r) ==
  /\ At(r, "DrawVersion")
  /\ IF News(req[r], rows)
     THEN \E n \in Following(VersionsOf(req[r].name, rows)) :
            Proceed(r, 0, [copy[r] EXCEPT !.low = IF n > 1 THEN n - 1 ELSE n])
     ELSE Leave(r, 0)
  /\ UNCHANGED <<tables, cut>>
  /\ Record

\* An update of nothing, without notes, returns and records nothing.
DrawVersion(r) ==
  /\ At(r, "DrawVersion")
  /\ IF News(req[r], rows)
     THEN \E n \in Following(VersionsOf(req[r].name, rows)) :
            Proceed(r, 0, [copy[r] EXCEPT !.low = n])
     ELSE Leave(r, 0)
  /\ UNCHANGED <<tables, cut>>
  /\ Record

FirstVersion(r) ==
  /\ At(r, "FirstVersion")
  /\ Proceed(r, 0, [copy[r] EXCEPT !.low = 1])
  /\ UNCHANGED <<tables, cut>>
  /\ Record

Insert(r) ==
  /\ At(r, "Insert") /\ next <= MaxId
  /\ rows' = [rows EXCEPT ![next] = Merged(r)]
  /\ next' = next + 1
  /\ Proceed(r, next, copy[r])
  /\ UNCHANGED <<links, used, cut>>
  /\ Record

\* A row that is gone makes the statement, and the call, fail.
Write(r, row) ==
  /\ IF Stored(req[r].id)
     THEN rows' = [rows EXCEPT ![req[r].id] = row] /\ Go(r)
     ELSE Leave(r, 0) /\ UNCHANGED rows
  /\ UNCHANGED <<links, used, next, cut>>
  /\ Record

Update(r) == At(r, "Update") /\ Write(r, Merge(rows[req[r].id], req[r]))

\* Every column the method writes, from the copy it read.
WriteRow(r) ==
  /\ At(r, "WriteRow")
  /\ LET row == rows[req[r].id]
         new(c) == IF c \in Gives(req[r].method) THEN Merged(r)[c] ELSE row[c]
     IN  Write(r, [name |-> new("name"), flag |-> new("flag"), low |-> new("low"),
                   high |-> new("high"), protected |-> row.protected])

Increment(r) ==
  /\ At(r, "Increment")
  /\ Write(r, [rows[req[r].id] EXCEPT !.low = @ + 1])

\* Only when the new row is the default.
ClearOthers(r) ==
  /\ At(r, "ClearOthers")
  /\ IF req[r].flag = TRUE
     THEN /\ rows' = [i \in Ids |-> IF i = req[r].id THEN rows[i]
                                    ELSE [rows[i] EXCEPT !.flag = FALSE]]
          /\ cut' = {}
     ELSE UNCHANGED <<rows, cut>>
  /\ Go(r)
  /\ UNCHANGED <<links, used, next>>
  /\ Record

\* Only when the row is to become the default and the copy says it is not.
ClearAll(r) ==
  /\ At(r, "ClearAll")
  /\ IF Merged(r).flag /\ ~copy[r].flag
     THEN rows' = [i \in Ids |-> [rows[i] EXCEPT !.flag = FALSE]]
     ELSE UNCHANGED rows
  /\ Go(r)
  /\ UNCHANGED <<links, used, next, cut>>
  /\ Record

Delete(r) ==
  /\ At(r, "Delete")
  /\ rows' = [rows EXCEPT ![req[r].id] = NoRow]
  /\ Go(r)
  /\ UNCHANGED <<links, used, next, cut>>
  /\ Record

DeleteNamed(r) ==
  /\ At(r, "DeleteNamed")
  /\ rows' = [i \in Ids |-> IF rows[i].name = req[r].name THEN NoRow ELSE rows[i]]
  /\ Go(r)
  /\ UNCHANGED <<links, used, next, cut>>
  /\ Record

DeleteLinks(r) ==
  /\ At(r, "DeleteLinks")
  /\ links' = [links EXCEPT ![req[r].id] = {}]
  /\ Go(r)
  /\ UNCHANGED <<rows, used, next, cut>>
  /\ Record

RemoveLinks(r) ==
  /\ At(r, "RemoveLinks")
  /\ links' = [links EXCEPT ![req[r].id] = @ \ req[r].links]
  /\ Go(r)
  /\ UNCHANGED <<rows, used, next, cut>>
  /\ Record

\* One INSERT for each link, with an await after each.
InsertLink(r, l) ==
  /\ At(r, "InsertLinks") /\ l \in left[r] /\ left[r] # {l}
  /\ links' = [links EXCEPT ![req[r].id] = @ \cup {l}]
  /\ left' = [left EXCEPT ![r] = @ \ {l}]
  /\ UNCHANGED <<repo, rows, used, next, pc, req, copy, cut>>
  /\ Record

InsertLastLink(r) ==
  /\ At(r, "InsertLinks") /\ \A l, k \in left[r] : l = k
  /\ links' = [links EXCEPT ![req[r].id] = @ \cup left[r]]
  /\ cut' = IF left[r] = {} THEN cut ELSE cut \ {req[r].id}
  /\ Go(r)
  /\ UNCHANGED <<rows, used, next>>
  /\ Record

\* INSERT .. SELECT: a menu item with the name the query has by now.
Star(r) ==
  /\ At(r, "Star")
  /\ links' = [links EXCEPT ![req[r].id] =
                IF Stored(req[r].id) THEN @ \cup {rows[req[r].id].name} ELSE @]
  /\ Go(r)
  /\ UNCHANGED <<rows, used, next, cut>>
  /\ Record

\* The statement the request is at fails, and `?` returns the error of the
\* database to the caller; or the client hangs up and the future is dropped at
\* its await.  Either way nothing more of the call is sent.
HalfDone(r) ==
  LET steps == Steps(req[r].method)
  IN  /\ req[r].id # 0
      /\ \E k \in DOMAIN steps : k < pc[r] /\ steps[k] \in {"Insert", "Update", "DeleteLinks"}
      /\ \E k \in DOMAIN steps :
           k >= pc[r] /\ steps[k] \in {"ClearOthers", "InsertLinks", "Delete"}
BreakOff(r) ==
  /\ pc[r] > 0 /\ Cardinality({x \in Requests : pc[x] = -1}) < MaxBreaks
  /\ cut' = IF HalfDone(r) THEN cut \cup {req[r].id} ELSE cut
  /\ Leave(r, -1)
  /\ UNCHANGED tables
  /\ Record

\* Other repositories refer to a row and stop to: no statement of theirs
\* looks whether the row is there, and no foreign key does.
Use(i) ==
  /\ \E m \in DOMAIN Code[repo] : Has(m, "CheckUnused")
  /\ used' = IF i \in used THEN used \ {i} ELSE used \cup {i}
  /\ UNCHANGED <<repo, rows, links, next, pc, req, copy, left, cut>>
  /\ Record

Statement(r) ==
  \/ CheckName(r) \/ CheckUnused(r) \/ CheckExists(r) \/ CheckProtected(r)
  \/ CheckLinks(r) \/ CheckDates(r) \/ Read(r)
  \/ DrawPlace(r) \/ DrawVersion(r) \/ FirstVersion(r)
  \/ Insert(r) \/ Update(r) \/ WriteRow(r) \/ Increment(r)
  \/ ClearOthers(r) \/ ClearAll(r) \/ Delete(r) \/ DeleteNamed(r)
  \/ DeleteLinks(r) \/ RemoveLinks(r) \/ Star(r)
  \/ InsertLastLink(r) \/ \E l \in Links : InsertLink(r, l)

Next ==
  \/ \E r \in Requests : Begin(r) \/ Statement(r) \/ BreakOff(r)
  \/ \E i \in Referable : Use(i)

Spec == Init /\ [][Next]_vars

-----------------------------------------------------------------------------
(***************************************************************************)
(* Two rows are default at once only while the request that made one of    *)
(* them default has still to clear the others, or after it failed or was   *)
(* dropped before it did (create and update in statuses.rs and             *)
(* priorities.rs).                                                         *)
(***************************************************************************)
Pending(r, i) == req[r].id = i /\ req[r].flag = TRUE /\ Ahead(r, "ClearOthers")
OneDefault ==
  repo \in {"statuses", "priorities"} =>
    \A i, j \in Ids :
      rows[i].flag /\ rows[j].flag /\ i # j =>
        i \in cut \/ j \in cut \/ \E r \in Requests : Pending(r, i) \/ Pending(r, j)

(***************************************************************************)
(* A stored version does not end before it starts, though update merges    *)
(* dates it read earlier (validate_dates in versions.rs).                  *)
(***************************************************************************)
DatesOrdered == repo = "versions" => \A i \in Ids : Ordered(rows[i])

(***************************************************************************)
(* A stored member without a role is in the hands of a request that is     *)
(* about to give it one or to delete it, or that failed or was dropped     *)
(* before it could (set_roles and delete in members.rs).                   *)
(***************************************************************************)
MemberHasRole ==
  repo = "members" =>
    \A i \in Ids :
      Stored(i) /\ links[i] = {} =>
        \/ i \in cut
        \/ \E r \in Requests :
             req[r].id = i /\ (Ahead(r, "InsertLinks") \/ Ahead(r, "Delete"))

(***************************************************************************)
(* Where update is one statement that leaves alone what it is not given, a *)
(* column of a stored row only ever changes to what some request in        *)
(* progress gives, a flag also to FALSE when another row becomes default:  *)
(* no request brings an old value back.  The count of an attachment's      *)
(* downloads is never set back either.                                     *)
(***************************************************************************)
OneStatement == {"statuses", "priorities", "types", "roles", "projects", "users", "timeEntries"}
Asks(i, c, value) == \E r \in Requests : req[r].id = i /\ req[r][c] = value
NothingReverted ==
  [][ \A i \in Ids : Stored(i) /\ Stored(i)' =>
        /\ repo \in OneStatement =>
             /\ rows'[i].name # rows[i].name => Asks(i, "name", rows'[i].name)
             /\ rows'[i].flag /\ ~rows[i].flag => Asks(i, "flag", TRUE)
             /\ rows'[i].high # rows[i].high => Asks(i, "high", rows'[i].high)
        /\ repo = "attachments" => rows'[i].low >= rows[i].low ]_vars

(***************************************************************************)
(* A value that is kept unique, and a version of a journal, is there twice *)
(* only because requests overlapped: the one that stores it found it free, *)
(* and another stored it between that look and the write (is_name_unique   *)
(* and its like, create in journals.rs, record_update).                    *)
(* The interval of a project is given twice only by overlap, too.          *)
(***************************************************************************)
KeepsUnique == DOMAIN Code \ {"queries", "journals", "journalService",
                              "timeEntries", "attachments"}
Numbers(r) == Has(req[r].method, "DrawVersion")
TwiceOnlyByOverlap ==
  [][ \A r \in Requests : \A i, k \in Ids :
        /\ At(r, "Insert") \/ At(r, "Update") \/ At(r, "WriteRow")
        /\ Moves(r) /\ i # k /\ rows'[i] # rows[i] /\ Stored(i)' /\ Stored(k)
        => /\ repo \in KeepsUnique /\ rows'[i].name # rows[i].name =>
                rows[k].name # rows'[i].name \/ rows'[i].name \in met[r]
           /\ Numbers(r) =>
                \/ rows[k].name # rows'[i].name \/ rows[k].low # rows'[i].low
                \/ rows'[i].name \in met[r]
           /\ repo = "projects" /\ ~Stored(i) =>
                rows[k].high # rows'[i].high \/ met[r] # {} ]_vars

(***************************************************************************)
(* What a method promises to a caller nobody disturbs.  It is accepted     *)
(* under the conditions below, and then changes the tables as Result says. *)
(***************************************************************************)
KeepsUsed == {"statuses", "priorities", "types", "roles", "activities",
              "versions", "categories", "projects"}
ChecksMerged == {"activities", "versions", "categories"}
NeedsNoRow == {"create", "link", "unlink", "unstar", "unwatch"}

Accepts(q, i, s) ==
  LET row == Merge(s.rows[i], q)
      name == IF repo \in ChecksMerged THEN row.name ELSE q.name
  IN  /\ q.method \in NeedsNoRow \/ s.rows[i] # NoRow \/ repo = "journalService"
      /\ repo \in KeepsUnique /\ name # None /\ q.method \in {"create", "update", "grant"} =>
           \A k \in Ids \ {i} : s.rows[k].name # name
      /\ q.method = "delete" /\ repo \in KeepsUsed => i \notin s.used
      /\ s.rows[i].protected => ~(repo = "roles" \/ q.method = "delete")
      /\ repo = "versions" /\ q.method # "delete" => Ordered(row)
      /\ repo = "members" /\ q.method # "delete" => q.links # {}
      /\ repo = "journalService" => News(q, s.rows)

\* The row as it is to be: a new project lies right of all others, a new
\* journal entry is the next version of its entity.
RowResult(q, i, s) ==
  LET row == Merge(s.rows[i], q)
  IN  CASE q.method = "delete" -> {NoRow}
        [] q.method = "download" -> {[row EXCEPT !.low = @ + 1]}
        [] q.method = "create" /\ repo = "projects" ->
             {[row EXCEPT !.low = n, !.high = n + 1] :
                n \in Following({s.rows[k].high : k \in Ids})}
        [] q.method = "create" /\ repo = "journalService" -> {[row EXCEPT !.low = 1]}
        [] \/ q.method = "create" /\ repo = "journals"
           \/ q.method = "update" /\ repo = "journalService" ->
             {[row EXCEPT !.low = n] : n \in Following(VersionsOf(q.name, s.rows))}
        [] OTHER -> {row}

LinksResult(q, i, s) ==
  CASE q.method = "link" -> s.links[i] \cup q.links
    [] q.method = "unlink" -> s.links[i] \ q.links
    [] q.method = "star" -> s.links[i] \cup {s.rows[i].name}
    [] q.method = "unstar" \/ (q.method = "delete" /\ repo \in {"members", "queries"}) -> {}
    [] \/ q.method = "grant" \/ repo = "members"
       \/ q.method = "create" /\ repo = "roles" -> q.links
    [] OTHER -> s.links[i]

\* Making a row default takes the flag off all others; an activity that is
\* default already is left with the others there are.
Dethrones(q, i, s) ==
  /\ q.flag = TRUE
  /\ repo \in {"statuses", "priorities"} \/ (repo = "activities" /\ ~s.rows[i].flag)

Result(q, i, s) ==
  IF q.method = "unwatch" \/ (q.method = "delete" /\ repo = "journalService")
  THEN /\ rows' = [k \in Ids |-> IF s.rows[k].name = q.name THEN NoRow ELSE s.rows[k]]
       /\ links' = s.links
  ELSE /\ rows'[i] \in RowResult(q, i, s)
       /\ \A k \in Ids \ {i} :
            rows'[k] = IF Dethrones(q, i, s) THEN [s.rows[k] EXCEPT !.flag = FALSE]
                       ELSE s.rows[k]
       /\ links' = [s.links EXCEPT ![i] = LinksResult(q, i, s)]

(***************************************************************************)
(* Of the calls during which nobody else changed the tables: one that      *)
(* returns without an error of the database did all of what it promises    *)
(* or, when it is not accepted, nothing, whatever earlier races and broken *)
(* calls left behind -- repeating a call that failed half done makes it    *)
(* whole.  One that a failed statement or a hang-up ended has done nothing *)
(* if it had not come past its first write.  In between it may leave half: *)
(* then a row that was to go with it is in `cut`, or the default is gone.  *)
(***************************************************************************)
Writes == {"Insert", "Update", "WriteRow", "Increment", "ClearOthers", "ClearAll", "Delete",
           "DeleteNamed", "DeleteLinks", "RemoveLinks", "InsertLinks", "Star"}
Written(r) ==
  \E k \in DOMAIN Steps(req[r].method) : k < pc[r] /\ Steps(req[r].method)[k] \in Writes

AllOrNothing ==
  [][ \A r \in calm :
        LET i == IF Has(req[r].method, "Insert") /\ req[r].id = 0 THEN next ELSE req[r].id
            s == start[r]
            all == Has(req[r].method, "DeleteNamed") \/ (i \in Ids /\ Accepts(req[r], i, s))
            nothing == rows' = s.rows /\ links' = s.links
        IN  /\ pc'[r] = 0 => IF all THEN Result(req[r], i, s) ELSE nothing
            /\ pc'[r] = -1 /\ ~Written(r) => nothing ]_vars
=============================================================================

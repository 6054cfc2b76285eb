--------------------------- MODULE WorkPackageRows ---------------------------
(***************************************************************************)
(* The work_packages table (op-db WorkPackageRepository) and the requests  *)
(* that change it: the /api/v3 handlers of op-api and the edit form of     *)
(* op-server's board.                                                      *)
(*                                                                         *)
(* A statement is one action.  Between reading a row and writing it a      *)
(* client thinks, with only lock_version to tell whether the row is still  *)
(* the one it read; the board's POST handler reads the row once more, in a *)
(* statement of its own, before it writes.                                 *)
(*                                                                         *)
(* The columns fall into three classes, each with one representative:      *)
(*   status    COALESCEd by the UPDATE: a None leaves it as it is (also    *)
(*             subject, description, type, priority, done_ratio)           *)
(*   assignee  bound as it comes and known to every client (also           *)
(*             estimated_hours)                                            *)
(*   parent    bound as it comes and unknown to form and PATCH clients     *)
(*             (also responsible, version, category)                       *)
(***************************************************************************)
EXTENDS Integers

CONSTANTS
  Ids,          \* the serial ids the table hands out, none of them twice
  Clients,
  Quoting,      \* clients whose requests carry the lock_version they read
  Statuses, Users, Parents,
  None,         \* SQL NULL and the None of a DTO
  MaxVersion    \* bound of the model: updates of one row

ASSUME WorkPackageRowsAssumption ==
  /\ Quoting \subseteq Clients
  /\ None \notin Ids
  /\ {None, "unused", "gone"} \cap Statuses = {}
  /\ MaxVersion \in Nat

VARIABLES
  rows,       \* the table
  used,       \* ids handed out so far
  page,       \* the row each client has in front of it
  pc,         \* whether a client's POST is between its two statements
  form,       \* the form a client has posted
  existing    \* the row its handler has re-read

vars == <<rows, used, page, pc, form, existing>>
request == <<pc, form, existing>>

Row == [status : Statuses, assignee : Users \cup {None},
        parent : Parents \cup {None}, lock_version : Nat]
NewRow == [status : Statuses, assignee : Users \cup {None},
           parent : Parents \cup {None}, lock_version : {0}]
NoRow == [status |-> None, assignee |-> None, parent |-> None, lock_version |-> 0]
NoPage == [id |-> None, row |-> NoRow]
Form == [status : Statuses \cup {None}, assignee : Users \cup {None}]
NoForm == [status |-> None, assignee |-> None]

Stored(id) == rows[id] # NoRow

-----------------------------------------------------------------------------
(* The repository.                                                         *)
Coalesce(new, old) == IF new = None THEN old ELSE new

\* Mutant: the version stays.
WrittenKeepsVersion(row, dto) ==
  [status |-> Coalesce(dto.status, row.status), assignee |-> dto.assignee,
   parent |-> dto.parent, lock_version |-> row.lock_version]

Written(row, dto) ==
  [status |-> Coalesce(dto.status, row.status), assignee |-> dto.assignee,
   parent |-> dto.parent, lock_version |-> row.lock_version + 1]

\* Mutant: the WHERE clause forgets the version.
MatchesIdOnly(id, version) == Stored(id)

Matches(id, version) == Stored(id) /\ rows[id].lock_version = version

\* One UPDATE.  When no row matches the caller gets Conflict, also when the
\* row is gone.
Update(id, dto) ==
  \/ /\ Matches(id, dto.lock_version) /\ rows[id].lock_version < MaxVersion
     /\ rows' = [rows EXCEPT ![id] = Written(@, dto)]
  \/ /\ ~Matches(id, dto.lock_version)
     /\ UNCHANGED rows

Init ==
  /\ rows = [id \in Ids |-> NoRow]
  /\ used = {}
  /\ page = [c \in Clients |-> NoPage]
  /\ pc = [c \in Clients |-> "idle"]
  /\ form = [c \in Clients |-> NoForm]
  /\ existing = [c \in Clients |-> NoRow]

-----------------------------------------------------------------------------
(* The requests.                                                           *)
Create(id, row) ==
  /\ id \notin used
  /\ used' = used \cup {id}
  /\ rows' = [rows EXCEPT ![id] = row]
  /\ UNCHANGED <<page, request>>

Delete(id) ==
  /\ Stored(id)
  /\ rows' = [rows EXCEPT ![id] = NoRow]
  /\ UNCHANGED <<used, page, request>>

\* GET of the work package or of its edit form.
Open(c, id) ==
  /\ pc[c] = "idle"
  /\ Stored(id)
  /\ page' = [page EXCEPT ![c] = [id |-> id, row |-> rows[id]]]
  /\ UNCHANGED <<rows, used, request>>

\* The version a PATCH carries: serde fills in 0 when the body has none.
QuotedByPatch(c) == IF c \in Quoting THEN page[c].row.lock_version ELSE 0

\* PATCH.  The row it answers with is the one an Open right after it shows.
Patch(c, id, status, assignee) ==
  /\ pc[c] = "idle"
  /\ c \in Quoting => page[c].id = id
  /\ Update(id, [status |-> status, assignee |-> assignee, parent |-> None,
                 lock_version |-> QuotedByPatch(c)])
  /\ UNCHANGED <<used, page, request>>

\* update_status of the repository, which nothing in the workspace calls.
UpdateStatus(c, id, status) ==
  /\ pc[c] = "idle"
  /\ c \in Quoting /\ page[c].id = id
  /\ Update(id, [status |-> status, assignee |-> rows[id].assignee,
                 parent |-> rows[id].parent, lock_version |-> page[c].row.lock_version])
  /\ UNCHANGED <<used, page, request>>

\* POST of the edit form, first statement: find_by_id.  A missing row ends
\* the request.
FindExisting(c, posted) ==
  /\ pc[c] = "idle" /\ page[c] # NoPage
  /\ Stored(page[c].id)
  /\ pc' = [pc EXCEPT ![c] = "saving"]
  /\ form' = [form EXCEPT ![c] = posted]
  /\ existing' = [existing EXCEPT ![c] = rows[page[c].id]]
  /\ UNCHANGED <<rows, used, page>>

\* Mutant: the fields the form does not show are left out.
ParseWpUpdateDropsHidden(c) ==
  [status |-> form[c].status, assignee |-> form[c].assignee, parent |-> None,
   lock_version |-> IF c \in Quoting THEN page[c].row.lock_version
                                     ELSE existing[c].lock_version]

ParseWpUpdate(c) ==
  [status |-> form[c].status, assignee |-> form[c].assignee,
   parent |-> existing[c].parent,
   lock_version |-> IF c \in Quoting THEN page[c].row.lock_version
                                     ELSE existing[c].lock_version]

\* Second statement: update.
SaveForm(c) ==
  /\ pc[c] = "saving"
  /\ Update(page[c].id, ParseWpUpdate(c))
  /\ pc' = [pc EXCEPT ![c] = "idle"]
  /\ form' = [form EXCEPT ![c] = NoForm]
  /\ existing' = [existing EXCEPT ![c] = NoRow]
  /\ UNCHANGED <<used, page>>

Next ==
  \/ \E id \in Ids :
       \/ \E row \in NewRow : Create(id, row)
       \/ Delete(id)
  \/ \E c \in Clients, id \in Ids :
       \/ Open(c, id)
       \/ \E status \in Statuses \cup {None}, assignee \in Users \cup {None} :
            Patch(c, id, status, assignee)
       \/ \E status \in Statuses : UpdateStatus(c, id, status)
  \/ \E c \in Clients : SaveForm(c) \/ \E posted \in Form : FindExisting(c, posted)

Spec == Init /\ [][Next]_vars

-----------------------------------------------------------------------------
(* Type correctness.  A NOT NULL column of a stored row is never None: a   *)
(* request that leaves status out keeps it.                                *)
TypeOK ==
  /\ rows \in [Ids -> Row \cup {NoRow}]
  /\ used \in SUBSET Ids
  /\ page \in [Clients -> [id : Ids, row : Row] \cup {NoPage}]
  /\ pc \in [Clients -> {"idle", "saving"}]
  /\ form \in [Clients -> Form \cup {NoForm}]
  /\ existing \in [Clients -> Row \cup {NoRow}]

(* lock_version names a row's content: a copy somebody holds, a client's   *)
(* page or a handler's existing row, is never newer than the stored row,   *)
(* is the stored row if it has its version, and agrees with every other    *)
(* copy of that version, also after the row was deleted.                   *)
Copies(id) ==
  {page[c].row : c \in {d \in Clients : page[d].id = id}} \cup
  {existing[c] : c \in {d \in Clients : page[d].id = id /\ pc[d] = "saving"}}

VersionNamesContent ==
  \A id \in Ids : \A copy \in Copies(id) :
    /\ Stored(id) => /\ copy.lock_version <= rows[id].lock_version
                     /\ copy.lock_version = rows[id].lock_version => copy = rows[id]
    /\ \A other \in Copies(id) :
         copy.lock_version = other.lock_version => copy = other

(* Saving the edit form never changes a field the form does not show,      *)
(* whoever writes the row while the form is open or between the handler's  *)
(* two statements: parse_wp_update carries the re-read value over, and the *)
(* version makes sure it is still the stored one.                          *)
FormKeepsHidden ==
  [][\A c \in Clients, id \in Ids :
       pc[c] = "saving" /\ pc'[c] = "idle" => rows'[id].parent = rows[id].parent]_vars

(***************************************************************************)
(* The table implements LinkedStore: a client is linked to the row whose   *)
(* version it is going to quote, as long as that version is stored.  For a *)
(* client that quotes versions this is the row on its page, for another    *)
(* the row its POST has re-read.  A row of version 0 is fresh, because a   *)
(* PATCH without a version quotes 0.                                       *)
(***************************************************************************)
Missing(why) == [status |-> why, assignee |-> None, parent |-> None]

Content(id) ==
  IF Stored(id) THEN [status |-> rows[id].status, assignee |-> rows[id].assignee,
                      parent |-> rows[id].parent]
  ELSE IF id \in used THEN Missing("gone") ELSE Missing("unused")

Basis(c) == IF c \in Quoting THEN page[c].row ELSE existing[c]

Current(c, id) ==
  /\ page[c].id = id /\ Stored(id)
  /\ c \in Quoting \/ pc[c] = "saving"
  /\ Basis(c).lock_version = rows[id].lock_version

Fresh == {id \in Ids : Stored(id) /\ rows[id].lock_version = 0}

Linked == INSTANCE LinkedStore WITH
  Items <- Ids,
  Blindly <- Quoting # Clients,
  Values <- [status : Statuses, assignee : Users \cup {None}, parent : Parents \cup {None}],
  Unused <- Missing("unused"),
  Gone <- Missing("gone"),
  value <- [id \in Ids |-> Content(id)],
  linked <- {l \in Clients \X Ids : Current(l[1], l[2])},
  fresh <- Fresh

(* No lost update: a request that quotes the version its client read, and  *)
(* a POST of the edit form in any case, changes the row only if nobody has *)
(* changed it since; what a PATCH without a version can overwrite is only  *)
(* a row as it was created.                                                *)
ImplementsLinkedStore == Linked!Spec

=============================================================================

-------------------------- MODULE WorkPackageService --------------------------
(***************************************************************************)
(* WorkPackageService over a MemoryWorkPackageStore (op-work-packages).    *)
(*                                                                         *)
(* The store's operations each take its lock once; the service strings     *)
(* them together and holds nothing in between.  update reads the row,      *)
(* compares lock_version, applies the patch to its copy and then replaces  *)
(* the stored row by the copy, so it is two actions; insert draws the id   *)
(* before it takes the lock, so create is two actions as well.             *)
(*                                                                         *)
(* A caller may or may not let its updates overlap: Serial is what the     *)
(* service would need, and nothing in it provides.                         *)
(***************************************************************************)
EXTENDS Integers

CONSTANTS
  Clients,
  Subjects, Users,
  Blank,        \* a subject of nothing but white space
  None,         \* the None of a write-model field
  Serial,       \* whether callers run at most one update at a time
  MaxRows,      \* bound of the model: work packages created
  MaxVersion    \* bound of the model: the highest lock_version written

ASSUME WorkPackageServiceAssumption ==
  /\ None \notin Subjects \cup Users \cup {Blank}
  /\ Blank \notin Subjects
  /\ Serial \in BOOLEAN
  /\ MaxRows \in Nat /\ MaxVersion \in Nat

VARIABLES
  rows,       \* the store's rows by id
  next_id,    \* the store's counter
  pc,         \* whether a client's call is between its two steps
  copy,       \* the call's own work package and its id
  seen        \* the work package each client last looked at

vars == <<rows, next_id, pc, copy, seen>>

Ids == 1 .. MaxRows
Row == [subject : Subjects, assignee : Users \cup {None}, lock_version : Nat]
NoRow == [subject |-> None, assignee |-> None, lock_version |-> 0]
Entity == [id : Ids, row : Row]
NoEntity == [id |-> 0, row |-> NoRow]
Input == [subject : Subjects \cup {Blank}, assignee : Users \cup {None}]
Changes == [subject : Subjects \cup {Blank, None}, assignee : Users \cup {None}]

Stored(id) == rows[id] # NoRow

Init ==
  /\ rows = [id \in Ids |-> NoRow]
  /\ next_id = 1
  /\ pc = [c \in Clients |-> "idle"]
  /\ copy = [c \in Clients |-> NoEntity]
  /\ seen = [c \in Clients |-> NoEntity]

-----------------------------------------------------------------------------
\* create, up to insert's fetch_add.  A blank subject is refused before.
DrawId(c, input) ==
  /\ pc[c] = "idle" /\ next_id <= MaxRows
  /\ input.subject # Blank
  /\ next_id' = next_id + 1
  /\ pc' = [pc EXCEPT ![c] = "inserting"]
  /\ copy' = [copy EXCEPT ![c] =
       [id |-> next_id, row |-> [subject |-> input.subject, assignee |-> input.assignee,
                                 lock_version |-> 0]]]
  /\ UNCHANGED <<rows, seen>>

Push(c) ==
  /\ pc[c] = "inserting"
  /\ rows' = [rows EXCEPT ![copy[c].id] = copy[c].row]
  /\ pc' = [pc EXCEPT ![c] = "idle"]
  /\ copy' = [copy EXCEPT ![c] = NoEntity]
  /\ UNCHANGED <<next_id, seen>>

\* What create and update return is what a Find right after them returns.
Find(c, id) ==
  /\ pc[c] = "idle" /\ Stored(id)
  /\ seen' = [seen EXCEPT ![c] = [id |-> id, row |-> rows[id]]]
  /\ UNCHANGED <<rows, next_id, pc, copy>>

Or(new, old) == IF new = None THEN old ELSE new

\* apply_to, which sets values and never clears one.
ApplyTo(row, changes) ==
  [subject |-> Or(changes.subject, row.subject),
   assignee |-> Or(changes.assignee, row.assignee),
   lock_version |-> row.lock_version]

Bumped(row) == [row EXCEPT !.lock_version = @ + 1]

\* Mutant: the comparison with the expected lock_version is missing.
ReadForUpdateUncompared(c, changes) ==
  LET id == seen[c].id
      patched == ApplyTo(rows[id], changes)
  IN  /\ pc[c] = "idle" /\ seen[c] # NoEntity
      /\ Serial => \A d \in Clients : pc[d] # "updating"
      /\ patched.subject # Blank
      /\ patched.lock_version < MaxVersion
      /\ pc' = [pc EXCEPT ![c] = "updating"]
      /\ copy' = [copy EXCEPT ![c] = [id |-> id, row |-> Bumped(patched)]]
      /\ UNCHANGED <<rows, next_id, seen>>

\* update, up to the call of store.update, of the work package the client
\* was last given.  Conflict and Validation end the call here.
ReadForUpdate(c, changes) ==
  LET id == seen[c].id
      patched == ApplyTo(rows[id], changes)
  IN  /\ pc[c] = "idle" /\ seen[c] # NoEntity
      /\ Serial => \A d \in Clients : pc[d] # "updating"
      /\ rows[id].lock_version = seen[c].row.lock_version
      /\ patched.subject # Blank
      /\ patched.lock_version < MaxVersion
      /\ pc' = [pc EXCEPT ![c] = "updating"]
      /\ copy' = [copy EXCEPT ![c] = [id |-> id, row |-> Bumped(patched)]]
      /\ UNCHANGED <<rows, next_id, seen>>

\* store.update replaces the row, whatever its lock_version is by now.
Replace(c) ==
  /\ pc[c] = "updating"
  /\ rows' = [rows EXCEPT ![copy[c].id] = copy[c].row]
  /\ pc' = [pc EXCEPT ![c] = "idle"]
  /\ copy' = [copy EXCEPT ![c] = NoEntity]
  /\ UNCHANGED <<next_id, seen>>

Next ==
  \E c \in Clients :
    \/ \E input \in Input : DrawId(c, input)
    \/ Push(c)
    \/ \E id \in Ids : Find(c, id)
    \/ \E changes \in Changes : ReadForUpdate(c, changes)
    \/ Replace(c)

Spec == Init /\ [][Next]_vars

-----------------------------------------------------------------------------
(* update's documentation: expected_lock_version must equal the stored     *)
(* row's lock_version, otherwise someone else wrote first.  So the row an  *)
(* update replaces is the one whose version the caller quoted.             *)
ReplacesExpectedVersion ==
  [][\A c \in Clients :
       pc[c] = "updating" /\ pc'[c] = "idle"
         => rows[copy[c].id].lock_version = seen[c].row.lock_version]_vars

(***************************************************************************)
(* Where callers keep their updates apart the service implements the same  *)
(* LinkedStore as the table.                                               *)
(***************************************************************************)
Missing(why) == [subject |-> why, assignee |-> None]

Content(id) ==
  IF Stored(id) THEN [subject |-> rows[id].subject, assignee |-> rows[id].assignee]
                ELSE Missing("unused")

Current(c, id) ==
  seen[c].id = id /\ rows[id].lock_version = seen[c].row.lock_version

Linked == INSTANCE LinkedStore WITH
  Items <- Ids,
  Blindly <- FALSE,
  Values <- [subject : Subjects, assignee : Users \cup {None}],
  Unused <- Missing("unused"),
  Gone <- Missing("gone"),
  value <- [id \in Ids |-> Content(id)],
  linked <- {l \in Clients \X Ids : Current(l[1], l[2])},
  fresh <- {id \in Ids : Stored(id) /\ rows[id].lock_version = 0}

(* No lost update, provided no two updates overlap.                        *)
ImplementsLinkedStore == Linked!Spec

=============================================================================

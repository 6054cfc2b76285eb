------------------------- MODULE RepositoriesProofs -------------------------
(***************************************************************************)
(* Proofs about Repositories, for every number of requests overlapping     *)
(* statement by statement, any of which may fail or be dropped, and tables *)
(* of any size.                                                            *)
(***************************************************************************)
EXTENDS Repositories, TLAPS

Tables == [rows : [Ids -> Row], links : [Ids -> SUBSET (Links \cup Names)], used : SUBSET Ids]

RTypeOK ==
  /\ repo \in DOMAIN Code
  /\ rows \in [Ids -> Row]
  /\ links \in [Ids -> SUBSET (Links \cup Names)]
  /\ used \in SUBSET Ids
  /\ next \in 1 .. (MaxId + 1)
  /\ pc \in [Requests -> Int]
  /\ req \in [Requests -> Request]
  /\ copy \in [Requests -> Row]
  /\ left \in [Requests -> SUBSET Links]
  /\ cut \in SUBSET (0 .. MaxId)
  /\ calm \in SUBSET Requests
  /\ start \in [Requests -> Tables]
  /\ met \in [Requests -> SUBSET Names]

(* A request in progress is at a statement of its method.                  *)
InMethod ==
  \A r \in Requests : pc[r] > 0 => /\ req[r].method \in DOMAIN Code[repo]
                                   /\ pc[r] <= Len(Steps(req[r].method))

(* Nothing is stored under an id the sequence has not given out.           *)
NoneBeyond == \A i \in Ids : i >= next => rows[i] = NoRow

(* A method that reads a row was called for one.                           *)
Addressed ==
  \A r \in Requests :
    pc[r] > 0 /\ (Has(req[r].method, "Read") \/ Has(req[r].method, "Star")) => req[r].id \in Ids

BaseInv == RTypeOK /\ InMethod /\ Addressed /\ NoneBeyond

-----------------------------------------------------------------------------
(***************************************************************************)
(* The methods of the repositories.                                        *)
(***************************************************************************)
LEMMA Repos ==
  DOMAIN Code = {"statuses", "priorities", "activities", "types", "roles", "versions",
                 "categories", "members", "relations", "queries", "projects", "watchers",
                 "users", "journals", "journalService", "timeEntries", "attachments"}
BY DEF Code

LEMMA CodeOf ==
  /\ Code["statuses"] = Statuses
  /\ Code["priorities"] = Priorities
  /\ Code["activities"] = Activities
  /\ Code["types"] = Types
  /\ Code["roles"] = Roles
  /\ Code["versions"] = Versions
  /\ Code["categories"] = Categories
  /\ Code["members"] = Members
  /\ Code["relations"] = Relations
  /\ Code["queries"] = Queries
  /\ Code["projects"] = Projects
  /\ Code["watchers"] = Watchers
  /\ Code["users"] = Users
  /\ Code["journals"] = Journals
  /\ Code["journalService"] = JournalService
  /\ Code["timeEntries"] = TimeEntries
  /\ Code["attachments"] = AttachmentRows
BY DEF Code

(* Every method is a sequence of statements, and one that reads the row it *)
(* is called for does nothing that has no such row.                        *)
Unaddressed == {"Insert", "DeleteNamed", "DrawPlace", "DrawVersion", "FirstVersion"}
Sound(methods) ==
  /\ DOMAIN methods \subseteq Methods
  /\ \A m \in DOMAIN methods : Len(methods[m].steps) \in Nat \ {0}
  /\ \A m \in DOMAIN methods : \A k, l \in DOMAIN methods[m].steps :
       methods[m].steps[k] \in {"Read", "Star"} => methods[m].steps[l] \notin Unaddressed

LEMMA MethodsSound ==
  ASSUME NEW p \in DOMAIN Code
  PROVE  Sound(Code[p])
<1>1. Sound(Statuses)
  BY DEF Sound, Methods, Unaddressed, Statuses, M
<1>2. Sound(Priorities)
  BY DEF Sound, Methods, Unaddressed, Priorities, M
<1>3. Sound(Activities)
  BY DEF Sound, Methods, Unaddressed, Activities, M
<1>4. Sound(Types)
  BY DEF Sound, Methods, Unaddressed, Types, M
<1>5. Sound(Roles)
  BY DEF Sound, Methods, Unaddressed, Roles, M
<1>6. Sound(Versions)
  BY DEF Sound, Methods, Unaddressed, Versions, M
<1>7. Sound(Categories)
  <2>1. /\ DOMAIN Categories = {"create", "update", "delete"}
        /\ Categories["create"].steps = <<"CheckName", "Insert">>
        /\ Categories["update"].steps = <<"Read", "CheckName", "WriteRow">>
        /\ Categories["delete"].steps = <<"CheckExists", "CheckUnused", "Delete">>
    BY DEF Categories, M
  <2>2. \A m \in DOMAIN Categories : Len(Categories[m].steps) \in Nat \ {0}
    BY <2>1
  <2>3. \A m \in DOMAIN Categories : \A k \in DOMAIN Categories[m].steps :
          Categories[m].steps[k] \in {"Read", "Star"} => m = "update"
    BY <2>1
  <2>4. \A k \in DOMAIN Categories["update"].steps :
          Categories["update"].steps[k] \notin Unaddressed
    BY <2>1 DEF Unaddressed
  <2>5. DOMAIN Categories \subseteq Methods
    BY <2>1 DEF Methods
  <2>6. QED
    BY <2>2, <2>3, <2>4, <2>5 DEF Sound
<1>8. Sound(Members)
  <2>1. /\ DOMAIN Members = {"create", "update", "delete"}
        /\ Members["create"].steps
             = <<"CheckLinks", "CheckName", "Insert", "DeleteLinks", "InsertLinks">>
        /\ Members["update"].steps
             = <<"CheckExists", "CheckLinks", "DeleteLinks", "InsertLinks">>
        /\ Members["delete"].steps = <<"CheckExists", "DeleteLinks", "Delete">>
    BY DEF Members, M
  <2>2. \A m \in DOMAIN Members : Len(Members[m].steps) \in Nat \ {0}
    <3>1. /\ Len(Members["create"].steps) = 5
          /\ Len(Members["update"].steps) = 4
          /\ Len(Members["delete"].steps) = 3
      BY <2>1
    <3>2. \A m \in DOMAIN Members : Len(Members[m].steps) \in {3, 4, 5}
      BY <2>1, <3>1
    <3>3. QED
      BY <3>2
  <2>3. \A m \in DOMAIN Members : \A k \in DOMAIN Members[m].steps :
          Members[m].steps[k] \notin {"Read", "Star"}
    <3>1. \A k \in DOMAIN Members["create"].steps :
            Members["create"].steps[k] \notin {"Read", "Star"}
      BY <2>1
    <3>2. \A k \in DOMAIN Members["update"].steps :
            Members["update"].steps[k] \notin {"Read", "Star"}
      BY <2>1
    <3>3. \A k \in DOMAIN Members["delete"].steps :
            Members["delete"].steps[k] \notin {"Read", "Star"}
      BY <2>1
    <3>4. QED
      BY <2>1, <3>1, <3>2, <3>3
  <2>4. DOMAIN Members \subseteq Methods
    BY <2>1 DEF Methods
  <2>5. QED
    BY <2>2, <2>3, <2>4 DEF Sound
<1>9. Sound(Relations)
  BY DEF Sound, Methods, Unaddressed, Relations, M
<1>10. Sound(Queries)
  BY DEF Sound, Methods, Unaddressed, Queries, M
<1>11. Sound(Projects)
  BY DEF Sound, Methods, Unaddressed, Projects, M
<1>12. Sound(Watchers)
  BY DEF Sound, Methods, Unaddressed, Watchers, M
<1>13. Sound(Users)
  BY DEF Sound, Methods, Unaddressed, Users, M
<1>14. Sound(Journals)
  BY DEF Sound, Methods, Unaddressed, Journals, M
<1>15. Sound(JournalService)
  BY DEF Sound, Methods, Unaddressed, JournalService, M
<1>16. Sound(TimeEntries)
  BY DEF Sound, Methods, Unaddressed, TimeEntries, M
<1>17. Sound(AttachmentRows)
  BY DEF Sound, Methods, Unaddressed, AttachmentRows, M
<1>18. QED
  BY <1>1, <1>2, <1>3, <1>4, <1>5, <1>6, <1>7, <1>8, <1>9, <1>10, <1>11, <1>12,
     <1>13, <1>14, <1>15, <1>16, <1>17, CodeOf, Repos

(***************************************************************************)
(* What a request does to its own place.                                   *)
(***************************************************************************)
Elsewhere(r) ==
  \A x \in Requests \ {r} :
    pc'[x] = pc[x] /\ req'[x] = req[x] /\ copy'[x] = copy[x] /\ left'[x] = left[x]
Gone(r) ==
  pc'[r] \in {0, -1} /\ req'[r] = NoRequest /\ copy'[r] = NoRow /\ left'[r] = {}
Onward(r, i, row) ==
  /\ pc'[r] = pc[r] + 1 /\ pc[r] # Len(Steps(req[r].method))
  /\ req'[r] = [req[r] EXCEPT !.id = i] /\ copy'[r] = row /\ left'[r] = left[r]
Places == /\ pc' \in [Requests -> Int]
          /\ req' \in [Requests -> Request]
          /\ copy' \in [Requests -> Row]
          /\ left' \in [Requests -> SUBSET Links]

LEMMA Nothing == NoRequest \in Request /\ NoRow \in Row
BY RepositoriesAssumption DEF NoRequest, Request, NoRow, Row

LEMMA Leaves ==
  ASSUME BaseInv, NEW r \in Requests, NEW where \in {0, -1}, Leave(r, where)
  PROVE  Elsewhere(r) /\ Gone(r) /\ repo' = repo /\ Places /\ InMethod'
<1>1. Elsewhere(r) /\ Gone(r) /\ repo' = repo /\ pc'[r] \in {0, -1}
  BY DEF Leave, BaseInv, RTypeOK, Elsewhere, Gone
<1>2. Places
  BY Nothing DEF Leave, BaseInv, RTypeOK, Places
<1>3. InMethod'
  BY <1>1 DEF BaseInv, InMethod, Steps, Elsewhere
<1>4. QED
  BY <1>1, <1>2, <1>3

LEMMA Proceeds ==
  ASSUME BaseInv, NEW r \in Requests, pc[r] > 0, NEW i \in 0 .. MaxId, NEW row \in Row,
         Proceed(r, i, row)
  PROVE  /\ Elsewhere(r) /\ repo' = repo /\ Places /\ InMethod'
         /\ Gone(r) \/ Onward(r, i, row)
<1>1. CASE pc[r] = Len(Steps(req[r].method))
  BY <1>1, Leaves DEF Proceed
<1>2. CASE pc[r] # Len(Steps(req[r].method))
  <2>1. /\ pc' = [pc EXCEPT ![r] = pc[r] + 1] /\ req' = [req EXCEPT ![r].id = i]
        /\ copy' = [copy EXCEPT ![r] = row] /\ left' = left /\ repo' = repo
    BY <1>2 DEF Proceed
  <2>2. Elsewhere(r) /\ Onward(r, i, row)
    BY <1>2, <2>1 DEF BaseInv, RTypeOK, Elsewhere, Onward
  <2>3. req'[r] \in Request /\ req'[r].method = req[r].method
    <3>1. req[r] \in Request /\ req'[r] = [req[r] EXCEPT !.id = i]
      BY <2>2 DEF Onward, BaseInv, RTypeOK
    <3>2. QED
      BY <3>1 DEF Request
  <2>4. Places
    BY <2>1, <2>3 DEF BaseInv, RTypeOK, Places
  <2>5. Len(Steps(req[r].method)) \in Nat
    BY MethodsSound DEF Sound, BaseInv, RTypeOK, InMethod, Steps
  <2>6. InMethod'
    BY <1>2, <2>1, <2>2, <2>3, <2>5 DEF BaseInv, RTypeOK, InMethod, Steps, Elsewhere
  <2>7. QED
    BY <2>1, <2>2, <2>4, <2>6
<1>3. QED
  BY <1>1, <1>2

-----------------------------------------------------------------------------
(***************************************************************************)
(* The base of the invariant: types, statements, ids.                      *)
(***************************************************************************)
TablesOK(rs, ls, us, n) ==
  /\ rs \in [Ids -> Row] /\ ls \in [Ids -> SUBSET (Links \cup Names)]
  /\ us \in SUBSET Ids /\ n \in 1 .. (MaxId + 1)

LEMMA Recorded ==
  ASSUME BaseInv, Record, rows' \in [Ids -> Row]
  PROVE  /\ calm' \in SUBSET Requests /\ start' \in [Requests -> Tables]
         /\ met' \in [Requests -> SUBSET Names]
<1>1. Untouched \in Tables
  BY Nothing DEF Untouched, Tables
<1>2. [rows |-> rows, links |-> links, used |-> used] \in Tables
  BY DEF BaseInv, RTypeOK, Tables
<1>3. NewNames \subseteq Names
  BY DEF NewNames, Row
<1>4. QED
  BY <1>1, <1>2, <1>3 DEF Record, BaseInv, RTypeOK

(* A merged row is a row.                                                  *)
LEMMA MergeTyped ==
  ASSUME NEW row \in Row, NEW q \in Request
  PROVE  /\ Merge(row, q) \in Row
         /\ Merge(row, q).name = (IF q.name = None THEN row.name ELSE q.name)
         /\ Merge(row, q).flag = (IF q.flag = None THEN row.flag ELSE q.flag)
         /\ Merge(row, q).low = (IF q.low = 0 THEN row.low ELSE q.low)
         /\ Merge(row, q).high = (IF q.high = 0 THEN row.high ELSE q.high)
         /\ Merge(row, q).protected = row.protected
BY DEF Merge, Row, Request

LEMMA MergedTyped ==
  ASSUME BaseInv, NEW r \in Requests
  PROVE  Merged(r) \in Row
BY MergeTyped DEF BaseInv, RTypeOK, Merged

LEMMA ReadsARow ==
  ASSUME BaseInv, NEW r \in Requests, At(r, "Read") \/ At(r, "Star")
  PROVE  req[r].id \in Ids
<1>1. /\ pc[r] > 0 /\ req[r].method \in DOMAIN Code[repo] /\ pc[r] <= Len(Steps(req[r].method))
      /\ pc[r] \in Int
  BY DEF At, BaseInv, RTypeOK, InMethod
<1>2. Has(req[r].method, "Read") \/ Has(req[r].method, "Star")
  BY <1>1 DEF At, Has
<1>3. QED
  BY <1>1, <1>2 DEF BaseInv, Addressed

TablesStay == /\ TablesOK(rows', links', used', next') /\ cut' \in SUBSET (0 .. MaxId)
              /\ NoneBeyond'

LEMMA TablesUnchanged ==
  ASSUME BaseInv, UNCHANGED <<rows, used, next, cut>>,
         links' \in [Ids -> SUBSET (Links \cup Names)]
  PROVE  TablesStay
BY DEF BaseInv, RTypeOK, TablesStay, TablesOK, NoneBeyond

(* A statement that was sent, or an early return.                          *)
LEMMA BaseProceeds ==
  ASSUME BaseInv, NEW r \in Requests, pc[r] > 0, NEW i \in 0 .. MaxId, NEW row \in Row,
         Proceed(r, i, row) \/ Leave(r, 0) \/ Leave(r, -1),
         \/ i = req[r].id \/ i \in Ids
         \/ ~Has(req[r].method, "Read") /\ ~Has(req[r].method, "Star"),
         TablesStay, Record
  PROVE  BaseInv' /\ Elsewhere(r) /\ repo' = repo /\ (Gone(r) \/ Onward(r, i, row))
<1>1. /\ Elsewhere(r) /\ repo' = repo /\ Places /\ InMethod'
      /\ Gone(r) \/ Onward(r, i, row)
  BY Proceeds, Leaves
<1>2. RTypeOK'
  BY <1>1, Recorded DEF TablesStay, TablesOK, Places, BaseInv, RTypeOK
<1>3. Addressed'
  <2> SUFFICES ASSUME NEW x \in Requests, pc'[x] > 0,
                      Has(req[x].method, "Read")' \/ Has(req[x].method, "Star")'
               PROVE  req'[x].id \in Ids
    BY DEF Addressed
  <2>1. CASE x # r
    <3>1. pc'[x] = pc[x] /\ req'[x] = req[x] /\ repo' = repo
      BY <1>1, <2>1 DEF Elsewhere
    <3>2. Has(req[x].method, "Read") \/ Has(req[x].method, "Star")
      BY <3>1 DEF Has, Steps
    <3>3. QED
      BY <3>1, <3>2 DEF BaseInv, Addressed
  <2>2. CASE x = r
    <3>1. Onward(r, i, row)
      BY <1>1, <2>2 DEF Gone
    <3>2. req'[r].method = req[r].method /\ req'[r].id = i /\ repo' = repo
      BY <1>1, <3>1 DEF Onward, BaseInv, RTypeOK, Request
    <3>3. Has(req[r].method, "Read") \/ Has(req[r].method, "Star")
      BY <2>2, <3>2 DEF Has, Steps
    <3>4. QED
      BY <2>2, <3>2, <3>3 DEF BaseInv, Addressed
  <2>3. QED
    BY <2>1, <2>2
<1>4. QED
  BY <1>1, <1>2, <1>3 DEF TablesStay, BaseInv

(* Each statement is sent where the method has it.                         *)
LEMMA SentAt ==
  ASSUME NEW r \in Requests
  PROVE  /\ DrawPlace(r) => At(r, "DrawPlace")
         /\ DrawVersion(r) => At(r, "DrawVersion")
         /\ FirstVersion(r) => At(r, "FirstVersion")
         /\ Insert(r) => At(r, "Insert")
         /\ Update(r) => At(r, "Update")
         /\ WriteRow(r) => At(r, "WriteRow")
         /\ Increment(r) => At(r, "Increment")
         /\ ClearOthers(r) => At(r, "ClearOthers")
         /\ ClearAll(r) => At(r, "ClearAll")
         /\ Delete(r) => At(r, "Delete")
         /\ DeleteNamed(r) => At(r, "DeleteNamed")
         /\ DeleteLinks(r) => At(r, "DeleteLinks")
         /\ RemoveLinks(r) => At(r, "RemoveLinks")
         /\ Star(r) => At(r, "Star")
         /\ InsertLastLink(r) => At(r, "InsertLinks")
         /\ \A l \in Links : InsertLink(r, l) => At(r, "InsertLinks")
         /\ Read(r) => At(r, "Read")
         /\ CheckName(r) => At(r, "CheckName")
         /\ CheckUnused(r) => At(r, "CheckUnused")
         /\ CheckExists(r) => At(r, "CheckExists")
         /\ CheckProtected(r) => At(r, "CheckProtected")
         /\ CheckLinks(r) => At(r, "CheckLinks")
         /\ CheckDates(r) => At(r, "CheckDates")
<1>1. DrawPlace(r) => At(r, "DrawPlace")
  BY Zenon DEF DrawPlace
<1>2. DrawVersion(r) => At(r, "DrawVersion")
  BY Zenon DEF DrawVersion
<1>3. FirstVersion(r) => At(r, "FirstVersion")
  BY Zenon DEF FirstVersion
<1>4. Insert(r) => At(r, "Insert")
  BY Zenon DEF Insert
<1>5. Update(r) => At(r, "Update")
  BY Zenon DEF Update
<1>6. WriteRow(r) => At(r, "WriteRow")
  BY Zenon DEF WriteRow
<1>7. Increment(r) => At(r, "Increment")
  BY Zenon DEF Increment
<1>8. ClearOthers(r) => At(r, "ClearOthers")
  BY Zenon DEF ClearOthers
<1>9. ClearAll(r) => At(r, "ClearAll")
  BY Zenon DEF ClearAll
<1>10. Delete(r) => At(r, "Delete")
  BY Zenon DEF Delete
<1>11. DeleteNamed(r) => At(r, "DeleteNamed")
  BY Zenon DEF DeleteNamed
<1>12. DeleteLinks(r) => At(r, "DeleteLinks")
  BY Zenon DEF DeleteLinks
<1>13. RemoveLinks(r) => At(r, "RemoveLinks")
  BY Zenon DEF RemoveLinks
<1>14. Star(r) => At(r, "Star")
  BY Zenon DEF Star
<1>15. InsertLastLink(r) => At(r, "InsertLinks")
  BY Zenon DEF InsertLastLink
<1>16. \A l \in Links : InsertLink(r, l) => At(r, "InsertLinks")
  BY Zenon DEF InsertLink
<1>17. Read(r) => At(r, "Read")
  BY Zenon DEF Read
<1>18. CheckName(r) => At(r, "CheckName")
  BY Zenon DEF CheckName, Check
<1>19. CheckUnused(r) => At(r, "CheckUnused")
  BY Zenon DEF CheckUnused, Check
<1>20. CheckExists(r) => At(r, "CheckExists")
  BY Zenon DEF CheckExists, Check
<1>21. CheckProtected(r) => At(r, "CheckProtected")
  BY Zenon DEF CheckProtected, Check
<1>22. CheckLinks(r) => At(r, "CheckLinks")
  BY Zenon DEF CheckLinks, Check
<1>23. CheckDates(r) => At(r, "CheckDates")
  BY Zenon DEF CheckDates, Check
<1>24. QED
  BY <1>1, <1>2, <1>3, <1>4, <1>5, <1>6, <1>7, <1>8, <1>9, <1>10, <1>11,
     <1>12, <1>13, <1>14, <1>15, <1>16, <1>17, <1>18, <1>19, <1>20, <1>21, <1>22, <1>23

(***************************************************************************)
(* Statement by statement: the call goes on with the same row and copy or  *)
(* returns, and the tables keep their types.                               *)
(***************************************************************************)
Checking(r) == \/ CheckName(r) \/ CheckUnused(r) \/ CheckExists(r) \/ CheckProtected(r)
               \/ CheckLinks(r) \/ CheckDates(r)

Ordinary(r) ==
  BaseInv' /\ Elsewhere(r) /\ repo' = repo /\ (Gone(r) \/ Onward(r, req[r].id, copy[r]))

LEMMA Ordinarily ==
  ASSUME BaseInv, NEW r \in Requests, pc[r] > 0, Go(r) \/ Leave(r, 0), TablesStay, Record
  PROVE  Ordinary(r)
<1>1. req[r].id \in 0 .. MaxId /\ copy[r] \in Row
  BY DEF BaseInv, RTypeOK, Request
<1>2. QED
  BY <1>1, BaseProceeds DEF Go, Ordinary

LEMMA CheckingBase ==
  ASSUME BaseInv, NEW r \in Requests, Checking(r)
  PROVE  Ordinary(r) /\ UNCHANGED <<tables, cut>>
<1>1. /\ pc[r] > 0 /\ (Go(r) \/ Leave(r, 0))
      /\ UNCHANGED <<tables, cut>> /\ Record
  BY DEF Checking, CheckName, CheckUnused, CheckExists, CheckProtected, CheckLinks, CheckDates,
         Check, At
<1>2. TablesStay
  BY <1>1, TablesUnchanged DEF tables, BaseInv, RTypeOK
<1>3. QED
  BY <1>1, <1>2, Ordinarily

LEMMA ReadBase ==
  ASSUME BaseInv, NEW r \in Requests, Read(r)
  PROVE  /\ BaseInv' /\ Elsewhere(r) /\ repo' = repo /\ UNCHANGED <<tables, cut>>
         /\ Gone(r) \/ (Onward(r, req[r].id, rows[req[r].id]) /\ Stored(req[r].id))
<1>1. /\ pc[r] > 0 /\ UNCHANGED <<tables, cut>> /\ Record
      /\ req[r].id \in Ids /\ rows[req[r].id] \in Row
  BY ReadsARow DEF Read, At, BaseInv, RTypeOK
<1>2. TablesStay
  BY <1>1, TablesUnchanged DEF tables, BaseInv, RTypeOK
<1>3. CASE Stored(req[r].id)
  BY <1>1, <1>2, <1>3, BaseProceeds DEF Read, Ids
<1>4. CASE ~Stored(req[r].id)
  BY <1>1, <1>2, <1>4, BaseProceeds, Leaves DEF Read, Ids
<1>5. QED
  BY <1>3, <1>4

LEMMA FollowingTyped ==
  ASSUME NEW S \in SUBSET Nat PROVE Following(S) \subseteq Nat \ {0}
BY DEF Following

LEMMA DrawBase ==
  ASSUME BaseInv, NEW r \in Requests, DrawPlace(r) \/ DrawVersion(r) \/ FirstVersion(r)
  PROVE  /\ BaseInv' /\ Elsewhere(r) /\ repo' = repo /\ UNCHANGED <<tables, cut>>
         /\ Gone(r) \/ \E row \in Row : Onward(r, 0, row)
<1>1. /\ pc[r] > 0 /\ UNCHANGED <<tables, cut>> /\ Record /\ copy[r] \in Row
  BY DEF DrawPlace, DrawVersion, FirstVersion, At, BaseInv, RTypeOK
<1>2. TablesStay
  BY <1>1, TablesUnchanged DEF tables, BaseInv, RTypeOK
<1>3. ~Has(req[r].method, "Read") /\ ~Has(req[r].method, "Star")
  <2>1. /\ req[r].method \in DOMAIN Code[repo] /\ Sound(Code[repo])
        /\ pc[r] > 0 /\ pc[r] <= Len(Steps(req[r].method)) /\ pc[r] \in Int
    BY <1>1, MethodsSound DEF BaseInv, RTypeOK, InMethod
  <2>2. pc[r] \in DOMAIN Steps(req[r].method)
    BY <2>1
  <2>3. Steps(req[r].method)[pc[r]] \in Unaddressed
    BY DEF DrawPlace, DrawVersion, FirstVersion, At, Unaddressed
  <2>4. QED
    BY <2>1, <2>2, <2>3 DEF Sound, Has, Steps
<1>4. /\ {rows[i].high : i \in Ids} \subseteq Nat
      /\ VersionsOf(req[r].name, rows) \subseteq Nat
  BY DEF BaseInv, RTypeOK, Row, VersionsOf
<1>5. Leave(r, 0) \/ \E row \in Row : Proceed(r, 0, row)
  <2>1. ASSUME NEW n \in Nat
        PROVE  /\ [copy[r] EXCEPT !.low = n] \in Row
               /\ [copy[r] EXCEPT !.low = n, !.high = n + 1] \in Row
    <3>1. n + 1 \in Nat
      OBVIOUS
    <3>2. \A k \in Nat : [copy[r] EXCEPT !.low = n, !.high = k] \in Row
      BY <1>1 DEF Row
    <3>3. [copy[r] EXCEPT !.low = n] \in Row
      BY <1>1 DEF Row
    <3>4. QED
      BY <3>1, <3>2, <3>3
  <2>2. QED
    BY <1>4, <2>1, FollowingTyped DEF DrawPlace, DrawVersion, FirstVersion
<1>6. 0 \in 0 .. MaxId
  BY RepositoriesAssumption
<1>7. CASE Leave(r, 0)
  BY <1>1, <1>2, <1>3, <1>6, <1>7, BaseProceeds, Leaves
<1>8. ASSUME NEW row \in Row, Proceed(r, 0, row)
      PROVE  BaseInv' /\ Elsewhere(r) /\ repo' = repo /\ (Gone(r) \/ Onward(r, 0, row))
  BY <1>1, <1>2, <1>3, <1>6, <1>8, BaseProceeds
<1>9. QED
  BY <1>1, <1>5, <1>7, <1>8

LEMMA InsertBase ==
  ASSUME BaseInv, NEW r \in Requests, Insert(r)
  PROVE  BaseInv' /\ Elsewhere(r) /\ repo' = repo /\ (Gone(r) \/ Onward(r, next, copy[r]))
<1>1. /\ pc[r] > 0 /\ next \in Ids /\ Record /\ copy[r] \in Row /\ Merged(r) \in Row
      /\ rows' = [rows EXCEPT ![next] = Merged(r)] /\ next' = next + 1
      /\ UNCHANGED <<links, used, cut>> /\ Proceed(r, next, copy[r])
  BY MergedTyped DEF Insert, At, BaseInv, RTypeOK, Ids
<1>2. TablesStay
  BY <1>1, RepositoriesAssumption
  DEF BaseInv, RTypeOK, TablesStay, TablesOK, NoneBeyond, Ids
<1>3. next \in 0 .. MaxId
  BY <1>1 DEF Ids
<1>4. QED
  BY <1>1, <1>2, <1>3, BaseProceeds

LEMMA WriteBase ==
  ASSUME BaseInv, NEW r \in Requests, pc[r] > 0, NEW row,
         req[r].id \in Ids => row \in Row, Write(r, row)
  PROVE  Ordinary(r)
<1>1. /\ rows' = [rows EXCEPT ![req[r].id] = row] \/ UNCHANGED rows
      /\ Stored(req[r].id) \/ UNCHANGED rows
      /\ Go(r) \/ Leave(r, 0)
      /\ UNCHANGED <<links, used, next, cut>> /\ Record
  BY DEF Write
<1>2. rows' \in [Ids -> Row]
  BY <1>1 DEF BaseInv, RTypeOK
<1>3. NoneBeyond'
  <2>0. NoRow.name = None
    BY DEF NoRow
  <2>1. \A i \in Ids : i >= next => rows[i] = NoRow /\ ~Stored(i)
    BY <2>0 DEF BaseInv, NoneBeyond, Stored
  <2>2. \A i \in Ids : rows'[i] = rows[i] \/ (i = req[r].id /\ Stored(i))
    BY <1>1 DEF BaseInv, RTypeOK
  <2>3. QED
    BY <1>1, <2>1, <2>2 DEF NoneBeyond
<1>4. TablesStay
  BY <1>1, <1>2, <1>3 DEF BaseInv, RTypeOK, TablesStay, TablesOK
<1>5. QED
  BY <1>1, <1>4, Ordinarily

LEMMA WritesBase ==
  ASSUME BaseInv, NEW r \in Requests, Update(r) \/ WriteRow(r) \/ Increment(r)
  PROVE  Ordinary(r)
<1>1. pc[r] > 0 /\ req[r] \in Request /\ Merged(r) \in Row
  BY MergedTyped DEF Update, WriteRow, Increment, At, BaseInv, RTypeOK
<1>2. req[r].id \in Ids => rows[req[r].id] \in Row
  BY DEF BaseInv, RTypeOK
<1>3. CASE Update(r)
  BY <1>1, <1>2, <1>3, MergeTyped, WriteBase DEF Update
<1>4. CASE Increment(r)
  <2>1. req[r].id \in Ids => [rows[req[r].id] EXCEPT !.low = @ + 1] \in Row
    BY <1>2 DEF Row
  <2>2. QED
    BY <1>1, <1>4, <2>1, WriteBase DEF Increment
<1>5. CASE WriteRow(r)
  <2> DEFINE row == rows[req[r].id]
             new(c) == IF c \in Gives(req[r].method) THEN Merged(r)[c] ELSE row[c]
             written == [name |-> new("name"), flag |-> new("flag"), low |-> new("low"),
                         high |-> new("high"), protected |-> row.protected]
  <2>1. req[r].id \in Ids => written \in Row
    BY <1>1, <1>2 DEF Row
  <2>2. Write(r, written)
    BY <1>5 DEF WriteRow
  <2> HIDE DEF written
  <2>3. QED
    BY <1>1, <2>1, <2>2, WriteBase
<1>6. QED
  BY <1>3, <1>4, <1>5

(* Statements that write columns of all rows, or delete.                   *)
LEMMA LoweredFlag ==
  ASSUME NEW row \in Row
  PROVE  /\ [row EXCEPT !.flag = FALSE] \in Row
         /\ row = NoRow => [row EXCEPT !.flag = FALSE] = NoRow
         /\ [row EXCEPT !.flag = FALSE].flag = FALSE
         /\ [row EXCEPT !.flag = FALSE].name = row.name
         /\ [row EXCEPT !.flag = FALSE].low = row.low
         /\ [row EXCEPT !.flag = FALSE].high = row.high
<1>1. ASSUME row = NoRow
      PROVE  [row EXCEPT !.flag = FALSE] = row
  BY <1>1 DEF Row, NoRow
<1>2. QED
  BY <1>1 DEF Row

LEMMA SweepBase ==
  ASSUME BaseInv, NEW r \in Requests,
         ClearOthers(r) \/ ClearAll(r) \/ Delete(r) \/ DeleteNamed(r)
  PROVE  Ordinary(r)
<1>1. /\ pc[r] > 0 /\ Go(r) /\ Record /\ UNCHANGED <<links, used, next>>
      /\ cut' = {} \/ cut' = cut
  BY DEF ClearOthers, ClearAll, Delete, DeleteNamed, At
<1>2. ASSUME NEW i \in Ids
      PROVE  rows'[i] \in {rows[i], NoRow, [rows[i] EXCEPT !.flag = FALSE]}
  BY DEF ClearOthers, ClearAll, Delete, DeleteNamed, BaseInv, RTypeOK
<1>3. DOMAIN rows' = Ids /\ rows' = [i \in Ids |-> rows'[i]]
  BY DEF ClearOthers, ClearAll, Delete, DeleteNamed, BaseInv, RTypeOK
<1>4. rows' \in [Ids -> Row]
  BY <1>2, <1>3, LoweredFlag, Nothing DEF BaseInv, RTypeOK
<1>5. NoneBeyond'
  BY <1>1, <1>2, LoweredFlag DEF BaseInv, RTypeOK, NoneBeyond
<1>6. TablesStay
  BY <1>1, <1>4, <1>5 DEF BaseInv, RTypeOK, TablesStay, TablesOK
<1>7. QED
  BY <1>1, <1>6, Ordinarily

LEMMA LinksBase ==
  ASSUME BaseInv, NEW r \in Requests,
         DeleteLinks(r) \/ RemoveLinks(r) \/ Star(r) \/ InsertLastLink(r)
  PROVE  Ordinary(r)
<1>1. /\ pc[r] > 0 /\ Go(r) /\ Record /\ UNCHANGED <<rows, used, next>>
      /\ cut' \in {cut, cut \ {req[r].id}} /\ left[r] \subseteq Links
  BY DEF DeleteLinks, RemoveLinks, Star, InsertLastLink, At, BaseInv, RTypeOK
<1>2. links' \in [Ids -> SUBSET (Links \cup Names)]
  <2>1. CASE DeleteLinks(r) \/ RemoveLinks(r) \/ InsertLastLink(r)
    BY <1>1, <2>1 DEF DeleteLinks, RemoveLinks, InsertLastLink, BaseInv, RTypeOK
  <2>2. CASE Star(r)
    <3>1. req[r].id \in Ids /\ rows[req[r].id] \in Row
      BY <2>2, ReadsARow DEF Star, BaseInv, RTypeOK
    <3>2. Stored(req[r].id) => rows[req[r].id].name \in Names
      BY <3>1 DEF Stored, Row
    <3>3. QED
      BY <2>2, <3>1, <3>2 DEF Star, BaseInv, RTypeOK
  <2>3. QED
    BY <2>1, <2>2
<1>3. TablesStay
  BY <1>1, <1>2 DEF BaseInv, RTypeOK, TablesStay, TablesOK, NoneBeyond
<1>4. QED
  BY <1>1, <1>3, Ordinarily

(* Between two links of the same call nothing but links changes.           *)
LEMMA InsertLinkBase ==
  ASSUME BaseInv, NEW r \in Requests, NEW l \in Links, InsertLink(r, l)
  PROVE  BaseInv'
<1>1. /\ links' \in [Ids -> SUBSET (Links \cup Names)]
      /\ left' \in [Requests -> SUBSET Links]
      /\ UNCHANGED <<repo, rows, used, next, pc, req, copy, cut>> /\ Record
  BY DEF InsertLink, BaseInv, RTypeOK
<1>2. RTypeOK'
  BY <1>1, Recorded DEF BaseInv, RTypeOK
<1>3. QED
  BY <1>1, <1>2 DEF BaseInv, InMethod, Addressed, NoneBeyond, Has, Steps

LEMMA BeginBase ==
  ASSUME BaseInv, NEW r \in Requests, Begin(r)
  PROVE  /\ BaseInv' /\ UNCHANGED <<repo, tables, copy, cut>> /\ pc[r] = 0 /\ pc'[r] = 1
         /\ \A x \in Requests \ {r} : pc'[x] = pc[x] /\ req'[x] = req[x] /\ left'[x] = left[x]
         /\ left'[r] = req'[r].links
         /\ \E m \in DOMAIN Code[repo] : req'[r] \in Calls(m)
<1>1. PICK m \in DOMAIN Code[repo] : \E q \in Calls(m) :
        req' = [req EXCEPT ![r] = q] /\ left' = [left EXCEPT ![r] = q.links]
  BY DEF Begin
<1>2. PICK q \in Calls(m) :
        req' = [req EXCEPT ![r] = q] /\ left' = [left EXCEPT ![r] = q.links]
  BY <1>1
<1>3. /\ pc[r] = 0 /\ pc' = [pc EXCEPT ![r] = 1]
      /\ UNCHANGED <<repo, tables, copy, cut>> /\ Record
  BY DEF Begin
<1>4. Sound(Code[repo]) /\ m \in Methods /\ Len(Steps(m)) \in Nat \ {0}
  BY MethodsSound DEF BaseInv, RTypeOK, Sound, Steps
<1>5. q \in Request /\ q.method = m /\ q.id \in (IF ByName(m) THEN {0} ELSE Ids)
  <2>1. /\ q.method = m /\ q.id \in (IF ByName(m) THEN {0} ELSE Ids)
        /\ q.name \in Names \cup {None} /\ q.flag \in BOOLEAN \cup {None}
        /\ q.low \in Nat /\ q.high \in Nat /\ q.links \subseteq Links
    BY <1>2, RepositoriesAssumption DEF Calls
  <2>2. q.id \in 0 .. MaxId
    BY <2>1, RepositoriesAssumption DEF Ids
  <2>3. q = [method |-> q.method, id |-> q.id, name |-> q.name, flag |-> q.flag,
             low |-> q.low, high |-> q.high, links |-> q.links]
    BY <1>2 DEF Calls
  <2>4. QED
    BY <1>4, <2>1, <2>2, <2>3 DEF Request
<1>6. RTypeOK'
  BY <1>2, <1>3, <1>5, Recorded DEF BaseInv, RTypeOK, tables, Request
<1>7. /\ req'[r] = q /\ left'[r] = q.links /\ pc'[r] = 1
      /\ \A x \in Requests \ {r} : pc'[x] = pc[x] /\ req'[x] = req[x] /\ left'[x] = left[x]
  BY <1>2, <1>3 DEF BaseInv, RTypeOK
<1>8. InMethod' /\ NoneBeyond'
  BY <1>3, <1>4, <1>5, <1>7 DEF BaseInv, InMethod, NoneBeyond, Steps, tables
<1>9. Addressed'
  <2>1. Has(m, "Read") \/ Has(m, "Star") => ~ByName(m)
    BY <1>4 DEF Sound, Has, ByName, Steps, Unaddressed
  <2>2. \A n, k : Has(n, k)' <=> Has(n, k)
    BY <1>3 DEF Has, Steps
  <2>3. req'[r].method = m /\ (~ByName(m) => req'[r].id \in Ids)
    BY <1>5, <1>7
  <2>4. QED
    BY <1>7, <2>1, <2>2, <2>3 DEF BaseInv, Addressed
<1>10. QED
  BY <1>2, <1>3, <1>6, <1>7, <1>8, <1>9 DEF BaseInv

LEMMA BreakOffBase ==
  ASSUME BaseInv, NEW r \in Requests, BreakOff(r)
  PROVE  BaseInv' /\ Elsewhere(r) /\ Gone(r) /\ UNCHANGED <<repo, tables>>
<1>1. /\ pc[r] > 0 /\ Leave(r, -1) /\ UNCHANGED tables /\ Record
      /\ cut' \in {cut, cut \cup {req[r].id}} /\ req[r].id \in 0 .. MaxId
  BY DEF BreakOff, BaseInv, RTypeOK, Request
<1>2. TablesStay
  BY <1>1 DEF BaseInv, RTypeOK, TablesStay, TablesOK, NoneBeyond, tables
<1>3. copy[r] \in Row
  BY DEF BaseInv, RTypeOK
<1>4. QED
  BY <1>1, <1>2, <1>3, BaseProceeds, Leaves

LEMMA UseBase ==
  ASSUME BaseInv, NEW i \in Referable, Use(i)
  PROVE  BaseInv'
<1>1. /\ used' \in SUBSET Ids /\ Record
      /\ UNCHANGED <<repo, rows, links, next, pc, req, copy, left, cut>>
  BY RepositoriesAssumption DEF Use, BaseInv, RTypeOK, Ids
<1>2. QED
  BY <1>1, Recorded DEF BaseInv, RTypeOK, InMethod, Addressed, NoneBeyond, Has, Steps

-----------------------------------------------------------------------------
LEMMA InitBase == Init => BaseInv
<1> SUFFICES ASSUME Init PROVE BaseInv
  OBVIOUS
<1> DEFINE Empty == rows = [i \in Ids |-> NoRow] /\ next = 1
           Seeded(n) ==
             rows = [i \in Ids |-> IF i = 1 THEN [NoRow EXCEPT !.name = n, !.protected = TRUE]
                                   ELSE NoRow]
<1>1. ASSUME Empty
      PROVE  rows \in [Ids -> Row] /\ next \in 1 .. (MaxId + 1) /\ NoneBeyond
  BY <1>1, Nothing, RepositoriesAssumption DEF NoneBeyond
<1>2. ASSUME next = 2, MaxId > 0, NEW n \in Names, Seeded(n)
      PROVE  rows \in [Ids -> Row] /\ next \in 1 .. (MaxId + 1) /\ NoneBeyond
  <2>1. [NoRow EXCEPT !.name = n, !.protected = TRUE] \in Row
    BY Nothing DEF Row
  <2>2. rows \in [Ids -> Row] /\ NoneBeyond
    BY <1>2, <2>1, Nothing DEF NoneBeyond, Ids
  <2>3. QED
    BY <1>2, <2>2, RepositoriesAssumption
<1>3. rows \in [Ids -> Row] /\ next \in 1 .. (MaxId + 1) /\ NoneBeyond
  <2>1. Empty \/ (next = 2 /\ MaxId > 0 /\ \E n \in Names : Seeded(n))
    BY DEF Init
  <2> HIDE DEF Empty, Seeded
  <2>2. QED
    BY <1>1, <1>2, <2>1
<1>4. /\ pc = [r \in Requests |-> 0] /\ req = [r \in Requests |-> NoRequest]
      /\ copy = [r \in Requests |-> NoRow] /\ left = [r \in Requests |-> {}]
      /\ start = [r \in Requests |-> Untouched] /\ met = [r \in Requests |-> {}]
      /\ links = [i \in Ids |-> {}]
      /\ used = {} /\ cut = {} /\ calm = {} /\ repo \in DOMAIN Code
  BY DEF Init
<1>5. Untouched \in Tables
  BY Nothing DEF Untouched, Tables
<1>6. RTypeOK
  BY <1>3, <1>4, <1>5, Nothing DEF RTypeOK
<1>7. QED
  BY <1>3, <1>4, <1>6 DEF BaseInv, InMethod, Addressed

LEMMA StatementBase ==
  ASSUME BaseInv, NEW r \in Requests, Statement(r)
  PROVE  BaseInv'
BY CheckingBase, ReadBase, DrawBase, InsertBase, WritesBase, SweepBase, LinksBase,
   InsertLinkBase
DEF Statement, Checking, Ordinary

LEMMA StutterBase ==
  ASSUME BaseInv, UNCHANGED vars
  PROVE  BaseInv'
BY DEF BaseInv, RTypeOK, InMethod, Addressed, NoneBeyond, Has, Steps, vars, tables, history

LEMMA NextBase ==
  ASSUME BaseInv, [Next]_vars
  PROVE  BaseInv'
BY StatementBase, BeginBase, BreakOffBase, UseBase, StutterBase DEF Next

LEMMA RepoStays ==
  ASSUME BaseInv, [Next]_vars
  PROVE  repo' = repo
<1>1. ASSUME NEW r \in Requests, Statement(r) PROVE repo' = repo
  BY <1>1, CheckingBase, ReadBase, DrawBase, InsertBase, WritesBase, SweepBase, LinksBase
  DEF Statement, Checking, Ordinary, InsertLink
<1>2. QED
  BY <1>1, BeginBase, BreakOffBase DEF Next, Use, vars

THEOREM BaseInvariance == Spec => []BaseInv
BY InitBase, NextBase, PTL DEF Spec

(* The tables, what requests were called with and hold, and the history    *)
(* have their types, whoever overlaps with whom.                           *)
THEOREM RepositoriesTypeCorrect == Spec => []RTypeOK
<1>1. BaseInv => RTypeOK
  BY DEF BaseInv
<1>2. QED
  BY <1>1, BaseInvariance, PTL

-----------------------------------------------------------------------------
(***************************************************************************)
(* Versions.                                                               *)
(***************************************************************************)

(* What a copy and a request come to does not change as the call goes on.  *)
LEMMA MergedKept ==
  ASSUME BaseInv, NEW r \in Requests, NEW i \in 0 .. MaxId, Onward(r, i, copy[r])
  PROVE  Merged(r)' = Merged(r)
BY DEF Onward, Merged, Merge, BaseInv, RTypeOK, Request

LEMMA MergedElsewhere ==
  ASSUME NEW r \in Requests, Elsewhere(r), NEW x \in Requests \ {r}
  PROVE  Merged(x)' = Merged(x)
BY DEF Elsewhere, Merged

(* Past the check of its dates, a call holds ordered ones.                 *)
DatesPassed(r) ==
  \/ req[r].method = "create" /\ pc[r] > 1
  \/ req[r].method = "update" /\ pc[r] > 2
DatesChecked ==
  repo = "versions" => \A r \in Requests : DatesPassed(r) => Ordered(Merged(r))

DatesInv == BaseInv /\ DatesOrdered /\ DatesChecked

LEMMA VersionsPlan ==
  /\ DOMAIN Versions = {"create", "update", "delete"}
  /\ Versions["create"].steps = <<"CheckDates", "CheckName", "Insert">>
  /\ Versions["update"].steps = <<"Read", "CheckDates", "CheckName", "WriteRow">>
  /\ Versions["update"].gives = {"low", "high"}
  /\ Versions["delete"].steps = <<"CheckExists", "CheckUnused", "Delete">>
BY DEF Versions, M

LEMMA VersionsLast ==
  ASSUME repo = "versions"
  PROVE  /\ Len(Steps("create")) = 3 /\ Len(Steps("update")) = 4
         /\ Gives("update") = {"low", "high"}
<1>1. Code[repo] = Versions
  BY CodeOf
<1>2. QED
  BY <1>1, VersionsPlan DEF Steps, Gives

LEMMA VersionsAt ==
  ASSUME BaseInv, repo = "versions", NEW r \in Requests, NEW s, At(r, s)
  PROVE  /\ s \in {"CheckDates", "CheckName", "Insert", "Read", "WriteRow", "CheckExists",
                   "CheckUnused", "Delete"}
         /\ s = "CheckDates" => \/ req[r].method = "create" /\ pc[r] = 1
                                \/ req[r].method = "update" /\ pc[r] = 2
         /\ s = "CheckName" => DatesPassed(r)
         /\ s = "Insert" => req[r].method = "create" /\ pc[r] = 3
         /\ s = "Read" => req[r].method = "update" /\ pc[r] = 1
         /\ s = "WriteRow" => req[r].method = "update" /\ pc[r] = 4
         /\ s \in {"CheckExists", "CheckUnused", "Delete"} => req[r].method = "delete"
<1>1. /\ pc[r] > 0 /\ req[r].method \in DOMAIN Versions /\ pc[r] \in Int
      /\ pc[r] <= Len(Versions[req[r].method].steps)
      /\ Versions[req[r].method].steps[pc[r]] = s
  BY CodeOf DEF At, Steps, BaseInv, RTypeOK, InMethod
<1>2. CASE req[r].method = "create"
  <2>1. pc[r] \in 1 .. 3 /\ <<"CheckDates", "CheckName", "Insert">>[pc[r]] = s
    BY <1>1, <1>2, VersionsPlan
  <2>2. QED
    BY <1>2, <2>1 DEF DatesPassed
<1>3. CASE req[r].method = "update"
  <2>1. pc[r] \in 1 .. 4 /\ <<"Read", "CheckDates", "CheckName", "WriteRow">>[pc[r]] = s
    BY <1>1, <1>3, VersionsPlan
  <2>2. QED
    BY <1>3, <2>1 DEF DatesPassed
<1>4. CASE req[r].method = "delete"
  <2>1. pc[r] \in 1 .. 3 /\ <<"CheckExists", "CheckUnused", "Delete">>[pc[r]] = s
    BY <1>1, <1>4, VersionsPlan
  <2>2. QED
    BY <1>4, <2>1
<1>5. QED
  BY <1>1, <1>2, <1>3, <1>4, VersionsPlan

(* A request that stays as ordered as it was.                              *)
LEMMA DatesKept ==
  ASSUME DatesInv, repo = "versions", NEW r \in Requests, BaseInv', repo' = repo,
         \A x \in Requests \ {r} : /\ pc'[x] = pc[x] /\ req'[x] = req[x]
                                   /\ Merged(x)' = Merged(x),
         DatesPassed(r)' => Ordered(Merged(r)'),
         \A i \in Ids : rows'[i] = rows[i] \/ Ordered(rows'[i])
  PROVE  DatesInv'
BY DEF DatesInv, DatesOrdered, DatesChecked, DatesPassed, Ordered

LEMMA GoneNotPassed ==
  ASSUME NEW r \in Requests, Gone(r) PROVE ~DatesPassed(r)'
BY DEF Gone, DatesPassed, NoRequest

LEMMA VersionsStatement ==
  ASSUME DatesInv, repo = "versions", NEW r \in Requests, Statement(r)
  PROVE  DatesInv'
<1> USE DEF DatesInv
<1>1. CASE Checking(r)
  <2>1. Ordinary(r) /\ UNCHANGED rows
    BY <1>1, CheckingBase DEF tables
  <2>2. CASE Gone(r)
    BY <2>1, <2>2, GoneNotPassed, MergedElsewhere, DatesKept DEF Ordinary, Elsewhere
  <2>3. CASE Onward(r, req[r].id, copy[r]) /\ ~Gone(r)
    <3>1. Merged(r)' = Merged(r) /\ req'[r].method = req[r].method /\ pc'[r] = pc[r] + 1
      BY <2>3, MergedKept DEF Onward, BaseInv, RTypeOK, Request
    <3>2. CASE CheckDates(r)
      <4>1. Ordered(Merged(r))
        BY <2>3, <3>2 DEF CheckDates, Check, Leave, Gone, BaseInv, RTypeOK
      <4>2. QED
        BY <2>1, <3>1, <4>1, MergedElsewhere, DatesKept DEF Ordinary, Elsewhere, Ordered
    <3>3. CASE CheckName(r)
      <4>1. DatesPassed(r)
        BY <3>3, VersionsAt DEF CheckName, Check
      <4>2. QED
        BY <2>1, <3>1, <4>1, MergedElsewhere, DatesKept
        DEF Ordinary, Elsewhere, DatesChecked, Ordered
    <3>4. CASE CheckUnused(r) \/ CheckExists(r)
      <4>1. req[r].method = "delete"
        BY <3>4, VersionsAt DEF CheckUnused, CheckExists, Check
      <4>2. QED
        BY <2>1, <3>1, <4>1, MergedElsewhere, DatesKept DEF Ordinary, Elsewhere, DatesPassed
    <3>5. ~CheckProtected(r) /\ ~CheckLinks(r)
      BY VersionsAt DEF CheckProtected, CheckLinks, Check
    <3>6. QED
      BY <1>1, <3>2, <3>3, <3>4, <3>5 DEF Checking
  <2>4. QED
    BY <2>1, <2>2, <2>3 DEF Ordinary
<1>2. CASE Read(r)
  <2>1. /\ BaseInv' /\ Elsewhere(r) /\ repo' = repo /\ UNCHANGED rows
        /\ Gone(r) \/ Onward(r, req[r].id, rows[req[r].id])
    BY <1>2, ReadBase DEF tables
  <2>2. req[r].method = "update" /\ pc[r] = 1
    BY <1>2, VersionsAt DEF Read
  <2>3. ~DatesPassed(r)'
    BY <2>1, <2>2, GoneNotPassed DEF Onward, DatesPassed, BaseInv, RTypeOK, Request
  <2>4. QED
    BY <2>1, <2>3, MergedElsewhere, DatesKept DEF Elsewhere
<1>3. CASE Insert(r)
  <2>1. req[r].method = "create" /\ pc[r] = 3
    BY <1>3, VersionsAt DEF Insert
  <2>2. Ordered(Merged(r))
    BY <2>1 DEF DatesChecked, DatesPassed
  <2>3. pc[r] = Len(Steps(req[r].method))
    BY <2>1, VersionsLast
  <2>4. BaseInv' /\ Elsewhere(r) /\ Gone(r) /\ repo' = repo
    BY <1>3, <2>3, InsertBase DEF Onward
  <2>5. \A i \in Ids : rows'[i] \in {rows[i], Merged(r)}
    BY <1>3 DEF Insert, BaseInv, RTypeOK
  <2>6. QED
    BY <2>2, <2>4, <2>5, GoneNotPassed, MergedElsewhere, DatesKept DEF Elsewhere
<1>4. CASE WriteRow(r)
  <2>1. req[r].method = "update" /\ pc[r] = 4
    BY <1>4, VersionsAt DEF WriteRow
  <2>2. Ordered(Merged(r)) /\ Gives(req[r].method) = {"low", "high"}
    BY <2>1, VersionsLast DEF DatesChecked, DatesPassed
  <2>3. pc[r] = Len(Steps(req[r].method))
    BY <2>1, VersionsLast
  <2>4. BaseInv' /\ Elsewhere(r) /\ Gone(r) /\ repo' = repo
    BY <1>4, <2>3, WritesBase DEF Ordinary, Onward
  <2>5. \A i \in Ids : rows'[i] = rows[i] \/ (/\ rows'[i].low = Merged(r).low
                                             /\ rows'[i].high = Merged(r).high)
    BY <1>4, <2>2 DEF WriteRow, Write, BaseInv, RTypeOK
  <2>6. \A i \in Ids : rows'[i] = rows[i] \/ Ordered(rows'[i])
    BY <2>2, <2>5 DEF Ordered
  <2>7. QED
    BY <2>4, <2>6, GoneNotPassed, MergedElsewhere, DatesKept DEF Elsewhere
<1>5. CASE Delete(r)
  <2>1. Ordinary(r)
    BY <1>5, SweepBase
  <2>2. req[r].method = "delete"
    BY <1>5, VersionsAt DEF Delete
  <2>3. ~DatesPassed(r)'
    BY <2>1, <2>2, GoneNotPassed DEF Ordinary, Onward, DatesPassed, BaseInv, RTypeOK, Request
  <2>4. \A i \in Ids : rows'[i] = rows[i] \/ rows'[i].low = 0
    BY <1>5 DEF Delete, BaseInv, RTypeOK, NoRow
  <2>5. QED
    BY <2>1, <2>3, <2>4, MergedElsewhere, DatesKept DEF Ordinary, Elsewhere, Ordered
<1>6. /\ ~DrawPlace(r) /\ ~DrawVersion(r) /\ ~FirstVersion(r)
      /\ ~Update(r) /\ ~Increment(r) /\ ~ClearOthers(r) /\ ~ClearAll(r)
  BY VersionsAt, SentAt
<1>7. /\ ~DeleteNamed(r) /\ ~DeleteLinks(r) /\ ~RemoveLinks(r) /\ ~Star(r)
      /\ ~InsertLastLink(r) /\ \A l \in Links : ~InsertLink(r, l)
  BY VersionsAt, SentAt
<1>8. QED
  BY <1>1, <1>2, <1>3, <1>4, <1>5, <1>6, <1>7 DEF Statement, Checking

LEMMA DatesNext ==
  ASSUME DatesInv, [Next]_vars
  PROVE  DatesInv'
<1> USE DEF DatesInv
<1>1. BaseInv' /\ repo' = repo
  BY NextBase, RepoStays
<1>2. CASE repo # "versions"
  BY <1>1, <1>2 DEF DatesOrdered, DatesChecked
<1>3. CASE repo = "versions"
  <2>1. ASSUME NEW r \in Requests, Begin(r) PROVE DatesInv'
    <3>1. /\ UNCHANGED <<rows, copy>> /\ pc'[r] = 1
          /\ \A x \in Requests \ {r} : pc'[x] = pc[x] /\ req'[x] = req[x]
      BY <2>1, BeginBase DEF tables
    <3>2. ~DatesPassed(r)'
      BY <3>1 DEF DatesPassed
    <3>3. \A x \in Requests \ {r} : Merged(x)' = Merged(x)
      BY <3>1 DEF Merged
    <3>4. QED
      BY <1>1, <1>3, <3>1, <3>2, <3>3, DatesKept
  <2>2. ASSUME NEW r \in Requests, Statement(r) PROVE DatesInv'
    BY <1>3, <2>2, VersionsStatement
  <2>3. ASSUME NEW r \in Requests, BreakOff(r) PROVE DatesInv'
    <3>1. Elsewhere(r) /\ Gone(r) /\ UNCHANGED rows
      BY <2>3, BreakOffBase DEF tables
    <3>2. QED
      BY <1>1, <1>3, <3>1, GoneNotPassed, MergedElsewhere, DatesKept DEF Elsewhere
  <2>4. ASSUME UNCHANGED <<rows, pc, req, copy>> PROVE DatesInv'
    BY <1>1, <2>4 DEF DatesOrdered, DatesChecked, DatesPassed, Ordered, Merged
  <2>5. QED
    BY <2>1, <2>2, <2>3, <2>4 DEF Next, Use, vars, tables
<1>4. QED
  BY <1>2, <1>3

(* A stored version does not end before it starts: whoever updates it      *)
(* writes both dates, merged from one read and checked together.           *)
THEOREM DatesStayOrdered == Spec => []DatesOrdered
<1>1. Init => DatesInv
  <2> SUFFICES ASSUME Init PROVE DatesInv
    OBVIOUS
  <2>1. \A i \in Ids : repo = "versions" => rows[i].low = 0
    BY DEF Init, NoRow
  <2>2. \A r \in Requests : pc[r] = 0
    BY DEF Init
  <2>3. QED
    BY <2>1, <2>2, InitBase DEF DatesInv, DatesOrdered, DatesChecked, DatesPassed, Ordered
<1>2. DatesInv => DatesOrdered
  BY DEF DatesInv
<1>3. QED
  BY <1>1, <1>2, DatesNext, PTL DEF Spec

-----------------------------------------------------------------------------
(***************************************************************************)
(* Members.                                                                *)
(***************************************************************************)

(* Past the check of its links, a call has links to insert.                *)
LinksPassed(r) ==
  \/ req[r].method = "create" /\ pc[r] > 1
  \/ req[r].method = "update" /\ pc[r] > 2
Given(r) ==
  pc[r] > 0 /\ req[r].method \in {"create", "update"} =>
    IF LinksPassed(r) THEN left[r] # {} ELSE left[r] = req[r].links

(* A member is without a role only while a call that took the last one, or *)
(* inserted the member, has still to insert the roles or to delete it.     *)
Past(r) ==
  \/ req[r].method = "create" /\ pc[r] \in {4, 5}
  \/ req[r].method = "update" /\ pc[r] = 4
  \/ req[r].method = "delete" /\ pc[r] = 3
Lacking(i) == Stored(i) /\ links[i] = {}
Handled(i) == i \in cut \/ \E r \in Requests : req[r].id = i /\ Past(r)

MembersKnown ==
  repo = "members" => /\ \A r \in Requests : Given(r)
                      /\ \A i \in Ids : Lacking(i) => Handled(i)
MembersInv == BaseInv /\ MembersKnown

LEMMA MembersPlan ==
  /\ DOMAIN Members = {"create", "update", "delete"}
  /\ Members["create"].steps
       = <<"CheckLinks", "CheckName", "Insert", "DeleteLinks", "InsertLinks">>
  /\ Members["update"].steps = <<"CheckExists", "CheckLinks", "DeleteLinks", "InsertLinks">>
  /\ Members["delete"].steps = <<"CheckExists", "DeleteLinks", "Delete">>
BY DEF Members, M


LEMMA MembersLen ==
  ASSUME repo = "members", NEW r \in Requests
  PROVE  /\ req[r].method = "create" => Len(Steps(req[r].method)) = 5
         /\ req[r].method = "update" => Len(Steps(req[r].method)) = 4
         /\ req[r].method = "delete" => Len(Steps(req[r].method)) = 3
<1>1. /\ Steps("create") = Members["create"].steps /\ Steps("update") = Members["update"].steps
      /\ Steps("delete") = Members["delete"].steps
  BY CodeOf DEF Steps
<1>2. Len(Steps("create")) = 5 /\ Len(Steps("update")) = 4 /\ Len(Steps("delete")) = 3
  BY <1>1, MembersPlan
<1>3. QED
  BY <1>2

LEMMA MembersAt ==
  ASSUME BaseInv, repo = "members", NEW r \in Requests, NEW s, At(r, s)
  PROVE  /\ s \in {"CheckLinks", "CheckName", "Insert", "DeleteLinks", "InsertLinks",
                   "CheckExists", "Delete"}
         /\ s = "CheckLinks" => \/ req[r].method = "create" /\ pc[r] = 1
                                \/ req[r].method = "update" /\ pc[r] = 2
         /\ s = "CheckName" => req[r].method = "create" /\ pc[r] = 2
         /\ s = "Insert" => req[r].method = "create" /\ pc[r] = 3
         /\ s = "DeleteLinks" => \/ req[r].method = "create" /\ pc[r] = 4
                                 \/ req[r].method = "update" /\ pc[r] = 3
                                 \/ req[r].method = "delete" /\ pc[r] = 2
         /\ s = "InsertLinks" => \/ req[r].method = "create" /\ pc[r] = 5
                                 \/ req[r].method = "update" /\ pc[r] = 4
         /\ s = "CheckExists" => req[r].method \in {"update", "delete"} /\ pc[r] = 1
         /\ s = "Delete" => req[r].method = "delete" /\ pc[r] = 3
<1>1. /\ pc[r] > 0 /\ req[r].method \in DOMAIN Members /\ pc[r] \in Int
      /\ pc[r] <= Len(Members[req[r].method].steps)
      /\ Members[req[r].method].steps[pc[r]] = s
  BY CodeOf DEF At, Steps, BaseInv, RTypeOK, InMethod
<1>2. CASE req[r].method = "create"
  BY <1>1, <1>2, MembersPlan
<1>3. CASE req[r].method = "update"
  BY <1>1, <1>3, MembersPlan
<1>4. CASE req[r].method = "delete"
  BY <1>1, <1>4, MembersPlan
<1>5. QED
  BY <1>1, <1>2, <1>3, <1>4, MembersPlan

LEMMA PastAhead ==
  ASSUME repo = "members", NEW r \in Requests, Past(r)
  PROVE  /\ Ahead(r, "InsertLinks") \/ Ahead(r, "Delete")
         /\ req[r].id # 0 => HalfDone(r)
<1> USE CodeOf, MembersPlan
<1>1. CASE req[r].method = "create" /\ pc[r] \in {4, 5}
  <2>1. /\ 5 \in DOMAIN Steps(req[r].method) /\ Steps(req[r].method)[5] = "InsertLinks"
        /\ 3 \in DOMAIN Steps(req[r].method) /\ Steps(req[r].method)[3] = "Insert"
    BY <1>1 DEF Steps
  <2>2. QED
    BY <1>1, <2>1 DEF Ahead, HalfDone
<1>2. CASE req[r].method = "update" /\ pc[r] = 4
  <2>1. /\ 4 \in DOMAIN Steps(req[r].method) /\ Steps(req[r].method)[4] = "InsertLinks"
        /\ 3 \in DOMAIN Steps(req[r].method) /\ Steps(req[r].method)[3] = "DeleteLinks"
    BY <1>2 DEF Steps
  <2>2. QED
    BY <1>2, <2>1 DEF Ahead, HalfDone
<1>3. CASE req[r].method = "delete" /\ pc[r] = 3
  <2>1. /\ 3 \in DOMAIN Steps(req[r].method) /\ Steps(req[r].method)[3] = "Delete"
        /\ 2 \in DOMAIN Steps(req[r].method) /\ Steps(req[r].method)[2] = "DeleteLinks"
    BY <1>3 DEF Steps
  <2>2. QED
    BY <1>3, <2>1 DEF Ahead, HalfDone
<1>4. QED
  BY <1>1, <1>2, <1>3 DEF Past

(* A step of r keeps what the others answer for.                           *)
LEMMA MembersKept ==
  ASSUME MembersInv, repo = "members", NEW r \in Requests, BaseInv', repo' = repo,
         \A x \in Requests \ {r} : /\ pc'[x] = pc[x] /\ req'[x] = req[x]
                                   /\ left'[x] = left[x],
         Given(r)',
         \A i \in Ids : Lacking(i)' =>
           \/ req'[r].id = i /\ Past(r)'
           \/ /\ Lacking(i) /\ (i \in cut => i \in cut')
              /\ req[r].id = i /\ Past(r) => i \in cut'
  PROVE  MembersInv'
<1>1. \A x \in Requests : Given(x)'
  BY DEF MembersInv, MembersKnown, Given, LinksPassed
<1>2. ASSUME NEW i \in Ids, Lacking(i)'
      PROVE  Handled(i)'
  <2>1. CASE req'[r].id = i /\ Past(r)'
    BY <2>1 DEF Handled
  <2>2. CASE /\ Lacking(i) /\ (i \in cut => i \in cut')
             /\ req[r].id = i /\ Past(r) => i \in cut'
    <3>1. i \in cut \/ \E x \in Requests : req[x].id = i /\ Past(x)
      BY <2>2 DEF MembersInv, MembersKnown, Handled
    <3>2. CASE i \in cut
      BY <2>2, <3>2 DEF Handled
    <3>3. ASSUME NEW x \in Requests, req[x].id = i, Past(x)
          PROVE  Handled(i)'
      <4>1. CASE x = r
        BY <2>2, <3>3, <4>1 DEF Handled
      <4>2. CASE x # r
        BY <3>3, <4>2 DEF Handled, Past
      <4>3. QED
        BY <4>1, <4>2
    <3>4. QED
      BY <3>1, <3>2, <3>3
  <2>3. QED
    BY <1>2, <2>1, <2>2
<1>3. QED
  BY <1>1, <1>2 DEF MembersInv, MembersKnown

LEMMA GoneGiven ==
  ASSUME NEW r \in Requests, Gone(r) PROVE Given(r)' /\ ~Past(r)'
BY DEF Gone, Given, Past, NoRequest

(* A call that goes on keeps its method and its links.                     *)
LEMMA OnwardKeeps ==
  ASSUME BaseInv, NEW r \in Requests, NEW i \in 0 .. MaxId, NEW row, Onward(r, i, row)
  PROVE  /\ pc'[r] = pc[r] + 1 /\ pc[r] \in Int /\ left'[r] = left[r]
         /\ req'[r].method = req[r].method /\ req'[r].id = i
         /\ req'[r].links = req[r].links /\ req'[r].flag = req[r].flag
BY DEF Onward, BaseInv, RTypeOK, Request

LEMMA OnwardGiven ==
  ASSUME MembersInv, repo = "members", NEW r \in Requests, NEW i \in 0 .. MaxId, NEW row,
         Onward(r, i, row), pc[r] > 0, At(r, "CheckLinks") => req[r].links # {}
  PROVE  Given(r)'
<1>1. CASE At(r, "CheckLinks")
  BY <1>1, OnwardKeeps, MembersAt DEF MembersInv, MembersKnown, Given, LinksPassed
<1>2. CASE ~At(r, "CheckLinks")
  <2>1. LinksPassed(r)' => LinksPassed(r)
    BY <1>2, OnwardKeeps, CodeOf, MembersPlan
    DEF MembersInv, At, Steps, LinksPassed
  <2>2. QED
    BY <2>1, OnwardKeeps DEF MembersInv, MembersKnown, Given, LinksPassed
<1>3. QED
  BY <1>1, <1>2

LEMMA MembersStatement ==
  ASSUME MembersInv, repo = "members", NEW r \in Requests, Statement(r)
  PROVE  MembersInv'
<1>0. BaseInv /\ req[r].id \in 0 .. MaxId
  BY DEF MembersInv, BaseInv, RTypeOK, Request
<1>1. CASE Checking(r)
  <2>1. Ordinary(r) /\ UNCHANGED <<rows, links, cut>> /\ pc[r] > 0
    BY <1>0, <1>1, CheckingBase
    DEF tables, Checking, CheckName, CheckUnused, CheckExists, CheckProtected, CheckLinks,
        CheckDates, Check, At
  <2>2. ~Past(r)
    <3>1. At(r, "CheckLinks") \/ At(r, "CheckName") \/ At(r, "CheckExists")
      BY <1>0, <1>1, SentAt, MembersAt DEF Checking
    <3>2. QED
      BY <1>0, <3>1, MembersAt DEF Past
  <2>3. Given(r)'
    <3>1. CASE Gone(r)
      BY <3>1, GoneGiven
    <3>2. CASE Onward(r, req[r].id, copy[r]) /\ ~Gone(r)
      <4>1. At(r, "CheckLinks") => CheckLinks(r)
        BY <1>0, <1>1, MembersAt, SentAt DEF Checking
      <4>2. At(r, "CheckLinks") => req[r].links # {}
        BY <3>2, <4>1, <1>0 DEF CheckLinks, Check, Leave, Gone, BaseInv, RTypeOK
      <4>3. QED
        BY <1>0, <2>1, <3>2, <4>2, OnwardGiven
    <3>3. QED
      BY <2>1, <3>1, <3>2 DEF Ordinary
  <2>4. \A i \in Ids : Lacking(i)' <=> Lacking(i)
    BY <2>1 DEF Lacking, Stored
  <2>5. QED
    BY <2>1, <2>2, <2>3, <2>4, MembersKept DEF Ordinary, Elsewhere
<1>2. CASE Insert(r)
  <2>1. req[r].method = "create" /\ pc[r] = 3 /\ pc[r] # Len(Steps(req[r].method))
    <3>1. At(r, "Insert")
      BY <1>2, SentAt
    <3>2. req[r].method = "create" /\ pc[r] = 3
      BY <1>0, <3>1, MembersAt
    <3>3. Len(Steps(req[r].method)) = 5
      BY <1>0, <3>2, MembersLen
    <3>4. QED
      BY <3>2, <3>3
  <2>2. /\ BaseInv' /\ Elsewhere(r) /\ repo' = repo /\ next \in 0 .. MaxId
        /\ Gone(r) \/ Onward(r, next, copy[r])
    <3>1. next \in 0 .. MaxId
      BY <1>0, <1>2 DEF Insert, BaseInv, RTypeOK
    <3>2. QED
      BY <1>0, <1>2, <3>1, InsertBase
  <2>3. Onward(r, next, copy[r])
    BY <1>2, <2>1, <1>0 DEF Insert, Proceed, Onward, BaseInv, RTypeOK
  <2>4. req'[r].id = next /\ Past(r)' /\ ~Past(r)
    BY <1>0, <2>1, <2>2, <2>3, OnwardKeeps DEF Past
  <2>5. Given(r)'
    <3>1. ~At(r, "CheckLinks")
      BY <1>0, <2>1, MembersAt
    <3>2. QED
      BY <1>0, <2>1, <2>2, <2>3, <3>1, OnwardGiven
  <2>6. \A i \in Ids : i # next => (Lacking(i)' <=> Lacking(i)) /\ cut' = cut
    BY <1>0, <1>2 DEF Insert, Lacking, Stored, BaseInv, RTypeOK
  <2>7. QED
    BY <2>2, <2>4, <2>5, <2>6, MembersKept DEF Elsewhere
<1>3. CASE DeleteLinks(r)
  <2>1. /\ \/ req[r].method = "create" /\ pc[r] = 4
           \/ req[r].method = "update" /\ pc[r] = 3
           \/ req[r].method = "delete" /\ pc[r] = 2
        /\ ~Past(r) \/ req[r].method = "create"
        /\ ~At(r, "CheckLinks")
    <3>1. At(r, "DeleteLinks")
      BY <1>3, SentAt
    <3>2. ~At(r, "CheckLinks")
      BY <3>1 DEF At
    <3>3. QED
      BY <1>0, <3>1, <3>2, MembersAt DEF Past
  <2>2. pc[r] # Len(Steps(req[r].method))
    <3>1. CASE req[r].method = "create" /\ pc[r] = 4
      BY <3>1, MembersLen
    <3>2. CASE req[r].method = "update" /\ pc[r] = 3
      BY <3>2, MembersLen
    <3>3. CASE req[r].method = "delete" /\ pc[r] = 2
      BY <3>3, MembersLen
    <3>4. QED
      BY <2>1, <3>1, <3>2, <3>3
  <2>3. /\ Ordinary(r) /\ UNCHANGED <<rows, cut>>
        /\ links' = [links EXCEPT ![req[r].id] = {}]
    BY <1>0, <1>3, LinksBase DEF DeleteLinks
  <2>4. Onward(r, req[r].id, copy[r])
    BY <1>3, <2>2, <1>0 DEF DeleteLinks, Go, Proceed, Onward, BaseInv, RTypeOK
  <2>5. req'[r].id = req[r].id /\ Past(r)'
    BY <1>0, <2>1, <2>4, OnwardKeeps DEF Past
  <2>6. Given(r)'
    BY <1>0, <2>1, <2>4, OnwardGiven
  <2>7. \A i \in Ids : i # req[r].id => (Lacking(i)' <=> Lacking(i))
    BY <1>0, <2>3 DEF Lacking, Stored, BaseInv, RTypeOK
  <2>8. QED
    BY <2>3, <2>5, <2>6, <2>7, MembersKept DEF Ordinary, Elsewhere
<1>4. ASSUME NEW l \in Links, InsertLink(r, l)
      PROVE  MembersInv'
  <2>1. /\ UNCHANGED <<repo, rows, pc, req, cut>> /\ BaseInv'
        /\ left' = [left EXCEPT ![r] = @ \ {l}] /\ l \in left[r] /\ left[r] # {l}
        /\ links' = [links EXCEPT ![req[r].id] = @ \cup {l}]
    BY <1>0, <1>4, InsertLinkBase DEF InsertLink
  <2>2. /\ left'[r] # {} /\ \A x \in Requests \ {r} : left'[x] = left[x]
    BY <1>0, <2>1 DEF BaseInv, RTypeOK
  <2>3. LinksPassed(r)
    BY <1>0, <1>4, SentAt, MembersAt DEF LinksPassed
  <2>4. Given(r)'
    BY <2>1, <2>2, <2>3 DEF Given, LinksPassed
  <2>5. \A i \in Ids : Lacking(i)' => Lacking(i)
    BY <1>0, <2>1 DEF Lacking, Stored, BaseInv, RTypeOK
  <2>6. Past(r)' = Past(r)
    BY <2>1 DEF Past
  <2>7. \A i \in Ids : Lacking(i)' =>
           \/ req'[r].id = i /\ Past(r)'
           \/ /\ Lacking(i) /\ (i \in cut => i \in cut')
              /\ req[r].id = i /\ Past(r) => i \in cut'
    BY <2>1, <2>5, <2>6
  <2>8. QED
    BY <2>1, <2>2, <2>4, <2>7, MembersKept
<1>5. CASE InsertLastLink(r)
  <2>1. /\ req[r].method \in {"create", "update"} /\ LinksPassed(r)
        /\ pc[r] = Len(Steps(req[r].method))
    <3>1. At(r, "InsertLinks")
      BY <1>5, SentAt
    <3>2. \/ req[r].method = "create" /\ pc[r] = 5
          \/ req[r].method = "update" /\ pc[r] = 4
      BY <1>0, <3>1, MembersAt
    <3>3. CASE req[r].method = "create" /\ pc[r] = 5
      BY <3>3, MembersLen DEF LinksPassed
    <3>4. CASE req[r].method = "update" /\ pc[r] = 4
      BY <3>4, MembersLen DEF LinksPassed
    <3>5. QED
      BY <3>2, <3>3, <3>4
  <2>2. left[r] # {}
    <3>1. pc[r] > 0
      BY <1>5 DEF InsertLastLink, At
    <3>2. QED
      BY <2>1, <3>1 DEF MembersInv, MembersKnown, Given
  <2>3. /\ Ordinary(r) /\ UNCHANGED rows /\ cut' = cut \ {req[r].id}
        /\ links' = [links EXCEPT ![req[r].id] = @ \cup left[r]]
    BY <1>0, <1>5, <2>2, LinksBase DEF InsertLastLink
  <2>4. Gone(r)
    BY <2>1, <2>3 DEF Ordinary, Onward
  <2>5. \A i \in Ids : Lacking(i)' => Lacking(i) /\ i # req[r].id
    BY <1>0, <2>2, <2>3 DEF Lacking, Stored, BaseInv, RTypeOK
  <2>6. QED
    BY <2>3, <2>4, <2>5, GoneGiven, MembersKept DEF Ordinary, Elsewhere
<1>6. CASE Delete(r)
  <2>1. req[r].method = "delete" /\ pc[r] = Len(Steps(req[r].method))
    <3>1. At(r, "Delete")
      BY <1>6, SentAt
    <3>2. QED
      BY <1>0, <3>1, MembersAt, MembersLen
  <2>2. /\ Ordinary(r) /\ UNCHANGED <<links, cut>>
        /\ rows' = [rows EXCEPT ![req[r].id] = NoRow]
    BY <1>0, <1>6, SweepBase DEF Delete
  <2>3. Gone(r)
    BY <2>1, <2>2 DEF Ordinary, Onward
  <2>4. \A i \in Ids : Lacking(i)' => Lacking(i) /\ i # req[r].id
    BY <1>0, <2>2 DEF Lacking, Stored, BaseInv, RTypeOK, NoRow
  <2>5. QED
    BY <2>2, <2>3, <2>4, GoneGiven, MembersKept DEF Ordinary, Elsewhere
<1>7. /\ ~DrawPlace(r) /\ ~DrawVersion(r) /\ ~FirstVersion(r) /\ ~Read(r) /\ ~WriteRow(r)
      /\ ~Update(r) /\ ~Increment(r) /\ ~ClearOthers(r) /\ ~ClearAll(r)
      /\ ~DeleteNamed(r) /\ ~RemoveLinks(r) /\ ~Star(r)
  BY <1>0, MembersAt, SentAt
<1>8. QED
  BY <1>1, <1>2, <1>3, <1>4, <1>5, <1>6, <1>7 DEF Statement, Checking

LEMMA MembersNext ==
  ASSUME MembersInv, [Next]_vars
  PROVE  MembersInv'
<1>1. BaseInv /\ BaseInv' /\ repo' = repo
  BY NextBase, RepoStays DEF MembersInv
<1>2. CASE repo # "members"
  BY <1>1, <1>2 DEF MembersInv, MembersKnown
<1>3. CASE repo = "members"
  <2>1. ASSUME NEW r \in Requests, Begin(r) PROVE MembersInv'
    <3>1. /\ UNCHANGED <<rows, links, cut>> /\ pc[r] = 0 /\ pc'[r] = 1
          /\ \A x \in Requests \ {r} : pc'[x] = pc[x] /\ req'[x] = req[x] /\ left'[x] = left[x]
          /\ left'[r] = req'[r].links
      BY <1>1, <2>1, BeginBase DEF tables
    <3>2. Given(r)'
      BY <3>1 DEF Given, LinksPassed
    <3>3. ~Past(r)
      BY <3>1 DEF Past
    <3>4. \A i \in Ids : Lacking(i)' <=> Lacking(i)
      BY <3>1 DEF Lacking, Stored
    <3>5. QED
      BY <1>1, <1>3, <3>1, <3>2, <3>3, <3>4, MembersKept
  <2>2. ASSUME NEW r \in Requests, Statement(r) PROVE MembersInv'
    BY <1>3, <2>2, MembersStatement
  <2>3. ASSUME NEW r \in Requests, BreakOff(r) PROVE MembersInv'
    <3>1. Elsewhere(r) /\ Gone(r) /\ UNCHANGED <<rows, links>>
      BY <1>1, <2>3, BreakOffBase DEF tables
    <3>2. \A i \in Ids : /\ i \in cut => i \in cut'
                         /\ req[r].id = i /\ Past(r) => i \in cut'
      BY <1>3, <2>3, PastAhead DEF BreakOff, Ids
    <3>3. \A i \in Ids : Lacking(i)' <=> Lacking(i)
      BY <3>1 DEF Lacking, Stored
    <3>4. QED
      BY <1>1, <1>3, <3>1, <3>2, <3>3, GoneGiven, MembersKept DEF Elsewhere
  <2>4. ASSUME UNCHANGED <<rows, links, pc, req, left, cut>> PROVE MembersInv'
    <3>1. /\ \A x \in Requests : Given(x)' = Given(x)
          /\ \A i \in Ids : Lacking(i)' = Lacking(i) /\ Handled(i)' = Handled(i)
      BY <2>4 DEF Given, LinksPassed, Lacking, Stored, Handled, Past
    <3>2. QED
      BY <1>1, <3>1 DEF MembersInv, MembersKnown
  <2>5. QED
    BY <2>1, <2>2, <2>3, <2>4 DEF Next, Use, vars, tables, history
<1>4. QED
  BY <1>2, <1>3

(* A stored member without a role is in the hands of a call that is about  *)
(* to give it one or to delete it, or was dropped before it could          *)
(* (set_roles and delete in members.rs).                                   *)
THEOREM MembersHaveRoles == Spec => []MemberHasRole
<1>1. Init => MembersInv
  <2> SUFFICES ASSUME Init PROVE MembersInv
    OBVIOUS
  <2>1. repo = "members" => \A i \in Ids : ~Stored(i)
    BY DEF Init, Stored, NoRow
  <2>2. \A r \in Requests : pc[r] = 0
    BY DEF Init
  <2>3. QED
    BY <2>1, <2>2, InitBase DEF MembersInv, MembersKnown, Given, Lacking
<1>2. MembersInv => MemberHasRole
  BY PastAhead DEF MembersInv, MembersKnown, Lacking, Handled, MemberHasRole
<1>3. QED
  BY <1>1, <1>2, MembersNext, PTL DEF Spec

-----------------------------------------------------------------------------
(***************************************************************************)
(* Statuses and priorities.                                                *)
(***************************************************************************)
OneFlag == repo \in {"statuses", "priorities"}

(* Two rows are default only while one of them waits for the others to be  *)
(* cleared, or will wait for ever.                                         *)
Clearing(r) == pc[r] = 3 /\ req[r].method \in {"create", "update"} /\ req[r].flag = TRUE
Rivals(i, j) == i # j /\ rows[i].flag /\ rows[j].flag
Excused(i, j) ==
  i \in cut \/ j \in cut \/ \E r \in Requests : Clearing(r) /\ req[r].id \in {i, j}
CreatesKnown(r) == pc[r] > 0 /\ req[r].method = "create" => req[r].flag \in BOOLEAN

FlagsKnown ==
  OneFlag => /\ \A r \in Requests : CreatesKnown(r)
             /\ \A i, j \in Ids : Rivals(i, j) => Excused(i, j)
FlagsInv == BaseInv /\ FlagsKnown

LEMMA FlagsPlan ==
  ASSUME OneFlag
  PROVE  /\ Code[repo] = Statuses
         /\ DOMAIN Statuses = {"create", "update", "delete"}
         /\ Statuses["create"].steps = <<"CheckName", "Insert", "ClearOthers">>
         /\ Statuses["create"].gives = {"name", "flag"}
         /\ Statuses["update"].steps = <<"CheckName", "Update", "ClearOthers">>
         /\ Statuses["delete"].steps = <<"CheckUnused", "Delete">>
<1>1. Priorities = Statuses
  BY DEF Priorities, Statuses
<1>2. Code[repo] = Statuses
  BY <1>1, CodeOf DEF OneFlag
<1>3. QED
  BY <1>2 DEF Statuses, M

LEMMA FlagsLen ==
  ASSUME OneFlag, NEW r \in Requests
  PROVE  /\ req[r].method = "create" => Len(Steps(req[r].method)) = 3
         /\ req[r].method = "update" => Len(Steps(req[r].method)) = 3
         /\ req[r].method = "delete" => Len(Steps(req[r].method)) = 2
<1>1. /\ Steps("create") = Statuses["create"].steps
      /\ Steps("update") = Statuses["update"].steps
      /\ Steps("delete") = Statuses["delete"].steps
  BY FlagsPlan DEF Steps
<1>2. Len(Steps("create")) = 3 /\ Len(Steps("update")) = 3 /\ Len(Steps("delete")) = 2
  BY <1>1, FlagsPlan
<1>3. QED
  BY <1>2

LEMMA FlagsAt ==
  ASSUME BaseInv, OneFlag, NEW r \in Requests, NEW s, At(r, s)
  PROVE  /\ s \in {"CheckName", "Insert", "Update", "ClearOthers", "CheckUnused", "Delete"}
         /\ s = "CheckName" => pc[r] = 1
         /\ s = "Insert" => req[r].method = "create" /\ pc[r] = 2
         /\ s = "Update" => req[r].method = "update" /\ pc[r] = 2
         /\ s = "ClearOthers" => req[r].method \in {"create", "update"} /\ pc[r] = 3
         /\ s \in {"CheckUnused", "Delete"} => req[r].method = "delete"
<1>1. /\ pc[r] > 0 /\ req[r].method \in DOMAIN Statuses /\ pc[r] \in Int
      /\ pc[r] <= Len(Statuses[req[r].method].steps)
      /\ Statuses[req[r].method].steps[pc[r]] = s
  BY FlagsPlan DEF At, Steps, BaseInv, RTypeOK, InMethod
<1>2. CASE req[r].method = "create"
  BY <1>1, <1>2, FlagsPlan
<1>3. CASE req[r].method = "update"
  BY <1>1, <1>3, FlagsPlan
<1>4. CASE req[r].method = "delete"
  BY <1>1, <1>4, FlagsPlan
<1>5. QED
  BY <1>1, <1>2, <1>3, <1>4, FlagsPlan

LEMMA ClearingAhead ==
  ASSUME OneFlag, NEW r \in Requests, Clearing(r)
  PROVE  Ahead(r, "ClearOthers") /\ (req[r].id # 0 => HalfDone(r))
<1>1. /\ Steps("create") = Statuses["create"].steps
      /\ Steps("update") = Statuses["update"].steps
  BY FlagsPlan DEF Steps
<1>2. CASE req[r].method = "create"
  <2>1. /\ 3 \in DOMAIN Steps(req[r].method) /\ Steps(req[r].method)[3] = "ClearOthers"
        /\ 2 \in DOMAIN Steps(req[r].method) /\ Steps(req[r].method)[2] = "Insert"
    BY <1>1, <1>2, FlagsPlan
  <2>2. QED
    BY <2>1 DEF Ahead, HalfDone, Clearing
<1>3. CASE req[r].method = "update"
  <2>1. /\ 3 \in DOMAIN Steps(req[r].method) /\ Steps(req[r].method)[3] = "ClearOthers"
        /\ 2 \in DOMAIN Steps(req[r].method) /\ Steps(req[r].method)[2] = "Update"
    BY <1>1, <1>3, FlagsPlan
  <2>2. QED
    BY <2>1 DEF Ahead, HalfDone, Clearing
<1>4. QED
  BY <1>2, <1>3 DEF Clearing

LEMMA FlagsKept ==
  ASSUME FlagsInv, OneFlag, NEW r \in Requests, BaseInv', repo' = repo,
         \A x \in Requests \ {r} : pc'[x] = pc[x] /\ req'[x] = req[x],
         CreatesKnown(r)',
         \A i, j \in Ids : Rivals(i, j)' =>
           \/ Clearing(r)' /\ req'[r].id \in {i, j}
           \/ /\ Rivals(i, j) /\ cut \subseteq cut'
              /\ Clearing(r) /\ req[r].id \in {i, j} => req[r].id \in cut'
  PROVE  FlagsInv'
<1>1. \A x \in Requests : CreatesKnown(x)'
  BY DEF FlagsInv, FlagsKnown, CreatesKnown
<1>2. ASSUME NEW i \in Ids, NEW j \in Ids, Rivals(i, j)'
      PROVE  Excused(i, j)'
  <2>1. CASE Clearing(r)' /\ req'[r].id \in {i, j}
    BY <2>1 DEF Excused
  <2>2. CASE /\ Rivals(i, j) /\ cut \subseteq cut'
             /\ Clearing(r) /\ req[r].id \in {i, j} => req[r].id \in cut'
    <3>1. i \in cut \/ j \in cut \/ \E x \in Requests : Clearing(x) /\ req[x].id \in {i, j}
      BY <2>2 DEF FlagsInv, FlagsKnown, Excused
    <3>2. CASE i \in cut \/ j \in cut
      BY <2>2, <3>2 DEF Excused
    <3>3. ASSUME NEW x \in Requests, Clearing(x), req[x].id \in {i, j}
          PROVE  Excused(i, j)'
      <4>1. CASE x = r
        BY <2>2, <3>3, <4>1 DEF Excused
      <4>2. CASE x # r
        BY <3>3, <4>2 DEF Excused, Clearing
      <4>3. QED
        BY <4>1, <4>2
    <3>4. QED
      BY <3>1, <3>2, <3>3
  <2>3. QED
    BY <1>2, <2>1, <2>2
<1>3. QED
  BY <1>1, <1>2 DEF FlagsInv, FlagsKnown, OneFlag

LEMMA GoneKnown ==
  ASSUME NEW r \in Requests, Gone(r) PROVE CreatesKnown(r)' /\ ~Clearing(r)'
BY DEF Gone, CreatesKnown, Clearing, NoRequest

LEMMA FlagsStatement ==
  ASSUME FlagsInv, OneFlag, NEW r \in Requests, Statement(r)
  PROVE  FlagsInv'
<1>0. BaseInv /\ req[r].id \in 0 .. MaxId /\ CreatesKnown(r)
  BY DEF FlagsInv, FlagsKnown, BaseInv, RTypeOK, Request
<1>1. ASSUME NEW i \in 0 .. MaxId, NEW row, Onward(r, i, row), pc[r] > 0
      PROVE  CreatesKnown(r)'
  BY <1>0, <1>1, OnwardKeeps DEF CreatesKnown
<1>2. CASE Checking(r) \/ Delete(r)
  <2>1. Ordinary(r) /\ cut' = cut /\ pc[r] > 0
    BY <1>0, <1>2, CheckingBase, SweepBase
    DEF Checking, CheckName, CheckUnused, CheckExists, CheckProtected, CheckLinks,
        CheckDates, Check, At, Delete
  <2>2. ~Clearing(r)
    <3>1. At(r, "CheckName") \/ At(r, "CheckUnused") \/ At(r, "Delete")
      BY <1>0, <1>2, SentAt, FlagsAt DEF Checking
    <3>2. QED
      BY <1>0, <3>1, FlagsAt DEF Clearing
  <2>3. CreatesKnown(r)'
    BY <1>0, <1>1, <2>1, GoneKnown DEF Ordinary
  <2>4. \A i \in Ids : rows'[i] = rows[i] \/ ~rows'[i].flag
    BY <1>0, <1>2, CheckingBase DEF Delete, tables, BaseInv, RTypeOK, NoRow
  <2>5. \A i, j \in Ids : Rivals(i, j)' => Rivals(i, j)
    BY <2>4 DEF Rivals
  <2>6. QED
    BY <2>1, <2>2, <2>3, <2>5, FlagsKept DEF Ordinary, Elsewhere
<1>3. CASE Insert(r)
  <2>1. req[r].method = "create" /\ pc[r] = 2
    BY <1>0, <1>3, SentAt, FlagsAt
  <2>2. pc[r] # Len(Steps(req[r].method))
    BY <2>1, FlagsLen
  <2>3. next \in 0 .. MaxId
    BY <1>0, <1>3 DEF Insert, BaseInv, RTypeOK
  <2>4. /\ BaseInv' /\ Elsewhere(r) /\ repo' = repo /\ cut' = cut
        /\ Onward(r, next, copy[r])
    BY <1>0, <1>3, <2>2, InsertBase
    DEF Insert, Proceed, Onward, BaseInv, RTypeOK
  <2>5. CreatesKnown(r)' /\ req'[r].id = next /\ (req[r].flag = TRUE => Clearing(r)')
    BY <1>0, <1>1, <2>1, <2>3, <2>4, OnwardKeeps DEF Clearing
  <2>6. rows' = [rows EXCEPT ![next] = Merged(r)] /\ Merged(r).flag = req[r].flag
    <3>1. req[r].flag # None
      BY <1>0, <2>1, RepositoriesAssumption DEF CreatesKnown
    <3>2. QED
      BY <1>0, <1>3, <3>1, MergeTyped DEF Insert, Merged, BaseInv, RTypeOK
  <2>7. ~Clearing(r)
    BY <2>1 DEF Clearing
  <2>8. ASSUME NEW i \in Ids, NEW j \in Ids, Rivals(i, j)'
        PROVE  Rivals(i, j) \/ (req[r].flag = TRUE /\ next \in {i, j})
    <3>1. \A k \in Ids : k # next => rows'[k] = rows[k]
      BY <1>0, <2>6 DEF BaseInv, RTypeOK
    <3>2. next \in Ids => rows'[next].flag = req[r].flag
      BY <1>0, <2>6 DEF BaseInv, RTypeOK
    <3>3. CASE next \in {i, j}
      BY <1>0, <2>1, <2>8, <3>2, <3>3 DEF Rivals, CreatesKnown
    <3>4. CASE next \notin {i, j}
      BY <2>8, <3>1, <3>4 DEF Rivals
    <3>5. QED
      BY <3>3, <3>4
  <2>9. QED
    BY <2>4, <2>5, <2>7, <2>8, FlagsKept DEF Elsewhere
<1>4. CASE Update(r)
  <2>1. req[r].method = "update" /\ pc[r] = 2
    BY <1>0, <1>4, SentAt, FlagsAt
  <2>2. pc[r] # Len(Steps(req[r].method)) /\ ~Clearing(r)
    BY <2>1, FlagsLen DEF Clearing
  <2>3. Ordinary(r) /\ cut' = cut
    BY <1>0, <1>4, WritesBase DEF Update, Write
  <2>4. CreatesKnown(r)'
    BY <1>0, <1>1, <2>1, <2>3, GoneKnown DEF Ordinary
  <2>5. CASE Stored(req[r].id)
    <3>1. /\ rows' = [rows EXCEPT ![req[r].id] = Merge(rows[req[r].id], req[r])]
          /\ Onward(r, req[r].id, copy[r])
      BY <1>0, <1>4, <2>2, <2>5
      DEF Update, Write, Go, Proceed, Onward, BaseInv, RTypeOK
    <3>2. req'[r].id = req[r].id /\ (req[r].flag = TRUE => Clearing(r)')
      BY <1>0, <2>1, <3>1, OnwardKeeps DEF Clearing
    <3>3. ASSUME req[r].flag # TRUE, NEW i \in Ids, rows'[i].flag
          PROVE  rows[i].flag
      <4>1. CASE i # req[r].id
        BY <1>0, <3>1, <3>3, <4>1 DEF BaseInv, RTypeOK
      <4>2. CASE i = req[r].id
        <5>1. rows'[i] = Merge(rows[i], req[r]) /\ rows[i] \in Row /\ req[r] \in Request
          BY <1>0, <3>1, <4>2 DEF BaseInv, RTypeOK
        <5>2. rows'[i].flag = IF req[r].flag = None THEN rows[i].flag ELSE req[r].flag
          BY <5>1, MergeTyped
        <5>3. req[r].flag = None \/ req[r].flag = FALSE
          BY <3>3, <5>1 DEF Request
        <5>4. QED
          BY <3>3, <5>2, <5>3
      <4>3. QED
        BY <4>1, <4>2
    <3>4. \A i \in Ids : i # req[r].id => rows'[i] = rows[i]
      BY <1>0, <3>1 DEF BaseInv, RTypeOK
    <3>5. \A i, j \in Ids : Rivals(i, j)' =>
            Rivals(i, j) \/ (req[r].flag = TRUE /\ req[r].id \in {i, j})
      BY <3>3, <3>4 DEF Rivals
    <3>6. QED
      BY <2>2, <2>3, <2>4, <3>2, <3>5, FlagsKept DEF Ordinary, Elsewhere
  <2>6. CASE ~Stored(req[r].id)
    <3>1. rows' = rows
      BY <1>4, <2>6 DEF Update, Write
    <3>2. QED
      BY <2>2, <2>3, <2>4, <3>1, FlagsKept DEF Ordinary, Elsewhere, Rivals
  <2>7. QED
    BY <2>5, <2>6
<1>5. CASE ClearOthers(r)
  <2>1. req[r].method \in {"create", "update"} /\ pc[r] = 3
    BY <1>0, <1>5, SentAt, FlagsAt
  <2>2. Ordinary(r) /\ pc[r] = Len(Steps(req[r].method))
    BY <1>0, <1>5, <2>1, FlagsLen, SweepBase
  <2>3. Gone(r)
    BY <2>2 DEF Ordinary, Onward
  <2>4. CASE req[r].flag = TRUE
    <3>1. ASSUME NEW i \in Ids, i # req[r].id
          PROVE  ~rows'[i].flag
      <4>1. rows'[i] = [rows[i] EXCEPT !.flag = FALSE] /\ rows[i] \in Row
        BY <1>0, <1>5, <2>4, <3>1 DEF ClearOthers, BaseInv, RTypeOK
      <4>2. rows'[i].flag = FALSE
        BY <4>1, LoweredFlag
      <4>3. QED
        BY <4>2
    <3>2. \A i, j \in Ids : ~Rivals(i, j)'
      BY <3>1 DEF Rivals
    <3>3. QED
      BY <2>2, <2>3, <3>2, GoneKnown, FlagsKept DEF Ordinary, Elsewhere
  <2>5. CASE req[r].flag # TRUE
    <3>1. UNCHANGED <<rows, cut>> /\ ~Clearing(r)
      BY <1>5, <2>5 DEF ClearOthers, Clearing
    <3>2. QED
      BY <2>2, <2>3, <3>1, GoneKnown, FlagsKept DEF Ordinary, Elsewhere, Rivals
  <2>6. QED
    BY <2>4, <2>5
<1>6. /\ ~DrawPlace(r) /\ ~DrawVersion(r) /\ ~FirstVersion(r) /\ ~Read(r) /\ ~WriteRow(r)
      /\ ~Increment(r) /\ ~ClearAll(r)
      /\ ~DeleteNamed(r) /\ ~DeleteLinks(r) /\ ~RemoveLinks(r) /\ ~Star(r)
      /\ ~InsertLastLink(r) /\ \A l \in Links : ~InsertLink(r, l)
  BY <1>0, FlagsAt, SentAt
<1>7. QED
  BY <1>2, <1>3, <1>4, <1>5, <1>6 DEF Statement, Checking

LEMMA FlagsNext ==
  ASSUME FlagsInv, [Next]_vars
  PROVE  FlagsInv'
<1>1. BaseInv /\ BaseInv' /\ repo' = repo
  BY NextBase, RepoStays DEF FlagsInv
<1>2. CASE ~OneFlag
  BY <1>1, <1>2 DEF FlagsInv, FlagsKnown, OneFlag
<1>3. CASE OneFlag
  <2>1. ASSUME NEW r \in Requests, Begin(r) PROVE FlagsInv'
    <3>1. /\ UNCHANGED <<rows, cut>> /\ pc[r] = 0
          /\ \A x \in Requests \ {r} : pc'[x] = pc[x] /\ req'[x] = req[x]
          /\ \E m \in DOMAIN Code[repo] : req'[r] \in Calls(m)
      BY <1>1, <2>1, BeginBase DEF tables
    <3>2. ByName("create") /\ "flag" \in Gives("create")
      BY <1>3, FlagsPlan DEF ByName, Has, Steps, Gives
    <3>3. CreatesKnown(r)'
      BY <3>1, <3>2 DEF CreatesKnown, Calls
    <3>4. ~Clearing(r)
      BY <3>1 DEF Clearing
    <3>5. \A i, j \in Ids : Rivals(i, j)' <=> Rivals(i, j)
      BY <3>1 DEF Rivals
    <3>6. QED
      BY <1>1, <1>3, <3>1, <3>3, <3>4, <3>5, FlagsKept
  <2>2. ASSUME NEW r \in Requests, Statement(r) PROVE FlagsInv'
    BY <1>3, <2>2, FlagsStatement
  <2>3. ASSUME NEW r \in Requests, BreakOff(r) PROVE FlagsInv'
    <3>1. Elsewhere(r) /\ Gone(r) /\ UNCHANGED rows
      BY <1>1, <2>3, BreakOffBase DEF tables
    <3>2. \A i, j \in Ids :
            cut \subseteq cut' /\ (Clearing(r) /\ req[r].id \in {i, j} => req[r].id \in cut')
      BY <1>3, <2>3, ClearingAhead DEF BreakOff, Ids
    <3>3. \A i, j \in Ids : Rivals(i, j)' <=> Rivals(i, j)
      BY <3>1 DEF Rivals
    <3>4. QED
      BY <1>1, <1>3, <3>1, <3>2, <3>3, GoneKnown, FlagsKept DEF Elsewhere
  <2>4. ASSUME UNCHANGED <<rows, pc, req, cut>> PROVE FlagsInv'
    <3>1. /\ \A x \in Requests : CreatesKnown(x)' = CreatesKnown(x)
          /\ \A i, j \in Ids : Rivals(i, j)' = Rivals(i, j) /\ Excused(i, j)' = Excused(i, j)
      BY <2>4 DEF CreatesKnown, Rivals, Excused, Clearing
    <3>2. QED
      BY <1>1, <3>1 DEF FlagsInv, FlagsKnown, OneFlag
  <2>5. QED
    BY <2>1, <2>2, <2>3, <2>4 DEF Next, Use, vars, tables, history
<1>4. QED
  BY <1>2, <1>3

(* Two rows are default at once only while the call that made one of them  *)
(* default has still to clear the others, or after it was dropped before   *)
(* it did (create and update in statuses.rs and priorities.rs).            *)
THEOREM DefaultIsUnique == Spec => []OneDefault
<1>1. Init => FlagsInv
  <2> SUFFICES ASSUME Init PROVE FlagsInv
    OBVIOUS
  <2>1. OneFlag => \A i \in Ids : rows[i].flag = FALSE
    <3>1. OneFlag => rows = [i \in Ids |-> NoRow]
      BY DEF Init, OneFlag
    <3>2. QED
      BY <3>1 DEF NoRow
  <2>2. \A r \in Requests : pc[r] = 0
    BY DEF Init
  <2>3. QED
    BY <2>1, <2>2, InitBase DEF FlagsInv, FlagsKnown, CreatesKnown, Rivals
<1>2. FlagsInv => OneDefault
  <2> SUFFICES ASSUME FlagsInv, OneFlag, NEW i \in Ids, NEW j \in Ids, Rivals(i, j)
               PROVE  i \in cut \/ j \in cut \/ \E r \in Requests : Pending(r, i) \/ Pending(r, j)
    BY DEF OneDefault, OneFlag, Rivals
  <2>1. Excused(i, j)
    BY DEF FlagsInv, FlagsKnown
  <2>2. \A r \in Requests : Clearing(r) => Ahead(r, "ClearOthers") /\ req[r].flag = TRUE
    BY ClearingAhead DEF Clearing
  <2>3. QED
    BY <2>1, <2>2 DEF Excused, Pending
<1>3. QED
  BY <1>1, <1>2, FlagsNext, PTL DEF Spec

-----------------------------------------------------------------------------
(***************************************************************************)
(* Columns.                                                                *)
(***************************************************************************)

(* What an update of one statement is to say of a row that stays.          *)
Asked(i) ==
  /\ rows'[i].name # rows[i].name => Asks(i, "name", rows'[i].name)
  /\ rows'[i].flag /\ ~rows[i].flag => Asks(i, "flag", TRUE)
  /\ rows'[i].high # rows[i].high => Asks(i, "high", rows'[i].high)

Spares(methods, statements) ==
  \A m \in DOMAIN methods : \A k \in DOMAIN methods[m].steps :
    methods[m].steps[k] \notin statements
Sweeping == {"WriteRow", "ClearAll", "Increment", "DeleteNamed"}

LEMMA OneStatementSpares ==
  ASSUME repo \in OneStatement
  PROVE  Spares(Code[repo], Sweeping)
<1>1. Spares(Statuses, Sweeping)
  BY DEF Spares, Sweeping, Statuses, M
<1>2. Spares(Priorities, Sweeping)
  BY DEF Spares, Sweeping, Priorities, M
<1>3. Spares(Types, Sweeping)
  BY DEF Spares, Sweeping, Types, M
<1>4. Spares(Roles, Sweeping)
  BY DEF Spares, Sweeping, Roles, M
<1>5. Spares(Projects, Sweeping)
  BY DEF Spares, Sweeping, Projects, M
<1>6. Spares(Users, Sweeping)
  BY DEF Spares, Sweeping, Users, M
<1>7. Spares(TimeEntries, Sweeping)
  BY DEF Spares, Sweeping, TimeEntries, M
<1>8. QED
  BY <1>1, <1>2, <1>3, <1>4, <1>5, <1>6, <1>7, CodeOf DEF OneStatement

LEMMA AttachmentsSpare ==
  /\ Spares(AttachmentRows, {"ClearAll", "ClearOthers", "Update", "DeleteNamed"})
  /\ \A m \in DOMAIN AttachmentRows : "low" \notin AttachmentRows[m].gives
BY DEF Spares, AttachmentRows, M

LEMMA NotSent ==
  ASSUME BaseInv, NEW r \in Requests, NEW S, NEW s \in S, Spares(Code[repo], S)
  PROVE  ~At(r, s)
BY DEF Spares, At, Steps, BaseInv, RTypeOK, InMethod

(* Of the rows that stay, an insert changes none.                          *)
LEMMA InsertSpares ==
  ASSUME BaseInv, NEW r \in Requests, Insert(r), NEW i \in Ids, Stored(i)
  PROVE  rows'[i] = rows[i]
<1>1. i # next
  BY DEF BaseInv, NoneBeyond, RTypeOK, Stored, NoRow
<1>2. QED
  BY <1>1 DEF Insert, BaseInv, RTypeOK

LEMMA WriteSpares ==
  ASSUME BaseInv, NEW r \in Requests, NEW row, Write(r, row), NEW i \in Ids
  PROVE  rows'[i] = rows[i] \/ (i = req[r].id /\ rows'[i] = row)
BY DEF Write, BaseInv, RTypeOK

(* Which statements leave the rows alone.                                  *)
Writing(r) == \/ Insert(r) \/ Update(r) \/ WriteRow(r) \/ Increment(r)
              \/ ClearOthers(r) \/ ClearAll(r) \/ Delete(r) \/ DeleteNamed(r)

LEMMA RowsStay ==
  ASSUME BaseInv, [Next]_vars, \A r \in Requests : ~Writing(r)
  PROVE  rows' = rows
<1>1. ASSUME NEW r \in Requests, Statement(r)
      PROVE  rows' = rows
  <2>1. CASE Checking(r)
    BY <2>1, CheckingBase DEF tables
  <2>2. CASE Read(r)
    BY <2>2, ReadBase DEF tables
  <2>3. CASE DrawPlace(r) \/ DrawVersion(r) \/ FirstVersion(r)
    BY <2>3, DrawBase DEF tables
  <2>4. CASE \/ DeleteLinks(r) \/ RemoveLinks(r) \/ Star(r)
             \/ InsertLastLink(r) \/ \E l \in Links : InsertLink(r, l)
    BY <2>4 DEF DeleteLinks, RemoveLinks, Star, InsertLastLink, InsertLink
  <2>5. QED
    BY <1>1, <2>1, <2>2, <2>3, <2>4 DEF Statement, Checking, Writing
<1>2. QED
  BY <1>1, BeginBase, BreakOffBase DEF Next, Use, vars, tables

LEMMA ColumnsAsked ==
  ASSUME BaseInv, [Next]_vars, repo \in OneStatement, NEW i \in Ids, Stored(i), Stored(i)'
  PROVE  Asked(i)
<1>1. rows[i] \in Row
  BY DEF BaseInv, RTypeOK
<1>2. CASE rows'[i] = rows[i]
  BY <1>2 DEF Asked
<1>3. ASSUME NEW r \in Requests, Update(r) PROVE Asked(i)
  <2> DEFINE row == Merge(rows[i], req[r])
  <2>1. CASE i = req[r].id /\ rows'[i] = row
    <3>1. req[r] \in Request
      BY DEF BaseInv, RTypeOK
    <3>2. /\ row.name = (IF req[r].name = None THEN rows[i].name ELSE req[r].name)
          /\ row.flag = (IF req[r].flag = None THEN rows[i].flag ELSE req[r].flag)
          /\ row.high = (IF req[r].high = 0 THEN rows[i].high ELSE req[r].high)
      BY <1>1, <3>1, MergeTyped
    <3>3. rows'[i].name # rows[i].name => req[r].name = rows'[i].name
      BY <2>1, <3>2
    <3>4. rows'[i].high # rows[i].high => req[r].high = rows'[i].high
      BY <2>1, <3>2
    <3>5. rows'[i].flag /\ ~rows[i].flag => req[r].flag = TRUE
      BY <2>1, <3>1, <3>2 DEF Request
    <3>6. QED
      BY <2>1, <3>3, <3>4, <3>5 DEF Asked, Asks
  <2>2. CASE rows'[i] = rows[i]
    BY <1>2, <2>2
  <2>3. QED
    BY <1>3, <2>1, <2>2, WriteSpares DEF Update
<1>4. ASSUME NEW r \in Requests, ClearOthers(r) PROVE Asked(i)
  <2>1. rows'[i] = rows[i] \/ rows'[i] = [rows[i] EXCEPT !.flag = FALSE]
    BY <1>4 DEF ClearOthers, BaseInv, RTypeOK
  <2>2. /\ rows'[i].name = rows[i].name /\ rows'[i].high = rows[i].high
        /\ rows'[i].flag = rows[i].flag \/ rows'[i].flag = FALSE
    BY <1>1, <2>1, LoweredFlag
  <2>3. QED
    BY <2>2 DEF Asked
<1>5. ASSUME NEW r \in Requests, Delete(r) PROVE Asked(i)
  <2>1. rows'[i] = rows[i] \/ rows'[i] = NoRow
    BY <1>5 DEF Delete, BaseInv, RTypeOK
  <2>2. QED
    BY <1>2, <2>1 DEF Stored, NoRow
<1>6. ASSUME NEW r \in Requests, Insert(r) PROVE Asked(i)
  BY <1>2, <1>6, InsertSpares
<1>7. ASSUME NEW r \in Requests
      PROVE  ~WriteRow(r) /\ ~Increment(r) /\ ~ClearAll(r) /\ ~DeleteNamed(r)
  <2>1. Spares(Code[repo], Sweeping)
    BY OneStatementSpares
  <2>2. ~At(r, "WriteRow") /\ ~At(r, "Increment") /\ ~At(r, "ClearAll") /\ ~At(r, "DeleteNamed")
    BY <2>1, NotSent DEF Sweeping
  <2>3. QED
    BY <2>2, SentAt
<1>8. QED
  BY <1>2, <1>3, <1>4, <1>5, <1>6, <1>7, RowsStay DEF Writing

LEMMA CountsStay ==
  ASSUME BaseInv, [Next]_vars, repo = "attachments", NEW i \in Ids, Stored(i), Stored(i)'
  PROVE  rows'[i].low >= rows[i].low
<1>1. rows[i] \in Row /\ rows[i].low \in Nat
  BY DEF BaseInv, RTypeOK, Row
<1>2. CASE rows'[i] = rows[i]
  BY <1>1, <1>2
<1>3. ASSUME NEW r \in Requests, Increment(r) PROVE rows'[i].low >= rows[i].low
  <2>1. rows'[i] = rows[i] \/ rows'[i] = [rows[i] EXCEPT !.low = @ + 1]
    BY <1>3, WriteSpares DEF Increment
  <2>2. CASE rows'[i] = [rows[i] EXCEPT !.low = @ + 1]
    <3>1. rows'[i].low = rows[i].low + 1
      BY <1>1, <2>2 DEF Row
    <3>2. QED
      BY <1>1, <3>1
  <2>3. QED
    BY <1>2, <2>1, <2>2
<1>4. ASSUME NEW r \in Requests, WriteRow(r) PROVE rows'[i].low >= rows[i].low
  <2>1. "low" \notin Gives(req[r].method)
    <3>1. req[r].method \in DOMAIN AttachmentRows
      BY <1>4, CodeOf DEF WriteRow, At, BaseInv, InMethod
    <3>2. QED
      BY <3>1, AttachmentsSpare, CodeOf DEF Gives
  <2>2. rows'[i] = rows[i] \/ rows'[i].low = rows[i].low
    BY <1>4, <2>1 DEF WriteRow, Write, BaseInv, RTypeOK
  <2>3. QED
    BY <1>1, <2>2
<1>5. ASSUME NEW r \in Requests, Delete(r) PROVE rows'[i].low >= rows[i].low
  <2>1. rows'[i] = rows[i] \/ rows'[i] = NoRow
    BY <1>5 DEF Delete, BaseInv, RTypeOK
  <2>2. QED
    BY <1>2, <2>1 DEF Stored, NoRow
<1>6. ASSUME NEW r \in Requests, Insert(r) PROVE rows'[i].low >= rows[i].low
  BY <1>2, <1>6, InsertSpares
<1>7. ASSUME NEW r \in Requests
      PROVE  ~Update(r) /\ ~ClearOthers(r) /\ ~ClearAll(r) /\ ~DeleteNamed(r)
  <2>1. Spares(Code[repo], {"ClearAll", "ClearOthers", "Update", "DeleteNamed"})
    BY AttachmentsSpare, CodeOf
  <2>2. ~At(r, "Update") /\ ~At(r, "ClearOthers") /\ ~At(r, "ClearAll") /\ ~At(r, "DeleteNamed")
    BY <2>1, NotSent
  <2>3. QED
    BY <2>2, SentAt
<1>8. QED
  BY <1>2, <1>3, <1>4, <1>5, <1>6, <1>7, RowsStay DEF Writing

(* Where an update is one statement, no column goes back to a value that   *)
(* nobody asks for, and no download of an attachment is lost.              *)
THEOREM NothingIsReverted == Spec => NothingReverted
<1>1. BaseInv /\ [Next]_vars =>
        [ \A i \in Ids : Stored(i) /\ Stored(i)' =>
            /\ repo \in OneStatement =>
                 /\ rows'[i].name # rows[i].name => Asks(i, "name", rows'[i].name)
                 /\ rows'[i].flag /\ ~rows[i].flag => Asks(i, "flag", TRUE)
                 /\ rows'[i].high # rows[i].high => Asks(i, "high", rows'[i].high)
            /\ repo = "attachments" => rows'[i].low >= rows[i].low ]_vars
  BY ColumnsAsked, CountsStay DEF Asked
<1>2. QED
  BY <1>1, BaseInvariance, PTL DEF Spec, NothingReverted

-----------------------------------------------------------------------------
(***************************************************************************)
(* How the methods are put together: which statements a statement follows, *)
(* and in which methods it is found.                                       *)
(***************************************************************************)
Before(f, k) == {f[n] : n \in {l \in DOMAIN f : l < k}}

Checks == {"CheckName", "CheckUnused", "CheckExists", "CheckProtected", "CheckLinks",
           "CheckDates"}
Draws == {"DrawPlace", "DrawVersion", "FirstVersion"}
Counted == {"projects", "journals", "journalService"}

(* A method m of repository p: its statements S and what a caller gives.   *)
Composed(p, m, S, g) ==
  /\ "DeleteNamed" \in S <=> m = "unwatch" \/ (m = "delete" /\ p = "journalService")
  /\ "Insert" \in S <=> m = "create" \/ (m = "update" /\ p = "journalService")
  /\ S \cap {"Insert", "DeleteNamed"} # {} => "name" \in g
  /\ m \notin {"create", "update", "unwatch", "delete"} \/ (p = "members" /\ m = "update")
       => g \subseteq {"link", "links"}
  /\ m \in {"delete", "star", "unstar", "unwatch"} => g \subseteq {"name"}
  /\ "link" \in g => "links" \notin g
  /\ m \in {"link", "unlink"} => "link" \in g
  /\ p = "projects" => g \cap {"low", "high"} = {}
  /\ p \in {"journals", "journalService"} => "low" \notin g
  /\ p \in KeepsUnique /\ m \in {"create", "update", "grant"}
       => "CheckName" \in S \/ (p \notin ChecksMerged /\ "name" \notin g)
  /\ m = "delete" /\ p \in KeepsUsed => "CheckUnused" \in S
  /\ (p = "roles" /\ m # "create") \/ (p = "types" /\ m = "delete") => "CheckProtected" \in S
  /\ p = "versions" /\ m # "delete" => "CheckDates" \in S
  /\ p = "members" /\ m # "delete" => "CheckLinks" \in S
  /\ "CheckName" \in S => ("Read" \in S <=> p \in ChecksMerged /\ m # "create")
  /\ "CheckDates" \in S => S \cap Draws = {} /\ ("Read" \in S <=> m # "create")
  /\ "Read" \in S => S \cap Draws = {}
  /\ p = "journalService" /\ m = "update" => "DrawVersion" \in S

(* What comes before a check or a read, and what its failure means.        *)
PlacedFirst(p, m, d, x, after) ==
  /\ x \in Checks \cup Draws \cup {"Read"} =>
       after # 0 /\ d \subseteq Checks \cup Draws \cup {"Read"}
  /\ x = "CheckName" => /\ p \in KeepsUnique /\ m \in {"create", "update", "grant"}
                        /\ d \cap Draws = {}
                        /\ "Read" \in d <=> p \in ChecksMerged /\ m # "create"
  /\ x = "CheckUnused" => m = "delete" /\ p \in KeepsUsed
  /\ x \in {"CheckExists", "Read"} => m \notin NeedsNoRow /\ p # "journalService"
  /\ x = "CheckProtected" => /\ p = "roles" \/ (p = "types" /\ m = "delete")
                             /\ m \notin {"create", "unwatch"}
  /\ x = "CheckLinks" => p = "members" /\ m \in {"create", "update"}
  /\ x = "CheckDates" => /\ p = "versions" /\ m \in {"create", "update"} /\ d \cap Draws = {}
                         /\ "Read" \in d <=> m # "create"
  /\ x = "Read" => d = {} /\ m # "create"
  /\ x \in Draws => d \subseteq {"CheckName"}
  /\ x = "DrawPlace" => p = "projects" /\ m = "create"
  /\ x = "DrawVersion" => <<p, m>> \in {<<"journals", "create">>, <<"journalService", "update">>}
  /\ x = "FirstVersion" => p = "journalService" /\ m = "create"

(* The statements that write the rows.                                     *)
PlacedWrite(p, m, d, x, after) ==
  /\ x = "Insert" =>
       /\ d \subseteq {"CheckName", "CheckLinks", "CheckDates", "ClearAll"} \cup Draws
       /\ after # 0 <=> p \in {"statuses", "priorities", "roles", "members"}
       /\ "ClearAll" \in d <=> p = "activities"
       /\ "DrawPlace" \in d <=> p = "projects"
       /\ "DrawVersion" \in d <=> p = "journals" \/ (p = "journalService" /\ m = "update")
       /\ "FirstVersion" \in d <=> p = "journalService" /\ m = "create"
  /\ x = "Update" =>
       /\ d \subseteq Checks /\ m \in {"update", "grant"}
       /\ p \notin ChecksMerged \cup {"journals", "journalService"}
       /\ after = 0 => m = "update" /\ p \in {"types", "roles", "projects", "users", "timeEntries"}
  /\ x = "WriteRow" =>
       /\ after = 0 /\ m = "update" /\ "Read" \in d /\ d \subseteq Checks \cup {"Read", "ClearAll"}
       /\ p \in ChecksMerged \cup {"relations", "queries", "journals", "attachments"}
       /\ "ClearAll" \in d <=> p = "activities"
  /\ x = "Increment" => after = 0 /\ d = {} /\ m = "download" /\ p = "attachments"
  /\ x = "ClearOthers" =>
       /\ after = 0 /\ d \subseteq Checks \cup {"Insert", "Update"}
       /\ p \in {"statuses", "priorities"}
       /\ m \in {"create", "update"} /\ ("Insert" \in d <=> m = "create")
       /\ "Update" \in d <=> m = "update"
  /\ x = "ClearAll" =>
       /\ after # 0 /\ d \subseteq Checks \cup {"Read"} /\ p = "activities"
       /\ m \in {"create", "update"} /\ ("Read" \in d <=> m = "update")
  /\ x = "Delete" =>
       /\ after = 0 /\ m = "delete" /\ p # "journalService"
       /\ d \subseteq Checks \cup {"DeleteLinks"}
       /\ "DeleteLinks" \in d <=> p \in {"members", "queries"}
       /\ "DeleteLinks" \in d => "CheckExists" \in d
  /\ x = "DeleteNamed" => after = 0 /\ d = {}

(* The statements that write the links.                                    *)
PlacedLinks(p, m, d, x, after) ==
  /\ x = "DeleteLinks" =>
       /\ d \subseteq Checks \cup {"Insert", "Update"}
       /\ after = 0 => p = "queries" /\ m = "unstar" /\ d = {}
  /\ x = "RemoveLinks" => after = 0 /\ d = {} /\ p = "types" /\ m = "unlink"
  /\ x = "Star" => after = 0 /\ d = {"CheckExists"} /\ p = "queries" /\ m = "star"
  /\ x = "InsertLinks" =>
       /\ after = 0
       /\ \/ d = {} /\ p = "types" /\ m = "link"
          \/ /\ "DeleteLinks" \in d /\ d \subseteq Checks \cup {"Insert", "Update", "DeleteLinks"}
             /\ <<p, m>> \in {<<"roles", "create">>, <<"roles", "grant">>,
                              <<"members", "create">>, <<"members", "update">>}
             /\ "Insert" \in d <=> m = "create"
             /\ "Update" \in d <=> m = "grant"
             /\ m = "update" => "CheckExists" \in d

Placed(p, m, d, x, after) ==
  PlacedFirst(p, m, d, x, after) /\ PlacedWrite(p, m, d, x, after) /\ PlacedLinks(p, m, d, x, after)
Orderly(p, m, c) ==
  /\ DOMAIN c.steps = 1 .. Len(c.steps)
  /\ Composed(p, m, Before(c.steps, Len(c.steps) + 1), c.gives)
  /\ \A k \in 1 .. Len(c.steps) :
       Placed(p, m, Before(c.steps, k), c.steps[k], Len(c.steps) - k)

(* Methods of one to five statements.                                     *)
LEMMA OrderlyOne ==
  ASSUME NEW p, NEW m, NEW g, NEW a,
         Composed(p, m, {a}, g),
         Placed(p, m, {}, a, 0)
  PROVE  Orderly(p, m, M(<<a>>, g))
<1> DEFINE f == <<a>>
<1>1. /\ Len(f) = 1 /\ DOMAIN f = 1 .. 1
      /\ f[1] = a
  OBVIOUS
<1>2. /\ Before(f, 1) = {} /\ Before(f, 2) = {a}
  BY <1>1 DEF Before
<1> HIDE DEF f
<1>3. M(f, g).steps = f /\ M(f, g).gives = g
  BY DEF M
<1>4. Composed(p, m, Before(f, Len(f) + 1), g)
  BY <1>1, <1>2
<1>5. ASSUME NEW k \in 1 .. Len(f)
      PROVE  Placed(p, m, Before(f, k), f[k], Len(f) - k)
  <2>1. CASE k = 1
    <3>1. Len(f) - k = 0 /\ Before(f, k) = {} /\ f[k] = a
      BY <1>1, <1>2, <2>1
    <3>2. QED
      BY <3>1
  <2>2. QED
    BY <1>1, <2>1
<1>6. Orderly(p, m, M(f, g))
  BY <1>1, <1>3, <1>4, <1>5 DEF Orderly
<1>7. QED
  BY <1>6 DEF f

LEMMA OrderlyTwo ==
  ASSUME NEW p, NEW m, NEW g, NEW a, NEW b,
         Composed(p, m, {a, b}, g),
         Placed(p, m, {}, a, 1), Placed(p, m, {a}, b, 0)
  PROVE  Orderly(p, m, M(<<a, b>>, g))
<1> DEFINE f == <<a, b>>
<1>1. /\ Len(f) = 2 /\ DOMAIN f = 1 .. 2
      /\ f[1] = a /\ f[2] = b
  OBVIOUS
<1>2. /\ Before(f, 1) = {} /\ Before(f, 2) = {a} /\ Before(f, 3) = {a, b}
  BY <1>1 DEF Before
<1> HIDE DEF f
<1>3. M(f, g).steps = f /\ M(f, g).gives = g
  BY DEF M
<1>4. Composed(p, m, Before(f, Len(f) + 1), g)
  BY <1>1, <1>2
<1>5. ASSUME NEW k \in 1 .. Len(f)
      PROVE  Placed(p, m, Before(f, k), f[k], Len(f) - k)
  <2>1. CASE k = 1
    <3>1. Len(f) - k = 1 /\ Before(f, k) = {} /\ f[k] = a
      BY <1>1, <1>2, <2>1
    <3>2. QED
      BY <3>1
  <2>2. CASE k = 2
    <3>1. Len(f) - k = 0 /\ Before(f, k) = {a} /\ f[k] = b
      BY <1>1, <1>2, <2>2
    <3>2. QED
      BY <3>1
  <2>3. QED
    BY <1>1, <2>1, <2>2
<1>6. Orderly(p, m, M(f, g))
  BY <1>1, <1>3, <1>4, <1>5 DEF Orderly
<1>7. QED
  BY <1>6 DEF f

LEMMA OrderlyThree ==
  ASSUME NEW p, NEW m, NEW g, NEW a, NEW b, NEW c,
         Composed(p, m, {a, b, c}, g),
         Placed(p, m, {}, a, 2), Placed(p, m, {a}, b, 1), Placed(p, m, {a, b}, c, 0)
  PROVE  Orderly(p, m, M(<<a, b, c>>, g))
<1> DEFINE f == <<a, b, c>>
<1>1. /\ Len(f) = 3 /\ DOMAIN f = 1 .. 3
      /\ f[1] = a /\ f[2] = b /\ f[3] = c
  OBVIOUS
<1>2. /\ Before(f, 1) = {} /\ Before(f, 2) = {a} /\ Before(f, 3) = {a, b}
      /\ Before(f, 4) = {a, b, c}
  BY <1>1 DEF Before
<1> HIDE DEF f
<1>3. M(f, g).steps = f /\ M(f, g).gives = g
  BY DEF M
<1>4. Composed(p, m, Before(f, Len(f) + 1), g)
  BY <1>1, <1>2
<1>5. ASSUME NEW k \in 1 .. Len(f)
      PROVE  Placed(p, m, Before(f, k), f[k], Len(f) - k)
  <2>1. CASE k = 1
    <3>1. Len(f) - k = 2 /\ Before(f, k) = {} /\ f[k] = a
      BY <1>1, <1>2, <2>1
    <3>2. QED
      BY <3>1
  <2>2. CASE k = 2
    <3>1. Len(f) - k = 1 /\ Before(f, k) = {a} /\ f[k] = b
      BY <1>1, <1>2, <2>2
    <3>2. QED
      BY <3>1
  <2>3. CASE k = 3
    <3>1. Len(f) - k = 0 /\ Before(f, k) = {a, b} /\ f[k] = c
      BY <1>1, <1>2, <2>3
    <3>2. QED
      BY <3>1
  <2>4. QED
    BY <1>1, <2>1, <2>2, <2>3
<1>6. Orderly(p, m, M(f, g))
  BY <1>1, <1>3, <1>4, <1>5 DEF Orderly
<1>7. QED
  BY <1>6 DEF f

LEMMA OrderlyFour ==
  ASSUME NEW p, NEW m, NEW g, NEW a, NEW b, NEW c, NEW d,
         Composed(p, m, {a, b, c, d}, g),
         Placed(p, m, {}, a, 3), Placed(p, m, {a}, b, 2), Placed(p, m, {a, b}, c, 1),
         Placed(p, m, {a, b, c}, d, 0)
  PROVE  Orderly(p, m, M(<<a, b, c, d>>, g))
<1> DEFINE f == <<a, b, c, d>>
<1>1. /\ Len(f) = 4 /\ DOMAIN f = 1 .. 4
      /\ f[1] = a /\ f[2] = b /\ f[3] = c /\ f[4] = d
  OBVIOUS
<1>2. /\ Before(f, 1) = {} /\ Before(f, 2) = {a} /\ Before(f, 3) = {a, b}
      /\ Before(f, 4) = {a, b, c} /\ Before(f, 5) = {a, b, c, d}
  BY <1>1 DEF Before
<1> HIDE DEF f
<1>3. M(f, g).steps = f /\ M(f, g).gives = g
  BY DEF M
<1>4. Composed(p, m, Before(f, Len(f) + 1), g)
  BY <1>1, <1>2
<1>5. ASSUME NEW k \in 1 .. Len(f)
      PROVE  Placed(p, m, Before(f, k), f[k], Len(f) - k)
  <2>1. CASE k = 1
    <3>1. Len(f) - k = 3 /\ Before(f, k) = {} /\ f[k] = a
      BY <1>1, <1>2, <2>1
    <3>2. QED
      BY <3>1
  <2>2. CASE k = 2
    <3>1. Len(f) - k = 2 /\ Before(f, k) = {a} /\ f[k] = b
      BY <1>1, <1>2, <2>2
    <3>2. QED
      BY <3>1
  <2>3. CASE k = 3
    <3>1. Len(f) - k = 1 /\ Before(f, k) = {a, b} /\ f[k] = c
      BY <1>1, <1>2, <2>3
    <3>2. QED
      BY <3>1
  <2>4. CASE k = 4
    <3>1. Len(f) - k = 0 /\ Before(f, k) = {a, b, c} /\ f[k] = d
      BY <1>1, <1>2, <2>4
    <3>2. QED
      BY <3>1
  <2>5. QED
    BY <1>1, <2>1, <2>2, <2>3, <2>4
<1>6. Orderly(p, m, M(f, g))
  BY <1>1, <1>3, <1>4, <1>5 DEF Orderly
<1>7. QED
  BY <1>6 DEF f

LEMMA OrderlyFive ==
  ASSUME NEW p, NEW m, NEW g, NEW a, NEW b, NEW c, NEW d, NEW e,
         Composed(p, m, {a, b, c, d, e}, g),
         Placed(p, m, {}, a, 4), Placed(p, m, {a}, b, 3), Placed(p, m, {a, b}, c, 2),
         Placed(p, m, {a, b, c}, d, 1), Placed(p, m, {a, b, c, d}, e, 0)
  PROVE  Orderly(p, m, M(<<a, b, c, d, e>>, g))
<1> DEFINE f == <<a, b, c, d, e>>
<1>1. /\ Len(f) = 5 /\ DOMAIN f = 1 .. 5
      /\ f[1] = a /\ f[2] = b /\ f[3] = c /\ f[4] = d /\ f[5] = e
  OBVIOUS
<1>2. /\ Before(f, 1) = {} /\ Before(f, 2) = {a} /\ Before(f, 3) = {a, b}
      /\ Before(f, 4) = {a, b, c} /\ Before(f, 5) = {a, b, c, d} /\ Before(f, 6) = {a, b, c, d, e}
  BY <1>1 DEF Before
<1> HIDE DEF f
<1>3. M(f, g).steps = f /\ M(f, g).gives = g
  BY DEF M
<1>4. Composed(p, m, Before(f, Len(f) + 1), g)
  BY <1>1, <1>2
<1>5. ASSUME NEW k \in 1 .. Len(f)
      PROVE  Placed(p, m, Before(f, k), f[k], Len(f) - k)
  <2>1. CASE k = 1
    <3>1. Len(f) - k = 4 /\ Before(f, k) = {} /\ f[k] = a
      BY <1>1, <1>2, <2>1
    <3>2. QED
      BY <3>1
  <2>2. CASE k = 2
    <3>1. Len(f) - k = 3 /\ Before(f, k) = {a} /\ f[k] = b
      BY <1>1, <1>2, <2>2
    <3>2. QED
      BY <3>1
  <2>3. CASE k = 3
    <3>1. Len(f) - k = 2 /\ Before(f, k) = {a, b} /\ f[k] = c
      BY <1>1, <1>2, <2>3
    <3>2. QED
      BY <3>1
  <2>4. CASE k = 4
    <3>1. Len(f) - k = 1 /\ Before(f, k) = {a, b, c} /\ f[k] = d
      BY <1>1, <1>2, <2>4
    <3>2. QED
      BY <3>1
  <2>5. CASE k = 5
    <3>1. Len(f) - k = 0 /\ Before(f, k) = {a, b, c, d} /\ f[k] = e
      BY <1>1, <1>2, <2>5
    <3>2. QED
      BY <3>1
  <2>6. QED
    BY <1>1, <2>1, <2>2, <2>3, <2>4, <2>5
<1>6. Orderly(p, m, M(f, g))
  BY <1>1, <1>3, <1>4, <1>5 DEF Orderly
<1>7. QED
  BY <1>6 DEF f

(* The repositories that keep a column unique, by name.                    *)
LEMMA UniqueKept ==
  KeepsUnique = {"statuses", "priorities", "activities", "types", "roles", "versions",
                 "categories", "members", "relations", "projects", "watchers", "users"}
BY Repos DEF KeepsUnique

AllOrderly(p, methods) == \A m \in DOMAIN methods : Orderly(p, m, methods[m])

LEMMA MethodsOrderly ==
  ASSUME NEW p \in DOMAIN Code
  PROVE  AllOrderly(p, Code[p])
<1> USE UniqueKept DEF Composed, Placed, PlacedFirst, PlacedWrite, PlacedLinks, Checks, Draws,
                       NeedsNoRow, KeepsUsed, ChecksMerged
<1>1. AllOrderly("statuses", Statuses)
  <2>1. Orderly("statuses", "create",
          M(<<"CheckName", "Insert", "ClearOthers">>, {"name", "flag"}))
    BY OrderlyThree
  <2>2. Orderly("statuses", "update",
          M(<<"CheckName", "Update", "ClearOthers">>, {"name", "flag"}))
    BY OrderlyThree
  <2>3. Orderly("statuses", "delete", M(<<"CheckUnused", "Delete">>, {}))
    BY OrderlyTwo
  <2>4. DOMAIN Statuses = {"create", "update", "delete"}
    BY DEF Statuses
  <2>5. QED
    BY <2>1, <2>2, <2>3, <2>4 DEF AllOrderly, Statuses
<1>2. AllOrderly("priorities", Priorities)
  <2>1. Orderly("priorities", "create",
          M(<<"CheckName", "Insert", "ClearOthers">>, {"name", "flag"}))
    BY OrderlyThree
  <2>2. Orderly("priorities", "update",
          M(<<"CheckName", "Update", "ClearOthers">>, {"name", "flag"}))
    BY OrderlyThree
  <2>3. Orderly("priorities", "delete", M(<<"CheckUnused", "Delete">>, {}))
    BY OrderlyTwo
  <2>4. DOMAIN Priorities = {"create", "update", "delete"}
    BY DEF Priorities
  <2>5. QED
    BY <2>1, <2>2, <2>3, <2>4 DEF AllOrderly, Priorities
<1>3. AllOrderly("activities", Activities)
  <2>1. Orderly("activities", "create",
          M(<<"CheckName", "ClearAll", "Insert">>, {"name", "flag"}))
    BY OrderlyThree
  <2>2. Orderly("activities", "update",
          M(<<"Read", "CheckName", "ClearAll", "WriteRow">>, {"flag"}))
    BY OrderlyFour
  <2>3. Orderly("activities", "delete", M(<<"CheckExists", "CheckUnused", "Delete">>, {}))
    BY OrderlyThree
  <2>4. DOMAIN Activities = {"create", "update", "delete"}
    BY DEF Activities
  <2>5. QED
    BY <2>1, <2>2, <2>3, <2>4 DEF AllOrderly, Activities
<1>4. AllOrderly("types", Types)
  <2>1. Orderly("types", "create", M(<<"CheckName", "Insert">>, {"name"}))
    BY OrderlyTwo
  <2>2. Orderly("types", "update", M(<<"CheckName", "Update">>, {"name"}))
    BY OrderlyTwo
  <2>3. Orderly("types", "delete", M(<<"CheckProtected", "CheckUnused", "Delete">>, {}))
    BY OrderlyThree
  <2>4. Orderly("types", "link", M(<<"InsertLinks">>, {"link"}))
    BY OrderlyOne
  <2>5. Orderly("types", "unlink", M(<<"RemoveLinks">>, {"link"}))
    BY OrderlyOne
  <2>6. DOMAIN Types = {"create", "update", "delete", "link", "unlink"}
    BY DEF Types
  <2>7. QED
    BY <2>1, <2>2, <2>3, <2>4, <2>5, <2>6 DEF AllOrderly, Types
<1>5. AllOrderly("roles", Roles)
  <2>1. Orderly("roles", "create",
          M(<<"CheckName", "Insert", "DeleteLinks", "InsertLinks">>, {"name", "links"}))
    BY OrderlyFour
  <2>2. Orderly("roles", "update", M(<<"CheckProtected", "CheckName", "Update">>, {"name"}))
    BY OrderlyThree
  <2>3. Orderly("roles", "grant",
          M(<<"CheckProtected", "CheckName", "Update", "DeleteLinks", "InsertLinks">>, {"links"}))
    BY OrderlyFive
  <2>4. Orderly("roles", "delete", M(<<"CheckProtected", "CheckUnused", "Delete">>, {}))
    BY OrderlyThree
  <2>5. DOMAIN Roles = {"create", "update", "grant", "delete"}
    BY DEF Roles
  <2>6. QED
    BY <2>1, <2>2, <2>3, <2>4, <2>5 DEF AllOrderly, Roles
<1>6. AllOrderly("versions", Versions)
  <2>1. Orderly("versions", "create",
          M(<<"CheckDates", "CheckName", "Insert">>, {"name", "low", "high"}))
    BY OrderlyThree
  <2>2. Orderly("versions", "update",
          M(<<"Read", "CheckDates", "CheckName", "WriteRow">>, {"low", "high"}))
    BY OrderlyFour
  <2>3. Orderly("versions", "delete", M(<<"CheckExists", "CheckUnused", "Delete">>, {}))
    BY OrderlyThree
  <2>4. DOMAIN Versions = {"create", "update", "delete"}
    BY DEF Versions
  <2>5. QED
    BY <2>1, <2>2, <2>3, <2>4 DEF AllOrderly, Versions
<1>7. AllOrderly("categories", Categories)
  <2>1. Orderly("categories", "create", M(<<"CheckName", "Insert">>, {"name", "high"}))
    BY OrderlyTwo
  <2>2. Orderly("categories", "update",
          M(<<"Read", "CheckName", "WriteRow">>, {"name", "high"}))
    BY OrderlyThree
  <2>3. Orderly("categories", "delete", M(<<"CheckExists", "CheckUnused", "Delete">>, {}))
    BY OrderlyThree
  <2>4. DOMAIN Categories = {"create", "update", "delete"}
    BY DEF Categories
  <2>5. QED
    BY <2>1, <2>2, <2>3, <2>4 DEF AllOrderly, Categories
<1>8. AllOrderly("members", Members)
  <2>1. Orderly("members", "create",
          M(<<"CheckLinks", "CheckName", "Insert", "DeleteLinks", "InsertLinks">>,
            {"name", "links"}))
    BY OrderlyFive
  <2>2. Orderly("members", "update",
          M(<<"CheckExists", "CheckLinks", "DeleteLinks", "InsertLinks">>, {"links"}))
    BY OrderlyFour
  <2>3. Orderly("members", "delete", M(<<"CheckExists", "DeleteLinks", "Delete">>, {}))
    BY OrderlyThree
  <2>4. DOMAIN Members = {"create", "update", "delete"}
    BY DEF Members
  <2>5. QED
    BY <2>1, <2>2, <2>3, <2>4 DEF AllOrderly, Members
<1>9. AllOrderly("relations", Relations)
  <2>1. Orderly("relations", "create", M(<<"CheckName", "Insert">>, {"name", "high"}))
    BY OrderlyTwo
  <2>2. Orderly("relations", "update", M(<<"Read", "WriteRow">>, {"high"}))
    BY OrderlyTwo
  <2>3. Orderly("relations", "delete", M(<<"CheckExists", "Delete">>, {}))
    BY OrderlyTwo
  <2>4. DOMAIN Relations = {"create", "update", "delete"}
    BY DEF Relations
  <2>5. QED
    BY <2>1, <2>2, <2>3, <2>4 DEF AllOrderly, Relations
<1>10. AllOrderly("queries", Queries)
  <2>1. Orderly("queries", "create", M(<<"Insert">>, {"name"}))
    BY OrderlyOne
  <2>2. Orderly("queries", "update", M(<<"Read", "WriteRow">>, {"name"}))
    BY OrderlyTwo
  <2>3. Orderly("queries", "delete", M(<<"CheckExists", "DeleteLinks", "Delete">>, {}))
    BY OrderlyThree
  <2>4. Orderly("queries", "star", M(<<"CheckExists", "Star">>, {}))
    BY OrderlyTwo
  <2>5. Orderly("queries", "unstar", M(<<"DeleteLinks">>, {}))
    BY OrderlyOne
  <2>6. DOMAIN Queries = {"create", "update", "delete", "star", "unstar"}
    BY DEF Queries
  <2>7. QED
    BY <2>1, <2>2, <2>3, <2>4, <2>5, <2>6 DEF AllOrderly, Queries
<1>11. AllOrderly("projects", Projects)
  <2>1. Orderly("projects", "create",
          M(<<"CheckName", "DrawPlace", "Insert">>, {"name", "flag"}))
    BY OrderlyThree
  <2>2. Orderly("projects", "update", M(<<"CheckExists", "Update">>, {"flag"}))
    BY OrderlyTwo
  <2>3. Orderly("projects", "delete", M(<<"CheckUnused", "Delete">>, {}))
    BY OrderlyTwo
  <2>4. DOMAIN Projects = {"create", "update", "delete"}
    BY DEF Projects
  <2>5. QED
    BY <2>1, <2>2, <2>3, <2>4 DEF AllOrderly, Projects
<1>12. AllOrderly("watchers", Watchers)
  <2>1. Orderly("watchers", "create", M(<<"CheckName", "Insert">>, {"name"}))
    BY OrderlyTwo
  <2>2. Orderly("watchers", "delete", M(<<"CheckExists", "Delete">>, {}))
    BY OrderlyTwo
  <2>3. Orderly("watchers", "unwatch", M(<<"DeleteNamed">>, {"name"}))
    BY OrderlyOne
  <2>4. DOMAIN Watchers = {"create", "delete", "unwatch"}
    BY DEF Watchers
  <2>5. QED
    BY <2>1, <2>2, <2>3, <2>4 DEF AllOrderly, Watchers
<1>13. AllOrderly("users", Users)
  <2>1. Orderly("users", "create", M(<<"CheckName", "Insert">>, {"name", "flag"}))
    BY OrderlyTwo
  <2>2. Orderly("users", "update",
          M(<<"CheckExists", "CheckName", "Update">>, {"name", "flag"}))
    BY OrderlyThree
  <2>3. Orderly("users", "delete", M(<<"Delete">>, {}))
    BY OrderlyOne
  <2>4. DOMAIN Users = {"create", "update", "delete"}
    BY DEF Users
  <2>5. QED
    BY <2>1, <2>2, <2>3, <2>4 DEF AllOrderly, Users
<1>14. AllOrderly("journals", Journals)
  <2>1. Orderly("journals", "create", M(<<"DrawVersion", "Insert">>, {"name"}))
    BY OrderlyTwo
  <2>2. Orderly("journals", "update", M(<<"Read", "WriteRow">>, {"high"}))
    BY OrderlyTwo
  <2>3. Orderly("journals", "delete", M(<<"Delete">>, {}))
    BY OrderlyOne
  <2>4. DOMAIN Journals = {"create", "update", "delete"}
    BY DEF Journals
  <2>5. QED
    BY <2>1, <2>2, <2>3, <2>4 DEF AllOrderly, Journals
<1>15. AllOrderly("journalService", JournalService)
  <2>1. Orderly("journalService", "create", M(<<"FirstVersion", "Insert">>, {"name", "flag", "high"}))
    BY OrderlyTwo
  <2>2. Orderly("journalService", "update", M(<<"DrawVersion", "Insert">>, {"name", "flag", "high"}))
    BY OrderlyTwo
  <2>3. Orderly("journalService", "delete", M(<<"DeleteNamed">>, {"name"}))
    BY OrderlyOne
  <2>4. DOMAIN JournalService = {"create", "update", "delete"}
    BY DEF JournalService
  <2>5. QED
    BY <2>1, <2>2, <2>3, <2>4 DEF AllOrderly, JournalService
<1>16. AllOrderly("timeEntries", TimeEntries)
  <2>1. Orderly("timeEntries", "create", M(<<"Insert">>, {"name"}))
    BY OrderlyOne
  <2>2. Orderly("timeEntries", "update", M(<<"Update">>, {"high"}))
    BY OrderlyOne
  <2>3. Orderly("timeEntries", "delete", M(<<"Delete">>, {}))
    BY OrderlyOne
  <2>4. DOMAIN TimeEntries = {"create", "update", "delete"}
    BY DEF TimeEntries
  <2>5. QED
    BY <2>1, <2>2, <2>3, <2>4 DEF AllOrderly, TimeEntries
<1>17. AllOrderly("attachments", AttachmentRows)
  <2>1. Orderly("attachments", "create", M(<<"Insert">>, {"name"}))
    BY OrderlyOne
  <2>2. Orderly("attachments", "update", M(<<"Read", "WriteRow">>, {"high"}))
    BY OrderlyTwo
  <2>3. Orderly("attachments", "download", M(<<"Increment">>, {}))
    BY OrderlyOne
  <2>4. Orderly("attachments", "delete", M(<<"CheckExists", "Delete">>, {}))
    BY OrderlyTwo
  <2>5. DOMAIN AttachmentRows = {"create", "update", "download", "delete"}
    BY DEF AttachmentRows
  <2>6. QED
    BY <2>1, <2>2, <2>3, <2>4, <2>5 DEF AllOrderly, AttachmentRows
<1>18. QED
  BY <1>1, <1>2, <1>3, <1>4, <1>5, <1>6, <1>7, <1>8, <1>9, <1>10, <1>11, <1>12, <1>13,
     <1>14, <1>15, <1>16, <1>17, CodeOf, Repos

-----------------------------------------------------------------------------
(***************************************************************************)
(* Calls.                                                                  *)
(***************************************************************************)

(* The statement a call is at, those it has sent, those of its method, and *)
(* how many come after.                                                    *)
Now(r) == Steps(req[r].method)[pc[r]]
Sent(r) == Before(Steps(req[r].method), pc[r])
Body(r) == Before(Steps(req[r].method), Len(Steps(req[r].method)) + 1)
After(r) == Len(Steps(req[r].method)) - pc[r]

(* A row without a name is no row, and only types and roles are protected. *)
Whole(table) ==
  \A i \in Ids : /\ table[i].name = None => table[i] = NoRow
                 /\ table[i].protected => repo \in {"types", "roles"}

(* A call gives only what its method takes, creates under no id yet, holds *)
(* the links it was called with until it inserts them, and a row it read   *)
(* was stored.                                                             *)
Posed(q) ==
  /\ \A c \in {"name", "flag"} : c \notin Gives(q.method) => q[c] = None
  /\ \A c \in {"low", "high"} : c \notin Gives(q.method) => q[c] = 0
  /\ Gives(q.method) \cap {"link", "links"} = {} => q.links = {}
  /\ "link" \in Gives(q.method) => \E l \in Links : q.links = {l}
  /\ ByName(q.method) => q.name # None
Directed(q, i, sent) == i \in (IF ByName(q.method) /\ "Insert" \notin sent THEN {0} ELSE Ids)
Holding(q, l, x) ==
  l \subseteq q.links /\ (l = q.links \/ (x = "InsertLinks" /\ "link" \notin Gives(q.method)))
Formed(r) ==
  /\ Posed(req[r])
  /\ Directed(req[r], req[r].id, Sent(r))
  /\ Holding(req[r], left[r], Now(r))
  /\ "Read" \in Sent(r) => copy[r].name # None
InForm(r) ==
  /\ copy[r].protected => repo \in {"types", "roles"}
  /\ pc[r] > 0 => Formed(r)
  /\ pc[r] <= 0 => copy[r] = NoRow

FormInv == BaseInv /\ Whole(rows) /\ \A r \in Requests : InForm(r)

LEMMA Planned ==
  ASSUME BaseInv, NEW r \in Requests, pc[r] > 0
  PROVE  /\ Composed(repo, req[r].method, Body(r), Gives(req[r].method))
         /\ Placed(repo, req[r].method, Sent(r), Now(r), After(r))
         /\ pc[r] \in 1 .. Len(Steps(req[r].method)) /\ After(r) \in Nat
         /\ DOMAIN Steps(req[r].method) = 1 .. Len(Steps(req[r].method))
         /\ Len(Steps(req[r].method)) \in Nat
<1> DEFINE m == req[r].method
           f == Steps(m)
<1>1. m \in DOMAIN Code[repo] /\ pc[r] <= Len(f) /\ pc[r] \in Int /\ repo \in DOMAIN Code
  BY DEF BaseInv, InMethod, RTypeOK
<1>2. Orderly(repo, m, Code[repo][m])
  BY <1>1, MethodsOrderly DEF AllOrderly
<1>3. Len(f) \in Nat
  BY <1>1, MethodsSound DEF Sound, Steps
<1>4. pc[r] \in 1 .. Len(f) /\ After(r) \in Nat
  BY <1>1, <1>3 DEF After
<1>5. QED
  BY <1>2, <1>3, <1>4 DEF Orderly, Steps, Gives, Now, Sent, Body, After

(* At the last statement all others have been sent.                        *)
LEMMA AllSent ==
  ASSUME BaseInv, NEW r \in Requests, pc[r] > 0
  PROVE  /\ Sent(r) \cup {Now(r)} \subseteq Body(r)
         /\ After(r) = 0 => Body(r) = Sent(r) \cup {Now(r)}
         /\ \A s : Has(req[r].method, s) <=> s \in Body(r)
<1> DEFINE f == Steps(req[r].method)
           n == Len(f)
<1>1. pc[r] \in 1 .. n /\ DOMAIN f = 1 .. n /\ n \in Nat
  BY Planned
<1>2. Sent(r) \cup {Now(r)} \subseteq Body(r)
  BY <1>1 DEF Sent, Now, Body, Before
<1>3. After(r) = 0 => Body(r) = Sent(r) \cup {Now(r)}
  BY <1>1 DEF After, Sent, Now, Body, Before
<1>4. Body(r) = {f[k] : k \in DOMAIN f}
  BY <1>1 DEF Body, Before
<1>5. QED
  BY <1>2, <1>3, <1>4 DEF Has

LEMMA BeforeNext ==
  ASSUME NEW f, NEW n \in Nat, DOMAIN f = 1 .. n, NEW k \in 1 .. n
  PROVE  Before(f, k + 1) = Before(f, k) \cup {f[k]}
<1>1. {l \in DOMAIN f : l < k + 1} = {l \in DOMAIN f : l < k} \cup {k}
  OBVIOUS
<1>2. QED
  BY <1>1 DEF Before

LEMMA SentOnward ==
  ASSUME BaseInv, NEW r \in Requests, pc[r] > 0, NEW i \in 0 .. MaxId, NEW row,
         Onward(r, i, row), repo' = repo
  PROVE  /\ Sent(r)' = Sent(r) \cup {Now(r)} /\ After(r) # 0
         /\ req'[r].method = req[r].method /\ req'[r].id = i
         /\ req'[r].name = req[r].name /\ req'[r].flag = req[r].flag
         /\ req'[r].low = req[r].low /\ req'[r].high = req[r].high
         /\ req'[r].links = req[r].links
<1>1. /\ req'[r] = [req[r] EXCEPT !.id = i] /\ req[r] \in Request
      /\ pc'[r] = pc[r] + 1 /\ pc[r] # Len(Steps(req[r].method))
  BY DEF Onward, BaseInv, RTypeOK
<1>2. /\ req'[r].method = req[r].method /\ req'[r].id = i
      /\ req'[r].name = req[r].name /\ req'[r].flag = req[r].flag
      /\ req'[r].low = req[r].low /\ req'[r].high = req[r].high
      /\ req'[r].links = req[r].links
  BY <1>1 DEF Request
<1>3. /\ pc[r] \in 1 .. Len(Steps(req[r].method)) /\ Len(Steps(req[r].method)) \in Nat
      /\ DOMAIN Steps(req[r].method) = 1 .. Len(Steps(req[r].method))
  BY Planned
<1>4. Sent(r)' = Before(Steps(req[r].method), pc[r] + 1)
  BY <1>1, <1>2 DEF Sent, Steps
<1>5. Sent(r)' = Sent(r) \cup {Now(r)}
  BY <1>3, <1>4, BeforeNext DEF Sent, Now
<1>6. QED
  BY <1>1, <1>2, <1>3, <1>5 DEF After

(* A call that stays where it is.                                          *)
LEMMA FormedElsewhere ==
  ASSUME NEW x \in Requests, repo' = repo, pc'[x] = pc[x], req'[x] = req[x],
         copy'[x] = copy[x], left'[x] = left[x]
  PROVE  /\ Formed(x)' <=> Formed(x)
         /\ Sent(x)' = Sent(x) /\ Now(x)' = Now(x)
<1>1. Sent(x)' = Sent(x) /\ Now(x)' = Now(x)
  BY DEF Sent, Now, Steps
<1>2. Posed(req[x])' <=> Posed(req[x])
  BY DEF Posed, Gives, ByName, Has, Steps
<1>3. Directed(req[x], req[x].id, Sent(x))' <=> Directed(req[x], req[x].id, Sent(x))
  BY <1>1 DEF Directed, ByName, Has, Steps
<1>4. QED
  BY <1>1, <1>2, <1>3 DEF Formed, Holding, Gives

LEMMA FormMoves ==
  ASSUME FormInv, BaseInv', NEW r \in Requests, pc[r] > 0, Elsewhere(r), repo' = repo,
         Whole(rows)', NEW i \in 0 .. MaxId, NEW row,
         \/ Gone(r)
         \/ /\ Onward(r, i, row) /\ Directed(req[r], i, Sent(r) \cup {Now(r)})
            /\ row.protected => repo \in {"types", "roles"}
            /\ "Read" \in Sent(r) \cup {Now(r)} => row.name # None
  PROVE  FormInv'
<1>1. ASSUME NEW x \in Requests \ {r}
      PROVE  InForm(x)'
  <2>1. /\ pc'[x] = pc[x] /\ req'[x] = req[x] /\ copy'[x] = copy[x] /\ left'[x] = left[x]
        /\ InForm(x)
    BY DEF Elsewhere, FormInv
  <2>2. Formed(x)' <=> Formed(x)
    BY <2>1, FormedElsewhere
  <2>3. QED
    BY <2>1, <2>2 DEF InForm
<1>2. CASE Gone(r)
  <2>1. InForm(r)'
    BY <1>2 DEF Gone, InForm, NoRow
  <2>2. QED
    BY <1>1, <2>1 DEF FormInv
<1>3. CASE /\ Onward(r, i, row) /\ Directed(req[r], i, Sent(r) \cup {Now(r)})
           /\ row.protected => repo \in {"types", "roles"}
           /\ "Read" \in Sent(r) \cup {Now(r)} => row.name # None
  <2>1. /\ Sent(r)' = Sent(r) \cup {Now(r)} /\ After(r) # 0
        /\ req'[r].method = req[r].method /\ req'[r].id = i
        /\ req'[r].name = req[r].name /\ req'[r].flag = req[r].flag
        /\ req'[r].low = req[r].low /\ req'[r].high = req[r].high
        /\ req'[r].links = req[r].links
    BY <1>3, SentOnward DEF FormInv
  <2>2. copy'[r] = row /\ left'[r] = left[r]
    BY <1>3 DEF Onward
  <2>3. Formed(r)
    BY DEF FormInv, InForm
  <2>4. Posed(req[r])'
    <3>1. /\ Gives(req[r].method)' = Gives(req[r].method)
          /\ ByName(req[r].method)' <=> ByName(req[r].method)
      BY <2>1 DEF Gives, ByName, Has, Steps
    <3>2. Posed(req[r])
      BY <2>3 DEF Formed
    <3>3. QED
      BY <2>1, <3>1, <3>2 DEF Posed
  <2>5. Directed(req[r], req[r].id, Sent(r))'
    BY <1>3, <2>1 DEF Directed, ByName, Has, Steps
  <2>6. Now(r) # "InsertLinks"
    BY <2>1, Planned DEF FormInv, Placed, PlacedLinks
  <2>7. left[r] = req[r].links
    BY <2>3, <2>6 DEF Formed, Holding
  <2>8. Holding(req[r], left[r], Now(r))'
    BY <2>1, <2>2, <2>7 DEF Holding
  <2>9. Formed(r)'
    BY <1>3, <2>1, <2>2, <2>4, <2>5, <2>8 DEF Formed
  <2>10. InForm(r)'
    <3>1. pc'[r] = pc[r] + 1 /\ pc[r] \in Int
      BY <1>3 DEF Onward, FormInv, BaseInv, RTypeOK
    <3>2. QED
      BY <1>3, <2>2, <2>9, <3>1 DEF InForm
  <2>11. QED
    BY <1>1, <2>10 DEF FormInv
<1>4. QED
  BY <1>2, <1>3

LEMMA NowAt ==
  ASSUME NEW r \in Requests, NEW s, At(r, s)
  PROVE  pc[r] > 0 /\ Now(r) = s
BY DEF At, Now

(* A statement that was sent ends the call only if it is the last one.     *)
LEMMA ProceedsOn ==
  ASSUME BaseInv, NEW r \in Requests, pc[r] > 0, NEW i \in 0 .. MaxId, NEW row \in Row,
         Proceed(r, i, row)
  PROVE  /\ Elsewhere(r) /\ repo' = repo
         /\ \/ After(r) = 0 /\ Gone(r) /\ pc'[r] = 0
            \/ After(r) # 0 /\ Onward(r, i, row)
<1>1. /\ pc[r] \in 1 .. Len(Steps(req[r].method)) /\ Len(Steps(req[r].method)) \in Nat
      /\ Elsewhere(r) /\ repo' = repo /\ (Gone(r) \/ Onward(r, i, row))
  BY Planned, Proceeds
<1>2. CASE pc[r] = Len(Steps(req[r].method))
  <2>1. Leave(r, 0)
    BY <1>2 DEF Proceed
  <2>2. pc'[r] = 0 /\ Gone(r)
    BY <2>1, Leaves DEF Leave, BaseInv, RTypeOK
  <2>3. QED
    BY <1>1, <1>2, <2>2 DEF After
<1>3. CASE pc[r] # Len(Steps(req[r].method))
  <2>1. pc' = [pc EXCEPT ![r] = @ + 1]
    BY <1>3 DEF Proceed
  <2>2. pc'[r] = pc[r] + 1
    BY <2>1 DEF BaseInv, RTypeOK
  <2>3. ~Gone(r)
    BY <1>1, <2>2 DEF Gone
  <2>4. QED
    BY <1>1, <1>3, <2>3 DEF After
<1>4. QED
  BY <1>2, <1>3

LEMMA Returns ==
  ASSUME BaseInv, NEW r \in Requests, NEW where \in {0, -1}, Leave(r, where)
  PROVE  Elsewhere(r) /\ repo' = repo /\ Gone(r) /\ pc'[r] = where
BY Leaves DEF Leave, BaseInv, RTypeOK

(* What is read of a call in progress.                                     *)
LEMMA FormOf ==
  ASSUME FormInv, NEW r \in Requests, pc[r] > 0
  PROVE  /\ Formed(r) /\ BaseInv /\ Whole(rows)
         /\ copy[r].protected => repo \in {"types", "roles"}
         /\ req[r] \in Request /\ req[r].id \in 0 .. MaxId
         /\ copy[r] \in Row /\ left[r] \subseteq Links
         /\ repo \in DOMAIN Code /\ MaxId \in Nat
BY RepositoriesAssumption DEF FormInv, InForm, BaseInv, RTypeOK, Request

(* A statement after which the call knows its row by the same id.          *)
LEMMA FormOrdinary ==
  ASSUME FormInv, NEW r \in Requests, pc[r] > 0, Ordinary(r), Now(r) \notin {"Read", "Insert"},
         Whole(rows)'
  PROVE  FormInv'
<1>1. /\ Directed(req[r], req[r].id, Sent(r) \cup {Now(r)})
      /\ "Read" \in Sent(r) \cup {Now(r)} => copy[r].name # None
  BY FormOf DEF Formed, Directed
<1>2. QED
  BY <1>1, FormOf, FormMoves DEF Ordinary

LEMMA WholeKept ==
  ASSUME Whole(rows), rows' = rows, repo' = repo
  PROVE  Whole(rows)'
BY DEF Whole

LEMMA FormChecking ==
  ASSUME FormInv, NEW r \in Requests, Checking(r)
  PROVE  FormInv'
<1>1. Ordinary(r) /\ rows' = rows /\ repo' = repo
  BY CheckingBase DEF FormInv, tables, Ordinary
<1>2. pc[r] > 0 /\ Now(r) \in Checks
  BY SentAt, NowAt DEF Checking, Checks
<1>3. QED
  BY <1>1, <1>2, FormOrdinary, WholeKept DEF FormInv, Checks

LEMMA FormRead ==
  ASSUME FormInv, NEW r \in Requests, Read(r)
  PROVE  FormInv'
<1>1. /\ BaseInv' /\ Elsewhere(r) /\ repo' = repo /\ rows' = rows
      /\ Gone(r) \/ (Onward(r, req[r].id, rows[req[r].id]) /\ Stored(req[r].id))
  BY ReadBase DEF FormInv, tables
<1>2. pc[r] > 0 /\ Now(r) = "Read" /\ req[r].id \in Ids
  BY SentAt, NowAt, ReadsARow DEF FormInv
<1>3. /\ Directed(req[r], req[r].id, Sent(r) \cup {Now(r)})
      /\ rows[req[r].id].protected => repo \in {"types", "roles"}
  BY <1>2, FormOf DEF Formed, Directed, Whole
<1>4. Whole(rows)'
  BY <1>1, WholeKept DEF FormInv
<1>5. CASE Gone(r)
  BY <1>1, <1>2, <1>4, <1>5, FormOf, FormMoves
<1>6. CASE Stored(req[r].id)
  BY <1>1, <1>2, <1>3, <1>4, <1>6, FormOf, FormMoves DEF Stored
<1>7. QED
  BY <1>1, <1>5, <1>6

LEMMA FormDraw ==
  ASSUME FormInv, NEW r \in Requests, DrawPlace(r) \/ DrawVersion(r) \/ FirstVersion(r)
  PROVE  FormInv'
<1>1. /\ pc[r] > 0 /\ Now(r) \in Draws
  BY SentAt, NowAt DEF Draws
<1>2. "Insert" \in Body(r) /\ Sent(r) \subseteq {"CheckName"}
  BY <1>1, FormOf, Planned DEF Composed, Placed, PlacedFirst, Draws
<1>3. /\ Directed(req[r], 0, Sent(r) \cup {Now(r)})
      /\ "Read" \notin Sent(r) \cup {Now(r)}
  BY <1>1, <1>2, AllSent, FormOf DEF Directed, ByName, Draws
<1>4. BaseInv' /\ rows' = rows /\ Elsewhere(r) /\ repo' = repo
  BY DrawBase DEF FormInv, tables
<1>5. Whole(rows)'
  BY <1>4, WholeKept DEF FormInv
<1>6. PICK row : (Gone(r) \/ Onward(r, 0, row)) /\ row.protected = copy[r].protected
  <2>1. PICK n, k : \/ Leave(r, 0) \/ Proceed(r, 0, [copy[r] EXCEPT !.low = n])
                    \/ Proceed(r, 0, [copy[r] EXCEPT !.low = n, !.high = k])
    BY DEF DrawPlace, DrawVersion, FirstVersion
  <2> DEFINE one == [copy[r] EXCEPT !.low = n]
             two == [copy[r] EXCEPT !.low = n, !.high = k]
  <2>2. one.protected = copy[r].protected /\ two.protected = copy[r].protected
    BY FormOf, <1>1 DEF Row
  <2> HIDE DEF one, two
  <2>3. ASSUME NEW row, Proceed(r, 0, row) PROVE Gone(r) \/ Onward(r, 0, row)
    <3>1. CASE pc[r] = Len(Steps(req[r].method))
      BY <2>3, <3>1, Returns DEF FormInv, Proceed
    <3>2. CASE pc[r] # Len(Steps(req[r].method))
      <4>1. /\ pc' = [pc EXCEPT ![r] = @ + 1] /\ req' = [req EXCEPT ![r].id = 0]
            /\ copy' = [copy EXCEPT ![r] = row] /\ left' = left
        BY <2>3, <3>2 DEF Proceed
      <4>2. QED
        BY <3>2, <4>1 DEF Onward, FormInv, BaseInv, RTypeOK
    <3>3. QED
      BY <3>1, <3>2
  <2>4. Leave(r, 0) => Gone(r)
    BY Returns DEF FormInv
  <2>5. QED
    BY <2>1, <2>2, <2>3, <2>4 DEF one, two
<1>7. QED
  BY <1>1, <1>3, <1>4, <1>5, <1>6, FormOf, FormMoves

(* The row a call inserts has a name.                                      *)
LEMMA InsertsNamed ==
  ASSUME FormInv, NEW r \in Requests, pc[r] > 0, Now(r) = "Insert"
  PROVE  /\ ByName(req[r].method) /\ req[r].name # None /\ Merged(r).name = req[r].name
         /\ "Insert" \notin Sent(r) /\ req[r].id = 0 /\ Has(req[r].method, "Insert")
         /\ Merged(r).protected = copy[r].protected
<1>1. Has(req[r].method, "Insert")
  BY AllSent DEF FormInv
<1>2. ByName(req[r].method) /\ req[r].name # None
  BY <1>1, FormOf DEF ByName, Formed, Posed
<1>3. "Insert" \notin Sent(r)
  BY FormOf, Planned DEF Placed, PlacedWrite, Checks, Draws
<1>4. QED
  BY <1>1, <1>2, <1>3, FormOf, MergeTyped DEF Merged, Formed, Directed

LEMMA FormInsert ==
  ASSUME FormInv, NEW r \in Requests, Insert(r)
  PROVE  FormInv'
<1>1. /\ BaseInv' /\ Elsewhere(r) /\ repo' = repo /\ (Gone(r) \/ Onward(r, next, copy[r]))
      /\ pc[r] > 0 /\ Now(r) = "Insert"
  BY InsertBase, SentAt, NowAt DEF FormInv
<1>2. next \in Ids /\ rows' = [rows EXCEPT ![next] = Merged(r)] /\ rows \in [Ids -> Row]
  BY DEF Insert, FormInv, BaseInv, RTypeOK, Ids
<1>3. Whole(rows)'
  BY <1>1, <1>2, InsertsNamed, FormOf DEF Whole
<1>4. /\ Directed(req[r], next, Sent(r) \cup {Now(r)}) /\ next \in 0 .. MaxId
      /\ "Read" \in Sent(r) \cup {Now(r)} => copy[r].name # None
  BY <1>1, <1>2, FormOf DEF Directed, Formed, Ids
<1>5. QED
  BY <1>1, <1>3, <1>4, FormOf, FormMoves

LEMMA FormWrite ==
  ASSUME FormInv, NEW r \in Requests, Update(r) \/ WriteRow(r) \/ Increment(r)
  PROVE  FormInv'
<1>1. /\ Ordinary(r) /\ repo' = repo /\ pc[r] > 0
      /\ Now(r) \in {"Update", "WriteRow", "Increment"}
  BY WritesBase, SentAt, NowAt DEF FormInv, Ordinary
<1>2. Whole(rows)'
  <2> DEFINE i == req[r].id
  <2>1. CASE rows' = rows
    BY <1>1, <2>1, WholeKept DEF FormInv
  <2>2. CASE i \in Ids /\ Stored(i) /\ \E row : /\ rows' = [rows EXCEPT ![i] = row]
                                                /\ row.name # None
                                                /\ row.protected = rows[i].protected
    BY <1>1, <2>2 DEF FormInv, Whole, BaseInv, RTypeOK
  <2>3. ASSUME NEW row, Write(r, row), i \in Ids => row.protected = rows[i].protected,
               i \in Ids /\ Stored(i) => row.name # None
        PROVE  \/ rows' = rows
               \/ i \in Ids /\ Stored(i) /\ \E x : /\ rows' = [rows EXCEPT ![i] = x]
                                                   /\ x.name # None
                                                   /\ x.protected = rows[i].protected
    BY <2>3 DEF Write, FormInv, BaseInv, RTypeOK
  <2>4. i \in Ids => rows[i] \in Row /\ req[r] \in Request
    BY <1>1, FormOf DEF FormInv, BaseInv, RTypeOK
  <2>5. CASE Update(r)
    <3> DEFINE row == Merge(rows[i], req[r])
    <3>1. i \in Ids => row.protected = rows[i].protected
      BY <2>4, MergeTyped
    <3>2. i \in Ids /\ Stored(i) => row.name # None
      BY <2>4, MergeTyped DEF Stored
    <3>3. Write(r, row)
      BY <2>5 DEF Update
    <3> HIDE DEF row
    <3>4. QED
      BY <2>1, <2>2, <2>3, <3>1, <3>2, <3>3
  <2>6. CASE Increment(r)
    <3> DEFINE row == [rows[i] EXCEPT !.low = @ + 1]
    <3>1. i \in Ids => row.protected = rows[i].protected
      BY <2>4 DEF Row
    <3>2. i \in Ids /\ Stored(i) => row.name # None
      BY <2>4 DEF Stored, Row
    <3>3. Write(r, row)
      BY <2>6 DEF Increment
    <3> HIDE DEF row
    <3>4. QED
      BY <2>1, <2>2, <2>3, <3>1, <3>2, <3>3
  <2>7. CASE WriteRow(r)
    <3> DEFINE old == rows[i]
               new(c) == IF c \in Gives(req[r].method) THEN Merged(r)[c] ELSE old[c]
               row == [name |-> new("name"), flag |-> new("flag"), low |-> new("low"),
                       high |-> new("high"), protected |-> old.protected]
    <3>1. row.protected = rows[i].protected
      OBVIOUS
    <3>2. Now(r) = "WriteRow"
      BY <2>7, SentAt, NowAt
    <3>3. "Read" \in Sent(r)
      BY <1>1, <3>2, FormOf, Planned DEF Placed, PlacedWrite
    <3>4. Merged(r).name # None
      BY <1>1, <3>3, FormOf, MergeTyped DEF Formed, Merged
    <3>5. i \in Ids /\ Stored(i) => row.name # None
      BY <3>4 DEF Stored
    <3>6. Write(r, row)
      BY <2>7 DEF WriteRow
    <3> HIDE DEF row
    <3>7. QED
      BY <2>1, <2>2, <2>3, <3>1, <3>5, <3>6
  <2>8. QED
    BY <2>5, <2>6, <2>7
<1>3. QED
  BY <1>1, <1>2, FormOrdinary

LEMMA FormSweep ==
  ASSUME FormInv, NEW r \in Requests,
         ClearOthers(r) \/ ClearAll(r) \/ Delete(r) \/ DeleteNamed(r)
  PROVE  FormInv'
<1>1. /\ Ordinary(r) /\ repo' = repo /\ pc[r] > 0
      /\ Now(r) \in {"ClearOthers", "ClearAll", "Delete", "DeleteNamed"}
  BY SweepBase, SentAt, NowAt DEF FormInv, Ordinary
<1>2. ASSUME NEW i \in Ids
      PROVE  rows'[i] \in {rows[i], NoRow, [rows[i] EXCEPT !.flag = FALSE]} /\ rows[i] \in Row
  BY DEF ClearOthers, ClearAll, Delete, DeleteNamed, FormInv, BaseInv, RTypeOK
<1>3. Whole(rows)'
  <2> SUFFICES ASSUME NEW i \in Ids
               PROVE  /\ rows'[i].name = None => rows'[i] = NoRow
                      /\ rows'[i].protected => repo \in {"types", "roles"}
    BY <1>1 DEF Whole
  <2>1. /\ [rows[i] EXCEPT !.flag = FALSE].name = rows[i].name
        /\ [rows[i] EXCEPT !.flag = FALSE].protected = rows[i].protected
        /\ rows[i] = NoRow => [rows[i] EXCEPT !.flag = FALSE] = NoRow
    BY <1>2, LoweredFlag DEF Row
  <2>2. /\ rows[i].name = None => rows[i] = NoRow
        /\ rows[i].protected => repo \in {"types", "roles"}
    BY DEF FormInv, Whole
  <2>3. NoRow.name = None /\ NoRow.protected = FALSE
    BY DEF NoRow
  <2>4. QED
    BY <1>2, <2>1, <2>2, <2>3
<1>4. QED
  BY <1>1, <1>3, FormOrdinary

LEMMA FormLinks ==
  ASSUME FormInv, NEW r \in Requests,
         DeleteLinks(r) \/ RemoveLinks(r) \/ Star(r) \/ InsertLastLink(r)
  PROVE  FormInv'
<1>1. /\ Ordinary(r) /\ repo' = repo /\ pc[r] > 0
      /\ Now(r) \in {"DeleteLinks", "RemoveLinks", "Star", "InsertLinks"}
  BY LinksBase, SentAt, NowAt DEF FormInv, Ordinary
<1>2. rows' = rows
  BY DEF DeleteLinks, RemoveLinks, Star, InsertLastLink
<1>3. QED
  BY <1>1, <1>2, WholeKept, FormOrdinary DEF FormInv

LEMMA FormInsertLink ==
  ASSUME FormInv, NEW r \in Requests, NEW l \in Links, InsertLink(r, l)
  PROVE  FormInv'
<1>1. /\ UNCHANGED <<repo, rows, used, next, pc, req, copy, cut>>
      /\ left' = [left EXCEPT ![r] = @ \ {l}] /\ pc[r] > 0 /\ Now(r) = "InsertLinks"
  BY NowAt DEF InsertLink
<1>2. BaseInv' /\ Whole(rows)'
  BY <1>1, InsertLinkBase, WholeKept DEF FormInv
<1>3. ASSUME NEW x \in Requests \ {r} PROVE InForm(x)'
  <2>1. left'[x] = left[x] /\ InForm(x)
    BY <1>1 DEF FormInv, BaseInv, RTypeOK
  <2>2. QED
    BY <1>1, <2>1, FormedElsewhere DEF InForm
<1>4. InForm(r)'
  <2>1. left'[r] = left[r] \ {l} /\ l \in left[r] /\ left[r] # {l}
    BY <1>1 DEF FormInv, BaseInv, RTypeOK, InsertLink
  <2>2. Formed(r) /\ InForm(r)
    BY <1>1, FormOf DEF FormInv
  <2>3. Posed(req[r])' /\ Sent(r)' = Sent(r) /\ Now(r)' = Now(r)
    BY <1>1, <2>2 DEF Formed, Posed, Gives, ByName, Has, Steps, Sent, Now
  <2>4. Directed(req[r], req[r].id, Sent(r))'
    BY <1>1, <2>2, <2>3 DEF Formed, Directed, ByName, Has, Steps
  <2>5. Formed(r)'
    <3>1. "link" \notin Gives(req[r].method)
      BY <2>1, <2>2 DEF Formed, Holding, Posed
    <3>2. Holding(req[r], left[r], Now(r))'
      BY <1>1, <2>1, <2>2, <2>3, <3>1 DEF Formed, Holding, Gives
    <3>3. QED
      BY <1>1, <2>2, <2>3, <2>4, <3>2 DEF Formed
  <2>6. QED
    BY <1>1, <2>2, <2>5 DEF InForm
<1>5. QED
  BY <1>2, <1>3, <1>4 DEF FormInv

LEMMA FormStatement ==
  ASSUME FormInv, NEW r \in Requests, Statement(r)
  PROVE  FormInv'
<1>1. CASE Checking(r)
  BY <1>1, FormChecking
<1>2. CASE Read(r)
  BY <1>2, FormRead
<1>3. CASE DrawPlace(r) \/ DrawVersion(r) \/ FirstVersion(r)
  BY <1>3, FormDraw
<1>4. CASE Insert(r)
  BY <1>4, FormInsert
<1>5. CASE Update(r) \/ WriteRow(r) \/ Increment(r)
  BY <1>5, FormWrite
<1>6. CASE ClearOthers(r) \/ ClearAll(r) \/ Delete(r) \/ DeleteNamed(r)
  BY <1>6, FormSweep
<1>7. CASE DeleteLinks(r) \/ RemoveLinks(r) \/ Star(r) \/ InsertLastLink(r)
  BY <1>7, FormLinks
<1>8. CASE \E l \in Links : InsertLink(r, l)
  BY <1>8, FormInsertLink
<1>9. QED
  BY <1>1, <1>2, <1>3, <1>4, <1>5, <1>6, <1>7, <1>8 DEF Statement, Checking

(* A call that begins has sent nothing, and is given what its method takes.*)
LEMMA Begun ==
  ASSUME FormInv, NEW r \in Requests, Begin(r)
  PROVE  /\ pc[r] = 0 /\ pc'[r] = 1 /\ Sent(r)' = {} /\ copy'[r] = NoRow
         /\ left'[r] = req'[r].links /\ Formed(r)'
<1>1. /\ BaseInv' /\ UNCHANGED <<repo, tables, copy, cut>> /\ pc[r] = 0 /\ pc'[r] = 1
      /\ left'[r] = req'[r].links
      /\ \E m \in DOMAIN Code[repo] : req'[r] \in Calls(m)
  BY BeginBase DEF FormInv
<1>2. PICK m \in DOMAIN Code[repo] : req'[r] \in Calls(m)
  BY <1>1
<1>3. copy'[r] = NoRow
  BY <1>1 DEF FormInv, InForm
<1>4. Sent(r)' = {}
  <2>1. Orderly(repo, m, Code[repo][m]) /\ req'[r].method = m
    BY <1>2, MethodsOrderly DEF AllOrderly, FormInv, BaseInv, RTypeOK, Calls
  <2>2. DOMAIN Steps(m) = 1 .. Len(Steps(m))
    BY <2>1 DEF Orderly, Steps
  <2>3. Sent(r)' = Before(Steps(m), 1)
    BY <1>1, <2>1 DEF Sent, Steps
  <2>4. \A f : DOMAIN f = 1 .. Len(f) => Before(f, 1) = {}
    BY DEF Before
  <2>5. QED
    BY <2>2, <2>3, <2>4
<1>5. Posed(req'[r]) /\ req'[r].method = m /\ req'[r].id \in (IF ByName(m) THEN {0} ELSE Ids)
  <2> DEFINE q == req'[r]
  <2>1. /\ q.method = m
        /\ q.id \in (IF ByName(m) THEN {0} ELSE Ids)
        /\ q.name \in (IF "name" \notin Gives(m) THEN {None}
                       ELSE IF ByName(m) THEN Names ELSE Names \cup {None})
        /\ q.flag \in (IF "flag" \notin Gives(m) THEN {None}
                       ELSE IF ByName(m) THEN BOOLEAN ELSE BOOLEAN \cup {None})
        /\ q.low \in (IF "low" \in Gives(m) THEN Lows ELSE {0})
        /\ q.high \in (IF "high" \in Gives(m) THEN Highs ELSE {0})
        /\ q.links \in (IF "links" \in Gives(m) THEN LinkSets
                        ELSE IF "link" \in Gives(m) THEN {{l} : l \in Links} ELSE {{}})
    BY <1>2 DEF Calls
  <2>2. /\ ByName(m) => "name" \in Gives(m)
        /\ "link" \in Gives(m) => "links" \notin Gives(m)
    <3>1. Orderly(repo, m, Code[repo][m])
      BY <1>2, MethodsOrderly DEF AllOrderly, FormInv, BaseInv, RTypeOK
    <3> DEFINE S == Before(Steps(m), Len(Steps(m)) + 1)
    <3>2. Composed(repo, m, S, Gives(m)) /\ DOMAIN Steps(m) = 1 .. Len(Steps(m))
      BY <3>1 DEF Orderly, Steps, Gives
    <3>3. Len(Steps(m)) \in Nat
      BY <1>2, MethodsSound DEF Sound, Steps, FormInv, BaseInv, RTypeOK
    <3>4. \A s : Has(m, s) => s \in S
      BY <3>2, <3>3 DEF Has, Before
    <3> HIDE DEF S
    <3>5. QED
      BY <3>2, <3>4 DEF ByName, Composed
  <2>4. ByName(m) => q.name # None
    BY <2>1, <2>2, RepositoriesAssumption
  <2>5. "name" \notin Gives(m) => q["name"] = None
    BY <2>1
  <2>6. "flag" \notin Gives(m) => q["flag"] = None
    BY <2>1
  <2>7. "low" \notin Gives(m) => q["low"] = 0
    BY <2>1
  <2>8. "high" \notin Gives(m) => q["high"] = 0
    BY <2>1
  <2>9. /\ Gives(m) \cap {"link", "links"} = {} => q.links = {}
        /\ "link" \in Gives(m) => \E l \in Links : q.links = {l}
    BY <2>1, <2>2
  <2> HIDE DEF q
  <2>10. Posed(q)
    BY <2>1, <2>4, <2>5, <2>6, <2>7, <2>8, <2>9 DEF Posed
  <2>11. QED
    BY <2>1, <2>10 DEF q
<1>6. Posed(req[r])'
  BY <1>1, <1>5 DEF Posed, Gives, ByName, Has, Steps
<1>7. Directed(req[r], req[r].id, Sent(r))'
  BY <1>1, <1>4, <1>5 DEF Directed, ByName, Has, Steps
<1>8. Formed(r)'
  BY <1>1, <1>4, <1>6, <1>7 DEF Formed, Holding
<1>9. QED
  BY <1>1, <1>3, <1>4, <1>8

LEMMA FormBegin ==
  ASSUME FormInv, NEW r \in Requests, Begin(r)
  PROVE  FormInv'
<1>1. /\ BaseInv' /\ UNCHANGED <<repo, tables, copy, cut>>
      /\ \A x \in Requests \ {r} : pc'[x] = pc[x] /\ req'[x] = req[x] /\ left'[x] = left[x]
  BY BeginBase DEF FormInv
<1>2. Whole(rows)'
  BY <1>1, WholeKept DEF FormInv, tables
<1>3. ASSUME NEW x \in Requests \ {r} PROVE InForm(x)'
  BY <1>1, FormedElsewhere DEF FormInv, InForm
<1>4. InForm(r)'
  BY Begun DEF InForm, NoRow
<1>5. QED
  BY <1>1, <1>2, <1>3, <1>4 DEF FormInv

LEMMA FormBreakOff ==
  ASSUME FormInv, NEW r \in Requests, BreakOff(r)
  PROVE  FormInv'
<1>1. /\ BaseInv' /\ Elsewhere(r) /\ Gone(r) /\ UNCHANGED <<repo, tables>> /\ pc[r] > 0
  BY BreakOffBase DEF FormInv, BreakOff
<1>2. Whole(rows)'
  BY <1>1, WholeKept DEF FormInv, tables
<1>3. QED
  BY <1>1, <1>2, FormOf, FormMoves

LEMMA FormUnmoved ==
  ASSUME FormInv, BaseInv', UNCHANGED <<repo, rows, pc, req, copy, left>>
  PROVE  FormInv'
BY FormedElsewhere, WholeKept DEF FormInv, InForm

LEMMA FormInit ==
  ASSUME Init
  PROVE  FormInv
<1>1. BaseInv
  BY InitBase
<1>2. /\ pc = [r \in Requests |-> 0] /\ copy = [r \in Requests |-> NoRow]
      /\ \/ rows = [i \in Ids |-> NoRow]
         \/ /\ repo \in {"types", "roles"}
            /\ \E n \in Names :
                 rows = [i \in Ids |-> IF i = 1
                                       THEN [NoRow EXCEPT !.name = n, !.protected = TRUE]
                                       ELSE NoRow]
  BY DEF Init
<1>3. NoRow.protected = FALSE /\ NoRow.name = None
  BY DEF NoRow
<1>4. \A n \in Names : [NoRow EXCEPT !.name = n, !.protected = TRUE].name # None
  BY RepositoriesAssumption DEF NoRow
<1>5. Whole(rows)
  BY <1>2, <1>3, <1>4 DEF Whole
<1>6. ASSUME NEW r \in Requests PROVE InForm(r)
  <2>1. pc[r] = 0 /\ copy[r] = NoRow
    BY <1>2
  <2>2. QED
    BY <1>3, <2>1 DEF InForm
<1>7. QED
  BY <1>1, <1>5, <1>6 DEF FormInv

LEMMA FormNext ==
  ASSUME FormInv, [Next]_vars
  PROVE  FormInv'
<1>1. ASSUME NEW i \in Referable, Use(i) PROVE FormInv'
  BY <1>1, UseBase, FormUnmoved DEF FormInv, Use
<1>2. ASSUME UNCHANGED vars PROVE FormInv'
  BY <1>2, StutterBase, FormUnmoved DEF FormInv, vars, tables
<1>3. QED
  BY <1>1, <1>2, FormStatement, FormBegin, FormBreakOff DEF Next

-----------------------------------------------------------------------------
(***************************************************************************)
(* Undisturbed calls: what the tables were when the call began, what it    *)
(* was called with, which statements it has sent and what it holds say     *)
(* what the tables are now, and which checks were passed.                  *)
(***************************************************************************)
RowsOf(s, q, sent, c) ==
  IF sent \cap {"Insert", "Update"} # {}
  THEN [s.rows EXCEPT ![q.id] = Merge(s.rows[q.id], q)]
  ELSE IF "ClearAll" \in sent /\ Merge(c, q).flag /\ ~c.flag
  THEN [i \in Ids |-> [s.rows[i] EXCEPT !.flag = FALSE]]
  ELSE s.rows

LinksOf(s, q, sent, l) ==
  IF "DeleteLinks" \in sent THEN [s.links EXCEPT ![q.id] = q.links \ l] ELSE s.links

(* The copy is the row that was read, the numbers drawn, or nothing.       *)
CopyOf(s, q, sent, c) ==
  /\ "Read" \in sent => c = s.rows[q.id]
  /\ "DrawPlace" \in sent =>
       \E n \in Following({s.rows[k].high : k \in Ids}) :
         c = [NoRow EXCEPT !.low = n, !.high = n + 1]
  /\ "DrawVersion" \in sent =>
       \E n \in Following(VersionsOf(q.name, s.rows)) : c = [NoRow EXCEPT !.low = n]
  /\ "FirstVersion" \in sent => c = [NoRow EXCEPT !.low = 1]
  /\ sent \cap (Draws \cup {"Read"}) = {} => c = NoRow

PassedOf(s, q, sent, c) ==
  /\ "CheckName" \in sent =>
       \A k \in Ids \ {q.id} :
         s.rows[k].name # None => s.rows[k].name # Merge(c, q).name
  /\ "CheckUnused" \in sent => q.id \notin s.used
  /\ "CheckExists" \in sent => s.rows[q.id].name # None
  /\ "CheckProtected" \in sent => ~s.rows[q.id].protected
  /\ "CheckLinks" \in sent => q.links # {}
  /\ "CheckDates" \in sent => Ordered(Merge(c, q))
  /\ "DrawVersion" \in sent => News(q, s.rows)
  /\ "Insert" \in sent => s.rows[q.id] = NoRow
  /\ "Update" \in sent => s.rows[q.id].name # None

Undisturbed(r) ==
  /\ pc[r] > 0 /\ Whole(start[r].rows) /\ used = start[r].used
  /\ rows = RowsOf(start[r], req[r], Sent(r), copy[r])
  /\ links = LinksOf(start[r], req[r], Sent(r), left[r])
  /\ CopyOf(start[r], req[r], Sent(r), copy[r])
  /\ PassedOf(start[r], req[r], Sent(r), copy[r])

CallsInv == FormInv /\ \A r \in calm : Undisturbed(r)

(* What is read of such a call.                                            *)
LEMMA CalmOf ==
  ASSUME FormInv, NEW r \in Requests, Undisturbed(r)
  PROVE  /\ pc[r] > 0 /\ start[r].rows \in [Ids -> Row] /\ start[r].used \subseteq Ids
         /\ start[r].links \in [Ids -> SUBSET (Links \cup Names)]
         /\ Composed(repo, req[r].method, Body(r), Gives(req[r].method))
         /\ Placed(repo, req[r].method, Sent(r), Now(r), After(r))
BY Planned DEF Undisturbed, FormInv, BaseInv, RTypeOK, Tables

LEMMA MergeSame ==
  ASSUME NEW row \in Row, NEW q \in Request, NEW i \in 0 .. MaxId
  PROVE  /\ [q EXCEPT !.id = i] \in Request /\ [q EXCEPT !.id = i].id = i
         /\ [q EXCEPT !.id = i].links = q.links /\ [q EXCEPT !.id = i].name = q.name
         /\ Merge(row, [q EXCEPT !.id = i]) = Merge(row, q)
         /\ [q EXCEPT !.id = q.id] = q
BY DEF Merge, Row, Request

(* The call goes on, and the tables are again what it has sent says.       *)
LEMMA UndisturbedOn ==
  ASSUME FormInv, NEW r \in Requests, Undisturbed(r), NEW i \in 0 .. MaxId, NEW row,
         Onward(r, i, row), repo' = repo, start'[r] = start[r], used' = used,
         NEW q, q = [req[r] EXCEPT !.id = i],
         NEW sent, sent = Sent(r) \cup {Now(r)},
         rows' = RowsOf(start[r], q, sent, row),
         links' = LinksOf(start[r], q, sent, left[r]),
         CopyOf(start[r], q, sent, row), PassedOf(start[r], q, sent, row)
  PROVE  Undisturbed(r)'
<1>1. /\ Sent(r)' = sent /\ req'[r] = q /\ copy'[r] = row /\ left'[r] = left[r]
      /\ pc'[r] > 0
  <2>1. pc[r] > 0 /\ pc[r] \in Int /\ BaseInv
    BY DEF Undisturbed, FormInv, BaseInv, RTypeOK
  <2>2. Sent(r)' = sent
    BY <2>1, SentOnward
  <2>3. QED
    BY <2>1, <2>2 DEF Onward
<1>2. Whole(start[r].rows)' /\ used' = start'[r].used
  BY DEF Undisturbed, Whole
<1>3. QED
  BY <1>1, <1>2 DEF Undisturbed

(* While nothing was written the tables are as they were.                  *)
LEMMA NothingWritten ==
  ASSUME FormInv, NEW r \in Requests, Undisturbed(r),
         Sent(r) \subseteq Checks \cup Draws \cup {"Read"}
  PROVE  rows = start[r].rows /\ links = start[r].links /\ used = start[r].used
BY DEF Undisturbed, RowsOf, LinksOf, Checks, Draws

LEMMA CheckedSame ==
  ASSUME NEW s, NEW q, NEW sent, NEW c, NEW l, NEW x \in Checks
  PROVE  /\ RowsOf(s, q, sent \cup {x}, c) = RowsOf(s, q, sent, c)
         /\ LinksOf(s, q, sent \cup {x}, l) = LinksOf(s, q, sent, l)
         /\ CopyOf(s, q, sent \cup {x}, c) <=> CopyOf(s, q, sent, c)
<1>1. \A y \in {"Insert", "Update", "ClearAll", "DeleteLinks", "Read", "DrawPlace",
                "DrawVersion", "FirstVersion"} :
        y \in sent \cup {x} <=> y \in sent
  BY DEF Checks
<1>2. /\ (sent \cup {x}) \cap {"Insert", "Update"} = sent \cap {"Insert", "Update"}
      /\ (sent \cup {x}) \cap (Draws \cup {"Read"}) = sent \cap (Draws \cup {"Read"})
  BY <1>1 DEF Draws
<1>3. RowsOf(s, q, sent \cup {x}, c) = RowsOf(s, q, sent, c)
  BY <1>1, <1>2 DEF RowsOf
<1>4. LinksOf(s, q, sent \cup {x}, l) = LinksOf(s, q, sent, l)
  BY <1>1 DEF LinksOf
<1>5. CopyOf(s, q, sent \cup {x}, c) <=> CopyOf(s, q, sent, c)
  BY <1>1, <1>2 DEF CopyOf
<1>6. QED
  BY <1>3, <1>4, <1>5

(* What a check that passes says.                                          *)
Says(x, s, q, c) ==
  CASE x = "CheckName" -> \A k \in Ids \ {q.id} :
                            s.rows[k].name # None => s.rows[k].name # Merge(c, q).name
    [] x = "CheckUnused" -> q.id \notin s.used
    [] x = "CheckExists" -> s.rows[q.id].name # None
    [] x = "CheckProtected" -> ~s.rows[q.id].protected
    [] x = "CheckLinks" -> q.links # {}
    [] x = "CheckDates" -> Ordered(Merge(c, q))

LEMMA Passing ==
  ASSUME NEW s, NEW q, NEW sent, NEW c, NEW x \in Checks, PassedOf(s, q, sent, c),
         Says(x, s, q, c)
  PROVE  PassedOf(s, q, sent \cup {x}, c)
BY DEF PassedOf, Says, Checks

(* A check either passes or ends the call.                                 *)
LEMMA CheckingSays ==
  ASSUME FormInv, NEW r \in Requests, Undisturbed(r), Checking(r)
  PROVE  /\ Now(r) \in Checks /\ repo' = repo /\ UNCHANGED tables /\ Elsewhere(r)
         /\ rows = start[r].rows /\ links = start[r].links /\ used = start[r].used
         /\ \/ Says(Now(r), start[r], req[r], copy[r]) /\ Onward(r, req[r].id, copy[r])
            \/ ~Says(Now(r), start[r], req[r], copy[r]) /\ Gone(r) /\ pc'[r] = 0
<1> DEFINE holds(x) == Says(x, start[r], req[r], copy[r])
<1>1. /\ pc[r] > 0 /\ Now(r) \in Checks
  BY SentAt, NowAt DEF Checking, Checks
<1>2. /\ Sent(r) \subseteq Checks \cup Draws \cup {"Read"} /\ After(r) # 0
  BY <1>1, CalmOf DEF Placed, PlacedFirst
<1>3. rows = start[r].rows /\ links = start[r].links /\ used = start[r].used
  BY <1>2, NothingWritten
<1>4. UNCHANGED tables /\ (holds(Now(r)) => Go(r)) /\ (~holds(Now(r)) => Leave(r, 0))
  <2>1. CASE CheckName(r)
    <3> DEFINE passes == \A i \in Ids \ {req[r].id} : Stored(i) => rows[i].name # Merged(r).name
    <3>1. Now(r) = "CheckName"
      BY <2>1, SentAt, NowAt
    <3>2. UNCHANGED tables /\ (passes => Go(r)) /\ (~passes => Leave(r, 0))
      BY <2>1 DEF CheckName, Check, tables
    <3>3. holds("CheckName") <=> passes
      BY <1>3 DEF Says, Stored, Merged
    <3> HIDE DEF passes, holds
    <3>4. QED
      BY <3>1, <3>2, <3>3
  <2>2. CASE CheckUnused(r)
    <3> DEFINE passes == req[r].id \notin used
    <3>1. Now(r) = "CheckUnused"
      BY <2>2, SentAt, NowAt
    <3>2. UNCHANGED tables /\ (passes => Go(r)) /\ (~passes => Leave(r, 0))
      BY <2>2 DEF CheckUnused, Check, tables
    <3>3. holds("CheckUnused") <=> passes
      BY <1>3 DEF Says
    <3> HIDE DEF passes, holds
    <3>4. QED
      BY <3>1, <3>2, <3>3
  <2>3. CASE CheckExists(r)
    <3> DEFINE passes == Stored(req[r].id)
    <3>1. Now(r) = "CheckExists"
      BY <2>3, SentAt, NowAt
    <3>2. UNCHANGED tables /\ (passes => Go(r)) /\ (~passes => Leave(r, 0))
      BY <2>3 DEF CheckExists, Check, tables
    <3>3. holds("CheckExists") <=> passes
      BY <1>3 DEF Says, Stored
    <3> HIDE DEF passes, holds
    <3>4. QED
      BY <3>1, <3>2, <3>3
  <2>4. CASE CheckProtected(r)
    <3> DEFINE passes == ~rows[req[r].id].protected
    <3>1. Now(r) = "CheckProtected"
      BY <2>4, SentAt, NowAt
    <3>2. UNCHANGED tables /\ (passes => Go(r)) /\ (~passes => Leave(r, 0))
      BY <2>4 DEF CheckProtected, Check, tables
    <3>3. holds("CheckProtected") <=> passes
      BY <1>3 DEF Says
    <3> HIDE DEF passes, holds
    <3>4. QED
      BY <3>1, <3>2, <3>3
  <2>5. CASE CheckLinks(r)
    <3> DEFINE passes == req[r].links # {}
    <3>1. Now(r) = "CheckLinks"
      BY <2>5, SentAt, NowAt
    <3>2. UNCHANGED tables /\ (passes => Go(r)) /\ (~passes => Leave(r, 0))
      BY <2>5 DEF CheckLinks, Check, tables
    <3>3. holds("CheckLinks") <=> passes
      BY <1>3 DEF Says
    <3> HIDE DEF passes, holds
    <3>4. QED
      BY <3>1, <3>2, <3>3
  <2>6. CASE CheckDates(r)
    <3> DEFINE passes == Ordered(Merged(r))
    <3>1. Now(r) = "CheckDates"
      BY <2>6, SentAt, NowAt
    <3>2. UNCHANGED tables /\ (passes => Go(r)) /\ (~passes => Leave(r, 0))
      BY <2>6 DEF CheckDates, Check, tables
    <3>3. holds("CheckDates") <=> passes
      BY <1>3 DEF Says, Merged
    <3> HIDE DEF passes, holds
    <3>4. QED
      BY <3>1, <3>2, <3>3
  <2>7. QED
    BY <2>1, <2>2, <2>3, <2>4, <2>5, <2>6 DEF Checking
<1>5. CASE holds(Now(r))
  <2> HIDE DEF holds
  <2>1. Elsewhere(r) /\ repo' = repo /\ Onward(r, req[r].id, copy[r])
    BY <1>1, <1>2, <1>4, <1>5, FormOf, ProceedsOn DEF Go
  <2>2. QED
    BY <1>1, <1>3, <1>4, <1>5, <2>1 DEF holds
<1>6. CASE ~holds(Now(r))
  <2> HIDE DEF holds
  <2>1. Elsewhere(r) /\ repo' = repo /\ Gone(r) /\ pc'[r] = 0
    BY <1>4, <1>6, Returns DEF FormInv
  <2>2. QED
    BY <1>1, <1>3, <1>4, <1>6, <2>1 DEF holds
<1>7. QED
  BY <1>5, <1>6

LEMMA CheckingOn ==
  ASSUME FormInv, NEW r \in Requests, Undisturbed(r), Checking(r), start'[r] = start[r],
         pc'[r] > 0
  PROVE  Undisturbed(r)'
<1> DEFINE s == start[r]
           q == req[r]
           c == copy[r]
           x == Now(r)
<1>1. /\ x \in Checks /\ repo' = repo /\ UNCHANGED tables /\ Says(x, s, q, c)
      /\ Onward(r, q.id, c)
  BY CheckingSays
<1>2. q \in Request /\ c \in Row /\ q.id \in 0 .. MaxId /\ [q EXCEPT !.id = q.id] = q
  BY CalmOf, FormOf, MergeSame
<1>3. /\ rows' = RowsOf(s, q, Sent(r) \cup {x}, c)
      /\ links' = LinksOf(s, q, Sent(r) \cup {x}, left[r]) /\ used' = used
      /\ CopyOf(s, q, Sent(r) \cup {x}, c)
  BY <1>1, CheckedSame DEF Undisturbed, tables
<1>4. PassedOf(s, q, Sent(r) \cup {x}, c)
  BY <1>1, Passing DEF Undisturbed
<1>5. QED
  BY <1>1, <1>2, <1>3, <1>4, UndisturbedOn

LEMMA ReadOn ==
  ASSUME FormInv, NEW r \in Requests, Undisturbed(r), Read(r), start'[r] = start[r], pc'[r] > 0
  PROVE  Undisturbed(r)'
<1> DEFINE s == start[r]
           q == req[r]
           row == rows[q.id]
<1>1. /\ repo' = repo /\ UNCHANGED tables /\ Onward(r, q.id, row)
  BY ReadBase DEF FormInv, Gone
<1>2. Now(r) = "Read" /\ Sent(r) = {} /\ rows = s.rows /\ links = s.links
  <2>1. Now(r) = "Read"
    BY SentAt, NowAt
  <2>2. Sent(r) = {}
    BY <2>1, CalmOf DEF Placed, PlacedFirst
  <2>3. QED
    BY <2>1, <2>2, NothingWritten
<1>3. q \in Request /\ q.id \in 0 .. MaxId /\ [q EXCEPT !.id = q.id] = q
  BY CalmOf, FormOf, MergeSame
<1>4. Sent(r) \cup {Now(r)} = {"Read"}
  BY <1>2
<1>5. rows' = RowsOf(s, q, {"Read"}, row) /\ links' = LinksOf(s, q, {"Read"}, left[r])
  BY <1>1, <1>2 DEF RowsOf, LinksOf, tables
<1>6. CopyOf(s, q, {"Read"}, row) /\ PassedOf(s, q, {"Read"}, row)
  BY <1>2 DEF CopyOf, PassedOf, Draws
<1>7. used' = used
  BY <1>1 DEF tables
<1>8. QED
  BY <1>1, <1>3, <1>4, <1>5, <1>6, <1>7, UndisturbedOn

LEMMA DrawnRows ==
  ASSUME NEW n \in Nat
  PROVE  /\ [NoRow EXCEPT !.low = n] \in Row /\ [NoRow EXCEPT !.low = n, !.high = n + 1] \in Row
         /\ [NoRow EXCEPT !.low = n].name = None
         /\ [NoRow EXCEPT !.low = n, !.high = n + 1].name = None
<1>1. n + 1 \in Nat
  OBVIOUS
<1>2. \A k \in Nat : /\ [NoRow EXCEPT !.low = n, !.high = k] \in Row
                     /\ [NoRow EXCEPT !.low = n, !.high = k].name = None
  BY DEF NoRow, Row
<1>3. [NoRow EXCEPT !.low = n] \in Row /\ [NoRow EXCEPT !.low = n].name = None
  BY DEF NoRow, Row
<1>4. QED
  BY <1>1, <1>2, <1>3

(* What a call that is to create holds before it draws a number.           *)
LEMMA Drawing ==
  ASSUME FormInv, NEW r \in Requests, Undisturbed(r), Now(r) \in Draws
  PROVE  /\ Sent(r) \subseteq {"CheckName"} /\ copy[r] = NoRow /\ req[r].id = 0 /\ After(r) # 0
         /\ rows = start[r].rows /\ links = start[r].links /\ used = start[r].used
<1>1. Sent(r) \subseteq {"CheckName"} /\ After(r) # 0 /\ "Insert" \in Body(r)
  BY CalmOf DEF Placed, PlacedFirst, Composed, Draws
<1>2. copy[r] = NoRow
  BY <1>1 DEF Undisturbed, CopyOf, Draws
<1>3. rows = start[r].rows /\ links = start[r].links /\ used = start[r].used
  BY <1>1, NothingWritten DEF Checks
<1>4. req[r].id = 0
  BY <1>1, CalmOf, FormOf, AllSent DEF Formed, Directed, ByName
<1>5. QED
  BY <1>1, <1>2, <1>3, <1>4

LEMMA DrawOn ==
  ASSUME FormInv, NEW r \in Requests, Undisturbed(r),
         DrawPlace(r) \/ DrawVersion(r) \/ FirstVersion(r), start'[r] = start[r], pc'[r] > 0
  PROVE  Undisturbed(r)'
<1> DEFINE s == start[r]
           q == req[r]
           d == Sent(r) \cup {Now(r)}
<1>1. Now(r) \in Draws /\ pc[r] > 0
  BY SentAt, NowAt DEF Draws
<1>2. /\ Sent(r) \subseteq {"CheckName"} /\ copy[r] = NoRow /\ q.id = 0 /\ After(r) # 0
      /\ rows = s.rows /\ links = s.links /\ used = s.used
  BY <1>1, Drawing
<1>3. q \in Request /\ q.id \in 0 .. MaxId /\ [q EXCEPT !.id = q.id] = q /\ BaseInv
  BY CalmOf, FormOf, MergeSame
<1>4. UNCHANGED tables
  BY DrawBase DEF FormInv
<1>5. DrawVersion(r) => News(q, s.rows)
  BY <1>2, Returns DEF DrawVersion, Gone, FormInv
<1>6. PICK row \in Row : Proceed(r, 0, row) /\ row.name = None /\ CopyOf(s, q, d, row)
  <2>1. /\ {s.rows[i].high : i \in Ids} \subseteq Nat
        /\ VersionsOf(q.name, s.rows) \subseteq Nat
    BY CalmOf DEF Row, VersionsOf
  <2>2. CASE DrawPlace(r)
    <3>1. Now(r) = "DrawPlace"
      BY <2>2, SentAt, NowAt
    <3>2. PICK n \in Following({s.rows[i].high : i \in Ids}) :
            Proceed(r, 0, [NoRow EXCEPT !.low = n, !.high = n + 1])
      BY <1>2, <2>2 DEF DrawPlace
    <3> DEFINE row == [NoRow EXCEPT !.low = n, !.high = n + 1]
    <3>3. n \in Nat
      BY <2>1, FollowingTyped
    <3>4. row \in Row /\ row.name = None
      BY <3>3, DrawnRows
    <3>5. d \subseteq {"CheckName", "DrawPlace"} /\ "DrawPlace" \in d
      BY <1>2, <3>1
    <3>6. CopyOf(s, q, d, row)
      BY <3>5 DEF CopyOf, Draws
    <3> HIDE DEF row
    <3>7. QED
      BY <3>2, <3>4, <3>6 DEF row
  <2>3. CASE DrawVersion(r)
    <3>1. Now(r) = "DrawVersion"
      BY <2>3, SentAt, NowAt
    <3>2. PICK n \in Following(VersionsOf(q.name, s.rows)) :
            Proceed(r, 0, [NoRow EXCEPT !.low = n])
      BY <1>2, <1>5, <2>3 DEF DrawVersion
    <3> DEFINE row == [NoRow EXCEPT !.low = n]
    <3>3. n \in Nat
      BY <2>1, FollowingTyped
    <3>4. row \in Row /\ row.name = None
      BY <3>3, DrawnRows
    <3>5. d \subseteq {"CheckName", "DrawVersion"} /\ "DrawVersion" \in d
      BY <1>2, <3>1
    <3>6. CopyOf(s, q, d, row)
      BY <3>5 DEF CopyOf, Draws
    <3> HIDE DEF row
    <3>7. QED
      BY <3>2, <3>4, <3>6 DEF row
  <2>4. CASE FirstVersion(r)
    <3>1. Now(r) = "FirstVersion"
      BY <2>4, SentAt, NowAt
    <3> DEFINE row == [NoRow EXCEPT !.low = 1]
    <3>2. Proceed(r, 0, row)
      BY <1>2, <2>4 DEF FirstVersion
    <3>4. row \in Row /\ row.name = None
      BY DrawnRows
    <3>5. d \subseteq {"CheckName", "FirstVersion"} /\ "FirstVersion" \in d
      BY <1>2, <3>1
    <3>6. CopyOf(s, q, d, row)
      BY <3>5 DEF CopyOf, Draws
    <3> HIDE DEF row
    <3>7. QED
      BY <3>2, <3>4, <3>6
  <2>5. QED
    BY <2>2, <2>3, <2>4
<1>7. Onward(r, q.id, row) /\ repo' = repo
  BY <1>1, <1>2, <1>3, <1>6, ProceedsOn
<1>8. /\ "CheckName" \in d => "CheckName" \in Sent(r)
      /\ d \cap ((Checks \ {"CheckName"}) \cup {"Insert", "Update", "ClearAll", "DeleteLinks"}) = {}
  BY <1>1, <1>2 DEF Draws, Checks
<1>9. rows' = RowsOf(s, q, d, row) /\ links' = LinksOf(s, q, d, left[r]) /\ used' = used
  BY <1>2, <1>4, <1>8 DEF RowsOf, LinksOf, tables
<1>10. PassedOf(s, q, d, row)
  <2>1. Merge(row, q).name = Merge(NoRow, q).name
    BY <1>3, <1>6, Nothing, MergeTyped DEF NoRow
  <2>2. "DrawVersion" \in d => News(q, s.rows)
    <3>1. "DrawVersion" \in d => Now(r) = "DrawVersion"
      BY <1>2
    <3>2. QED
      BY <1>5, <3>1, SentAt, NowAt
  <2>3. QED
    BY <1>2, <1>8, <2>1, <2>2 DEF Undisturbed, PassedOf, Checks
<1> HIDE DEF d
<1>11. QED
  BY <1>3, <1>6, <1>7, <1>9, <1>10, UndisturbedOn DEF d

(* Where the call's row is: a call that is to create takes the next id.    *)
LEMMA Creates ==
  ASSUME FormInv, NEW r \in Requests, Undisturbed(r), Now(r) = "Insert"
  PROVE  /\ ByName(req[r].method) /\ req[r].name # None /\ Has(req[r].method, "Insert")
         /\ req[r].id = 0 /\ links = start[r].links /\ used = start[r].used
         /\ next \in Ids => rows[next] = NoRow /\ start[r].rows[next] = NoRow
<1>1. /\ ByName(req[r].method) /\ req[r].name # None /\ req[r].id = 0
      /\ Has(req[r].method, "Insert")
  BY CalmOf, InsertsNamed
<1>2. Sent(r) \cap {"Insert", "Update", "DeleteLinks"} = {}
  BY CalmOf DEF Placed, PlacedWrite, Draws
<1>3. links = start[r].links /\ used = start[r].used
  BY <1>2 DEF Undisturbed, LinksOf
<1>4. ASSUME next \in Ids
      PROVE  rows[next] = NoRow /\ start[r].rows[next] = NoRow
  <2>1. rows[next] = NoRow
    BY <1>4 DEF FormInv, BaseInv, NoneBeyond, Ids
  <2>2. \/ rows = start[r].rows
        \/ rows = [i \in Ids |-> [start[r].rows[i] EXCEPT !.flag = FALSE]]
    BY <1>2 DEF Undisturbed, RowsOf
  <2>3. rows[next].name = start[r].rows[next].name
    BY <1>4, <2>2, CalmOf, LoweredFlag
  <2>4. NoRow.name = None
    BY DEF NoRow
  <2>5. QED
    BY <1>4, <2>1, <2>3, <2>4 DEF Undisturbed, Whole
<1>5. QED
  BY <1>1, <1>3, <1>4

LEMMA InsertOn ==
  ASSUME FormInv, NEW r \in Requests, Undisturbed(r), Insert(r), start'[r] = start[r], pc'[r] > 0
  PROVE  Undisturbed(r)'
<1> DEFINE s == start[r]
           q == [req[r] EXCEPT !.id = next]
           d == Sent(r) \cup {"Insert"}
<1>1. /\ Now(r) = "Insert" /\ pc[r] > 0 /\ next \in Ids /\ next \in 0 .. MaxId
      /\ rows' = [rows EXCEPT ![next] = Merged(r)] /\ links' = links /\ used' = used
      /\ Proceed(r, next, copy[r])
  BY SentAt, NowAt DEF Insert, FormInv, BaseInv, RTypeOK, Ids
<1>2. Onward(r, next, copy[r]) /\ After(r) # 0 /\ repo' = repo
  BY <1>1, CalmOf, FormOf, ProceedsOn
<1>3. /\ Sent(r) \subseteq {"CheckName", "CheckLinks", "CheckDates"}
      /\ repo \in {"statuses", "priorities", "roles", "members"}
  BY <1>1, <1>2, CalmOf DEF Placed, PlacedWrite, Draws
<1>4. copy[r] = NoRow /\ rows = s.rows
  BY <1>3, NothingWritten DEF Undisturbed, CopyOf, Draws, Checks
<1>5. /\ q \in Request /\ q.id = next /\ q.links = req[r].links
      /\ Merge(NoRow, q) = Merge(NoRow, req[r])
  BY <1>1, <1>4, FormOf, MergeSame
<1>6. s.rows[next] = NoRow /\ links = s.links /\ req[r].id = 0
  BY <1>1, Creates
<1> HIDE DEF q
<1>7. rows' = RowsOf(s, q, d, copy[r])
  BY <1>1, <1>4, <1>5, <1>6 DEF RowsOf, Merged
<1>8. links' = LinksOf(s, q, d, left[r])
  BY <1>1, <1>3, <1>6 DEF LinksOf
<1>9. CopyOf(s, q, d, copy[r])
  BY <1>3, <1>4 DEF CopyOf, Draws
<1>10. PassedOf(s, q, d, copy[r])
  <2>1. /\ "CheckName" \in d => \A k \in Ids :
             s.rows[k].name # None => s.rows[k].name # Merge(copy[r], q).name
        /\ "CheckLinks" \in d => q.links # {}
        /\ "CheckDates" \in d => Ordered(Merge(copy[r], q))
    <3>1. PassedOf(s, req[r], Sent(r), copy[r]) /\ 0 \notin Ids
      BY DEF Undisturbed, Ids
    <3>2. QED
      BY <1>4, <1>5, <1>6, <3>1 DEF PassedOf
  <2>2. d \cap {"CheckUnused", "CheckExists", "CheckProtected", "DrawVersion", "Update"} = {}
    BY <1>3
  <2>3. QED
    BY <1>5, <1>6, <2>1, <2>2 DEF PassedOf
<1> HIDE DEF d
<1>11. QED
  BY <1>1, <1>2, <1>7, <1>8, <1>9, <1>10, UndisturbedOn DEF q, d

LEMMA UpdateOn ==
  ASSUME FormInv, NEW r \in Requests, Undisturbed(r), Update(r), start'[r] = start[r], pc'[r] > 0
  PROVE  Undisturbed(r)'
<1> DEFINE s == start[r]
           q == req[r]
           d == Sent(r) \cup {"Update"}
<1>1. Now(r) = "Update" /\ pc[r] > 0 /\ BaseInv
  BY SentAt, NowAt DEF FormInv
<1>2. q \in Request /\ q.id \in 0 .. MaxId /\ [q EXCEPT !.id = q.id] = q /\ copy[r] \in Row
  BY <1>1, FormOf, MergeSame
<1>3. Sent(r) \subseteq Checks
  BY <1>1, CalmOf DEF Placed, PlacedWrite
<1>4. rows = s.rows /\ links = s.links
  BY <1>3, NothingWritten
<1>5. /\ Stored(q.id) /\ rows' = [rows EXCEPT ![q.id] = Merge(rows[q.id], q)] /\ Go(r)
      /\ links' = links /\ used' = used
  BY <1>1, Returns DEF Update, Write
<1>6. Onward(r, q.id, copy[r]) /\ repo' = repo
  BY <1>1, <1>2, <1>5, ProceedsOn DEF Go
<1>7. rows' = RowsOf(s, q, d, copy[r])
  BY <1>4, <1>5 DEF RowsOf
<1>8. links' = LinksOf(s, q, d, left[r])
  BY <1>3, <1>4, <1>5 DEF LinksOf, Checks
<1>9. CopyOf(s, q, d, copy[r])
  BY <1>3 DEF CopyOf, Draws, Undisturbed, Checks
<1>10. PassedOf(s, q, d, copy[r])
  BY <1>3, <1>4, <1>5 DEF PassedOf, Undisturbed, Stored
<1> HIDE DEF d
<1>11. QED
  BY <1>1, <1>2, <1>5, <1>6, <1>7, <1>8, <1>9, <1>10, UndisturbedOn DEF d

LEMMA ClearAllOn ==
  ASSUME FormInv, NEW r \in Requests, Undisturbed(r), ClearAll(r), start'[r] = start[r]
  PROVE  Undisturbed(r)'
<1> DEFINE s == start[r]
           q == req[r]
           d == Sent(r) \cup {"ClearAll"}
<1>1. Now(r) = "ClearAll" /\ pc[r] > 0 /\ BaseInv
  BY SentAt, NowAt DEF FormInv
<1>2. q \in Request /\ q.id \in 0 .. MaxId /\ [q EXCEPT !.id = q.id] = q /\ copy[r] \in Row
  BY <1>1, FormOf, MergeSame
<1>3. Sent(r) \subseteq Checks \cup {"Read"} /\ After(r) # 0
  BY <1>1, CalmOf DEF Placed, PlacedWrite
<1>4. rows = s.rows /\ links = s.links
  BY <1>3, NothingWritten
<1>5. /\ Go(r) /\ links' = links /\ used' = used
      /\ rows' = IF Merge(copy[r], q).flag /\ ~copy[r].flag
                 THEN [i \in Ids |-> [rows[i] EXCEPT !.flag = FALSE]] ELSE rows
  BY DEF ClearAll, Merged
<1>6. Onward(r, q.id, copy[r]) /\ repo' = repo
  BY <1>1, <1>2, <1>3, <1>5, ProceedsOn DEF Go
<1>7. rows' = RowsOf(s, q, d, copy[r])
  BY <1>3, <1>4, <1>5 DEF RowsOf, Checks
<1>8. links' = LinksOf(s, q, d, left[r])
  BY <1>3, <1>4, <1>5 DEF LinksOf, Checks
<1>9. CopyOf(s, q, d, copy[r])
  <2>1. /\ \A x \in Draws \cup {"Read"} : x \in d <=> x \in Sent(r)
        /\ d \cap (Draws \cup {"Read"}) = Sent(r) \cap (Draws \cup {"Read"})
    BY DEF Draws
  <2>2. QED
    BY <2>1 DEF CopyOf, Undisturbed, Draws
<1>10. PassedOf(s, q, d, copy[r])
  BY DEF PassedOf, Undisturbed
<1> HIDE DEF d
<1>11. QED
  BY <1>1, <1>2, <1>5, <1>6, <1>7, <1>8, <1>9, <1>10, UndisturbedOn DEF d

LEMMA DeleteLinksOn ==
  ASSUME FormInv, NEW r \in Requests, Undisturbed(r), DeleteLinks(r), start'[r] = start[r],
         pc'[r] > 0
  PROVE  Undisturbed(r)'
<1> DEFINE s == start[r]
           q == req[r]
           d == Sent(r) \cup {"DeleteLinks"}
<1>1. Now(r) = "DeleteLinks" /\ pc[r] > 0 /\ BaseInv
  BY SentAt, NowAt DEF FormInv
<1>2. q \in Request /\ q.id \in 0 .. MaxId /\ [q EXCEPT !.id = q.id] = q /\ copy[r] \in Row
  BY <1>1, FormOf, MergeSame
<1>3. Sent(r) \subseteq Checks \cup {"Insert", "Update"}
  BY <1>1, CalmOf DEF Placed, PlacedLinks
<1>4. links = s.links /\ left[r] = q.links
  BY <1>1, <1>3, FormOf DEF Undisturbed, LinksOf, Checks, Formed, Holding
<1>5. /\ Go(r) /\ links' = [links EXCEPT ![q.id] = {}] /\ used' = used /\ rows' = rows
  BY DEF DeleteLinks
<1>6. Onward(r, q.id, copy[r]) /\ repo' = repo
  BY <1>1, <1>2, <1>5, ProceedsOn DEF Go
<1>7. rows' = RowsOf(s, q, d, copy[r])
  <2>1. /\ d \cap {"Insert", "Update"} = Sent(r) \cap {"Insert", "Update"}
        /\ "ClearAll" \in d <=> "ClearAll" \in Sent(r)
    OBVIOUS
  <2>2. QED
    BY <1>5, <2>1 DEF RowsOf, Undisturbed
<1>8. links' = LinksOf(s, q, d, left[r])
  BY <1>4, <1>5 DEF LinksOf
<1>9. CopyOf(s, q, d, copy[r])
  <2>1. /\ \A x \in Draws \cup {"Read"} : x \in d <=> x \in Sent(r)
        /\ d \cap (Draws \cup {"Read"}) = Sent(r) \cap (Draws \cup {"Read"})
    BY DEF Draws
  <2>2. QED
    BY <2>1 DEF CopyOf, Undisturbed, Draws
<1>10. PassedOf(s, q, d, copy[r])
  BY DEF PassedOf, Undisturbed
<1> HIDE DEF d
<1>11. QED
  BY <1>1, <1>2, <1>5, <1>6, <1>7, <1>8, <1>9, <1>10, UndisturbedOn DEF d

(* Links are inserted one by one after the old ones were deleted, or one.  *)
LEMMA InsertingLinks ==
  ASSUME FormInv, NEW r \in Requests, Undisturbed(r), Now(r) = "InsertLinks"
  PROVE  /\ After(r) = 0 /\ rows = RowsOf(start[r], req[r], Sent(r), copy[r])
         /\ left[r] \subseteq req[r].links /\ req[r].id \in Ids
         /\ \/ /\ "DeleteLinks" \in Sent(r)
               /\ links = [start[r].links EXCEPT ![req[r].id] = req[r].links \ left[r]]
            \/ /\ Sent(r) = {} /\ repo = "types" /\ req[r].method = "link"
               /\ links = start[r].links /\ \E l \in Links : req[r].links = {l}
<1>1. PlacedLinks(repo, req[r].method, Sent(r), Now(r), After(r))
  BY CalmOf DEF Placed
<1>2. req[r].method = "link" => \E l \in Links : req[r].links = {l}
  BY CalmOf, FormOf DEF Composed, Formed, Posed
<1>3. req[r].id \in Ids
  <2>1. ByName(req[r].method) => "Insert" \in Sent(r)
    BY <1>1, CalmOf, FormOf, AllSent DEF Composed, PlacedLinks, ByName
  <2>2. QED
    BY <2>1, CalmOf, FormOf DEF Formed, Directed
<1>4. left[r] \subseteq req[r].links
  BY CalmOf, FormOf DEF Formed, Holding
<1>5. QED
  BY <1>1, <1>2, <1>3, <1>4 DEF PlacedLinks, Undisturbed, LinksOf

LEMMA InsertLinkOn ==
  ASSUME FormInv, NEW r \in Requests, Undisturbed(r), NEW l \in Links, InsertLink(r, l),
         start'[r] = start[r]
  PROVE  Undisturbed(r)'
<1> DEFINE s == start[r]
           q == req[r]
<1>1. /\ UNCHANGED <<repo, rows, used, next, pc, req, copy, cut>> /\ Now(r) = "InsertLinks"
      /\ l \in left[r] /\ left[r] # {l} /\ left'[r] = left[r] \ {l}
      /\ links' = [links EXCEPT ![q.id] = @ \cup {l}]
  BY NowAt DEF InsertLink, FormInv, BaseInv, RTypeOK
<1>2. /\ "DeleteLinks" \in Sent(r) /\ links = [s.links EXCEPT ![q.id] = q.links \ left[r]]
      /\ left[r] \subseteq q.links /\ q.id \in Ids
  BY <1>1, InsertingLinks
<1>3. links' = [s.links EXCEPT ![q.id] = q.links \ (left[r] \ {l})]
  <2>1. (q.links \ left[r]) \cup {l} = q.links \ (left[r] \ {l})
    BY <1>1, <1>2
  <2>2. s.links \in [Ids -> SUBSET (Links \cup Names)]
    BY CalmOf
  <2>3. links' = [s.links EXCEPT ![q.id] = (q.links \ left[r]) \cup {l}]
    BY <1>1, <1>2, <2>2
  <2>4. QED
    BY <2>1, <2>3
<1>4. Sent(r)' = Sent(r)
  BY <1>1 DEF Sent, Steps
<1>5. links' = LinksOf(s, q, Sent(r), left[r] \ {l})
  BY <1>2, <1>3 DEF LinksOf
<1>6. Whole(s.rows)'
  BY <1>1 DEF Undisturbed, Whole
<1>7. QED
  BY <1>1, <1>4, <1>5, <1>6 DEF Undisturbed

-----------------------------------------------------------------------------
(* What a call that returns promises.                                      *)
Place(r) == IF Has(req[r].method, "Insert") /\ req[r].id = 0 THEN next ELSE req[r].id
Promise(r) ==
  IF Has(req[r].method, "DeleteNamed") \/ (Place(r) \in Ids /\ Accepts(req[r], Place(r), start[r]))
  THEN Result(req[r], Place(r), start[r])
  ELSE rows' = start[r].rows /\ links' = start[r].links

(* A call that is to insert a row takes a free place, any other has a row. *)
LEMMA Placing ==
  ASSUME FormInv, NEW r \in Requests, Undisturbed(r)
  PROVE  /\ Has(req[r].method, "Insert") <=>
              req[r].method = "create" \/ (req[r].method = "update" /\ repo = "journalService")
         /\ Has(req[r].method, "DeleteNamed") <=>
              req[r].method = "unwatch" \/ (req[r].method = "delete" /\ repo = "journalService")
         /\ "Insert" \in Sent(r) => Place(r) = req[r].id /\ req[r].id \in Ids
         /\ Has(req[r].method, "Insert") /\ "Insert" \notin Sent(r) =>
              req[r].id = 0 /\ Place(r) = next
         /\ ~Has(req[r].method, "Insert") /\ ~Has(req[r].method, "DeleteNamed") =>
              Place(r) = req[r].id /\ req[r].id \in Ids
<1> DEFINE m == req[r].method
<1>1. Formed(r) /\ BaseInv /\ pc[r] > 0
  BY CalmOf, FormOf
<1>2. /\ Has(m, "Insert") <=> "Insert" \in Body(r)
      /\ Has(m, "DeleteNamed") <=> "DeleteNamed" \in Body(r)
      /\ Sent(r) \subseteq Body(r)
  BY <1>1, AllSent
<1>3. Composed(repo, m, Body(r), Gives(m))
  BY CalmOf
<1>4. /\ Has(m, "Insert") <=> m = "create" \/ (m = "update" /\ repo = "journalService")
      /\ Has(m, "DeleteNamed") <=> m = "unwatch" \/ (m = "delete" /\ repo = "journalService")
  BY <1>2, <1>3 DEF Composed
<1>5. /\ ByName(m) <=> Has(m, "Insert") \/ Has(m, "DeleteNamed")
      /\ req[r].id \in (IF ByName(m) /\ "Insert" \notin Sent(r) THEN {0} ELSE Ids)
  BY <1>1 DEF ByName, Formed, Directed
<1>6. 0 \notin Ids
  BY DEF Ids
<1>7. QED
  BY <1>4, <1>5, <1>6 DEF Place

(* The row a call that returns an error was to take.                       *)
LEMMA Unwritten ==
  ASSUME FormInv, NEW r \in Requests, Undisturbed(r),
         Sent(r) \subseteq Checks \cup Draws \cup {"Read"}, Place(r) \in Ids
  PROVE  /\ Has(req[r].method, "Insert") => start[r].rows[Place(r)] = NoRow
         /\ "Read" \in Sent(r) => copy[r] = start[r].rows[req[r].id]
         /\ Sent(r) \cap (Draws \cup {"Read"}) = {} => copy[r] = NoRow
<1>1. Has(req[r].method, "Insert") => Place(r) = next
  BY Placing DEF Checks, Draws
<1>2. next \in Ids => rows[next] = NoRow
  BY DEF FormInv, BaseInv, NoneBeyond, Ids
<1>3. rows = start[r].rows
  BY NothingWritten
<1>4. QED
  BY <1>1, <1>2, <1>3 DEF Undisturbed, CopyOf

LEMMA NameRefused ==
  ASSUME FormInv, NEW r \in Requests, Undisturbed(r), Now(r) = "CheckName",
         ~Says("CheckName", start[r], req[r], copy[r]), Place(r) \in Ids
  PROVE  ~Accepts(req[r], Place(r), start[r])
<1> DEFINE s == start[r]
           q == req[r]
           i == Place(r)
<1>1. /\ Sent(r) \subseteq Checks \cup Draws \cup {"Read"} /\ Sent(r) \cap Draws = {}
      /\ repo \in KeepsUnique /\ q.method \in {"create", "update", "grant"}
      /\ "Read" \in Sent(r) <=> repo \in ChecksMerged /\ q.method # "create"
  <2>1. PlacedFirst(repo, q.method, Sent(r), "CheckName", After(r)) /\ "CheckName" \in Checks
    BY CalmOf DEF Placed, Checks
  <2>2. QED
    BY <2>1 DEF PlacedFirst
<1>2. PICK k \in Ids \ {q.id} : /\ s.rows[k].name # None
                                /\ s.rows[k].name = Merge(copy[r], q).name
  BY DEF Says
<1>3. /\ Has(q.method, "Insert") => s.rows[i] = NoRow
      /\ "Read" \in Sent(r) => copy[r] = s.rows[q.id]
      /\ "Read" \notin Sent(r) => copy[r] = NoRow
  BY <1>1, Unwritten
<1>4. /\ Has(q.method, "Insert") <=>
           q.method = "create" \/ (q.method = "update" /\ repo = "journalService")
      /\ ~Has(q.method, "Insert") => i = q.id
  BY <1>1, Placing
<1>5. repo # "journalService" /\ NoRow.name = None
  BY <1>1, UniqueKept DEF NoRow
<1>6. k # i
  BY <1>2, <1>3, <1>4, <1>5
<1>7. s.rows[i] \in Row /\ q \in Request /\ copy[r] \in Row
  BY CalmOf, FormOf
<1>8. /\ repo \in ChecksMerged => Merge(s.rows[i], q).name = Merge(copy[r], q).name
      /\ repo \notin ChecksMerged => q.name = Merge(copy[r], q).name
  <2>1. CASE "Read" \in Sent(r)
    BY <1>1, <1>3, <1>4, <1>5, <2>1
  <2>2. CASE "Read" \notin Sent(r) /\ repo \in ChecksMerged
    BY <1>1, <1>3, <1>4, <2>2
  <2>3. CASE repo \notin ChecksMerged
    BY <1>1, <1>2, <1>3, <1>5, <1>7, <2>3, MergeTyped
  <2>4. QED
    BY <2>1, <2>2, <2>3
<1>9. QED
  BY <1>1, <1>2, <1>6, <1>8 DEF Accepts

LEMMA CheckRefused ==
  ASSUME FormInv, NEW r \in Requests, Undisturbed(r), Now(r) \in Checks,
         ~Says(Now(r), start[r], req[r], copy[r]), Place(r) \in Ids
  PROVE  ~Accepts(req[r], Place(r), start[r])
<1> DEFINE s == start[r]
           q == req[r]
           i == Place(r)
<1>1. PlacedFirst(repo, q.method, Sent(r), Now(r), After(r))
  BY CalmOf DEF Placed
<1>2. /\ Has(q.method, "Insert") <=>
           q.method = "create" \/ (q.method = "update" /\ repo = "journalService")
      /\ Has(q.method, "DeleteNamed") <=>
           q.method = "unwatch" \/ (q.method = "delete" /\ repo = "journalService")
      /\ ~Has(q.method, "Insert") /\ ~Has(q.method, "DeleteNamed") => i = q.id
  BY Placing
<1>3. CASE Now(r) = "CheckName"
  BY <1>3, NameRefused
<1>4. CASE Now(r) = "CheckUnused"
  <2>1. q.method = "delete" /\ repo \in KeepsUsed /\ q.id \in s.used
    BY <1>1, <1>4 DEF PlacedFirst, Says
  <2>2. i = q.id
    BY <1>2, <2>1 DEF KeepsUsed
  <2>3. QED
    BY <2>1, <2>2 DEF Accepts
<1>5. CASE Now(r) = "CheckExists"
  <2>1. q.method \notin NeedsNoRow /\ repo # "journalService" /\ s.rows[q.id].name = None
    BY <1>1, <1>5 DEF PlacedFirst, Says
  <2>2. i = q.id
    BY <1>2, <2>1 DEF NeedsNoRow
  <2>3. s.rows[i] = NoRow
    BY <2>1, <2>2 DEF Undisturbed, Whole
  <2>4. QED
    BY <2>1, <2>3 DEF Accepts
<1>6. CASE Now(r) = "CheckProtected"
  <2>1. /\ repo = "roles" \/ (repo = "types" /\ q.method = "delete")
        /\ q.method \notin {"create", "unwatch"} /\ s.rows[q.id].protected
    BY <1>1, <1>6 DEF PlacedFirst, Says
  <2>2. i = q.id
    BY <1>2, <2>1
  <2>3. QED
    BY <2>1, <2>2 DEF Accepts
<1>7. CASE Now(r) = "CheckLinks"
  BY <1>1, <1>7 DEF PlacedFirst, Says, Accepts
<1>8. CASE Now(r) = "CheckDates"
  <2>1. /\ repo = "versions" /\ q.method \in {"create", "update"}
        /\ Sent(r) \cap Draws = {} /\ Sent(r) \subseteq Checks \cup Draws \cup {"Read"}
        /\ "Read" \in Sent(r) <=> q.method # "create"
        /\ ~Ordered(Merge(copy[r], q))
    BY <1>1, <1>8 DEF PlacedFirst, Says
  <2>2. /\ Has(q.method, "Insert") => s.rows[i] = NoRow
        /\ "Read" \in Sent(r) => copy[r] = s.rows[q.id]
        /\ "Read" \notin Sent(r) => copy[r] = NoRow
    BY <2>1, Unwritten
  <2>3. copy[r] = s.rows[i]
    BY <1>2, <2>1, <2>2
  <2>4. QED
    BY <2>1, <2>3 DEF Accepts
<1>9. QED
  BY <1>3, <1>4, <1>5, <1>6, <1>7, <1>8 DEF Checks

(* A check that fails leaves the tables as they were.                      *)
LEMMA CheckingReturns ==
  ASSUME FormInv, NEW r \in Requests, Undisturbed(r), Checking(r), pc'[r] = 0
  PROVE  Promise(r)
<1>1. /\ Now(r) \in Checks /\ UNCHANGED tables
      /\ rows = start[r].rows /\ links = start[r].links
      /\ ~Says(Now(r), start[r], req[r], copy[r])
  <2>1. pc[r] > 0 /\ pc[r] \in Int
    BY DEF Undisturbed, FormInv, BaseInv, RTypeOK
  <2>2. ~Onward(r, req[r].id, copy[r])
    BY <2>1 DEF Onward
  <2>3. QED
    BY <2>2, CheckingSays
<1>2. ~Has(req[r].method, "DeleteNamed")
  <2>1. PlacedFirst(repo, req[r].method, Sent(r), Now(r), After(r))
    BY CalmOf DEF Placed
  <2>2. QED
    BY <1>1, <2>1, Placing DEF PlacedFirst, Checks, NeedsNoRow, KeepsUsed
<1>3. rows' = start[r].rows /\ links' = start[r].links
  BY <1>1 DEF tables
<1>4. QED
  BY <1>1, <1>2, <1>3, CheckRefused DEF Promise

LEMMA ReadReturns ==
  ASSUME FormInv, NEW r \in Requests, Undisturbed(r), Read(r), pc'[r] = 0
  PROVE  Promise(r)
<1>1. Now(r) = "Read" /\ UNCHANGED tables /\ ~Stored(req[r].id)
  <2>1. pc[r] > 0 /\ pc[r] \in Int /\ Now(r) = "Read"
    BY SentAt, NowAt DEF Undisturbed, FormInv, BaseInv, RTypeOK
  <2>2. After(r) # 0
    BY <2>1, CalmOf DEF Placed, PlacedFirst
  <2>3. /\ UNCHANGED tables
        /\ Stored(req[r].id) => Proceed(r, req[r].id, rows[req[r].id])
    BY DEF Read
  <2>4. Stored(req[r].id) => pc' = [pc EXCEPT ![r] = @ + 1]
    BY <2>2, <2>3, <2>1, Planned DEF Proceed, After, FormInv
  <2>5. QED
    BY <2>1, <2>3, <2>4 DEF FormInv, BaseInv, RTypeOK
<1>2. /\ req[r].method \notin NeedsNoRow /\ repo # "journalService" /\ Sent(r) = {}
  BY <1>1, CalmOf DEF Placed, PlacedFirst
<1>3. rows = start[r].rows /\ links = start[r].links
  BY <1>2, NothingWritten
<1>4. ~Has(req[r].method, "DeleteNamed") /\ Place(r) = req[r].id /\ req[r].id \in Ids
  BY <1>2, Placing DEF NeedsNoRow
<1>5. start[r].rows[req[r].id] = NoRow
  BY <1>1, <1>3, <1>4 DEF Undisturbed, Whole, Stored
<1>6. ~Accepts(req[r], Place(r), start[r])
  BY <1>2, <1>4, <1>5 DEF Accepts
<1>7. QED
  BY <1>1, <1>3, <1>4, <1>6 DEF Promise, tables

(* An update that has nothing to record leaves the journal as it is.       *)
LEMMA DrawReturns ==
  ASSUME FormInv, NEW r \in Requests, Undisturbed(r), DrawVersion(r), pc'[r] = 0
  PROVE  Promise(r)
<1>1. Now(r) = "DrawVersion" /\ UNCHANGED tables /\ pc[r] \in Int /\ pc[r] > 0
  BY SentAt, NowAt DEF DrawVersion, FormInv, BaseInv, RTypeOK
<1>2. After(r) # 0 /\ rows = start[r].rows /\ links = start[r].links
  BY <1>1, Drawing DEF Draws
<1>3. ~News(req[r], rows)
  <2>1. pc[r] # Len(Steps(req[r].method))
    BY <1>1, <1>2, Planned DEF After, FormInv
  <2>2. News(req[r], rows) => pc' = [pc EXCEPT ![r] = @ + 1]
    BY <2>1 DEF DrawVersion, Proceed
  <2>3. QED
    BY <1>1, <2>2 DEF FormInv, BaseInv, RTypeOK
<1>4. req[r].method = "update" /\ repo = "journalService"
  <2>1. <<repo, req[r].method>> \in {<<"journals", "create">>, <<"journalService", "update">>}
    BY <1>1, CalmOf DEF Placed, PlacedFirst
  <2>2. QED
    BY <1>3, <2>1 DEF News
<1>5. ~Has(req[r].method, "DeleteNamed") /\ ~Accepts(req[r], Place(r), start[r])
  BY <1>2, <1>3, <1>4, Placing DEF Accepts
<1>6. QED
  BY <1>1, <1>2, <1>5 DEF Promise, tables

(* A call that read no row holds no name.                                  *)
LEMMA Nameless ==
  ASSUME FormInv, NEW r \in Requests, Undisturbed(r), "Read" \notin Sent(r)
  PROVE  copy[r].name = None /\ Merge(copy[r], req[r]).name = req[r].name
<1>1. CopyOf(start[r], req[r], Sent(r), copy[r])
  BY DEF Undisturbed
<1>2. \A n, k : [NoRow EXCEPT !.low = n, !.high = k].name = None
  BY DEF NoRow
<1>3. \A n : [NoRow EXCEPT !.low = n].name = None
  BY DEF NoRow
<1>4. copy[r].name = None
  <2>1. CASE "DrawPlace" \in Sent(r)
    <3>1. PICK n : copy[r] = [NoRow EXCEPT !.low = n, !.high = n + 1]
      BY <1>1, <2>1 DEF CopyOf
    <3>2. QED
      BY <1>2, <3>1
  <2>2. CASE "DrawVersion" \in Sent(r)
    <3>1. PICK n : copy[r] = [NoRow EXCEPT !.low = n]
      BY <1>1, <2>2 DEF CopyOf
    <3>2. QED
      BY <1>3, <3>1
  <2>3. CASE "FirstVersion" \in Sent(r)
    BY <1>1, <1>3, <2>3 DEF CopyOf
  <2>4. CASE Sent(r) \cap (Draws \cup {"Read"}) = {}
    <3>1. copy[r] = NoRow
      BY <1>1, <2>4 DEF CopyOf
    <3>2. QED
      BY <3>1 DEF NoRow
  <2>5. QED
    BY <2>1, <2>2, <2>3, <2>4 DEF Draws
<1>5. copy[r] \in Row /\ req[r] \in Request
  BY CalmOf, FormOf
<1>6. QED
  BY <1>4, <1>5, MergeTyped

(* A call that comes to its last statement passed all checks it is to pass.*)
LEMMA Accepted ==
  ASSUME FormInv, NEW r \in Requests, Undisturbed(r), After(r) = 0,
         ~Has(req[r].method, "DeleteNamed"), Place(r) \in Ids,
         \/ req[r].method \in NeedsNoRow \/ start[r].rows[Place(r)] # NoRow
         \/ repo = "journalService",
         req[r].method = "create" => start[r].rows[Place(r)] = NoRow
  PROVE  Accepts(req[r], Place(r), start[r])
<1> DEFINE s == start[r]
           q == req[r]
           c == copy[r]
           i == Place(r)
           m == q.method
<1>1. Now(r) \notin Checks \cup {"Read"}
  BY CalmOf DEF Placed, PlacedFirst
<1>2. Body(r) = Sent(r) \cup {Now(r)} /\ Composed(repo, m, Body(r), Gives(m)) /\ Formed(r)
  BY CalmOf, FormOf, AllSent
<1>3. \A x \in Checks \cup {"Read"} : x \in Body(r) <=> x \in Sent(r)
  BY <1>1, <1>2
<1>4. PassedOf(s, q, Sent(r), c) /\ CopyOf(s, q, Sent(r), c) /\ Whole(s.rows)
  BY DEF Undisturbed
<1>5. /\ Has(m, "Insert") <=> m = "create" \/ (m = "update" /\ repo = "journalService")
      /\ i = q.id \/ q.id = 0
      /\ ~Has(m, "Insert") => i = q.id
  BY Placing
<1>6. 0 \notin Ids
  BY DEF Ids
<1>7. s.rows[i] \in Row /\ q \in Request /\ NoRow \in Row /\ NoRow.name = None
  BY CalmOf, FormOf, Nothing DEF NoRow
<1>8. ASSUME repo \in KeepsUnique, m \in {"create", "update", "grant"},
             NEW name, name = (IF repo \in ChecksMerged THEN Merge(s.rows[i], q).name ELSE q.name),
             name # None, NEW k \in Ids \ {i}
      PROVE  s.rows[k].name # name
  <2>1. CASE "CheckName" \in Body(r)
    <3>1. "CheckName" \in Sent(r) /\ ("Read" \in Sent(r) <=> repo \in ChecksMerged /\ m # "create")
      BY <1>2, <1>3, <2>1 DEF Composed, Checks
    <3>2. name = Merge(c, q).name
      <4>1. CASE "Read" \in Sent(r)
        <5>1. c = s.rows[q.id] /\ i = q.id
          BY <1>4, <1>5, <1>8, <3>1, <4>1, UniqueKept DEF CopyOf
        <5>2. QED
          BY <1>8, <3>1, <4>1, <5>1
      <4>2. CASE "Read" \notin Sent(r)
        <5>1. Merge(c, q).name = q.name
          BY <4>2, Nameless
        <5>2. m = "create" => Merge(s.rows[i], q).name = q.name
          BY <1>7, MergeTyped
        <5>3. QED
          BY <1>8, <3>1, <4>2, <5>1, <5>2
      <4>3. QED
        BY <4>1, <4>2
    <3>3. k \in Ids \ {q.id}
      BY <1>5, <1>6
    <3>4. s.rows[k].name # None => s.rows[k].name # Merge(c, q).name
      BY <1>4, <3>1, <3>3 DEF PassedOf
    <3>5. QED
      BY <1>8, <3>2, <3>4
  <2>2. CASE "CheckName" \notin Body(r)
    <3>1. repo \notin ChecksMerged /\ "name" \notin Gives(m)
      BY <1>2, <1>8, <2>2 DEF Composed
    <3>2. q.name = None
      BY <1>2, <3>1 DEF Formed, Posed
    <3>3. QED
      BY <1>8, <3>1, <3>2
  <2>3. QED
    BY <2>1, <2>2
<1>9. m = "delete" /\ repo \in KeepsUsed => i \notin s.used
  BY <1>2, <1>3, <1>4, <1>5 DEF Composed, PassedOf, Checks, KeepsUsed
<1>10. s.rows[i].protected => ~(repo = "roles" \/ m = "delete")
  <2> SUFFICES ASSUME s.rows[i].protected, repo = "roles" \/ m = "delete" PROVE FALSE
    OBVIOUS
  <2>1. repo \in {"types", "roles"} /\ m # "create"
    BY <1>4 DEF Whole, NoRow
  <2>2. "CheckProtected" \in Sent(r) /\ i = q.id
    BY <1>2, <1>3, <1>5, <2>1 DEF Composed, Checks
  <2>3. QED
    BY <1>4, <2>2 DEF PassedOf
<1>11. repo = "versions" /\ m # "delete" => Ordered(Merge(s.rows[i], q))
  <2> SUFFICES ASSUME repo = "versions", m # "delete" PROVE Ordered(Merge(s.rows[i], q))
    OBVIOUS
  <2>1. /\ "CheckDates" \in Sent(r) /\ Sent(r) \cap Draws = {}
        /\ "Read" \in Sent(r) <=> m # "create"
    BY <1>2, <1>3 DEF Composed, Checks
  <2>2. c = s.rows[i]
    <3>1. CASE "Read" \in Sent(r)
      <4>1. i = q.id
        BY <1>5, <2>1, <3>1
      <4>2. QED
        BY <1>4, <3>1, <4>1 DEF CopyOf
    <3>2. CASE "Read" \notin Sent(r)
      <4>1. s.rows[i] = NoRow
        BY <2>1, <3>2
      <4>2. Sent(r) \cap (Draws \cup {"Read"}) = {}
        BY <2>1, <3>2
      <4>3. QED
        BY <1>4, <4>1, <4>2 DEF CopyOf
    <3>3. QED
      BY <3>1, <3>2
  <2>3. Ordered(Merge(c, q))
    BY <1>4, <2>1 DEF PassedOf
  <2>4. QED
    BY <2>2, <2>3
<1>12. repo = "members" /\ m # "delete" => q.links # {}
  BY <1>2, <1>3, <1>4 DEF Composed, PassedOf, Checks
<1>13. repo = "journalService" => News(q, s.rows)
  <2>1. Now(r) \notin Draws
    BY CalmOf DEF Placed, PlacedFirst
  <2>2. repo = "journalService" /\ m = "update" => "DrawVersion" \in Sent(r)
    BY <1>2, <2>1 DEF Composed, Draws
  <2>3. QED
    BY <1>4, <2>2 DEF PassedOf, News
<1>14. QED
  BY <1>8, <1>9, <1>10, <1>11, <1>12, <1>13 DEF Accepts

(* What a method is to make of its row and its links.                      *)
Plain(q) ==
  /\ q.method \notin {"delete", "download"}
  /\ ~(q.method = "create" /\ repo \in Counted)
  /\ ~(q.method = "update" /\ repo = "journalService")

LEMMA Rows ==
  ASSUME NEW q, NEW i, NEW s
  PROVE  /\ q.method = "delete" => RowResult(q, i, s) = {NoRow}
         /\ q.method = "download" =>
              RowResult(q, i, s) = {[Merge(s.rows[i], q) EXCEPT !.low = @ + 1]}
         /\ q.method = "create" /\ repo = "projects" =>
              RowResult(q, i, s) = {[Merge(s.rows[i], q) EXCEPT !.low = n, !.high = n + 1] :
                                     n \in Following({s.rows[k].high : k \in Ids})}
         /\ q.method = "create" /\ repo = "journalService" =>
              RowResult(q, i, s) = {[Merge(s.rows[i], q) EXCEPT !.low = 1]}
         /\ (q.method = "create" /\ repo = "journals")
              \/ (q.method = "update" /\ repo = "journalService") =>
              RowResult(q, i, s) = {[Merge(s.rows[i], q) EXCEPT !.low = n] :
                                     n \in Following(VersionsOf(q.name, s.rows))}
         /\ Plain(q) => RowResult(q, i, s) = {Merge(s.rows[i], q)}
BY DEF RowResult, Plain, Counted

LEMMA LinksOfMethod ==
  ASSUME NEW q, NEW i, NEW s
  PROVE  /\ q.method = "link" /\ repo = "types" => LinksResult(q, i, s) = s.links[i] \cup q.links
         /\ q.method = "unlink" /\ repo = "types" => LinksResult(q, i, s) = s.links[i] \ q.links
         /\ q.method = "star" /\ repo = "queries" =>
              LinksResult(q, i, s) = s.links[i] \cup {s.rows[i].name}
         /\ q.method = "unstar" /\ repo = "queries" => LinksResult(q, i, s) = {}
         /\ q.method = "delete" /\ repo \in {"members", "queries"} /\ q.links = {} =>
              LinksResult(q, i, s) = {}
         /\ q.method = "grant" \/ (q.method = "create" /\ repo \in {"roles", "members"})
              \/ (q.method = "update" /\ repo = "members") =>
              LinksResult(q, i, s) = q.links
         /\ q.method \in {"create", "update", "delete", "download"} /\ repo # "members"
              /\ ~(q.method = "create" /\ repo = "roles")
              /\ ~(q.method = "delete" /\ repo = "queries") =>
              LinksResult(q, i, s) = s.links[i]
<1>1. q.method = "link" /\ repo = "types" => LinksResult(q, i, s) = s.links[i] \cup q.links
  BY DEF LinksResult
<1>2. q.method = "unlink" /\ repo = "types" => LinksResult(q, i, s) = s.links[i] \ q.links
  BY DEF LinksResult
<1>3. q.method = "star" /\ repo = "queries" =>
        LinksResult(q, i, s) = s.links[i] \cup {s.rows[i].name}
  BY DEF LinksResult
<1>4. q.method = "unstar" /\ repo = "queries" => LinksResult(q, i, s) = {}
  BY DEF LinksResult
<1>5. q.method = "delete" /\ repo \in {"members", "queries"} /\ q.links = {} =>
        LinksResult(q, i, s) = {}
  BY DEF LinksResult
<1>6. q.method = "grant" \/ (q.method = "create" /\ repo \in {"roles", "members"})
        \/ (q.method = "update" /\ repo = "members") =>
        LinksResult(q, i, s) = q.links
  BY DEF LinksResult
<1>7. q.method \in {"create", "update", "delete", "download"} /\ repo # "members"
        /\ ~(q.method = "create" /\ repo = "roles")
        /\ ~(q.method = "delete" /\ repo = "queries") =>
        LinksResult(q, i, s) = s.links[i]
  <2> SUFFICES ASSUME q.method \in {"create", "update", "delete", "download"},
                      repo # "members", ~(q.method = "create" /\ repo = "roles"),
                      ~(q.method = "delete" /\ repo = "queries")
               PROVE  LinksResult(q, i, s) = s.links[i]
    OBVIOUS
  <2>1. /\ q.method \notin {"link", "unlink", "star", "unstar", "grant"}
        /\ ~(q.method = "delete" /\ repo \in {"members", "queries"})
    OBVIOUS
  <2>2. QED
    BY <2>1 DEF LinksResult
<1>8. QED
  BY <1>1, <1>2, <1>3, <1>4, <1>5, <1>6, <1>7, Zenon

(* A request that gives no column leaves a row as it is.                   *)
LEMMA MergeNothing ==
  ASSUME NEW row \in Row, NEW q \in Request, q.name = None, q.flag = None, q.low = 0, q.high = 0
  PROVE  Merge(row, q) = row
BY DEF Merge, Row

LEMMA Giving ==
  ASSUME FormInv, NEW r \in Requests, Undisturbed(r)
  PROVE  /\ "name" \notin Gives(req[r].method) => req[r].name = None
         /\ "flag" \notin Gives(req[r].method) => req[r].flag = None
         /\ "low" \notin Gives(req[r].method) => req[r].low = 0
         /\ "high" \notin Gives(req[r].method) => req[r].high = 0
         /\ Gives(req[r].method) \cap {"link", "links"} = {} => req[r].links = {}
BY CalmOf, FormOf DEF Formed, Posed

(* The last statement of an accepted call has done what is promised.       *)
LEMMA Kept ==
  ASSUME FormInv, NEW r \in Requests, Undisturbed(r), After(r) = 0,
         ~Has(req[r].method, "DeleteNamed"), Place(r) \in Ids,
         \/ req[r].method \in NeedsNoRow \/ start[r].rows[Place(r)] # NoRow
         \/ repo = "journalService",
         req[r].method = "create" => start[r].rows[Place(r)] = NoRow,
         rows'[Place(r)] \in RowResult(req[r], Place(r), start[r]),
         \A k \in Ids \ {Place(r)} :
           rows'[k] = IF Dethrones(req[r], Place(r), start[r])
                      THEN [start[r].rows[k] EXCEPT !.flag = FALSE]
                      ELSE start[r].rows[k],
         links' = [start[r].links EXCEPT ![Place(r)] = LinksResult(req[r], Place(r), start[r])]
  PROVE  Promise(r)
<1>1. Accepts(req[r], Place(r), start[r])
  BY Accepted
<1>2. ~(req[r].method = "unwatch" \/ (req[r].method = "delete" /\ repo = "journalService"))
  BY Placing
<1>3. Result(req[r], Place(r), start[r])
  BY <1>2 DEF Result
<1>4. QED
  BY <1>1, <1>3 DEF Promise

(* A call whose row is not there is not accepted, and changed nothing.     *)
LEMMA RowMissing ==
  ASSUME FormInv, NEW r \in Requests, Undisturbed(r),
         req[r].method \notin NeedsNoRow, repo # "journalService",
         Place(r) \in Ids => start[r].rows[Place(r)].name = None,
         rows' = start[r].rows, links' = start[r].links
  PROVE  Promise(r)
<1>1. ~Has(req[r].method, "DeleteNamed")
  BY Placing DEF NeedsNoRow
<1>2. Place(r) \in Ids => start[r].rows[Place(r)] = NoRow
  BY DEF Undisturbed, Whole
<1>3. Place(r) \in Ids => ~Accepts(req[r], Place(r), start[r])
  BY <1>2 DEF Accepts
<1>4. QED
  BY <1>1, <1>3 DEF Promise

LEMMA DeleteReturns ==
  ASSUME FormInv, NEW r \in Requests, Undisturbed(r), Delete(r)
  PROVE  Promise(r)
<1> DEFINE s == start[r]
           q == req[r]
           i == Place(r)
<1>1. /\ Now(r) = "Delete" /\ rows' = [rows EXCEPT ![q.id] = NoRow] /\ links' = links
  BY SentAt, NowAt DEF Delete
<1>2. /\ After(r) = 0 /\ q.method = "delete" /\ repo # "journalService"
      /\ Sent(r) \subseteq Checks \cup {"DeleteLinks"}
      /\ "DeleteLinks" \in Sent(r) <=> repo \in {"members", "queries"}
      /\ "DeleteLinks" \in Sent(r) => "CheckExists" \in Sent(r)
  BY <1>1, CalmOf DEF Placed, PlacedWrite
<1>3. i = q.id /\ q.id \in Ids /\ ~Has(q.method, "DeleteNamed")
  BY <1>2, Placing
<1>4. rows = s.rows
  BY <1>2 DEF Undisturbed, RowsOf, Checks
<1>5. s.rows \in [Ids -> Row] /\ s.links \in [Ids -> SUBSET (Links \cup Names)]
  BY CalmOf
<1>6. q.flag = None /\ q.links = {}
  <2>1. Gives(q.method) \subseteq {"name"}
    BY <1>2, CalmOf DEF Composed
  <2>2. QED
    BY <2>1, Giving
<1>7. CASE s.rows[i] = NoRow
  <2>1. s.rows[i].name = None
    BY <1>7 DEF NoRow
  <2>2. "DeleteLinks" \notin Sent(r)
    BY <1>2, <1>3, <2>1 DEF Undisturbed, PassedOf
  <2>3. rows' = s.rows /\ links' = s.links
    BY <1>1, <1>3, <1>4, <1>5, <1>7, <2>2 DEF Undisturbed, LinksOf
  <2>4. q.method \notin NeedsNoRow
    BY <1>2 DEF NeedsNoRow
  <2>5. repo # "journalService" /\ (i \in Ids => s.rows[i].name = None)
    BY <1>2, <2>1
  <2>6. QED
    BY <2>3, <2>4, <2>5, RowMissing
<1>8. CASE s.rows[i] # NoRow
  <2>1. rows'[i] \in RowResult(q, i, s)
    <3>1. rows'[i] = NoRow
      BY <1>1, <1>3, <1>4, <1>5
    <3>2. RowResult(q, i, s) = {NoRow}
      BY <1>2 DEF RowResult
    <3>3. QED
      BY <3>1, <3>2
  <2>2. ~Dethrones(q, i, s)
    BY <1>6, RepositoriesAssumption DEF Dethrones
  <2>3. \A k \in Ids \ {i} : rows'[k] = s.rows[k]
    BY <1>1, <1>3, <1>4, <1>5
  <2>4. links' = [s.links EXCEPT ![i] = LinksResult(q, i, s)]
    <3>1. CASE repo \in {"members", "queries"}
      BY <1>1, <1>2, <1>3, <1>6, <3>1, LinksOfMethod DEF Undisturbed, LinksOf
    <3>2. CASE repo \notin {"members", "queries"}
      BY <1>1, <1>2, <1>3, <1>5, <3>2, LinksOfMethod DEF Undisturbed, LinksOf
    <3>3. QED
      BY <3>1, <3>2
  <2>5. QED
    BY <1>2, <1>3, <1>8, <2>1, <2>2, <2>3, <2>4, Kept
<1>9. QED
  BY <1>7, <1>8

LEMMA DeleteNamedReturns ==
  ASSUME FormInv, NEW r \in Requests, Undisturbed(r), DeleteNamed(r)
  PROVE  Promise(r)
<1>1. Now(r) = "DeleteNamed" /\ Sent(r) = {}
  <2>1. Now(r) = "DeleteNamed"
    BY SentAt, NowAt
  <2>2. QED
    BY <2>1, CalmOf DEF Placed, PlacedWrite
<1>2. rows = start[r].rows /\ links = start[r].links
  BY <1>1, NothingWritten
<1>3. Has(req[r].method, "DeleteNamed")
  BY <1>1, AllSent, CalmOf DEF FormInv
<1>4. req[r].method = "unwatch" \/ (req[r].method = "delete" /\ repo = "journalService")
  BY <1>3, Placing
<1>5. Result(req[r], Place(r), start[r])
  BY <1>2, <1>4 DEF Result, DeleteNamed
<1>6. QED
  BY <1>3, <1>5 DEF Promise

LEMMA UpdateReturns ==
  ASSUME FormInv, NEW r \in Requests, Undisturbed(r), Update(r), pc'[r] = 0
  PROVE  Promise(r)
<1> DEFINE s == start[r]
           q == req[r]
           i == Place(r)
<1>1. Now(r) = "Update" /\ pc[r] > 0 /\ pc[r] \in Int
  BY SentAt, NowAt DEF FormInv, BaseInv, RTypeOK
<1>2. /\ Sent(r) \subseteq Checks /\ q.method \in {"update", "grant"}
      /\ repo \notin ChecksMerged \cup {"journals", "journalService"}
      /\ After(r) = 0 => /\ q.method = "update"
                         /\ repo \in {"types", "roles", "projects", "users", "timeEntries"}
  BY <1>1, CalmOf DEF Placed, PlacedWrite
<1>3. rows = s.rows /\ links = s.links
  BY <1>2, NothingWritten
<1>4. i = q.id /\ q.id \in Ids /\ ~Has(q.method, "DeleteNamed")
  BY <1>2, Placing
<1>5. links' = links
  BY DEF Update, Write
<1>6. CASE ~Stored(q.id)
  <2>1. rows' = rows
    BY <1>6 DEF Update, Write
  <2>2. QED
    BY <1>2, <1>3, <1>4, <1>5, <1>6, <2>1, RowMissing DEF NeedsNoRow, Stored
<1>7. CASE Stored(q.id)
  <2>1. rows' = [rows EXCEPT ![q.id] = Merge(rows[q.id], q)] /\ Go(r)
    BY <1>7 DEF Update, Write
  <2>2. After(r) = 0
    <3>1. Proceed(r, q.id, copy[r]) /\ BaseInv /\ q.id \in 0 .. MaxId /\ copy[r] \in Row
      BY <1>1, <2>1, FormOf DEF Go
    <3>2. ~Onward(r, q.id, copy[r])
      BY <1>1 DEF Onward
    <3>3. QED
      BY <1>1, <3>1, <3>2, ProceedsOn
  <2>3. s.rows[i] # NoRow
    BY <1>3, <1>4, <1>7 DEF Stored, NoRow
  <2>4. rows'[i] \in RowResult(q, i, s)
    <3>1. Plain(q)
      BY <1>2, <2>2 DEF Plain
    <3>2. rows'[i] = Merge(s.rows[i], q)
      BY <1>3, <1>4, <2>1, CalmOf
    <3>3. RowResult(q, i, s) = {Merge(s.rows[i], q)}
      BY <3>1, Rows, Zenon
    <3>4. QED
      BY <3>2, <3>3, Zenon
  <2>5. ~Dethrones(q, i, s)
    BY <1>2, <2>2 DEF Dethrones
  <2>6. \A k \in Ids \ {i} : rows'[k] = s.rows[k]
    BY <1>3, <1>4, <2>1, CalmOf
  <2>7. links' = [s.links EXCEPT ![i] = LinksResult(q, i, s)]
    BY <1>2, <1>3, <1>4, <1>5, <2>2, CalmOf, LinksOfMethod
  <2>8. q.method # "create"
    BY <1>2
  <2>9. QED
    BY <1>4, <2>2, <2>3, <2>4, <2>5, <2>6, <2>7, <2>8, Kept
<1>8. QED
  BY <1>6, <1>7

LEMMA IncrementReturns ==
  ASSUME FormInv, NEW r \in Requests, Undisturbed(r), Increment(r)
  PROVE  Promise(r)
<1> DEFINE s == start[r]
           q == req[r]
           i == Place(r)
<1>1. Now(r) = "Increment" /\ pc[r] > 0
  BY SentAt, NowAt
<1>2. Sent(r) = {} /\ q.method = "download" /\ repo = "attachments" /\ After(r) = 0
  BY <1>1, CalmOf DEF Placed, PlacedWrite
<1>3. rows = s.rows /\ links = s.links
  BY <1>2, NothingWritten
<1>4. i = q.id /\ q.id \in Ids /\ ~Has(q.method, "DeleteNamed")
  BY <1>2, Placing
<1>5. links' = links
  BY DEF Increment, Write
<1>6. CASE ~Stored(q.id)
  <2>1. rows' = rows
    BY <1>6 DEF Increment, Write
  <2>2. QED
    BY <1>2, <1>3, <1>4, <1>5, <1>6, <2>1, RowMissing DEF NeedsNoRow, Stored
<1>7. CASE Stored(q.id)
  <2>1. rows' = [rows EXCEPT ![q.id] = [rows[q.id] EXCEPT !.low = @ + 1]]
    BY <1>7 DEF Increment, Write
  <2>2. s.rows[i] # NoRow
    BY <1>3, <1>4, <1>7 DEF Stored, NoRow
  <2>3. Merge(s.rows[i], q) = s.rows[i]
    <3>1. Gives(q.method) \subseteq {"link", "links"}
      BY <1>2, CalmOf DEF Composed
    <3>2. QED
      BY <1>4, <3>1, CalmOf, FormOf, Giving, MergeNothing
  <2>4. rows'[i] \in RowResult(q, i, s)
    <3>1. rows'[i] = [Merge(s.rows[i], q) EXCEPT !.low = @ + 1]
      BY <1>3, <1>4, <2>1, <2>3, CalmOf
    <3>2. RowResult(q, i, s) = {[Merge(s.rows[i], q) EXCEPT !.low = @ + 1]}
      BY <1>2, Rows
    <3>3. QED
      BY <3>1, <3>2, Zenon
  <2>5. ~Dethrones(q, i, s)
    BY <1>2 DEF Dethrones
  <2>6. \A k \in Ids \ {i} : rows'[k] = s.rows[k]
    BY <1>3, <1>4, <2>1, CalmOf
  <2>7. links' = [s.links EXCEPT ![i] = LinksResult(q, i, s)]
    BY <1>2, <1>3, <1>4, <1>5, CalmOf, LinksOfMethod
  <2>8. QED
    BY <1>2, <1>4, <2>2, <2>4, <2>5, <2>6, <2>7, Kept
<1>8. QED
  BY <1>6, <1>7

(* A row is what its columns are.                                          *)
LEMMA SameRow ==
  ASSUME NEW a \in Row, NEW b \in Row,
         a.name = b.name, a.flag = b.flag, a.low = b.low, a.high = b.high,
         a.protected = b.protected
  PROVE  a = b
BY DEF Row

(* A number that was drawn stays when the request gives none.              *)
LEMMA MergeDrawn ==
  ASSUME NEW q \in Request, q.low = 0, NEW n \in Nat
  PROVE  /\ Merge([NoRow EXCEPT !.low = n], q) = [Merge(NoRow, q) EXCEPT !.low = n]
         /\ q.high = 0 => Merge([NoRow EXCEPT !.low = n, !.high = n + 1], q)
                            = [Merge(NoRow, q) EXCEPT !.low = n, !.high = n + 1]
<1> DEFINE m == Merge(NoRow, q)
<1>1. /\ NoRow \in Row /\ m \in Row /\ n + 1 \in Nat
      /\ m.name = (IF q.name = None THEN NoRow.name ELSE q.name)
      /\ m.flag = (IF q.flag = None THEN NoRow.flag ELSE q.flag)
      /\ m.high = (IF q.high = 0 THEN NoRow.high ELSE q.high)
      /\ m.protected = NoRow.protected
  BY Nothing, MergeTyped
<1> HIDE DEF m
<1>2. Merge([NoRow EXCEPT !.low = n], q) = [m EXCEPT !.low = n]
  <2> DEFINE a == [NoRow EXCEPT !.low = n]
             b == [m EXCEPT !.low = n]
  <2>1. /\ a \in Row /\ a.low = n /\ a.high = NoRow.high /\ a.name = NoRow.name
        /\ a.flag = NoRow.flag /\ a.protected = NoRow.protected
    BY <1>1 DEF Row
  <2>2. /\ b \in Row /\ b.low = n /\ b.high = m.high /\ b.name = m.name
        /\ b.flag = m.flag /\ b.protected = m.protected
    BY <1>1 DEF Row
  <2> HIDE DEF a, b
  <2>3. /\ Merge(a, q) \in Row /\ Merge(a, q).low = n /\ Merge(a, q).high = m.high
        /\ Merge(a, q).name = m.name /\ Merge(a, q).flag = m.flag
        /\ Merge(a, q).protected = m.protected
    BY <1>1, <2>1, MergeTyped
  <2>4. Merge(a, q) = b
    BY <2>2, <2>3, SameRow
  <2>5. QED
    BY <2>4 DEF a, b
<1>3. ASSUME q.high = 0, NEW k \in Nat
      PROVE  Merge([NoRow EXCEPT !.low = n, !.high = k], q)
               = [m EXCEPT !.low = n, !.high = k]
  <2> DEFINE a == [NoRow EXCEPT !.low = n, !.high = k]
             b == [m EXCEPT !.low = n, !.high = k]
  <2>1. /\ a \in Row /\ a.low = n /\ a.high = k /\ a.name = NoRow.name
        /\ a.flag = NoRow.flag /\ a.protected = NoRow.protected
    BY <1>1, <1>3 DEF Row
  <2>2. /\ b \in Row /\ b.low = n /\ b.high = k /\ b.name = m.name
        /\ b.flag = m.flag /\ b.protected = m.protected
    BY <1>1, <1>3 DEF Row
  <2> HIDE DEF a, b
  <2>3. /\ Merge(a, q) \in Row /\ Merge(a, q).low = n /\ Merge(a, q).high = k
        /\ Merge(a, q).name = m.name /\ Merge(a, q).flag = m.flag
        /\ Merge(a, q).protected = m.protected
    BY <1>1, <1>3, <2>1, MergeTyped
  <2>4. Merge(a, q) = b
    BY <2>2, <2>3, SameRow
  <2>5. QED
    BY <2>4 DEF a, b
<1>4. QED
  BY <1>1, <1>2, <1>3 DEF m

LEMMA FlagMerged ==
  ASSUME NEW q \in Request
  PROVE  Merge(NoRow, q).flag <=> q.flag = TRUE
BY RepositoriesAssumption DEF Merge, NoRow, Request

(* A call that returns at a statement that does not fail is at its last.   *)
LEMMA AtLast ==
  ASSUME FormInv, NEW r \in Requests, pc[r] > 0, pc'[r] = 0,
         NEW i \in 0 .. MaxId, NEW row \in Row, Proceed(r, i, row)
  PROVE  After(r) = 0
<1>1. BaseInv /\ pc[r] \in Int
  BY DEF FormInv, BaseInv, RTypeOK
<1>2. ~Onward(r, i, row)
  BY <1>1 DEF Onward
<1>3. QED
  BY <1>1, <1>2, ProceedsOn

LEMMA CountedRow ==
  ASSUME NEW q, NEW i, NEW s, NEW n
  PROVE  /\ q.method = "create" /\ repo = "projects"
              /\ n \in Following({s.rows[k].high : k \in Ids}) =>
              [Merge(s.rows[i], q) EXCEPT !.low = n, !.high = n + 1] \in RowResult(q, i, s)
         /\ ((q.method = "create" /\ repo = "journals")
              \/ (q.method = "update" /\ repo = "journalService"))
              /\ n \in Following(VersionsOf(q.name, s.rows)) =>
              [Merge(s.rows[i], q) EXCEPT !.low = n] \in RowResult(q, i, s)
BY DEF RowResult

LEMMA InsertedRow ==
  ASSUME FormInv, NEW r \in Requests, Undisturbed(r), Now(r) = "Insert", After(r) = 0,
         next \in Ids
  PROVE  Merged(r) \in RowResult(req[r], next, start[r])
<1> DEFINE s == start[r]
           q == req[r]
           c == copy[r]
           base == Merge(s.rows[next], q)
<1>1. /\ Sent(r) \subseteq {"CheckName", "CheckLinks", "CheckDates", "ClearAll"} \cup Draws
      /\ "DrawPlace" \in Sent(r) <=> repo = "projects"
      /\ "DrawVersion" \in Sent(r) <=>
           repo = "journals" \/ (repo = "journalService" /\ q.method = "update")
      /\ "FirstVersion" \in Sent(r) <=> repo = "journalService" /\ q.method = "create"
  BY CalmOf DEF Placed, PlacedWrite
<1>2. /\ q.method = "create" \/ (q.method = "update" /\ repo = "journalService")
      /\ s.rows[next] = NoRow
  BY Creates, Placing
<1>3. Composed(repo, q.method, Body(r), Gives(q.method))
  BY CalmOf
<1>4. /\ repo = "projects" => q.low = 0 /\ q.high = 0
      /\ repo \in {"journals", "journalService"} => q.low = 0
  BY <1>3, Giving DEF Composed
<1>5. q \in Request /\ s.rows \in [Ids -> Row] /\ CopyOf(s, q, Sent(r), c)
  BY CalmOf, FormOf DEF Undisturbed
<1>6. Merged(r) = Merge(c, q) /\ base = Merge(NoRow, q)
  BY <1>2 DEF Merged
<1> HIDE DEF base
<1>7. CASE repo = "projects"
  <2>1. PICK n \in Following({s.rows[k].high : k \in Ids}) :
          c = [NoRow EXCEPT !.low = n, !.high = n + 1]
    BY <1>1, <1>5, <1>7 DEF CopyOf
  <2>2. {s.rows[k].high : k \in Ids} \subseteq Nat
    BY <1>5 DEF Row
  <2>3. n \in Nat
    BY <2>1, <2>2, FollowingTyped
  <2>4. Merge(c, q) = [base EXCEPT !.low = n, !.high = n + 1]
    <3>1. Merge([NoRow EXCEPT !.low = n, !.high = n + 1], q)
            = [Merge(NoRow, q) EXCEPT !.low = n, !.high = n + 1]
      BY <1>4, <1>5, <1>7, <2>3, MergeDrawn
    <3>2. QED
      BY <1>6, <2>1, <3>1
  <2>5. [base EXCEPT !.low = n, !.high = n + 1] \in RowResult(q, next, s)
    BY <1>2, <1>7, <2>1, CountedRow DEF base
  <2>6. QED
    BY <1>6, <2>4, <2>5
<1>8. CASE repo = "journals" \/ (repo = "journalService" /\ q.method = "update")
  <2>1. PICK n \in Following(VersionsOf(q.name, s.rows)) : c = [NoRow EXCEPT !.low = n]
    BY <1>1, <1>5, <1>8 DEF CopyOf
  <2>2. VersionsOf(q.name, s.rows) \subseteq Nat
    BY <1>5 DEF Row, VersionsOf
  <2>3. n \in Nat
    BY <2>1, <2>2, FollowingTyped
  <2>4. Merge(c, q) = [base EXCEPT !.low = n]
    <3>1. Merge([NoRow EXCEPT !.low = n], q) = [Merge(NoRow, q) EXCEPT !.low = n]
      BY <1>4, <1>5, <1>8, <2>3, MergeDrawn
    <3>2. QED
      BY <1>6, <2>1, <3>1
  <2>5. [base EXCEPT !.low = n] \in RowResult(q, next, s)
    BY <1>2, <1>8, <2>1, CountedRow DEF base
  <2>6. QED
    BY <1>6, <2>4, <2>5
<1>9. CASE repo = "journalService" /\ q.method = "create"
  <2>1. c = [NoRow EXCEPT !.low = 1]
    BY <1>1, <1>5, <1>9 DEF CopyOf
  <2>2. Merge(c, q) = [base EXCEPT !.low = 1]
    <3>1. Merge([NoRow EXCEPT !.low = 1], q) = [Merge(NoRow, q) EXCEPT !.low = 1]
      BY <1>4, <1>5, <1>9, MergeDrawn
    <3>2. QED
      BY <1>6, <2>1, <3>1
  <2>3. RowResult(q, next, s) = {[base EXCEPT !.low = 1]}
    BY <1>9, Rows, Zenon DEF base
  <2>4. QED
    BY <1>6, <2>2, <2>3
<1>10. CASE repo \notin Counted
  <2>1. Sent(r) \cap (Draws \cup {"Read"}) = {}
    BY <1>1, <1>10 DEF Counted, Draws
  <2>2. c = NoRow
    BY <1>5, <2>1 DEF CopyOf
  <2>3. Plain(q)
    BY <1>2, <1>10 DEF Plain, Counted
  <2>4. RowResult(q, next, s) = {base}
    BY <2>3, Rows, Zenon DEF base
  <2>5. Merged(r) = base
    BY <1>6, <2>2
  <2>6. QED
    BY <2>4, <2>5
<1>11. QED
  BY <1>2, <1>7, <1>8, <1>9, <1>10 DEF Counted

LEMMA InsertReturns ==
  ASSUME FormInv, NEW r \in Requests, Undisturbed(r), Insert(r), pc'[r] = 0
  PROVE  Promise(r)
<1> DEFINE s == start[r]
           q == req[r]
           c == copy[r]
<1>1. /\ Now(r) = "Insert" /\ pc[r] > 0 /\ next \in Ids /\ next \in 0 .. MaxId
      /\ rows' = [rows EXCEPT ![next] = Merged(r)] /\ links' = links
      /\ Proceed(r, next, c)
  BY SentAt, NowAt DEF Insert, FormInv, BaseInv, RTypeOK, Ids
<1>2. After(r) = 0 /\ c \in Row /\ q \in Request /\ s.rows \in [Ids -> Row] /\ rows \in [Ids -> Row]
      /\ s.links \in [Ids -> SUBSET (Links \cup Names)]
  BY <1>1, CalmOf, FormOf, AtLast DEF FormInv, BaseInv, RTypeOK
<1>3. /\ Sent(r) \subseteq {"CheckName", "CheckLinks", "CheckDates", "ClearAll"} \cup Draws
      /\ repo \notin {"statuses", "priorities", "roles", "members"}
      /\ "ClearAll" \in Sent(r) <=> repo = "activities"
      /\ "DrawPlace" \in Sent(r) <=> repo = "projects"
      /\ "DrawVersion" \in Sent(r) <=>
           repo = "journals" \/ (repo = "journalService" /\ q.method = "update")
      /\ "FirstVersion" \in Sent(r) <=> repo = "journalService" /\ q.method = "create"
  BY <1>1, <1>2, CalmOf DEF Placed, PlacedWrite
<1>4. /\ q.method = "create" \/ (q.method = "update" /\ repo = "journalService")
      /\ s.rows[next] = NoRow /\ links = s.links /\ Place(r) = next
      /\ ~Has(q.method, "DeleteNamed")
  <2>1. "Insert" \notin Sent(r)
    BY <1>3 DEF Draws
  <2>2. QED
    BY <1>1, <2>1, Creates, Placing
<1>5. rows'[next] \in RowResult(q, next, s)
  BY <1>1, <1>2, InsertedRow
<1>6. \A k \in Ids \ {next} : rows'[k] = rows[k]
  BY <1>1, <1>2
<1>7. \A k \in Ids \ {next} :
        rows'[k] = IF Dethrones(q, next, s) THEN [s.rows[k] EXCEPT !.flag = FALSE] ELSE s.rows[k]
  <2>1. Sent(r) \cap {"Insert", "Update"} = {}
    BY <1>3 DEF Draws
  <2>2. CASE repo = "activities"
    <3>1. Sent(r) \cap (Draws \cup {"Read"}) = {}
      BY <1>3, <2>2 DEF Draws
    <3>2. c = NoRow
      BY <3>1 DEF Undisturbed, CopyOf
    <3>3. Merge(c, q).flag /\ ~c.flag <=> q.flag = TRUE
      <4>1. Merge(NoRow, q).flag <=> q.flag = TRUE
        BY <1>2, FlagMerged
      <4>2. ~NoRow.flag
        BY DEF NoRow
      <4>3. QED
        BY <3>2, <4>1, <4>2, Zenon
    <3>4. rows = IF q.flag = TRUE THEN [k \in Ids |-> [s.rows[k] EXCEPT !.flag = FALSE]] ELSE s.rows
      BY <1>3, <2>1, <2>2, <3>3 DEF Undisturbed, RowsOf
    <3>5. Dethrones(q, next, s) <=> q.flag = TRUE
      BY <1>4, <2>2 DEF Dethrones, NoRow
    <3>6. QED
      BY <1>6, <3>4, <3>5
  <2>3. CASE repo # "activities"
    <3>1. rows = s.rows
      BY <1>3, <2>1, <2>3 DEF Undisturbed, RowsOf
    <3>2. ~Dethrones(q, next, s)
      BY <1>3, <2>3 DEF Dethrones
    <3>3. QED
      BY <1>6, <3>1, <3>2
  <2>4. QED
    BY <2>2, <2>3
<1>8. links' = [s.links EXCEPT ![next] = LinksResult(q, next, s)]
  <2>1. LinksResult(q, next, s) = s.links[next]
    BY <1>3, <1>4, LinksOfMethod
  <2>2. QED
    BY <1>1, <1>2, <1>4, <2>1
<1>9. QED
  BY <1>1, <1>2, <1>4, <1>5, <1>7, <1>8, Kept DEF NeedsNoRow

(* What is written back, whole, is the row merged with the request.        *)
LEMMA WrittenBack ==
  ASSUME NEW old \in Row, NEW row \in Row, NEW q \in Request, NEW G,
         row.name = old.name, row.low = old.low, row.high = old.high,
         row.protected = old.protected, row.flag = old.flag \/ "flag" \in G,
         "name" \notin G => q.name = None, "flag" \notin G => q.flag = None,
         "low" \notin G => q.low = 0, "high" \notin G => q.high = 0
  PROVE  [name |-> IF "name" \in G THEN Merge(old, q)["name"] ELSE row["name"],
          flag |-> IF "flag" \in G THEN Merge(old, q)["flag"] ELSE row["flag"],
          low |-> IF "low" \in G THEN Merge(old, q)["low"] ELSE row["low"],
          high |-> IF "high" \in G THEN Merge(old, q)["high"] ELSE row["high"],
          protected |-> row.protected] = Merge(old, q)
<1> DEFINE new == Merge(old, q)
<1>1. /\ new.name = (IF q.name = None THEN old.name ELSE q.name)
      /\ new.flag = (IF q.flag = None THEN old.flag ELSE q.flag)
      /\ new.low = (IF q.low = 0 THEN old.low ELSE q.low)
      /\ new.high = (IF q.high = 0 THEN old.high ELSE q.high)
      /\ new.protected = old.protected /\ new \in Row
  BY MergeTyped
<1> HIDE DEF new
<1>2. new = [name |-> new.name, flag |-> new.flag, low |-> new.low, high |-> new.high,
             protected |-> new.protected]
  BY <1>1 DEF Row
<1>3. /\ (IF "name" \in G THEN new.name ELSE row.name) = new.name
      /\ (IF "flag" \in G THEN new.flag ELSE row.flag) = new.flag
      /\ (IF "low" \in G THEN new.low ELSE row.low) = new.low
      /\ (IF "high" \in G THEN new.high ELSE row.high) = new.high
      /\ row.protected = new.protected
  BY <1>1
<1>4. QED
  BY <1>2, <1>3 DEF new

LEMMA FlagRaised ==
  ASSUME NEW row \in Row, NEW q \in Request
  PROVE  Merge(row, q).flag /\ ~row.flag <=> q.flag = TRUE /\ ~row.flag
BY RepositoriesAssumption DEF Merge, Row, Request

LEMMA WriteRowReturns ==
  ASSUME FormInv, NEW r \in Requests, Undisturbed(r), WriteRow(r)
  PROVE  Promise(r)
<1> DEFINE s == start[r]
           q == req[r]
           c == copy[r]
           i == Place(r)
           row == rows[q.id]
           raised == q.flag = TRUE /\ ~s.rows[i].flag
<1>1. Now(r) = "WriteRow" /\ pc[r] > 0
  BY SentAt, NowAt
<1>2. /\ After(r) = 0 /\ q.method = "update" /\ "Read" \in Sent(r)
      /\ Sent(r) \subseteq Checks \cup {"Read", "ClearAll"}
      /\ repo \in ChecksMerged \cup {"relations", "queries", "journals", "attachments"}
      /\ "ClearAll" \in Sent(r) <=> repo = "activities"
  BY <1>1, CalmOf DEF Placed, PlacedWrite
<1>3. i = q.id /\ q.id \in Ids /\ ~Has(q.method, "DeleteNamed") /\ repo # "journalService"
  BY <1>2, Placing DEF ChecksMerged
<1>4. c = s.rows[i] /\ c.name # None
  BY <1>2, <1>3, CalmOf, FormOf DEF Undisturbed, CopyOf, Formed
<1>5. /\ s.rows \in [Ids -> Row] /\ rows \in [Ids -> Row] /\ q \in Request /\ s.rows[i] \in Row
      /\ s.links \in [Ids -> SUBSET (Links \cup Names)]
  BY <1>3, CalmOf, FormOf DEF FormInv, BaseInv, RTypeOK
<1>6. links = s.links
  BY <1>2 DEF Undisturbed, LinksOf, Checks
<1>7. rows = IF repo = "activities" /\ raised THEN [k \in Ids |-> [s.rows[k] EXCEPT !.flag = FALSE]]
             ELSE s.rows
  <2>1. Merge(c, q).flag /\ ~c.flag <=> raised
    BY <1>4, <1>5, FlagRaised
  <2>2. Sent(r) \cap {"Insert", "Update"} = {}
    BY <1>2 DEF Checks
  <2>3. rows = IF "ClearAll" \in Sent(r) /\ Merge(c, q).flag /\ ~c.flag
               THEN [k \in Ids |-> [s.rows[k] EXCEPT !.flag = FALSE]] ELSE s.rows
    BY <2>2 DEF Undisturbed, RowsOf
  <2> HIDE DEF raised
  <2>4. QED
    BY <1>2, <2>1, <2>3
<1>8. /\ row \in Row /\ row.name = s.rows[i].name /\ row.low = s.rows[i].low
      /\ row.high = s.rows[i].high /\ row.protected = s.rows[i].protected
      /\ row.flag = s.rows[i].flag \/ raised
  <2>1. CASE repo = "activities" /\ raised
    <3>1. row = [s.rows[i] EXCEPT !.flag = FALSE]
      BY <1>3, <1>7, <2>1
    <3>2. QED
      BY <1>3, <1>5, <2>1, <3>1 DEF Row
  <2>2. CASE ~(repo = "activities" /\ raised)
    BY <1>3, <1>5, <1>7, <2>2
  <2>3. QED
    BY <2>1, <2>2
<1>9. /\ "name" \notin Gives(q.method) => q.name = None
      /\ "flag" \notin Gives(q.method) => q.flag = None
      /\ "low" \notin Gives(q.method) => q.low = 0
      /\ "high" \notin Gives(q.method) => q.high = 0
  BY Giving
<1>10. row.flag = s.rows[i].flag \/ "flag" \in Gives(q.method)
  BY <1>8, <1>9, RepositoriesAssumption
<1>11. rows' = [rows EXCEPT ![q.id] = Merge(s.rows[i], q)] /\ links' = links
  <2> DEFINE new(f) == IF f \in Gives(q.method) THEN Merged(r)[f] ELSE row[f]
             written == [name |-> new("name"), flag |-> new("flag"), low |-> new("low"),
                         high |-> new("high"), protected |-> row.protected]
  <2>1. Stored(q.id)
    BY <1>4, <1>8 DEF Stored
  <2>2. Write(r, written)
    BY DEF WriteRow
  <2>3. written = Merge(s.rows[i], q)
    <3> DEFINE G == Gives(q.method)
               old == s.rows[i]
               merged == Merge(old, q)
    <3>1. Merged(r) = merged
      BY <1>4 DEF Merged
    <3> HIDE DEF row, G, old
    <3>2. /\ old \in Row /\ row \in Row /\ q \in Request
          /\ row.name = old.name /\ row.low = old.low /\ row.high = old.high
          /\ row.protected = old.protected /\ (row.flag = old.flag \/ "flag" \in G)
          /\ "name" \notin G => q.name = None
          /\ "flag" \notin G => q.flag = None
          /\ "low" \notin G => q.low = 0
          /\ "high" \notin G => q.high = 0
      BY <1>5, <1>8, <1>9, <1>10 DEF old, G
    <3>3. [name |-> IF "name" \in G THEN merged["name"] ELSE row["name"],
           flag |-> IF "flag" \in G THEN merged["flag"] ELSE row["flag"],
           low |-> IF "low" \in G THEN merged["low"] ELSE row["low"],
           high |-> IF "high" \in G THEN merged["high"] ELSE row["high"],
           protected |-> row.protected] = merged
      BY <3>2, WrittenBack
    <3>4. QED
      BY <3>1, <3>3 DEF G, old
  <2> HIDE DEF written
  <2>4. QED
    BY <2>1, <2>2, <2>3 DEF Write
<1>12. rows'[i] \in RowResult(q, i, s)
  <2>1. Plain(q)
    BY <1>2, <1>3 DEF Plain
  <2>2. RowResult(q, i, s) = {Merge(s.rows[i], q)}
    BY <2>1, Rows, Zenon
  <2>3. rows'[i] = Merge(s.rows[i], q)
    BY <1>3, <1>5, <1>11
  <2>4. QED
    BY <2>2, <2>3, Zenon
<1>13. \A k \in Ids \ {i} :
         rows'[k] = IF Dethrones(q, i, s) THEN [s.rows[k] EXCEPT !.flag = FALSE] ELSE s.rows[k]
  <2>1. Dethrones(q, i, s) <=> repo = "activities" /\ raised
    BY <1>2 DEF Dethrones, ChecksMerged
  <2>2. \A k \in Ids \ {i} : rows'[k] = rows[k]
    BY <1>3, <1>5, <1>11
  <2> HIDE DEF raised
  <2>3. QED
    BY <1>7, <2>1, <2>2
<1>14. links' = [s.links EXCEPT ![i] = LinksResult(q, i, s)]
  <2>1. LinksResult(q, i, s) = s.links[i]
    BY <1>2, LinksOfMethod DEF ChecksMerged
  <2>2. QED
    BY <1>3, <1>5, <1>6, <1>11, <2>1
<1>15. s.rows[i] # NoRow /\ q.method # "create"
  BY <1>2, <1>4 DEF NoRow
<1>16. QED
  BY <1>2, <1>3, <1>12, <1>13, <1>14, <1>15, Kept

LEMMA ClearOthersReturns ==
  ASSUME FormInv, NEW r \in Requests, Undisturbed(r), ClearOthers(r)
  PROVE  Promise(r)
<1> DEFINE s == start[r]
           q == req[r]
           i == Place(r)
<1>1. Now(r) = "ClearOthers" /\ pc[r] > 0
  BY SentAt, NowAt
<1>2. /\ After(r) = 0 /\ Sent(r) \subseteq Checks \cup {"Insert", "Update"}
      /\ repo \in {"statuses", "priorities"} /\ q.method \in {"create", "update"}
      /\ "Insert" \in Sent(r) <=> q.method = "create"
      /\ "Update" \in Sent(r) <=> q.method = "update"
  BY <1>1, CalmOf DEF Placed, PlacedWrite
<1>3. i = q.id /\ q.id \in Ids /\ ~Has(q.method, "DeleteNamed")
  BY <1>2, Placing
<1>4. /\ s.rows \in [Ids -> Row] /\ s.links \in [Ids -> SUBSET (Links \cup Names)]
  BY CalmOf
<1>5. rows = [s.rows EXCEPT ![i] = Merge(s.rows[i], q)] /\ links = s.links
  <2>1. Sent(r) \cap {"Insert", "Update"} # {} /\ "DeleteLinks" \notin Sent(r)
    BY <1>2 DEF Checks
  <2>2. QED
    BY <1>3, <2>1 DEF Undisturbed, RowsOf, LinksOf
<1>6. /\ q.method = "create" => s.rows[i] = NoRow
      /\ q.method = "update" => s.rows[i] # NoRow
  BY <1>2, <1>3 DEF Undisturbed, PassedOf, NoRow
<1>7. /\ links' = links
      /\ rows' = IF q.flag = TRUE
                 THEN [k \in Ids |-> IF k = i THEN rows[k] ELSE [rows[k] EXCEPT !.flag = FALSE]]
                 ELSE rows
  BY <1>3 DEF ClearOthers
<1>8. rows'[i] \in RowResult(q, i, s)
  <2>1. Plain(q)
    BY <1>2 DEF Plain, Counted
  <2>2. RowResult(q, i, s) = {Merge(s.rows[i], q)}
    BY <2>1, Rows, Zenon
  <2>3. rows'[i] = Merge(s.rows[i], q)
    BY <1>3, <1>4, <1>5, <1>7
  <2>4. QED
    BY <2>2, <2>3, Zenon
<1>9. \A k \in Ids \ {i} :
        rows'[k] = IF Dethrones(q, i, s) THEN [s.rows[k] EXCEPT !.flag = FALSE] ELSE s.rows[k]
  <2>1. Dethrones(q, i, s) <=> q.flag = TRUE
    BY <1>2 DEF Dethrones
  <2>2. \A k \in Ids \ {i} : rows[k] = s.rows[k]
    BY <1>3, <1>4, <1>5
  <2>3. QED
    BY <1>7, <2>1, <2>2
<1>10. links' = [s.links EXCEPT ![i] = LinksResult(q, i, s)]
  <2>1. LinksResult(q, i, s) = s.links[i]
    BY <1>2, LinksOfMethod
  <2>2. QED
    BY <1>3, <1>4, <1>5, <1>7, <2>1
<1>11. QED
  BY <1>2, <1>3, <1>6, <1>8, <1>9, <1>10, Kept DEF NeedsNoRow

(* A method that is only about links leaves the row as it is.              *)
LEMMA LinksKept ==
  ASSUME FormInv, NEW r \in Requests, Undisturbed(r), After(r) = 0, req[r].id \in Ids,
         \/ req[r].method \in {"link", "unlink", "star", "unstar"}
         \/ req[r].method = "update" /\ repo = "members",
         req[r].method \in NeedsNoRow \/ start[r].rows[req[r].id] # NoRow,
         rows' = start[r].rows,
         links' = [start[r].links EXCEPT ![req[r].id] = LinksResult(req[r], req[r].id, start[r])]
  PROVE  Promise(r)
<1> DEFINE s == start[r]
           q == req[r]
           i == Place(r)
<1>1. i = q.id /\ q.method # "create" /\ ~Has(q.method, "DeleteNamed")
  BY Placing
<1>2. /\ Gives(q.method) \cap {"name", "flag", "low", "high"} = {}
      /\ Plain(q)
  BY CalmOf DEF Composed, Plain
<1>3. q.name = None /\ q.flag = None /\ q.low = 0 /\ q.high = 0
  BY <1>2, Giving
<1>4. Merge(s.rows[i], q) = s.rows[i]
  BY <1>1, <1>3, CalmOf, FormOf, MergeNothing
<1>5. rows'[i] \in RowResult(q, i, s)
  <2>1. RowResult(q, i, s) = {s.rows[i]}
    <3>1. RowResult(q, i, s) = {Merge(s.rows[i], q)}
      BY <1>2, Rows, Zenon
    <3>2. QED
      BY <1>4, <3>1
  <2>2. QED
    BY <2>1
<1>6. ~Dethrones(q, i, s)
  BY <1>3, RepositoriesAssumption DEF Dethrones
<1>7. QED
  BY <1>1, <1>5, <1>6, Kept

LEMMA DeleteLinksReturns ==
  ASSUME FormInv, NEW r \in Requests, Undisturbed(r), DeleteLinks(r), pc'[r] = 0
  PROVE  Promise(r)
<1> DEFINE s == start[r]
           q == req[r]
<1>1. Now(r) = "DeleteLinks" /\ pc[r] > 0
  BY SentAt, NowAt
<1>2. /\ Go(r) /\ links' = [links EXCEPT ![q.id] = {}] /\ rows' = rows
  BY DEF DeleteLinks
<1>3. After(r) = 0
  BY <1>1, <1>2, CalmOf, FormOf, AtLast DEF Go
<1>4. repo = "queries" /\ q.method = "unstar" /\ Sent(r) = {}
  BY <1>1, <1>3, CalmOf DEF Placed, PlacedLinks
<1>5. rows = s.rows /\ links = s.links
  BY <1>4, NothingWritten
<1>6. q.id \in Ids
  BY <1>4, Placing
<1>7. LinksResult(q, q.id, s) = {}
  BY <1>4, LinksOfMethod
<1>8. QED
  BY <1>2, <1>3, <1>4, <1>5, <1>6, <1>7, LinksKept DEF NeedsNoRow

LEMMA RemoveLinksReturns ==
  ASSUME FormInv, NEW r \in Requests, Undisturbed(r), RemoveLinks(r)
  PROVE  Promise(r)
<1> DEFINE s == start[r]
           q == req[r]
<1>1. Now(r) = "RemoveLinks" /\ pc[r] > 0
  BY SentAt, NowAt
<1>2. /\ links' = [links EXCEPT ![q.id] = @ \ q.links] /\ rows' = rows
  BY DEF RemoveLinks
<1>3. repo = "types" /\ q.method = "unlink" /\ Sent(r) = {} /\ After(r) = 0
  BY <1>1, CalmOf DEF Placed, PlacedLinks
<1>4. rows = s.rows /\ links = s.links
  BY <1>3, NothingWritten
<1>5. q.id \in Ids
  BY <1>3, Placing
<1>6. LinksResult(q, q.id, s) = s.links[q.id] \ q.links
  BY <1>3, LinksOfMethod
<1>7. links' = [s.links EXCEPT ![q.id] = s.links[q.id] \ q.links]
  BY <1>2, <1>4, <1>5, CalmOf
<1>8. QED
  BY <1>2, <1>3, <1>4, <1>5, <1>6, <1>7, LinksKept DEF NeedsNoRow

LEMMA StarReturns ==
  ASSUME FormInv, NEW r \in Requests, Undisturbed(r), Star(r)
  PROVE  Promise(r)
<1> DEFINE s == start[r]
           q == req[r]
<1>1. Now(r) = "Star" /\ pc[r] > 0
  BY SentAt, NowAt
<1>2. repo = "queries" /\ q.method = "star" /\ Sent(r) = {"CheckExists"} /\ After(r) = 0
  BY <1>1, CalmOf DEF Placed, PlacedLinks
<1>3. rows = s.rows /\ links = s.links
  BY <1>2, NothingWritten DEF Checks
<1>4. q.id \in Ids
  BY <1>2, Placing
<1>5. s.rows[q.id].name # None
  BY <1>2 DEF Undisturbed, PassedOf
<1>6. Stored(q.id) /\ s.rows[q.id] # NoRow
  BY <1>3, <1>5 DEF Stored, NoRow
<1>7. LinksResult(q, q.id, s) = s.links[q.id] \cup {s.rows[q.id].name}
  BY <1>2, LinksOfMethod
<1>8. rows' = rows /\ links' = [links EXCEPT ![q.id] = @ \cup {rows[q.id].name}]
  BY <1>6 DEF Star
<1>9. links' = [s.links EXCEPT ![q.id] = s.links[q.id] \cup {s.rows[q.id].name}]
  BY <1>3, <1>4, <1>8, CalmOf
<1>10. QED
  BY <1>2, <1>3, <1>4, <1>6, <1>7, <1>8, <1>9, LinksKept

LEMMA InsertLastLinkReturns ==
  ASSUME FormInv, NEW r \in Requests, Undisturbed(r), InsertLastLink(r)
  PROVE  Promise(r)
<1> DEFINE s == start[r]
           q == req[r]
           i == Place(r)
<1>1. Now(r) = "InsertLinks" /\ pc[r] > 0
  BY SentAt, NowAt
<1>2. /\ links' = [links EXCEPT ![q.id] = @ \cup left[r]] /\ rows' = rows
  BY DEF InsertLastLink
<1>3. /\ After(r) = 0 /\ rows = RowsOf(s, q, Sent(r), copy[r])
      /\ left[r] \subseteq q.links /\ q.id \in Ids
  BY <1>1, InsertingLinks
<1>4. s.rows \in [Ids -> Row] /\ s.links \in [Ids -> SUBSET (Links \cup Names)]
  BY CalmOf
<1>5. CASE Sent(r) = {}
  <2>1. repo = "types" /\ q.method = "link" /\ links = s.links
    BY <1>1, <1>5, InsertingLinks
  <2>2. left[r] = q.links
    <3>1. "link" \in Gives(q.method)
      BY <2>1, CalmOf DEF Composed
    <3>2. QED
      BY <3>1, CalmOf, FormOf DEF Formed, Holding
  <2>3. LinksResult(q, q.id, s) = s.links[q.id] \cup q.links
    BY <2>1, LinksOfMethod
  <2>4. links' = [s.links EXCEPT ![q.id] = s.links[q.id] \cup q.links]
    BY <1>2, <1>3, <1>4, <2>1, <2>2
  <2>5. rows = s.rows
    BY <1>5, NothingWritten
  <2>6. QED
    BY <1>2, <1>3, <2>1, <2>3, <2>4, <2>5, LinksKept DEF NeedsNoRow
<1>6. CASE Sent(r) # {}
  <2>1. /\ "DeleteLinks" \in Sent(r)
        /\ Sent(r) \subseteq Checks \cup {"Insert", "Update", "DeleteLinks"}
        /\ <<repo, q.method>> \in {<<"roles", "create">>, <<"roles", "grant">>,
                                   <<"members", "create">>, <<"members", "update">>}
        /\ "Insert" \in Sent(r) <=> q.method = "create"
        /\ "Update" \in Sent(r) <=> q.method = "grant"
        /\ q.method = "update" => "CheckExists" \in Sent(r)
    BY <1>1, <1>6, CalmOf DEF Placed, PlacedLinks
  <2>2. links = [s.links EXCEPT ![q.id] = q.links \ left[r]]
    BY <1>1, <1>6, InsertingLinks
  <2>3. links' = [s.links EXCEPT ![q.id] = q.links]
    <3>1. (q.links \ left[r]) \cup left[r] = q.links
      BY <1>3
    <3>2. links' = [s.links EXCEPT ![q.id] = (q.links \ left[r]) \cup left[r]]
      BY <1>2, <1>3, <1>4, <2>2
    <3>3. QED
      BY <3>1, <3>2
  <2>4. LinksResult(q, q.id, s) = q.links
    BY <2>1, LinksOfMethod
  <2>5. PassedOf(s, q, Sent(r), copy[r])
    BY DEF Undisturbed
  <2>6. /\ q.method = "create" => s.rows[q.id] = NoRow
        /\ q.method # "create" => s.rows[q.id] # NoRow
    BY <2>1, <2>5 DEF PassedOf, NoRow
  <2>7. CASE q.method = "update"
    <3>1. Sent(r) \cap {"Insert", "Update"} = {} /\ "ClearAll" \notin Sent(r)
      BY <2>1, <2>7 DEF Checks
    <3>2. rows = s.rows
      BY <1>3, <3>1 DEF RowsOf
    <3>3. repo = "members"
      BY <2>1, <2>7
    <3>4. QED
      BY <1>2, <1>3, <2>3, <2>4, <2>6, <2>7, <3>2, <3>3, LinksKept
  <2>8. CASE q.method # "update"
    <3>1. /\ q.method \in {"create", "grant"} /\ repo \in {"roles", "members"}
          /\ Sent(r) \cap {"Insert", "Update"} # {}
      BY <2>1, <2>8
    <3>2. rows = [s.rows EXCEPT ![q.id] = Merge(s.rows[q.id], q)]
      BY <1>3, <3>1 DEF RowsOf
    <3>3. i = q.id /\ ~Has(q.method, "DeleteNamed")
      <4>1. q.method = "create" => "Insert" \in Sent(r)
        BY <2>1
      <4>2. QED
        BY <3>1, <4>1, Placing
    <3>4. rows'[i] \in RowResult(q, i, s)
      <4>1. Plain(q)
        BY <3>1 DEF Plain, Counted
      <4>2. RowResult(q, i, s) = {Merge(s.rows[i], q)}
        BY <4>1, Rows, Zenon
      <4>3. rows'[i] = Merge(s.rows[i], q)
        BY <1>2, <1>3, <1>4, <3>2, <3>3
      <4>4. QED
        BY <4>2, <4>3, Zenon
    <3>5. ~Dethrones(q, i, s)
      BY <3>1 DEF Dethrones
    <3>6. \A k \in Ids \ {i} : rows'[k] = s.rows[k]
      BY <1>2, <1>3, <1>4, <3>2, <3>3
    <3>7. links' = [s.links EXCEPT ![i] = LinksResult(q, i, s)]
      BY <2>3, <2>4, <3>3
    <3>8. q.method \in NeedsNoRow \/ s.rows[i] # NoRow
      BY <2>6, <3>1, <3>3 DEF NeedsNoRow
    <3>9. QED
      BY <1>3, <2>6, <3>3, <3>4, <3>5, <3>6, <3>7, <3>8, Kept
  <2>9. QED
    BY <2>7, <2>8
<1>7. QED
  BY <1>5, <1>6

LEMMA LastEnds ==
  ASSUME FormInv, NEW r \in Requests, pc[r] > 0, After(r) = 0, Ordinary(r)
  PROVE  ~(pc'[r] > 0)
<1>1. pc[r] \in Int /\ Len(Steps(req[r].method)) \in Nat
  BY Planned DEF FormInv, BaseInv, RTypeOK
<1>2. QED
  BY <1>1 DEF Ordinary, Gone, Onward, After

(* Statement by statement: an undisturbed call that goes on stays one, and *)
(* one that returns has kept its promise.                                  *)
Keeps(r) ==
  /\ pc'[r] > 0 /\ start'[r] = start[r] => Undisturbed(r)'
  /\ pc'[r] = 0 => Promise(r)

LEMMA FirstKeep ==
  ASSUME FormInv, NEW r \in Requests, Undisturbed(r),
         \/ Checking(r) \/ Read(r) \/ DrawPlace(r) \/ DrawVersion(r) \/ FirstVersion(r)
  PROVE  Keeps(r)
<1>1. CASE Checking(r)
  BY <1>1, CheckingOn, CheckingReturns DEF Keeps
<1>2. CASE Read(r)
  BY <1>2, ReadOn, ReadReturns DEF Keeps
<1>3. CASE DrawVersion(r)
  BY <1>3, DrawOn, DrawReturns DEF Keeps
<1>4. CASE DrawPlace(r) \/ FirstVersion(r)
  <2>1. Now(r) \in Draws /\ pc[r] > 0 /\ pc[r] \in Int
    BY <1>4, SentAt, NowAt DEF Draws, FormInv, BaseInv, RTypeOK
  <2>2. pc[r] # Len(Steps(req[r].method))
    BY <2>1, Drawing, Planned DEF After, FormInv
  <2>3. pc' = [pc EXCEPT ![r] = @ + 1]
    BY <1>4, <2>2 DEF DrawPlace, FirstVersion, Proceed
  <2>4. pc'[r] # 0
    BY <2>1, <2>3 DEF FormInv, BaseInv, RTypeOK
  <2>5. QED
    BY <1>4, <2>4, DrawOn DEF Keeps
<1>5. QED
  BY <1>1, <1>2, <1>3, <1>4

LEMMA WriteKeep ==
  ASSUME FormInv, NEW r \in Requests, Undisturbed(r),
         Insert(r) \/ Update(r) \/ WriteRow(r) \/ Increment(r)
  PROVE  Keeps(r)
<1>1. CASE Insert(r)
  BY <1>1, InsertOn, InsertReturns DEF Keeps
<1>2. CASE Update(r)
  BY <1>2, UpdateOn, UpdateReturns DEF Keeps
<1>3. CASE WriteRow(r) \/ Increment(r)
  <2>1. Ordinary(r) /\ pc[r] > 0 /\ Now(r) \in {"WriteRow", "Increment"}
    BY <1>3, WritesBase, SentAt, NowAt DEF FormInv
  <2>2. After(r) = 0
    BY <2>1, CalmOf DEF Placed, PlacedWrite
  <2>3. ~(pc'[r] > 0)
    BY <2>1, <2>2, LastEnds
  <2>4. QED
    BY <1>3, <2>3, WriteRowReturns, IncrementReturns DEF Keeps
<1>4. QED
  BY <1>1, <1>2, <1>3

LEMMA SweepKeep ==
  ASSUME FormInv, NEW r \in Requests, Undisturbed(r),
         ClearOthers(r) \/ ClearAll(r) \/ Delete(r) \/ DeleteNamed(r)
  PROVE  Keeps(r)
<1>1. CASE ClearAll(r)
  <2>1. Now(r) = "ClearAll" /\ pc[r] > 0 /\ pc[r] \in Int
    BY <1>1, SentAt, NowAt DEF FormInv, BaseInv, RTypeOK
  <2>2. After(r) # 0
    BY <2>1, CalmOf DEF Placed, PlacedWrite
  <2>3. pc[r] # Len(Steps(req[r].method))
    BY <2>1, <2>2, Planned DEF After, FormInv
  <2>4. pc' = [pc EXCEPT ![r] = @ + 1]
    BY <1>1, <2>3 DEF ClearAll, Go, Proceed
  <2>5. pc'[r] # 0
    BY <2>1, <2>4 DEF FormInv, BaseInv, RTypeOK
  <2>6. QED
    BY <1>1, <2>5, ClearAllOn DEF Keeps
<1>2. CASE ClearOthers(r) \/ Delete(r) \/ DeleteNamed(r)
  <2>1. Ordinary(r) /\ pc[r] > 0 /\ Now(r) \in {"ClearOthers", "Delete", "DeleteNamed"}
    BY <1>2, SweepBase, SentAt, NowAt DEF FormInv
  <2>2. After(r) = 0
    BY <2>1, CalmOf DEF Placed, PlacedWrite
  <2>3. ~(pc'[r] > 0)
    BY <2>1, <2>2, LastEnds
  <2>4. QED
    BY <1>2, <2>3, ClearOthersReturns, DeleteReturns, DeleteNamedReturns DEF Keeps
<1>3. QED
  BY <1>1, <1>2

LEMMA LinksKeep ==
  ASSUME FormInv, NEW r \in Requests, Undisturbed(r),
         DeleteLinks(r) \/ RemoveLinks(r) \/ Star(r) \/ InsertLastLink(r)
  PROVE  Keeps(r)
<1>1. CASE DeleteLinks(r)
  BY <1>1, DeleteLinksOn, DeleteLinksReturns DEF Keeps
<1>2. CASE RemoveLinks(r) \/ Star(r) \/ InsertLastLink(r)
  <2>1. Ordinary(r) /\ pc[r] > 0 /\ Now(r) \in {"RemoveLinks", "Star", "InsertLinks"}
    BY <1>2, LinksBase, SentAt, NowAt DEF FormInv
  <2>2. After(r) = 0
    BY <2>1, CalmOf DEF Placed, PlacedLinks
  <2>3. ~(pc'[r] > 0)
    BY <2>1, <2>2, LastEnds
  <2>4. QED
    BY <1>2, <2>3, RemoveLinksReturns, StarReturns, InsertLastLinkReturns DEF Keeps
<1>3. QED
  BY <1>1, <1>2

LEMMA StatementKeep ==
  ASSUME FormInv, NEW r \in Requests, Undisturbed(r), Statement(r)
  PROVE  Keeps(r)
<1>1. ASSUME NEW l \in Links, InsertLink(r, l)
      PROVE  Keeps(r)
  <2>1. pc'[r] = pc[r] /\ pc[r] > 0 /\ pc[r] \in Int
    BY <1>1, NowAt DEF InsertLink, FormInv, BaseInv, RTypeOK
  <2>2. pc'[r] # 0
    BY <2>1
  <2>3. QED
    BY <1>1, <2>2, InsertLinkOn DEF Keeps
<1>2. QED
  BY <1>1, FirstKeep, WriteKeep, SweepKeep, LinksKeep DEF Statement, Checking

(* Of the steps of others.                                                 *)
LEMMA StatementMoves ==
  ASSUME BaseInv, NEW r \in Requests, Statement(r)
  PROVE  Elsewhere(r) /\ repo' = repo /\ Record /\ pc[r] > 0
<1>1. CASE Checking(r)
  BY <1>1, CheckingBase, SentAt, NowAt
  DEF Checking, Ordinary, CheckName, CheckUnused, CheckExists, CheckProtected, CheckLinks,
      CheckDates, Check
<1>2. CASE Read(r) \/ DrawPlace(r) \/ DrawVersion(r) \/ FirstVersion(r) \/ Insert(r)
  BY <1>2, ReadBase, DrawBase, InsertBase, SentAt, NowAt
  DEF Read, DrawPlace, DrawVersion, FirstVersion, Insert
<1>3. CASE Update(r) \/ WriteRow(r) \/ Increment(r)
  BY <1>3, WritesBase, SentAt, NowAt DEF Ordinary, Update, WriteRow, Increment, Write
<1>4. CASE ClearOthers(r) \/ ClearAll(r) \/ Delete(r) \/ DeleteNamed(r)
  BY <1>4, SweepBase, SentAt, NowAt DEF Ordinary, ClearOthers, ClearAll, Delete, DeleteNamed
<1>5. CASE DeleteLinks(r) \/ RemoveLinks(r) \/ Star(r) \/ InsertLastLink(r)
  BY <1>5, LinksBase, SentAt, NowAt
  DEF Ordinary, DeleteLinks, RemoveLinks, Star, InsertLastLink
<1>6. CASE \E l \in Links : InsertLink(r, l)
  BY <1>6, NowAt DEF InsertLink, Elsewhere, BaseInv, RTypeOK
<1>7. QED
  BY <1>1, <1>2, <1>3, <1>4, <1>5, <1>6 DEF Statement, Checking

LEMMA UndisturbedStays ==
  ASSUME NEW x \in Requests, Undisturbed(x), repo' = repo, pc'[x] = pc[x], req'[x] = req[x],
         copy'[x] = copy[x], left'[x] = left[x], start'[x] = start[x],
         rows' = rows, links' = links, used' = used
  PROVE  Undisturbed(x)'
<1>1. Sent(x)' = Sent(x)
  BY DEF Sent, Steps
<1>2. Whole(start[x].rows)'
  BY DEF Undisturbed, Whole
<1>3. QED
  BY <1>1, <1>2 DEF Undisturbed

(* A call begins with the tables as they are.                              *)
LEMMA BegunUndisturbed ==
  ASSUME FormInv, NEW r \in Requests, Begin(r),
         start'[r] = [rows |-> rows, links |-> links, used |-> used]
  PROVE  Undisturbed(r)'
<1>1. /\ pc'[r] = 1 /\ Sent(r)' = {} /\ copy'[r] = NoRow
      /\ UNCHANGED <<repo, tables>>
  BY Begun, BeginBase DEF FormInv
<1>2. Whole(start[r].rows)'
  BY <1>1 DEF FormInv, Whole
<1>3. rows' = rows /\ links' = links /\ used' = used
  BY <1>1 DEF tables
<1>4. /\ RowsOf(start'[r], req'[r], {}, NoRow) = rows
      /\ LinksOf(start'[r], req'[r], {}, left'[r]) = links
      /\ CopyOf(start'[r], req'[r], {}, NoRow) /\ PassedOf(start'[r], req'[r], {}, NoRow)
  BY DEF RowsOf, LinksOf, CopyOf, PassedOf
<1>5. QED
  BY <1>1, <1>2, <1>3, <1>4 DEF Undisturbed

LEMMA CallsInit ==
  ASSUME Init
  PROVE  CallsInv
BY FormInit DEF CallsInv, Init

(* What the history says of a call nobody disturbed so far.                *)
LEMMA StillCalm ==
  ASSUME NEW r \in Requests, Record, r \in calm'
  PROVE  /\ pc'[r] > 0
         /\ \/ pc[r] = 0 /\ start'[r] = [rows |-> rows, links |-> links, used |-> used]
            \/ pc[r] # 0 /\ r \in calm /\ ~Disturbed(r) /\ start'[r] = start[r]
<1>1. pc'[r] > 0 /\ (pc[r] = 0 \/ (r \in calm /\ ~Disturbed(r)))
  BY DEF Record
<1>2. start'[r] = IF pc[r] = 0 THEN [rows |-> rows, links |-> links, used |-> used] ELSE start[r]
  BY DEF Record
<1>3. QED
  BY <1>1, <1>2

(* Whoever another call is, it leaves an undisturbed one as it is.         *)
LEMMA OthersKeep ==
  ASSUME CallsInv, Record, repo' = repo, NEW x \in Requests, x \in calm', pc[x] # 0,
         pc'[x] = pc[x], req'[x] = req[x], copy'[x] = copy[x], left'[x] = left[x]
  PROVE  Undisturbed(x)'
<1>1. x \in calm /\ ~Disturbed(x) /\ start'[x] = start[x]
  BY StillCalm
<1>2. rows' = rows /\ links' = links /\ used' = used
  BY <1>1 DEF Disturbed, Moves
<1>3. QED
  BY <1>1, <1>2, UndisturbedStays DEF CallsInv

LEMMA CallsNext ==
  ASSUME CallsInv, [Next]_vars
  PROVE  CallsInv'
<1>1. FormInv /\ FormInv' /\ BaseInv /\ repo' = repo
  BY FormNext, RepoStays DEF CallsInv, FormInv
<1>2. ASSUME NEW r \in Requests, Begin(r), NEW x \in Requests, x \in calm'
      PROVE  Undisturbed(x)'
  <2>1. /\ Record /\ UNCHANGED <<repo, tables, copy, cut>> /\ pc[r] = 0
        /\ \A y \in Requests \ {r} : pc'[y] = pc[y] /\ req'[y] = req[y] /\ left'[y] = left[y]
    BY <1>1, <1>2, BeginBase DEF Begin
  <2>2. CASE x = r
    BY <1>1, <1>2, <2>1, <2>2, StillCalm, BegunUndisturbed
  <2>3. CASE x # r
    <3>1. pc'[x] = pc[x] /\ pc[x] # 0
      BY <1>2, <2>1, <2>3, StillCalm
    <3>2. QED
      BY <1>2, <2>1, <2>3, <3>1, OthersKeep
  <2>4. QED
    BY <2>2, <2>3
<1>3. ASSUME NEW r \in Requests, Statement(r), NEW x \in Requests, x \in calm'
      PROVE  Undisturbed(x)'
  <2>1. Record /\ Elsewhere(r) /\ repo' = repo /\ pc[r] > 0
    BY <1>1, <1>3, StatementMoves
  <2>2. CASE x = r
    <3>1. pc[r] # 0
      BY <2>1
    <3>2. r \in calm /\ start'[r] = start[r] /\ pc'[r] > 0
      BY <1>3, <2>1, <2>2, <3>1, StillCalm
    <3>3. QED
      BY <1>1, <1>3, <2>2, <3>2, StatementKeep DEF CallsInv, Keeps
  <2>3. CASE x # r
    <3>1. pc'[x] = pc[x] /\ req'[x] = req[x] /\ copy'[x] = copy[x] /\ left'[x] = left[x]
      BY <2>1, <2>3 DEF Elsewhere
    <3>2. pc[x] # 0
      BY <1>3, <2>1, <3>1, StillCalm
    <3>3. QED
      BY <1>3, <2>1, <3>1, <3>2, OthersKeep
  <2>4. QED
    BY <2>2, <2>3
<1>4. ASSUME NEW r \in Requests, BreakOff(r), NEW x \in Requests, x \in calm'
      PROVE  Undisturbed(x)'
  <2>1. Record /\ Elsewhere(r) /\ Gone(r) /\ repo' = repo
    BY <1>1, <1>4, BreakOffBase DEF BreakOff
  <2>2. x # r
    BY <1>4, <2>1, StillCalm DEF Gone
  <2>3. pc'[x] = pc[x] /\ req'[x] = req[x] /\ copy'[x] = copy[x] /\ left'[x] = left[x]
    BY <2>1, <2>2 DEF Elsewhere
  <2>4. pc[x] # 0
    BY <1>4, <2>1, <2>3, StillCalm
  <2>5. QED
    BY <1>4, <2>1, <2>3, <2>4, OthersKeep
<1>5. ASSUME NEW i \in Referable, Use(i), NEW x \in Requests, x \in calm'
      PROVE  Undisturbed(x)'
  <2>1. Record /\ UNCHANGED <<repo, pc, req, copy, left>>
    BY <1>5 DEF Use
  <2>2. pc[x] # 0
    BY <1>5, <2>1, StillCalm
  <2>3. QED
    BY <1>5, <2>1, <2>2, OthersKeep
<1>6. ASSUME UNCHANGED vars, NEW x \in Requests, x \in calm'
      PROVE  Undisturbed(x)'
  <2>1. x \in calm /\ UNCHANGED <<repo, rows, links, used, pc, req, copy, left, start>>
    BY <1>6 DEF vars, tables, history
  <2>2. QED
    BY <2>1, UndisturbedStays DEF CallsInv
<1>7. calm' \subseteq Requests
  BY <1>1 DEF FormInv, BaseInv, RTypeOK
<1>8. \A x \in calm' : Undisturbed(x)'
  BY <1>2, <1>3, <1>4, <1>5, <1>6, <1>7 DEF Next
<1>9. QED
  BY <1>1, <1>8 DEF CallsInv

(* No statement that is answered breaks its call off.                      *)
LEMMA StatementAnswered ==
  ASSUME BaseInv, NEW r \in Requests, Statement(r)
  PROVE  pc'[r] # -1
<1>1. pc[r] > 0 /\ pc[r] \in Int
  BY StatementMoves DEF BaseInv, RTypeOK
<1>2. /\ Leave(r, 0) => pc'[r] # -1
      /\ \A i, row : Proceed(r, i, row) => pc'[r] # -1
      /\ Go(r) => pc'[r] # -1
  BY <1>1 DEF Leave, Proceed, Go, BaseInv, RTypeOK
<1>3. CASE Checking(r)
  BY <1>2, <1>3
  DEF Checking, CheckName, CheckUnused, CheckExists, CheckProtected, CheckLinks, CheckDates,
      Check
<1>4. CASE Read(r) \/ DrawPlace(r) \/ DrawVersion(r) \/ FirstVersion(r) \/ Insert(r)
  BY <1>2, <1>4 DEF Read, DrawPlace, DrawVersion, FirstVersion, Insert
<1>5. CASE Update(r) \/ WriteRow(r) \/ Increment(r)
  BY <1>2, <1>5 DEF Update, WriteRow, Increment, Write
<1>6. CASE ClearOthers(r) \/ ClearAll(r) \/ Delete(r) \/ DeleteNamed(r)
  BY <1>2, <1>6 DEF ClearOthers, ClearAll, Delete, DeleteNamed
<1>7. CASE DeleteLinks(r) \/ RemoveLinks(r) \/ Star(r) \/ InsertLastLink(r)
  BY <1>2, <1>7 DEF DeleteLinks, RemoveLinks, Star, InsertLastLink
<1>8. CASE \E l \in Links : InsertLink(r, l)
  BY <1>1, <1>8 DEF InsertLink
<1>9. QED
  BY <1>3, <1>4, <1>5, <1>6, <1>7, <1>8 DEF Statement, Checking

(* A call broken off before its first write has changed nothing.           *)
LEMMA BrokenOffEarly ==
  ASSUME CallsInv, [Next]_vars, NEW r \in calm, pc'[r] = -1, ~Written(r)
  PROVE  rows' = start[r].rows /\ links' = start[r].links
<1>1. r \in Requests /\ Undisturbed(r) /\ FormInv /\ BaseInv /\ pc[r] > 0 /\ pc[r] # -1
  BY DEF CallsInv, FormInv, BaseInv, RTypeOK, Undisturbed
<1>2. Sent(r) \cap Writes = {}
  BY DEF Written, Sent, Before
<1>3. rows = start[r].rows /\ links = start[r].links
  BY <1>1, <1>2 DEF Undisturbed, RowsOf, LinksOf, Writes
<1>4. ASSUME NEW x \in Requests, Begin(x)
      PROVE  FALSE
  BY <1>1, <1>4, BeginBase
<1>5. ASSUME NEW x \in Requests, BreakOff(x)
      PROVE  UNCHANGED tables
  BY <1>5 DEF BreakOff
<1>6. ASSUME NEW x \in Requests, Statement(x)
      PROVE  FALSE
  BY <1>1, <1>6, StatementMoves, StatementAnswered DEF Elsewhere
<1>7. ~UNCHANGED pc
  BY <1>1
<1>8. QED
  BY <1>3, <1>4, <1>5, <1>6, <1>7 DEF Next, Use, vars, tables

(* A call that returns while undisturbed does so by a statement of its own.*)
LEMMA PromisesKept ==
  ASSUME CallsInv, [Next]_vars, NEW r \in calm, pc'[r] = 0
  PROVE  Promise(r)
<1>1. r \in Requests /\ Undisturbed(r) /\ FormInv /\ BaseInv /\ pc[r] > 0 /\ pc[r] # 0
  BY DEF CallsInv, FormInv, BaseInv, RTypeOK, Undisturbed
<1>2. ASSUME NEW x \in Requests, Begin(x)
      PROVE  FALSE
  BY <1>1, <1>2, BeginBase
<1>3. ASSUME NEW x \in Requests, BreakOff(x)
      PROVE  FALSE
  <2>1. pc'[x] = -1 /\ Elsewhere(x)
    BY <1>1, <1>3, Returns DEF BreakOff
  <2>2. QED
    BY <1>1, <2>1 DEF Elsewhere
<1>4. ASSUME NEW x \in Requests, Statement(x)
      PROVE  Promise(r)
  <2>1. x = r
    BY <1>1, <1>4, StatementMoves DEF Elsewhere
  <2>2. QED
    BY <1>1, <1>4, <2>1, StatementKeep DEF Keeps
<1>5. ~UNCHANGED pc
  BY <1>1
<1>6. QED
  BY <1>2, <1>3, <1>4, <1>5 DEF Next, Use, vars

(* A call that returns without an error of the database, and during which  *)
(* nobody else changed the tables, did all that it promises or nothing,    *)
(* whatever earlier calls left behind, failed half done or not; one that a *)
(* failed statement or a hang-up ended before its first write did nothing. *)
THEOREM CallsKeepPromises == Spec => AllOrNothing
<1>1. Spec => []CallsInv
  BY CallsInit, CallsNext, PTL DEF Spec
<1>2. CallsInv /\ [Next]_vars =>
        [ \A r \in calm :
            LET i == IF Has(req[r].method, "Insert") /\ req[r].id = 0 THEN next ELSE req[r].id
                s == start[r]
                all == Has(req[r].method, "DeleteNamed") \/ (i \in Ids /\ Accepts(req[r], i, s))
                nothing == rows' = s.rows /\ links' = s.links
            IN  /\ pc'[r] = 0 => IF all THEN Result(req[r], i, s) ELSE nothing
                /\ pc'[r] = -1 /\ ~Written(r) => nothing ]_vars
  <2>1. ASSUME CallsInv, [Next]_vars, NEW r \in calm
        PROVE  /\ pc'[r] = 0 => Promise(r)
               /\ pc'[r] = -1 /\ ~Written(r) => rows' = start[r].rows /\ links' = start[r].links
    BY <2>1, PromisesKept, BrokenOffEarly
  <2>2. QED
    BY <2>1 DEF Promise, Place
<1>3. QED
  BY <1>1, <1>2, PTL DEF Spec, AllOrNothing
=============================================================================

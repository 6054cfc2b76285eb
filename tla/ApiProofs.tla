------------------------------ MODULE ApiProofs -----------------------------
(***************************************************************************)
(* Proofs about the handlers of /api/v3, for any number of overlapping     *)
(* requests, any table and any set of administrators.                      *)
(*                                                                         *)
(* The first part reads the table of routes once and for all: Good lists   *)
(* what the gates, the order of the calls and the named errors of every    *)
(* handler have in common, and RouterGood shows each route to have it.     *)
(* The second part is about the requests: Underway says what a request     *)
(* that is not yet answered may rely on although others write between its  *)
(* calls, and Answered what its answer stands for.                         *)
(***************************************************************************)
EXTENDS Api, FiniteSetTheorems, TLAPS

-----------------------------------------------------------------------------
(*****************************************************************************)
(* What the handlers of api_v3_router have in common.                      *)
(*****************************************************************************)
RowWrites == {"create", "update", "set", "more", "delete", "remove", "unset"}
(* What may follow a write: the permissions of a role, and looking again.  *)
Shows == {"more", "list", "recall", "search", "get"}
(* The errors of the repository the handler answers otherwise than with a  *)
(* 500.                                                                    *)
Allowed(h) == h.named \cup (IF "Already" \in h.named THEN {"Conflict"} ELSE {})

(* Every error a call may refuse with is named by its handler; a handler   *)
(* only looks after it has written; it shows again only what it wrote;     *)
(* administrators' tables are written behind the gate for administrators; a*)
(* row with an owner is changed by handlers that ask who calls; no handler *)
(* asks for the owner of what it is about to create.                       *)
Good(name, h) ==
  /\ Len(h.steps) \in Nat /\ DOMAIN h.steps = 1 .. Len(h.steps)
  /\ h.gate \in {"self", "another"} => name # "me"
  /\ \A k \in DOMAIN h.steps :
       /\ Refuses(h.steps[k]) \subseteq Allowed(h)
       /\ h.steps[k] \in RowWrites =>
            \A l \in DOMAIN h.steps : k < l => h.steps[l] \in Shows
       /\ h.steps[k] \in {"recall", "search"} =>
            \E l \in 1 .. (k - 1) : h.steps[l] \in {"create", "update"}
       /\ h.steps[k] = "search" => resource = "watchers"
       /\ h.steps[k] \in RowWrites /\ resource \in AdminTables => h.gate = "admin"
       /\ h.steps[k] \in RowWrites \ {"create"} /\ resource \in OwnedTables =>
            \/ h.gate \in {"admin", "another"}
            \/ h.gate = "self" /\ resource = "users"
            \/ \E l \in 1 .. (k - 1) : h.steps[l] = "owner"
       /\ h.steps[k] = "create" => h.gate # "self" /\ \A l \in DOMAIN h.steps : h.steps[l] # "owner"

GoodAll(handlers) == \A name \in DOMAIN handlers : Good(name, handlers[name])

(* Merging routers keeps what their handlers have in common.               *)
LEMMA JoinedGood ==
  ASSUME NEW f, NEW g, GoodAll(f), GoodAll(g)
  PROVE  GoodAll(Joined(f, g))
BY DEF Joined, GoodAll

(* Calls that only look, or whose failures the handler ignores.            *)
LEMMA NothingRefused ==
  /\ Refuses("get") = {} /\ Refuses("list") = {} /\ Refuses("exists") = {}
  /\ Refuses("owner") = {} /\ Refuses("recall") = {} /\ Refuses("unique") = {}
  /\ Refuses("date") = {} /\ Refuses("set") = {} /\ Refuses("more") = {}
  /\ Refuses("remove") = {} /\ Refuses("unset") = {} /\ Refuses("unstar") = {}
  /\ Refuses("search") = {}
BY DEF Refuses

(* list and get of the resources that have nothing else to read.           *)
LEMMA ReadsGood == GoodAll(Reads)
BY NothingRefused DEF GoodAll, Good, Reads, Read, Handler, RowWrites, Shows

(* create, update and delete behind the gate for administrators, as far as *)
(* the named errors cover those of the repository.                         *)
LEMMA AdminWritesGood ==
  ASSUME NEW c, NEW u, NEW d,
         Refuses("create") \subseteq c, Refuses("update") \subseteq u, Refuses("delete") \subseteq d
  PROVE  GoodAll(AdminWrites(c, u, d))
BY DEF GoodAll, Good, AdminWrites, Handler, Allowed, RowWrites, Shows

(* The resources one by one, each with the errors of its own repository.   *)
LEMMA ActivitiesGood == resource = "activities" => GoodAll(Activities)
<1> SUFFICES ASSUME resource = "activities" PROVE GoodAll(Activities)
  OBVIOUS
<1>1. GoodAll(AdminWrites({"Conflict", "Validation"}, AllErrors, {"Conflict", "NotFound"}))
  BY AdminWritesGood DEF Refuses
<1>2. QED
  BY <1>1, JoinedGood, ReadsGood DEF Activities

LEMMA CategoriesGood == resource = "categories" => GoodAll(Categories)
<1> SUFFICES ASSUME resource = "categories" PROVE GoodAll(Categories)
  OBVIOUS
<1>1. GoodAll(AdminWrites({"Conflict", "Validation"}, AllErrors, {"Conflict", "NotFound"}))
  BY AdminWritesGood DEF Refuses
<1>2. QED
  BY <1>1, JoinedGood, ReadsGood DEF Categories

LEMMA VersionsGood == resource = "versions" => GoodAll(Versions)
<1> SUFFICES ASSUME resource = "versions" PROVE GoodAll(Versions)
  OBVIOUS
<1>1. GoodAll(AdminWrites({"Conflict", "Validation"}, AllErrors, {"Conflict", "NotFound"}))
  BY AdminWritesGood DEF Refuses
<1>2. QED
  BY <1>1, JoinedGood, ReadsGood DEF Versions

LEMMA PrioritiesGood == resource = "priorities" => GoodAll(Priorities)
<1> SUFFICES ASSUME resource = "priorities" PROVE GoodAll(Priorities)
  OBVIOUS
<1>1. GoodAll(AdminWrites({"Conflict"}, {"Conflict", "NotFound"}, {"Conflict", "NotFound"}))
  BY AdminWritesGood DEF Refuses
<1>2. QED
  BY <1>1, JoinedGood, ReadsGood DEF Priorities

LEMMA TypesGood == resource = "types" => GoodAll(Types)
<1> SUFFICES ASSUME resource = "types" PROVE GoodAll(Types)
  OBVIOUS
<1>1. GoodAll(AdminWrites({"Conflict"}, {"Conflict", "NotFound"}, {"Conflict", "NotFound"}))
  BY AdminWritesGood DEF Refuses
<1>2. QED
  BY <1>1, JoinedGood, ReadsGood DEF Types

LEMMA StatusesGood == resource = "statuses" => GoodAll(Statuses)
<1> SUFFICES ASSUME resource = "statuses" PROVE GoodAll(Statuses)
  OBVIOUS
<1>1. GoodAll(AdminWrites({"Conflict", "Validation"}, AllErrors, {"Conflict", "NotFound"}))
  BY AdminWritesGood DEF Refuses
<1>2. QED
  BY <1>1, JoinedGood, ReadsGood DEF Statuses

LEMMA MembershipsGood == resource = "memberships" => GoodAll(Memberships)
<1> SUFFICES ASSUME resource = "memberships" PROVE GoodAll(Memberships)
  OBVIOUS
<1> DEFINE rest == [create |-> Handler("admin", <<"create", "recall">>, {"Conflict", "Validation"}),
               update |-> Handler("admin", <<"update", "recall">>, AllErrors),
               delete |-> Handler("admin", <<"delete">>, {"Conflict", "NotFound"})]
<1>1. GoodAll(rest)
  <2>1. /\ Refuses("create") = {"Conflict", "Validation"}
        /\ Refuses("update") = {"NotFound", "Validation"}
        /\ Refuses("delete") = {"Conflict", "NotFound"}
    BY DEF Refuses, AllErrors
  <2>2. Good("create", rest["create"])
    BY <2>1, NothingRefused
    DEF Good, Handler, Read, Allowed, RowWrites, Shows, AdminTables, OwnedTables, AllErrors
  <2>3. Good("update", rest["update"])
    BY <2>1, NothingRefused
    DEF Good, Handler, Read, Allowed, RowWrites, Shows, AdminTables, OwnedTables, AllErrors
  <2>4. Good("delete", rest["delete"])
    BY <2>1, NothingRefused
    DEF Good, Handler, Read, Allowed, RowWrites, Shows, AdminTables, OwnedTables, AllErrors
  <2>5. QED
    BY <2>2, <2>3, <2>4 DEF GoodAll
<1> HIDE DEF rest
<1>2. GoodAll(Joined(Reads, rest))
  BY <1>1, JoinedGood, ReadsGood
<1>3. QED
  BY <1>2 DEF Memberships, rest

LEMMA ProjectsGood == resource = "projects" => GoodAll(Projects)
<1> SUFFICES ASSUME resource = "projects" PROVE GoodAll(Projects)
  OBVIOUS
<1> DEFINE rest == [create |-> Handler("admin", <<"unique", "create">>, {}),
               update |-> Handler("admin", <<"exists", "update">>, {"NotFound"})]
<1>1. GoodAll(rest)
  BY NothingRefused DEF Good, GoodAll, Handler, Read, Allowed, AllErrors, RowWrites, Shows, AdminTables, OwnedTables, Refuses
<1> HIDE DEF rest
<1>2. GoodAll(Joined(Reads, rest))
  BY <1>1, JoinedGood, ReadsGood
<1>3. QED
  BY <1>2 DEF Projects, rest

LEMMA QueryReadsGood == resource = "queries" => GoodAll(QueryReads)
<1> SUFFICES ASSUME resource = "queries" PROVE GoodAll(QueryReads)
  OBVIOUS
<1> DEFINE rest == [defaults |-> Handler("anyone", <<>>, {}), available_projects |-> Read(<<"list">>)]
<1>1. GoodAll(rest)
  BY NothingRefused DEF Good, GoodAll, Handler, Read, Allowed, AllErrors, RowWrites, Shows, AdminTables, OwnedTables, Refuses
<1> HIDE DEF rest
<1>2. GoodAll(Joined(Reads, rest))
  BY <1>1, JoinedGood, ReadsGood
<1>3. QED
  BY <1>2 DEF QueryReads, rest

LEMMA AttachmentsGood == resource = "attachments" => GoodAll(Attachments)
<1> SUFFICES ASSUME resource = "attachments" PROVE GoodAll(Attachments)
  OBVIOUS
<1>1. GoodAll(AttachmentWrites)
  BY NothingRefused DEF AttachmentWrites, Good, GoodAll, Handler, Read, Allowed, AllErrors, RowWrites, Shows, AdminTables, OwnedTables, Refuses
<1>2. GoodAll(Joined(Reads, AttachmentWrites))
  BY <1>1, JoinedGood, ReadsGood
<1>3. QED
  BY <1>2 DEF Attachments

LEMMA JournalsGood == resource = "journals" => GoodAll(Journals)
<1> SUFFICES ASSUME resource = "journals" PROVE GoodAll(Journals)
  OBVIOUS
<1> DEFINE rest == [update |-> Handler("anyone", <<"owner", "update">>, {"NotFound"})]
<1>1. GoodAll(rest)
  BY NothingRefused DEF Good, GoodAll, Handler, Read, Allowed, AllErrors, RowWrites, Shows, AdminTables, OwnedTables, Refuses
<1> HIDE DEF rest
<1>2. GoodAll(Joined(Reads, rest))
  BY <1>1, JoinedGood, ReadsGood
<1>3. QED
  BY <1>2 DEF Journals, rest

LEMMA RelationsGood == resource = "relations" => GoodAll(Relations)
<1> SUFFICES ASSUME resource = "relations" PROVE GoodAll(Relations)
  OBVIOUS
<1> DEFINE rest == [create |-> Handler("anyone", <<"create">>, {"Conflict", "Validation"}),
               update |-> Handler("anyone", <<"update">>, {"NotFound", "Validation"}),
               delete |-> Handler("anyone", <<"delete">>, {"NotFound"})]
<1>1. GoodAll(rest)
  BY NothingRefused DEF Good, GoodAll, Handler, Read, Allowed, AllErrors, RowWrites, Shows, AdminTables, OwnedTables, Refuses
<1> HIDE DEF rest
<1>2. GoodAll(Joined(Reads, rest))
  BY <1>1, JoinedGood, ReadsGood
<1>3. QED
  BY <1>2 DEF Relations, rest

LEMMA TimeEntriesGood == resource = "time_entries" => GoodAll(TimeEntries)
<1> SUFFICES ASSUME resource = "time_entries" PROVE GoodAll(TimeEntries)
  OBVIOUS
<1> DEFINE rest == [create |-> Handler("anyone", <<"date", "create">>, {}),
               update |-> Handler("anyone", <<"date", "update">>, {"NotFound"}),
               delete |-> Handler("anyone", <<"delete">>, {"NotFound"})]
<1>1. GoodAll(rest)
  <2>1. Refuses("create") = {} /\ Refuses("update") = {"NotFound"} /\ Refuses("delete") = {"NotFound"}
    BY DEF Refuses
  <2>2. Good("create", rest["create"])
    BY <2>1, NothingRefused
    DEF Good, Handler, Read, Allowed, RowWrites, Shows, AdminTables, OwnedTables
  <2>3. Good("update", rest["update"])
    BY <2>1, NothingRefused
    DEF Good, Handler, Read, Allowed, RowWrites, Shows, AdminTables, OwnedTables
  <2>4. Good("delete", rest["delete"])
    BY <2>1, NothingRefused
    DEF Good, Handler, Read, Allowed, RowWrites, Shows, AdminTables, OwnedTables
  <2>5. QED
    BY <2>2, <2>3, <2>4 DEF GoodAll
<1> HIDE DEF rest
<1>2. GoodAll(Joined(Reads, rest))
  BY <1>1, JoinedGood, ReadsGood
<1>3. QED
  BY <1>2 DEF TimeEntries, rest

LEMMA WorkPackagesGood == resource = "work_packages" => GoodAll(WorkPackages)
<1> SUFFICES ASSUME resource = "work_packages" PROVE GoodAll(WorkPackages)
  OBVIOUS
<1> DEFINE rest == [create |-> Handler("anyone", <<"create">>, {}),
               update |-> Handler("anyone", <<"update">>, {"Conflict", "NotFound"}),
               delete |-> Handler("anyone", <<"delete">>, {"NotFound"})]
<1>1. GoodAll(rest)
  BY NothingRefused DEF Good, GoodAll, Handler, Read, Allowed, AllErrors, RowWrites, Shows, AdminTables, OwnedTables, Refuses
<1> HIDE DEF rest
<1>2. GoodAll(Joined(Reads, rest))
  BY <1>1, JoinedGood, ReadsGood
<1>3. QED
  BY <1>2 DEF WorkPackages, rest

LEMMA ArchivingGood == resource = "projects" => GoodAll(Archiving)
BY NothingRefused
DEF Archiving, Good, GoodAll, Handler, Read, Allowed, AllErrors, RowWrites, Shows, AdminTables, OwnedTables, Refuses

LEMMA LockingGood == resource = "users" => GoodAll(Locking)
<1> SUFFICES ASSUME resource = "users" PROVE GoodAll(Locking)
  OBVIOUS
<1>1. Refuses("delete") = {"NotFound"}
  BY DEF Refuses, AllErrors
<1>2. Good("delete", Locking["delete"])
  BY <1>1, NothingRefused
  DEF Good, Handler, Read, Allowed, RowWrites, Shows, AdminTables, OwnedTables, Locking
<1>3. Good("lock", Locking["lock"])
  BY <1>1, NothingRefused
  DEF Good, Handler, Read, Allowed, RowWrites, Shows, AdminTables, OwnedTables, Locking
<1>4. Good("unlock", Locking["unlock"])
  BY <1>1, NothingRefused
  DEF Good, Handler, Read, Allowed, RowWrites, Shows, AdminTables, OwnedTables, Locking
<1>5. QED
  BY <1>2, <1>3, <1>4 DEF GoodAll, Locking

LEMMA QueryWritesGood == resource = "queries" => GoodAll(QueryWrites)
BY NothingRefused
DEF QueryWrites, Good, GoodAll, Handler, Read, Allowed, AllErrors, RowWrites, Shows, AdminTables, OwnedTables, Refuses

LEMMA StarsGood == resource = "queries" => GoodAll(Stars)
BY NothingRefused
DEF Stars, Good, GoodAll, Handler, Read, Allowed, AllErrors, RowWrites, Shows, AdminTables, OwnedTables, Refuses

LEMMA UsersGood == resource = "users" => GoodAll(Users)
<1> SUFFICES ASSUME resource = "users" PROVE GoodAll(Users)
  OBVIOUS
<1>1. Refuses("create") = {} /\ Refuses("update") = {"NotFound"}
  BY DEF Refuses
<1>2. Good("list", Users["list"])
  BY <1>1, NothingRefused
  DEF Users, Good, Handler, Read, Allowed, RowWrites, Shows, AdminTables, OwnedTables
<1>3. Good("get", Users["get"])
  BY <1>1, NothingRefused
  DEF Users, Good, Handler, Read, Allowed, RowWrites, Shows, AdminTables, OwnedTables
<1>4. Good("me", Users["me"])
  BY <1>1, NothingRefused
  DEF Users, Good, Handler, Read, Allowed, RowWrites, Shows, AdminTables, OwnedTables
<1>5. Good("create", Users["create"])
  BY <1>1, NothingRefused
  DEF Users, Good, Handler, Read, Allowed, RowWrites, Shows, AdminTables, OwnedTables
<1>6. Good("update", Users["update"])
  BY <1>1, NothingRefused
  DEF Users, Good, Handler, Read, Allowed, RowWrites, Shows, AdminTables, OwnedTables
<1>7. DOMAIN Users = {"list", "get", "me", "create", "update"}
  BY DEF Users
<1>8. QED
  BY <1>2, <1>3, <1>4, <1>5, <1>6, <1>7 DEF GoodAll

LEMMA RolesGood == resource = "roles" => GoodAll(Roles)
<1> SUFFICES ASSUME resource = "roles" PROVE GoodAll(Roles)
  OBVIOUS
<1>1. /\ Refuses("create") = {"Conflict"} /\ Refuses("update") = {"Conflict", "NotFound"}
      /\ Refuses("delete") = {"Conflict", "NotFound"}
  BY DEF Refuses
<1>2. Good("list", Roles["list"])
  BY <1>1, NothingRefused
  DEF Roles, Good, Handler, Read, Allowed, RowWrites, Shows, AdminTables, OwnedTables
<1>3. Good("get", Roles["get"])
  BY <1>1, NothingRefused
  DEF Roles, Good, Handler, Read, Allowed, RowWrites, Shows, AdminTables, OwnedTables
<1>4. Good("create", Roles["create"])
  BY <1>1, NothingRefused
  DEF Roles, Good, Handler, Read, Allowed, RowWrites, Shows, AdminTables, OwnedTables
<1>5. Good("update", Roles["update"])
  BY <1>1, NothingRefused
  DEF Roles, Good, Handler, Read, Allowed, RowWrites, Shows, AdminTables, OwnedTables
<1>6. Good("delete", Roles["delete"])
  BY <1>1, NothingRefused
  DEF Roles, Good, Handler, Read, Allowed, RowWrites, Shows, AdminTables, OwnedTables
<1>7. DOMAIN Roles = {"list", "get", "create", "update", "delete"}
  BY DEF Roles
<1>8. QED
  BY <1>2, <1>3, <1>4, <1>5, <1>6, <1>7 DEF GoodAll

LEMMA WatchersGood == resource = "watchers" => GoodAll(Watchers)
<1> SUFFICES ASSUME resource = "watchers" PROVE GoodAll(Watchers)
  OBVIOUS
<1>1. Refuses("create") = {"Conflict", "Validation"}
  BY DEF Refuses
<1>2. Good("list", Watchers["list"])
  BY <1>1, NothingRefused
  DEF Watchers, Good, Handler, Read, Allowed, RowWrites, Shows, AdminTables, OwnedTables
<1>3. Good("is_watching", Watchers["is_watching"])
  BY <1>1, NothingRefused
  DEF Watchers, Good, Handler, Read, Allowed, RowWrites, Shows, AdminTables, OwnedTables
<1>4. Good("add", Watchers["add"])
  BY <1>1, NothingRefused
  DEF Watchers, Good, Handler, Read, Allowed, RowWrites, Shows, AdminTables, OwnedTables
<1>5. Good("remove", Watchers["remove"])
  BY <1>1, NothingRefused
  DEF Watchers, Good, Handler, Read, Allowed, RowWrites, Shows, AdminTables, OwnedTables
<1>6. Good("watch", Watchers["watch"])
  BY <1>1, NothingRefused
  DEF Watchers, Good, Handler, Read, Allowed, RowWrites, Shows, AdminTables, OwnedTables
<1>7. Good("unwatch", Watchers["unwatch"])
  BY <1>1, NothingRefused
  DEF Watchers, Good, Handler, Read, Allowed, RowWrites, Shows, AdminTables, OwnedTables
<1>8. DOMAIN Watchers = {"list", "is_watching", "add", "remove", "watch", "unwatch"}
  BY DEF Watchers
<1>9. QED
  BY <1>2, <1>3, <1>4, <1>5, <1>6, <1>7, <1>8 DEF GoodAll

LEMMA NewsGood == GoodAll(News)
BY ReadsGood DEF News

(* Every handler of every resource.                                        *)
(* Every route of api_v3_router is as Good says.                           *)
LEMMA RouterGood ==
  ASSUME resource \in DOMAIN Router
  PROVE  GoodAll(Router[resource])
<1>1. CASE resource \in {"activities", "attachments", "categories", "journals", "memberships",
                         "news", "priorities", "relations", "roles"}
  BY <1>1, ActivitiesGood, AttachmentsGood, CategoriesGood, JournalsGood, MembershipsGood,
     NewsGood, PrioritiesGood, RelationsGood, RolesGood DEF Router
<1>2. CASE resource \in {"statuses", "time_entries", "types", "versions", "watchers",
                         "work_packages"}
  BY <1>2, StatusesGood, TimeEntriesGood, TypesGood, VersionsGood, WatchersGood,
     WorkPackagesGood DEF Router
<1>3. CASE resource = "projects"
  BY <1>3, ProjectsGood, ArchivingGood, JoinedGood DEF Router
<1>4. CASE resource = "users"
  BY <1>4, UsersGood, LockingGood, JoinedGood DEF Router
<1>5. CASE resource = "queries"
  <2>1. GoodAll(Joined(QueryWrites, Stars))
    BY <1>5, QueryWritesGood, StarsGood, JoinedGood
  <2>2. QED
    BY <1>5, <2>1, QueryReadsGood, JoinedGood DEF Router
<1>6. QED
  BY <1>1, <1>2, <1>3, <1>4, <1>5 DEF Router

-----------------------------------------------------------------------------
(***************************************************************************)
(* The invariant.                                                          *)
(***************************************************************************)
Handlers == DOMAIN Router[resource]

ATypeOK ==
  /\ closed \in BOOLEAN /\ connected \in BOOLEAN
  /\ resource \in Served
  /\ rows \in [Ids -> Row \cup {None}]
  /\ next \in Nat \ {0}
  /\ hidden \in SUBSET Ids
  /\ req \in [Requests -> [handler : Handlers \cup {None}, user : Nat, id : Nat, at : Nat]]
  /\ wrote \in [Requests -> BOOLEAN]
  /\ absent \in [Requests -> BOOLEAN]
  /\ failed \in [Requests -> BOOLEAN]
  /\ answer \in [Requests -> Nat \cup {None}]

(* Rows lie below the sequence, and an account is its own.                 *)
RowsOK ==
  \A i \in Ids : rows[i] # None => /\ i < next
                                   /\ resource = "users" => rows[i].owner = i

(* What a request in progress has behind it.                               *)
Passed(r, S) == \E k \in 1 .. (req[r].at - 1) : H(r).steps[k] \in S
GateHolds(r) ==
  /\ H(r).gate \in {"admin", "another"} => IsAdmin(req[r].user)
  /\ H(r).gate = "self" => IsAdmin(req[r].user) \/ req[r].user = req[r].id
Mine(r) == IsAdmin(req[r].user) \/ rows[req[r].id].owner = req[r].user

Underway(r) ==
  /\ ~closed
  /\ req[r].at \in DOMAIN H(r).steps
  /\ ~Present(req[r].id) => absent[r]
  /\ GateHolds(r)
  /\ wrote[r] => Passed(r, RowWrites)
  /\ Passed(r, {"create", "update"}) => wrote[r]
  /\ Passed(r, {"owner"}) => req[r].id < next /\ (Present(req[r].id) => Mine(r))

(* The row was missing at some moment, or the search does not show it.     *)
Unshown(r) == absent[r] \/ (resource = "watchers" /\ req[r].id \in hidden)
Refusal(code) == code \in {400, 401, 403, 404, 409}
Answered(r) ==
  /\ Refusal(answer[r]) /\ wrote[r] => ~Present(req[r].id)
  /\ answer[r] = 404 => absent[r]
  /\ answer[r] = 500 => ~connected \/ failed[r] \/ (wrote[r] /\ Unshown(r))

Fine(r) ==
  /\ req[r].handler = None => req[r] = NoRequest /\ answer[r] = None /\ ~wrote[r]
  /\ wrote[r] => req[r].id < next
  /\ Answered(r)
  /\ r \in Active => Underway(r)

AInv == ATypeOK /\ RowsOK /\ \A r \in Requests : Fine(r)

-----------------------------------------------------------------------------
(***************************************************************************)
(* What a step of one request leaves to the others.                        *)
(***************************************************************************)
Only(r) ==
  /\ UNCHANGED <<closed, connected, resource, hidden>>
  /\ \A x \in Requests \ {r} : /\ req'[x] = req[x] /\ answer'[x] = answer[x]
                               /\ wrote'[x] = wrote[x] /\ failed'[x] = failed[x]
                               /\ absent[x] => absent'[x]

(* A row stays, is written by its owner's leave, goes, or is new.          *)
Kept(i) == rows'[i] = rows[i]
Changed(i) == rows[i] # None /\ rows'[i] # None /\ rows'[i].owner = rows[i].owner
Removed(i) ==
  rows[i] # None /\ rows'[i] = None /\ \A q \in Active : req[q].id = i => absent'[q]
Added(i) ==
  /\ rows[i] = None /\ i = next /\ next' = next + 1 /\ rows'[i] # None
  /\ resource = "users" => rows'[i].owner = i
RowsStep ==
  /\ next' >= next
  /\ \A i \in Ids : Kept(i) \/ Changed(i) \/ Removed(i) \/ Added(i)

(* Ids are positive, and None is neither an id nor a row.                  *)
LEMMA IdsKnown == Ids \subseteq Nat \ {0} /\ None \notin Nat /\ None \notin Row
<1>1. Cardinality(Ids) \in Nat
  BY ApiAssumption, FS_CardinalityType
<1>2. Ids = 1 .. Cardinality(Ids)
  BY ApiAssumption
<1>3. Ids \subseteq Nat \ {0}
  BY <1>1, <1>2
<1>4. QED
  BY <1>3, ApiAssumption DEF Row

(* Rows stay below the sequence, and accounts their own, however a row is  *)
(* written, removed or added.                                              *)
LEMMA RowsStepOK ==
  ASSUME AInv, ATypeOK', RowsStep, resource' = resource
  PROVE  RowsOK'
<1> SUFFICES ASSUME NEW i \in Ids, rows'[i] # None
             PROVE  i < next' /\ (resource = "users" => rows'[i].owner = i)
  BY DEF RowsOK
<1>1. /\ next \in Nat /\ next' \in Nat /\ next' >= next /\ i \in Int
      /\ rows[i] # None => i < next /\ (resource = "users" => rows[i].owner = i)
  BY IdsKnown DEF AInv, ATypeOK, RowsOK, RowsStep
<1>2. Kept(i) \/ Changed(i) \/ Added(i)
  BY DEF RowsStep, Removed
<1>3. QED
  BY <1>1, <1>2 DEF Kept, Changed, Added

(* An id below the sequence does not come back: what is there after a step *)
(* was there before it, with the same owner.                               *)
LEMMA PresentBefore ==
  ASSUME AInv, ATypeOK', RowsStep, NEW i \in Nat, i < next, Present(i)'
  PROVE  Present(i) /\ rows'[i].owner = rows[i].owner
BY DEF AInv, ATypeOK, RowsStep, Kept, Changed, Removed, Added, Present

(* Whoever's row goes while the request is under way has it noted.         *)
LEMMA AbsentAfter ==
  ASSUME AInv, ATypeOK', RowsStep, NEW q \in Active, req'[q].id = req[q].id, ~Present(req[q].id)',
         absent[q] => absent'[q]
  PROVE  absent'[q]
<1>1. Present(req[q].id) \/ absent[q]
  BY DEF AInv, Fine, Underway, Active
<1>2. CASE absent[q]
  BY <1>2
<1>3. CASE Present(req[q].id)
  <2>1. req[q].id \in Ids /\ rows[req[q].id] # None /\ rows'[req[q].id] = None
    BY <1>3 DEF Present
  <2>2. Removed(req[q].id)
    BY <2>1 DEF RowsStep, Kept, Changed, Added
  <2>3. QED
    BY <2>2 DEF Removed
<1>4. QED
  BY <1>1, <1>2, <1>3

(* What one request does leaves every other one fine: a check it made of   *)
(* its row, its owner included, still holds or the row is gone for good.   *)
LEMMA OthersFine ==
  ASSUME AInv, ATypeOK', RowsStep, NEW r \in Requests, Only(r), NEW x \in Requests \ {r}
  PROVE  Fine(x)'
<1>1. /\ req'[x] = req[x] /\ answer'[x] = answer[x] /\ wrote'[x] = wrote[x]
      /\ failed'[x] = failed[x] /\ (absent[x] => absent'[x]) /\ Fine(x)
      /\ UNCHANGED <<closed, connected, resource, hidden>>
      /\ next' >= next /\ next \in Nat /\ next' \in Nat /\ req[x].id \in Nat
  BY DEF Only, AInv, ATypeOK, RowsStep
<1>2. req[x].id < next => (Present(req[x].id)' => Present(req[x].id) /\ rows'[req[x].id].owner = rows[req[x].id].owner)
  BY <1>1, PresentBefore
<1>3. Answered(x)'
  BY <1>1, <1>2 DEF Fine, Answered, Refusal, Unshown
<1>4. ASSUME x \in Active'
      PROVE  Underway(x)'
  <2>1. x \in Active /\ Underway(x)
    BY <1>1, <1>4 DEF Active, Fine
  <2>2. ~Present(req[x].id)' => absent'[x]
    BY <1>1, <2>1, AbsentAfter
  <2>3. H(x)' = H(x) /\ GateHolds(x)'
    BY <1>1, <2>1 DEF Underway, GateHolds, H
  <2>4. \A S : Passed(x, S)' = Passed(x, S)
    BY <1>1 DEF Passed, H
  <2>5. Passed(x, {"owner"})' => req'[x].id < next' /\ (Present(req[x].id)' => Mine(x)')
    BY <1>1, <1>2, <2>1, <2>4 DEF Underway, Mine
  <2>6. QED
    BY <1>1, <2>1, <2>2, <2>3, <2>4, <2>5 DEF Underway
<1>5. QED
  BY <1>1, <1>3, <1>4 DEF Fine

(* The invariant is kept by a step that writes rows as RowsStep says,      *)
(* concerns one request and leaves that one fine.                          *)
LEMMA StepKeeps ==
  ASSUME AInv, ATypeOK', RowsStep, NEW r \in Requests, Only(r), Fine(r)'
  PROVE  AInv'
BY OthersFine, RowsStepOK DEF AInv, Only

-----------------------------------------------------------------------------
(***************************************************************************)
(* What a step does to its own request.                                    *)
(***************************************************************************)
(* What is known of a request under way.                                   *)
LEMMA ActiveKnown ==
  ASSUME AInv, NEW r \in Active
  PROVE  /\ r \in Requests /\ Underway(r) /\ req[r].handler \in Handlers
         /\ H(r) = Router[resource][req[r].handler]
         /\ Good(req[r].handler, H(r))
         /\ req[r].at \in 1 .. Len(H(r).steps) /\ Len(H(r).steps) \in Nat
         /\ answer[r] = None /\ wrote[r] \in BOOLEAN
<1>1. r \in Requests /\ req[r].handler \in Handlers /\ answer[r] = None
  BY DEF Active, AInv, ATypeOK
<1>2. GoodAll(Router[resource])
  BY RouterGood, RouterAssumption DEF AInv, ATypeOK
<1>3. Good(req[r].handler, H(r))
  BY <1>1, <1>2 DEF GoodAll, H, Handlers
<1>4. Underway(r)
  BY <1>1 DEF AInv, Fine
<1>5. QED
  BY <1>1, <1>3, <1>4 DEF H, Good, Underway, AInv, ATypeOK

(* An answer.                                                              *)
LEMMA AnswerFine ==
  ASSUME AInv, ATypeOK', NEW r \in Active, NEW code \in Nat,
         req'[r].handler = req[r].handler, answer'[r] = code,
         wrote'[r] => req'[r].id < next',
         Refusal(code) /\ wrote'[r] => ~Present(req[r].id)',
         code = 404 => absent'[r],
         code = 500 => ~connected' \/ failed'[r] \/ (wrote'[r] /\ Unshown(r)')
  PROVE  Fine(r)'
<1>1. req[r].handler # None /\ code # None
  BY ApiAssumption DEF Active
<1>2. r \notin Active'
  BY <1>1 DEF Active
<1>3. QED
  BY <1>1, <1>2 DEF Fine, Answered

(* The codes of success, none of them a refusal.                           *)
LEMMA SuccessKnown == ASSUME NEW name PROVE Success(name) \in {200, 201, 204}
BY DEF Success

(* The call returned, and the handler goes on with id i or succeeds.       *)
Advanced(r, i) ==
  \/ /\ req[r].at = Len(H(r).steps)
     /\ req'[r].handler = req[r].handler /\ answer'[r] = Success(req[r].handler)
  \/ /\ req[r].at # Len(H(r).steps) /\ answer'[r] = None
     /\ req'[r].handler = req[r].handler /\ req'[r].user = req[r].user
     /\ req'[r].at = req[r].at + 1

(* Going on adds the step just made to those behind the request.           *)
LEMMA PassedOn ==
  ASSUME AInv, NEW r \in Active, resource' = resource, NEW S,
         req'[r].handler = req[r].handler, req'[r].at = req[r].at + 1
  PROVE  H(r)' = H(r) /\ (Passed(r, S)' <=> Passed(r, S) \/ Step(r) \in S)
<1>1. H(r)' = H(r)
  BY DEF H
<1>2. req[r].at \in 1 .. Len(H(r).steps) /\ Len(H(r).steps) \in Nat
  BY ActiveKnown
<1>3. 1 .. (req'[r].at - 1) = (1 .. (req[r].at - 1)) \cup {req[r].at}
  BY <1>2
<1>4. QED
  BY <1>1, <1>3 DEF Passed, Step

(* A request whose call returned is fine: it goes on with what the call    *)
(* told it, or is answered with a success.                                 *)
LEMMA AdvanceFine ==
  ASSUME AInv, ATypeOK', RowsStep, NEW r \in Active, Only(r), NEW i \in Nat,
         Advanced(r, i), req'[r].id = i,
         i = req[r].id \/ (Step(r) = "create" /\ Present(i)'),
         wrote[r] => wrote'[r],
         wrote'[r] => wrote[r] \/ Step(r) \in RowWrites,
         wrote'[r] => i < next',
         Step(r) \in {"create", "update"} => wrote'[r],
         absent[r] => absent'[r],
         Step(r) = "owner" => i < next' /\ Mine(r)'
  PROVE  Fine(r)'
<1>1. /\ r \in Requests /\ Underway(r) /\ Good(req[r].handler, H(r))
      /\ req[r].at \in 1 .. Len(H(r).steps) /\ Len(H(r).steps) \in Nat
      /\ req[r].at \in DOMAIN H(r).steps /\ DOMAIN H(r).steps = 1 .. Len(H(r).steps)
  BY ActiveKnown DEF Underway, Good
<1>2. CASE answer'[r] = Success(req[r].handler) /\ req'[r].handler = req[r].handler
  <2>1. Success(req[r].handler) \in Nat /\ ~Refusal(Success(req[r].handler))
        /\ Success(req[r].handler) # 404 /\ Success(req[r].handler) # 500
    BY SuccessKnown DEF Refusal
  <2>2. QED
    BY <1>2, <2>1, AnswerFine
<1>3. CASE /\ req[r].at # Len(H(r).steps) /\ answer'[r] = None
           /\ req'[r].handler = req[r].handler /\ req'[r].user = req[r].user
           /\ req'[r].at = req[r].at + 1
  <2>1. UNCHANGED <<closed, connected, resource>> /\ req[r].id \in Nat
        /\ next \in Nat /\ next' \in Nat /\ next' >= next
    BY <1>1 DEF Only, AInv, ATypeOK, RowsStep
  <2>2. H(r)' = H(r) /\ \A S : Passed(r, S)' <=> Passed(r, S) \/ Step(r) \in S
    BY <1>3, <2>1, PassedOn
  <2>3. Step(r) = "create" => H(r).gate # "self" /\ ~Passed(r, {"owner"})
    <3>1. \A k \in 1 .. (req[r].at - 1) : k \in DOMAIN H(r).steps
      BY <1>1
    <3>2. QED
      BY <1>1, <3>1 DEF Good, Passed, Step
  <2>4. ~Present(i)' => absent'[r]
    BY <1>1, AbsentAfter
  <2>5. GateHolds(r)'
    BY <1>1, <1>3, <2>2, <2>3 DEF Underway, GateHolds, IsAdmin
  <2>6. req'[r].at \in DOMAIN H(r)'.steps
    BY <1>1, <1>3, <2>2
  <2>7. /\ wrote'[r] => Passed(r, RowWrites)'
        /\ Passed(r, {"create", "update"})' => wrote'[r]
    BY <1>1, <2>2 DEF Underway
  <2>8. ASSUME Passed(r, {"owner"})'
        PROVE  i < next' /\ (Present(i)' => Mine(r)')
    <3>1. CASE Step(r) = "owner"
      BY <3>1
    <3>2. CASE Step(r) # "owner"
      <4>1. Passed(r, {"owner"})
        BY <2>2, <2>8, <3>2
      <4>2. i = req[r].id /\ i < next /\ (Present(i) => Mine(r))
        BY <1>1, <2>3, <4>1 DEF Underway
      <4>3. Present(i)' => Present(i) /\ rows'[i].owner = rows[i].owner
        BY <4>2, PresentBefore
      <4>4. QED
        BY <1>3, <2>1, <4>2, <4>3 DEF Mine, IsAdmin
    <3>3. QED
      BY <3>1, <3>2
  <2>9. Underway(r)'
    BY <1>1, <2>1, <2>4, <2>5, <2>6, <2>7, <2>8 DEF Underway
  <2>10. req[r].handler # None
    BY DEF Active
  <2>11. Answered(r)'
    BY <1>3, IdsKnown DEF Answered, Refusal
  <2>12. QED
    BY <1>3, <2>9, <2>10, <2>11 DEF Fine
<1>4. QED
  BY <1>2, <1>3 DEF Advanced

(* What req may hold.                                                      *)
Reqs == [handler : Handlers \cup {None}, user : Nat, id : Nat, at : Nat]

(* Proceed, at one request.                                                *)
LEMMA ProceedAdvances ==
  ASSUME AInv, NEW r \in Active, Proceed(r)
  PROVE  /\ Advanced(r, req[r].id) /\ req'[r].id = req[r].id
         /\ req' \in [Requests -> Reqs] /\ answer' \in [Requests -> Nat \cup {None}]
         /\ \A x \in Requests \ {r} : req'[x] = req[x] /\ answer'[x] = answer[x]
<1>1. r \in Requests /\ req \in [Requests -> Reqs] /\ answer \in [Requests -> Nat \cup {None}]
  BY DEF Active, AInv, ATypeOK, Reqs
<1>2. CASE req[r].at = Len(H(r).steps)
  BY <1>1, <1>2, SuccessKnown DEF Proceed, Advanced
<1>3. CASE req[r].at # Len(H(r).steps)
  <2>1. req' = [req EXCEPT ![r].at = @ + 1] /\ answer' = answer
    BY <1>3 DEF Proceed
  <2>2. [req[r] EXCEPT !.at = @ + 1] \in Reqs
    BY <1>1 DEF Reqs
  <2>3. req' \in [Requests -> Reqs]
    BY <1>1, <2>1, <2>2
  <2>4. /\ req'[r].handler = req[r].handler /\ req'[r].user = req[r].user
        /\ req'[r].id = req[r].id /\ req'[r].at = req[r].at + 1
    BY <1>1, <2>1 DEF Reqs
  <2>5. QED
    BY <1>1, <1>3, <2>1, <2>3, <2>4, ActiveKnown DEF Advanced
<1>4. QED
  BY <1>2, <1>3

(* Answer, at one request.                                                 *)
LEMMA AnswerKeeps ==
  ASSUME AInv, NEW r \in Active, NEW code \in Nat, Answer(r, code)
  PROVE  /\ req' = req /\ answer'[r] = code
         /\ answer' \in [Requests -> Nat \cup {None}]
         /\ \A x \in Requests \ {r} : answer'[x] = answer[x]
BY DEF Answer, Active, AInv, ATypeOK

(* Steps that write no row.                                                *)
Still == UNCHANGED <<closed, connected, resource, rows, next, hidden, wrote, absent>>

(* A step that writes no row is a step of the rows.                        *)
LEMMA StillSteps ==
  ASSUME AInv, Still
  PROVE  RowsStep /\ \A i \in Nat : Present(i)' = Present(i)
BY DEF Still, RowsStep, Kept, Present, AInv, ATypeOK

(* The database fails this request at most.                                *)
FailsOnly(r) ==
  failed' \in [Requests -> BOOLEAN] /\ \A x \in Requests \ {r} : failed'[x] = failed[x]

(* It fails none where failed is unchanged.                                *)
LEMMA NoneFails ==
  ASSUME AInv, failed' = failed, NEW r \in Requests
  PROVE  FailsOnly(r)
BY DEF FailsOnly, AInv, ATypeOK

(* An answer without a write keeps the invariant, if it is a true one.     *)
LEMMA StillAnswers ==
  ASSUME AInv, Still, NEW r \in Active, NEW code \in Nat, Answer(r, code),
         FailsOnly(r),
         Refusal(code) /\ wrote[r] => ~Present(req[r].id),
         code = 404 => ~Present(req[r].id),
         code = 500 => ~connected \/ failed'[r] \/ (wrote[r] /\ Unshown(r))
  PROVE  AInv'
<1>1. r \in Requests /\ req[r].id \in Nat /\ Underway(r) /\ (wrote[r] => req[r].id < next)
  BY ActiveKnown DEF AInv, ATypeOK, Fine
<1>2. ATypeOK'
  BY AnswerKeeps DEF AInv, ATypeOK, Still, Handlers, FailsOnly
<1>3. Only(r)
  BY <1>1, AnswerKeeps DEF Only, Still, AInv, ATypeOK, FailsOnly
<1>4. code = 404 => absent[r]
  BY <1>1 DEF Underway
<1>5. Fine(r)'
  <2>1. /\ req'[r] = req[r] /\ answer'[r] = code /\ wrote'[r] = wrote[r]
        /\ absent'[r] = absent[r] /\ connected' = connected /\ next' = next
        /\ Unshown(r)' = Unshown(r)
    BY AnswerKeeps DEF Still, Unshown
  <2>2. Present(req[r].id)' = Present(req[r].id)
    BY <2>1 DEF Present, Still
  <2>3. QED
    BY <1>1, <1>2, <1>4, <2>1, <2>2, AnswerFine
<1>6. QED
  BY <1>1, <1>2, <1>3, <1>5, StillSteps, StepKeeps

(* Going on without a write keeps the invariant; past the owner's check the*)
(* row is the caller's.                                                    *)
LEMMA StillProceeds ==
  ASSUME AInv, Still, failed' = failed, NEW r \in Active, Proceed(r),
         Step(r) \notin {"create", "update"},
         Step(r) = "owner" => Present(req[r].id) /\ Mine(r)
  PROVE  AInv'
<1>1. r \in Requests /\ req[r].id \in Nat /\ Underway(r) /\ (wrote[r] => req[r].id < next)
  BY ActiveKnown DEF AInv, ATypeOK, Fine
<1>2. ATypeOK'
  BY ProceedAdvances DEF AInv, ATypeOK, Still, Handlers, Reqs
<1>3. Only(r)
  BY <1>1, ProceedAdvances DEF Only, Still
<1>4. /\ wrote'[r] = wrote[r] /\ absent'[r] = absent[r] /\ next' = next
      /\ req'[r].id = req[r].id /\ Advanced(r, req[r].id)
  BY ProceedAdvances DEF Still
<1>5. CASE Step(r) # "owner"
  <2>1. Fine(r)'
    BY <1>1, <1>2, <1>3, <1>4, <1>5, StillSteps, AdvanceFine
  <2>2. QED
    BY <1>1, <1>2, <1>3, <2>1, StillSteps, StepKeeps
<1>6. CASE Step(r) = "owner"
  <2>1. req[r].id < next
    BY <1>6 DEF AInv, RowsOK, Present
  <2>2. CASE req'[r].user = req[r].user
    <3>1. Mine(r)'
      BY <1>4, <1>6, <2>2 DEF Mine, IsAdmin, Still
    <3>2. Fine(r)'
      BY <1>1, <1>2, <1>3, <1>4, <1>6, <2>1, <3>1, StillSteps, AdvanceFine
    <3>3. QED
      BY <1>1, <1>2, <1>3, <3>2, StillSteps, StepKeeps
  <2>3. req'[r].user = req[r].user
    BY <1>1 DEF Proceed, AInv, ATypeOK
  <2>4. QED
    BY <2>2, <2>3
<1>7. QED
  BY <1>5, <1>6

(* What follows a write of a row neither refuses nor writes anew.          *)
LEMMA AfterWrite ==
  ASSUME AInv, NEW r \in Active, wrote[r]
  PROVE  Step(r) \in Shows
<1>1. /\ Underway(r) /\ Good(req[r].handler, H(r))
      /\ req[r].at \in 1 .. Len(H(r).steps) /\ Len(H(r).steps) \in Nat
      /\ DOMAIN H(r).steps = 1 .. Len(H(r).steps)
  BY ActiveKnown DEF Good
<1>2. PICK k \in 1 .. (req[r].at - 1) : H(r).steps[k] \in RowWrites
  BY <1>1 DEF Underway, Passed
<1>3. k \in DOMAIN H(r).steps /\ k < req[r].at /\ req[r].at \in DOMAIN H(r).steps
  BY <1>1, <1>2
<1>4. QED
  BY <1>1, <1>2, <1>3 DEF Good, Step

(* Only what was written is shown again.                                   *)
LEMMA RecallWrote ==
  ASSUME AInv, NEW r \in Active, Step(r) \in {"recall", "search"}
  PROVE  wrote[r] /\ (Step(r) = "search" => resource = "watchers")
<1>1. /\ Underway(r) /\ Good(req[r].handler, H(r)) /\ req[r].at \in DOMAIN H(r).steps
  BY ActiveKnown DEF Good
<1>2. Passed(r, {"create", "update"})
  BY <1>1 DEF Good, Passed, Step
<1>3. Step(r) = "search" => resource = "watchers"
  BY <1>1 DEF Good, Step
<1>4. QED
  BY <1>1, <1>2, <1>3 DEF Underway

(* Look keeps the invariant, by what it answers.                           *)
LEMMA LookKeeps ==
  ASSUME AInv, NEW r \in Requests, Look(r)
  PROVE  AInv'
<1>1. r \in Active /\ Still /\ failed' = failed /\ Underway(r) /\ FailsOnly(r)
  BY ActiveKnown, NoneFails DEF Look, Unwritten, same, Still
<1>2. CASE Proceed(r) /\ Step(r) \in {"get", "exists", "recall", "search", "unique", "date", "list"}
  BY <1>1, <1>2, StillProceeds
<1>3. CASE Answer(r, 404) /\ ~Present(req[r].id)
  BY <1>1, <1>3, StillAnswers
<1>4. CASE /\ Answer(r, 500)
           /\ \/ Step(r) \in {"recall", "search"} /\ ~Present(req[r].id)
              \/ Step(r) = "search" /\ req[r].id \in hidden
  <2>1. wrote[r] /\ Unshown(r)
    BY <1>1, <1>4, RecallWrote DEF Underway, Unshown
  <2>2. QED
    BY <1>1, <1>4, <2>1, StillAnswers DEF Refusal
<1>5. CASE Step(r) \in {"unique", "date", "owner"} /\ \E code \in {400, 403, 409} : Answer(r, code)
  <2>1. ~wrote[r]
    BY <1>1, <1>5, AfterWrite DEF Shows
  <2>2. QED
    BY <1>1, <1>5, <2>1, StillAnswers
<1>6. CASE Step(r) = "owner" /\ Present(req[r].id) /\ Mine(r) /\ Proceed(r)
  BY <1>1, <1>6, StillProceeds
<1>7. QED
  BY <1>2, <1>3, <1>4, <1>5, <1>6 DEF Look, Mine

(* So does a refusal of the repository: it comes before any write, and its *)
(* error is named.                                                         *)
LEMMA RefuseKeeps ==
  ASSUME AInv, NEW r \in Requests, NEW error \in AllErrors, Refuse(r, error)
  PROVE  AInv'
<1>1. /\ r \in Active /\ Still /\ FailsOnly(r) /\ error \in Refuses(Step(r))
      /\ error = "NotFound" => ~Present(req[r].id)
      /\ Answer(r, Named(r, error))
  BY NoneFails DEF Refuse, Unwritten, same, Still
<1>2. ~wrote[r]
  BY <1>1, AfterWrite, NothingRefused DEF Shows
<1>3. error \in Allowed(H(r))
  <2>1. Good(req[r].handler, H(r)) /\ req[r].at \in DOMAIN H(r).steps
    BY <1>1, ActiveKnown DEF Underway
  <2>2. QED
    BY <1>1, <2>1 DEF Good, Step
<1>4. /\ Named(r, error) \in {204, 400, 404, 409}
      /\ Named(r, error) = 404 => error = "NotFound"
  BY <1>3 DEF Named, Allowed, StatusCode, AllErrors
<1>5. QED
  BY <1>1, <1>2, <1>4, StillAnswers

(* So do a failure of the database, a client that hangs up, and a star.    *)
LEMMA FailKeeps ==
  ASSUME AInv, NEW r \in Requests, Fail(r) \/ Drop(r) \/ Star(r)
  PROVE  AInv'
<1>1. r \in Active /\ Still
  BY DEF Fail, Drop, Star, Unwritten, same, Still
<1>2. CASE Fail(r)
  <2>1. FailsOnly(r) /\ failed'[r] = TRUE /\ Answer(r, 500)
    BY <1>2 DEF Fail, AInv, ATypeOK, FailsOnly
  <2>2. ~Refusal(500) /\ 500 \in Nat /\ 500 # 404
    BY DEF Refusal
  <2>3. QED
    BY <1>1, <2>1, <2>2, StillAnswers
<1>3. CASE Drop(r)
  BY <1>1, <1>3, NoneFails, StillAnswers DEF Drop, same, Refusal
<1>4. CASE Star(r)
  BY <1>1, <1>4, StillProceeds DEF Star, same
<1>5. QED
  BY <1>2, <1>3, <1>4

(***************************************************************************)
(* Writes.                                                                 *)
(***************************************************************************)
(* A write of a row that is there, by the request that goes on with it.    *)
LEMMA WriteProceeds ==
  ASSUME AInv, NEW r \in Active, NEW row \in Row \cup {None}, Present(req[r].id),
         Written(r, req[r].id, row), row # None => row.owner = rows[req[r].id].owner,
         Proceed(r), UNCHANGED <<closed, connected, resource, hidden, failed, next>>,
         Step(r) \in RowWrites \ {"create"}
  PROVE  AInv'
<1> DEFINE i == req[r].id
<1>1. /\ r \in Requests /\ i \in Ids /\ rows[i] # None /\ i \in Nat /\ i < next
      /\ next \in Nat
  BY DEF Active, Present, AInv, ATypeOK, RowsOK
<1>2. /\ rows' \in [Ids -> Row \cup {None}] /\ rows'[i] = row
      /\ \A j \in Ids \ {i} : Kept(j)
      /\ wrote' \in [Requests -> BOOLEAN] /\ wrote'[r] = TRUE
      /\ absent' \in [Requests -> BOOLEAN]
      /\ \A x \in Requests : /\ absent[x] => absent'[x]
                             /\ x # r => wrote'[x] = wrote[x]
                             /\ row = None /\ x \in Active /\ req[x].id = i => absent'[x]
  BY <1>1 DEF Written, Kept, AInv, ATypeOK
<1>3. ATypeOK'
  BY <1>2, ProceedAdvances DEF AInv, ATypeOK, Handlers, Reqs
<1>4. RowsStep
  <2>1. Changed(i) \/ Removed(i)
    BY <1>1, <1>2 DEF Changed, Removed, Active
  <2>2. QED
    BY <1>1, <1>2, <2>1 DEF RowsStep
<1>5. Only(r)
  BY <1>2, ProceedAdvances DEF Only
<1>6. Fine(r)'
  BY <1>1, <1>2, <1>3, <1>4, <1>5, ProceedAdvances, AdvanceFine DEF RowWrites
<1>7. QED
  BY <1>1, <1>3, <1>4, <1>5, <1>6, StepKeeps

(* update, archive, lock and set_permissions keep the invariant.           *)
LEMMA UpdateKeeps ==
  ASSUME AInv, NEW r \in Requests, Update(r)
  PROVE  AInv'
<1>1. /\ r \in Active /\ Step(r) \in {"update", "set", "more"} /\ Proceed(r)
      /\ UNCHANGED <<closed, connected, resource, hidden, failed>>
  BY DEF Update, same
<1>2. CASE Present(req[r].id)
  <2> DEFINE row == [rows[req[r].id] EXCEPT !.value = 1 - @]
  <2>1. rows[req[r].id] \in Row
    BY <1>2 DEF Present, AInv, ATypeOK
  <2>2. row \in Row /\ row.owner = rows[req[r].id].owner
    BY <2>1 DEF Row
  <2>3. Written(r, req[r].id, row) /\ next' = next
    BY <1>2 DEF Update
  <2> HIDE DEF row
  <2>4. QED
    BY <1>1, <1>2, <2>2, <2>3, WriteProceeds DEF RowWrites
<1>3. CASE ~Present(req[r].id)
  <2>1. Still /\ failed' = failed /\ Step(r) \in {"set", "more"}
    BY <1>1, <1>3 DEF Update, Unwritten, Still
  <2>2. QED
    BY <1>1, <2>1, StillProceeds
<1>4. QED
  BY <1>2, <1>3

(* delete keeps the invariant, whether the row is there or not.            *)
LEMMA DeleteKeeps ==
  ASSUME AInv, NEW r \in Requests, Delete(r)
  PROVE  AInv'
<1>1. /\ r \in Active /\ Step(r) \in {"delete", "remove", "unset"}
      /\ UNCHANGED <<closed, connected, resource, hidden, failed>>
  BY DEF Delete, same
<1>2. CASE Present(req[r].id)
  BY <1>1, <1>2, WriteProceeds DEF Delete, RowWrites
<1>3. CASE ~Present(req[r].id)
  <2>1. Still /\ failed' = failed /\ FailsOnly(r)
    BY <1>1, <1>3, NoneFails DEF Delete, Unwritten, Still
  <2>2. CASE Answer(r, 404)
    BY <1>1, <1>3, <2>1, <2>2, StillAnswers
  <2>3. CASE Proceed(r)
    BY <1>1, <2>1, <2>3, StillProceeds
  <2>4. QED
    BY <1>3, <2>2, <2>3 DEF Delete
<1>4. QED
  BY <1>2, <1>3

(* Create, at its request: it goes on with the new id.                     *)
LEMMA CreateAdvances ==
  ASSUME AInv, NEW r \in Active, Create(r)
  PROVE  /\ Advanced(r, next) /\ req'[r].id = next
         /\ req' \in [Requests -> Reqs] /\ answer' \in [Requests -> Nat \cup {None}]
         /\ \A x \in Requests \ {r} : req'[x] = req[x] /\ answer'[x] = answer[x]
<1>1. /\ r \in Requests /\ req \in [Requests -> Reqs] /\ answer \in [Requests -> Nat \cup {None}]
      /\ next \in Nat /\ answer[r] = None
  BY DEF Active, AInv, ATypeOK, Reqs
<1>2. CASE Len(H(r).steps) = req[r].at
  <2>1. /\ answer' = [answer EXCEPT ![r] = Success(req[r].handler)]
        /\ req' = [req EXCEPT ![r].id = next]
    BY <1>2 DEF Create
  <2>2. [req[r] EXCEPT !.id = next] \in Reqs
    BY <1>1 DEF Reqs
  <2>3. req' \in [Requests -> Reqs]
    BY <1>1, <2>1, <2>2
  <2>4. req'[r].handler = req[r].handler /\ req'[r].id = next
    BY <1>1, <2>1 DEF Reqs
  <2>5. QED
    BY <1>1, <1>2, <2>1, <2>3, <2>4, SuccessKnown DEF Advanced
<1>3. CASE Len(H(r).steps) # req[r].at
  <2>1. /\ answer' = answer
        /\ req' = [req EXCEPT ![r].id = next, ![r].at = @ + 1]
    BY <1>3 DEF Create
  <2>2. req' \in [Requests -> Reqs]
    BY <1>1, <2>1 DEF Reqs
  <2>4. /\ req'[r].handler = req[r].handler /\ req'[r].user = req[r].user
        /\ req'[r].id = next /\ req'[r].at = req[r].at + 1
    BY <1>1, <2>1 DEF Reqs
  <2>5. \A x \in Requests \ {r} : req'[x] = req[x]
    BY <1>1, <2>1
  <2>6. QED
    BY <1>1, <1>3, <2>1, <2>2, <2>4, <2>5 DEF Advanced
<1>4. QED
  BY <1>2, <1>3

(* create keeps the invariant: the id is fresh, so no request knew it.     *)
LEMMA CreateKeeps ==
  ASSUME AInv, NEW r \in Requests, Create(r)
  PROVE  AInv'
<1> DEFINE row == [owner |-> IF resource = "users" THEN next ELSE req[r].user, value |-> 0]
<1>0. PICK i \in Ids : i = next
  BY DEF Create
<1>1. /\ r \in Active /\ Step(r) = "create" /\ i \in Nat /\ i = next /\ next \in Nat
      /\ Written(r, i, row) /\ next' = next + 1
      /\ UNCHANGED <<closed, connected, resource, hidden, failed>>
  BY <1>0 DEF Create, same, AInv, ATypeOK
<1>2. row \in Row /\ row # None /\ (resource = "users" => row.owner = i)
  BY <1>1, IdsKnown DEF AInv, ATypeOK, Row
<1> HIDE DEF row
<1>3. rows[i] = None
  BY <1>1 DEF AInv, RowsOK
<1>4. /\ rows' \in [Ids -> Row \cup {None}] /\ rows'[i] = row
      /\ \A j \in Ids \ {i} : Kept(j)
      /\ wrote' \in [Requests -> BOOLEAN] /\ wrote'[r] = TRUE
      /\ absent' \in [Requests -> BOOLEAN]
      /\ \A x \in Requests : /\ absent[x] => absent'[x]
                             /\ x # r => wrote'[x] = wrote[x]
  BY <1>1, <1>2 DEF Written, Kept, AInv, ATypeOK
<1>5. ATypeOK'
  BY <1>1, <1>4, CreateAdvances DEF AInv, ATypeOK, Handlers, Reqs
<1>6. RowsStep
  <2>1. Added(i)
    BY <1>1, <1>2, <1>3, <1>4 DEF Added
  <2>2. next' >= next
    BY <1>1
  <2>3. \A j \in Ids : Kept(j) \/ Changed(j) \/ Removed(j) \/ Added(j)
    <3>1. TAKE j \in Ids
    <3>2. CASE j = i
      BY <2>1, <3>2
    <3>3. CASE j # i
      BY <1>4, <3>3
    <3>4. QED
      BY <3>2, <3>3
  <2>4. QED
    BY <2>2, <2>3 DEF RowsStep
<1>7. Only(r)
  BY <1>1, <1>4, CreateAdvances DEF Only
<1>8. Present(i)'
  BY <1>1, <1>2, <1>4 DEF Present
<1>9. Fine(r)'
  BY <1>1, <1>4, <1>5, <1>6, <1>7, <1>8, CreateAdvances, AdvanceFine DEF RowWrites
<1>10. QED
  BY <1>1, <1>5, <1>6, <1>7, <1>9, StepKeeps
(* A request arrives.                                                      *)
LEMMA BeginKeeps ==
  ASSUME AInv, NEW r \in Requests, NEW name \in Handlers, NEW u \in LetIn, NEW i \in Ids,
         NEW header \in BOOLEAN, Begin(r, name, u, i, header)
  PROVE  AInv'
<1> DEFINE user == Extracted(u, header)
           target == IF name = "me" THEN user ELSE i
           h == Router[resource][name]
           code == IF user = None THEN 401 ELSE Gate(h, user, i)
           new == IF user = None THEN [NoRequest EXCEPT !.handler = name]
                  ELSE [handler |-> name, user |-> user, id |-> target, at |-> 1]
<1>1. /\ req[r] = NoRequest
      /\ req' = [req EXCEPT ![r] = new]
      /\ answer' = [answer EXCEPT ![r] = IF code = None /\ h.steps = <<>> THEN 200 ELSE code]
      /\ absent' = [absent EXCEPT ![r] = ~Present(target)]
      /\ UNCHANGED <<closed, connected, resource, rows, next, hidden, wrote, failed>>
  BY DEF Begin
<1>2. /\ ATypeOK /\ ~wrote[r] /\ answer[r] = None /\ name # None
      /\ Good(name, h) /\ user \in Nat \cup {None}
  <2>1. GoodAll(Router[resource]) /\ resource \in Served
    BY RouterGood, RouterAssumption DEF AInv, ATypeOK
  <2>2. Fine(r) /\ req[r].handler = None
    BY <1>1 DEF AInv, NoRequest
  <2>3. QED
    BY <2>1, <2>2, RouterAssumption, ApiAssumption
       DEF AInv, GoodAll, Handlers, Fine, Extracted
<1>3. code \in Nat \cup {None}
  BY DEF Gate
<1>4. new \in Reqs /\ new.handler = name
  BY <1>2, IdsKnown DEF Reqs, NoRequest
<1>5. ATypeOK'
  BY <1>1, <1>2, <1>3, <1>4 DEF ATypeOK, Handlers, Reqs
<1>6. Only(r) /\ RowsStep
  BY <1>1, <1>2 DEF Only, ATypeOK, RowsStep, Kept
<1>7. Fine(r)'
  <2>1. /\ req'[r] = new /\ answer'[r] = (IF code = None /\ h.steps = <<>> THEN 200 ELSE code)
        /\ absent'[r] = ~Present(target) /\ wrote'[r] = FALSE /\ connected' = connected
        /\ closed' = closed /\ resource' = resource /\ rows' = rows
    BY <1>1, <1>2 DEF ATypeOK
  <2>2. code \in {401, 403, 409, 500, None} /\ (code = 500 => ~connected)
    BY IdsKnown DEF Gate
  <2>3. Answered(r)'
    BY <2>1, <2>2, IdsKnown DEF Answered, Refusal
  <2>4. ASSUME r \in Active'
        PROVE  Underway(r)'
    <3>1. answer'[r] = None /\ code = None /\ h.steps # <<>> /\ user # None
      BY <2>1, <2>4, IdsKnown DEF Active
    <3>2. /\ req'[r].user = user /\ req'[r].id = target /\ req'[r].at = 1
          /\ req'[r].handler = name /\ user = u /\ ~closed
      BY <2>1, <3>1 DEF Extracted
    <3>3. H(r)' = h
      BY <2>1, <3>2 DEF H
    <3>4. 1 \in DOMAIN h.steps
      BY <1>2, <3>1 DEF Good
    <3>5. GateHolds(r)'
      <4>1. Gate(h, user, i) = None
        BY <3>1
      <4>2. /\ h.gate \in {"admin", "another"} => IsAdmin(user)
            /\ h.gate = "self" => IsAdmin(user) \/ user = i
        BY <4>1, IdsKnown DEF Gate
      <4>3. h.gate = "self" => target = i
        BY <1>2 DEF Good
      <4>4. QED
        BY <3>2, <3>3, <4>2, <4>3 DEF GateHolds, IsAdmin
    <3>6. \A S : ~Passed(r, S)'
      BY <3>2 DEF Passed
    <3>7. Present(req[r].id)' <=> Present(target)
      BY <2>1, <3>2 DEF Present
    <3>8. QED
      BY <2>1, <3>2, <3>3, <3>4, <3>5, <3>6, <3>7 DEF Underway
  <2>5. QED
    BY <1>2, <1>4, <2>1, <2>3, <2>4 DEF Fine
<1>8. QED
  BY <1>5, <1>6, <1>7, StepKeeps

(* At the start the rows lie below the sequence, and nobody asked yet.     *)
LEMMA InitFine == Init => AInv
<1> SUFFICES ASSUME Init PROVE AInv
  OBVIOUS
<1>1. PICK owners \in [Ids -> Ids \cup {0, None}] :
        /\ \A i \in Ids : owners[i] # None => \A j \in Ids : j < i => owners[j] # None
        /\ rows = [i \in Ids |-> IF owners[i] = None THEN None
                                 ELSE [owner |-> IF resource = "users" THEN i ELSE owners[i],
                                       value |-> 0]]
        /\ next = Cardinality({i \in Ids : owners[i] # None}) + 1
  BY DEF Init
<1> DEFINE there == {i \in Ids : owners[i] # None}
<1>2. IsFiniteSet(there) /\ Cardinality(there) \in Nat
  BY ApiAssumption, FS_Subset, FS_CardinalityType
<1>3. ATypeOK
  <2>1. rows \in [Ids -> Row \cup {None}]
    BY <1>1, IdsKnown DEF Row
  <2>2. next \in Nat \ {0}
    BY <1>1, <1>2
  <2>3. QED
    BY <2>1, <2>2 DEF Init, ATypeOK, NoRequest
<1>4. RowsOK
  <2> SUFFICES ASSUME NEW i \in Ids, rows[i] # None
               PROVE  i < next /\ (resource = "users" => rows[i].owner = i)
    BY DEF RowsOK
  <2>1. owners[i] # None /\ (resource = "users" => rows[i].owner = i)
    BY <1>1
  <2>2. i \in Nat \ {0} /\ Cardinality(Ids) \in Nat /\ Ids = 1 .. Cardinality(Ids)
    BY IdsKnown, ApiAssumption, FS_CardinalityType
  <2>3. 1 .. i \subseteq there
    BY <1>1, <2>1, <2>2
  <2>4. Cardinality(1 .. i) = i
    BY <2>2, FS_Interval
  <2>5. Cardinality(1 .. i) <= Cardinality(there)
    BY <1>2, <2>3, FS_Subset
  <2>6. QED
    BY <1>1, <1>2, <2>1, <2>2, <2>4, <2>5
<1>5. \A r \in Requests : Fine(r)
  <2> TAKE r \in Requests
  <2>1. req[r] = NoRequest /\ answer[r] = None /\ ~wrote[r]
    BY DEF Init
  <2>2. Answered(r)
    BY <2>1, IdsKnown DEF Answered, Refusal
  <2>3. r \notin Active
    BY <2>1 DEF Active, NoRequest
  <2>4. QED
    BY <2>1, <2>2, <2>3 DEF Fine
<1>6. QED
  BY <1>3, <1>4, <1>5 DEF AInv

(* The invariant is about the variables of the specification only.         *)
LEMMA StutterFine == AInv /\ UNCHANGED vars => AInv'
BY DEF AInv, ATypeOK, RowsOK, Fine, Answered, Refusal, Unshown, Active, Underway, Present,
       GateHolds, Passed, Mine, H, Handlers, IsAdmin, vars

(* A watcher out of the search's sight makes more answers true, none false.*)
LEMMA HideKeeps ==
  ASSUME AInv, NEW i \in Ids, Hide(i)
  PROVE  AInv'
<1>1. /\ UNCHANGED <<closed, connected, resource, rows, next, req, wrote, absent, failed, answer>>
      /\ hidden' = hidden \cup {i}
  BY DEF Hide
<1>2. ATypeOK' /\ RowsOK'
  BY <1>1 DEF AInv, ATypeOK, RowsOK, Handlers
<1>3. ASSUME NEW r \in Requests
      PROVE  Fine(r)'
  <2>1. Fine(r)
    BY DEF AInv
  <2>2. Answered(r)'
    BY <1>1, <2>1 DEF Fine, Answered, Unshown, Present
  <2>3. r \in Active' => Underway(r)'
    BY <1>1, <2>1 DEF Fine, Active, Underway, Present, GateHolds, Passed, Mine, H, IsAdmin
  <2>4. QED
    BY <1>1, <2>1, <2>2, <2>3 DEF Fine
<1>4. QED
  BY <1>2, <1>3 DEF AInv

(* Every step keeps the invariant.                                         *)
LEMMA NextKeeps == AInv /\ [Next]_vars => AInv'
<1> SUFFICES ASSUME AInv, [Next]_vars PROVE AInv'
  OBVIOUS
<1>1. CASE UNCHANGED vars
  BY <1>1, StutterFine
<1>2. ASSUME NEW r \in Requests, NEW name \in DOMAIN Router[resource], NEW u \in LetIn,
             NEW i \in Ids, NEW header \in BOOLEAN, Begin(r, name, u, i, header)
      PROVE  AInv'
  BY <1>2, BeginKeeps DEF Handlers
<1>3. ASSUME NEW r \in Requests,
             \/ Look(r) \/ Create(r) \/ Update(r) \/ Delete(r) \/ Star(r) \/ Fail(r) \/ Drop(r)
             \/ \E error \in AllErrors : Refuse(r, error)
      PROVE  AInv'
  BY <1>3, LookKeeps, CreateKeeps, UpdateKeeps, DeleteKeeps, FailKeeps, RefuseKeeps
<1>4. ASSUME NEW i \in Ids, Hide(i)
      PROVE  AInv'
  BY <1>4, HideKeeps
<1>5. QED
  BY <1>1, <1>2, <1>3, <1>4 DEF Next

(* The invariant holds of every run of the handlers of op-api.             *)
THEOREM ApiInvariance == Spec => []AInv
BY InitFine, NextKeeps, PTL DEF Spec

(* The variables have their types; a request's handler is one of its       *)
(* router's.                                                               *)
THEOREM ApiTypeCorrect == Spec => []ATypeOK
<1>1. AInv => ATypeOK
  BY DEF AInv
<1>2. QED
  BY <1>1, ApiInvariance, PTL

(* A 404 is true: at some moment of the request its row was not there.     *)
THEOREM NotFoundStaysTrue == Spec => []NotFoundIsTrue
<1>1. AInv => NotFoundIsTrue
  BY DEF AInv, Fine, Answered, NotFoundIsTrue
<1>2. QED
  BY <1>1, ApiInvariance, PTL

(* Whoever is answered with a 4xx changed no row that is still there: every*)
(* handler checks its gate and the owner, and lets the repository refuse,  *)
(* before anything is written.                                             *)
THEOREM RefusalsChangeNothing == Spec => []RefusalHasNoEffect
<1>1. AInv => RefusalHasNoEffect
  BY DEF AInv, Fine, Answered, Refusal, RefusalHasNoEffect
<1>2. QED
  BY <1>1, ApiInvariance, PTL

(* A 500 is a failure of the database, or a row the handler wrote and      *)
(* could not show, for it went meanwhile or the search of the watchers does*)
(* not reach it: map_err of every handler names whatever its repository    *)
(* may refuse.                                                             *)
THEOREM InternalErrorsAreTrouble == Spec => []InternalMeansTrouble
<1>1. AInv => InternalMeansTrouble
  BY DEF AInv, Fine, Answered, Unshown, InternalMeansTrouble
<1>2. QED
  BY <1>1, ApiInvariance, PTL
(* What a request may write.                                               *)
LEMMA MayWrite ==
  ASSUME AInv, NEW r \in Active, Step(r) \in RowWrites
  PROVE  /\ ~closed
         /\ resource \in AdminTables => IsAdmin(req[r].user)
         /\ resource \in OwnedTables /\ Step(r) # "create" /\ Present(req[r].id) => Mine(r)
<1>1. /\ Underway(r) /\ Good(req[r].handler, H(r)) /\ req[r].at \in DOMAIN H(r).steps
  BY ActiveKnown DEF Underway
<1>2. ~closed /\ (resource \in AdminTables => IsAdmin(req[r].user))
  BY <1>1 DEF Underway, Good, Step, GateHolds
<1>3. ASSUME resource \in OwnedTables, Step(r) # "create", Present(req[r].id)
      PROVE  Mine(r)
  <2>1. \/ H(r).gate \in {"admin", "another"}
        \/ H(r).gate = "self" /\ resource = "users"
        \/ \E l \in 1 .. (req[r].at - 1) : H(r).steps[l] = "owner"
    BY <1>1, <1>3 DEF Good, Step
  <2>2. CASE H(r).gate \in {"admin", "another"}
    BY <1>1, <2>2 DEF Underway, GateHolds, Mine
  <2>3. CASE H(r).gate = "self" /\ resource = "users"
    <3>1. rows[req[r].id].owner = req[r].id
      BY <1>3, <2>3 DEF AInv, RowsOK, Present
    <3>2. QED
      BY <1>1, <2>3, <3>1 DEF Underway, GateHolds, Mine
  <2>4. CASE \E l \in 1 .. (req[r].at - 1) : H(r).steps[l] = "owner"
    BY <1>1, <1>3, <2>4 DEF Underway, Passed
  <2>5. QED
    BY <2>1, <2>2, <2>3, <2>4
<1>4. QED
  BY <1>2, <1>3

(* Whether the caller may write the row.                                   *)
Entitled(r, i) ==
  /\ resource \in AdminTables => IsAdmin(req[r].user)
  /\ resource \in OwnedTables /\ rows[i] # None
       => IsAdmin(req[r].user) \/ rows[i].owner = req[r].user

(* A row changes by a request that may write it: the owner that was looked *)
(* up before the await is still the owner, for it never changes.           *)
LEMMA WriterEntitled ==
  ASSUME AInv, NEW r \in Requests, NEW i \in Ids, rows'[i] # rows[i],
         Create(r) \/ Update(r) \/ Delete(r)
  PROVE  ~closed /\ r \in Active /\ Entitled(r, i) /\ wrote'[r]
<1>0. r \in Active /\ Step(r) \in RowWrites
  BY DEF Create, Update, Delete, RowWrites
<1>1. CASE Create(r)
  <2>1. PICK j \in Ids : \E row : /\ j = next /\ rows' = [rows EXCEPT ![j] = row]
                                 /\ wrote' = [wrote EXCEPT ![r] = TRUE]
    BY <1>1 DEF Create, Written
  <2>2. i = next /\ rows[i] = None /\ wrote'[r]
    BY <2>1 DEF AInv, ATypeOK, RowsOK
  <2>3. QED
    BY <1>0, <2>2, MayWrite DEF Entitled
<1>2. CASE Update(r) \/ Delete(r)
  <2>1. Step(r) # "create" /\ rows' # rows
    BY <1>2 DEF Update, Delete
  <2>2. /\ Present(req[r].id) /\ \E row : Written(r, req[r].id, row)
    BY <1>2, <2>1 DEF Update, Delete, Unwritten
  <2>3. i = req[r].id /\ wrote'[r]
    BY <2>2 DEF Written, AInv, ATypeOK
  <2>4. QED
    BY <1>0, <2>1, <2>2, <2>3, MayWrite DEF Entitled, Mine
<1>3. QED
  BY <1>1, <1>2

(* The same for whole steps.                                               *)
LEMMA StepByRight ==
  ASSUME AInv, [Next]_vars
  PROVE  \A i \in Ids :
           rows'[i] # rows[i] =>
             ~closed /\ \E r \in Active :
               /\ resource \in AdminTables => IsAdmin(req[r].user)
               /\ resource \in OwnedTables /\ rows[i] # None
                    => IsAdmin(req[r].user) \/ rows[i].owner = req[r].user
               /\ wrote'[r]
<1> SUFFICES ASSUME NEW i \in Ids, rows'[i] # rows[i]
             PROVE  ~closed /\ \E r \in Active : Entitled(r, i) /\ wrote'[r]
  BY DEF Entitled
<1>1. PICK r \in Requests : Create(r) \/ Update(r) \/ Delete(r)
  BY DEF Next, vars, Begin, Look, Star, Fail, Drop, Refuse, Unwritten, Hide
<1>2. QED
  BY <1>1, WriterEntitled

(* Nobody but administrators writes the administrators' tables, nobody but *)
(* the owner or an administrator somebody's query, attachment, journal or  *)
(* account, and where authentication is required nobody writes at all.     *)
THEOREM WrittenByRight == Spec => ByRight
<1>1. AInv /\ [Next]_vars =>
        [\A i \in Ids :
           rows'[i] # rows[i] =>
             ~closed /\ \E r \in Active :
               /\ resource \in AdminTables => IsAdmin(req[r].user)
               /\ resource \in OwnedTables /\ rows[i] # None
                    => IsAdmin(req[r].user) \/ rows[i].owner = req[r].user
               /\ wrote'[r]]_vars
  BY StepByRight
<1>2. QED
  BY <1>1, ApiInvariance, PTL DEF Spec, ByRight

=============================================================================

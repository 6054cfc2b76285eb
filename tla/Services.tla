------------------------------ MODULE Services ------------------------------
(***************************************************************************)
(* The services of op-services for users, projects and work packages, and  *)
(* the contracts of op-contracts they validate with.                       *)
(*                                                                         *)
(* A service takes an entity and the parameters of a request, sets the     *)
(* attributes that are given, validates the outcome and returns it; it     *)
(* keeps nothing, so its caller stores what it returns.  A call that fails *)
(* returns errors and changes nothing.  It acts for a user context, which  *)
(* is taken once and not refreshed when that user's account changes.       *)
(***************************************************************************)
EXTENDS Integers

CONSTANTS
  Users, Projects, Packages,   \* ids
  NewUser, NewProject, NewPackage,   \* the id next_id gives every new entity
  DefaultProject,   \* the project of a request that names none, 1
  Anonymous,   \* the id of the anonymous user, 0
  Contexts,    \* calls in progress, each for a user
  Grants,      \* the permissions each user has, by project or globally
  UserRequests, ProjectRequests, PackageRequests,   \* the parameters callers give
  Global, None

ASSUME ServicesAssumption ==
  /\ DefaultProject \in Projects
  /\ NewUser \in Users /\ NewProject \in Projects /\ NewPackage \in Packages
  /\ Anonymous \notin Users /\ None \notin Users \cup Projects \cup {Anonymous}
  /\ DOMAIN Grants = Users \cup {Anonymous}

VARIABLES
  users, projects, packages,   \* what callers have stored
  context,                     \* the UserContext of each call
  acting                       \* history: the last call that succeeded

svars == <<users, projects, packages, context, acting>>

\* What the validations of an entity's texts tell apart: all acceptable, or not.
Text == {"good", "bad"}
User == [text : Text, admin : BOOLEAN, status : {"ACTIVE", "LOCKED"}]
Project == [text : Text, active : BOOLEAN, parent : Projects \cup {None}]
Package == [text : Text, project : Projects \cup {0}, author : Users \cup {Anonymous},
            done_ratio : Int]
UserContext == [id : Users \cup {Anonymous}, admin : BOOLEAN]

\* An id with nothing stored under it: an entity no contract accepts.
NoUser == [text |-> "bad", admin |-> FALSE, status |-> "ACTIVE"]
NoProject == [text |-> "bad", active |-> FALSE, parent |-> None]
NoPackage == [text |-> "bad", project |-> 0, author |-> Anonymous, done_ratio |-> 0]

\* Parameters leave an attribute alone by not giving it.
Given(old, new) == IF new = None THEN old ELSE new
UserParams == [text : Text \cup {None}, admin : BOOLEAN \cup {None},
               status : {"ACTIVE", "LOCKED", None}]
ProjectParams == [text : Text \cup {None}, active : BOOLEAN \cup {None},
                  parent : Projects \cup {None}]
PackageParams == [text : Text \cup {None}, project : Projects \cup {0, None},
                  done_ratio : Int \cup {None}]

ASSUME RequestsAssumption ==
  /\ UserRequests \subseteq UserParams /\ ProjectRequests \subseteq ProjectParams
  /\ PackageRequests \subseteq PackageParams

Allowed(c, permission, where) == context[c].admin \/ <<permission, where>> \in Grants[context[c].id]

-----------------------------------------------------------------------------
(* Users.  UpdateUserService validates with the contract for new users, so *)
(* only administrators get past it.                                        *)
UserEntity == [text |-> "bad", admin |-> FALSE, status |-> "ACTIVE"]

SetUserAttributes(c, user, p) ==
  [text |-> Given(user.text, p.text),
   admin |-> IF context[c].admin THEN Given(user.admin, p.admin) ELSE user.admin,
   status |-> Given(user.status, p.status)]

UserBaseContract(user) == user.text = "good"

CreateUserContract(c, user) ==
  /\ context[c].admin
  /\ UserBaseContract(user)

CanUpdate(c, u) == context[c].admin \/ context[c].id = u

Act(c) == acting' = c

CreateUser(c, p) ==
  /\ users' = [users EXCEPT ![NewUser] = SetUserAttributes(c, UserEntity, p)]
  /\ CreateUserContract(c, users'[NewUser])
  /\ Act(c) /\ UNCHANGED <<projects, packages, context>>

UpdateUser(c, u, p) ==
  /\ users[u] # NoUser
  /\ CanUpdate(c, u)
  /\ users' = [users EXCEPT ![u] = SetUserAttributes(c, @, p)]
  /\ CreateUserContract(c, users'[u])
  /\ Act(c) /\ UNCHANGED <<projects, packages, context>>

DeleteUserContract(c, u) == context[c].admin /\ context[c].id # u

DeleteUser(c, u) ==
  /\ users[u] # NoUser
  /\ DeleteUserContract(c, u)
  /\ users' = [users EXCEPT ![u] = NoUser]
  /\ Act(c) /\ UNCHANGED <<projects, packages, context>>

LockUser(c, u) ==
  /\ users[u] # NoUser /\ context[c].admin
  /\ users' = [users EXCEPT ![u].status = "LOCKED"]
  /\ Act(c) /\ UNCHANGED <<projects, packages, context>>

-----------------------------------------------------------------------------
(* Projects.                                                               *)
ProjectEntity == [text |-> "bad", active |-> TRUE, parent |-> None]

SetProjectAttributes(project, p) ==
  [text |-> Given(project.text, p.text), active |-> Given(project.active, p.active),
   parent |-> Given(project.parent, p.parent)]

CreateProjectContract(c, project) ==
  /\ Allowed(c, "add_project", Global)
  /\ project.text = "good"
  /\ project.parent # None => Allowed(c, "add_project", project.parent)

CreateProject(c, p) ==
  /\ projects' = [projects EXCEPT ![NewProject] = SetProjectAttributes(ProjectEntity, p)]
  /\ CreateProjectContract(c, projects'[NewProject])
  /\ Act(c) /\ UNCHANGED <<users, packages, context>>

UpdateProject(c, j, p) ==
  /\ projects[j] # NoProject
  /\ projects' = [projects EXCEPT ![j] = SetProjectAttributes(@, p)]
  /\ CreateProjectContract(c, projects'[j])
  /\ Act(c) /\ UNCHANGED <<users, packages, context>>

DeleteProjectContract(c) == context[c].admin

DeleteProject(c, j) ==
  /\ projects[j] # NoProject
  /\ DeleteProjectContract(c)
  /\ projects' = [projects EXCEPT ![j] = NoProject]
  /\ Act(c) /\ UNCHANGED <<users, packages, context>>

ArchiveProject(c, j) ==
  /\ projects[j] # NoProject
  /\ DeleteProjectContract(c)
  /\ projects' = [projects EXCEPT ![j].active = FALSE]
  /\ Act(c) /\ UNCHANGED <<users, packages, context>>

-----------------------------------------------------------------------------
(* Work packages.  The permission is asked for in the project the entity   *)
(* is in after its attributes are set.                                     *)
WorkPackageEntity(project, author) ==
  [text |-> "bad", project |-> project, author |-> author, done_ratio |-> 0]

SetPackageAttributes(package, p) ==
  [text |-> Given(package.text, p.text), project |-> Given(package.project, p.project),
   author |-> package.author, done_ratio |-> Given(package.done_ratio, p.done_ratio)]

WorkPackageBaseContract(package) ==
  /\ package.text = "good" /\ package.project # 0
  /\ package.done_ratio \in 0 .. 100

CreateWorkPackageContract(c, package) ==
  /\ Allowed(c, "add_work_packages", package.project)
  /\ WorkPackageBaseContract(package)
  /\ package.author # Anonymous

CreateWorkPackage(c, p) ==
  /\ packages' = [packages EXCEPT ![NewPackage] =
                    SetPackageAttributes(WorkPackageEntity(Given(DefaultProject, p.project),
                                                           context[c].id), p)]
  /\ CreateWorkPackageContract(c, packages'[NewPackage])
  /\ Act(c) /\ UNCHANGED <<users, projects, context>>

\* Mutant: the contract looks at the project the work package leaves.
UpdateWorkPackageFromOldProject(c, w, p) ==
  /\ packages[w] # NoPackage
  /\ packages' = [packages EXCEPT ![w] = SetPackageAttributes(@, p)]
  /\ CreateWorkPackageContract(c, [packages'[w] EXCEPT !.project = packages[w].project])
  /\ Act(c) /\ UNCHANGED <<users, projects, context>>

UpdateWorkPackage(c, w, p) ==
  /\ packages[w] # NoPackage
  /\ packages' = [packages EXCEPT ![w] = SetPackageAttributes(@, p)]
  /\ CreateWorkPackageContract(c, packages'[w])
  /\ Act(c) /\ UNCHANGED <<users, projects, context>>

DeleteWorkPackageContract(c, package) == Allowed(c, "delete_work_packages", package.project)

DeleteWorkPackage(c, w) ==
  /\ packages[w] # NoPackage
  /\ DeleteWorkPackageContract(c, packages[w])
  /\ packages' = [packages EXCEPT ![w] = NoPackage]
  /\ Act(c) /\ UNCHANGED <<users, projects, context>>

-----------------------------------------------------------------------------
\* A request begins: its context says who it acts for, and whether that is
\* an administrator now.
OpenContext(c, u) ==
  /\ users[u] # NoUser
  /\ context' = [context EXCEPT ![c] = [id |-> u, admin |-> users[u].admin]]
  /\ UNCHANGED <<users, projects, packages, acting>>

OpenAnonymousContext(c) ==
  /\ context' = [context EXCEPT ![c] = [id |-> Anonymous, admin |-> FALSE]]
  /\ UNCHANGED <<users, projects, packages, acting>>

\* The accounts and the project there are before the first call.
ServicesInit ==
  /\ \E root \in Users \ {NewUser} :
       users = [u \in Users |-> IF u = NewUser THEN NoUser
                                ELSE [text |-> "good", admin |-> u = root, status |-> "ACTIVE"]]
  /\ projects = [j \in Projects |-> IF j = NewProject THEN NoProject
                                    ELSE [text |-> "good", active |-> TRUE, parent |-> None]]
  /\ packages = [w \in Packages |-> NoPackage]
  /\ context = [c \in Contexts |-> [id |-> Anonymous, admin |-> FALSE]]
  /\ acting \in Contexts

ServicesNext ==
  \E c \in Contexts :
    \/ OpenAnonymousContext(c)
    \/ \E u \in Users : OpenContext(c, u) \/ DeleteUser(c, u) \/ LockUser(c, u)
    \/ \E p \in UserRequests : CreateUser(c, p) \/ \E u \in Users : UpdateUser(c, u, p)
    \/ \E p \in ProjectRequests : CreateProject(c, p) \/ \E j \in Projects : UpdateProject(c, j, p)
    \/ \E j \in Projects : DeleteProject(c, j) \/ ArchiveProject(c, j)
    \/ \E p \in PackageRequests : \/ CreateWorkPackage(c, p)
                                \/ \E w \in Packages : UpdateWorkPackage(c, w, p)
    \/ \E w \in Packages : DeleteWorkPackage(c, w)

ServicesSpec == ServicesInit /\ [][ServicesNext]_svars

-----------------------------------------------------------------------------
(* A work package gets into a project only by a call for somebody who may  *)
(* add work packages there, whether it is created or moved, and leaves the *)
(* store only by one for somebody who may delete it where it was.          *)
May(permission, project) ==
  context[acting'].admin \/ <<permission, project>> \in Grants[context[acting'].id]

EntersWhereAllowed ==
  [][\A w \in Packages :
       packages'[w] # packages[w]
         => IF packages'[w] = NoPackage THEN May("delete_work_packages", packages[w].project)
            ELSE May("add_work_packages", packages'[w].project)]_svars

(* An account becomes an administrator's, or a locked one active again,    *)
(* only by a call for somebody who was an administrator when the call's    *)
(* context was taken.                                                      *)
Raised(u) ==
  \/ users'[u].admin /\ ~users[u].admin
  \/ users[u].status = "LOCKED" /\ users'[u].status = "ACTIVE"

RaisedByAdmins == [][\A u \in Users : Raised(u) => context[acting'].admin]_svars

=============================================================================

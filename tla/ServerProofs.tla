---------------------------- MODULE ServerProofs ----------------------------
(***************************************************************************)
(* What is proved of the parts of the server that share no state: the      *)
(* registry and buckets of its views, the services with their contracts,   *)
(* its health report, its counters, the schema made for its tables and its *)
(* queries, for instances of any size.                                     *)
(***************************************************************************)
EXTENDS Views, Services, Health, Metrics, Schema, Queries, FiniteSetTheorems, TLAPS

(***************************************************************************)
(* Views.  The invariants of the registry are inductive together; the      *)
(* equivalence of buckets and direct lookup is arithmetic.                 *)
(***************************************************************************)
ViewsInv == TypeOK /\ StackOrder /\ Bijective

LEMMA ViewsStart == Init => ViewsInv
<1> SUFFICES ASSUME Init PROVE ViewsInv
  OBVIOUS
<1>1. nodes \in Seq(Node) /\ Len(nodes) = 0 /\ universe \in Seq(Names)
  BY DEF Init
<1>2. panicked \in BOOLEAN
  BY Zenon DEF Init
<1>3. given = {} /\ DOMAIN nodes = {}
  BY DEF Init
<1> QED  BY <1>1, <1>2, <1>3, ViewsAssumption DEF ViewsInv, TypeOK, StackOrder, Bijective

(* A number that is given again stands for the view it is given for.       *)
LEMMA ReuseKeeps ==
  ASSUME ViewsInv, NEW node \in Node, NEW id \in Id, Reuse(node, id), UNCHANGED universe
  PROVE  ViewsInv'
<1>1. TypeOK'
  BY DEF ViewsInv, TypeOK, Reuse
<1>2. StackOrder'
  BY DEF ViewsInv, StackOrder, Reuse
<1>3. Bijective'
  BY DEF ViewsInv, Bijective, Reuse, Resolves
<1> QED  BY <1>1, <1>2, <1>3 DEF ViewsInv

(* A new view is unlike the others, gets the next number, and its children *)
(* have lower ones; in a full registry nothing happens.                    *)
LEMMA AddKeeps ==
  ASSUME ViewsInv, NEW node \in Node, ChildrenKnown(node.children), Add(node), UNCHANGED universe
  PROVE  ViewsInv'
<1> USE ViewsAssumption
<1>0. nodes \in Seq(Node) /\ Len(nodes) \in Nat /\ Len(nodes) <= Span
  BY DEF ViewsInv, TypeOK
<1>1. CASE Len(nodes) >= Span
  <2>0. ~(Len(nodes) < Span)
    BY <1>0, <1>1
  <2>1. UNCHANGED <<nodes, given, universe>> /\ panicked' \in BOOLEAN
    BY <2>0, Zenon DEF Add
  <2> QED  BY <2>1 DEF ViewsInv, TypeOK, StackOrder, Bijective, Resolves
<1>2. CASE Len(nodes) < Span
  <2>1. /\ nodes' = Append(nodes, node)
        /\ given' = given \cup {[node |-> node, id |-> Len(nodes)]}
        /\ UNCHANGED <<panicked, universe>>
    <3>1. Len(nodes) % Span = Len(nodes)
      BY <1>0, <1>2
    <3> QED  BY <1>2, <3>1 DEF Add
  <2>2. Len(nodes') = Len(nodes) + 1 /\ \A k \in 1 .. Len(nodes) : nodes'[k] = nodes[k]
    BY <1>0, <2>1
  <2>3. nodes'[Len(nodes) + 1] = node
    BY <1>0, <2>1
  <2>4. TypeOK'
    BY <1>0, <1>2, <2>1, <2>2 DEF ViewsInv, TypeOK, Id
  <2>5. StackOrder'
    BY <1>0, <2>1, <2>2, <2>3 DEF ViewsInv, StackOrder, ChildrenKnown, Node, Id
  <2>6. Bijective'
    <3>1. \A g \in given' : Resolves(g.id, g.node)'
      BY <1>0, <2>1, <2>2, <2>3 DEF ViewsInv, TypeOK, Bijective, Resolves, Id
    <3>2. \A j \in 1 .. Len(nodes) : nodes'[j] # node
      <4> TAKE j \in 1 .. Len(nodes)
      <4>1. j - 1 \in 0 .. Len(nodes) - 1 /\ (j - 1) + 1 = j
        BY <1>0
      <4> QED  BY <4>1, <2>2 DEF Add
    <3>3. \A j, k \in DOMAIN nodes' : nodes'[j] = nodes'[k] => j = k
      BY <1>0, <2>1, <2>2, <2>3, <3>2 DEF ViewsInv, Bijective
    <3> QED  BY <3>1, <3>3 DEF Bijective
  <2> QED  BY <2>4, <2>5, <2>6 DEF ViewsInv
<1> QED  BY <1>0, <1>1, <1>2

LEMMA ViewsStep == ViewsInv /\ [Next]_vars => ViewsInv'
<1> SUFFICES ASSUME ViewsInv, [Next]_vars PROVE ViewsInv'
  OBVIOUS
<1>1. ASSUME NEW concept \in Concepts, NEW mask \in Masks, NEW n \in 0 .. MaxChildren,
             NEW children \in [1 .. n -> Id], Intern(ViewNode(concept, mask, children))
      PROVE  ViewsInv'
  <2>1. ViewNode(concept, mask, children) \in Node
    BY ViewsAssumption DEF ViewNode, Node
  <2> QED  BY <1>1, <2>1, ReuseKeeps, AddKeeps DEF Intern
<1>2. ASSUME NEW name \in Names, Declare(name) PROVE ViewsInv'
  BY <1>2 DEF Declare, ViewsInv, TypeOK, StackOrder, Bijective, Resolves
<1>3. CASE UNCHANGED vars
  BY <1>3 DEF vars, ViewsInv, TypeOK, StackOrder, Bijective, Resolves
<1> QED  BY <1>1, <1>2, <1>3 DEF Next

(* The variables keep their types: no registry outgrows its numbers.       *)
THEOREM TypeCorrect == Spec => []TypeOK
<1>1. ViewsInv => TypeOK
  BY DEF ViewsInv
<1> QED  BY <1>1, ViewsStart, ViewsStep, PTL DEF Spec

(* Every registry intern builds passes verify_stack_order.                 *)
THEOREM AcyclicByConstruction == Spec => []StackOrder
<1>1. ViewsInv => StackOrder
  BY DEF ViewsInv
<1> QED  BY <1>1, ViewsStart, ViewsStep, PTL DEF Spec

(* Every registry intern builds passes verify_bijective, and the numbers   *)
(* handed out before stay good.                                            *)
THEOREM NumbersStandForViews == Spec => []Bijective
<1>1. ViewsInv => Bijective
  BY DEF ViewsInv
<1> QED  BY <1>1, ViewsStart, ViewsStep, PTL DEF Spec

-----------------------------------------------------------------------------
(* Division with remainder, as the lookup uses it.                         *)
LEMMA DivMod ==
  ASSUME NEW pos \in Nat, NEW w \in Nat \ {0}
  PROVE  /\ pos \div w \in Nat /\ pos % w \in 0 .. w - 1
         /\ pos = (pos \div w) * w + (pos % w)
<1>1. pos \div w \in Int
  OBVIOUS
<1>2. pos % w \in 0 .. w - 1
  OBVIOUS
<1>3. pos = w * (pos \div w) + (pos % w)
  OBVIOUS
<1> DEFINE q == pos \div w
           r == pos % w
<1>4. q >= 0
  <2> HIDE DEF q, r
  <2>1. q \in Int /\ r \in 0 .. w - 1 /\ pos = w * q + r
    BY <1>1, <1>2, <1>3 DEF q, r
  <2> SUFFICES ASSUME q <= -1 PROVE FALSE
    BY <2>1
  <2>2. w * q <= w * (-1)
    BY <2>1
  <2> QED  BY <2>1, <2>2
<1> QED  BY <1>1, <1>2, <1>3, <1>4

(* A position within the universe has a bucket.                            *)
LEMMA BucketExists ==
  ASSUME NEW n \in Nat, NEW w \in Nat \ {0}, NEW pos \in 0 .. n - 1
  PROVE  pos \div w \in 0 .. (n + w - 1) \div w - 1
<1>1. pos \div w \in Nat /\ pos = (pos \div w) * w + (pos % w) /\ pos % w \in 0 .. w - 1
  <2>1. pos \in Nat
    OBVIOUS
  <2> QED  BY <2>1, DivMod
<1>2. /\ (n + w - 1) \div w \in Nat /\ (n + w - 1) % w \in 0 .. w - 1
      /\ n + w - 1 = ((n + w - 1) \div w) * w + ((n + w - 1) % w)
  <2>1. n + w - 1 \in Nat
    OBVIOUS
  <2> QED  BY <2>1, DivMod
<1> DEFINE q == pos \div w
           p == (n + w - 1) \div w
<1>3. q * w <= pos /\ pos < n /\ n <= p * w
  <2> HIDE DEF q, p
  <2> QED  BY <1>1, <1>2 DEF q, p
<1>4. q < p
  <2> HIDE DEF q, p
  <2>1. q \in Nat /\ p \in Nat /\ q * w < p * w
    BY <1>1, <1>2, <1>3 DEF q, p
  <2> QED  BY <2>1
<1> QED  BY <1>1, <1>2, <1>4

(* The buckets agree with the direct lookup for classes and buckets of any *)
(* size: the boot check buckets_match_direct cannot fail.                  *)
LEMMA Buckets == TypeOK => BucketsMatchDirect
<1> SUFFICES ASSUME TypeOK, NEW present \in SUBSET Names, NEW pos \in 0 .. Len(universe) - 1
             PROVE  BucketsHave(BucketizedMasks(present), pos) <=> universe[pos + 1] \in present
  BY DEF BucketsMatchDirect
<1>1. Len(universe) \in Nat /\ BucketWidth \in Nat \ {0}
  BY ViewsAssumption DEF TypeOK
<1>2. pos \div BucketWidth \in 0 .. BucketCount - 1
  BY <1>1, BucketExists DEF BucketCount
<1>3. /\ pos % BucketWidth \in 0 .. BucketWidth - 1
      /\ (pos \div BucketWidth) * BucketWidth + (pos % BucketWidth) = pos
  <2>1. pos \in Nat
    BY <1>1
  <2> QED  BY <1>1, <2>1, DivMod
<1> DEFINE b == pos \div BucketWidth
           k == pos % BucketWidth
<1>4. BucketizedMasks(present)[b] =
        {i \in 0 .. BucketWidth - 1 :
           b * BucketWidth + i < Len(universe) /\ universe[b * BucketWidth + i + 1] \in present}
  BY <1>2 DEF BucketizedMasks
<1>5. k \in BucketizedMasks(present)[b] <=> universe[pos + 1] \in present
  <2>1. b * BucketWidth + k = pos /\ k \in 0 .. BucketWidth - 1 /\ pos < Len(universe)
    BY <1>1, <1>3
  <2> HIDE DEF b, k
  <2> QED  BY <1>4, <2>1
<1>6. DOMAIN BucketizedMasks(present) = 0 .. BucketCount - 1
  BY DEF BucketizedMasks
<1> QED  BY <1>2, <1>5, <1>6 DEF BucketsHave

(* buckets_match_direct holds in every state of every instance.            *)
THEOREM BucketsAgree == Spec => []BucketsMatchDirect
BY TypeCorrect, Buckets, PTL

-----------------------------------------------------------------------------
(***************************************************************************)
(* Services.  A call changes what a contract has just agreed to, so both   *)
(* properties follow from the contracts and a type invariant.              *)
(***************************************************************************)
ServicesTypeOK ==
  /\ users \in [Users -> User]
  /\ projects \in [Projects -> Project]
  /\ packages \in [Packages -> Package]
  /\ context \in [Contexts -> UserContext]
  /\ acting \in Contexts

LEMMA ServicesStart == ServicesInit => ServicesTypeOK
<1> SUFFICES ASSUME ServicesInit PROVE ServicesTypeOK
  OBVIOUS
<1> USE ServicesAssumption DEF Text
<1>1. users \in [Users -> User]
  BY DEF ServicesInit, User, NoUser
<1>2. projects \in [Projects -> Project]
  BY DEF ServicesInit, Project, NoProject
<1>3. packages \in [Packages -> Package]
  BY DEF ServicesInit, Package, NoPackage
<1>4. context \in [Contexts -> UserContext] /\ acting \in Contexts
  BY DEF ServicesInit, UserContext
<1> QED  BY <1>1, <1>2, <1>3, <1>4 DEF ServicesTypeOK

(* Setting the attributes a request gives makes an entity of its type.     *)
LEMMA UserAttributes ==
  ASSUME NEW c, NEW user \in User, NEW p \in UserParams
  PROVE  SetUserAttributes(c, user, p) \in User
BY DEF User, UserParams, SetUserAttributes, Given

LEMMA ProjectAttributes ==
  ASSUME NEW project \in Project, NEW p \in ProjectParams
  PROVE  SetProjectAttributes(project, p) \in Project
BY DEF Project, ProjectParams, SetProjectAttributes, Given

LEMMA PackageAttributes ==
  ASSUME NEW package \in Package, NEW p \in PackageParams
  PROVE  SetPackageAttributes(package, p) \in Package
BY DEF Package, PackageParams, SetPackageAttributes, Given

LEMMA NewEntities ==
  ASSUME ServicesTypeOK
  PROVE  /\ UserEntity \in User /\ NoUser \in User
         /\ ProjectEntity \in Project /\ NoProject \in Project /\ NoPackage \in Package
         /\ \A c \in Contexts, p \in PackageParams :
              WorkPackageEntity(Given(DefaultProject, p.project), context[c].id) \in Package
<1> USE ServicesAssumption DEF Text
<1>1. UserEntity \in User /\ NoUser \in User
  BY DEF User, UserEntity, NoUser
<1>2. ProjectEntity \in Project /\ NoProject \in Project
  BY DEF Project, ProjectEntity, NoProject
<1>3. NoPackage \in Package
  BY DEF Package, NoPackage
<1>4. ASSUME NEW c \in Contexts, NEW p \in PackageParams
      PROVE  WorkPackageEntity(Given(DefaultProject, p.project), context[c].id) \in Package
  <2>1. context[c].id \in Users \cup {Anonymous}
    BY DEF ServicesTypeOK, UserContext
  <2>2. Given(DefaultProject, p.project) \in Projects \cup {0}
    BY DEF Given, PackageParams
  <2> QED  BY <2>1, <2>2 DEF WorkPackageEntity, Package
<1> QED  BY <1>1, <1>2, <1>3, <1>4

(* Calls about users, about projects, and about work packages.             *)
UserStep ==
  \E c \in Contexts :
    \/ \E u \in Users : DeleteUser(c, u) \/ LockUser(c, u)
    \/ \E p \in UserRequests : CreateUser(c, p) \/ \E u \in Users : UpdateUser(c, u, p)

ProjectStep ==
  \E c \in Contexts :
    \/ \E p \in ProjectRequests : CreateProject(c, p) \/ \E j \in Projects : UpdateProject(c, j, p)
    \/ \E j \in Projects : DeleteProject(c, j) \/ ArchiveProject(c, j)

PackageStep ==
  \E c \in Contexts :
    \/ \E p \in PackageRequests : \/ CreateWorkPackage(c, p)
                                \/ \E w \in Packages : UpdateWorkPackage(c, w, p)
    \/ \E w \in Packages : DeleteWorkPackage(c, w)

ContextStep ==
  \E c \in Contexts : OpenAnonymousContext(c) \/ \E u \in Users : OpenContext(c, u)

LEMMA FourKinds == ServicesNext <=> UserStep \/ ProjectStep \/ PackageStep \/ ContextStep
BY Zenon DEF ServicesNext, UserStep, ProjectStep, PackageStep, ContextStep

LEMMA UserStepTyped ==
  ASSUME ServicesTypeOK, UserStep
  PROVE  /\ users' \in [Users -> User]
         /\ acting' \in Contexts /\ UNCHANGED <<projects, packages, context>>
<1> USE ServicesAssumption, NewEntities
<1>1. ASSUME NEW c \in Contexts, NEW u \in Users, DeleteUser(c, u) \/ LockUser(c, u)
      PROVE  /\ users' \in [Users -> User]
             /\ acting' \in Contexts /\ UNCHANGED <<projects, packages, context>>
  BY <1>1 DEF DeleteUser, LockUser, Act, ServicesTypeOK, User, Text
<1>2. ASSUME NEW c \in Contexts, NEW p \in UserRequests, CreateUser(c, p)
      PROVE  /\ users' \in [Users -> User]
             /\ acting' \in Contexts /\ UNCHANGED <<projects, packages, context>>
  <2>1. SetUserAttributes(c, UserEntity, p) \in User
    BY RequestsAssumption, UserAttributes
  <2> QED  BY <1>2, <2>1 DEF CreateUser, Act, ServicesTypeOK
<1>3. ASSUME NEW c \in Contexts, NEW p \in UserRequests, NEW u \in Users, UpdateUser(c, u, p)
      PROVE  /\ users' \in [Users -> User]
             /\ acting' \in Contexts /\ UNCHANGED <<projects, packages, context>>
  <2>1. users[u] \in User
    BY DEF ServicesTypeOK
  <2>2. SetUserAttributes(c, users[u], p) \in User
    BY <2>1, RequestsAssumption, UserAttributes
  <2> QED  BY <1>3, <2>2 DEF UpdateUser, Act, ServicesTypeOK
<1> QED  BY <1>1, <1>2, <1>3 DEF UserStep

LEMMA ProjectStepTyped ==
  ASSUME ServicesTypeOK, ProjectStep
  PROVE  /\ projects' \in [Projects -> Project]
         /\ acting' \in Contexts /\ UNCHANGED <<users, packages, context>>
<1> USE ServicesAssumption, NewEntities
<1>1. ASSUME NEW c \in Contexts, NEW j \in Projects, DeleteProject(c, j) \/ ArchiveProject(c, j)
      PROVE  /\ projects' \in [Projects -> Project]
             /\ acting' \in Contexts /\ UNCHANGED <<users, packages, context>>
  <2>1. [projects[j] EXCEPT !.active = FALSE] \in Project
    BY DEF ServicesTypeOK, Project
  <2> QED  BY <1>1, <2>1 DEF DeleteProject, ArchiveProject, Act, ServicesTypeOK
<1>2. ASSUME NEW c \in Contexts, NEW p \in ProjectRequests, CreateProject(c, p)
      PROVE  /\ projects' \in [Projects -> Project]
             /\ acting' \in Contexts /\ UNCHANGED <<users, packages, context>>
  <2>1. SetProjectAttributes(ProjectEntity, p) \in Project
    BY RequestsAssumption, ProjectAttributes
  <2> QED  BY <1>2, <2>1 DEF CreateProject, Act, ServicesTypeOK
<1>3. ASSUME NEW c \in Contexts, NEW p \in ProjectRequests, NEW j \in Projects,
             UpdateProject(c, j, p)
      PROVE  /\ projects' \in [Projects -> Project]
             /\ acting' \in Contexts /\ UNCHANGED <<users, packages, context>>
  <2>1. projects[j] \in Project
    BY DEF ServicesTypeOK
  <2>2. SetProjectAttributes(projects[j], p) \in Project
    BY <2>1, RequestsAssumption, ProjectAttributes
  <2> QED  BY <1>3, <2>2 DEF UpdateProject, Act, ServicesTypeOK
<1> QED  BY <1>1, <1>2, <1>3 DEF ProjectStep

LEMMA PackageStepTyped ==
  ASSUME ServicesTypeOK, PackageStep
  PROVE  /\ packages' \in [Packages -> Package]
         /\ acting' \in Contexts /\ UNCHANGED <<users, projects, context>>
<1> USE ServicesAssumption, NewEntities
<1>1. ASSUME NEW c \in Contexts, NEW w \in Packages, DeleteWorkPackage(c, w)
      PROVE  /\ packages' \in [Packages -> Package]
             /\ acting' \in Contexts /\ UNCHANGED <<users, projects, context>>
  BY <1>1 DEF DeleteWorkPackage, Act, ServicesTypeOK
<1>2. ASSUME NEW c \in Contexts, NEW p \in PackageRequests, CreateWorkPackage(c, p)
      PROVE  /\ packages' \in [Packages -> Package]
             /\ acting' \in Contexts /\ UNCHANGED <<users, projects, context>>
  <2>1. SetPackageAttributes(WorkPackageEntity(Given(DefaultProject, p.project),
                                               context[c].id), p) \in Package
    BY RequestsAssumption, PackageAttributes
  <2> QED  BY <1>2, <2>1 DEF CreateWorkPackage, Act, ServicesTypeOK
<1>3. ASSUME NEW c \in Contexts, NEW p \in PackageRequests, NEW w \in Packages,
             UpdateWorkPackage(c, w, p)
      PROVE  /\ packages' \in [Packages -> Package]
             /\ acting' \in Contexts /\ UNCHANGED <<users, projects, context>>
  <2>1. packages[w] \in Package
    BY DEF ServicesTypeOK
  <2>2. SetPackageAttributes(packages[w], p) \in Package
    BY <2>1, RequestsAssumption, PackageAttributes
  <2> QED  BY <1>3, <2>2 DEF UpdateWorkPackage, Act, ServicesTypeOK
<1> QED  BY <1>1, <1>2, <1>3 DEF PackageStep

LEMMA ContextStepTyped ==
  ASSUME ServicesTypeOK, ContextStep
  PROVE  /\ context' \in [Contexts -> UserContext]
         /\ UNCHANGED <<users, projects, packages, acting>>
<1>1. ASSUME NEW c \in Contexts, OpenAnonymousContext(c)
      PROVE  /\ context' \in [Contexts -> UserContext]
             /\ UNCHANGED <<users, projects, packages, acting>>
  BY <1>1 DEF OpenAnonymousContext, ServicesTypeOK, UserContext
<1>2. ASSUME NEW c \in Contexts, NEW u \in Users, OpenContext(c, u)
      PROVE  /\ context' \in [Contexts -> UserContext]
             /\ UNCHANGED <<users, projects, packages, acting>>
  BY <1>2 DEF OpenContext, ServicesTypeOK, UserContext, User
<1> QED  BY <1>1, <1>2 DEF ContextStep

LEMMA ServicesStep == ServicesTypeOK /\ [ServicesNext]_svars => ServicesTypeOK'
<1> SUFFICES ASSUME ServicesTypeOK, [ServicesNext]_svars PROVE ServicesTypeOK'
  OBVIOUS
<1>1. CASE UserStep
  BY <1>1, UserStepTyped DEF ServicesTypeOK
<1>2. CASE ProjectStep
  BY <1>2, ProjectStepTyped DEF ServicesTypeOK
<1>3. CASE PackageStep
  BY <1>3, PackageStepTyped DEF ServicesTypeOK
<1>4. CASE ContextStep
  BY <1>4, ContextStepTyped DEF ServicesTypeOK
<1>5. CASE UNCHANGED svars
  BY <1>5 DEF svars, ServicesTypeOK
<1> QED  BY <1>1, <1>2, <1>3, <1>4, <1>5, FourKinds

(* What callers have stored, and the contexts of their calls, stay well    *)
(* typed: no attribute a request leaves out becomes None.                  *)
THEOREM ServicesTypeCorrect == ServicesSpec => []ServicesTypeOK
BY ServicesStart, ServicesStep, PTL DEF ServicesSpec

LEMMA PackagesEnter ==
  ASSUME ServicesTypeOK, [ServicesNext]_svars, NEW w \in Packages, packages'[w] # packages[w]
  PROVE  IF packages'[w] = NoPackage THEN May("delete_work_packages", packages[w].project)
         ELSE May("add_work_packages", packages'[w].project)
<1> DEFINE Goal == IF packages'[w] = NoPackage
                   THEN May("delete_work_packages", packages[w].project)
                   ELSE May("add_work_packages", packages'[w].project)
<1>1. PackageStep
  <2>1. packages' # packages
    OBVIOUS
  <2> QED  BY <2>1, FourKinds, UserStepTyped, ProjectStepTyped, ContextStepTyped DEF svars
<1>2. packages \in [Packages -> Package] /\ NewPackage \in Packages
  BY ServicesAssumption DEF ServicesTypeOK
<1>3. ASSUME NEW c \in Contexts, NEW v \in Packages, DeleteWorkPackage(c, v) PROVE Goal
  <2>1. w = v /\ packages'[w] = NoPackage /\ acting' = c
    BY <1>2, <1>3 DEF DeleteWorkPackage, Act
  <2> QED  BY <1>3, <2>1 DEF DeleteWorkPackage, DeleteWorkPackageContract, Allowed, May
<1>4. ASSUME NEW c \in Contexts, NEW v \in Packages, acting' = c,
             CreateWorkPackageContract(c, packages'[v]), \A x \in Packages \ {v} : packages'[x] = packages[x]
      PROVE  Goal
  <2>1. w = v
    BY <1>4
  <2>2. packages'[w] # NoPackage
    BY <1>4, <2>1 DEF CreateWorkPackageContract, WorkPackageBaseContract, NoPackage
  <2> QED  BY <1>4, <2>1, <2>2 DEF CreateWorkPackageContract, Allowed, May
<1>5. ASSUME NEW c \in Contexts, NEW p \in PackageRequests, CreateWorkPackage(c, p) PROVE Goal
  BY <1>2, <1>4, <1>5 DEF CreateWorkPackage, Act
<1>6. ASSUME NEW c \in Contexts, NEW p \in PackageRequests, NEW v \in Packages,
             UpdateWorkPackage(c, v, p)
      PROVE  Goal
  BY <1>2, <1>4, <1>6 DEF UpdateWorkPackage, Act
<1> QED  BY <1>1, <1>3, <1>5, <1>6 DEF PackageStep

(* Whoever puts a work package into a project may add some there, whoever  *)
(* takes one out of the store may delete it: for any grants and requests.  *)
THEOREM PackagesEnterWhereAllowed == ServicesSpec => EntersWhereAllowed
<1>1. ServicesTypeOK /\ [ServicesNext]_svars
        => \A w \in Packages :
             packages'[w] # packages[w]
               => IF packages'[w] = NoPackage THEN May("delete_work_packages", packages[w].project)
                  ELSE May("add_work_packages", packages'[w].project)
  BY PackagesEnter
<1> QED  BY <1>1, ServicesTypeCorrect, PTL DEF ServicesSpec, EntersWhereAllowed

LEMMA AccountsRaised ==
  ASSUME ServicesTypeOK, [ServicesNext]_svars, NEW u \in Users, Raised(u)
  PROVE  context[acting'].admin
<1>1. UserStep
  <2>1. users' # users
    BY DEF Raised
  <2> QED  BY <2>1, FourKinds, PackageStepTyped, ProjectStepTyped, ContextStepTyped DEF svars
<1> QED
  BY <1>1 DEF Raised, UserStep, DeleteUser, LockUser, CreateUser, UpdateUser, Act, DeleteUserContract,
              CreateUserContract

(* Nobody becomes an administrator, and no locked account active again,    *)
(* but by a call for an administrator.                                     *)
THEOREM OnlyAdminsRaise == ServicesSpec => RaisedByAdmins
<1>1. ServicesTypeOK /\ [ServicesNext]_svars
        => \A u \in Users : Raised(u) => context[acting'].admin
  BY AccountsRaised
<1> QED  BY <1>1, ServicesTypeCorrect, PTL DEF ServicesSpec, RaisedByAdmins

-----------------------------------------------------------------------------
(***************************************************************************)
(* Health.  A report given out is fresh, and what is in the cache was      *)
(* found at most the lock's wait before it was stored.                     *)
(***************************************************************************)
HealthTypeOK ==
  /\ database \in {"up", "down"}
  /\ cache \in [status : Statuses \cup {NoStatus}, stored : 0 .. CacheDuration,
                found : 0 .. MaxFound]
  /\ stage \in [Probes -> {"idle", "checking", "storing"}]
  /\ report \in [Probes -> Statuses \cup {NoStatus}]
  /\ age \in [Probes -> 0 .. MaxAge]
  /\ answer \in [Probes -> [status : Statuses \cup {NoStatus}, found : 0 .. MaxFound]]

(* What is in the cache was found at most the lock's wait before it was    *)
(* stored, and so was what a probe is about to store.                      *)
EntryAge == cache.found <= cache.stored + MaxDelay
WaitBounded == \A p \in Probes : stage[p] = "storing" => age[p] <= MaxDelay

HealthInv == HealthTypeOK /\ EntryAge /\ WaitBounded /\ FoundLately

LEMMA HealthStart == HealthInit => HealthInv
<1> SUFFICES ASSUME HealthInit PROVE HealthInv
  OBVIOUS
<1> USE HealthAssumption DEF HealthInit, NoReport, NoAnswer
<1>1. HealthTypeOK
  BY DEF HealthTypeOK, Statuses, MaxFound, MaxAge
<1>2. EntryAge /\ WaitBounded
  BY DEF EntryAge, WaitBounded
<1>3. FoundLately
  BY DEF FoundLately
<1> QED  BY <1>1, <1>2, <1>3 DEF HealthInv

LEMMA ChecksReport == PerformChecks \in Statuses
BY DEF PerformChecks, AfterDatabase, CheckDatabase, CheckMemory, CheckDisk, Lowered, Statuses

LEMMA AskKeeps ==
  ASSUME HealthInv, NEW p \in Probes, Ask(p)
  PROVE  HealthInv'
<1> USE HealthAssumption
<1>0. UNCHANGED <<database, cache, report>>
  BY DEF Ask
<1>1. CASE Fresh
  <2>1. /\ answer' = [answer EXCEPT ![p] = [status |-> cache.status, found |-> cache.found]]
        /\ UNCHANGED <<stage, age>>
    BY <1>1 DEF Ask
  <2>2. HealthTypeOK'
    BY <1>0, <2>1 DEF HealthInv, HealthTypeOK
  <2>3. cache.found < CacheDuration + MaxDelay
    BY <1>1 DEF Fresh, HealthInv, HealthTypeOK, EntryAge
  <2>4. FoundLately'
    BY <2>1, <2>3 DEF HealthInv, HealthTypeOK, FoundLately
  <2> QED  BY <1>0, <2>1, <2>2, <2>4 DEF HealthInv, EntryAge, WaitBounded
<1>2. CASE ~Fresh
  <2>1. /\ answer' = [answer EXCEPT ![p] = NoAnswer]
        /\ stage' = [stage EXCEPT ![p] = "checking"]
        /\ age' = [age EXCEPT ![p] = 0]
    BY <1>2 DEF Ask, Goto
  <2>2. HealthTypeOK'
    BY <1>0, <2>1 DEF HealthInv, HealthTypeOK, NoAnswer, MaxFound, MaxAge
  <2>3. FoundLately'
    BY <2>1 DEF HealthInv, HealthTypeOK, FoundLately, NoAnswer
  <2> QED  BY <1>0, <2>1, <2>2, <2>3 DEF HealthInv, HealthTypeOK, EntryAge, WaitBounded
<1> QED  BY <1>1, <1>2

LEMMA CheckKeeps ==
  ASSUME HealthInv, NEW p \in Probes, Check(p)
  PROVE  HealthInv'
<1> USE HealthAssumption
<1>1. HealthTypeOK'
  BY ChecksReport DEF Check, Goto, HealthInv, HealthTypeOK, MaxAge
<1> QED  BY <1>1 DEF Check, Goto, HealthInv, HealthTypeOK, EntryAge, WaitBounded, FoundLately

(* The entry is new and its findings are as old as the wait.               *)
LEMMA StoreKeeps ==
  ASSUME HealthInv, NEW p \in Probes, Store(p)
  PROVE  HealthInv'
<1> USE HealthAssumption
<1>1. age[p] \in 0 .. MaxDelay
  BY DEF Store, HealthInv, HealthTypeOK, WaitBounded
<1>2. /\ cache' = [status |-> report[p], stored |-> 0, found |-> age[p]]
      /\ answer' = [answer EXCEPT ![p] = [status |-> report[p], found |-> age[p]]]
      /\ report' = [report EXCEPT ![p] = NoStatus]
      /\ stage' = [stage EXCEPT ![p] = "idle"]
      /\ age' = [age EXCEPT ![p] = 0]
      /\ UNCHANGED database
  BY DEF Store, Goto
<1>3. age[p] \in 0 .. MaxFound
  BY <1>1 DEF MaxFound
<1>4. HealthTypeOK'
  BY <1>2, <1>3 DEF HealthInv, HealthTypeOK, MaxAge
<1>5. EntryAge'
  BY <1>1, <1>2 DEF EntryAge
<1>6. WaitBounded'
  BY <1>2 DEF HealthInv, HealthTypeOK, WaitBounded
<1>7. FoundLately'
  BY <1>1, <1>2 DEF HealthInv, HealthTypeOK, FoundLately
<1> QED  BY <1>4, <1>5, <1>6, <1>7 DEF HealthInv

LEMMA DropKeeps ==
  ASSUME HealthInv, NEW p \in Probes, Drop(p)
  PROVE  HealthInv'
<1> USE HealthAssumption
<1>1. HealthTypeOK'
  BY DEF Drop, Goto, HealthInv, HealthTypeOK, MaxAge
<1> QED  BY <1>1 DEF Drop, Goto, HealthInv, HealthTypeOK, EntryAge, WaitBounded, FoundLately

(* Time passes for the entry and for its findings alike.                   *)
LEMMA TickKeeps ==
  ASSUME HealthInv, Tick
  PROVE  HealthInv'
<1> USE HealthAssumption
<1>1. CacheDuration \in Nat /\ MaxFound \in Nat /\ MaxAge \in Nat
  BY DEF MaxFound, MaxAge
<1>2. /\ cache'.status = cache.status
      /\ cache'.stored \in 0 .. CacheDuration /\ cache'.found \in 0 .. MaxFound
      /\ cache'.found <= cache'.stored + MaxDelay
      /\ cache' \in [status : Statuses \cup {NoStatus}, stored : 0 .. CacheDuration,
                     found : 0 .. MaxFound]
  <2>1. CASE cache = NoReport
    BY <2>1 DEF Tick, HealthInv, HealthTypeOK, EntryAge
  <2>2. CASE cache # NoReport
    <3>1. cache' = [cache EXCEPT !.stored = Older(cache.stored, CacheDuration),
                                 !.found = Older(cache.found, MaxFound)]
      BY <2>2 DEF Tick
    <3>2. /\ cache.stored \in 0 .. CacheDuration /\ cache.found \in 0 .. MaxFound
          /\ cache.found <= cache.stored + MaxDelay
      BY DEF HealthInv, HealthTypeOK, EntryAge
    <3>3. /\ Older(cache.stored, CacheDuration) \in 0 .. CacheDuration
          /\ Older(cache.found, MaxFound) \in 0 .. MaxFound
          /\ Older(cache.found, MaxFound) <= Older(cache.stored, CacheDuration) + MaxDelay
      BY <3>2 DEF Older, MaxFound
    <3> QED  BY <3>1, <3>3 DEF HealthInv, HealthTypeOK
  <2> QED  BY <2>1, <2>2
<1>3. /\ age' \in [Probes -> 0 .. MaxAge]
      /\ \A p \in Probes : stage[p] = "storing" => age'[p] <= MaxDelay
  <2>1. age' = [p \in Probes |-> IF stage[p] = "idle" THEN 0 ELSE Older(age[p], MaxAge)]
    BY DEF Tick
  <2>2. \A p \in Probes : age[p] \in 0 .. MaxAge
    BY DEF HealthInv, HealthTypeOK
  <2>3. \A p \in Probes : Older(age[p], MaxAge) \in 0 .. MaxAge
    BY <1>1, <2>2 DEF Older
  <2>4. \A p \in Probes : stage[p] = "storing" => Older(age[p], MaxAge) <= MaxDelay
    BY <2>2 DEF Older, Tick
  <2> QED  BY <2>1, <2>3, <2>4, <1>1
<1>4. UNCHANGED <<database, stage, report, answer>>
  BY DEF Tick
<1> QED
  BY <1>2, <1>3, <1>4 DEF HealthInv, HealthTypeOK, EntryAge, WaitBounded, FoundLately

LEMMA HealthStep == HealthInv /\ [HealthNext]_hvars => HealthInv'
<1> SUFFICES ASSUME HealthInv, [HealthNext]_hvars PROVE HealthInv'
  OBVIOUS
<1>1. CASE Turn \/ UNCHANGED hvars
  BY <1>1 DEF Turn, hvars, HealthInv, HealthTypeOK, EntryAge, WaitBounded, FoundLately
<1> QED
  BY <1>1, AskKeeps, CheckKeeps, StoreKeeps, DropKeeps, TickKeeps DEF HealthNext

(* No probe is told findings older than the cache's duration and the wait  *)
(* for its lock, for any number of probes and any durations.               *)
THEOREM ReportsAreRecent == HealthSpec => []FoundLately
<1>1. HealthInv => FoundLately
  BY DEF HealthInv
<1> QED  BY <1>1, HealthStart, HealthStep, PTL DEF HealthSpec

-----------------------------------------------------------------------------
(***************************************************************************)
(* Metrics.  The counters with what requests have still to count are in    *)
(* balance; the requests are finitely many, so what is owed is a number.   *)
(***************************************************************************)
Stages == {"idle", "serving", "scraping", "leaving"}

MetricsTypeOK ==
  /\ counters \in [Counters -> Int]
  /\ doing \in [Clients -> Stages]
  /\ due \in [Clients -> SUBSET Counters]
  /\ shown \in [Clients -> [Counters -> Int \cup {Unread}]]
  /\ arrived \in Nat /\ redirects \in Int

\* The requests that have still to change a counter on their way out, and
\* those that will, or may be dropped before they do.
Owing(c) == {r \in Clients : c \in due[r]}
Serving(r) == doing[r] \in {"serving", "scraping"}
OpenRequests(c) == {r \in Clients : Serving(r) \/ c \in due[r]}

OnlyLeaversOwe == \A r \in Clients : doing[r] # "leaving" => due[r] = {}
OnlyScrapersShow == \A r \in Clients : doing[r] # "scraping" => shown[r] = NotRead

(* With what is owed, the classes and the redirects make up the total.     *)
Balanced ==
  counters["http_requests_total"] + Cardinality(Owing("http_requests_total"))
    = redirects
      + (counters["http_requests_2xx"] + Cardinality(Owing("http_requests_2xx")))
      + (counters["http_requests_4xx"] + Cardinality(Owing("http_requests_4xx")))
      + (counters["http_requests_5xx"] + Cardinality(Owing("http_requests_5xx")))

(* Every open request counts as active, and has not been served.           *)
OpenCounted ==
  /\ Cardinality(OpenRequests("active_connections")) <= counters["active_connections"]
  /\ counters["http_requests_total"] + Cardinality(OpenRequests("http_requests_total")) <= arrived

ShownInTime ==
  \A r \in Clients :
    doing[r] = "scraping"
      => /\ shown[r]["active_connections"] # Unread => shown[r]["active_connections"] >= 1
         /\ shown[r]["http_requests_total"] # Unread => shown[r]["http_requests_total"] < arrived

MetricsInv ==
  /\ MetricsTypeOK /\ OnlyLeaversOwe /\ OnlyScrapersShow
  /\ Balanced /\ OpenCounted /\ ShownInTime

USE DEF Counters, Counts, Classes

LEMMA OwingFinite ==
  ASSUME NEW c
  PROVE  /\ IsFiniteSet(Owing(c)) /\ Cardinality(Owing(c)) \in Nat
         /\ IsFiniteSet(OpenRequests(c)) /\ Cardinality(OpenRequests(c)) \in Nat
<1>1. Owing(c) \in SUBSET Clients /\ OpenRequests(c) \in SUBSET Clients
  BY DEF Owing, OpenRequests
<1> QED  BY <1>1, MetricsAssumption, FS_Subset, FS_CardinalityType

(* What a step does to the size of a set it changes by one request.        *)
LEMMA Grows ==
  ASSUME NEW S, NEW T, IsFiniteSet(S), NEW x, x \notin S, T = S \cup {x}
  PROVE  Cardinality(T) = Cardinality(S) + 1
BY FS_AddElement

LEMMA Shrinks ==
  ASSUME NEW S, NEW T, IsFiniteSet(S), NEW x, x \in S, T = S \ {x}
  PROVE  Cardinality(T) = Cardinality(S) - 1
BY FS_RemoveElement

LEMMA MetricsStart == MetricsInit => MetricsInv
<1> SUFFICES ASSUME MetricsInit PROVE MetricsInv
  OBVIOUS
<1>1. MetricsTypeOK /\ OnlyLeaversOwe /\ OnlyScrapersShow
  BY DEF MetricsInit, MetricsTypeOK, OnlyLeaversOwe, OnlyScrapersShow, Stages, NotRead
<1>2. \A c \in Counters : Owing(c) = {} /\ OpenRequests(c) = {}
  BY DEF MetricsInit, Owing, OpenRequests, Serving
<1>3. \A c \in Counters : Cardinality(Owing(c)) = 0 /\ Cardinality(OpenRequests(c)) = 0
  BY <1>2, FS_EmptySet
<1>4. Balanced /\ OpenCounted
  BY <1>3 DEF MetricsInit, Balanced, OpenCounted
<1>5. ShownInTime
  BY DEF MetricsInit, ShownInTime
<1> QED  BY <1>1, <1>4, <1>5 DEF MetricsInv

LEMMA ConnectionOpenedKeeps ==
  ASSUME MetricsInv, NEW r \in Clients, NEW what \in {"serving", "scraping"},
         ConnectionOpened(r, what)
  PROVE  MetricsInv'
<1>1. /\ doing' = [doing EXCEPT ![r] = what] /\ doing[r] = "idle"
      /\ counters' = [counters EXCEPT !["active_connections"] = counters["active_connections"] + 1]
      /\ arrived' = arrived + 1
      /\ UNCHANGED <<due, shown, redirects>>
  BY DEF ConnectionOpened
<1>2. due[r] = {} /\ shown[r] = NotRead
  BY <1>1 DEF MetricsInv, OnlyLeaversOwe, OnlyScrapersShow
<1>3. MetricsTypeOK' /\ OnlyLeaversOwe' /\ OnlyScrapersShow'
  BY <1>1, <1>2 DEF MetricsInv, MetricsTypeOK, OnlyLeaversOwe, OnlyScrapersShow, Stages, NotRead
<1>4. /\ counters'["active_connections"] = counters["active_connections"] + 1
      /\ \A c \in Counts : counters'[c] = counters[c]
  BY <1>1 DEF MetricsInv, MetricsTypeOK
<1>5. \A c \in Counters : Owing(c)' = Owing(c)
  BY <1>1 DEF Owing
<1>6. Balanced'
  BY <1>1, <1>4, <1>5 DEF MetricsInv, Balanced
<1>7. \A c \in Counters : Cardinality(OpenRequests(c))' = Cardinality(OpenRequests(c)) + 1
  <2> TAKE c \in Counters
  <2>1. r \notin OpenRequests(c) /\ OpenRequests(c)' = OpenRequests(c) \cup {r}
    BY <1>1, <1>2 DEF OpenRequests, Serving, MetricsInv, MetricsTypeOK
  <2> QED  BY <2>1, OwingFinite, Grows
<1>8. OpenCounted'
  BY <1>1, <1>4, <1>7, OwingFinite DEF MetricsInv, MetricsTypeOK, OpenCounted
<1>9. ShownInTime'
  BY <1>1, <1>2 DEF MetricsInv, MetricsTypeOK, ShownInTime, NotRead
<1> QED  BY <1>3, <1>6, <1>8, <1>9 DEF MetricsInv

(* A scrape is one of the open requests it counts.                         *)
LEMMA LoadKeeps ==
  ASSUME MetricsInv, NEW r \in Clients, NEW c \in Counters, Load(r, c)
  PROVE  MetricsInv'
<1>1. /\ doing[r] = "scraping"
      /\ shown' = [shown EXCEPT ![r][c] = counters[c]]
      /\ UNCHANGED <<counters, doing, due, arrived, redirects>>
  BY DEF Load
<1>2. MetricsTypeOK' /\ OnlyLeaversOwe' /\ OnlyScrapersShow'
  BY <1>1 DEF MetricsInv, MetricsTypeOK, OnlyLeaversOwe, OnlyScrapersShow
<1>3. \A d \in Counters : Owing(d)' = Owing(d) /\ OpenRequests(d)' = OpenRequests(d)
  BY <1>1 DEF Owing, OpenRequests, Serving
<1>4. Balanced' /\ OpenCounted'
  BY <1>1, <1>3 DEF MetricsInv, Balanced, OpenCounted
<1>5. \A d \in Counters : Cardinality(OpenRequests(d)) >= 1
  <2> TAKE d \in Counters
  <2>1. r \in OpenRequests(d)
    BY <1>1 DEF OpenRequests, Serving
  <2> QED  BY <2>1, OwingFinite, FS_EmptySet
<1>6. counters["active_connections"] >= 1 /\ counters["http_requests_total"] < arrived
  BY <1>5, OwingFinite DEF MetricsInv, MetricsTypeOK, OpenCounted
<1>7. ShownInTime'
  BY <1>1, <1>6 DEF MetricsInv, MetricsTypeOK, ShownInTime
<1> QED  BY <1>2, <1>4, <1>7 DEF MetricsInv

(* An answer puts a request down for the total and for one class, or for   *)
(* the redirects.                                                          *)
LEMMA RespondKeeps ==
  ASSUME MetricsInv, NEW r \in Clients, NEW status \in {"2xx", "3xx", "4xx", "5xx"},
         Respond(r, status)
  PROVE  MetricsInv'
<1> DEFINE D == {"http_requests_total", "active_connections"} \cup Class(status)
<1>1. /\ Serving(r)
      /\ doing' = [doing EXCEPT ![r] = "leaving"]
      /\ due' = [due EXCEPT ![r] = D]
      /\ shown' = [shown EXCEPT ![r] = NotRead]
      /\ redirects' = IF status = "3xx" THEN redirects + 1 ELSE redirects
      /\ UNCHANGED <<counters, arrived>>
  BY DEF Respond, Serving
<1>2. D \in SUBSET Counters /\ due[r] = {}
  BY <1>1 DEF Class, MetricsInv, OnlyLeaversOwe, Serving
<1>3. MetricsTypeOK' /\ OnlyLeaversOwe' /\ OnlyScrapersShow'
  <2> HIDE DEF D
  <2> QED
    BY <1>1, <1>2 DEF MetricsInv, MetricsTypeOK, OnlyLeaversOwe, OnlyScrapersShow, Stages, NotRead
<1>4. \A c \in Counters :
        Cardinality(Owing(c))' = Cardinality(Owing(c)) + IF c \in D THEN 1 ELSE 0
  <2> HIDE DEF D
  <2> TAKE c \in Counters
  <2>1. CASE c \in D
    <3>1. r \notin Owing(c) /\ Owing(c)' = Owing(c) \cup {r}
      BY <1>1, <1>2, <2>1 DEF Owing, MetricsInv, MetricsTypeOK
    <3> QED  BY <2>1, <3>1, OwingFinite, Grows
  <2>2. CASE c \notin D
    <3>1. Owing(c)' = Owing(c)
      BY <1>1, <1>2, <2>2 DEF Owing, MetricsInv, MetricsTypeOK
    <3> QED  BY <2>2, <3>1, OwingFinite
  <2> QED  BY <2>1, <2>2
<1>5. Balanced'
  <2> DEFINE more(c) == IF c \in D THEN 1 ELSE 0
  <2>1. more("http_requests_total")
          = (redirects' - redirects) + more("http_requests_2xx") + more("http_requests_4xx")
              + more("http_requests_5xx")
    <3>1. redirects \in Int
      BY DEF MetricsInv, MetricsTypeOK
    <3>2. /\ status = "2xx" => Class(status) = {"http_requests_2xx"}
          /\ status = "3xx" => Class(status) = {}
          /\ status = "4xx" => Class(status) = {"http_requests_4xx"}
          /\ status = "5xx" => Class(status) = {"http_requests_5xx"}
      BY DEF Class
    <3> QED  BY <1>1, <3>1, <3>2
  <2>2. \A c \in Counters : more(c) \in Int
    OBVIOUS
  <2>3. \A c \in Counters : Cardinality(Owing(c))' = Cardinality(Owing(c)) + more(c)
    BY <1>4
  <2>4. redirects' \in Int /\ counters' = counters
    BY <1>1, <1>3 DEF MetricsTypeOK
  <2> HIDE DEF more, D
  <2> QED
    BY <2>1, <2>2, <2>3, <2>4, OwingFinite DEF MetricsInv, MetricsTypeOK, Balanced
<1>6. \A c \in {"http_requests_total", "active_connections"} : OpenRequests(c)' = OpenRequests(c)
  <2>1. \A c \in {"http_requests_total", "active_connections"} : c \in D
    OBVIOUS
  <2> HIDE DEF D
  <2> QED  BY <1>1, <2>1 DEF OpenRequests, Serving, MetricsInv, MetricsTypeOK
<1>7. OpenCounted'
  BY <1>1, <1>6 DEF MetricsInv, OpenCounted
<1>8. ShownInTime'
  BY <1>1 DEF MetricsInv, MetricsTypeOK, ShownInTime
<1> QED  BY <1>3, <1>5, <1>7, <1>8 DEF MetricsInv

(* What is counted is owed no longer.                                      *)
LEMMA FetchAddKeeps ==
  ASSUME MetricsInv, NEW r \in Clients, NEW c \in Counters, FetchAdd(r, c)
  PROVE  MetricsInv'
<1> DEFINE delta == IF c = "active_connections" THEN -1 ELSE 1
<1>1. /\ c \in due[r]
      /\ counters' = [counters EXCEPT ![c] = counters[c] + delta]
      /\ due' = [due EXCEPT ![r] = due[r] \ {c}]
      /\ doing' = [doing EXCEPT ![r] = IF due[r] = {c} THEN "idle" ELSE doing[r]]
      /\ UNCHANGED <<shown, arrived, redirects>>
  <2>1. counters \in [Counters -> Int]
    BY DEF MetricsInv, MetricsTypeOK
  <2> QED  BY <2>1 DEF FetchAdd
<1>2. doing[r] = "leaving" /\ shown[r] = NotRead
  BY <1>1 DEF MetricsInv, OnlyLeaversOwe, OnlyScrapersShow
<1>3. MetricsTypeOK' /\ OnlyLeaversOwe' /\ OnlyScrapersShow'
  BY <1>1, <1>2 DEF MetricsInv, MetricsTypeOK, OnlyLeaversOwe, OnlyScrapersShow, Stages
<1>4. /\ Cardinality(Owing(c))' = Cardinality(Owing(c)) - 1
      /\ Cardinality(OpenRequests(c))' = Cardinality(OpenRequests(c)) - 1
  <2>1. r \in Owing(c) /\ Owing(c)' = Owing(c) \ {r}
    BY <1>1 DEF Owing, MetricsInv, MetricsTypeOK
  <2>2. r \in OpenRequests(c) /\ OpenRequests(c)' = OpenRequests(c) \ {r}
    BY <1>1, <1>2 DEF OpenRequests, Serving, MetricsInv, MetricsTypeOK
  <2> QED  BY <2>1, <2>2, OwingFinite, Shrinks
<1>5. \A d \in Counters \ {c} :
        /\ Owing(d)' = Owing(d) /\ OpenRequests(d)' = OpenRequests(d)
        /\ counters'[d] = counters[d]
  BY <1>1, <1>2 DEF Owing, OpenRequests, Serving, MetricsInv, MetricsTypeOK
<1>6. counters'[c] = counters[c] + delta
  BY <1>1 DEF MetricsInv, MetricsTypeOK
<1>7. Balanced'
  <2>1. CASE c = "active_connections"
    BY <1>1, <1>5, <2>1 DEF MetricsInv, Balanced
  <2>2. CASE c # "active_connections"
    BY <1>1, <1>4, <1>5, <1>6, <2>2, OwingFinite DEF MetricsInv, MetricsTypeOK, Balanced
  <2> QED  BY <2>1, <2>2
<1>8. OpenCounted'
  BY <1>1, <1>4, <1>5, <1>6, OwingFinite DEF MetricsInv, MetricsTypeOK, OpenCounted
<1>9. ShownInTime'
  BY <1>1, <1>2 DEF MetricsInv, MetricsTypeOK, ShownInTime, NotRead
<1> QED  BY <1>3, <1>7, <1>8, <1>9 DEF MetricsInv

(* A dropped request is open no longer; what it counted remains.           *)
LEMMA HangUpKeeps ==
  ASSUME MetricsInv, NEW r \in Clients, HangUp(r)
  PROVE  MetricsInv'
<1>1. /\ Serving(r)
      /\ doing' = [doing EXCEPT ![r] = "idle"]
      /\ shown' = [shown EXCEPT ![r] = NotRead]
      /\ UNCHANGED <<counters, due, arrived, redirects>>
  BY DEF HangUp, Serving
<1>2. due[r] = {}
  BY <1>1 DEF MetricsInv, OnlyLeaversOwe, Serving
<1>3. MetricsTypeOK' /\ OnlyLeaversOwe' /\ OnlyScrapersShow'
  BY <1>1, <1>2 DEF MetricsInv, MetricsTypeOK, OnlyLeaversOwe, OnlyScrapersShow, Stages, NotRead
<1>4. \A c \in Counters : Owing(c)' = Owing(c)
  BY <1>1 DEF Owing
<1>5. Balanced'
  BY <1>1, <1>4 DEF MetricsInv, Balanced
<1>6. \A c \in Counters : Cardinality(OpenRequests(c))' = Cardinality(OpenRequests(c)) - 1
  <2> TAKE c \in Counters
  <2>1. r \in OpenRequests(c) /\ OpenRequests(c)' = OpenRequests(c) \ {r}
    BY <1>1, <1>2 DEF OpenRequests, Serving, MetricsInv, MetricsTypeOK
  <2> QED  BY <2>1, OwingFinite, Shrinks
<1>7. OpenCounted'
  BY <1>1, <1>6, OwingFinite DEF MetricsInv, MetricsTypeOK, OpenCounted
<1>8. ShownInTime'
  BY <1>1 DEF MetricsInv, MetricsTypeOK, ShownInTime, NotRead
<1> QED  BY <1>3, <1>5, <1>7, <1>8 DEF MetricsInv

LEMMA MetricsStep == MetricsInv /\ [MetricsNext]_mvars => MetricsInv'
<1> SUFFICES ASSUME MetricsInv, [MetricsNext]_mvars PROVE MetricsInv'
  OBVIOUS
<1>1. CASE UNCHANGED mvars
  BY <1>1 DEF mvars, MetricsInv, MetricsTypeOK, OnlyLeaversOwe, OnlyScrapersShow, Balanced,
              OpenCounted, ShownInTime, Owing, OpenRequests, Serving
<1> QED
  BY <1>1, ConnectionOpenedKeeps, LoadKeeps, RespondKeeps, FetchAddKeeps, HangUpKeeps
  DEF MetricsNext

(* Between requests the classes and the redirects make up the total, and a *)
(* scrape counts itself, for any number of clients.                        *)
THEOREM CountersAddUp == MetricsSpec => []AddUp
<1>1. ASSUME MetricsInv PROVE AddUp
  <2>1. ASSUME \A r \in Clients : due[r] = {}
        PROVE  counters["http_requests_total"] = redirects + counters["http_requests_2xx"]
                 + counters["http_requests_4xx"] + counters["http_requests_5xx"]
    <3>1. \A c \in Counters : Cardinality(Owing(c)) = 0
      BY <2>1, FS_EmptySet DEF Owing
    <3> QED  BY <1>1, <3>1 DEF MetricsInv, MetricsTypeOK, Balanced
  <2> QED  BY <1>1, <2>1 DEF AddUp, MetricsInv, ShownInTime
<1> QED  BY <1>1, MetricsStart, MetricsStep, PTL DEF MetricsSpec

(***************************************************************************)
(* Schema.  While the stream is read, the associations met so far have     *)
(* their links, and a link or an index comes from one that was met; what   *)
(* was validated is put off.  When the pass has ended, all were met.       *)
(***************************************************************************)
Bases == {"any", "record", "int", "decimal", "string", "datetime", "bool", "bytes", "float", "uuid"}
Clauses == {"type::is_number($value)", "$value == true", "$value == NONE", NotNone,
            "maximum", "minimum", "is", "greater_than", "less_than",
            "greater_than_or_equal_to", "less_than_or_equal_to", "equal_to"}

KindSet == [base : Bases, target : Identifiers \cup {Nil}, option : BOOLEAN]
FieldSet == [kind : KindSet, assert : SUBSET Clauses]
IndexSet == [columns : Seq(Identifiers), unique : BOOLEAN]
PutOff == [table : Declared, field : Identifiers, expr : SUBSET Clauses]

IsBuilder(b) ==
  /\ b = [fields |-> b.fields, indices |-> b.indices, notes |-> b.notes]
  /\ DOMAIN b.fields \subseteq Identifiers /\ b.fields \in [DOMAIN b.fields -> FieldSet]
  /\ b.indices \in Seq(IndexSet)

SchemaTypeOK ==
  /\ facts \in Streams /\ left \subseteq facts
  /\ tables = [table \in Declared |-> tables[table]]
  /\ \A table \in Declared : IsBuilder(tables[table])
  /\ stubs \subseteq Identifiers
  /\ pending \in Seq(PutOff)
  /\ ended \in BOOLEAN /\ (ended => left = {})

(* The associations the second pass has met, and the link that each of     *)
(* them has made of its column.                                            *)
Met == {t \in facts \ left : /\ t.p = "declares_association" /\ t.table \in Declared
                             /\ AssociationKind(t) = "belongs_to"}
Column(t) == ForeignKey[t.member]

LinksMade ==
  \A t \in Met :
    LET b == tables[t.table] IN
    /\ HasField(b, Column(t)) /\ b.fields[Column(t)].kind = ForeignKeyKind(t)
    /\ ForeignKeyKind(t).base = "record" =>
         \E k \in DOMAIN b.indices : b.indices[k] = Index(<<Column(t)>>, FALSE)
    /\ StubTargets(t) \subseteq stubs

(* Links and their indexes are made by associations only.                  *)
MadeByAssociations ==
  /\ \A table \in Declared : \A f \in DOMAIN tables[table].fields :
       tables[table].fields[f].kind.base = "record" =>
         \E t \in Met : t.table = table /\ Column(t) = f
  /\ \A table \in Declared : \A k \in DOMAIN tables[table].indices :
       ~tables[table].indices[k].unique =>
         \E t \in Met : t.table = table /\ tables[table].indices[k].columns = <<Column(t)>>
  /\ \A stub \in stubs : stub \in KnownTargets \ Declared /\ \E t \in Met : Target(t) = stub

(* An index is on its columns, and made for one link only.                 *)
IndexesStand ==
  \A table \in Declared : \A j, k \in DOMAIN tables[table].indices :
    LET i == tables[table].indices IN
    /\ HasField(tables[table], i[k].columns[1])
    /\ \A f : f = i[k].columns[1] =>
         i[k].columns = IF i[k].unique THEN IndexColumns(table, f) ELSE <<f>>
    /\ i[j] = i[k] /\ ~i[k].unique => j = k

(* The last assert put off for a field is the one to stay, and when none is*)
(* left the field has it, if it is there.                                  *)
For(a, table, field) == a.table = table /\ a.field = field
PutOffLast(table, field) ==
  \E k \in DOMAIN pending :
    /\ For(pending[k], table, field) /\ pending[k].expr = LastWritten(table, field)
    /\ \A l \in DOMAIN pending : l > k => ~For(pending[l], table, field)
Asserted(table, field) ==
  /\ ended /\ \A k \in DOMAIN pending : ~For(pending[k], table, field)
  /\ HasField(tables[table], field) => tables[table].fields[field].assert = LastWritten(table, field)
ValidationsKept ==
  \A t \in facts \ left :
    t.p = "validates_constraint" /\ t.table \in Declared =>
      PutOffLast(t.table, t.member) \/ Asserted(t.table, t.member)

(* What came out is the tables as they are, and the stubs.                 *)
OutcomeStands ==
  Done => /\ ended /\ pending = <<>>
          /\ schema = [table \in Declared \cup stubs |->
                         IF table \in Declared THEN tables[table] ELSE Stub]

SchemaInv ==
  /\ SchemaTypeOK /\ LinksMade /\ MadeByAssociations /\ IndexesStand
  /\ ValidationsKept /\ OutcomeStands

-----------------------------------------------------------------------------
(* What the first pass collected is of the types the assumption gives it,  *)
(* and does not change.                                                    *)
LEMMA OptionIsStated ==
  ASSUME NEW p, NEW table, NEW member, NEW default
  PROVE  Option(p, table, member, default) \in Values(p, table, member) \cup {default}
BY Zenon DEF Option

LEMMA StreamIsWellFormed ==
  ASSUME facts \in Streams, NEW t \in facts
  PROVE  WellFormed(t)
BY SchemaAssumption

(* The class and the column of an association are identifiers.             *)
LEMMA TargetIsName ==
  ASSUME facts \in Streams, NEW t \in facts, t.p = "declares_association"
  PROVE  Target(t) \in Identifiers /\ Column(t) \in Identifiers
<1>1. t.member \in DOMAIN ForeignKey
  BY StreamIsWellFormed DEF WellFormed
<1>2. TargetClass[t.member] \in Identifiers /\ Column(t) \in Identifiers
  BY <1>1, SchemaAssumption DEF Column
<1>3. Values("class_name", t.table, t.member) \subseteq Identifiers
  BY StreamIsWellFormed DEF Values, WellFormed
<1> QED  BY <1>2, <1>3, OptionIsStated DEF Target

(* A foreign key is a link exactly if the class of its association is      *)
(* known.                                                                  *)
LEMMA ForeignKeyKindIsKind ==
  ASSUME facts \in Streams, NEW t \in facts, t.p = "declares_association"
  PROVE  /\ ForeignKeyKind(t) \in KindSet
         /\ ForeignKeyKind(t).base = "record" =>
              ForeignKeyKind(t).target = Target(t) /\ Target(t) \in KnownTargets
         /\ Target(t) \in KnownTargets => ForeignKeyKind(t).base = "record"
<1> DEFINE base == IF Target(t) \in KnownTargets THEN Kind("record", Target(t)) ELSE AnyKind
<1>1. /\ base \in KindSet
      /\ base.base = "record" => base.target = Target(t) /\ Target(t) \in KnownTargets
      /\ Target(t) \in KnownTargets => base.base = "record"
  <2>1. CASE Target(t) \in KnownTargets
    BY <2>1, TargetIsName DEF KindSet, Kind, Bases
  <2>2. CASE Target(t) \notin KnownTargets
    BY <2>2 DEF KindSet, Kind, AnyKind, Bases
  <2> QED  BY <2>1, <2>2
<1>2. Optional(base) \in KindSet /\ Optional(base).base = base.base /\ Optional(base).target = base.target
  <2> HIDE DEF base
  <2> QED  BY <1>1 DEF KindSet, Optional
<1>3. ForeignKeyKind(t) \in {base, Optional(base)}
  BY Zenon DEF ForeignKeyKind
<1> HIDE DEF base
<1> QED  BY <1>1, <1>2, <1>3

(* The type of a column is none of a link.                                 *)
LEMMA RailsTypeIsPlain ==
  ASSUME facts \in Streams, NEW table, NEW field, NEW kind,
         RailsType(table, field) # Nil =>
           kind \in {Kind(RailsType(table, field), Nil), Optional(Kind(RailsType(table, field), Nil))},
         RailsType(table, field) = Nil => kind = AnyKind
  PROVE  kind \in KindSet /\ kind.base # "record"
<1> DEFINE type == Option("field_type", table, field, Nil)
<1> HIDE DEF type
<1>2. FromRailsType(type) \in
        {"int", "decimal", "string", "datetime", "bool", "bytes", "float", "uuid", Nil}
  BY Zenon DEF FromRailsType
<1>3. RailsType(table, field) \in (Bases \ {"record"}) \cup {Nil}
  BY <1>2, Zenon DEF RailsType, type, Bases
<1> DEFINE plain == Kind(RailsType(table, field), Nil)
<1>4. CASE RailsType(table, field) = Nil
  <2>1. kind = [base |-> "any", target |-> Nil, option |-> FALSE]
    BY <1>4, Zenon DEF AnyKind, Kind
  <2> QED  BY <2>1 DEF KindSet, Bases
<1>5. CASE RailsType(table, field) # Nil
  <2>1. plain \in KindSet /\ plain.base # "record"
    BY <1>3, <1>5 DEF KindSet, Kind
  <2>2. Optional(plain) \in KindSet /\ Optional(plain).base = plain.base
    <3> HIDE DEF plain
    <3> QED  BY <2>1 DEF KindSet, Optional
  <2>3. kind \in {plain, Optional(plain)}
    BY <1>5
  <2> HIDE DEF plain
  <2> QED  BY <2>1, <2>2, <2>3
<1> QED  BY <1>4, <1>5

(* What is read off the facts stays while they do.                         *)
LEMMA FactsStay ==
  ASSUME UNCHANGED facts
  PROVE  /\ Declared' = Declared /\ KnownTargets' = KnownTargets
         /\ \A t : /\ Target(t)' = Target(t) /\ AssociationKind(t)' = AssociationKind(t)
                   /\ ForeignKeyKind(t)' = ForeignKeyKind(t) /\ StubTargets(t)' = StubTargets(t)
         /\ \A table, field : /\ Validation(table, field)' = Validation(table, field)
                               /\ IndexColumns(table, field)' = IndexColumns(table, field)
<1>1. Declared' = Declared /\ KnownTargets' = KnownTargets
  BY DEF Declared, KnownTargets
<1>2. \A p, table, member : Values(p, table, member)' = Values(p, table, member)
  BY DEF Values
<1>3. \A p, table, member, default :
        Option(p, table, member, default)' = Option(p, table, member, default)
  <2> TAKE p, table, member, default
  <2>1. Values(p, table, member)' = Values(p, table, member)
    BY <1>2, Zenon
  <2> QED  BY <2>1 DEF Option
<1>4. \A t : Target(t)' = Target(t) /\ AssociationKind(t)' = AssociationKind(t)
  BY <1>3, Zenon DEF Target, AssociationKind
<1>5. \A table, field : NotNull(table, field)' = NotNull(table, field)
  BY <1>2, Zenon DEF NotNull
<1>6. \A t : ForeignKeyKind(t)' = ForeignKeyKind(t)
  BY <1>1, <1>4, <1>5, Zenon DEF ForeignKeyKind
<1>7. \A t : StubTargets(t)' = StubTargets(t)
  BY <1>1, <1>4, Zenon DEF StubTargets
<1>8. \A table, field : Validation(table, field)' = Validation(table, field)
  BY <1>2, Zenon DEF Validation
<1>9. \A table, field : IndexColumns(table, field)' = IndexColumns(table, field)
  <2> TAKE table, field
  <2>1. ScopeParams(table, field)' = ScopeParams(table, field)
    BY <1>2, Zenon DEF ScopeParams
  <2>2. UniquenessScope(table, field)' = UniquenessScope(table, field)
    BY <2>1 DEF UniquenessScope
  <2> QED  BY <2>2 DEF IndexColumns
<1> QED  BY <1>1, <1>4, <1>6, <1>7, <1>8, <1>9

-----------------------------------------------------------------------------
(* The operations of a table builder.                                      *)
LEMMA NewBuilderBuilds == IsBuilder(NewBuilder) /\ DOMAIN NewBuilder.fields = {} /\ NewBuilder.indices = <<>>
<1>1. /\ NewBuilder.fields = NoFields /\ NewBuilder.indices = <<>> /\ NewBuilder.notes = {}
      /\ NewBuilder = [fields |-> NoFields, indices |-> <<>>, notes |-> {}]
  BY DEF NewBuilder
<1>2. DOMAIN NoFields = {} /\ NoFields \in [{} -> FieldSet]
  BY DEF NoFields
<1>3. <<>> \in Seq(IndexSet)
  OBVIOUS
<1> QED  BY <1>1, <1>2, <1>3 DEF IsBuilder

LEMMA AddFieldBuilds ==
  ASSUME NEW b, IsBuilder(b), NEW name \in Identifiers, NEW kind \in KindSet,
         NEW c, c = AddField(b, name, kind)
  PROVE  /\ IsBuilder(c) /\ c.indices = b.indices
         /\ DOMAIN c.fields = DOMAIN b.fields \cup {name}
         /\ \A f \in DOMAIN b.fields : c.fields[f] = b.fields[f]
         /\ name \notin DOMAIN b.fields => c.fields[name].kind = kind
<1>1. CASE HasField(b, name)
  BY <1>1 DEF AddField, HasField
<1>2. CASE ~HasField(b, name)
  <2> DEFINE D == DOMAIN b.fields \cup {name}
             new == [kind |-> kind, assert |-> {}]
             g == [f \in D |-> IF f = name THEN new ELSE b.fields[f]]
  <2>1. c = [b EXCEPT !.fields = g]
    BY <1>2, Zenon DEF AddField
  <2>2. c.fields = g /\ c.indices = b.indices /\ c.notes = b.notes
        /\ c = [fields |-> c.fields, indices |-> c.indices, notes |-> c.notes]
    <3> HIDE DEF g
    <3> QED  BY <2>1 DEF IsBuilder
  <2>3. new \in FieldSet /\ new.kind = kind
    BY DEF FieldSet
  <2>4. g \in [D -> FieldSet] /\ \A f \in DOMAIN b.fields : g[f] = b.fields[f]
    <3> HIDE DEF new
    <3> QED  BY <1>2, <2>3 DEF IsBuilder, HasField
  <2>5. g[name] = new /\ DOMAIN g = D
    OBVIOUS
  <2> HIDE DEF g, new
  <2> QED  BY <2>2, <2>3, <2>4, <2>5 DEF IsBuilder
<1> QED  BY <1>1, <1>2

LEMMA UpgradeFieldKindBuilds ==
  ASSUME NEW b, IsBuilder(b), NEW name \in DOMAIN b.fields, NEW kind \in KindSet,
         NEW c, c = UpgradeFieldKind(b, name, kind)
  PROVE  /\ IsBuilder(c) /\ c.indices = b.indices /\ DOMAIN c.fields = DOMAIN b.fields
         /\ \A f \in DOMAIN b.fields \ {name} : c.fields[f] = b.fields[f]
         /\ c.fields[name].kind = kind
<1> DEFINE new == [b.fields[name] EXCEPT !.kind = kind]
           g == [b.fields EXCEPT ![name] = new]
<1>1. c = [b EXCEPT !.fields = g]
  BY Zenon DEF UpgradeFieldKind
<1>2. c.fields = g /\ c.indices = b.indices /\ c.notes = b.notes
      /\ c = [fields |-> c.fields, indices |-> c.indices, notes |-> c.notes]
  <2> HIDE DEF g
  <2> QED  BY <1>1 DEF IsBuilder
<1>3. new \in FieldSet /\ new.kind = kind
  BY DEF FieldSet, IsBuilder
<1>4. g \in [DOMAIN b.fields -> FieldSet] /\ g[name] = new
      /\ \A f \in DOMAIN b.fields \ {name} : g[f] = b.fields[f]
  <2> HIDE DEF new
  <2> QED  BY <1>3 DEF IsBuilder
<1> HIDE DEF g, new
<1> QED  BY <1>2, <1>3, <1>4 DEF IsBuilder

LEMMA AddFieldAssertBuilds ==
  ASSUME NEW b, IsBuilder(b), NEW name, NEW expr \in SUBSET Clauses,
         NEW c, c = AddFieldAssert(b, name, expr)
  PROVE  /\ IsBuilder(c) /\ c.indices = b.indices /\ DOMAIN c.fields = DOMAIN b.fields
         /\ \A f \in DOMAIN b.fields : c.fields[f].kind = b.fields[f].kind
         /\ \A f \in DOMAIN b.fields \ {name} : c.fields[f] = b.fields[f]
         /\ name \in DOMAIN b.fields => c.fields[name].assert = expr
<1>1. CASE ~HasField(b, name)
  BY <1>1 DEF AddFieldAssert, HasField
<1>2. CASE HasField(b, name)
  <2> DEFINE new == [b.fields[name] EXCEPT !.assert = expr]
             g == [b.fields EXCEPT ![name] = new]
  <2>1. c = [b EXCEPT !.fields = g]
    BY <1>2, Zenon DEF AddFieldAssert
  <2>2. c.fields = g /\ c.indices = b.indices /\ c.notes = b.notes
        /\ c = [fields |-> c.fields, indices |-> c.indices, notes |-> c.notes]
    <3> HIDE DEF g
    <3> QED  BY <2>1 DEF IsBuilder
  <2>3. new \in FieldSet /\ new.kind = b.fields[name].kind /\ new.assert = expr
    BY <1>2 DEF FieldSet, IsBuilder, HasField
  <2>4. g \in [DOMAIN b.fields -> FieldSet] /\ g[name] = new
        /\ \A f \in DOMAIN b.fields \ {name} : g[f] = b.fields[f]
    <3> HIDE DEF new
    <3> QED  BY <1>2, <2>3 DEF IsBuilder, HasField
  <2> HIDE DEF g, new
  <2> QED  BY <1>2, <2>2, <2>3, <2>4 DEF IsBuilder, HasField
<1> QED  BY <1>1, <1>2

LEMMA AddIndexBuilds ==
  ASSUME NEW b, IsBuilder(b), NEW i \in IndexSet,
         NEW c, c = [b EXCEPT !.indices = Append(@, i)]
  PROVE  IsBuilder(c) /\ c.fields = b.fields /\ c.indices = Append(b.indices, i)
<1>1. c.fields = b.fields /\ c.indices = Append(b.indices, i) /\ c.notes = b.notes
      /\ c = [fields |-> c.fields, indices |-> c.indices, notes |-> c.notes]
  BY DEF IsBuilder
<1> QED  BY <1>1 DEF IsBuilder

LEMMA AddAnnotationBuilds ==
  ASSUME NEW b, IsBuilder(b), NEW note, NEW c, c = AddAnnotation(b, note)
  PROVE  IsBuilder(c) /\ c.fields = b.fields /\ c.indices = b.indices
<1>1. c.fields = b.fields /\ c.indices = b.indices
      /\ c = [fields |-> c.fields, indices |-> c.indices, notes |-> c.notes]
  BY DEF IsBuilder, AddAnnotation
<1> QED  BY <1>1 DEF IsBuilder

-----------------------------------------------------------------------------
(* What it is for an index to be on its columns, in two forms.             *)
LEMMA OnItsColumnsMeans ==
  ASSUME NEW table, NEW b, NEW i
  PROVE  OnItsColumns(table, b, i) <=>
           /\ HasField(b, i.columns[1])
           /\ \A f : f = i.columns[1] => i.columns = IF i.unique THEN IndexColumns(table, f) ELSE <<f>>
BY DEF OnItsColumns

LEMMA IndexesOnTheirColumns ==
  ASSUME IndexesStand, NEW table \in Declared
  PROVE  /\ \A k \in DOMAIN tables[table].indices :
              OnItsColumns(table, tables[table], tables[table].indices[k])
         /\ \A j, k \in DOMAIN tables[table].indices :
              /\ tables[table].indices[j] = tables[table].indices[k]
              /\ ~tables[table].indices[k].unique
              => j = k
BY OnItsColumnsMeans DEF IndexesStand

LEMMA IndexesStandAfter ==
  ASSUME UNCHANGED facts,
         \A table \in Declared : \A j, k \in DOMAIN tables'[table].indices :
           LET i == tables'[table].indices IN
           /\ OnItsColumns(table, tables'[table], i[k])
           /\ i[j] = i[k] /\ ~i[k].unique => j = k
  PROVE  IndexesStand'
<1>1. Declared' = Declared /\ \A table, field : IndexColumns(table, field)' = IndexColumns(table, field)
  BY FactsStay
<1>2. ASSUME NEW table \in Declared, NEW j \in DOMAIN tables'[table].indices,
             NEW k \in DOMAIN tables'[table].indices
      PROVE  LET i == tables'[table].indices IN
             /\ HasField(tables'[table], i[k].columns[1])
             /\ \A f : f = i[k].columns[1] =>
                  i[k].columns = IF i[k].unique THEN IndexColumns(table, f) ELSE <<f>>
             /\ i[j] = i[k] /\ ~i[k].unique => j = k
  BY OnItsColumnsMeans
<1> QED  BY <1>1, <1>2 DEF IndexesStand, HasField

-----------------------------------------------------------------------------
(* A step that is none of an association leaves the links and the indexes  *)
(* of a table alone, and adds at most plain columns and a unique index.    *)
GrowsInto(table, b, c) ==
  /\ IsBuilder(c) /\ DOMAIN b.fields \subseteq DOMAIN c.fields
  /\ \A f \in DOMAIN b.fields : c.fields[f].kind = b.fields[f].kind
  /\ \A f \in DOMAIN c.fields \ DOMAIN b.fields : c.fields[f].kind.base # "record"
  /\ \/ c.indices = b.indices
     \/ \E i \in IndexSet : /\ i.unique /\ OnItsColumns(table, b, i)
                            /\ c.indices = Append(b.indices, i)

SchemaLinks == LinksMade /\ MadeByAssociations /\ IndexesStand

LEMMA TablesBuilt ==
  ASSUME SchemaTypeOK, NEW table \in Declared, NEW c, IsBuilder(c), SetTable(table, c), UNCHANGED facts
  PROVE  /\ tables' = [x \in Declared' |-> tables'[x]]
         /\ tables'[table] = c /\ \A x \in Declared \ {table} : tables'[x] = tables[x]
         /\ \A x \in Declared' : IsBuilder(tables'[x])
BY FactsStay DEF SchemaTypeOK, SetTable

(* A step that lets one table grow, and makes no link of its own, keeps    *)
(* what is said of links and indexes.                                      *)
LEMMA GrowingKeepsLinks ==
  ASSUME SchemaTypeOK, SchemaLinks, NEW table \in Declared, NEW c, GrowsInto(table, tables[table], c),
         SetTable(table, c), UNCHANGED <<facts, stubs>>, Met' = Met
  PROVE  SchemaLinks'
<1> DEFINE b == tables[table]
<1>0. IsBuilder(b) /\ IsBuilder(c) /\ b.indices \in Seq(IndexSet)
  BY DEF SchemaTypeOK, GrowsInto, IsBuilder
<1>1. tables'[table] = c /\ (\A x \in Declared \ {table} : tables'[x] = tables[x]) /\ Declared' = Declared
  BY <1>0, TablesBuilt, FactsStay
<1>2. /\ \A k \in DOMAIN b.indices : k \in DOMAIN c.indices /\ c.indices[k] = b.indices[k]
      /\ \A k \in DOMAIN c.indices \ DOMAIN b.indices :
           c.indices[k].unique /\ OnItsColumns(table, b, c.indices[k])
  <2>1. CASE c.indices = b.indices
    BY <2>1
  <2>2. CASE c.indices # b.indices
    <3>1. PICK i \in IndexSet : /\ i.unique /\ OnItsColumns(table, b, i)
                                /\ c.indices = Append(b.indices, i)
      BY <2>2 DEF GrowsInto
    <3> QED  BY <1>0, <3>1
  <2> QED  BY <2>1, <2>2
<1>3. /\ DOMAIN b.fields \subseteq DOMAIN c.fields
      /\ \A f \in DOMAIN b.fields : c.fields[f].kind = b.fields[f].kind
      /\ \A f \in DOMAIN c.fields \ DOMAIN b.fields : c.fields[f].kind.base # "record"
  BY DEF GrowsInto
<1> HIDE DEF b
<1>4. \A t : /\ ForeignKeyKind(t)' = ForeignKeyKind(t) /\ StubTargets(t)' = StubTargets(t)
             /\ Target(t)' = Target(t) /\ KnownTargets' = KnownTargets
  BY FactsStay
<1>5. LinksMade'
  <2> SUFFICES ASSUME NEW t \in Met
               PROVE  LET d == tables'[t.table] IN
                      /\ HasField(d, Column(t)) /\ d.fields[Column(t)].kind = ForeignKeyKind(t)
                      /\ ForeignKeyKind(t).base = "record" =>
                           \E k \in DOMAIN d.indices : d.indices[k] = Index(<<Column(t)>>, FALSE)
                      /\ StubTargets(t) \subseteq stubs
    BY <1>4 DEF LinksMade
  <2>1. LET d == tables[t.table] IN
        /\ HasField(d, Column(t)) /\ d.fields[Column(t)].kind = ForeignKeyKind(t)
        /\ ForeignKeyKind(t).base = "record" =>
             \E k \in DOMAIN d.indices : d.indices[k] = Index(<<Column(t)>>, FALSE)
        /\ StubTargets(t) \subseteq stubs
    BY DEF SchemaLinks, LinksMade
  <2>2. t.table \in Declared
    BY DEF Met
  <2>3. CASE t.table = table
    BY <1>1, <1>2, <1>3, <2>1, <2>3 DEF HasField, b
  <2>4. CASE t.table # table
    BY <1>1, <2>1, <2>2, <2>4
  <2> QED  BY <2>3, <2>4
<1>6. MadeByAssociations'
  <2>1. ASSUME NEW x \in Declared, NEW f \in DOMAIN tables'[x].fields,
               tables'[x].fields[f].kind.base = "record"
        PROVE  \E t \in Met : t.table = x /\ Column(t) = f
    <3>1. f \in DOMAIN tables[x].fields /\ tables[x].fields[f].kind.base = "record"
      BY <1>1, <1>3, <2>1 DEF b
    <3> QED  BY <3>1 DEF SchemaLinks, MadeByAssociations
  <2>2. ASSUME NEW x \in Declared, NEW k \in DOMAIN tables'[x].indices, ~tables'[x].indices[k].unique
        PROVE  \E t \in Met : t.table = x /\ tables'[x].indices[k].columns = <<Column(t)>>
    <3>1. k \in DOMAIN tables[x].indices /\ tables'[x].indices[k] = tables[x].indices[k]
      BY <1>1, <1>2, <2>2 DEF b
    <3> QED  BY <2>2, <3>1 DEF SchemaLinks, MadeByAssociations
  <2>3. \A stub \in stubs : stub \in KnownTargets \ Declared /\ \E t \in Met : Target(t) = stub
    BY DEF SchemaLinks, MadeByAssociations
  <2> QED  BY <1>1, <1>4, <2>1, <2>2, <2>3 DEF MadeByAssociations
<1>7. IndexesStand'
  <2> SUFFICES ASSUME NEW x \in Declared, NEW j \in DOMAIN tables'[x].indices,
                      NEW k \in DOMAIN tables'[x].indices
               PROVE  LET i == tables'[x].indices IN
                      /\ OnItsColumns(x, tables'[x], i[k])
                      /\ i[j] = i[k] /\ ~i[k].unique => j = k
    BY IndexesStandAfter
  <2>1. CASE x = table
    <3>1. \A k1 \in DOMAIN c.indices : OnItsColumns(table, c, c.indices[k1])
      <4>1. \A k1 \in DOMAIN b.indices : OnItsColumns(table, b, b.indices[k1])
        BY IndexesOnTheirColumns DEF SchemaLinks, b
      <4>2. \A k1 \in DOMAIN c.indices : OnItsColumns(table, b, c.indices[k1])
        BY <1>2, <4>1
      <4> QED  BY <1>3, <4>2 DEF OnItsColumns, HasField
    <3>2. \A j1, k1 \in DOMAIN b.indices : b.indices[j1] = b.indices[k1] /\ ~b.indices[k1].unique => j1 = k1
      BY DEF SchemaLinks, IndexesStand, b
    <3> QED  BY <1>1, <1>2, <2>1, <3>1, <3>2
  <2>2. CASE x # table
    BY <1>1, <2>2, IndexesOnTheirColumns DEF SchemaLinks
  <2> QED  BY <2>1, <2>2
<1> QED  BY <1>5, <1>6, <1>7 DEF SchemaLinks

(* An association that is met makes its link, or finds it made.            *)
LEMMA SameColumnSameLink ==
  ASSUME facts \in Streams, NEW t \in facts, NEW u \in facts,
         t.p = "declares_association", u.p = "declares_association",
         t.table = u.table, Column(t) = Column(u)
  PROVE  ForeignKeyKind(t) = ForeignKeyKind(u)
<1>1. t.member \in DOMAIN ForeignKey /\ u.member \in DOMAIN ForeignKey
  BY StreamIsWellFormed DEF WellFormed
<1>2. t.member = u.member
  BY <1>1, SchemaAssumption DEF Column
<1>3. Target(t) = Target(u)
  BY <1>2 DEF Target
<1> QED  BY <1>2, <1>3 DEF ForeignKeyKind

LEMMA BelongsToBuilds ==
  ASSUME SchemaTypeOK, NEW t \in facts, t.p = "declares_association", t.table \in Declared, BelongsTo(t)
  PROVE  \E c : /\ SetTable(t.table, c) /\ IsBuilder(c)
                /\ DOMAIN c.fields = DOMAIN tables[t.table].fields \cup {Column(t)}
                /\ \A f \in DOMAIN tables[t.table].fields \ {Column(t)} :
                     c.fields[f] = tables[t.table].fields[f]
                /\ c.fields[Column(t)].kind = ForeignKeyKind(t)
                /\ \/ /\ c.indices = tables[t.table].indices
                      /\ HasField(tables[t.table], Column(t))
                      /\ tables[t.table].fields[Column(t)].kind = ForeignKeyKind(t)
                   \/ /\ c.indices = Append(tables[t.table].indices, Index(<<Column(t)>>, FALSE))
                      /\ \/ ~HasField(tables[t.table], Column(t))
                         \/ tables[t.table].fields[Column(t)].kind # ForeignKeyKind(t)
<1> DEFINE b == tables[t.table]
           field == Column(t)
           kind == ForeignKeyKind(t)
           i == Index(<<field>>, FALSE)
<1>0. IsBuilder(b) /\ field \in Identifiers /\ kind \in KindSet /\ facts \in Streams
  BY TargetIsName, ForeignKeyKindIsKind DEF SchemaTypeOK
<1>1. i \in IndexSet
  BY <1>0 DEF Index, IndexSet
<1>2. CASE ~HasField(b, field)
  <2> DEFINE d == AddField(b, field, kind)
             c == AddIndex(d, <<field>>)
  <2>1. SetTable(t.table, c)
    BY <1>2, Zenon DEF BelongsTo, Column
  <2>2. /\ IsBuilder(d) /\ d.indices = b.indices /\ DOMAIN d.fields = DOMAIN b.fields \cup {field}
        /\ \A f \in DOMAIN b.fields : d.fields[f] = b.fields[f]
        /\ d.fields[field].kind = kind
    <3> HIDE DEF b, field, kind
    <3> QED  BY <1>0, <1>2, AddFieldBuilds DEF HasField
  <2>3. IsBuilder(c) /\ c.fields = d.fields /\ c.indices = Append(d.indices, i)
    <3>1. c = [d EXCEPT !.indices = Append(@, i)]
      BY Zenon DEF AddIndex
    <3> HIDE DEF c, d, i
    <3> QED  BY <1>1, <2>2, <3>1, AddIndexBuilds
  <2> HIDE DEF c, d
  <2> QED  BY <1>2, <2>1, <2>2, <2>3
<1>3. CASE HasField(b, field) /\ b.fields[field].kind # kind
  <2> DEFINE d == UpgradeFieldKind(b, field, kind)
             c == AddIndex(d, <<field>>)
  <2>1. SetTable(t.table, c)
    BY <1>3, Zenon DEF BelongsTo, Column
  <2>2. /\ IsBuilder(d) /\ d.indices = b.indices /\ DOMAIN d.fields = DOMAIN b.fields \cup {field}
        /\ \A f \in DOMAIN b.fields \ {field} : d.fields[f] = b.fields[f]
        /\ d.fields[field].kind = kind
    <3> HIDE DEF b, field, kind
    <3> QED  BY <1>0, <1>3, UpgradeFieldKindBuilds DEF HasField
  <2>3. IsBuilder(c) /\ c.fields = d.fields /\ c.indices = Append(d.indices, i)
    <3>1. c = [d EXCEPT !.indices = Append(@, i)]
      BY Zenon DEF AddIndex
    <3> HIDE DEF c, d, i
    <3> QED  BY <1>1, <2>2, <3>1, AddIndexBuilds
  <2> HIDE DEF c, d
  <2> QED  BY <1>3, <2>1, <2>2, <2>3
<1>4. CASE HasField(b, field) /\ b.fields[field].kind = kind
  <2>1. SetTable(t.table, b)
    BY <1>4, Zenon DEF BelongsTo, Column
  <2>2. DOMAIN b.fields = DOMAIN b.fields \cup {field}
    BY <1>4 DEF HasField
  <2> WITNESS b
  <2> HIDE DEF b
  <2> QED  BY <1>0, <1>4, <2>1, <2>2 DEF b
<1> QED  BY <1>2, <1>3, <1>4

(* The step that meets an association makes its link, with the index.      *)
LEMMA BelongsToKeepsLinks ==
  ASSUME SchemaTypeOK, SchemaLinks, NEW t \in facts, t.p = "declares_association", t.table \in Declared,
         BelongsTo(t), stubs' = stubs \cup StubTargets(t), Met' = Met \cup {t}, UNCHANGED facts
  PROVE  SchemaLinks' /\ \E c : IsBuilder(c) /\ SetTable(t.table, c)
<1> DEFINE b == tables[t.table]
           field == Column(t)
           kind == ForeignKeyKind(t)
           i == Index(<<field>>, FALSE)
<1>1. PICK c : /\ SetTable(t.table, c) /\ IsBuilder(c) /\ DOMAIN c.fields = DOMAIN b.fields \cup {field}
               /\ \A f \in DOMAIN b.fields \ {field} : c.fields[f] = b.fields[f]
               /\ c.fields[field].kind = kind
               /\ \/ c.indices = b.indices /\ HasField(b, field) /\ b.fields[field].kind = kind
                  \/ /\ c.indices = Append(b.indices, i)
                     /\ ~HasField(b, field) \/ b.fields[field].kind # kind
  BY BelongsToBuilds
<1>2. IsBuilder(b) /\ b.indices \in Seq(IndexSet) /\ facts \in Streams
  BY DEF SchemaTypeOK, IsBuilder
<1>3. /\ tables'[t.table] = c /\ (\A x \in Declared \ {t.table} : tables'[x] = tables[x])
      /\ Declared' = Declared
  BY <1>1, TablesBuilt, FactsStay
<1>4. i.columns = <<field>> /\ i.columns[1] = field /\ ~i.unique
  BY DEF Index
<1>5. \A u \in Met : /\ u \in facts /\ u.p = "declares_association" /\ u.table \in Declared
  BY DEF Met
<1>6. \A u \in Met : u.table = t.table /\ Column(u) = field =>
        ForeignKeyKind(u) = kind /\ HasField(b, field) /\ b.fields[field].kind = kind
  <2> SUFFICES ASSUME NEW u \in Met, u.table = t.table, Column(u) = field
               PROVE  ForeignKeyKind(u) = kind /\ HasField(b, field) /\ b.fields[field].kind = kind
    OBVIOUS
  <2>1. ForeignKeyKind(u) = kind
    BY <1>2, <1>5, SameColumnSameLink
  <2>2. HasField(b, field) /\ b.fields[field].kind = ForeignKeyKind(u)
    BY DEF SchemaLinks, LinksMade
  <2> QED  BY <2>1, <2>2
\* No index of this column before it had this link.
<1>7. /\ \A k \in DOMAIN b.indices : k \in DOMAIN c.indices /\ c.indices[k] = b.indices[k]
      /\ \A k \in DOMAIN c.indices \ DOMAIN b.indices :
           /\ c.indices[k] = i
           /\ \A j \in DOMAIN c.indices : c.indices[j] = i => j = k
      /\ kind.base = "record" => \E k \in DOMAIN c.indices : c.indices[k] = i
  <2>1. CASE c.indices = b.indices /\ HasField(b, field) /\ b.fields[field].kind = kind
    <3>1. ASSUME kind.base = "record" PROVE \E k \in DOMAIN c.indices : c.indices[k] = i
      <4>1. PICK u \in Met : u.table = t.table /\ Column(u) = field
        BY <2>1, <3>1 DEF SchemaLinks, MadeByAssociations, HasField
      <4>2. ForeignKeyKind(u).base = "record"
        BY <1>6, <3>1, <4>1
      <4>3. \E k \in DOMAIN b.indices : b.indices[k] = Index(<<Column(u)>>, FALSE)
        BY <4>1, <4>2 DEF SchemaLinks, LinksMade
      <4> QED  BY <2>1, <4>1, <4>3
    <3> HIDE DEF b, kind, i
    <3> QED  BY <2>1, <3>1
  <2>2. CASE c.indices = Append(b.indices, i) /\ (~HasField(b, field) \/ b.fields[field].kind # kind)
    <3>1. \A u \in Met : ~(u.table = t.table /\ Column(u) = field)
      BY <1>6, <2>2
    <3>2. \A k \in DOMAIN b.indices : b.indices[k] # i
      <4> SUFFICES ASSUME NEW k \in DOMAIN b.indices, b.indices[k] = i PROVE FALSE
        OBVIOUS
      <4>0. ~b.indices[k].unique /\ b.indices[k].columns = <<field>>
        <5> HIDE DEF i, b
        <5> QED  BY <1>4
      <4>1. PICK u \in Met : u.table = t.table /\ b.indices[k].columns = <<Column(u)>>
        BY <4>0 DEF SchemaLinks, MadeByAssociations
      <4>2. Column(u) = field
        <5> HIDE DEF b, i, field
        <5>1. <<Column(u)>> = <<field>>
          BY <4>0, <4>1
        <5> QED  BY <5>1
      <4> QED  BY <3>1, <4>1, <4>2
    <3>3. /\ DOMAIN c.indices = 1 .. Len(b.indices) + 1 /\ DOMAIN b.indices = 1 .. Len(b.indices)
          /\ c.indices[Len(b.indices) + 1] = i /\ Len(b.indices) \in Nat
          /\ \A k \in DOMAIN b.indices : c.indices[k] = b.indices[k]
      <4> HIDE DEF b, i
      <4> QED  BY <1>2, <2>2
    <3> HIDE DEF b, i, kind
    <3> QED  BY <3>2, <3>3
  <2> HIDE DEF b, i, kind, field
  <2> QED  BY <1>1, <2>1, <2>2
<1>8. \A u : /\ ForeignKeyKind(u)' = ForeignKeyKind(u) /\ StubTargets(u)' = StubTargets(u)
             /\ Target(u)' = Target(u) /\ KnownTargets' = KnownTargets
  BY FactsStay
<1>9. LinksMade'
  <2> SUFFICES ASSUME NEW u \in Met \cup {t}
               PROVE  LET d == tables'[u.table] IN
                      /\ HasField(d, Column(u)) /\ d.fields[Column(u)].kind = ForeignKeyKind(u)
                      /\ ForeignKeyKind(u).base = "record" =>
                           \E k \in DOMAIN d.indices : d.indices[k] = Index(<<Column(u)>>, FALSE)
                      /\ StubTargets(u) \subseteq stubs'
    BY <1>8 DEF LinksMade
  <2>1. CASE u = t
    BY <1>1, <1>3, <1>7, <2>1 DEF HasField
  <2>2. CASE u # t
    <3>1. u \in Met
      BY <2>2
    <3>2. LET d == tables[u.table] IN
          /\ HasField(d, Column(u)) /\ d.fields[Column(u)].kind = ForeignKeyKind(u)
          /\ ForeignKeyKind(u).base = "record" =>
               \E k \in DOMAIN d.indices : d.indices[k] = Index(<<Column(u)>>, FALSE)
          /\ StubTargets(u) \subseteq stubs
      BY <3>1 DEF SchemaLinks, LinksMade
    <3>3. CASE u.table # t.table
      BY <1>3, <1>5, <3>1, <3>2, <3>3
    <3>4. CASE u.table = t.table
      <4>1. /\ HasField(c, Column(u)) /\ c.fields[Column(u)].kind = ForeignKeyKind(u)
        <5>1. CASE Column(u) = field
          BY <1>1, <1>6, <3>1, <3>4, <5>1 DEF HasField
        <5>2. CASE Column(u) # field
          BY <1>1, <3>2, <3>4, <5>2 DEF HasField
        <5> QED  BY <5>1, <5>2
      <4>2. ForeignKeyKind(u).base = "record" =>
              \E k \in DOMAIN c.indices : c.indices[k] = Index(<<Column(u)>>, FALSE)
        <5>1. ForeignKeyKind(u).base = "record" =>
                \E k \in DOMAIN b.indices : b.indices[k] = Index(<<Column(u)>>, FALSE)
          BY <3>2, <3>4
        <5> HIDE DEF b, i, kind
        <5> QED  BY <1>7, <5>1
      <4> QED  BY <1>3, <3>2, <3>4, <4>1, <4>2
    <3> QED  BY <3>3, <3>4
  <2> QED  BY <2>1, <2>2
<1>10. MadeByAssociations'
  <2>1. ASSUME NEW x \in Declared, NEW f \in DOMAIN tables'[x].fields,
               tables'[x].fields[f].kind.base = "record"
        PROVE  \E u \in Met \cup {t} : u.table = x /\ Column(u) = f
    <3>1. CASE x = t.table /\ f = field
      BY <3>1
    <3>2. CASE ~(x = t.table /\ f = field)
      <4>1. f \in DOMAIN tables[x].fields /\ tables[x].fields[f].kind.base = "record"
        BY <1>1, <1>3, <2>1, <3>2
      <4> QED  BY <4>1 DEF SchemaLinks, MadeByAssociations
    <3> QED  BY <3>1, <3>2
  <2>2. ASSUME NEW x \in Declared, NEW k \in DOMAIN tables'[x].indices, ~tables'[x].indices[k].unique
        PROVE  \E u \in Met \cup {t} : u.table = x /\ tables'[x].indices[k].columns = <<Column(u)>>
    <3>1. CASE x = t.table /\ k \notin DOMAIN b.indices
      <4>1. tables'[x].indices[k] = i
        BY <1>3, <1>7, <2>2, <3>1
      <4> QED  BY <1>4, <3>1, <4>1
    <3>2. CASE ~(x = t.table /\ k \notin DOMAIN b.indices)
      <4>1. k \in DOMAIN tables[x].indices /\ tables'[x].indices[k] = tables[x].indices[k]
        BY <1>3, <1>7, <2>2, <3>2
      <4>2. \E u \in Met : u.table = x /\ tables[x].indices[k].columns = <<Column(u)>>
        BY <2>2, <4>1 DEF SchemaLinks, MadeByAssociations
      <4> QED  BY <4>1, <4>2
    <3> QED  BY <3>1, <3>2
  <2>3. \A stub \in stubs' : stub \in KnownTargets \ Declared /\ \E u \in Met \cup {t} : Target(u) = stub
    <3>1. \A stub \in stubs : stub \in KnownTargets \ Declared /\ \E u \in Met : Target(u) = stub
      BY DEF SchemaLinks, MadeByAssociations
    <3>2. \A stub \in StubTargets(t) : stub \in KnownTargets \ Declared /\ stub = Target(t)
      BY DEF StubTargets
    <3> QED  BY <3>1, <3>2
  <2>4. \A u : Column(u)' = Column(u)
    BY DEF Column
  <2> QED  BY <1>3, <1>8, <2>1, <2>2, <2>3, <2>4 DEF MadeByAssociations
<1>11. IndexesStand'
  <2> SUFFICES ASSUME NEW x \in Declared, NEW j \in DOMAIN tables'[x].indices,
                      NEW k \in DOMAIN tables'[x].indices
               PROVE  LET l == tables'[x].indices IN
                      /\ OnItsColumns(x, tables'[x], l[k])
                      /\ l[j] = l[k] /\ ~l[k].unique => j = k
    BY IndexesStandAfter
  <2>1. CASE x = t.table
    <3>1. \A k1 \in DOMAIN b.indices : OnItsColumns(x, b, b.indices[k1])
      BY <2>1, IndexesOnTheirColumns DEF SchemaLinks
    <3>2. \A j1, k1 \in DOMAIN b.indices : b.indices[j1] = b.indices[k1] /\ ~b.indices[k1].unique => j1 = k1
      BY DEF SchemaLinks, IndexesStand
    <3>3. OnItsColumns(x, c, c.indices[k])
      <4>1. CASE k \in DOMAIN b.indices
        <5>1. c.indices[k] = b.indices[k] /\ OnItsColumns(x, b, b.indices[k])
          BY <1>7, <3>1, <4>1
        <5>2. \A f : HasField(b, f) => HasField(c, f)
          BY <1>1 DEF HasField
        <5> HIDE DEF b, i, kind, field
        <5> QED  BY <5>1, <5>2 DEF OnItsColumns
      <4>2. CASE k \notin DOMAIN b.indices
        <5>1. c.indices[k] = i
          BY <1>3, <1>7, <2>1, <4>2
        <5>2. HasField(c, field)
          BY <1>1 DEF HasField
        <5>3. OnItsColumns(x, c, i)
          <6> HIDE DEF b, i, kind, field
          <6> QED  BY <1>4, <5>2 DEF OnItsColumns
        <5> QED  BY <5>1, <5>3
      <4> QED  BY <4>1, <4>2
    <3>4. c.indices[j] = c.indices[k] /\ ~c.indices[k].unique => j = k
      <4> HIDE DEF b, i, kind
      <4> QED  BY <1>3, <1>7, <2>1, <3>2
    <3> QED  BY <1>3, <2>1, <3>3, <3>4
  <2>2. CASE x # t.table
    BY <1>3, <2>2, IndexesOnTheirColumns DEF SchemaLinks
  <2> QED  BY <2>1, <2>2
<1> QED  BY <1>1, <1>9, <1>10, <1>11 DEF SchemaLinks

-----------------------------------------------------------------------------
(* The handlers of the second pass.  Each leaves the tables well built and *)
(* the links in order, and puts off at most one assert.                    *)
TablesStand ==
  /\ tables = [table \in Declared |-> tables[table]]
  /\ \A table \in Declared : IsBuilder(tables[table])
  /\ stubs \subseteq Identifiers
PutsOff(a) ==
  /\ a \in PutOff /\ pending' = Append(pending, a)
  /\ a.expr = LastWritten(a.table, a.field)'
  /\ \A table, field : For(a, table, field) \/ LastWritten(table, field)' = LastWritten(table, field)
Handled(t) ==
  /\ SchemaLinks' /\ TablesStand'
  /\ UNCHANGED <<pending, overruled>> \/ \E a \in PutOff : PutsOff(a)
  /\ t.p = "validates_constraint" /\ t.table \in Declared =>
       \E a \in PutOff : PutsOff(a) /\ For(a, t.table, t.member)

(* What a field is to assert changes with the facts and the last put off.  *)
LEMMA LastWrittenStays ==
  ASSUME UNCHANGED <<facts, overruled>>
  PROVE  \A table, field : LastWritten(table, field)' = LastWritten(table, field)
BY FactsStay DEF LastWritten

LEMMA LinksStay ==
  ASSUME SchemaTypeOK, SchemaLinks, UNCHANGED <<facts, tables, stubs>>, Met' = Met
  PROVE  SchemaLinks' /\ TablesStand'
<1>0. \A table, field : IndexColumns(table, field)' = IndexColumns(table, field)
  BY FactsStay
<1>1. /\ Declared' = Declared /\ KnownTargets' = KnownTargets
      /\ \A u : /\ ForeignKeyKind(u)' = ForeignKeyKind(u) /\ StubTargets(u)' = StubTargets(u)
               /\ Target(u)' = Target(u) /\ Column(u)' = Column(u)
  BY FactsStay DEF Column
<1>2. LinksMade'
  BY <1>1 DEF SchemaLinks, LinksMade
<1>3. MadeByAssociations'
  BY <1>1 DEF SchemaLinks, MadeByAssociations
<1>4. IndexesStand'
  BY <1>0, <1>1 DEF SchemaLinks, IndexesStand, OnItsColumns
<1>5. TablesStand'
  BY <1>1 DEF TablesStand, SchemaTypeOK
<1> QED  BY <1>2, <1>3, <1>4, <1>5 DEF SchemaLinks

LEMMA GrowingKeepsTables ==
  ASSUME SchemaTypeOK, SchemaLinks, NEW table \in Declared, NEW c, GrowsInto(table, tables[table], c),
         SetTable(table, c), UNCHANGED <<facts, stubs>>, Met' = Met
  PROVE  SchemaLinks' /\ TablesStand'
<1>1. SchemaLinks'
  BY GrowingKeepsLinks
<1>2. TablesStand'
  BY TablesBuilt DEF GrowsInto, TablesStand, SchemaTypeOK
<1> QED  BY <1>1, <1>2

LEMMA AddFieldGrows ==
  ASSUME NEW b, IsBuilder(b), NEW name \in Identifiers, NEW kind \in KindSet, kind.base # "record",
         NEW table
  PROVE  GrowsInto(table, b, AddField(b, name, kind))
<1> DEFINE c == AddField(b, name, kind)
<1>1. /\ IsBuilder(c) /\ c.indices = b.indices
      /\ DOMAIN c.fields = DOMAIN b.fields \cup {name}
      /\ \A f \in DOMAIN b.fields : c.fields[f] = b.fields[f]
      /\ name \notin DOMAIN b.fields => c.fields[name].kind = kind
  BY AddFieldBuilds
<1> HIDE DEF c
<1> QED  BY <1>1 DEF GrowsInto, c

LEMMA HasAttributeHandled ==
  ASSUME SchemaTypeOK, SchemaLinks, NEW t \in facts, t.table \in Declared, HasAttribute(t),
         UNCHANGED facts, Met' = Met
  PROVE  Handled(t)
<1> DEFINE type == RailsType(t.table, t.member)
           kind == IF type = Nil THEN AnyKind ELSE Optional(Kind(type, Nil))
<1>1. /\ t.p = "has_attribute" /\ SetTable(t.table, AddField(tables[t.table], t.member, kind))
      /\ UNCHANGED <<stubs, pending, overruled>>
  BY DEF HasAttribute
<1>2. t.member \in Identifiers /\ IsBuilder(tables[t.table]) /\ facts \in Streams
  BY <1>1, StreamIsWellFormed DEF SchemaTypeOK, WellFormed
<1>3. kind \in KindSet /\ kind.base # "record"
  BY <1>2, RailsTypeIsPlain
<1> HIDE DEF kind
<1>4. SchemaLinks' /\ TablesStand'
  BY <1>1, <1>2, <1>3, AddFieldGrows, GrowingKeepsTables
<1> QED  BY <1>1, <1>4 DEF Handled

LEMMA HasFieldHandled ==
  ASSUME SchemaTypeOK, SchemaLinks, NEW t \in facts, t.table \in Declared, HasFieldTriple(t),
         UNCHANGED facts, Met' = Met
  PROVE  Handled(t)
<1> DEFINE type == RailsType(t.table, t.member)
           required == NotNull(t.table, t.member)
           kind == IF type = Nil THEN AnyKind
                   ELSE IF required THEN Kind(type, Nil) ELSE Optional(Kind(type, Nil))
           a == [table |-> t.table, field |-> t.member, expr |-> {NotNone}]
<1>1. /\ t.p = "has_field" /\ SetTable(t.table, AddField(tables[t.table], t.member, kind))
      /\ \/ UNCHANGED <<pending, overruled>>
         \/ pending' = Append(pending, a) /\ overruled' = overruled \cup {<<t.table, t.member>>}
      /\ UNCHANGED stubs
  BY DEF HasFieldTriple
<1>2. t.member \in Identifiers /\ IsBuilder(tables[t.table]) /\ facts \in Streams
  BY <1>1, StreamIsWellFormed DEF SchemaTypeOK, WellFormed
<1>3. kind \in KindSet /\ kind.base # "record"
  BY <1>2, RailsTypeIsPlain
<1>4. a \in PutOff /\ a.expr = {NotNone} /\ a.table = t.table /\ a.field = t.member
  BY <1>2 DEF PutOff, Clauses
<1> HIDE DEF kind, a
<1>5. SchemaLinks' /\ TablesStand'
  BY <1>1, <1>2, <1>3, AddFieldGrows, GrowingKeepsTables
<1>6. ASSUME pending' = Append(pending, a), overruled' = overruled \cup {<<t.table, t.member>>}
      PROVE  PutsOff(a)
  BY <1>4, <1>6, FactsStay DEF PutsOff, LastWritten, For
<1> QED  BY <1>1, <1>4, <1>5, <1>6 DEF Handled

LEMMA AnnotationHandled ==
  ASSUME SchemaTypeOK, SchemaLinks, NEW t \in facts, t.table \in Declared, NEW note,
         t.p # "validates_constraint", SetTable(t.table, AddAnnotation(tables[t.table], note)),
         UNCHANGED <<facts, stubs, pending, overruled>>, Met' = Met
  PROVE  Handled(t)
<1> DEFINE c == AddAnnotation(tables[t.table], note)
<1>1. IsBuilder(c) /\ c.fields = tables[t.table].fields /\ c.indices = tables[t.table].indices
  BY AddAnnotationBuilds DEF SchemaTypeOK
<1> HIDE DEF c
<1>2. GrowsInto(t.table, tables[t.table], c)
  BY <1>1 DEF GrowsInto
<1>3. SchemaLinks' /\ TablesStand'
  BY <1>2, GrowingKeepsTables DEF c
<1> QED  BY <1>3 DEF Handled

LEMMA BelongsToHandled ==
  ASSUME SchemaTypeOK, SchemaLinks, NEW t \in facts, t.p = "declares_association", t.table \in Declared,
         BelongsTo(t), stubs' = stubs \cup StubTargets(t), UNCHANGED <<facts, pending, overruled>>,
         Met' = Met \cup {t}
  PROVE  Handled(t)
<1>1. SchemaLinks' /\ \E c : IsBuilder(c) /\ SetTable(t.table, c)
  BY BelongsToKeepsLinks
<1>2. stubs' \subseteq Identifiers
  BY TargetIsName DEF SchemaTypeOK, StubTargets
<1>3. TablesStand'
  BY <1>1, <1>2, TablesBuilt DEF TablesStand
<1> QED  BY <1>1, <1>3 DEF Handled

LEMMA ValidationIsClauses ==
  ASSUME NEW table, NEW field
  PROVE  Validation(table, field) \in SUBSET Clauses
<1>1. \A kind : KindClauses(kind) \subseteq Clauses
  <2>1. \A kind : KindClauses(kind) \in
          {{"type::is_number($value)"}, {"$value == true"}, {"$value == NONE"}, {NotNone}, {}}
    BY Zenon DEF KindClauses
  <2>2. \A s \in {{"type::is_number($value)"}, {"$value == true"}, {"$value == NONE"}, {NotNone}, {}} :
          s \subseteq Clauses
    BY Zenon DEF Clauses
  <2> QED  BY <2>1, <2>2, Zenon
<1>2. \A param : ParamClause(param) \subseteq Clauses
  <2> TAKE param
  <2>1. ParamClause(param) \in {{param.key}, {}}
    BY Zenon DEF ParamClause
  <2>2. ParamClause(param) # {} => param.key \in Clauses
    BY Zenon DEF ParamClause, Clauses
  <2> QED  BY <2>1, <2>2
<1>3. {NotNone} \subseteq Clauses
  BY DEF Clauses
<1>4. ASSUME NEW kinds, NEW params
      PROVE  ComposeValidationAssert(kinds, params) \in SUBSET Clauses
  <2> DEFINE clauses == UNION ({KindClauses(k) : k \in kinds} \cup {ParamClause(p) : p \in params})
  <2>1. clauses \subseteq Clauses
    BY <1>1, <1>2, Zenon
  <2>2. ComposeValidationAssert(kinds, params) = IF clauses = {} THEN {NotNone} ELSE clauses
    BY Zenon DEF ComposeValidationAssert
  <2> HIDE DEF clauses
  <2> QED  BY <1>3, <2>1, <2>2
<1> QED  BY <1>3, <1>4 DEF Validation

LEMMA ValidatesConstraintHandled ==
  ASSUME SchemaTypeOK, SchemaLinks, NEW t \in facts, t.table \in Declared, ValidatesConstraint(t),
         UNCHANGED facts, Met' = Met
  PROVE  Handled(t)
<1> DEFINE a == [table |-> t.table, field |-> t.member, expr |-> Validation(t.table, t.member)]
<1>1. /\ t.p = "validates_constraint" /\ pending' = Append(pending, a) /\ UNCHANGED <<tables, stubs>>
      /\ overruled' = overruled \ {<<t.table, t.member>>}
  BY DEF ValidatesConstraint
<1>2. t.member \in Identifiers
  BY <1>1, StreamIsWellFormed DEF SchemaTypeOK, WellFormed
<1>3. /\ a \in PutOff /\ a.table = t.table /\ a.field = t.member
      /\ a.expr = Validation(t.table, t.member)
  <2> DEFINE expr == Validation(t.table, t.member)
  <2>1. expr \in SUBSET Clauses
    BY ValidationIsClauses
  <2> HIDE DEF expr
  <2> QED  BY <1>2, <2>1 DEF PutOff, expr
<1>4. SchemaLinks' /\ TablesStand'
  BY <1>1, LinksStay
<1> HIDE DEF a
<1>5. PICK x \in PutOff : x = a
  BY <1>3
<1>6. PutsOff(x)
  <2>1. x.table = t.table /\ x.field = t.member /\ x.expr = Validation(t.table, t.member)
    BY <1>3, <1>5
  <2>2. x.expr = LastWritten(x.table, x.field)'
    BY <1>1, <2>1, FactsStay DEF LastWritten
  <2>3. \A table, field : For(x, table, field) \/ LastWritten(table, field)' = LastWritten(table, field)
    BY <1>1, <2>1, FactsStay DEF LastWritten, For
  <2> QED  BY <1>1, <1>5, <2>2, <2>3 DEF PutsOff
<1> QED  BY <1>1, <1>3, <1>4, <1>5, <1>6 DEF Handled, For

-----------------------------------------------------------------------------
LEMMA SchemaStart == SchemaInit => SchemaInv
<1> SUFFICES ASSUME SchemaInit PROVE SchemaInv
  OBVIOUS
<1>1. /\ facts \in Streams /\ left = {t \in facts : t.p \in SecondPass}
      /\ tables = [table \in Declared |-> NewBuilder]
      /\ stubs = {} /\ pending = <<>> /\ ended = FALSE /\ ~Done
  BY DEF SchemaInit, Done
<1>2. SchemaTypeOK
  <2>1. <<>> \in Seq(PutOff)
    OBVIOUS
  <2> QED  BY <1>1, <2>1, NewBuilderBuilds, Zenon DEF SchemaTypeOK
<1>3. \A t \in facts \ left : t.p \notin SecondPass
  BY <1>1
<1>4. Met = {}
  BY <1>3 DEF Met, SecondPass
<1>5. \A table \in Declared : DOMAIN tables[table].fields = {} /\ DOMAIN tables[table].indices = {}
  BY <1>1, NewBuilderBuilds
<1>6. LinksMade /\ MadeByAssociations /\ IndexesStand
  BY <1>1, <1>4, <1>5 DEF LinksMade, MadeByAssociations, IndexesStand
<1>7. ValidationsKept
  BY <1>1, <1>3 DEF ValidationsKept, SecondPass
<1>8. OutcomeStands
  BY <1>1 DEF OutcomeStands
<1> QED  BY <1>2, <1>6, <1>7, <1>8 DEF SchemaInv

(* Every triple of the second pass keeps what its handler may disturb.     *)
LEMMA TakeHandled ==
  ASSUME SchemaInv, NEW t \in facts, Take(t)
  PROVE  Handled(t)
<1>1. SchemaTypeOK /\ SchemaLinks /\ UNCHANGED facts /\ facts \ left' = (facts \ left) \cup {t}
  BY DEF SchemaInv, SchemaLinks, Take, SchemaTypeOK
<1>2. /\ Declared' = Declared
      /\ \A u : AssociationKind(u)' = AssociationKind(u)
  BY <1>1, FactsStay
<1>3. Met' = IF t.p = "declares_association" /\ t.table \in Declared /\ AssociationKind(t) = "belongs_to"
             THEN Met \cup {t} ELSE Met
  BY <1>1, <1>2 DEF Met
<1>4. CASE t.table \in Declared
  <2>1. CASE HasAttribute(t)
    <3>1. Met' = Met
      BY <1>3, <2>1 DEF HasAttribute
    <3> QED  BY <1>1, <1>4, <2>1, <3>1, HasAttributeHandled
  <2>2. CASE HasFieldTriple(t)
    <3>1. Met' = Met
      BY <1>3, <2>2 DEF HasFieldTriple
    <3> QED  BY <1>1, <1>4, <2>2, <3>1, HasFieldHandled
  <2>3. CASE DeclaresAssociation(t)
    <3>1. t.p = "declares_association" /\ UNCHANGED <<pending, overruled>>
      BY <2>3 DEF DeclaresAssociation
    <3>2. CASE AssociationKind(t) = "belongs_to"
      <4>1. BelongsTo(t) /\ stubs' = stubs \cup StubTargets(t) /\ Met' = Met \cup {t}
        BY <1>3, <1>4, <2>3, <3>1, <3>2, Zenon DEF DeclaresAssociation
      <4> QED  BY <1>1, <1>4, <3>1, <4>1, BelongsToHandled
    <3>3. CASE AssociationKind(t) # "belongs_to"
      <4>1. /\ SetTable(t.table, AddAnnotation(tables[t.table], <<AssociationKind(t), t.member, Target(t)>>))
            /\ UNCHANGED stubs /\ Met' = Met
        BY <1>3, <2>3, <3>3, Zenon DEF DeclaresAssociation
      <4> QED  BY <1>1, <1>4, <3>1, <4>1, AnnotationHandled
    <3> QED  BY <3>2, <3>3
  <2>4. CASE ValidatesConstraint(t)
    <3>1. Met' = Met
      BY <1>3, <2>4 DEF ValidatesConstraint
    <3> QED  BY <1>1, <1>4, <2>4, <3>1, ValidatesConstraintHandled
  <2>5. CASE Note(t)
    <3>1. t.p = "note" /\ Met' = Met
      BY <1>3, <2>5 DEF Note
    <3>2. /\ SetTable(t.table, AddAnnotation(tables[t.table], <<t.value, t.member, Nil>>))
          /\ UNCHANGED <<stubs, pending, overruled>>
      BY <2>5 DEF Note
    <3> QED  BY <1>1, <1>4, <3>1, <3>2, AnnotationHandled
  <2> QED  BY <1>4, <2>1, <2>2, <2>3, <2>4, <2>5 DEF Take, Undeclared
<1>5. CASE t.table \notin Declared
  <2>1. UNCHANGED <<tables, stubs, pending, overruled>> /\ Met' = Met
    BY <1>3, <1>5 DEF Take, Undeclared
  <2> QED  BY <1>1, <1>5, <2>1, LinksStay DEF Handled
<1> QED  BY <1>4, <1>5

(* An assert put off now is the last one of its field.                     *)
LEMMA PutOffNow ==
  ASSUME pending \in Seq(PutOff), NEW table, NEW field, NEW a \in PutOff, PutsOff(a),
         For(a, table, field)
  PROVE  PutOffLast(table, field)'
<1>1. pending' = Append(pending, a) /\ a.expr = LastWritten(a.table, a.field)'
  BY DEF PutsOff
<1>2. a.table = table /\ a.field = field
  BY DEF For
<1> DEFINE n == Len(pending) + 1
<1>3. n \in DOMAIN pending' /\ pending'[n] = a /\ \A l \in DOMAIN pending' : ~(l > n)
  BY <1>1
<1> HIDE DEF n
<1> QED  BY <1>1, <1>2, <1>3 DEF PutOffLast, For

(* One put off for another field leaves the last one of this.              *)
LEMMA PutOffElsewhere ==
  ASSUME pending \in Seq(PutOff), NEW table, NEW field, PutOffLast(table, field),
         NEW a \in PutOff, PutsOff(a), ~For(a, table, field)
  PROVE  PutOffLast(table, field)'
<1>1. pending' = Append(pending, a) /\ LastWritten(table, field)' = LastWritten(table, field)
  BY DEF PutsOff
<1>2. PICK k \in DOMAIN pending :
        /\ For(pending[k], table, field) /\ pending[k].expr = LastWritten(table, field)
        /\ \A l \in DOMAIN pending : l > k => ~For(pending[l], table, field)
  BY DEF PutOffLast
<1>3. /\ k \in DOMAIN pending' /\ pending'[k] = pending[k]
      /\ \A l \in DOMAIN pending' : pending'[l] = a \/ (l \in DOMAIN pending /\ pending'[l] = pending[l])
  BY <1>1
<1>4. \A l \in DOMAIN pending' : l > k => ~For(pending'[l], table, field)
  BY <1>2, <1>3
<1> QED  BY <1>1, <1>2, <1>3, <1>4 DEF PutOffLast, For

(* Meeting a triple, for the first time or again.                          *)
LEMMA TakeKeeps ==
  ASSUME SchemaInv, NEW t \in facts, Take(t)
  PROVE  SchemaInv'
<1>1. /\ SchemaTypeOK /\ SchemaLinks /\ ValidationsKept /\ OutcomeStands
      /\ UNCHANGED <<facts, ended, schema>> /\ ~ended
      /\ left' \subseteq facts /\ facts \ left' = (facts \ left) \cup {t}
  BY DEF SchemaInv, SchemaLinks, Take, SchemaTypeOK
<1>2. SchemaLinks' /\ TablesStand' /\ Declared' = Declared /\ PutOff' = PutOff
  BY <1>1, TakeHandled, FactsStay DEF Handled, PutOff
<1>3. pending \in Seq(PutOff)
  BY <1>1 DEF SchemaTypeOK
<1>4. pending' \in Seq(PutOff)
  BY <1>3, TakeHandled DEF Handled, PutsOff
<1>5. SchemaTypeOK'
  BY <1>1, <1>2, <1>4 DEF SchemaTypeOK, TablesStand
<1>6. ASSUME NEW u \in facts \ left', u.p = "validates_constraint", u.table \in Declared
      PROVE  PutOffLast(u.table, u.member)'
  <2>1. CASE \E a \in PutOff : PutsOff(a) /\ For(a, u.table, u.member)
    BY <1>3, <2>1, PutOffNow
  <2>2. CASE ~\E a \in PutOff : PutsOff(a) /\ For(a, u.table, u.member)
    <3>1. u \in facts \ left
      BY <1>1, <1>6, <2>2, TakeHandled DEF Handled
    <3>2. PutOffLast(u.table, u.member)
      BY <1>1, <1>6, <3>1 DEF ValidationsKept, Asserted
    <3>3. CASE UNCHANGED <<pending, overruled>>
      BY <1>1, <3>2, <3>3, LastWrittenStays DEF PutOffLast
    <3>4. CASE \E a \in PutOff : PutsOff(a)
      BY <1>3, <2>2, <3>2, <3>4, PutOffElsewhere
    <3> QED  BY <3>3, <3>4, TakeHandled DEF Handled
  <2> QED  BY <2>1, <2>2
<1>7. ValidationsKept'
  BY <1>1, <1>2, <1>6 DEF ValidationsKept
<1>8. OutcomeStands'
  BY <1>1 DEF OutcomeStands, Done
<1> QED  BY <1>2, <1>5, <1>7, <1>8 DEF SchemaInv, SchemaLinks

-----------------------------------------------------------------------------
(* What was put off.                                                       *)
LEMMA LeftStays ==
  ASSUME SchemaInv, UNCHANGED <<facts, left>>
  PROVE  Met' = Met /\ Declared' = Declared /\ PutOff' = PutOff
<1>1. Declared' = Declared /\ \A u : AssociationKind(u)' = AssociationKind(u)
  BY FactsStay
<1> QED  BY <1>1 DEF Met, PutOff

(* Validations are kept while nothing is put off and no assert changes.    *)
LEMMA ValidationsStay ==
  ASSUME ValidationsKept, UNCHANGED <<facts, left, pending, overruled>>, ended => ended',
         \A table \in Declared : tables'[table].fields = tables[table].fields
  PROVE  ValidationsKept'
<1>1. /\ Declared' = Declared
      /\ \A table, field : LastWritten(table, field)' = LastWritten(table, field)
  BY FactsStay, LastWrittenStays
<1>2. ASSUME NEW table \in Declared, NEW field
      PROVE  /\ PutOffLast(table, field) => PutOffLast(table, field)'
             /\ Asserted(table, field) => Asserted(table, field)'
  BY <1>1 DEF PutOffLast, Asserted, HasField
<1> QED  BY <1>1, <1>2 DEF ValidationsKept

(* At the end of the stream every association and validation was met.      *)
LEMMA EndStreamKeeps ==
  ASSUME SchemaInv, EndStream
  PROVE  SchemaInv'
<1>1. /\ ended' = TRUE /\ ~ended /\ left = {}
      /\ UNCHANGED <<facts, left, tables, stubs, pending, overruled, schema>>
  BY DEF EndStream
<1>2. Met' = Met /\ Declared' = Declared /\ PutOff' = PutOff
  BY <1>1, LeftStays
<1>3. SchemaTypeOK /\ SchemaLinks
  BY DEF SchemaInv, SchemaLinks
<1>4. SchemaTypeOK'
  BY <1>1, <1>2 DEF SchemaInv, SchemaTypeOK
<1>5. SchemaLinks'
  BY <1>1, <1>2, <1>3, LinksStay
<1>6. ValidationsKept'
  BY <1>1, <1>2, ValidationsStay DEF SchemaInv
<1>7. OutcomeStands'
  BY <1>1 DEF SchemaInv, OutcomeStands, Done
<1> QED  BY <1>4, <1>5, <1>6, <1>7 DEF SchemaInv, SchemaLinks

(* An assert put off stays for its field once it is applied, unless        *)
(* there is no such field.                                                 *)
LEMMA ApplyAssertKeeps ==
  ASSUME SchemaInv, ApplyAssert
  PROVE  SchemaInv'
<1> DEFINE a == Head(pending)
           c == AddFieldAssert(tables[a.table], a.field, a.expr)
<1>1. /\ ended /\ pending # <<>> /\ SetTable(a.table, c) /\ pending' = Tail(pending)
      /\ UNCHANGED <<facts, left, stubs, overruled, ended, schema>>
  BY DEF ApplyAssert
<1>2. SchemaTypeOK /\ SchemaLinks /\ ValidationsKept /\ ~Done /\ pending \in Seq(PutOff)
  BY <1>1 DEF SchemaInv, SchemaLinks, OutcomeStands, SchemaTypeOK
<1>3. Met' = Met /\ Declared' = Declared /\ PutOff' = PutOff
  BY <1>1, LeftStays
<1>4. a = pending[1] /\ a \in PutOff /\ 1 \in DOMAIN pending
  BY <1>1, <1>2
<1>5. a.table \in Declared /\ a.expr \in SUBSET Clauses
  BY <1>4 DEF PutOff
<1> DEFINE b == tables[a.table]
<1>6. /\ IsBuilder(c) /\ c.indices = b.indices /\ DOMAIN c.fields = DOMAIN b.fields
      /\ \A f \in DOMAIN b.fields : c.fields[f].kind = b.fields[f].kind
      /\ \A f \in DOMAIN b.fields \ {a.field} : c.fields[f] = b.fields[f]
      /\ a.field \in DOMAIN b.fields => c.fields[a.field].assert = a.expr
  <2>1. IsBuilder(b)
    BY <1>2, <1>5 DEF SchemaTypeOK
  <2> HIDE DEF a, b
  <2> QED  BY <1>5, <2>1, AddFieldAssertBuilds DEF b
<1> HIDE DEF a, c
<1>7. GrowsInto(a.table, b, c)
  BY <1>6 DEF GrowsInto
<1>8. SchemaLinks' /\ TablesStand'
  BY <1>1, <1>2, <1>3, <1>5, <1>7, GrowingKeepsTables
<1>9. /\ pending' \in Seq(PutOff) /\ DOMAIN pending \subseteq Int
      /\ \A k \in DOMAIN pending \ {1} : k - 1 \in DOMAIN pending' /\ pending'[k - 1] = pending[k]
      /\ \A k \in DOMAIN pending' : k \in Int /\ k + 1 \in DOMAIN pending \ {1} /\ pending'[k] = pending[k + 1]
      /\ \A k \in DOMAIN pending : k # 1 => k > 1
  BY <1>1, <1>2
<1>10. SchemaTypeOK'
  BY <1>1, <1>2, <1>3, <1>8, <1>9 DEF SchemaTypeOK, TablesStand
<1>11. /\ tables'[a.table] = c
       /\ \A x \in Declared \ {a.table} : tables'[x] = tables[x]
  BY <1>1, <1>2, <1>5, <1>6, TablesBuilt
<1>12. \A table, field : LastWritten(table, field)' = LastWritten(table, field)
  BY <1>1, LastWrittenStays
<1>13. ASSUME NEW table \in Declared, NEW field
       PROVE  PutOffLast(table, field) \/ Asserted(table, field) =>
                PutOffLast(table, field)' \/ Asserted(table, field)'
  <2>1. CASE Asserted(table, field)
    <3>1. ~For(a, table, field) /\ \A k \in DOMAIN pending' : ~For(pending'[k], table, field)
      BY <1>4, <1>9, <2>1 DEF Asserted, For
    <3>2. \/ tables'[table].fields = tables[table].fields
          \/ table = a.table /\ field # a.field
      BY <1>11, <3>1 DEF For
    <3>3. HasField(tables'[table], field) =>
            HasField(tables[table], field) /\ tables'[table].fields[field] = tables[table].fields[field]
      BY <1>6, <1>11, <3>2 DEF HasField
    <3> QED  BY <1>1, <1>12, <2>1, <3>1, <3>3 DEF Asserted, For
  <2>2. CASE PutOffLast(table, field)
    <3>1. PICK k \in DOMAIN pending :
            /\ For(pending[k], table, field) /\ pending[k].expr = LastWritten(table, field)
            /\ \A l \in DOMAIN pending : l > k => ~For(pending[l], table, field)
      BY <2>2 DEF PutOffLast
    \* The last one is among those that are left, or is applied now.
    <3>2. CASE k # 1
      <4>1. k - 1 \in DOMAIN pending' /\ pending'[k - 1] = pending[k]
        BY <1>9, <3>2
      <4>2. \A l \in DOMAIN pending' : l > k - 1 => ~For(pending'[l], table, field)
        <5> TAKE l \in DOMAIN pending'
        <5>1. l \in Int /\ k \in Int /\ l + 1 \in DOMAIN pending /\ pending'[l] = pending[l + 1]
          BY <1>9
        <5>2. l > k - 1 => l + 1 > k
          BY <5>1
        <5>3. l + 1 > k => ~For(pending[l + 1], table, field)
          BY <3>1, <5>1
        <5> QED  BY <5>1, <5>2, <5>3 DEF For
      <4> QED  BY <1>12, <3>1, <4>1, <4>2 DEF PutOffLast, For
    <3>3. CASE k = 1
      <4>1. a.table = table /\ a.field = field /\ a.expr = LastWritten(table, field)
        BY <1>4, <3>1, <3>3 DEF For
      <4>2. \A l \in DOMAIN pending' : ~For(pending'[l], table, field)
        <5> TAKE l \in DOMAIN pending'
        <5>1. l + 1 \in DOMAIN pending /\ l + 1 > 1 /\ pending'[l] = pending[l + 1]
          BY <1>9
        <5> QED  BY <3>1, <3>3, <5>1 DEF For
      <4>3. HasField(tables'[table], field) =>
              tables'[table].fields[field].assert = LastWritten(table, field)
        BY <1>6, <1>11, <4>1 DEF HasField
      <4> QED  BY <1>1, <1>12, <4>2, <4>3 DEF Asserted, For
    <3> QED  BY <3>2, <3>3
  <2> QED  BY <2>1, <2>2
<1>15. ValidationsKept'
  BY <1>1, <1>2, <1>3, <1>13 DEF ValidationsKept
<1>14. OutcomeStands'
  BY <1>1, <1>2 DEF OutcomeStands, Done
<1> QED  BY <1>8, <1>10, <1>14, <1>15 DEF SchemaInv, SchemaLinks

(* A unique index is no companion of a link, and its first column is       *)
(* there.                                                                  *)
LEMMA IndexUniqueKeeps ==
  ASSUME SchemaInv, NEW table \in Declared, IndexUnique(table)
  PROVE  SchemaInv'
<1>1. PICK field \in Unindexed(table) :
        SetTable(table, AddUniqueIndex(tables[table], IndexColumns(table, field)))
  BY DEF IndexUnique
<1>2. /\ ended /\ pending = <<>> /\ ~Done
      /\ UNCHANGED <<facts, left, stubs, pending, overruled, ended, schema>>
  BY DEF IndexUnique, Done
<1>3. SchemaTypeOK /\ SchemaLinks /\ ValidationsKept
  BY DEF SchemaInv, SchemaLinks
<1>4. Met' = Met /\ Declared' = Declared /\ PutOff' = PutOff
  BY <1>2, LeftStays
<1> DEFINE b == tables[table]
           columns == IndexColumns(table, field)
           i == Index(columns, TRUE)
           c == [b EXCEPT !.indices = Append(@, i)]
<1>5. field \in Identifiers /\ HasField(b, field) /\ ~HasUniqueIndex(b, columns)
  <2>1. field \in UniqueColumns(table) /\ ~HasUniqueIndex(b, columns)
    BY DEF Unindexed
  <2>2. \A u \in facts : u.p = "validation_kind" => u.member \in Identifiers
    BY <1>3, StreamIsWellFormed DEF WellFormed, SchemaTypeOK
  <2> QED  BY <2>1, <2>2 DEF UniqueColumns
<1>6. columns \in Seq(Identifiers) /\ columns[1] = field
  <2>1. \A p \in Values("validation_param", table, field) : p.columns \in Seq(Identifiers)
    BY <1>3, StreamIsWellFormed DEF Values, WellFormed, SchemaTypeOK
  <2>2. UniquenessScope(table, field) \in Seq(Identifiers)
    <3> DEFINE scopes == ScopeParams(table, field)
    <3>1. CASE scopes = {}
      <4>1. UniquenessScope(table, field) = <<>>
        BY <3>1, Zenon DEF UniquenessScope
      <4> QED  BY <4>1
    <3>2. CASE scopes # {}
      <4>1. (CHOOSE p \in scopes : TRUE) \in scopes
        BY <3>2, Zenon
      <4>2. UniquenessScope(table, field) = (CHOOSE p \in scopes : TRUE).columns
        BY <3>2, Zenon DEF UniquenessScope
      <4> HIDE DEF scopes
      <4>3. scopes \subseteq Values("validation_param", table, field)
        BY DEF scopes, ScopeParams
      <4> QED  BY <2>1, <4>1, <4>2, <4>3
    <3> QED  BY <3>1, <3>2
  <2> QED  BY <1>5, <2>2 DEF IndexColumns
<1>7. i \in IndexSet /\ i.unique /\ i.columns = columns /\ i.columns[1] = field
  <2> HIDE DEF columns
  <2> QED  BY <1>6 DEF Index, IndexSet
<1>8. SetTable(table, c)
  BY <1>1, <1>5, Zenon DEF AddUniqueIndex
<1>9. IsBuilder(c) /\ c.fields = b.fields /\ c.indices = Append(b.indices, i)
  <2>1. IsBuilder(b)
    BY <1>3 DEF SchemaTypeOK
  <2> HIDE DEF b, i
  <2> QED  BY <1>7, <2>1, AddIndexBuilds
<1> HIDE DEF i, c
<1>10. GrowsInto(table, b, c)
  BY <1>5, <1>7, <1>9 DEF GrowsInto, OnItsColumns
<1>11. SchemaLinks' /\ TablesStand'
  BY <1>2, <1>3, <1>4, <1>8, <1>10, GrowingKeepsTables
<1>12. SchemaTypeOK'
  BY <1>2, <1>3, <1>4, <1>11 DEF SchemaTypeOK, TablesStand
<1>13. \A x \in Declared : tables'[x].fields = tables[x].fields
  BY <1>2, <1>3, <1>8, <1>9, TablesBuilt
<1>14. ValidationsKept'
  BY <1>2, <1>3, <1>13, ValidationsStay
<1>15. OutcomeStands'
  BY <1>2 DEF OutcomeStands, Done
<1> QED  BY <1>11, <1>12, <1>14, <1>15 DEF SchemaInv, SchemaLinks

(* The outcome is the tables as they are.                                  *)
LEMMA FinishKeeps ==
  ASSUME SchemaInv, Finish
  PROVE  SchemaInv'
<1>1. /\ UNCHANGED <<facts, left, tables, stubs, pending, overruled, ended>> /\ ended /\ pending = <<>>
      /\ schema' = [table \in Declared \cup stubs |->
                      IF table \in Declared THEN tables[table] ELSE Stub]
  BY DEF Finish
<1>2. Met' = Met /\ Declared' = Declared /\ PutOff' = PutOff /\ Stub' = Stub
  BY <1>1, LeftStays DEF Stub
<1>3. SchemaTypeOK /\ SchemaLinks
  BY DEF SchemaInv, SchemaLinks
<1>4. SchemaTypeOK'
  BY <1>1, <1>2 DEF SchemaInv, SchemaTypeOK
<1>5. SchemaLinks'
  BY <1>1, <1>2, <1>3, LinksStay
<1>6. ValidationsKept'
  BY <1>1, <1>2, ValidationsStay DEF SchemaInv
<1>7. OutcomeStands'
  BY <1>1, <1>2 DEF OutcomeStands
<1> QED  BY <1>4, <1>5, <1>6, <1>7 DEF SchemaInv, SchemaLinks

LEMMA SchemaStutters ==
  ASSUME SchemaInv, UNCHANGED schemaVars
  PROVE  SchemaInv'
<1>1. UNCHANGED <<facts, left, tables, stubs, pending, overruled, ended, schema>>
  BY DEF schemaVars
<1>2. Met' = Met /\ Declared' = Declared /\ PutOff' = PutOff /\ Stub' = Stub
  BY <1>1, LeftStays DEF Stub
<1>3. SchemaTypeOK /\ SchemaLinks
  BY DEF SchemaInv, SchemaLinks
<1>4. SchemaTypeOK'
  BY <1>1, <1>2 DEF SchemaInv, SchemaTypeOK
<1>5. SchemaLinks'
  BY <1>1, <1>2, <1>3, LinksStay
<1>6. ValidationsKept'
  BY <1>1, <1>2, ValidationsStay DEF SchemaInv
<1>7. OutcomeStands'
  BY <1>1, <1>2 DEF SchemaInv, OutcomeStands, Done
<1> QED  BY <1>4, <1>5, <1>6, <1>7 DEF SchemaInv, SchemaLinks

(* The inductive invariant of the second pass and of what it puts off.     *)
THEOREM SchemaInvariance == SchemaSpec => []SchemaInv
<1>1. SchemaInv /\ [SchemaNext]_schemaVars => SchemaInv'
  <2> SUFFICES ASSUME SchemaInv, [SchemaNext]_schemaVars PROVE SchemaInv'
    OBVIOUS
  <2>1. CASE \E t \in facts : Take(t)
    BY <2>1, TakeKeeps
  <2>2. CASE EndStream
    BY <2>2, EndStreamKeeps
  <2>3. CASE ApplyAssert
    BY <2>3, ApplyAssertKeeps
  <2>4. CASE \E table \in Declared : IndexUnique(table)
    BY <2>4, IndexUniqueKeeps
  <2>5. CASE Finish
    BY <2>5, FinishKeeps
  <2>6. CASE UNCHANGED schemaVars
    BY <2>6, SchemaStutters
  <2> QED  BY <2>1, <2>2, <2>3, <2>4, <2>5, <2>6 DEF SchemaNext
<1> QED  BY <1>1, SchemaStart, PTL DEF SchemaSpec

(* The tables being built are well formed, whatever comes in whatever      *)
(* order and however often.                                                *)
THEOREM SchemaTypeCorrect == SchemaSpec => []SchemaTypeOK
<1>1. SchemaInv => SchemaTypeOK
  BY DEF SchemaInv
<1> QED  BY <1>1, SchemaInvariance, PTL

LEMMA OutcomeIsTables ==
  ASSUME SchemaInv, Done
  PROVE  /\ DOMAIN schema = Declared \cup stubs
         /\ \A table \in Declared : schema[table] = tables[table]
         /\ \A stub \in stubs : schema[stub] = Stub /\ stub \notin Declared
         /\ BelongsTos = Met /\ left = {} /\ pending = <<>>
<1>1. /\ schema = [table \in Declared \cup stubs |->
                     IF table \in Declared THEN tables[table] ELSE Stub]
      /\ ended /\ pending = <<>> /\ left = {}
  BY DEF SchemaInv, OutcomeStands, SchemaTypeOK
<1>2. \A stub \in stubs : stub \notin Declared
  BY DEF SchemaInv, MadeByAssociations
<1>3. BelongsTos = Met
  BY <1>1 DEF BelongsTos, Met
<1> QED  BY <1>1, <1>2, <1>3

(* "the record links never dangle": a link leads to a table of the schema, *)
(* a stub was made for a link, and an index has its columns: the one it is *)
(* made for is there, any other is named by the scope of its validation.   *)
THEOREM LinksNeverDangle == SchemaSpec => []NothingDangles
<1>1. ASSUME SchemaInv PROVE NothingDangles
  <2> SUFFICES ASSUME Done
               PROVE  /\ \A table \in DOMAIN schema :
                           /\ Links(table) \subseteq DOMAIN schema
                           /\ \A k \in DOMAIN schema[table].indices :
                                OnItsColumns(table, schema[table], schema[table].indices[k])
                      /\ \A stub \in DOMAIN schema \ Declared :
                           \E table \in Declared : stub \in Links(table)
    BY DEF NothingDangles
  <2>1. /\ DOMAIN schema = Declared \cup stubs /\ facts \in Streams
        /\ \A table \in Declared : schema[table] = tables[table]
        /\ \A stub \in stubs : schema[stub] = Stub /\ stub \notin Declared
    BY <1>1, OutcomeIsTables DEF SchemaInv, SchemaTypeOK
  <2>2. LinksMade /\ MadeByAssociations /\ IndexesStand
    BY <1>1 DEF SchemaInv
  <2>3. \A t \in Met : t \in facts /\ t.p = "declares_association" /\ t.table \in Declared
    BY DEF Met
  <2>4. ASSUME NEW table \in Declared
        PROVE  /\ Links(table) \subseteq Declared \cup stubs
               /\ \A k \in DOMAIN tables[table].indices :
                    OnItsColumns(table, tables[table], tables[table].indices[k])
    <3>1. ASSUME NEW f \in DOMAIN tables[table].fields, tables[table].fields[f].kind.base = "record"
          PROVE  tables[table].fields[f].kind.target \in Declared \cup stubs
      <4>1. PICK t \in Met : t.table = table /\ Column(t) = f
        BY <2>2, <3>1 DEF MadeByAssociations
      <4>2. tables[table].fields[f].kind = ForeignKeyKind(t) /\ StubTargets(t) \subseteq stubs
        BY <2>2, <4>1 DEF LinksMade
      <4>3. tables[table].fields[f].kind.target = Target(t) /\ Target(t) \in KnownTargets
        BY <2>1, <2>3, <3>1, <4>2, ForeignKeyKindIsKind
      <4> QED  BY <4>2, <4>3 DEF StubTargets
    <3>2. Links(table) \subseteq Declared \cup stubs
      BY <2>1, <3>1 DEF Links
    <3> QED  BY <2>2, <3>2, IndexesOnTheirColumns
  <2>5. ASSUME NEW stub \in stubs
        PROVE  /\ Links(stub) = {} /\ DOMAIN schema[stub].indices = {}
               /\ \E table \in Declared : stub \in Links(table)
    <3>1. Stub.fields = NewBuilder.fields /\ Stub.indices = NewBuilder.indices
      BY NewBuilderBuilds, AddAnnotationBuilds DEF Stub
    <3>2. Links(stub) = {} /\ DOMAIN schema[stub].indices = {}
      BY <2>1, <3>1, NewBuilderBuilds DEF Links
    <3>3. PICK t \in Met : Target(t) = stub
      BY <2>2 DEF MadeByAssociations
    <3>4. /\ Column(t) \in DOMAIN tables[t.table].fields
          /\ tables[t.table].fields[Column(t)].kind = ForeignKeyKind(t)
      BY <2>2, <3>3 DEF LinksMade, HasField
    <3>5. stub \in KnownTargets
      BY <2>2 DEF MadeByAssociations
    <3>6. ForeignKeyKind(t).base = "record" /\ ForeignKeyKind(t).target = stub
      BY <2>1, <2>3, <3>3, <3>5, ForeignKeyKindIsKind
    <3>7. stub \in Links(t.table) /\ t.table \in Declared
      BY <2>1, <2>3, <3>4, <3>6 DEF Links
    <3> QED  BY <3>2, <3>7
  <2> QED  BY <2>1, <2>4, <2>5
<1> QED  BY <1>1, SchemaInvariance, PTL

(* "AR shape owns the kind", "Companion index once per field": the kind of *)
(* a foreign key is what its association asks for, in whatever order the   *)
(* facts about it came.                                                    *)
THEOREM AssociationsOwnColumns == SchemaSpec => []AssociationOwnsColumn
<1>1. ASSUME SchemaInv PROVE AssociationOwnsColumn
  <2> SUFFICES ASSUME Done, NEW t \in BelongsTos
               PROVE  LET field == ForeignKey[t.member]
                          mine == {k \in DOMAIN schema[t.table].indices :
                                     schema[t.table].indices[k] = Index(<<field>>, FALSE)}
                      IN  /\ schema[t.table].fields[field].kind = ForeignKeyKind(t)
                          /\ Cardinality(mine) <= 1
                          /\ ForeignKeyKind(t).base = "record" => mine # {}
    BY DEF AssociationOwnsColumn
  <2> DEFINE field == ForeignKey[t.member]
             i == Index(<<field>>, FALSE)
             mine == {k \in DOMAIN schema[t.table].indices : schema[t.table].indices[k] = i}
  <2>1. t \in Met /\ t.table \in Declared /\ schema[t.table] = tables[t.table]
    BY <1>1, OutcomeIsTables DEF Met
  <2>2. /\ schema[t.table].fields[field].kind = ForeignKeyKind(t)
        /\ ForeignKeyKind(t).base = "record" => mine # {}
    BY <1>1, <2>1 DEF SchemaInv, LinksMade, Column
  <2>3. ~i.unique
    BY DEF Index
  <2>4. \A j, k \in mine : j = k
    <3>1. \A j, k \in DOMAIN tables[t.table].indices :
            tables[t.table].indices[j] = tables[t.table].indices[k]
              /\ ~tables[t.table].indices[k].unique => j = k
      BY <1>1, <2>1 DEF SchemaInv, IndexesStand
    <3> HIDE DEF i
    <3> QED  BY <2>1, <2>3, <3>1
  <2> HIDE DEF mine
  <2>5. Cardinality(mine) <= 1
    <3>1. CASE mine = {}
      BY <3>1, FS_EmptySet
    <3>2. CASE mine # {}
      <4>1. PICK k \in mine : mine = {k}
        BY <2>4, <3>2
      <4> QED  BY <4>1, FS_Singleton
    <3> QED  BY <3>1, <3>2
  <2> QED  BY <2>2, <2>5 DEF mine
<1> QED  BY <1>1, SchemaInvariance, PTL

(* "Last-writer-wins": a validation that came before its column, or after  *)
(* it, is asserted in full, unless the column was found to be NOT NULL and *)
(* of a type nobody knows after it, when only that is asserted.            *)
THEOREM ValidationsAreAsserted == SchemaSpec => []ValidatedIsAsserted
<1>1. ASSUME SchemaInv PROVE ValidatedIsAsserted
  <2> SUFFICES ASSUME Done, NEW t \in Validations
               PROVE  AssertOf(t) = LastWritten(t.table, t.member)
    BY DEF ValidatedIsAsserted
  <2>1. /\ t \in facts /\ t.p = "validates_constraint" /\ t.table \in Declared
        /\ HasField(schema[t.table], t.member)
    BY DEF Validations
  <2>2. schema[t.table] = tables[t.table] /\ left = {} /\ pending = <<>>
    BY <1>1, <2>1, OutcomeIsTables
  <2>3. PutOffLast(t.table, t.member) \/ Asserted(t.table, t.member)
    BY <1>1, <2>1, <2>2 DEF SchemaInv, ValidationsKept
  <2>4. ~PutOffLast(t.table, t.member)
    BY <2>2 DEF PutOffLast
  <2> QED  BY <2>1, <2>2, <2>3, <2>4 DEF Asserted, AssertOf
<1> QED  BY <1>1, SchemaInvariance, PTL

(***************************************************************************)
(* Queries.  The filters of a query are those a builder or a preset makes, *)
(* so a condition and its opposites are tests of the same values; and an   *)
(* order without ties has one ordering, of which the pages are the parts.  *)
(***************************************************************************)
(* What a query is built from, and what a row holds in a column.           *)
PresetFilters == {ByMe("assigned_to_id"), ByMe("author_id"), ByMe("watcher_id"), Open, Overdue}

QueriesTypeOK ==
  /\ rows \in [Ids -> Rows \cup {NoRow}] /\ me \in Callers
  /\ filters \in Seq(Conditions \cup PresetFilters) /\ sorts \in Seq(Criterion)
  /\ pc \in {"build", "count", "select", "done", "failed"}
  /\ page \in Nat \ {0} /\ total \in Nat /\ seen \in Seq(Ids) /\ changes \in Nat

LEMMA FiltersAreFilters ==
  ASSUME NEW f \in Conditions \cup PresetFilters
  PROVE  IsFilter(f)
<1>1. CASE f \in Conditions
  BY <1>1, QueriesAssumption
<1>2. CASE f \in PresetFilters
  <2>1. PICK a, op, kind :
          /\ a \in Columns \cup Unfiltered /\ op \in {"CurrentUser", "IsNotNull", "LessThanDaysAgo"}
          /\ kind \in {"Me", "None"} /\ f = Filter(a, op, 0, Value(kind, <<>>))
    BY <1>2 DEF PresetFilters, ByMe, Open, Overdue, NoValue, Columns, Unfiltered
  <2> QED  BY <2>1 DEF IsFilter, Filter, IsValue, Value
<1> QED  BY <1>1, <1>2

LEMMA ShortSeqs ==
  ASSUME NEW S
  PROVE  /\ <<>> \in Seq(S) /\ \A x \in S : <<x>> \in Seq(S)
         /\ \A x, y \in S : <<x, y>> \in Seq(S)
OBVIOUS

LEMMA PresetsAreQueries ==
  ASSUME NEW name \in PresetsUsed
  PROVE  Preset(name).filters \in Seq(PresetFilters) /\ Preset(name).sorts \in Seq(Criterion)
<1>1. name \in {"my_work_packages", "created_by_me", "watched_by_me", "all_open",
                "recently_updated", "basic_board", "gantt_chart", "overdue"}
  BY QueriesAssumption
<1>2. /\ Preset(name).filters \in
           {<<>>, <<Open>>, <<ByMe("author_id")>>, <<ByMe("watcher_id")>>,
            <<ByMe("assigned_to_id"), Open>>, <<Overdue, Open>>}
      /\ Preset(name).sorts \in
           {<<Desc("updated_at")>>, <<Desc("id")>>, <<Asc("start_date"), Asc("due_date")>>,
            <<Asc("due_date")>>}
  BY <1>1 DEF Preset, DefaultSort
<1>3. \A c \in {"id", "updated_at", "start_date", "due_date"} :
        Asc(c) \in Criterion /\ Desc(c) \in Criterion
  BY DEF Criterion, Asc, Desc
<1>4. Preset(name).sorts \in Seq(Criterion)
  BY <1>2, <1>3, ShortSeqs
<1>5. Preset(name).filters \in Seq(PresetFilters)
  <2>1. {ByMe("assigned_to_id"), ByMe("author_id"), ByMe("watcher_id"), Open, Overdue} = PresetFilters
    BY Zenon DEF PresetFilters
  <2> QED  BY <1>2, <2>1, ShortSeqs
<1> QED  BY <1>4, <1>5

LEMMA MatchingFinite ==
  ASSUME QueriesTypeOK
  PROVE  /\ Matching \subseteq Ids /\ IsFiniteSet(Matching)
         /\ Cardinality(Matching) \in Nat
<1>1. Matching \subseteq Ids
  BY DEF Matching, Stored
<1> QED  BY <1>1, QueriesAssumption, FS_Subset, FS_CardinalityType

LEMMA OrderingIsSeq ==
  ASSUME NEW S, IsFiniteSet(S), NEW s \in Orderings(S)
  PROVE  /\ s \in Seq(S) /\ Len(s) = Cardinality(S) /\ Cardinality(S) \in Nat
         /\ s \in [1 .. Cardinality(S) -> S]
         /\ \A a, b \in 1 .. Cardinality(S) : a < b => s[a] # s[b] /\ ~Before(s[b], s[a])
BY FS_CardinalityType DEF Orderings

\* The rows that a page takes from an ordering.
PageOf(s) ==
  SubSeq(s, Offset + 1, IF Offset + PageSize < Len(s) THEN Offset + PageSize ELSE Len(s))

LEMMA OffsetIsNat ==
  ASSUME QueriesTypeOK
  PROVE  Offset \in Nat /\ PageSize \in Nat \ {0} /\ page * PageSize = Offset + PageSize
<1>1. page \in Nat \ {0} /\ PageSize \in Nat \ {0} /\ page - 1 \in Nat
  BY QueriesAssumption DEF QueriesTypeOK
<1> QED  BY <1>1 DEF Offset

LEMMA PageIsSeq ==
  ASSUME QueriesTypeOK, NEW S, NEW s \in Seq(S)
  PROVE  /\ PageOf(s) \in Seq(S)
         /\ Offset <= Len(s) =>
              /\ Len(PageOf(s)) = (IF Offset + PageSize < Len(s) THEN PageSize ELSE Len(s) - Offset)
              /\ \A k \in 1 .. Len(PageOf(s)) : PageOf(s)[k] = s[Offset + k]
<1>1. Offset \in Nat /\ PageSize \in Nat \ {0}
  BY OffsetIsNat
<1> DEFINE last == IF Offset + PageSize < Len(s) THEN Offset + PageSize ELSE Len(s)
<1>2. last \in Nat /\ last <= Len(s) /\ PageOf(s) = SubSeq(s, Offset + 1, last)
  BY <1>1 DEF PageOf
<1> HIDE DEF last
<1>3. PageOf(s) \in Seq(S)
  BY <1>1, <1>2
<1>4. ASSUME Offset <= Len(s)
      PROVE  Offset <= last /\ last - Offset = (IF Offset + PageSize < Len(s) THEN PageSize ELSE Len(s) - Offset)
  BY <1>1, <1>4 DEF last
<1>5. ASSUME Offset <= last
      PROVE  /\ Len(PageOf(s)) = last - Offset
             /\ \A k \in 1 .. Len(PageOf(s)) : PageOf(s)[k] = s[Offset + k]
  BY <1>1, <1>2, <1>5
<1> QED  BY <1>3, <1>4, <1>5

LEMMA QueriesStart == QueriesInit => QueriesTypeOK
<1> SUFFICES ASSUME QueriesInit PROVE QueriesTypeOK
  OBVIOUS
<1>1. DefaultSort \in Seq(Criterion)
  BY ShortSeqs DEF DefaultSort, Desc, Criterion
<1> QED  BY <1>1 DEF QueriesInit, QueriesTypeOK

LEMMA SelectTyped ==
  ASSUME QueriesTypeOK, Select
  PROVE  QueriesTypeOK'
<1>1. PICK s \in Orderings(Matching) : seen' = seen \o PageOf(s)
  BY DEF Select, PageOf
<1>2. s \in Seq(Ids)
  BY MatchingFinite, OrderingIsSeq
<1>3. PageOf(s) \in Seq(Ids)
  BY <1>2, PageIsSeq
<1>4. seen' \in Seq(Ids)
  BY <1>1, <1>3 DEF QueriesTypeOK
<1> QED  BY <1>4 DEF QueriesTypeOK, Select

LEMMA QueriesTyped ==
  ASSUME QueriesTypeOK, [QueriesNext]_queriesVars
  PROVE  QueriesTypeOK'
<1>1. ASSUME NEW f \in Conditions, AddFilter(f) PROVE QueriesTypeOK'
  <2>1. filters' \in Seq(Conditions \cup PresetFilters)
    BY <1>1 DEF AddFilter, QueriesTypeOK
  <2> QED  BY <1>1, <2>1 DEF AddFilter, reading, QueriesTypeOK
<1>2. ASSUME NEW c \in Criteria, SortBy(c) \/ ThenBy(c) PROVE QueriesTypeOK'
  <2>1. c \in Criterion
    BY QueriesAssumption
  <2>2. sorts' \in Seq(Criterion)
    <3>1. CASE SortBy(c)
      BY <2>1, <3>1, ShortSeqs DEF SortBy
    <3>2. CASE ThenBy(c)
      BY <2>1, <3>2 DEF ThenBy, QueriesTypeOK
    <3> QED  BY <1>2, <3>1, <3>2
  <2> QED  BY <1>2, <2>2 DEF SortBy, ThenBy, reading, QueriesTypeOK
<1>3. ASSUME NEW name \in PresetsUsed, UsePreset(name) PROVE QueriesTypeOK'
  <2>1. filters' \in Seq(PresetFilters) /\ sorts' \in Seq(Criterion)
    BY <1>3, PresetsAreQueries DEF UsePreset
  <2> QED  BY <1>3, <2>1 DEF UsePreset, QueriesTypeOK
<1>4. CASE Build
  BY <1>4 DEF Build, QueriesTypeOK
<1>5. CASE Count
  BY <1>5, MatchingFinite DEF Count, QueriesTypeOK
<1>6. CASE Select
  BY <1>6, SelectTyped
<1>7. ASSUME NEW i \in Ids, NEW row \in Rows \cup {NoRow}, Change(i, row) PROVE QueriesTypeOK'
  BY <1>7 DEF Change, QueriesTypeOK
<1>8. CASE UNCHANGED queriesVars
  BY <1>8 DEF queriesVars, QueriesTypeOK
<1> QED  BY <1>1, <1>2, <1>3, <1>4, <1>5, <1>6, <1>7, <1>8 DEF QueriesNext

(* What is read is a sequence of ids that can be, and a query one that the *)
(* builder can make, whatever others do to the table.                      *)
THEOREM QueriesTypeCorrect == QueriesSpec => []QueriesTypeOK
<1>1. QueriesTypeOK /\ [QueriesNext]_queriesVars => QueriesTypeOK'
  BY QueriesTyped
<1> QED  BY <1>1, QueriesStart, PTL DEF QueriesSpec

-----------------------------------------------------------------------------
(* The literals of a condition and the values of its column are of the     *)
(* same type, and an order between them is one of numbers.                 *)
LEMMA ValuesTyped ==
  ASSUME QueriesTypeOK, NEW i \in Stored
  PROVE  /\ \A c \in {"id", "author_id", "assigned_to_id", "status_id", "due_date", "other", "none"} :
              ValueOf(i, c) \in Int \cup {Null}
         /\ ValueOf(i, "id") = i /\ i \in Nat
<1>1. i \in Ids /\ rows[i] \in Rows
  BY DEF Stored, QueriesTypeOK
<1>2. i \in Nat /\ rows[i] \in Row
  BY <1>1, QueriesAssumption
<1> QED  BY <1>2 DEF ValueOf, Row, Day

LEMMA LiteralsTyped ==
  ASSUME QueriesTypeOK, NEW f, IsFilter(f), LiteralType(f.values.kind) \in {"number", "date"}
  PROVE  ValuesToSql(f.values) \in Seq(Int)
<1>1. IsValue(f.values) /\ me \in Nat \cup {Null}
  BY QueriesAssumption DEF IsFilter, QueriesTypeOK
<1>2. f.values.kind \in {"Id", "Ids", "Number", "Me", "Date", "DateRange"}
  BY <1>1 DEF IsValue, LiteralType
<1>3. CASE f.values.kind = "Me"
  BY <1>1, <1>3, ShortSeqs DEF ValuesToSql
<1>4. CASE f.values.kind # "Me"
  BY <1>1, <1>2, <1>4 DEF ValuesToSql, IsValue, Day
<1> QED  BY <1>3, <1>4

LEMMA AsFilters ==
  ASSUME NEW f, IsFilter(f), NEW op
  PROVE  As(f, op) = FilterToSql(Filter(f.attribute, op, f.days, f.values))
<1>1. [f EXCEPT !.operator = op] = Filter(f.attribute, op, f.days, f.values)
  BY DEF IsFilter, Filter
<1> QED  BY <1>1, Zenon DEF As

LEMMA OperatorKinds ==
  /\ DOMAIN Like = {"Contains", "NotContains", "StartsWith", "EndsWith"}
  /\ DOMAIN Compare = {"GreaterThan", "GreaterThanOrEqual", "LessThan", "LessThanOrEqual"}
  /\ DOMAIN Relative = {"Today", "DaysAgo", "DaysFromNow", "LessThanDaysAgo", "MoreThanDaysAgo",
                        "LessThanDaysFromNow", "MoreThanDaysFromNow"}
BY DEF Like, Compare, Relative

(* What the executor makes of the operators that have an opposite.         *)
ColumnOf(f) == AttributeToColumn(f.attribute)
LiteralsOf(f) == ValuesToSql(f.values)
TypeOf(f) == LiteralType(f.values.kind)

LEMMA Tests ==
  ASSUME NEW f, IsFilter(f), NEW op, As(f, op) # NoCondition
  PROVE  /\ ColumnOf(f) # "none"
         /\ op = "Equals" => As(f, op) = Sql(ColumnOf(f), "in", TypeOf(f), LiteralsOf(f))
         /\ op = "NotEquals" => As(f, op) = Sql(ColumnOf(f), "not in", TypeOf(f), LiteralsOf(f))
         /\ op = "Contains" => As(f, op) = Sql(ColumnOf(f), "has", "text", LiteralsOf(f))
         /\ op = "NotContains" => As(f, op) = Sql(ColumnOf(f), "has not", "text", LiteralsOf(f))
         /\ op = "IsNull" => As(f, op) = Sql(ColumnOf(f), "null", "none", <<>>)
         /\ op = "IsNotNull" => As(f, op) = Sql(ColumnOf(f), "not null", "none", <<>>)
         /\ op \in DOMAIN Compare =>
              As(f, op) = Sql(ColumnOf(f), Compare[op], TypeOf(f), <<LiteralsOf(f)[1]>>) /\ LiteralsOf(f) # <<>>
         /\ op \in DOMAIN Relative =>
              As(f, op) = Sql(ColumnOf(f), Relative[op], "date",
                              <<DayMeant(Filter(f.attribute, op, f.days, f.values))>>)
<1> DEFINE g == Filter(f.attribute, op, f.days, f.values)
<1>1. As(f, op) = FilterToSql(g)
  BY AsFilters
<1>2. g.attribute = f.attribute /\ g.operator = op /\ g.values = f.values
  BY DEF Filter
<1> HIDE DEF g
<1>3. ColumnOf(f) # "none"
  BY <1>1, <1>2, Zenon DEF FilterToSql, ColumnOf, LiteralsOf, TypeOf
<1>4. op = "Equals" => As(f, op) = Sql(ColumnOf(f), "in", TypeOf(f), LiteralsOf(f))
  BY <1>1, <1>2, <1>3, OperatorKinds DEF FilterToSql, ColumnOf, LiteralsOf, TypeOf
<1>5. op = "NotEquals" => As(f, op) = Sql(ColumnOf(f), "not in", TypeOf(f), LiteralsOf(f))
  BY <1>1, <1>2, <1>3, OperatorKinds DEF FilterToSql, ColumnOf, LiteralsOf, TypeOf
<1>6. op \in {"Contains", "NotContains"} => As(f, op) = Sql(ColumnOf(f), Like[op], "text", LiteralsOf(f))
  BY <1>1, <1>2, <1>3, OperatorKinds DEF FilterToSql, ColumnOf, LiteralsOf, TypeOf
<1>7. op = "IsNull" => As(f, op) = Sql(ColumnOf(f), "null", "none", <<>>)
  BY <1>1, <1>2, <1>3, OperatorKinds DEF FilterToSql, ColumnOf, LiteralsOf, TypeOf
<1>8. op = "IsNotNull" => As(f, op) = Sql(ColumnOf(f), "not null", "none", <<>>)
  BY <1>1, <1>2, <1>3, OperatorKinds DEF FilterToSql, ColumnOf, LiteralsOf, TypeOf
<1>9. op \in DOMAIN Compare =>
        As(f, op) = Sql(ColumnOf(f), Compare[op], TypeOf(f), <<LiteralsOf(f)[1]>>) /\ LiteralsOf(f) # <<>>
  BY <1>1, <1>2, <1>3, OperatorKinds DEF FilterToSql, ColumnOf, LiteralsOf, TypeOf
<1>10. op \in DOMAIN Relative => As(f, op) = Sql(ColumnOf(f), Relative[op], "date", <<DayMeant(g)>>)
  BY <1>1, <1>2, <1>3, OperatorKinds DEF FilterToSql, ColumnOf, LiteralsOf, TypeOf
<1>11. Like["Contains"] = "has" /\ Like["NotContains"] = "has not"
  BY DEF Like
<1> QED  BY <1>3, <1>4, <1>5, <1>6, <1>7, <1>8, <1>9, <1>10, <1>11 DEF g

LEMMA TrueTests ==
  ASSUME NEW column, NEW test, NEW type, NEW literals, NEW i, test \notin {"none", "null"}
  PROVE  True(Sql(column, test, type, literals), i) <=>
           ValueOf(i, column) # Null /\ Holds(test, ValueOf(i, column), literals)
BY DEF True, Sql

(* Which rows pass a filter by those operators.                            *)
LEMMA Passes ==
  ASSUME NEW f, IsFilter(f), NEW op, As(f, op) # NoCondition, NEW i,
         NEW x, x = ValueOf(i, ColumnOf(f))
  PROVE  /\ op = "Equals" => (True(As(f, op), i) <=> x # Null /\ Holds("in", x, LiteralsOf(f)))
         /\ op = "NotEquals" => (True(As(f, op), i) <=> x # Null /\ Holds("not in", x, LiteralsOf(f)))
         /\ op = "Contains" => (True(As(f, op), i) <=> x # Null /\ Holds("has", x, LiteralsOf(f)))
         /\ op = "NotContains" => (True(As(f, op), i) <=> x # Null /\ Holds("has not", x, LiteralsOf(f)))
         /\ op = "IsNull" => (True(As(f, op), i) <=> x = Null)
         /\ op = "IsNotNull" => (True(As(f, op), i) <=> x # Null)
<1>1. ASSUME op = "Equals" PROVE True(As(f, op), i) <=> x # Null /\ Holds("in", x, LiteralsOf(f))
  <2>1. As(f, op) = Sql(ColumnOf(f), "in", TypeOf(f), LiteralsOf(f))
    BY <1>1, Tests
  <2> QED  BY <2>1, TrueTests
<1>2. ASSUME op = "NotEquals" PROVE True(As(f, op), i) <=> x # Null /\ Holds("not in", x, LiteralsOf(f))
  <2>1. As(f, op) = Sql(ColumnOf(f), "not in", TypeOf(f), LiteralsOf(f))
    BY <1>2, Tests
  <2> QED  BY <2>1, TrueTests
<1>3. ASSUME op = "Contains" PROVE True(As(f, op), i) <=> x # Null /\ Holds("has", x, LiteralsOf(f))
  <2>1. As(f, op) = Sql(ColumnOf(f), "has", "text", LiteralsOf(f))
    BY <1>3, Tests
  <2> QED  BY <2>1, TrueTests
<1>4. ASSUME op = "NotContains" PROVE True(As(f, op), i) <=> x # Null /\ Holds("has not", x, LiteralsOf(f))
  <2>1. As(f, op) = Sql(ColumnOf(f), "has not", "text", LiteralsOf(f))
    BY <1>4, Tests
  <2> QED  BY <2>1, TrueTests
<1>5. ASSUME op = "IsNull" PROVE True(As(f, op), i) <=> x = Null
  <2>1. As(f, op) = Sql(ColumnOf(f), "null", "none", <<>>)
    BY <1>5, Tests
  <2> QED  BY <2>1 DEF True, Sql, Holds
<1>6. ASSUME op = "IsNotNull" PROVE True(As(f, op), i) <=> x # Null
  <2>1. As(f, op) = Sql(ColumnOf(f), "not null", "none", <<>>)
    BY <1>6, Tests
  <2>2. Holds("not null", x, <<>>)
    BY DEF Holds
  <2> QED  BY <2>1, <2>2, TrueTests
<1> QED  BY <1>1, <1>2, <1>3, <1>4, <1>5, <1>6

LEMMA PassesOrder ==
  ASSUME NEW f, IsFilter(f), NEW op \in DOMAIN Compare, As(f, op) # NoCondition, NEW i,
         NEW x, x = ValueOf(i, ColumnOf(f)), NEW v, v = <<LiteralsOf(f)[1]>>
  PROVE  True(As(f, op), i) <=> x # Null /\ Holds(Compare[op], x, v)
<1>1. As(f, op) = Sql(ColumnOf(f), Compare[op], TypeOf(f), v)
  BY Tests
<1>2. Compare[op] \in {">", ">=", "<", "<="}
  BY OperatorKinds DEF Compare
<1> QED  BY <1>1, <1>2, TrueTests

LEMMA PassesDays ==
  ASSUME NEW f, IsFilter(f), NEW op \in DOMAIN Relative, As(f, op) # NoCondition, NEW i,
         NEW x, x = ValueOf(i, ColumnOf(f)),
         NEW v, v = <<DayMeant(Filter(f.attribute, op, f.days, f.values))>>
  PROVE  True(As(f, op), i) <=> x # Null /\ Holds(Relative[op], x, v)
<1>1. As(f, op) = Sql(ColumnOf(f), Relative[op], "date", v)
  BY Tests
<1>2. Relative[op] \in {"=", ">", "<"}
  BY OperatorKinds DEF Relative
<1> QED  BY <1>1, <1>2, TrueTests

LEMMA OppositeGroups ==
  ASSUME NEW group \in Opposites
  PROVE  \/ group = {"Equals", "NotEquals"} \/ group = {"Contains", "NotContains"}
         \/ group = {"IsNull", "IsNotNull"} \/ group = {"GreaterThan", "LessThanOrEqual"}
         \/ group = {"LessThan", "GreaterThanOrEqual"}
         \/ group = {"DaysAgo", "LessThanDaysAgo", "MoreThanDaysAgo"}
         \/ group = {"DaysFromNow", "LessThanDaysFromNow", "MoreThanDaysFromNow"}
BY DEF Opposites

(* Tests that are each other's negation divide the values, whatever their  *)
(* type.                                                                       *)
LEMMA EitherHolds ==
  ASSUME NEW x, NEW v
  PROVE  /\ Holds("in", x, v) <=> ~Holds("not in", x, v)
         /\ Holds("has", x, v) <=> ~Holds("has not", x, v)
         /\ Holds("not null", x, v)
BY DEF Holds

LEMMA OneOfOrder ==
  ASSUME NEW x \in Int, NEW v, v[1] \in Int
  PROVE  /\ Holds("=", x, v) <=> x = v[1]
         /\ Holds("<", x, v) <=> x < v[1]
         /\ Holds("<=", x, v) <=> x <= v[1]
         /\ Holds(">", x, v) <=> x > v[1]
         /\ Holds(">=", x, v) <=> x >= v[1]
BY DEF Holds

(* A filter that is compared in an order has numbers on both sides.        *)
LEMMA OrderTyped ==
  ASSUME QueriesTypeOK, NEW f, IsFilter(f), f.operator \in DOMAIN Compare,
         NEW op \in DOMAIN Compare, As(f, op) # NoCondition, Readable(As(f, op)), NEW i \in Stored
  PROVE  /\ LiteralsOf(f)[1] \in Int
         /\ ValueOf(i, ColumnOf(f)) \in Int \cup {Null}
<1>1. /\ As(f, op) = Sql(ColumnOf(f), Compare[op], TypeOf(f), <<LiteralsOf(f)[1]>>) /\ LiteralsOf(f) # <<>>
      /\ ColumnOf(f) # "none"
  BY Tests
<1>2. TypeOf(f) \in {"number", "date"}
  <2>1. f.values.kind \notin {"String", "Strings", "Bool"} /\ IsValue(f.values)
    BY OperatorKinds DEF IsFilter
  <2>2. f.values.kind # "None"
    BY <1>1, <2>1 DEF LiteralsOf, ValuesToSql, IsValue
  <2> QED  BY <2>1, <2>2 DEF IsValue, TypeOf, LiteralType
<1>3. LiteralsOf(f) \in Seq(Int)
  BY <1>2, LiteralsTyped DEF TypeOf, LiteralsOf
<1>4. TypeOf(f) = ColumnType(ColumnOf(f))
  BY <1>1, <1>2 DEF Readable, Sql
<1>5. ColumnOf(f) \in Columns
  BY <1>1 DEF IsFilter, ColumnOf, AttributeToColumn
<1>6. ColumnOf(f) \in {"id", "author_id", "assigned_to_id", "status_id", "due_date"}
  BY <1>2, <1>4, <1>5 DEF Columns, ColumnType
<1>7. ValueOf(i, ColumnOf(f)) \in Int \cup {Null}
  BY <1>6, ValuesTyped
<1>8. LiteralsOf(f)[1] \in Int
  BY <1>1, <1>3
<1> QED  BY <1>7, <1>8

(* A filter by days is one of a date, and means a whole day.               *)
LEMMA DaysTyped ==
  ASSUME QueriesTypeOK, NEW f, IsFilter(f), NEW op \in DOMAIN Relative,
         As(f, op) # NoCondition, Readable(As(f, op)), NEW i \in Stored
  PROVE  ValueOf(i, ColumnOf(f)) \in Int \cup {Null}
<1> DEFINE day == DayMeant(Filter(f.attribute, op, f.days, f.values))
<1>1. As(f, op).type = "date" /\ As(f, op).column = ColumnOf(f)
  <2>1. As(f, op) = Sql(ColumnOf(f), Relative[op], "date", <<day>>)
    BY Tests
  <2> HIDE DEF day
  <2> QED  BY <2>1 DEF Sql
<1>2. "date" = ColumnType(ColumnOf(f))
  BY <1>1 DEF Readable
<1>3. ColumnOf(f) \in Columns
  BY Tests DEF IsFilter, ColumnOf, AttributeToColumn
<1>4. ColumnOf(f) = "due_date"
  BY <1>2, <1>3 DEF Columns, ColumnType
<1>5. ValueOf(i, ColumnOf(f)) \in Int \cup {Null}
  BY <1>4, ValuesTyped
<1> QED  BY <1>5

(* Of two tests that are each other's negation a value passes one, and of   *)
(* the three ways to compare numbers.                                      *)
LEMMA OneOfTwo ==
  ASSUME NEW a, NEW b, a # b, NEW passed, passed \subseteq {a, b}, NEW x,
         x = Null => a \notin passed /\ b \notin passed,
         x # Null => (a \in passed <=> b \notin passed)
  PROVE  IF x = Null THEN passed = {} ELSE \E op : passed = {op}
<1>1. passed = {} \/ passed = {a} \/ passed = {b} \/ passed = {a, b}
  OBVIOUS
<1> QED  BY <1>1

LEMMA OneOfThree ==
  ASSUME NEW a, NEW b, NEW c, a # b, a # c, b # c, NEW passed, passed \subseteq {a, b, c},
         NEW x \in Int \cup {Null}, NEW v \in Int,
         a \in passed <=> x # Null /\ x = v, b \in passed <=> x # Null /\ x > v,
         c \in passed <=> x # Null /\ x < v
  PROVE  IF x = Null THEN passed = {} ELSE \E op : passed = {op}
<1>1. CASE x = Null
  BY <1>1
<1>2. CASE x # Null /\ x = v
  <2>1. passed = {a}
    BY <1>2
  <2> QED  BY <1>2, <2>1
<1>3. CASE x # Null /\ x > v
  <2>1. passed = {b}
    BY <1>3
  <2> QED  BY <1>3, <2>1
<1>4. CASE x # Null /\ x < v
  <2>1. passed = {c}
    BY <1>4
  <2> QED  BY <1>4, <2>1
<1> QED  BY <1>1, <1>2, <1>3, <1>4

LEMMA ColumnStays ==
  ASSUME NEW f, IsFilter(f), NEW group \in Opposites, NEW op \in group, As(f, op) # NoCondition
  PROVE  As(f, op).column = ColumnOf(f)
<1>0. \A c, test, type, literals : Sql(c, test, type, literals).column = c
  BY DEF Sql
<1>1. CASE op \in DOMAIN Relative
  <2> DEFINE day == DayMeant(Filter(f.attribute, op, f.days, f.values))
  <2>1. As(f, op) = Sql(ColumnOf(f), Relative[op], "date", <<day>>)
    BY <1>1, Tests
  <2> HIDE DEF day
  <2> QED  BY <1>0, <2>1
<1>2. CASE op \in DOMAIN Compare
  <2>1. As(f, op) = Sql(ColumnOf(f), Compare[op], TypeOf(f), <<LiteralsOf(f)[1]>>)
    BY <1>2, Tests
  <2> QED  BY <1>0, <2>1
<1>3. CASE op \in {"Equals", "NotEquals"}
  <2>1. \E test : As(f, op) = Sql(ColumnOf(f), test, TypeOf(f), LiteralsOf(f))
    BY <1>3, Tests
  <2> QED  BY <1>0, <2>1
<1>4. CASE op \in {"Contains", "NotContains"}
  <2>1. \E test : As(f, op) = Sql(ColumnOf(f), test, "text", LiteralsOf(f))
    BY <1>4, Tests
  <2> QED  BY <1>0, <2>1
<1>5. CASE op \in {"IsNull", "IsNotNull"}
  <2>1. \E test : As(f, op) = Sql(ColumnOf(f), test, "none", <<>>)
    BY <1>5, Tests
  <2> QED  BY <1>0, <2>1
<1> QED  BY <1>1, <1>2, <1>3, <1>4, <1>5, OppositeGroups, OperatorKinds

Passed(f, group, i) == {op \in group : True(As(f, op), i)}

LEMMA GroupDivides ==
  ASSUME QueriesTypeOK, NEW f, IsFilter(f), NEW group \in Opposites, f.operator \in group,
         \A op \in group : As(f, op) # NoCondition /\ Readable(As(f, op)), NEW i \in Stored
  PROVE  IF ValueOf(i, ColumnOf(f)) = Null /\ "IsNull" \notin group
         THEN Passed(f, group, i) = {} ELSE \E op : Passed(f, group, i) = {op}
<1> DEFINE x == ValueOf(i, ColumnOf(f))
<1>0. x = ValueOf(i, ColumnOf(f))
  OBVIOUS
<1> HIDE DEF x
<1>1. /\ Passed(f, group, i) \subseteq group
      /\ \A op \in group : op \in Passed(f, group, i) <=> True(As(f, op), i)
  BY DEF Passed
<1>2. CASE group = {"Equals", "NotEquals"}
  <2>1. /\ "Equals" \in Passed(f, group, i) <=> x # Null /\ Holds("in", x, LiteralsOf(f))
        /\ "NotEquals" \in Passed(f, group, i) <=> x # Null /\ ~Holds("in", x, LiteralsOf(f))
    BY <1>1, <1>2, <1>0, Passes, EitherHolds
  <2>2. IF x = Null THEN Passed(f, group, i) = {} ELSE \E op : Passed(f, group, i) = {op}
    BY <1>1, <1>2, <2>1, OneOfTwo
  <2> QED  BY <1>0, <1>2, <2>2
<1>3. CASE group = {"Contains", "NotContains"}
  <2>1. /\ "Contains" \in Passed(f, group, i) <=> x # Null /\ Holds("has", x, LiteralsOf(f))
        /\ "NotContains" \in Passed(f, group, i) <=> x # Null /\ ~Holds("has", x, LiteralsOf(f))
    BY <1>1, <1>3, <1>0, Passes, EitherHolds
  <2>2. IF x = Null THEN Passed(f, group, i) = {} ELSE \E op : Passed(f, group, i) = {op}
    BY <1>1, <1>3, <2>1, OneOfTwo
  <2> QED  BY <1>0, <1>3, <2>2
<1>4. CASE group = {"IsNull", "IsNotNull"}
  <2>1. /\ "IsNull" \in Passed(f, group, i) <=> x = Null
        /\ "IsNotNull" \in Passed(f, group, i) <=> x # Null
    BY <1>1, <1>4, <1>0, Passes
  <2>2. Passed(f, group, i) = {"IsNull"} \/ Passed(f, group, i) = {"IsNotNull"}
    BY <1>1, <1>4, <2>1
  <2> QED  BY <1>0, <1>4, <2>2
<1>5. CASE group = {"GreaterThan", "LessThanOrEqual"}
  <2> DEFINE v == LiteralsOf(f)[1]
  <2>1. v \in Int /\ x \in Int \cup {Null}
    BY <1>5, <1>0, OrderTyped, OperatorKinds
  <2>2. Compare["GreaterThan"] = ">" /\ Compare["LessThanOrEqual"] = "<="
    BY DEF Compare
  <2>3. /\ "GreaterThan" \in Passed(f, group, i) <=> x # Null /\ Holds(">", x, <<v>>)
        /\ "LessThanOrEqual" \in Passed(f, group, i) <=> x # Null /\ Holds("<=", x, <<v>>)
    BY <1>0, <1>1, <1>5, <2>2, PassesOrder, OperatorKinds
  <2> HIDE DEF v
  <2>4. x # Null => (Holds(">", x, <<v>>) <=> ~Holds("<=", x, <<v>>))
    BY <2>1, OneOfOrder
  <2>5. /\ x = Null => "GreaterThan" \notin Passed(f, group, i) /\ "LessThanOrEqual" \notin Passed(f, group, i)
        /\ x # Null => ("GreaterThan" \in Passed(f, group, i) <=> "LessThanOrEqual" \notin Passed(f, group, i))
    BY <2>3, <2>4
  <2>6. IF x = Null THEN Passed(f, group, i) = {} ELSE \E op : Passed(f, group, i) = {op}
    BY <1>1, <1>5, <2>5, OneOfTwo
  <2> QED  BY <1>0, <1>5, <2>6
<1>6. CASE group = {"LessThan", "GreaterThanOrEqual"}
  <2> DEFINE v == LiteralsOf(f)[1]
  <2>1. v \in Int /\ x \in Int \cup {Null}
    BY <1>6, <1>0, OrderTyped, OperatorKinds
  <2>2. Compare["LessThan"] = "<" /\ Compare["GreaterThanOrEqual"] = ">="
    BY DEF Compare
  <2>3. /\ "LessThan" \in Passed(f, group, i) <=> x # Null /\ Holds("<", x, <<v>>)
        /\ "GreaterThanOrEqual" \in Passed(f, group, i) <=> x # Null /\ Holds(">=", x, <<v>>)
    BY <1>0, <1>1, <1>6, <2>2, PassesOrder, OperatorKinds
  <2> HIDE DEF v
  <2>4. x # Null => (Holds("<", x, <<v>>) <=> ~Holds(">=", x, <<v>>))
    BY <2>1, OneOfOrder
  <2>5. /\ x = Null => "LessThan" \notin Passed(f, group, i) /\ "GreaterThanOrEqual" \notin Passed(f, group, i)
        /\ x # Null => ("LessThan" \in Passed(f, group, i) <=> "GreaterThanOrEqual" \notin Passed(f, group, i))
    BY <2>3, <2>4
  <2>6. IF x = Null THEN Passed(f, group, i) = {} ELSE \E op : Passed(f, group, i) = {op}
    BY <1>1, <1>6, <2>5, OneOfTwo
  <2> QED  BY <1>0, <1>6, <2>6
<1>7. CASE group = {"DaysAgo", "LessThanDaysAgo", "MoreThanDaysAgo"}
  <2> DEFINE v == -f.days
  <2>1. v \in Int /\ x \in Int \cup {Null}
    BY <1>7, <1>0, DaysTyped, OperatorKinds DEF IsFilter
  <2>2. \A op \in group : DayMeant(Filter(f.attribute, op, f.days, f.values)) = v
    BY <1>7 DEF DayMeant, Filter
  <2>3. /\ Relative["DaysAgo"] = "=" /\ Relative["LessThanDaysAgo"] = ">"
        /\ Relative["MoreThanDaysAgo"] = "<"
    BY DEF Relative
  <2> HIDE DEF v
  <2>4. /\ "DaysAgo" \in Passed(f, group, i) <=> x # Null /\ Holds("=", x, <<v>>)
        /\ "LessThanDaysAgo" \in Passed(f, group, i) <=> x # Null /\ Holds(">", x, <<v>>)
        /\ "MoreThanDaysAgo" \in Passed(f, group, i) <=> x # Null /\ Holds("<", x, <<v>>)
    BY <1>0, <1>1, <1>7, <2>2, <2>3, PassesDays, OperatorKinds
  <2>5. x # Null => /\ Holds("=", x, <<v>>) <=> x = v
                    /\ Holds(">", x, <<v>>) <=> x > v
                    /\ Holds("<", x, <<v>>) <=> x < v
    BY <2>1, OneOfOrder
  <2>6. /\ "DaysAgo" \in Passed(f, group, i) <=> x # Null /\ x = v
        /\ "LessThanDaysAgo" \in Passed(f, group, i) <=> x # Null /\ x > v
        /\ "MoreThanDaysAgo" \in Passed(f, group, i) <=> x # Null /\ x < v
    BY <2>4, <2>5
  <2>7. Passed(f, group, i) \subseteq {"DaysAgo", "LessThanDaysAgo", "MoreThanDaysAgo"}
    BY <1>1, <1>7
  <2>8. IF x = Null THEN Passed(f, group, i) = {} ELSE \E op : Passed(f, group, i) = {op}
    BY <2>1, <2>6, <2>7, OneOfThree
  <2> QED  BY <1>0, <1>7, <2>8
<1>8. CASE group = {"DaysFromNow", "LessThanDaysFromNow", "MoreThanDaysFromNow"}
  <2> DEFINE v == f.days
  <2>1. v \in Int /\ x \in Int \cup {Null}
    BY <1>8, <1>0, DaysTyped, OperatorKinds DEF IsFilter
  <2>2. \A op \in group : DayMeant(Filter(f.attribute, op, f.days, f.values)) = v
    BY <1>8 DEF DayMeant, Filter
  <2>3. /\ Relative["DaysFromNow"] = "=" /\ Relative["MoreThanDaysFromNow"] = ">"
        /\ Relative["LessThanDaysFromNow"] = "<"
    BY DEF Relative
  <2> HIDE DEF v
  <2>4. /\ "DaysFromNow" \in Passed(f, group, i) <=> x # Null /\ Holds("=", x, <<v>>)
        /\ "MoreThanDaysFromNow" \in Passed(f, group, i) <=> x # Null /\ Holds(">", x, <<v>>)
        /\ "LessThanDaysFromNow" \in Passed(f, group, i) <=> x # Null /\ Holds("<", x, <<v>>)
    BY <1>0, <1>1, <1>8, <2>2, <2>3, PassesDays, OperatorKinds
  <2>5. x # Null => /\ Holds("=", x, <<v>>) <=> x = v
                    /\ Holds(">", x, <<v>>) <=> x > v
                    /\ Holds("<", x, <<v>>) <=> x < v
    BY <2>1, OneOfOrder
  <2>6. /\ "DaysFromNow" \in Passed(f, group, i) <=> x # Null /\ x = v
        /\ "MoreThanDaysFromNow" \in Passed(f, group, i) <=> x # Null /\ x > v
        /\ "LessThanDaysFromNow" \in Passed(f, group, i) <=> x # Null /\ x < v
    BY <2>4, <2>5
  <2>7. Passed(f, group, i) \subseteq {"DaysFromNow", "MoreThanDaysFromNow", "LessThanDaysFromNow"}
    BY <1>1, <1>8
  <2>8. IF x = Null THEN Passed(f, group, i) = {} ELSE \E op : Passed(f, group, i) = {op}
    BY <2>1, <2>6, <2>7, OneOfThree
  <2> QED  BY <1>0, <1>8, <2>8
<1> QED  BY <1>0, <1>2, <1>3, <1>4, <1>5, <1>6, <1>7, <1>8, OppositeGroups

(* An operator and its opposites divide the rows that have a value, for    *)
(* any filter the builder or a preset adds and rows with any values.       *)
THEOREM OperatorsDivide == QueriesSpec => []OppositesDivide
<1>1. ASSUME QueriesTypeOK PROVE OppositesDivide
  <2> SUFFICES ASSUME NEW f \in Range(filters), NEW group \in Opposites, f.operator \in group,
                      \A op \in group : As(f, op) # NoCondition /\ Readable(As(f, op)),
                      NEW i \in Stored
               PROVE  LET passed == {op \in group : True(As(f, op), i)}
                      IN  IF ValueOf(i, As(f, f.operator).column) = Null /\ "IsNull" \notin group
                          THEN passed = {} ELSE Cardinality(passed) = 1
    BY DEF OppositesDivide
  <2>1. IsFilter(f)
    <3>1. f \in Conditions \cup PresetFilters
      BY <1>1 DEF QueriesTypeOK, Range
    <3> QED  BY <3>1, FiltersAreFilters
  <2>2. As(f, f.operator).column = ColumnOf(f)
    BY <2>1, ColumnStays
  <2>3. IF ValueOf(i, ColumnOf(f)) = Null /\ "IsNull" \notin group
        THEN Passed(f, group, i) = {} ELSE \E op : Passed(f, group, i) = {op}
    BY <1>1, <2>1, GroupDivides
  <2> QED  BY <2>2, <2>3, FS_Singleton DEF Passed
<1> QED  BY <1>1, QueriesTypeCorrect, PTL

-----------------------------------------------------------------------------
(* The order of the rows.  Values and NULL are in a strict order, in which *)
(* two that differ can be told apart.                                      *)
LEMMA LessOrder ==
  ASSUME NEW x \in Int \cup {Null}, NEW y \in Int \cup {Null}
  PROVE  /\ ~(Less(x, y) /\ Less(y, x))
         /\ x # y => Less(x, y) \/ Less(y, x)
BY QueriesAssumption DEF Less

LEMMA AheadOrder ==
  ASSUME QueriesTypeOK, NEW c \in Criterion, NEW i \in Stored, NEW j \in Stored
  PROVE  /\ ~(Ahead(c, i, j) /\ Ahead(c, j, i))
         /\ c.attribute = "id" /\ i # j => Ahead(c, i, j) \/ Ahead(c, j, i)
<1> DEFINE column == SortColumn(c.attribute)
           x == ValueOf(i, column)
           y == ValueOf(j, column)
<1>1. column \in {"id", "due_date", "assigned_to_id", "other", "none"}
  BY DEF SortColumn, Criterion
<1>2. x \in Int \cup {Null} /\ y \in Int \cup {Null}
  <2> HIDE DEF column
  <2> QED  BY <1>1, ValuesTyped
<1>3. c.attribute = "id" => x = i /\ y = j
  BY ValuesTyped DEF SortColumn
<1>4. /\ Ahead(c, i, j) <=> IF c.direction = "asc" THEN Less(x, y) ELSE Less(y, x)
      /\ Ahead(c, j, i) <=> IF c.direction = "asc" THEN Less(y, x) ELSE Less(x, y)
  BY DEF Ahead
<1> HIDE DEF x, y
<1> QED  BY <1>2, <1>3, <1>4, LessOrder

LEMMA PartsAreCriteria ==
  ASSUME QueriesTypeOK
  PROVE  OrderParts \in Seq(Criterion)
<1>1. DefaultSort \in Seq(Criterion)
  BY ShortSeqs DEF DefaultSort, Desc, Criterion
<1> QED  BY <1>1 DEF OrderParts, QueriesTypeOK

(* Of the places where two rows differ there is a first one.               *)
LEMMA Least ==
  ASSUME NEW T, T \subseteq Nat, T # {}
  PROVE  \E x \in T : \A y \in T : x <= y
<1> DEFINE R == OpToRel(<, Nat)
<1>1. IsWellFoundedOn(R, Nat)
  BY NatLessThanWellFounded
<1>2. \A x, y \in Nat : <<y, x>> \in R <=> y < x
  BY DEF OpToRel
<1> HIDE DEF R
<1>3. PICK x \in T : \A y \in T : <<y, x>> \notin R
  BY <1>1, WFMin
<1>4. ASSUME NEW y \in T PROVE x <= y
  <2>1. x \in Nat /\ y \in Nat
    OBVIOUS
  <2>2. ~(y < x)
    BY <1>2, <1>3, <2>1
  <2> QED  BY <2>1, <2>2
<1> QED  BY <1>4

TellsApart == \E k \in DOMAIN OrderParts : OrderParts[k].attribute = "id"

LEMMA BeforeAsymmetric ==
  ASSUME QueriesTypeOK, NEW i \in Stored, NEW j \in Stored
  PROVE  ~(Before(i, j) /\ Before(j, i))
<1> SUFFICES ASSUME Before(i, j), Before(j, i) PROVE FALSE
  OBVIOUS
<1>1. PICK k \in DOMAIN OrderParts :
        /\ Ahead(OrderParts[k], i, j)
        /\ \A h \in 1 .. k - 1 : ~Ahead(OrderParts[h], j, i) /\ ~Ahead(OrderParts[h], i, j)
  BY DEF Before
<1>2. PICK l \in DOMAIN OrderParts :
        /\ Ahead(OrderParts[l], j, i)
        /\ \A h \in 1 .. l - 1 : ~Ahead(OrderParts[h], i, j) /\ ~Ahead(OrderParts[h], j, i)
  BY DEF Before
<1>3. OrderParts[k] \in Criterion /\ k \in Nat /\ l \in Nat /\ k >= 1 /\ l >= 1
  BY PartsAreCriteria
<1>4. k # l
  BY <1>1, <1>2, <1>3, AheadOrder
<1>5. CASE k < l
  BY <1>1, <1>2, <1>3, <1>5
<1>6. CASE l < k
  BY <1>1, <1>2, <1>3, <1>6
<1> QED  BY <1>3, <1>4, <1>5, <1>6

LEMMA BeforeTotal ==
  ASSUME QueriesTypeOK, TellsApart, NEW i \in Stored, NEW j \in Stored, i # j
  PROVE  Before(i, j) \/ Before(j, i)
<1> DEFINE Differ == {k \in DOMAIN OrderParts :
                        Ahead(OrderParts[k], i, j) \/ Ahead(OrderParts[k], j, i)}
<1>1. PICK k \in DOMAIN OrderParts : OrderParts[k].attribute = "id"
  BY DEF TellsApart
<1>2. OrderParts \in Seq(Criterion) /\ OrderParts[k] \in Criterion
  BY PartsAreCriteria
<1>3. Differ \subseteq Nat /\ Differ # {}
  BY <1>1, <1>2, AheadOrder
<1>4. PICK l \in Differ : \A h \in Differ : l <= h
  <2> HIDE DEF Differ
  <2> QED  BY <1>3, Least
<1>5. l \in DOMAIN OrderParts /\ l \in Nat /\ DOMAIN OrderParts = 1 .. Len(OrderParts)
  BY <1>2, <1>4
<1>6. \A h \in 1 .. l - 1 : ~Ahead(OrderParts[h], j, i) /\ ~Ahead(OrderParts[h], i, j)
  BY <1>2, <1>4, <1>5
<1>7. Ahead(OrderParts[l], i, j) \/ Ahead(OrderParts[l], j, i)
  BY <1>4
<1> HIDE DEF Differ
<1> QED  BY <1>5, <1>6, <1>7 DEF Before

(* An order that tells all rows apart leaves the database no choice: the   *)
(* rows that come before a row are as many as its place says.              *)
LEMMA OrderingIsOnto ==
  ASSUME NEW S, IsFiniteSet(S), NEW s \in Orderings(S)
  PROVE  \A j \in S : \E b \in 1 .. Cardinality(S) : s[b] = j
<1> DEFINE n == Cardinality(S)
<1>1. n \in Nat /\ s \in [1 .. n -> S] /\ \A a, b \in 1 .. n : a < b => s[a] # s[b]
  BY OrderingIsSeq
<1> HIDE DEF n
<1>2. s \in Injection(1 .. n, S)
  BY <1>1 DEF Injection, IsInjective
<1>3. IsFiniteSet(1 .. n) /\ Cardinality(1 .. n) = n
  BY <1>1, FS_Interval
<1>4. s \in Surjection(1 .. n, S)
  BY <1>2, <1>3, FS_Injection DEF n
<1> QED  BY <1>4 DEF Surjection, n

LEMMA PlaceIsRank ==
  ASSUME QueriesTypeOK, TellsApart, NEW S, IsFiniteSet(S), S \subseteq Stored,
         NEW s \in Orderings(S), NEW a \in 1 .. Cardinality(S)
  PROVE  Cardinality({j \in S : Before(j, s[a])}) = a - 1
<1> DEFINE n == Cardinality(S)
           T == {j \in S : Before(j, s[a])}
           g == [b \in 1 .. a - 1 |-> s[b]]
<1>1. /\ n \in Nat /\ s \in [1 .. n -> S] /\ a \in 1 .. n /\ a \in Nat
      /\ \A c, d \in 1 .. n : c < d => s[c] # s[d] /\ ~Before(s[d], s[c])
  BY OrderingIsSeq
<1>2. \A j \in S : \E b \in 1 .. n : s[b] = j
  BY OrderingIsOnto
<1> HIDE DEF n
<1>3. \A b \in 1 .. n : Before(s[b], s[a]) <=> b < a
  <2> SUFFICES ASSUME NEW b \in 1 .. n PROVE Before(s[b], s[a]) <=> b < a
    OBVIOUS
  <2>1. s[a] \in Stored /\ s[b] \in Stored
    BY <1>1
  <2>2. CASE b < a
    <3>1. s[b] # s[a] /\ ~Before(s[a], s[b])
      BY <1>1, <2>2
    <3> QED  BY <2>1, <2>2, <3>1, BeforeTotal
  <2>3. CASE b = a
    BY <1>1, <2>1, <2>3, BeforeAsymmetric
  <2>4. CASE a < b
    BY <1>1, <2>4
  <2> QED  BY <1>1, <2>2, <2>3, <2>4
<1>4. g \in Bijection(1 .. a - 1, T)
  <2>1. \A b \in 1 .. a - 1 : b \in 1 .. n /\ g[b] = s[b] /\ g[b] \in T
    BY <1>1, <1>3
  <2>2. g \in [1 .. a - 1 -> T]
    BY <2>1
  <2>3. \A b, c \in 1 .. a - 1 : b # c => g[b] # g[c]
    BY <1>1, <2>1
  <2>4. \A j \in T : \E b \in 1 .. a - 1 : g[b] = j
    <3> SUFFICES ASSUME NEW j \in T PROVE \E b \in 1 .. a - 1 : g[b] = j
      OBVIOUS
    <3>1. PICK b \in 1 .. n : s[b] = j
      BY <1>2
    <3>2. b \in 1 .. a - 1
      BY <1>1, <1>3, <3>1
    <3> QED  BY <2>1, <3>1, <3>2
  <2> HIDE DEF g, T
  <2> QED  BY <2>2, <2>3, <2>4 DEF Bijection, Injection, Surjection, IsInjective
<1>5. IsFiniteSet(1 .. a - 1) /\ Cardinality(1 .. a - 1) = a - 1
  BY <1>1, FS_Interval
<1> HIDE DEF g, T
<1>6. Cardinality(T) = a - 1
  BY <1>4, <1>5, FS_Bijection DEF ExistsBijection
<1> QED  BY <1>6 DEF T

LEMMA OneOrdering ==
  ASSUME QueriesTypeOK, TellsApart, NEW S, IsFiniteSet(S), S \subseteq Stored,
         NEW s \in Orderings(S), NEW t \in Orderings(S)
  PROVE  s = t
<1> DEFINE n == Cardinality(S)
<1>1. n \in Nat /\ s \in [1 .. n -> S] /\ t \in [1 .. n -> S]
  BY OrderingIsSeq
<1>2. ASSUME NEW a \in 1 .. n PROVE s[a] = t[a]
  <2>1. PICK b \in 1 .. n : t[b] = s[a]
    BY <1>1, OrderingIsOnto
  <2>2. Cardinality({j \in S : Before(j, s[a])}) = a - 1
    BY PlaceIsRank
  <2>3. Cardinality({j \in S : Before(j, t[b])}) = b - 1
    BY PlaceIsRank
  <2>4. a = b
    BY <1>1, <2>1, <2>2, <2>3
  <2> QED  BY <2>1, <2>4
<1> QED  BY <1>1, <1>2

-----------------------------------------------------------------------------
(* What has been read of an order without ties, while nobody writes: the   *)
(* pages before the one being read, of the only ordering there is.         *)
PagesRead ==
  /\ pc \in {"count", "select"} =>
       /\ Offset <= Cardinality(Matching) /\ Len(seen) = Offset
       /\ \A s \in Orderings(Matching) : \A k \in 1 .. Offset : seen[k] = s[k]
  /\ pc = "select" => total = Cardinality(Matching)
  /\ pc = "done" => seen \in Orderings(Matching) /\ total = Len(seen)

PagesInv ==
  /\ QueriesTypeOK
  /\ pc = "build" => page = 1 /\ seen = <<>> /\ changes = 0
  /\ changes = 0 /\ TellsApart => PagesRead

LEMMA Joined ==
  ASSUME NEW S, NEW s \in Seq(S), NEW t \in Seq(S)
  PROVE  Len(s \o t) = Len(s) + Len(t)
OBVIOUS

LEMMA OrderStays ==
  ASSUME UNCHANGED <<rows, me, filters, sorts>>
  PROVE  /\ Matching' = Matching /\ Orderings(Matching)' = Orderings(Matching)
         /\ (TellsApart' <=> TellsApart)
<1>1. Matching' = Matching
  BY DEF Matching, Stored, True, ValueOf, FilterToSql, ValuesToSql, IsMe
<1>2. OrderParts' = OrderParts /\ TellsApart' = TellsApart
  BY DEF OrderParts, TellsApart
<1>3. \A i, j : Before(i, j)' = Before(i, j)
  BY <1>2 DEF Before, Ahead, ValueOf
<1>4. Orderings(Matching)' = Orderings(Matching)
  BY <1>1, <1>3 DEF Orderings
<1> QED  BY <1>1, <1>2, <1>4

LEMMA CountKeepsPages ==
  ASSUME PagesInv, Count
  PROVE  PagesInv'
<1>1. /\ pc = "count" /\ UNCHANGED <<rows, me, filters, sorts, page, seen, changes>>
      /\ pc' \in {"select", "failed"} /\ (pc' = "select" => total' = Cardinality(Matching))
  BY DEF Count
<1>2. QueriesTypeOK'
  BY QueriesTyped DEF PagesInv, QueriesNext
<1>3. /\ Matching' = Matching /\ Orderings(Matching)' = Orderings(Matching)
      /\ (TellsApart' <=> TellsApart) /\ Offset' = Offset
  BY <1>1, OrderStays DEF Offset
<1>4. changes' = 0 /\ TellsApart' => PagesRead'
  BY <1>1, <1>3 DEF PagesInv, PagesRead
<1> QED  BY <1>1, <1>2, <1>4 DEF PagesInv

(* The page that is read is the next part of the ordering, and the last    *)
(* page ends it.                                                           *)
LEMMA SelectKeepsPages ==
  ASSUME PagesInv, Select
  PROVE  PagesInv'
<1>1. QueriesTypeOK /\ QueriesTypeOK'
  BY QueriesTyped DEF PagesInv, QueriesNext
<1>2. /\ pc = "select" /\ UNCHANGED <<rows, me, filters, sorts, total, changes>>
      /\ (HasNext /\ pc' = "count" /\ page' = page + 1) \/ (~HasNext /\ pc' = "done" /\ page' = page)
  BY DEF Select
<1>3. PICK s \in Orderings(Matching) : seen' = seen \o PageOf(s)
  BY DEF Select, PageOf
<1>4. /\ Matching' = Matching /\ Orderings(Matching)' = Orderings(Matching)
      /\ (TellsApart' <=> TellsApart)
  BY <1>2, OrderStays
<1>5. ASSUME changes = 0, TellsApart PROVE PagesRead'
  <2> DEFINE n == Cardinality(Matching)
  <2>1. /\ Offset <= n /\ Len(seen) = Offset /\ total = n
        /\ \A k \in 1 .. Offset : seen[k] = s[k]
    BY <1>2, <1>5 DEF PagesInv, PagesRead
  <2>2. /\ n \in Nat /\ Matching \subseteq Stored /\ IsFiniteSet(Matching)
        /\ s \in Seq(Ids) /\ Len(s) = n /\ s \in [1 .. n -> Matching] /\ seen \in Seq(Ids)
    <3>1. Matching \subseteq Stored /\ Matching \subseteq Ids /\ IsFiniteSet(Matching)
      BY <1>1, MatchingFinite DEF Matching
    <3>2. s \in Seq(Matching) /\ Len(s) = n /\ n \in Nat /\ s \in [1 .. n -> Matching]
      BY <3>1, OrderingIsSeq
    <3>3. s \in Seq(Ids) /\ seen \in Seq(Ids)
      BY <1>1, <3>1, <3>2 DEF QueriesTypeOK
    <3> QED  BY <3>1, <3>2, <3>3
  <2>3. Offset \in Nat /\ PageSize \in Nat \ {0} /\ (page' = page + 1 => Offset' = Offset + PageSize)
    <3>1. Offset' = (page' - 1) * PageSize
      BY DEF Offset
    <3>2. ASSUME page' = page + 1 PROVE Offset' = page * PageSize
      <4>1. page' - 1 = page
        BY <1>1, <3>2 DEF QueriesTypeOK
      <4> QED  BY <3>1, <4>1, Zenon
    <3>3. Offset \in Nat /\ PageSize \in Nat \ {0} /\ page * PageSize = Offset + PageSize
      BY <1>1, OffsetIsNat
    <3> QED  BY <3>2, <3>3
  <2>4. /\ PageOf(s) \in Seq(Ids)
        /\ Len(PageOf(s)) = (IF Offset + PageSize < n THEN PageSize ELSE n - Offset)
        /\ \A k \in 1 .. Len(PageOf(s)) : PageOf(s)[k] = s[Offset + k]
    BY <1>1, <2>1, <2>2, PageIsSeq
  <2>5. HasNext <=> Offset + PageSize < n
    BY <2>1 DEF HasNext
  <2> HIDE DEF n
  <2>6. /\ Len(seen') = (IF Offset + PageSize < n THEN Offset + PageSize ELSE n)
        /\ \A k \in 1 .. Len(seen') : seen'[k] = s[k]
    <3>1. Len(seen') = Offset + Len(PageOf(s))
      <4>1. PageOf(s) \in Seq(Ids) /\ seen \in Seq(Ids) /\ Len(seen) = Offset
        BY <2>1, <2>2, <2>4
      <4> QED  BY <1>3, <4>1, Joined
    <3>2. Len(seen') = (IF Offset + PageSize < n THEN Offset + PageSize ELSE n)
      BY <2>1, <2>2, <2>3, <2>4, <3>1
    <3>3. ASSUME NEW k \in 1 .. Len(seen') PROVE seen'[k] = s[k]
      <4>1. CASE k <= Offset
        BY <1>3, <2>1, <2>2, <2>3, <2>4, <3>1, <4>1
      <4>2. CASE k > Offset
        <5>1. k - Offset \in 1 .. Len(PageOf(s)) /\ seen'[k] = PageOf(s)[k - Offset]
          BY <1>3, <2>1, <2>2, <2>3, <2>4, <3>1, <4>2
        <5>2. Offset + (k - Offset) = k
          BY <2>3
        <5> QED  BY <2>4, <5>1, <5>2
      <4> QED  BY <2>3, <4>1, <4>2
    <3> QED  BY <3>2, <3>3
  <2>7. CASE HasNext
    <3>1. pc' = "count" /\ Offset' = Offset + PageSize /\ Offset' <= n /\ Len(seen') = Offset'
      BY <1>2, <2>2, <2>3, <2>5, <2>6, <2>7
    <3>2. \A t \in Orderings(Matching) : t = s
      BY <1>1, <1>5, <2>2, OneOrdering
    <3> QED  BY <1>4, <2>6, <3>1, <3>2 DEF PagesRead, n
  <2>8. CASE ~HasNext
    <3>1. pc' = "done" /\ Len(seen') = n
      BY <1>2, <2>5, <2>6, <2>8
    <3>2. seen' = s
      BY <1>1, <2>2, <2>6, <3>1 DEF QueriesTypeOK
    <3>3. total' = Len(seen')
      BY <1>2, <2>1, <3>1 DEF n
    <3> QED  BY <1>4, <3>1, <3>2, <3>3 DEF PagesRead
  <2> QED  BY <2>7, <2>8
<1>6. changes' = 0 /\ TellsApart' => PagesRead'
  BY <1>2, <1>4, <1>5
<1> QED  BY <1>1, <1>2, <1>6 DEF PagesInv

LEMMA PagesStep ==
  ASSUME PagesInv, [QueriesNext]_queriesVars
  PROVE  PagesInv'
<1>0. QueriesTypeOK'
  BY QueriesTyped DEF PagesInv
<1>1. CASE pc = "build" /\ pc' = "build" /\ UNCHANGED reading
  BY <1>0, <1>1 DEF PagesInv, PagesRead, reading
<1>2. CASE pc = "build" /\ pc' = "count" /\ UNCHANGED <<page, seen, changes>>
  <2>1. Offset' = 0 /\ Len(seen') = 0
    BY <1>2, QueriesAssumption DEF PagesInv, Offset
  <2>2. Cardinality(Matching') \in Nat
    <3>1. Matching' \subseteq Ids
      BY DEF Matching, Stored
    <3> QED  BY <3>1, QueriesAssumption, FS_Subset, FS_CardinalityType
  <2>3. PagesRead'
    BY <1>2, <2>1, <2>2 DEF PagesRead
  <2> QED  BY <1>0, <1>2, <2>3 DEF PagesInv
<1>3. CASE Count
  BY <1>3, CountKeepsPages
<1>4. CASE Select
  BY <1>4, SelectKeepsPages
<1>5. ASSUME NEW i \in Ids, NEW row \in Rows \cup {NoRow}, Change(i, row) PROVE PagesInv'
  <2>1. changes' = changes + 1 /\ changes \in Nat /\ pc' # "build"
    BY <1>5 DEF Change, PagesInv, QueriesTypeOK
  <2>2. changes' # 0
    BY <2>1
  <2> QED  BY <1>0, <2>1, <2>2 DEF PagesInv
<1>6. CASE UNCHANGED queriesVars
  <2>1. Matching' = Matching /\ Orderings(Matching)' = Orderings(Matching)
        /\ (TellsApart' <=> TellsApart) /\ Offset' = Offset
    BY <1>6, OrderStays DEF queriesVars, Offset
  <2> QED  BY <1>0, <1>6, <2>1 DEF queriesVars, PagesInv, PagesRead
<1> QED
  BY <1>1, <1>2, <1>3, <1>4, <1>5, <1>6
  DEF QueriesNext, AddFilter, SortBy, ThenBy, UsePreset, Build, reading

(* An undisturbed reader with an order that tells all rows apart gets      *)
(* every match once and in order, however many rows and pages there are.   *)
THEOREM PagesAreComplete == QueriesSpec => []PagesComplete
<1>1. QueriesInit => PagesInv
  BY QueriesStart DEF QueriesInit, PagesInv, PagesRead
<1>2. PagesInv /\ [QueriesNext]_queriesVars => PagesInv'
  BY PagesStep
<1>3. PagesInv => PagesComplete
  BY DEF PagesInv, PagesRead, PagesComplete, TellsApart
<1> QED  BY <1>1, <1>2, <1>3, PTL DEF QueriesSpec

=============================================================================

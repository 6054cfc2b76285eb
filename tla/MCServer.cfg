SPECIFICATION ServerSpec
CONSTANTS
  Concepts = {project, item}
  Masks = {all}
  Span = 3
  BucketWidth = 2
  Names = {subject, status}
  MaxChildren = 2
  MaxFields = 5
  Clients = {c1, c2}
  MaxRequests = 3
  Unread = Unread
  root = root
  anna = anna
  p1 = p1
  p2 = p2
  w1 = w1
  c1 = c1
  c2 = c2
  None = None
  Global = Global
  Anonymous = Anonymous
  Users <- MCUsers
  Projects <- MCProjects
  Packages <- MCPackages
  Contexts <- MCContexts
  Grants <- MCGrants
  UserRequests <- MCUserRequests
  ProjectRequests <- MCProjectRequests
  PackageRequests <- MCPackageRequests
  DefaultProject = p1
  NewUser = anna
  NewProject = p2
  NewPackage = w1
  Ids = {1, 2, 3}
  Rows <- MCRows
  Callers = {1, Null}
  Conditions <- MCConditions
  Criteria <- MCCriteria
  PresetsUsed = {"my_work_packages", "created_by_me", "watched_by_me", "all_open", "recently_updated", "basic_board", "gantt_chart", "overdue"}
  WeekStart <- Monday
  PageSize = 2
  MaxFilters = 1
  MaxCriteria = 2
  MaxChanges = 1
  Null = Null
  NoRow = NoRow
  Identifiers <- MCIdentifiers
  Streams <- MCStreams
  ExtraTargets = {"User", "Type"}
  TargetClass <- Targets
  ForeignKey <- Keys
  IndexName <- MCIndexName
  MaxRepeats = 2
  Nil = Nil
INVARIANT Bijective
INVARIANT BucketsMatchDirect
INVARIANT AddUp
INVARIANT OppositesDivide
INVARIANT PagesComplete
INVARIANT NothingDangles
INVARIANT AssociationOwnsColumn
INVARIANT ValidatedIsAsserted
PROPERTY EntersWhereAllowed
CHECK_DEADLOCK FALSE

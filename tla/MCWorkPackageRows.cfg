SPECIFICATION Spec
CONSTANTS
  c1 = c1
  c2 = c2
  c3 = c3
  wp1 = wp1
  None = None
  Ids <- OneRow
  Clients <- WithCareless
  Quoting <- Careful
  Statuses = {"new"}
  Users = {"anna"}
  Parents = {"epic"}
  MaxVersion = 2
INVARIANT VersionNamesContent
PROPERTY FormKeepsHidden
PROPERTY ImplementsLinkedStore

SPECIFICATION SchemaSpec
CONSTANTS
  Identifiers <- MCIdentifiers
  Streams <- MCStreams
  ExtraTargets = {"User", "Type"}
  TargetClass <- Targets
  ForeignKey <- Keys
  IndexName <- MCIndexName
  MaxRepeats = 2
  Nil = Nil
INVARIANT AssertsInAnyOrder
CHECK_DEADLOCK FALSE

CONSTANTS
  c1 = c1
  c2 = c2
  Callers <- MCCallers
  Force <- MCNoForce
  Rounds = 1
  MaxFiles = 5
SPECIFICATION Spec
INVARIANT TypeOK CounterMatchesHolders SnapshotFilesKept
PROPERTY ObsoleteEventuallyDeleted GuardSpec
CHECK_DEADLOCK FALSE

SPECIFICATION FairSpec
CONSTANTS
  MaxAccepts = 1
  MaxRetries = 2
  MaxRemovals = 1
INVARIANTS
  TypeOK
  ConnectedIsActive
  ActiveHasConnection
  SoleConnection
PROPERTIES
  ThreadlessIsReset
  RemovalWaitsForReply
CHECK_DEADLOCK FALSE

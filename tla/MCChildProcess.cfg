SPECIFICATION ChildSpec
INVARIANTS
  LateResultIsTaken
  BlocksOnlyForSender
  NoOrphan
PROPERTIES
  ExecutionEnds
  ObedientChildEnds
CHECK_DEADLOCK FALSE

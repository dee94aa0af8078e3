SPECIFICATION FairSpec
CONSTANTS
  nChildren = 2
  mTasks = 2
PROPERTY ParentFindsOut
CHECK_DEADLOCK FALSE

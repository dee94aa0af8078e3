SPECIFICATION FairSpec
CONSTANT MAX_BUFFER_SIZE = 5
INVARIANTS Requirements NoLostWakeUp
PROPERTY BlockedGoOn
CHECK_DEADLOCK FALSE

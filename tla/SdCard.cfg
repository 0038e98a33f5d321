SPECIFICATION SdFairSpec
CONSTANT MaxEdges = 3
INVARIANTS DetectionArmed SuccessMeansDone
PROPERTIES MountFollowsCard RequestsEnd
CHECK_DEADLOCK FALSE

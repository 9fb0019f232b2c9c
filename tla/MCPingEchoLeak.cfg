\* Are send buffers returned when ibv_post_send fails?
CONSTANTS
    MaxSend <- MCMaxSend
    PoolSize <- MCPoolSize
    Faults <- MCFaultsAll
SPECIFICATION Spec
INVARIANT SendBuffersReturned
CHECK_DEADLOCK FALSE

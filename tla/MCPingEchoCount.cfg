\* Does the client send more pings than --count when the link fails before
\* onConnected runs?
CONSTANTS
    MaxSend <- MCMaxSendOne
    PoolSize <- MCPoolSize
    Faults <- MCFaultsAll
SPECIFICATION Spec
PROPERTY PingsWithinCount
CHECK_DEADLOCK FALSE

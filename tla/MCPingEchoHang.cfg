\* Does the PingClient always end?  Every handled failure enabled.
CONSTANTS
    MaxSend <- MCMaxSend
    PoolSize <- MCPoolSize
    Faults <- MCFaultsAll
SPECIFICATION Spec
PROPERTY PingClientTerminates
CHECK_DEADLOCK FALSE

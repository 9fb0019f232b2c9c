\* The PingClient and EchoServer with no environment failure: the client
\* disconnects after its pings, and the server's posted receives flush.
CONSTANTS
    MaxSend <- MCMaxSend
    PoolSize <- MCPoolSize
    Faults <- MCFaultsNone
SPECIFICATION Spec
INVARIANT EchoAnswersPing
CHECK_DEADLOCK FALSE

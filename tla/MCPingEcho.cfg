\* The PingClient and EchoServer over one connection, with every failure
\* the code checks for enabled.
CONSTANTS
    MaxSend <- MCMaxSend
    PoolSize <- MCPoolSize
    Faults <- MCFaultsAll
SPECIFICATION Spec
INVARIANT TypeOK
INVARIANT UpcallOrder
INVARIANT NoWorkOnRemovedConnection
INVARIANT RegisteredBeforeHandshake
INVARIANT CloseNeverSpins
PROPERTY ConnectAnswered
PROPERTY TeardownCompletes
PROPERTY ImplementsLifecycle
\* EchoServer's service.run() never returns: once the connection is gone
\* the system idles.
CHECK_DEADLOCK FALSE

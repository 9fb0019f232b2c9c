----------------------------- MODULE MCPingEcho -----------------------------
(* Model-checking instance of PingEcho. *)
EXTENDS PingEcho

\* Two pings exercise both branches of PingConnection::onReceive.
MCMaxSend == 2

\* A single ping: onConnected's send is then the only one the count allows.
MCMaxSendOne == 1

\* One buffer per pool: stop-and-wait never needs more, and an empty pool
\* is reached after a single leaked buffer.
MCPoolSize == 1

\* Every environment call that the code checks for failure may fail.
MCFaultsAll == FaultKinds

\* All but ibv_post_send, whose failure leaks a buffer.
MCFaultsNoPost == FaultKinds \ {"post"}

\* No environment call fails.
MCFaultsNone == {}
=============================================================================

--------------------------- MODULE SocketLifecycle ---------------------------
(***************************************************************************)
(* What an InfinibandSocket promises the handler of a connection, seen     *)
(* from the handler: one onConnected, with success or an error; after a    *)
(* successful one, at most an onDisconnect and then an onDisconnected.     *)
(* The connection's work (posted work requests and completions not yet     *)
(* polled) may exist only while the connection is being set up or is in   *)
(* use: an error report and the final onDisconnected come only once it is  *)
(* drained, and no work appears after them.                                *)
(*                                                                         *)
(* Work may exist before onConnected: the peer may send as soon as its     *)
(* own side is established, before this side's ESTABLISHED closure runs.   *)
(***************************************************************************)

CONSTANT Sockets

Phase == {"new", "connected", "failed", "disconnecting", "closed"}

VARIABLES
    phase,  \* the upcalls the handler has received, as a phase
    work    \* the connection has outstanding work requests or completions

vars == <<phase, work>>

TypeOK ==
    /\ phase \in [Sockets -> Phase]
    /\ work \in [Sockets -> BOOLEAN]

Init ==
    /\ phase = [s \in Sockets |-> "new"]
    /\ work = [s \in Sockets |-> FALSE]

\* onConnected without an error; the handler may post work from it.
Connected(s) ==
    /\ phase[s] = "new"
    /\ phase' = [phase EXCEPT ![s] = "connected"]
    /\ \E posted \in BOOLEAN : work' = [work EXCEPT ![s] = @ \/ posted]

\* onConnected with an error: the connection never carried traffic.
Failed(s) ==
    /\ phase[s] = "new"
    /\ ~work[s]
    /\ phase' = [phase EXCEPT ![s] = "failed"]
    /\ UNCHANGED work

\* Work is posted, completed or polled while the connection is live.
Traffic(s) ==
    /\ phase[s] \in {"new", "connected", "disconnecting"}
    /\ work' = [work EXCEPT ![s] = ~@]
    /\ UNCHANGED phase

\* onDisconnect.
Disconnect(s) ==
    /\ phase[s] = "connected"
    /\ phase' = [phase EXCEPT ![s] = "disconnecting"]
    /\ UNCHANGED work

\* onDisconnected, once the connection is drained.
Closed(s) ==
    /\ phase[s] = "disconnecting"
    /\ ~work[s]
    /\ phase' = [phase EXCEPT ![s] = "closed"]
    /\ UNCHANGED work

Next == \E s \in Sockets :
    Connected(s) \/ Failed(s) \/ Traffic(s) \/ Disconnect(s) \/ Closed(s)

\* A connection whose handler was told of the disconnect is eventually
\* closed once it is drained.
Spec == Init /\ [][Next]_vars /\ \A s \in Sockets : WF_vars(Closed(s))

=============================================================================

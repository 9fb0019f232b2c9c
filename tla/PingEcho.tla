------------------------------ MODULE PingEcho ------------------------------
(***************************************************************************)
(* One RDMA connection of the infinio library (InfinibandSocket.cpp)       *)
(* between the PingClient and the EchoServer example programs.             *)
(*                                                                         *)
(* Threads.  Each side runs an InfinibandService whose event thread        *)
(* receives connection-manager (CM) events and calls the socket's onXxx    *)
(* method; except for onConnection, onXxx only hands a closure to          *)
(* mProcessor->execute, so the CM event action appends a task to the       *)
(* processor's FIFO queue.  The processor thread runs queued closures and  *)
(* polls the completion queue; each closure, each completion and the user  *)
(* handler it calls run to the end without interruption (one action).      *)
(*                                                                         *)
(* Abstractions.  The CM (librdmacm), DeviceContext (addConnection,        *)
(* removeConnection, drainConnection, completion polling, the send buffer  *)
(* pool) and the NIC are not in the repository; they are modelled from the *)
(* specification.  Registration of a connection with the processor and     *)
(* creation of its queue pair happen together in addConnection, so one     *)
(* flag "qp" stands for both.  Message contents, addresses and handshake   *)
(* payloads are left out: no handler of the examples branches on them.    *)
(* Receive buffers are always posted (they are reposted by DeviceContext): *)
(* they are tracked only as a whole, for the flush errors they complete    *)
(* with once the connection breaks.                                        *)
(***************************************************************************)
EXTENDS Naturals, Sequences, SequencesExt

CONSTANTS
    MaxSend,   \* the PingClient's --count (mMaxSend)
    PoolSize,  \* send buffers in each processor's pool
    Faults     \* which environment calls may fail, a subset of FaultKinds

FaultKinds == {"create", "resolve", "register", "connect", "accept", "post", "network"}

ASSUME MaxSend \in Nat /\ PoolSize \in Nat \ {0} /\ Faults \subseteq FaultKinds

\* The outcomes an environment call of kind f can have in this model.
Outcomes(f) == IF f \in Faults THEN BOOLEAN ELSE {TRUE}

Cli == "cli"   \* the PingClient's socket
Srv == "srv"   \* the socket the EchoServer's acceptor creates for the request
Sock == {Cli, Srv}
Peer(s) == IF s = Cli THEN Srv ELSE Cli

\* The CM state of a socket's rdma_cm_id, named after the call or event
\* that put it there.  "none": the server has no id for the request yet;
\* "gone": the server destroyed the id without accepting.
CmState == {"none", "idle", "addrQuery", "addrResolved", "routeQuery",
            "routeResolved", "connecting", "accepting", "established",
            "disconnecting", "disconnected", "exited", "failed", "gone"}

\* The closures InfinibandSocketImpl hands to mProcessor->execute.
Task == {"AddressResolved", "RouteResolved", "ResolutionError",
         "ConnectionError", "ConnectionRejected", "ConnectionEstablished",
         "Disconnected", "TimewaitExit"}

\* The handler upcalls the properties are about.
Upcall == {"connOk", "connErr", "disconnect", "disconnected"}

VARIABLES
    sock,      \* sock[s].id: mId # nullptr; .qp: mId->qp # nullptr, i.e. the
               \* connection is registered with the processor's context;
               \* .proc: mProcessor # nullptr
    cm,        \* the CM's state of each socket's id
    tasks,     \* the execute() queue of the processor owning each socket
    draining,  \* drainConnection was called, onDrained was not yet
    sendWr,    \* signalled send work requests posted and not completed
    sendCq,    \* send completions waiting in the processor's completion queue
    recvCq,    \* receive completions waiting in the processor's completion queue
    rxFlush,   \* the receive work requests DeviceContext keeps posted: "posted",
               \* "flushed" (their flush-error completions wait to be polled)
               \* or "polled"
    freeBufs,  \* free buffers in each processor's send buffer pool
    mSend,     \* PingConnection::mSend
    client,    \* the PingClient process: "init", "running", "shutdown", "aborted"
    spinning,  \* sockets whose close() spins forever on `while (mId->qp)`
    upcalls,   \* the connection upcalls each socket's handler has received
    echoes     \* history: the echoes EchoConnection::onReceive has sent

vars == <<sock, cm, tasks, draining, sendWr, sendCq, recvCq, rxFlush, freeBufs,
          mSend, client, spinning, upcalls, echoes>>

SockRec == [id : BOOLEAN, qp : BOOLEAN, proc : BOOLEAN]

TypeOK ==
    /\ sock \in [Sock -> SockRec]
    /\ cm \in [Sock -> CmState]
    /\ tasks \in [Sock -> Seq(Task)]
    /\ draining \in [Sock -> BOOLEAN]
    /\ sendWr \in [Sock -> 0..PoolSize]
    /\ sendCq \in [Sock -> 0..PoolSize]
    /\ recvCq \in [Sock -> 0..PoolSize]
    /\ rxFlush \in [Sock -> {"posted", "flushed", "polled"}]
    /\ freeBufs \in [Sock -> 0..PoolSize]
    /\ mSend \in 0..MaxSend + 1
    /\ client \in {"init", "running", "shutdown", "aborted"}
    /\ spinning \subseteq Sock
    /\ upcalls \in [Sock -> Seq(Upcall)]
    /\ echoes \in 0..MaxSend + 2

\* The client socket is created by createSocket(*mProcessor), so it has its
\* processor; the server socket does not exist until a request arrives.
Init ==
    /\ sock = [s \in Sock |-> [id |-> FALSE, qp |-> FALSE, proc |-> s = Cli]]
    /\ cm = [s \in Sock |-> "none"]
    /\ tasks = [s \in Sock |-> <<>>]
    /\ draining = [s \in Sock |-> FALSE]
    /\ sendWr = [s \in Sock |-> 0]
    /\ sendCq = [s \in Sock |-> 0]
    /\ recvCq = [s \in Sock |-> 0]
    /\ rxFlush = [s \in Sock |-> "posted"]
    /\ freeBufs = [s \in Sock |-> PoolSize]
    /\ mSend = 0
    /\ client = "init"
    /\ spinning = {}
    /\ upcalls = [s \in Sock |-> <<>>]
    /\ echoes = 0
-----------------------------------------------------------------------------
(***************************************************************************)
(* DeviceContext and the socket library, as operators on one socket.      *)
(***************************************************************************)

\* DeviceContext::addConnection creates the queue pair and registers the id
\* with the processor; removeConnection destroys and unregisters it.
AddConnection(r) == [r EXCEPT !.qp = TRUE]
RemoveConnection(r) == [r EXCEPT !.qp = FALSE]

\* close(): nothing to do without an id; otherwise spin while a queue pair is
\* attached, then rdma_destroy_id.  The spin never ends when the thread that
\* would detach the queue pair is the spinning one, so it is reported apart.
CloseSpins(r) == r.id /\ r.qp
Close(r) == IF r.id /\ ~r.qp THEN [r EXCEPT !.id = FALSE] ELSE r

\* disconnect(): rdma_disconnect succeeds only on an established id; the
\* examples catch and print the error it throws otherwise.
Disconnect(s) ==
    cm' = [cm EXCEPT ![s] = IF sock[s].id /\ @ = "established"
                               THEN "disconnecting" ELSE @]

\* PingConnection::handleError: print, then disconnect(), whose error is
\* caught and printed.
Ping_handleError == Disconnect(Cli)

\* EchoConnection::handleError: the same, on the server's socket.
Echo_handleError == Disconnect(Srv)

\* The handleError of the object that called send().
HandleError(s) == IF s = Cli THEN Ping_handleError ELSE Echo_handleError

\* ~EchoConnection: close() the socket, catching and printing its error.
EchoConnection_destroy(r) == Close(r)

\* send() and doSend(): ibv_post_send either queues the work request or
\* fails and sets ec, on which the examples call handleError.  The
\* acquired buffer is not released on failure: it is lost to the pool.
Send(s) ==
    \E ok \in Outcomes("post") :
        IF ok THEN sendWr' = [sendWr EXCEPT ![s] = @ + 1] /\ UNCHANGED cm
              ELSE HandleError(s) /\ UNCHANGED sendWr

Log(s, u) == upcalls' = [upcalls EXCEPT ![s] = Append(@, u)]

-----------------------------------------------------------------------------
(***************************************************************************)
(* Handlers of the examples.  Upcalls of the connection phase change       *)
(* <<upcalls, freeBufs, mSend, sendWr, cm>>; onDisconnected changes        *)
(* <<upcalls, sock, client, spinning>>.                                    *)
(***************************************************************************)

\* Mutant: the buffer is used without checking it against INVALID_ID.
SendMessage_NoCheck ==
    /\ freeBufs' = [freeBufs EXCEPT ![Cli] = @ - 1]
    /\ mSend' = mSend + 1
    /\ Send(Cli)
    /\ UNCHANGED echoes

\* PingConnection::sendMessage: acquireSendBuffer(8) is invalid when the
\* pool is empty; otherwise count the ping and send it.
SendMessage ==
    \/ /\ freeBufs[Cli] = 0
       /\ Ping_handleError
       /\ UNCHANGED <<freeBufs, mSend, echoes, sendWr>>
    \/ /\ freeBufs[Cli] > 0
       /\ freeBufs' = [freeBufs EXCEPT ![Cli] = @ - 1]
       /\ mSend' = mSend + 1
       /\ Send(Cli)
       /\ UNCHANGED echoes

Ping_onConnected(ok) ==
    IF ok THEN Log(Cli, "connOk") /\ SendMessage
          ELSE Log(Cli, "connErr") /\ UNCHANGED <<freeBufs, mSend, echoes, sendWr, cm>>

Ping_onReceive ==
    IF mSend < MaxSend
    THEN SendMessage
    ELSE Disconnect(Cli) /\ UNCHANGED <<freeBufs, mSend, echoes, sendWr>>

Ping_onDisconnect ==
    Log(Cli, "disconnect") /\ Disconnect(Cli) /\ UNCHANGED <<freeBufs, mSend, echoes, sendWr>>

\* Mutant: the service is not shut down.
Ping_onDisconnected_NoShutdown(r) ==
    /\ Log(Cli, "disconnected")
    /\ sock' = [sock EXCEPT ![Cli] = Close(r)]
    /\ spinning' = IF CloseSpins(r) THEN spinning \cup {Cli} ELSE spinning
    /\ UNCHANGED client

\* close() the socket, then mService.shutdown(); r is the socket after
\* onDrained's removeConnection.
Ping_onDisconnected(r) ==
    /\ Log(Cli, "disconnected")
    /\ sock' = [sock EXCEPT ![Cli] = Close(r)]
    /\ spinning' = IF CloseSpins(r) THEN spinning \cup {Cli} ELSE spinning
    /\ client' = IF CloseSpins(r) THEN client ELSE "shutdown"

Echo_onConnected(ok) ==
    Log(Srv, IF ok THEN "connOk" ELSE "connErr") /\ UNCHANGED <<freeBufs, mSend, echoes, sendWr, cm>>

\* Acquire a buffer of the received length and send the message back; the
\* receive's error code is not looked at.
Echo_onReceive ==
    /\ \/ /\ freeBufs[Srv] = 0
          /\ Echo_handleError
          /\ UNCHANGED <<freeBufs, sendWr, echoes>>
       \/ /\ freeBufs[Srv] > 0
          /\ freeBufs' = [freeBufs EXCEPT ![Srv] = @ - 1]
          /\ echoes' = echoes + 1
          /\ Send(Srv)
    /\ UNCHANGED mSend

Echo_onDisconnect ==
    Log(Srv, "disconnect") /\ Disconnect(Srv) /\ UNCHANGED <<freeBufs, mSend, echoes, sendWr>>

Echo_onDisconnected(r) ==
    /\ Log(Srv, "disconnected")
    /\ sock' = [sock EXCEPT ![Srv] = r]
    /\ UNCHANGED <<client, spinning>>

\* mHandler->onXxx: the client socket's handler is the PingConnection, the
\* server socket's the EchoConnection.
OnConnectedUpcall(s, ok) == IF s = Cli THEN Ping_onConnected(ok) ELSE Echo_onConnected(ok)
OnReceiveUpcall(s) == IF s = Cli THEN Ping_onReceive ELSE Echo_onReceive
OnDisconnectUpcall(s) == IF s = Cli THEN Ping_onDisconnect ELSE Echo_onDisconnect
OnDisconnectedUpcall(s, r) == IF s = Cli THEN Ping_onDisconnected(r) ELSE Echo_onDisconnected(r)

-----------------------------------------------------------------------------
(***************************************************************************)
(* Calls made outside the processor threads.                               *)
(***************************************************************************)

\* open(): rdma_create_id gives the socket its id, or throws.
Open(r, created) == [r EXCEPT !.id = created]

\* connect(ep, data): rdma_resolve_addr starts address resolution, or
\* throws and leaves the id idle.
Connect(resolving) == IF resolving THEN "addrQuery" ELSE "idle"

\* The PingConnection constructor on the main thread: open() (rdma_create_id)
\* then connect(ep, "PingClient") (rdma_resolve_addr).  Either call throws
\* on failure, and nothing in main catches it: the process terminates.
PingConnection ==
    /\ client = "init"
    /\ \E created \in Outcomes("create"), resolving \in Outcomes("resolve") :
        /\ sock' = [sock EXCEPT ![Cli] = Open(@, created)]
        /\ cm' = [cm EXCEPT ![Cli] = IF created THEN Connect(resolving) ELSE "none"]
        /\ client' = IF created /\ resolving THEN "running" ELSE "aborted"
    /\ UNCHANGED <<tasks, draining, sendWr, sendCq, recvCq, rxFlush, freeBufs, mSend, echoes,
                   spinning, upcalls>>

\* accept(data, processor) on a socket without a processor: set mProcessor,
\* addConnection (reg: it did not throw), rdma_accept (acc: it succeeded),
\* removeConnection if rdma_accept failed.  The exception leaves mProcessor
\* set.
Accept(r, reg, acc) ==
    LET r1 == [r EXCEPT !.proc = TRUE, !.qp = reg]
    IN IF reg /\ ~acc THEN RemoveConnection(r1) ELSE r1

\* The server's event thread on RDMA_CM_EVENT_CONNECT_REQUEST: a socket is
\* made for the new id and EchoAcceptor::onConnection accepts it.  If
\* accept() throws, onConnection returns and ~EchoConnection closes the
\* socket.
EchoAcceptor_onConnection ==
    /\ cm[Cli] = "connecting"
    /\ cm[Srv] = "none"
    /\ ~sock[Srv].proc
    /\ \E reg \in Outcomes("register"), acc \in Outcomes("accept") :
        LET r == Accept([sock[Srv] EXCEPT !.id = TRUE], reg, acc)
            ok == reg /\ acc
        IN /\ sock' = [sock EXCEPT ![Srv] = IF ok THEN r ELSE EchoConnection_destroy(r)]
           /\ spinning' = IF ~ok /\ CloseSpins(r) THEN spinning \cup {Srv} ELSE spinning
           /\ cm' = [cm EXCEPT ![Srv] = IF ok THEN "accepting" ELSE "gone"]
    /\ UNCHANGED <<tasks, draining, sendWr, sendCq, recvCq, rxFlush, freeBufs, mSend, echoes,
                   client, upcalls>>

-----------------------------------------------------------------------------
(***************************************************************************)
(* The connection manager.  Each event is dispatched by the service's      *)
(* event thread to an onXxx method that appends its closure to the         *)
(* processor's queue.  The client's event thread stops at shutdown().     *)
(***************************************************************************)

Dispatching(s) == s = Srv \/ client = "running"

Enqueue(s, t) == tasks' = [tasks EXCEPT ![s] = Append(@, t)]

CmUnchanged == UNCHANGED <<sock, draining, sendWr, sendCq, recvCq, rxFlush, freeBufs,
                           mSend, echoes, client, spinning, upcalls>>

\* rdma_resolve_addr completes within gTimeout: ADDR_RESOLVED or ADDR_ERROR.
CmAddressResolution(s) ==
    /\ Dispatching(s)
    /\ cm[s] = "addrQuery"
    /\ \E ok \in Outcomes("resolve") :
        /\ cm' = [cm EXCEPT ![s] = IF ok THEN "addrResolved" ELSE "failed"]
        /\ Enqueue(s, IF ok THEN "AddressResolved" ELSE "ResolutionError")
    /\ CmUnchanged

\* rdma_resolve_route completes within gTimeout: ROUTE_RESOLVED or ROUTE_ERROR.
CmRouteResolution(s) ==
    /\ Dispatching(s)
    /\ cm[s] = "routeQuery"
    /\ \E ok \in Outcomes("resolve") :
        /\ cm' = [cm EXCEPT ![s] = IF ok THEN "routeResolved" ELSE "failed"]
        /\ Enqueue(s, IF ok THEN "RouteResolved" ELSE "ResolutionError")
    /\ CmUnchanged

\* ESTABLISHED on both sides once the request is accepted.
CmEstablished ==
    /\ Dispatching(Cli)
    /\ cm[Cli] = "connecting"
    /\ cm[Srv] = "accepting"
    /\ cm' = [s \in Sock |-> "established"]
    /\ tasks' = [s \in Sock |-> Append(tasks[s], "ConnectionEstablished")]
    /\ CmUnchanged

\* REJECTED at the client when the server destroyed the request's id.
CmRejected ==
    /\ Dispatching(Cli)
    /\ cm[Cli] = "connecting"
    /\ cm[Srv] = "gone"
    /\ cm' = [cm EXCEPT ![Cli] = "failed"]
    /\ Enqueue(Cli, "ConnectionRejected")
    /\ CmUnchanged

\* CONNECT_ERROR or UNREACHABLE: the handshake fails in the network, at the
\* client and, if the server had accepted, at the server too.
CmConnectError ==
    /\ "network" \in Faults
    /\ Dispatching(Cli)
    /\ cm[Cli] = "connecting"
    /\ cm[Srv] \in {"none", "accepting"}
    /\ LET both == cm[Srv] = "accepting"
           hit == IF both THEN Sock ELSE {Cli}
       IN /\ cm' = [s \in Sock |-> IF s \in hit THEN "failed" ELSE cm[s]]
          /\ tasks' = [s \in Sock |-> IF s \in hit THEN Append(tasks[s], "ConnectionError")
                                                   ELSE tasks[s]]
    /\ CmUnchanged

\* DISCONNECTED at a side that called rdma_disconnect, whose peer did, or
\* whose link failed.
CmDisconnected(s) ==
    /\ Dispatching(s)
    /\ \/ cm[s] = "disconnecting"
       \/ cm[s] = "established" /\ cm[Peer(s)] \in {"disconnecting", "disconnected", "exited"}
       \/ cm[s] = "established" /\ "network" \in Faults
    /\ cm' = [cm EXCEPT ![s] = "disconnected"]
    /\ Enqueue(s, "Disconnected")
    /\ CmUnchanged

\* TIMEWAIT_EXIT once the queue pair has left the time-wait state.
CmTimewaitExit(s) ==
    /\ Dispatching(s)
    /\ cm[s] = "disconnected"
    /\ cm' = [cm EXCEPT ![s] = "exited"]
    /\ Enqueue(s, "TimewaitExit")
    /\ CmUnchanged

-----------------------------------------------------------------------------
(***************************************************************************)
(* The NIC: a send is delivered while both queue pairs are connected and   *)
(* completes with a flush error otherwise; posted receives are flushed.   *)
(***************************************************************************)

Linked(s) == cm[s] = "established" /\ cm[Peer(s)] = "established"

HwTransmit(s) ==
    /\ sendWr[s] > 0
    /\ Linked(s)
    /\ sendWr' = [sendWr EXCEPT ![s] = @ - 1]
    /\ sendCq' = [sendCq EXCEPT ![s] = @ + 1]
    /\ recvCq' = [recvCq EXCEPT ![Peer(s)] = @ + 1]
    /\ UNCHANGED <<sock, cm, tasks, draining, rxFlush, freeBufs, mSend, echoes, client, spinning, upcalls>>

HwFlush(s) ==
    /\ sendWr[s] > 0
    /\ ~Linked(s)
    /\ sendWr' = [sendWr EXCEPT ![s] = @ - 1]
    /\ sendCq' = [sendCq EXCEPT ![s] = @ + 1]
    /\ UNCHANGED <<sock, cm, tasks, draining, recvCq, rxFlush, freeBufs, mSend, echoes, client, spinning, upcalls>>

\* Once the queue pair of an established connection has left the
\* connected state, the receive work requests posted on it complete with
\* a flush error.
HwFlushReceive(s) ==
    /\ sock[s].qp
    /\ cm[s] \in {"disconnecting", "disconnected", "exited"}
    /\ rxFlush[s] = "posted"
    /\ rxFlush' = [rxFlush EXCEPT ![s] = "flushed"]
    /\ UNCHANGED <<sock, cm, tasks, draining, sendWr, sendCq, recvCq, freeBufs, mSend,
                   client, spinning, upcalls, echoes>>

-----------------------------------------------------------------------------
(***************************************************************************)
(* The processor threads: execute() closures of InfinibandSocketImpl, in   *)
(* queue order, and completions polled by DeviceContext.  The client's     *)
(* processor stops at shutdown() and while its thread spins in close().    *)
(***************************************************************************)

Running(s) == s \notin spinning /\ (s = Srv \/ client = "running")

\* Run the closure t at the head of the queue.
Exec(s, t) ==
    /\ Running(s)
    /\ tasks[s] # <<>>
    /\ Head(tasks[s]) = t
    /\ tasks' = [tasks EXCEPT ![s] = Tail(@)]

ExecUnchanged == UNCHANGED <<draining, sendCq, recvCq, rxFlush, client, spinning>>

\* Mutant: a failed rdma_resolve_route is not reported to the handler.
OnAddressResolved_Silent(s) ==
    /\ Exec(s, "AddressResolved")
    /\ \E ok \in Outcomes("resolve") :
        /\ cm' = [cm EXCEPT ![s] = IF ok THEN "routeQuery" ELSE @]
        /\ UNCHANGED <<upcalls, freeBufs, mSend, echoes, sendWr>>
    /\ UNCHANGED sock
    /\ ExecUnchanged

\* rdma_resolve_route, or onConnected with its error.
OnAddressResolved(s) ==
    /\ Exec(s, "AddressResolved")
    /\ \E ok \in Outcomes("resolve") :
        IF ok THEN /\ cm' = [cm EXCEPT ![s] = "routeQuery"]
                   /\ UNCHANGED <<upcalls, freeBufs, mSend, echoes, sendWr>>
              ELSE OnConnectedUpcall(s, FALSE)
    /\ UNCHANGED sock
    /\ ExecUnchanged

\* Mutant: no return after reporting a failed addConnection.
OnRouteResolved_NoReturn(s) ==
    /\ Exec(s, "RouteResolved")
    /\ \E reg \in Outcomes("register"), con \in Outcomes("connect") :
        \/ /\ con
           /\ sock' = [sock EXCEPT ![s] = IF reg THEN AddConnection(@) ELSE @]
           /\ cm' = [cm EXCEPT ![s] = "connecting"]
           /\ IF reg THEN UNCHANGED <<upcalls, freeBufs, mSend, echoes, sendWr>>
                     ELSE /\ Log(s, "connErr")
                          /\ UNCHANGED <<freeBufs, mSend, echoes, sendWr>>
        \/ /\ ~con
           /\ sock' = [sock EXCEPT ![s] = RemoveConnection(@)]
           /\ OnConnectedUpcall(s, FALSE)
    /\ ExecUnchanged

\* addConnection (onConnected with the error if it throws), then
\* rdma_connect (removeConnection and onConnected with the error if it fails).
OnRouteResolved(s) ==
    /\ Exec(s, "RouteResolved")
    /\ \E reg \in Outcomes("register"), con \in Outcomes("connect") :
        \/ /\ ~reg
           /\ OnConnectedUpcall(s, FALSE)
           /\ UNCHANGED sock
        \/ /\ reg /\ con
           /\ sock' = [sock EXCEPT ![s] = AddConnection(@)]
           /\ cm' = [cm EXCEPT ![s] = "connecting"]
           /\ UNCHANGED <<upcalls, freeBufs, mSend, echoes, sendWr>>
        \/ /\ reg /\ ~con
           /\ sock' = [sock EXCEPT ![s] = RemoveConnection(AddConnection(@))]
           /\ OnConnectedUpcall(s, FALSE)
    /\ ExecUnchanged

OnResolutionError(s) ==
    /\ Exec(s, "ResolutionError")
    /\ OnConnectedUpcall(s, FALSE)
    /\ UNCHANGED sock
    /\ ExecUnchanged

OnConnectionError(s) ==
    /\ Exec(s, "ConnectionError")
    /\ sock' = [sock EXCEPT ![s] = RemoveConnection(@)]
    /\ OnConnectedUpcall(s, FALSE)
    /\ ExecUnchanged

\* onConnected(data, connection_refused) after removeConnection.
OnConnectionRejected(s) ==
    /\ Exec(s, "ConnectionRejected")
    /\ sock' = [sock EXCEPT ![s] = RemoveConnection(@)]
    /\ OnConnectedUpcall(s, FALSE)
    /\ ExecUnchanged

OnConnectionEstablished(s) ==
    /\ Exec(s, "ConnectionEstablished")
    /\ OnConnectedUpcall(s, TRUE)
    /\ UNCHANGED sock
    /\ ExecUnchanged

\* Mutant: the handler's onDisconnected() called for DISCONNECTED.
OnDisconnected_WrongUpcall(s) ==
    /\ Exec(s, "Disconnected")
    /\ OnDisconnectedUpcall(s, sock[s])
    /\ UNCHANGED <<cm, freeBufs, mSend, echoes, sendWr, draining, sendCq, recvCq, rxFlush>>

\* onDisconnected() of the socket calls the handler's onDisconnect().
OnDisconnected(s) ==
    /\ Exec(s, "Disconnected")
    /\ OnDisconnectUpcall(s)
    /\ UNCHANGED sock
    /\ ExecUnchanged

\* Mutant: the handler is notified before removeConnection.
OnDrained_NotifyFirst(s) == OnDisconnectedUpcall(s, sock[s])

\* InfinibandSocketImpl::onDrained: removeConnection, then the handler's
\* onDisconnected.
OnDrained(s) == OnDisconnectedUpcall(s, RemoveConnection(sock[s]))

\* Mutant: the socket is taken down at TIMEWAIT_EXIT without draining.
OnTimewaitExit_NoDrain(s) ==
    /\ Exec(s, "TimewaitExit")
    /\ OnDrained(s)
    /\ UNCHANGED <<cm, draining, sendWr, sendCq, recvCq, rxFlush, freeBufs, mSend, echoes>>

\* drainConnection(this): DeviceContext waits for the queue pair to drain.
OnTimewaitExit(s) ==
    /\ Exec(s, "TimewaitExit")
    /\ draining' = [draining EXCEPT ![s] = TRUE]
    /\ UNCHANGED <<sock, cm, sendWr, sendCq, recvCq, rxFlush, freeBufs, mSend, echoes, client,
                   spinning, upcalls>>

\* DeviceContext calls onDrained on the processor thread once no work
\* request of the connection is outstanding and none of its completions
\* waits to be polled.
DrainComplete(s) ==
    /\ Running(s)
    /\ draining[s]
    /\ sendWr[s] = 0 /\ sendCq[s] = 0 /\ recvCq[s] = 0 /\ rxFlush[s] = "polled"
    /\ draining' = [draining EXCEPT ![s] = FALSE]
    /\ OnDrained(s)
    /\ UNCHANGED <<cm, tasks, sendWr, sendCq, recvCq, rxFlush, freeBufs, mSend, echoes>>

\* A send completion (success or flush error) returns the buffer to the pool
\* (releaseSendBuffer); onSend is the empty default in both examples.
PollSendCompletion(s) ==
    /\ Running(s)
    /\ sendCq[s] > 0
    /\ sendCq' = [sendCq EXCEPT ![s] = @ - 1]
    /\ freeBufs' = [freeBufs EXCEPT ![s] = @ + 1]
    /\ UNCHANGED <<sock, cm, tasks, draining, sendWr, recvCq, rxFlush, mSend, echoes, client,
                   spinning, upcalls>>

\* A receive completion is handed to the handler's onReceive.
PollReceiveCompletion(s) ==
    /\ Running(s)
    /\ recvCq[s] > 0
    /\ recvCq' = [recvCq EXCEPT ![s] = @ - 1]
    /\ OnReceiveUpcall(s)
    /\ UNCHANGED <<sock, tasks, draining, sendCq, rxFlush, client, spinning, upcalls>>

\* A flushed receive is handed to onReceive with its error code.
PollReceiveError(s) ==
    /\ Running(s)
    /\ rxFlush[s] = "flushed"
    /\ rxFlush' = [rxFlush EXCEPT ![s] = "polled"]
    /\ OnReceiveUpcall(s)
    /\ UNCHANGED <<sock, tasks, draining, sendCq, recvCq, client, spinning, upcalls>>

-----------------------------------------------------------------------------

Processor(s) ==
    \/ OnAddressResolved(s)
    \/ OnRouteResolved(s)
    \/ OnResolutionError(s)
    \/ OnConnectionError(s)
    \/ OnConnectionRejected(s)
    \/ OnConnectionEstablished(s)
    \/ OnDisconnected(s)
    \/ OnTimewaitExit(s)
    \/ DrainComplete(s)
    \/ PollSendCompletion(s)
    \/ PollReceiveCompletion(s)
    \/ PollReceiveError(s)

ConnectionManager ==
    \/ CmEstablished \/ CmRejected \/ CmConnectError
    \/ \E s \in Sock : \/ CmAddressResolution(s) \/ CmRouteResolution(s)
                       \/ CmDisconnected(s) \/ CmTimewaitExit(s)

Next ==
    \/ PingConnection
    \/ EchoAcceptor_onConnection
    \/ ConnectionManager
    \/ \E s \in Sock : Processor(s) \/ HwTransmit(s) \/ HwFlush(s) \/ HwFlushReceive(s)

\* The processor threads and service event threads loop forever, the CM
\* reports the outcome of every request within its timeout, and the NIC
\* completes every posted work request: each is weakly fair.
Fairness ==
    /\ WF_vars(PingConnection)
    /\ WF_vars(EchoAcceptor_onConnection)
    /\ WF_vars(CmEstablished) /\ WF_vars(CmRejected) /\ WF_vars(CmConnectError)
    /\ \A s \in Sock : /\ WF_vars(CmAddressResolution(s)) /\ WF_vars(CmRouteResolution(s))
                       /\ WF_vars(CmDisconnected(s)) /\ WF_vars(CmTimewaitExit(s))
    /\ \A s \in Sock : WF_vars(Processor(s)) /\ WF_vars(HwTransmit(s)) /\ WF_vars(HwFlush(s))
                       /\ WF_vars(HwFlushReceive(s))

Spec == Init /\ [][Next]_vars /\ Fairness

-----------------------------------------------------------------------------
(***************************************************************************)
(* Properties.                                                             *)
(***************************************************************************)

\* The lifecycle upcalls each handler sees: one onConnected, and after a
\* successful one at most onDisconnect followed by onDisconnected, each
\* once.  It depends on the closures running in the order the CM events
\* arrived and on onDrained coming only after the TIMEWAIT_EXIT closure.
UpcallOrder ==
    \A s \in Sock :
        \/ upcalls[s] = <<"connErr">>
        \/ IsPrefix(upcalls[s], <<"connOk", "disconnect", "disconnected">>)

\* Once a connection is removed from its processor (removeConnection), no
\* work request of it is outstanding and no completion of it waits in the
\* completion queue: the dispatcher never looks up a removed connection.
NoWorkOnRemovedConnection ==
    \A s \in Sock : ~sock[s].qp => sendWr[s] = 0 /\ sendCq[s] = 0 /\ recvCq[s] = 0
                                 /\ rxFlush[s] # "flushed"

\* A connection is registered with its processor before rdma_connect or
\* rdma_accept, so that no completion can arrive for an unknown id.
RegisteredBeforeHandshake ==
    \A s \in Sock : cm[s] \in {"connecting", "accepting", "established"} => sock[s].qp

\* No close() spins forever: the PingClient closes its socket from
\* onDisconnected on the processor thread, which is also the thread that
\* would have to detach the queue pair.
CloseNeverSpins == spinning = {}

\* Once a socket has been drained and removed, every buffer it took from
\* the send pool is back.
SendBuffersReturned ==
    \A s \in Sock : cm[s] = "exited" /\ ~draining[s] /\ ~sock[s].qp => freeBufs[s] = PoolSize

\* Every connect() is answered: the client's handler eventually gets
\* onConnected, with success or an error.
ConnectAnswered ==
    client = "running" ~> upcalls[Cli] # <<>>

\* The client sends at most count (mMaxSend) pings, counting each once.
\* onReceive tests `mSend < mMaxSend`, but onConnected sends without a
\* test, and onReceive ignores ec: a receive flushed by a link failure and
\* polled before the queued ESTABLISHED closure runs sends a ping first,
\* so at count 1 onConnected then sends a second.
PingsWithinCount ==
    [][mSend' # mSend => mSend' = mSend + 1 /\ mSend' <= MaxSend]_mSend

\* EchoConnection answers only pings: it sends no more echoes than the
\* client has sent pings.  EchoConnection::onReceive ignores the error code
\* and echoes a flushed receive as well.
EchoAnswersPing == echoes <= mSend

\* An established connection is torn down completely: the client shuts its
\* service down and the server's connection is removed from its processor.
TeardownCompletes ==
    (upcalls[Cli] # <<>> /\ Head(upcalls[Cli]) = "connOk")
        ~> (client = "shutdown" /\ ~sock[Srv].qp /\ upcalls[Srv] = <<"connOk", "disconnect", "disconnected">>)

\* The PingClient process ends: whatever happens to the connection, the
\* service is eventually shut down.
PingClientTerminates ==
    client = "running" ~> client = "shutdown"


-----------------------------------------------------------------------------
(***************************************************************************)
(* Refinement: the socket implements SocketLifecycle.  A socket's phase is *)
(* named by the last lifecycle upcall its handler received; its work is    *)
(* its send work requests and its unpolled send and receive completions.  *)
(***************************************************************************)

PhaseOf == [connOk |-> "connected", connErr |-> "failed",
            disconnect |-> "disconnecting", disconnected |-> "closed"]

LifecyclePhase(s) == IF upcalls[s] = <<>> THEN "new" ELSE PhaseOf[Last(upcalls[s])]

Outstanding(s) == sendWr[s] + sendCq[s] + recvCq[s] > 0 \/ rxFlush[s] = "flushed"

Lifecycle == INSTANCE SocketLifecycle WITH
    Sockets <- Sock,
    phase <- [s \in Sock |-> LifecyclePhase(s)],
    work <- [s \in Sock |-> Outstanding(s)]

\* Each socket, as its handler sees it, follows SocketLifecycle: the
\* closures, the completion polling and DeviceContext's drain together
\* never report an error on a connection with work, never call
\* onDisconnected before it is drained, never produce work after it, and
\* always reach onDisconnected once drained after onDisconnect.
ImplementsLifecycle == Lifecycle!Spec

=============================================================================

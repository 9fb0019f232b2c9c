---------------------------- MODULE RemoteAccess -----------------------------
(***************************************************************************)
(* One-sided RDMA operations of a connected InfinibandSocketImpl           *)
(* (libs/infinio/src/InfinibandSocket.cpp): send, read and write in their  *)
(* signaled, unsignaled and with-immediate variants, the bounds check      *)
(* doRead and doWrite make before posting, and the local buffers they post *)
(* (InfinibandBuffer and ScatterGatherBuffer, InfinibandBuffer.hpp).  The  *)
(* caller may call them at any point of the socket's life: before open(),  *)
(* between open() and the handshake that attaches the queue pair, after    *)
(* the drain removed it, and after close().                                *)
(*                                                                         *)
(* size_t and uintptr_t are W bits wide: offset + length and              *)
(* address + offset are computed modulo 2^W as in the code.  The remote    *)
(* region is [RegionAddr, RegionAddr + RegionLen).  The send queue of the  *)
(* queue pair holds at most SqDepth work requests; ibv_post_send fails     *)
(* when it is full.                                                        *)
(***************************************************************************)
EXTENDS Naturals, Sequences

CONSTANTS
    W,           \* bits of size_t / uintptr_t
    RegionAddr,  \* RemoteMemoryRegion::address()
    RegionLen,   \* RemoteMemoryRegion::length()
    BufLen,      \* length of the buffer acquired from the pool
    Offsets,     \* offsets the caller passes
    SgeLens,     \* lengths the caller adds to a ScatterGatherBuffer
    MaxSge,      \* entries a ScatterGatherBuffer gets at most
    SqDepth      \* send queue capacity

ASSUME RegionAddr + RegionLen <= 2^W /\ Offsets \subseteq 0..(2^W - 1)

Word(n) == n % 2^W

\* InfinibandBuffer::INVALID_ID; the pool hands out buffer 0, the caller's
\* ScatterGatherBuffer has id 1.
INVALID_ID == 65535
IbId == 0
SgId == 1

Kind == {"send", "read", "write"}
\* "undefined": ibv_post_send was called on a null queue pair, which it
\* dereferences; the process crashes.
Ec == {"none", "out_of_range", "post_failed", "bad_fd", "undefined"}

VARIABLES
    id,      \* mId != nullptr
    qp,      \* mId->qp != nullptr
    ib,      \* the InfinibandBuffer: [id, len]
    sg,      \* the ScatterGatherBuffer: [id, sges (lengths), len]
    sq,      \* work requests posted and not yet completed
    last     \* the last operation: [op, fits, ec], fits: its range lies in
             \* the remote region (computed without wrap-around)

vars == <<id, qp, ib, sg, sq, last>>

\* A posted ibv_send_wr: opcode, remote_addr and the bytes of its sg_list.
\* wr_id and send_flags only matter to the completion, not modelled here.
WorkRequest == [kind : Kind, raddr : 0..(2^W - 1), len : Nat]

TypeOK ==
    /\ id \in BOOLEAN /\ qp \in BOOLEAN /\ (qp => id)
    /\ ib \in [id : {IbId, INVALID_ID}, len : 0..BufLen]
    /\ sg \in [id : {SgId}, sges : Seq(SgeLens), len : 0..(2^W - 1)]
    /\ Len(sg.sges) <= MaxSge
    /\ sq \in Seq(WorkRequest) /\ Len(sq) <= SqDepth
    /\ last \in [op : Kind \cup {"none"}, fits : BOOLEAN, ec : Ec]

\* A socket from createSocket (no id yet), a send buffer of BufLen bytes
\* acquired, an empty ScatterGatherBuffer.
Init ==
    /\ id = FALSE
    /\ qp = FALSE
    /\ ib = [id |-> IbId, len |-> BufLen]
    /\ sg = [id |-> SgId, sges |-> <<>>, len |-> 0]
    /\ sq = <<>>
    /\ last = [op |-> "none", fits |-> TRUE, ec |-> "none"]

\* The process has crashed; every action below requires that it has not.
Crashed == last.ec = "undefined"

-----------------------------------------------------------------------------
(* Buffers. *)

\* InfinibandBuffer::shrink: only ever reduces the length.
Shrink(n) ==
    /\ ~Crashed
    /\ n < ib.len
    /\ ib' = [ib EXCEPT !.len = n]
    /\ UNCHANGED <<id, qp, sg, sq, last>>

\* ScatterGatherBuffer::add appends an entry and adds its length to the
\* 64-bit mLength.
SgAdd(n) ==
    /\ ~Crashed
    /\ Len(sg.sges) < MaxSge
    /\ sg' = [sg EXCEPT !.sges = Append(@, n), !.len = Word(@ + n)]
    /\ UNCHANGED <<id, qp, ib, sq, last>>

\* ScatterGatherBuffer::reset
SgReset ==
    /\ ~Crashed
    /\ sg.sges # <<>>
    /\ sg' = [sg EXCEPT !.sges = <<>>, !.len = 0]
    /\ UNCHANGED <<id, qp, ib, sq, last>>

\* The buffer is moved out of the caller's variable (move constructor or
\* assignment): what is left has INVALID_ID and an empty handle.
MoveOut ==
    /\ ~Crashed
    /\ ib.id # INVALID_ID
    /\ ib' = [id |-> INVALID_ID, len |-> 0]
    /\ UNCHANGED <<id, qp, sg, sq, last>>

\* open(): rdma_create_id gives the socket its id; with an id already it
\* throws already_open and changes nothing.
Open ==
    /\ ~Crashed
    /\ ~id
    /\ id' = TRUE
    /\ UNCHANGED <<qp, ib, sg, sq, last>>

\* The handshake's DeviceContext::addConnection creates the queue pair.
Establish ==
    /\ ~Crashed
    /\ id /\ ~qp
    /\ qp' = TRUE
    /\ UNCHANGED <<id, ib, sg, sq, last>>

\* After disconnect, the drain waits for the send queue to empty and
\* removeConnection destroys the queue pair.
Remove ==
    /\ ~Crashed
    /\ qp /\ sq = <<>>
    /\ qp' = FALSE
    /\ UNCHANGED <<id, ib, sg, sq, last>>

\* close(): without an id it returns; otherwise it spins while a queue pair
\* is attached (it returns once Remove has run), then rdma_destroy_id.
Close ==
    /\ ~Crashed
    /\ id /\ ~qp
    /\ id' = FALSE
    /\ UNCHANGED <<qp, ib, sg, sq, last>>

-----------------------------------------------------------------------------
(* Posting work requests. *)

\* Mutant: the result of ibv_post_send ignored, as if it always posted.
DoSend_IgnoreResult(wr, call) ==
    \/ /\ ~id
       /\ last' = [call EXCEPT !.ec = "bad_fd"]
       /\ UNCHANGED sq
    \/ /\ id
       /\ sq' = Append(sq, wr)
       /\ last' = call

\* doSend: throws bad_file_descriptor without an id, otherwise
\* ibv_post_send(mId->qp, ...), whose error goes to ec: it fails when the
\* send queue is full, and crashes on a null queue pair.
DoSend(wr, call) ==
    \/ /\ ~id
       /\ last' = [call EXCEPT !.ec = "bad_fd"]
       /\ UNCHANGED sq
    \/ /\ id /\ ~qp
       /\ last' = [call EXCEPT !.ec = "undefined"]
       /\ UNCHANGED sq
    \/ /\ qp
       /\ Len(sq) >= SqDepth
       /\ last' = [call EXCEPT !.ec = "post_failed"]
       /\ UNCHANGED sq
    \/ /\ qp
       /\ Len(sq) < SqDepth
       /\ sq' = Append(sq, wr)
       /\ last' = call

\* send(buffer, userId, ec): a signaled IBV_WR_SEND of the buffer.
Send ==
    /\ ~Crashed
    /\ DoSend([kind |-> "send", raddr |-> 0, len |-> ib.len],
              [op |-> "send", fits |-> TRUE, ec |-> "none"])
    /\ UNCHANGED <<id, qp, ib, sg>>

\* The local buffer of a one-sided operation: the InfinibandBuffer or the
\* ScatterGatherBuffer overload.
Local(useSg) == IF useSg THEN [id |-> sg.id, len |-> sg.len] ELSE ib

\* Mutant: the check compares the offset alone with the region length.
OneSided_OffsetOnly(kind, useSg, offset) ==
    LET b == Local(useSg)
        call == [op |-> kind, fits |-> offset + b.len <= RegionLen, ec |-> "none"]
    IN /\ ~Crashed
       /\ IF offset > RegionLen
          THEN /\ last' = [call EXCEPT !.ec = "out_of_range"]
               /\ UNCHANGED sq
          ELSE DoSend([kind |-> kind, raddr |-> Word(RegionAddr + offset), len |-> b.len],
                      call)
       /\ UNCHANGED <<id, qp, ib, sg>>

\* Mutant: `>=` for `>`, rejecting a range that ends at the region's end.
OneSided_AtLeast(kind, useSg, offset) ==
    LET b == Local(useSg)
        call == [op |-> kind, fits |-> offset + b.len <= RegionLen, ec |-> "none"]
    IN /\ ~Crashed
       /\ IF Word(offset + b.len) >= RegionLen
          THEN /\ last' = [call EXCEPT !.ec = "out_of_range"]
               /\ UNCHANGED sq
          ELSE DoSend([kind |-> kind, raddr |-> Word(RegionAddr + offset), len |-> b.len],
                      call)
       /\ UNCHANGED <<id, qp, ib, sg>>

\* Mutant: `ec = out_of_range;` without the `return`: the request is
\* posted anyway and, if the post succeeds, ec still reports the error.
OneSided_NoReturn(kind, useSg, offset) ==
    LET b == Local(useSg)
        call == [op |-> kind, fits |-> offset + b.len <= RegionLen, ec |-> "none"]
        wr == [kind |-> kind, raddr |-> Word(RegionAddr + offset), len |-> b.len]
    IN /\ ~Crashed
       /\ IF Word(offset + b.len) > RegionLen
          THEN DoSend(wr, [call EXCEPT !.ec = "out_of_range"])
          ELSE DoSend(wr, call)
       /\ UNCHANGED <<id, qp, ib, sg>>

\* doRead and both doWrite templates: `if (offset + buf.length() >
\* remote.length()) { ec = out_of_range; return; }`, otherwise one work
\* request at remote.address() + offset.  The with-immediate write differs
\* only in the opcode, which the model does not distinguish.
OneSided(kind, useSg, offset) ==
    LET b == Local(useSg)
        call == [op |-> kind, fits |-> offset + b.len <= RegionLen, ec |-> "none"]
    IN /\ ~Crashed
       /\ IF Word(offset + b.len) > RegionLen
          THEN /\ last' = [call EXCEPT !.ec = "out_of_range"]
               /\ UNCHANGED sq
          ELSE DoSend([kind |-> kind, raddr |-> Word(RegionAddr + offset), len |-> b.len],
                      call)
       /\ UNCHANGED <<id, qp, ib, sg>>

\* read / readUnsignaled, for both buffer types; the flags only decide
\* whether the completion is reported.
Read(useSg, offset) == OneSided("read", useSg, offset)

\* write / writeUnsignaled with and without immediate, both buffer types.
Write(useSg, offset) == OneSided("write", useSg, offset)

\* The NIC executes the oldest work request; its completion (or, if
\* unsignaled, its retirement) frees the send queue slot.
Complete ==
    /\ ~Crashed
    /\ sq # <<>>
    /\ sq' = Tail(sq)
    /\ UNCHANGED <<id, qp, ib, sg, last>>

Next ==
    \/ \E n \in 0..BufLen : Shrink(n)
    \/ \E n \in SgeLens : SgAdd(n)
    \/ SgReset
    \/ MoveOut
    \/ Open \/ Establish \/ Remove \/ Close
    \/ Send
    \/ \E useSg \in BOOLEAN, o \in Offsets : Read(useSg, o) \/ Write(useSg, o)
    \/ Complete

Spec == Init /\ [][Next]_vars

-----------------------------------------------------------------------------

\* Every one-sided work request the socket posts touches only bytes of the
\* remote region: the bounds check in doRead/doWrite rejects every call
\* whose range would leave it.
InBounds ==
    \A i \in 1..Len(sq) :
        sq[i].kind # "send" =>
            /\ RegionAddr <= sq[i].raddr
            /\ sq[i].raddr + sq[i].len <= RegionAddr + RegionLen

\* A one-sided call is rejected with out_of_range exactly when its range
\* does not fit the remote region.
OutOfRangeExactly ==
    last.op \in {"read", "write"} =>
        ((last.ec = "out_of_range") <=> ~last.fits)

\* A call that reports an error has posted nothing (spec 7(d) and 8: a
\* rejected one-sided operation issues no hardware request): every step
\* that grows the send queue appends exactly one work request and is a
\* call that reports success.  Completions only shrink the queue.
PostOnlyOnSuccess ==
    [][Len(sq') > Len(sq) =>
          /\ Len(sq') = Len(sq) + 1
          /\ SubSeq(sq', 1, Len(sq)) = sq
          /\ last'.ec = "none"]_<<sq, last>>

\* A data operation on a socket without a queue pair (before the
\* handshake, or after the drain removed it) fails fast with a
\* precondition error instead of reaching ibv_post_send.
NoPostWithoutQueuePair == ~Crashed

=============================================================================

---------------------------- MODULE ServerSession ----------------------------
(***************************************************************************)
(* One lproxy::server::session: the object lssserver creates for every     *)
(* accepted connection.  It is driven by two threads.  The "left" thread   *)
(* runs the io_service of socket_left (towards lsslocal), the "right" one  *)
(* the io_service of the remote sockets, of the resolver and of            *)
(* timer_right.                                                            *)
(*                                                                         *)
(* The session has no state of its own besides a few fields; its control   *)
(* state is the set of asynchronous operations it has outstanding.  Each   *)
(* kind of operation is a slot with three counters: pend (initiated), ok   *)
(* and err (completed, its handler queued).  That at most one read or one  *)
(* relay write is outstanding is nowhere assumed: it is an invariant.      *)
(*                                                                         *)
(* A handler is one action, with three exceptions where the other thread   *)
(* can observe a handler half done: cancel() cancels its objects one after *)
(* the other (CancelTimer, CancelLeft, CancelRight),                       *)
(* socks5_resp_to_local() starts its write and then its read (RespRead),   *)
(* and a connection is attempted after its timer was armed (AsyncConnect). *)
(* A request arms the timer before it resolves the name as well, but on    *)
(* the thread that would have to run a cancel() in between.                *)
(***************************************************************************)
EXTENDS Integers

CONSTANT MaxEndpoints \* bound on the addresses a resolver answers with

ASSUME EndpointsAssumption == MaxEndpoints \in Nat \ {0}

VARIABLES
    life,              \* "new", "live", "destroyed" (last shared_ptr gone), "crashed"
    status,            \* session::status
    socks5_state,
    socks5_cmd,
    socks5_resp_reply, \* "unset" until first assigned: the constructors leave it alone
    aes_encryptor,     \* the shared_ptr: "null" or "set"
    endpoints,         \* addresses left behind the resolver iterator
    pend, ok, err,     \* asynchronous operations, see above
    timerWait,         \* async_wait of timer_right outstanding (0 or 1)
    timerQueue,        \* expired waits whose lambda is queued
    expiry,            \* expires_at() is in the "future" or in the "past"
    pc,                \* what a thread is in the middle of
    gone,              \* the ends, of "left" and "right", that are closed and drained
    history            \* packets sent to local ("bad", "deny", "timeout", "response");
                       \* "authed": an auth_key of the key set was presented;
                       \* "cancelled": some cancel() ran to its end;
                       \* "overtaken": one did so between the timer and the attempt

ops     == <<pend, ok, err>>
socks5  == <<socks5_state, socks5_cmd, socks5_resp_reply>>
vars    == <<life, status, socks5, aes_encryptor, endpoints, ops, timerWait, timerQueue,
             expiry, pc, gone, history>>

-----------------------------------------------------------------------------
(* Operations, by the handler they are bound to.                           *)

LeftWrites == {"hello_write",      \* -> hello_handler
               "exchange_write",   \* -> exchange_handler
               "left_write"}       \* -> left_write_handler
LeftOps    == LeftWrites \cup
              {"left_read",        \* -> left_read_handler
               "final_write"}      \* bad, deny or timeout -> cancel
RightWrites == {"right_write",     \* -> right_write_handler
                "cont_write"}      \* -> left_read_handler, with the rest of the buffer
RightOps   == RightWrites \cup
              {"right_read",       \* -> right_read_handler
               "resolve",          \* -> tcp_resolve_handler, udp_resolve_handler
               "connect"}          \* -> tcp_connect_handler, udp_connect_handler
Ops        == LeftOps \cup RightOps
Threads    == {"left", "right"}
ThreadOf(s) == IF s \in LeftOps THEN "left" ELSE "right"

Out(s) == pend[s] + ok[s] + err[s]

\* Nothing keeps a shared_ptr to the session any more.
Released == /\ \A s \in Ops : Out(s) = 0
            /\ \A t \in Threads : pc[t] = "idle"

\* The last conjunct of every step of the session.  When the handler that
\* returns held the last shared_ptr, ~session() runs: close() cancels the timer.
Settle(wait) == /\ life' = IF Released' THEN "destroyed" ELSE "live"
                /\ timerWait' = IF Released' THEN 0 ELSE wait

\* A thread runs the handler of a completed operation.
Completed(s) == /\ pc[ThreadOf(s)] = "idle"
                /\ ok[s] > 0
                /\ ok' = [ok EXCEPT ![s] = @ - 1]
                /\ err' = err
Failed(s)    == /\ pc[ThreadOf(s)] = "idle"
                /\ err[s] > 0
                /\ err' = [err EXCEPT ![s] = @ - 1]
                /\ ok' = ok

\* How a handler ends: it initiates operation s,
Initiate(s) == /\ pend' = [pend EXCEPT ![s] = @ + 1]
               /\ UNCHANGED <<pc, history>>
\* it sends a packet whose completion is bound to cancel,
SendFinal(notice) == /\ pend' = [pend EXCEPT !["final_write"] = @ + 1]
                     /\ history' = history \cup {notice}
                     /\ UNCHANGED pc
\* or it calls cancel().
CallCancel(t) == /\ pc' = [pc EXCEPT ![t] = "cancel_timer"]
                 /\ UNCHANGED <<pend, history>>

\* The frame of a handler that leaves the timer and the endpoint list alone.
Return == /\ UNCHANGED <<endpoints, timerQueue, expiry, gone>>
          /\ Settle(timerWait)
\* Mutant of ReturnArmed: expires_from_now() leaves the earlier waits running.
MutReturnArmed == /\ expiry' = "future"
                  /\ UNCHANGED <<timerQueue, gone>>
                  /\ Settle(timerWait + 1)
\* The frame of one that ends with expires_from_now() and async_wait().
ReturnArmed == /\ expiry' = "future"
               /\ UNCHANGED <<timerQueue, gone>>
               /\ Settle(1)
\* The frame of one that began with timer_right.cancel().
ReturnDisarmed == /\ UNCHANGED <<endpoints, timerQueue, expiry, gone>>
                  /\ Settle(0)

-----------------------------------------------------------------------------
Init ==
    /\ life = "new"
    /\ status = "not_connected"
    /\ socks5_state = "OPENING"
    /\ socks5_cmd = "unset"
    /\ socks5_resp_reply = "unset"
    /\ aes_encryptor = "null"
    /\ endpoints = 0
    /\ pend = [s \in Ops |-> 0]
    /\ ok = [s \in Ops |-> 0]
    /\ err = [s \in Ops |-> 0]
    /\ timerWait = 0
    /\ timerQueue = 0
    /\ expiry = "past"
    /\ pc = [t \in Threads |-> "idle"]
    /\ gone = {}
    /\ history = {}

\* The accept handler calls start().  When the client is already gone,
\* remote_endpoint() fails and the session is dropped.
start ==
    /\ life = "new"
    /\ \/ Initiate("left_read") /\ status' = "hello"
       \/ UNCHANGED <<pend, pc, history, status>>
    /\ UNCHANGED <<socks5, aes_encryptor, ok, err>>
    /\ Return

-----------------------------------------------------------------------------
(* left_read_handler.  src is the operation that completed: a read of      *)
(* socket_left, or the write to the remote after which the rest of the     *)
(* same buffer is handled, on the right thread.                            *)

Sources == {"left_read", "cont_write"}

\* A packet that is not complete yet: read on into the same buffer.
IncompletePacket(src) ==
    /\ Completed(src)
    /\ Initiate("left_read")
    /\ UNCHANGED <<status, socks5, aes_encryptor>>
    /\ Return

\* Less than a packet header: incomplete_data(0xffffffff), less() = -1.  A
\* rest that short never gets here (cut_lss), so only a read of the socket does.
ShortPacket ==
    /\ Completed("left_read")
    /\ SendFinal("bad")
    /\ UNCHANGED <<status, socks5, aes_encryptor>>
    /\ Return

\* request::bad, an unknown type, a packet that is wrong in the present status
\* (assert_status) or that cannot be decrypted.
RejectedPacket(src) ==
    /\ Completed(src)
    /\ CallCancel(ThreadOf(src))
    /\ UNCHANGED <<status, socks5, aes_encryptor>>
    /\ Return

ReadFailed(src) ==
    /\ Failed(src)
    /\ CallCancel(ThreadOf(src))
    /\ UNCHANGED <<status, socks5, aes_encryptor>>
    /\ Return

\* A hello that carries data is a wrong_packet_type.
HelloPacket(src) ==
    /\ Completed(src)
    /\ status = "hello"
    /\ Initiate("hello_write") \/ SendFinal("bad")
    /\ UNCHANGED <<status, socks5, aes_encryptor>>
    /\ Return

\* Mutant of ExchangeDenied: the session reads on for another attempt.
MutExchangeDenied(src) ==
    /\ Completed(src)
    /\ status = "auth"
    /\ pend' = [pend EXCEPT !["final_write"] = @ + 1, !["left_read"] = @ + 1]
    /\ history' = history \cup {"deny"}
    /\ UNCHANGED <<status, socks5, aes_encryptor, pc>>
    /\ Return

\* The auth_key is not in the key set.
ExchangeDenied(src) ==
    /\ Completed(src)
    /\ status = "auth"
    /\ SendFinal("deny")
    /\ UNCHANGED <<status, socks5, aes_encryptor>>
    /\ Return

\* It is: pack_exchange sets aes_encryptor.
ExchangeAccepted(src) ==
    /\ Completed(src)
    /\ status = "auth"
    /\ aes_encryptor' = "set"
    /\ history' = history \cup {"authed"}
    /\ pend' = [pend EXCEPT !["exchange_write"] = @ + 1]
    /\ UNCHANGED <<status, socks5, pc>>
    /\ Return

\* Data of an established relay goes to the remote.  When more packets follow
\* in the buffer the write is bound to left_read_handler, else to
\* right_write_handler; any other command is answered with bad.
RelayData(src) ==
    /\ Completed(src)
    /\ status = "data"
    /\ socks5_state = "CONNECTED"
    /\ IF socks5_cmd \in {"CONNECT", "UDP"}
       THEN \E write \in RightWrites : Initiate(write)
       ELSE SendFinal("bad")
    /\ UNCHANGED <<status, socks5, aes_encryptor>>
    /\ Return

-----------------------------------------------------------------------------
(* The socks5 request: left_read_handler while no relay is established.    *)

\* Mutant of Request: assert_status(status_data) is missing.
MutRequest(src) == Completed(src) /\ socks5_state \in {"OPENING", "CONNECTING"}

Request(src) ==
    /\ Completed(src)
    /\ status = "data"
    /\ socks5_state \in {"OPENING", "CONNECTING"}

\* Mutant of RespToLocal: the state is not set to CONNECTED.
MutRespToLocal(t, state, reply) ==
    /\ socks5_resp_reply' = reply
    /\ socks5_state' = state
    /\ pend' = [pend EXCEPT !["left_write"] = @ + 1]
    /\ pc' = IF reply = "0x00" THEN [pc EXCEPT ![t] = "resp_read"] ELSE pc
    /\ history' = history \cup {"response"}

\* socks5_resp_to_local(), up to its read of socket_left (RespRead).
RespToLocal(t, state, reply) ==
    /\ socks5_resp_reply' = reply
    /\ socks5_state' = IF reply = "0x00" THEN "CONNECTED" ELSE state
    /\ pend' = [pend EXCEPT !["left_write"] = @ + 1]
    /\ pc' = IF reply = "0x00" THEN [pc EXCEPT ![t] = "resp_read"] ELSE pc
    /\ history' = history \cup {"response"}

RespRead(t) ==
    /\ pc[t] = "resp_read"
    /\ pc' = [pc EXCEPT ![t] = "idle"]
    /\ pend' = [pend EXCEPT !["left_read"] = @ + 1]
    /\ UNCHANGED <<status, socks5, aes_encryptor, ok, err, history>>
    /\ Return

\* illegal_data_type, unsupported_version.
MalformedRequest(src) ==
    /\ Request(src)
    /\ socks5_state' = "CONNECTING"
    /\ SendFinal("bad")
    /\ UNCHANGED <<status, socks5_cmd, socks5_resp_reply, aes_encryptor>>
    /\ Return

ConnectRequest(src) ==
    /\ Request(src)
    /\ socks5_state' = "CONNECTING"
    /\ socks5_cmd' = "CONNECT"
    /\ Initiate("resolve")
    /\ UNCHANGED <<status, socks5_resp_reply, aes_encryptor, endpoints>>
    /\ ReturnArmed

UdpNameRequest(src) ==
    /\ Request(src)
    /\ socks5_state' = "CONNECTING"
    /\ socks5_cmd' = "UDP"
    /\ Initiate("resolve")
    /\ UNCHANGED <<status, socks5_resp_reply, aes_encryptor>>
    /\ Return

\* UDP to 0.0.0.0 is answered at once, with the result of open().
UdpAnyRequest(src) ==
    /\ Request(src)
    /\ socks5_cmd' = "UDP"
    /\ \E reply \in {"0x00", "0x01"} : RespToLocal(ThreadOf(src), "CONNECTING", reply)
    /\ UNCHANGED <<status, aes_encryptor>>
    /\ Return

BindRequest(src) ==
    /\ Request(src)
    /\ socks5_cmd' = "UNSUPPORT"
    /\ RespToLocal(ThreadOf(src), "CONNECTING", "0x07")
    /\ UNCHANGED <<status, aes_encryptor>>
    /\ Return

-----------------------------------------------------------------------------
(* Resolver and connection handlers.                                       *)

\* A tcp handler has armed the timer; async_connect comes next (AsyncConnect).
ToConnect == /\ pc' = [pc EXCEPT !["right"] = "to_connect"]
             /\ UNCHANGED <<pend, history>>

\* Both handlers take the first of the resolved addresses.
ResolveOk ==
    /\ Completed("resolve")
    /\ endpoints' \in 0 .. MaxEndpoints - 1
    /\ UNCHANGED <<status, socks5, aes_encryptor>>
    /\ \/ socks5_cmd = "CONNECT" /\ ToConnect /\ ReturnArmed
       \/ /\ socks5_cmd = "UDP"
          /\ Initiate("connect")
          /\ UNCHANGED <<timerQueue, expiry, gone>>
          /\ Settle(timerWait)

AsyncConnect ==
    /\ pc["right"] = "to_connect"
    /\ pc' = [pc EXCEPT !["right"] = "idle"]
    /\ pend' = [pend EXCEPT !["connect"] = @ + 1]
    /\ UNCHANGED <<status, socks5, aes_encryptor, ok, err, history>>
    /\ Return

ResolveFailed ==
    /\ Failed("resolve")
    /\ RespToLocal("right", socks5_state, "0x04")
    /\ UNCHANGED <<status, socks5_cmd, aes_encryptor>>
    /\ \/ socks5_cmd = "CONNECT" /\ ReturnDisarmed
       \/ socks5_cmd = "UDP" /\ Return

TcpConnected ==
    /\ Completed("connect")
    /\ socks5_cmd = "CONNECT"
    /\ RespToLocal("right", socks5_state, "0x00")
    /\ UNCHANGED <<status, socks5_cmd, aes_encryptor>>
    /\ ReturnDisarmed

\* Mutant of TcpTryNext: the timer is not set again for the next address.
MutTcpTryNext ==
    /\ Failed("connect")
    /\ socks5_cmd = "CONNECT"
    /\ endpoints > 0
    /\ endpoints' = endpoints - 1
    /\ ToConnect
    /\ UNCHANGED <<status, socks5, aes_encryptor, timerQueue, expiry, gone>>
    /\ Settle(0)

\* Any error, an abort by cancel() included, moves on to the next address.
TcpTryNext ==
    /\ Failed("connect")
    /\ socks5_cmd = "CONNECT"
    /\ endpoints > 0
    /\ endpoints' = endpoints - 1
    /\ ToConnect
    /\ UNCHANGED <<status, socks5, aes_encryptor>>
    /\ ReturnArmed

UdpTryNext ==
    /\ Failed("connect")
    /\ socks5_cmd = "UDP"
    /\ endpoints > 0
    /\ endpoints' = endpoints - 1
    /\ Initiate("connect")
    /\ UNCHANGED <<status, socks5, aes_encryptor, timerQueue, expiry, gone>>
    /\ Settle(timerWait)

ConnectFailed ==
    /\ Failed("connect")
    /\ endpoints = 0
    /\ RespToLocal("right", socks5_state, "0x03")
    /\ UNCHANGED <<status, socks5_cmd, aes_encryptor>>
    /\ \/ socks5_cmd = "CONNECT" /\ ReturnDisarmed
       \/ socks5_cmd = "UDP" /\ Return

\* udp_connect_handler opens the socket that async_connect has opened already,
\* which always fails; with no address left it dereferences the end iterator
\* first, which ends the process.
UdpConnected ==
    /\ Completed("connect")
    /\ socks5_cmd = "UDP"
    /\ endpoints > 0
    /\ RespToLocal("right", socks5_state, "0x01")
    /\ UNCHANGED <<status, socks5_cmd, aes_encryptor>>
    /\ Return

Crash ==
    /\ life' = "crashed"
    /\ pend' = [s \in Ops |-> 0]
    /\ ok' = [s \in Ops |-> 0]
    /\ err' = [s \in Ops |-> 0]
    /\ pc' = [t \in Threads |-> "idle"]
    /\ timerWait' = 0
    /\ timerQueue' = 0
    /\ UNCHANGED <<status, socks5, aes_encryptor, endpoints, expiry, gone, history>>

UdpConnectedLast ==
    /\ pc["right"] = "idle"
    /\ ok["connect"] > 0
    /\ socks5_cmd = "UDP"
    /\ endpoints = 0
    /\ Crash

-----------------------------------------------------------------------------
(* Write handlers and right_read_handler.                                  *)

HelloWritten ==
    /\ Completed("hello_write")
    /\ Initiate("left_read")
    /\ status' = "auth"
    /\ UNCHANGED <<socks5, aes_encryptor>>
    /\ Return

ExchangeWritten ==
    /\ Completed("exchange_write")
    /\ Initiate("left_read")
    /\ status' = "data"
    /\ UNCHANGED <<socks5, aes_encryptor>>
    /\ Return

\* Mutant of LeftWritten: local may send another request after a refusal.
MutLeftWritten ==
    /\ Completed("left_write")
    /\ Initiate(IF socks5_resp_reply # "0x00" THEN "left_read" ELSE "right_read")
    /\ UNCHANGED <<status, socks5, aes_encryptor>>
    /\ Return

\* left_write_handler.  A refused request ends the session; the last branch is
\* the one the source calls unreachable since 0.2.0.
LeftWritten ==
    /\ Completed("left_write")
    /\ IF status = "data" /\ socks5_resp_reply # "0x00" THEN CallCancel("left")
       ELSE IF socks5_state # "CONNECTED" THEN Initiate("left_read")
       ELSE IF socks5_cmd \in {"CONNECT", "UDP"} THEN Initiate("right_read")
       ELSE SendFinal("bad")
    /\ UNCHANGED <<status, socks5, aes_encryptor>>
    /\ Return

LeftWriteFailed ==
    /\ \E s \in LeftWrites : Failed(s)
    /\ CallCancel("left")
    /\ UNCHANGED <<status, socks5, aes_encryptor>>
    /\ Return

\* The completion of a bad, deny or timeout packet is bound to cancel itself.
FinalWritten ==
    /\ Completed("final_write") \/ Failed("final_write")
    /\ CallCancel("left")
    /\ UNCHANGED <<status, socks5, aes_encryptor>>
    /\ Return

\* Mutant of RightWritten: it also reads the remote, as the code in the comments
\* of right_write_handler does.
MutRightWritten ==
    /\ Completed("right_write")
    /\ pend' = [pend EXCEPT !["left_read"] = @ + 1, !["right_read"] = @ + 1]
    /\ UNCHANGED <<status, socks5, aes_encryptor, pc, history>>
    /\ Return

RightWritten ==
    /\ Completed("right_write")
    /\ IF socks5_cmd \in {"CONNECT", "UDP"} THEN Initiate("left_read") ELSE SendFinal("bad")
    /\ UNCHANGED <<status, socks5, aes_encryptor>>
    /\ Return

RightWriteFailed ==
    /\ Failed("right_write")
    /\ SendFinal("bad")
    /\ UNCHANGED <<status, socks5, aes_encryptor>>
    /\ Return

RightRead ==
    /\ Completed("right_read")
    /\ Initiate("left_write")
    /\ UNCHANGED <<status, socks5, aes_encryptor>>
    /\ Return

\* Mutant of RightReadFailed: the read is restarted, as the code in the comments
\* of right_read_handler does for HTTP keep-alive.
MutRightReadFailed ==
    /\ Failed("right_read")
    /\ Initiate("right_read")
    /\ UNCHANGED <<status, socks5, aes_encryptor>>
    /\ Return

RightReadFailed ==
    /\ Failed("right_read")
    /\ SendFinal("bad")
    /\ UNCHANGED <<status, socks5, aes_encryptor>>
    /\ Return

-----------------------------------------------------------------------------
(* cancel(), one object after the other.  An operation that has completed  *)
(* is past cancelling: its handler runs with its own result.  So does a    *)
(* write that has made progress and is about to continue.                  *)

CancelTimer(t) ==
    /\ pc[t] = "cancel_timer"
    /\ pc' = [pc EXCEPT ![t] = "cancel_left"]
    /\ UNCHANGED <<status, socks5, aes_encryptor, ops, history>>
    /\ ReturnDisarmed

Abort(aborted) ==
    /\ pend' = [s \in Ops |-> IF s \in aborted THEN 0 ELSE pend[s]]
    /\ err' = [s \in Ops |-> IF s \in aborted THEN err[s] + pend[s] ELSE err[s]]
    /\ ok' = ok

CancelLeft(t) ==
    /\ pc[t] = "cancel_left"
    /\ pc' = [pc EXCEPT ![t] = "cancel_right"]
    /\ \E going \in SUBSET LeftWrites : Abort(LeftOps \ going)
    /\ UNCHANGED <<status, socks5, aes_encryptor, history>>
    /\ Return

\* Something will still run the lambda of the timer to its end.
Armed == timerWait = 1 \/ (timerQueue > 0 /\ expiry = "past")

\* A cancel() ends: it comes too late for a timer that has expired, and too
\* early for an attempt that the other thread is about to make.
Cancelled == history' = history \cup {"cancelled"}
                 \cup (IF pc["right"] = "to_connect" /\ ~ Armed THEN {"overtaken"} ELSE {})

\* Mutant of CancelRight: the remote sockets are left alone.
MutCancelRight(t) ==
    /\ pc[t] = "cancel_right"
    /\ pc' = [pc EXCEPT ![t] = "idle"]
    /\ Cancelled
    /\ UNCHANGED <<status, socks5, aes_encryptor, ops>>
    /\ Return

\* The resolver is not cancelled.
CancelRight(t) ==
    /\ pc[t] = "cancel_right"
    /\ pc' = [pc EXCEPT ![t] = "idle"]
    /\ \E going \in SUBSET RightWrites : Abort(RightOps \ (going \cup {"resolve"}))
    /\ Cancelled
    /\ UNCHANGED <<status, socks5, aes_encryptor>>
    /\ Return

-----------------------------------------------------------------------------
(* timer_right.                                                            *)

\* 90 seconds pass: a wait in progress completes without an error.
TimerElapse ==
    /\ life = "live"
    /\ expiry = "future"
    /\ expiry' = "past"
    /\ timerQueue' = timerQueue + timerWait
    /\ timerWait' = 0
    /\ UNCHANGED <<life, status, socks5, aes_encryptor, endpoints, ops, pc, gone, history>>

\* The lambda given to async_wait.
TimerExpired ==
    /\ life = "live"
    /\ pc["right"] = "idle"
    /\ timerQueue > 0
    /\ timerQueue' = timerQueue - 1
    /\ \/ expiry = "future" /\ UNCHANGED <<pend, pc, history>>
       \/ expiry = "past" /\ SendFinal("timeout")
    /\ UNCHANGED <<status, socks5, aes_encryptor, ok, err, endpoints, expiry, gone>>
    /\ Settle(timerWait)

\* It holds a bare this: it may run on a session that is gone.  Either it
\* happens to return early or the process ends.
TimerExpiredDangling ==
    /\ life = "destroyed"
    /\ timerQueue > 0
    /\ \/ Crash
       \/ /\ timerQueue' = timerQueue - 1
          /\ UNCHANGED <<life, status, socks5, aes_encryptor, endpoints, ops, timerWait,
                         expiry, pc, gone, history>>

\* left_write_handler gives async_receive_from a reference to a local variable
\* for the sender's address: what a datagram overwrites may end the process.
UdpReceiveDangling ==
    /\ socks5_cmd = "UDP"
    /\ pend["right_read"] > 0
    /\ Crash

-----------------------------------------------------------------------------
(* Environment: operations complete, the gone go away.                    *)

\* The other end of the connection that s works on is gone.  A UDP socket has
\* no such end: a receive goes on waiting.
PeerGone(s) ==
    \/ s \in LeftOps /\ "left" \in gone
    \/ s \in RightOps \ {"resolve"} /\ "right" \in gone /\ socks5_cmd = "CONNECT"

CompleteOk(s) ==
    /\ pend[s] > 0
    /\ ~PeerGone(s)
    /\ pend' = [pend EXCEPT ![s] = @ - 1]
    /\ ok' = [ok EXCEPT ![s] = @ + 1]
    /\ UNCHANGED <<life, status, socks5, aes_encryptor, endpoints, err, timerWait, timerQueue,
                   expiry, pc, gone, history>>

CompleteErr(s) ==
    /\ pend[s] > 0
    /\ pend' = [pend EXCEPT ![s] = @ - 1]
    /\ err' = [err EXCEPT ![s] = @ + 1]
    /\ UNCHANGED <<life, status, socks5, aes_encryptor, endpoints, ok, timerWait, timerQueue,
                   expiry, pc, gone, history>>

PeerLeaves ==
    /\ life = "live"
    /\ \E end \in Threads \ gone : gone' = gone \cup {end}
    /\ UNCHANGED <<life, status, socks5, aes_encryptor, endpoints, ops, timerWait, timerQueue,
                   expiry, pc, history>>

-----------------------------------------------------------------------------
\* left_read_handler, run by the thread of src.
left_read_handler(src) ==
    \/ IncompletePacket(src)
    \/ RejectedPacket(src)
    \/ ReadFailed(src)
    \/ HelloPacket(src)
    \/ ExchangeDenied(src)
    \/ ExchangeAccepted(src)
    \/ RelayData(src)
    \/ MalformedRequest(src)
    \/ ConnectRequest(src)
    \/ UdpNameRequest(src)
    \/ UdpAnyRequest(src)
    \/ BindRequest(src)

InProgress(t) == RespRead(t) \/ CancelTimer(t) \/ CancelLeft(t) \/ CancelRight(t)

LeftThread ==
    \/ left_read_handler("left_read")
    \/ ShortPacket
    \/ HelloWritten
    \/ ExchangeWritten
    \/ LeftWritten
    \/ LeftWriteFailed
    \/ FinalWritten
    \/ InProgress("left")

RightThread ==
    \/ left_read_handler("cont_write")
    \/ ResolveOk
    \/ ResolveFailed
    \/ TcpConnected
    \/ TcpTryNext
    \/ UdpTryNext
    \/ ConnectFailed
    \/ UdpConnected
    \/ UdpConnectedLast
    \/ AsyncConnect
    \/ RightWritten
    \/ RightWriteFailed
    \/ RightRead
    \/ RightReadFailed
    \/ TimerExpired
    \/ TimerExpiredDangling
    \/ InProgress("right")

Complete(s) == CompleteOk(s) \/ CompleteErr(s)

Next ==
    \/ start
    \/ LeftThread
    \/ RightThread
    \/ TimerElapse
    \/ PeerLeaves
    \/ UdpReceiveDangling
    \/ \E s \in Ops : Complete(s)

Spec == Init /\ [][Next]_vars

\* The handling of a buffer comes to the packet that is the last one in it.
LastPacket == left_read_handler("cont_write") /\ pend'["cont_write"] = 0

\* Both io_services keep running what is queued, time passes, getaddrinfo
\* returns, the kernel takes the few packets sent before the relay starts and
\* the four bytes of a final one, neither connect() nor send() on a UDP socket
\* blocks, a buffer holds finitely many packets, and an operation on a connection
\* whose other end is gone completes.
\* Nothing forces a peer to send, to read or to go away.  The first two conjuncts are
\* WF_vars(LeftThread) and WF_vars(Complete("final_write")), with what is enabled
\* spelled out.
CanLeft       == pc["left"] # "idle" \/ \E s \in LeftOps : ok[s] + err[s] > 0
LeftFairness  == []<>(~ CanLeft) \/ []<><<LeftThread>>_vars
FinalFairness == []<>(pend["final_write"] = 0) \/ []<><<Complete("final_write")>>_vars

Fairness ==
    /\ LeftFairness
    /\ FinalFairness
    /\ WF_vars(RightThread)
    /\ WF_vars(TimerElapse)
    /\ WF_vars(Complete("resolve"))
    /\ WF_vars(socks5_state # "CONNECTED" /\ Complete("left_write"))
    /\ SF_vars(LastPacket)
    /\ \A s \in RightWrites \cup {"connect"} : WF_vars(socks5_cmd = "UDP" /\ Complete(s))
    /\ \A s \in Ops : WF_vars(PeerGone(s) /\ CompleteErr(s))

FairSpec == Spec /\ Fairness

-----------------------------------------------------------------------------
(* Properties.                                                             *)

Cancelling == {"cancel_timer", "cancel_left", "cancel_right"}

\* Every variable has the type its declaration in session_server.h gives it.
TypeOK ==
    /\ life \in {"new", "live", "destroyed", "crashed"}
    /\ status \in {"not_connected", "hello", "auth", "data"}
    /\ socks5_state \in {"OPENING", "CONNECTING", "CONNECTED"}
    /\ socks5_cmd \in {"unset", "CONNECT", "UDP", "UNSUPPORT"}
    /\ socks5_resp_reply \in {"unset", "0x00", "0x01", "0x03", "0x04", "0x07"}
    /\ aes_encryptor \in {"null", "set"}
    /\ endpoints \in 0 .. MaxEndpoints - 1
    /\ pend \in [Ops -> Nat]
    /\ ok \in [Ops -> Nat]
    /\ err \in [Ops -> Nat]
    /\ timerWait \in {0, 1}
    /\ timerQueue \in Nat
    /\ expiry \in {"future", "past"}
    /\ pc \in [Threads -> {"idle", "resp_read", "to_connect"} \cup Cancelling]
    /\ gone \subseteq Threads
    /\ history \subseteq {"bad", "deny", "timeout", "response", "authed", "cancelled",
                    "overtaken"}

\* Operations that carry the relay from local to remote, and the handshake
\* before it; operations that carry it from remote to local.
Reading(t) == IF pc[t] \in {"resp_read", "to_connect"} THEN 1 ELSE 0
Upstream   == Out("left_read") + Out("hello_write") + Out("exchange_write")
              + Out("resolve") + Out("connect") + Out("right_write")
              + Out("cont_write") + Reading("left") + Reading("right")
Downstream == Out("left_write") + Out("right_read")

\* Each direction has at most one operation outstanding, whatever cancel(), the
\* timer and the other thread do: two reads of one socket, or two data writes,
\* would put the bytes of a stream out of order.
OneOperationPerDirection == Upstream <= 1 /\ Downstream <= 1

\* No name is resolved, no remote connected to or read from, and nothing
\* encrypted, before local has proved its key; pack_data and unpack_data never
\* find aes_encryptor unset.
NothingBeforeAuth ==
    (status = "data" \/ \E s \in RightOps \cup {"left_write"} : Out(s) > 0)
        => "authed" \in history /\ aes_encryptor = "set"

\* When left_write_handler, right_write_handler or a relayed packet looks at
\* the fields of the request they have been assigned: the reply is never read
\* uninitialised, "unsupported" is never answered from a relay handler, and the
\* branch of left_write_handler called unreachable is unreachable.
HandlersKnowTheRequest ==
    /\ Out("left_write") > 0 =>
           /\ socks5_resp_reply # "unset"
           /\ socks5_resp_reply = "0x00" => socks5_state = "CONNECTED"
    /\ socks5_state = "CONNECTED" \/ Out("right_write") > 0 =>
           socks5_cmd \in {"CONNECT", "UDP"}

\* A client that was denied gets nothing after the deny: no read, no write and
\* no remote operation of its session is left to run.
DenyIsFinal ==
    "deny" \in history => \A s \in Ops \ {"final_write"} : Out(s) = 0

\* What ends a connection attempt to a remote that never answers: the armed
\* timer, its lambda, the timeout packet, or a cancel() in progress that has
\* not reached the remote sockets yet.  An attempt that a cancel() on the other
\* thread slips past has a timer of its own, except when that cancel() is the
\* one that took the timer from it, before async_connect was called.
Guarded == Armed \/ Out("final_write") > 0 \/ \E t \in Threads : pc[t] \in Cancelling
ConnectGuarded ==
    socks5_cmd = "CONNECT" /\ pend["connect"] > 0 => Guarded \/ "overtaken" \in history

\* One session answers one request: the response code, once sent, is never
\* overwritten by a second request, a late connection or a late timeout.
AnsweredOnce ==
    [][socks5_resp_reply # "unset" => UNCHANGED <<socks5_resp_reply, socks5_cmd>>]_vars

\* When both ends are gone the last handler returns and the session is freed.
\* Only a UDP receive can hold it: one that a handler started which was queued
\* behind cancel().
PeersGoneEndsSession ==
    (gone = {"left", "right"}) ~>
        (life \in {"destroyed", "crashed"} \/ [](socks5_cmd = "UDP" /\ pend["right_read"] > 0))

\* Connecting ends, for lack of addresses or by the timer, even when no remote
\* ever answers, unless a cancel() withdrew the timer of an attempt too early.
ConnectEnds == (Out("connect") > 0) ~> (Out("connect") = 0 \/ "overtaken" \in history)

\* A client that was denied, or whose request was refused, is dropped: its
\* session is freed although the client keeps the connection open.
RefusalEndsSession ==
    ("deny" \in history \/ socks5_resp_reply \notin {"unset", "0x00"}) ~> life \in {"destroyed", "crashed"}

-----------------------------------------------------------------------------
(* Claims of the comments and of doc/lss/pack.md that do not hold.         *)

\* "The read operation's completion handler has not ran.": when the lambda of
\* the timer sends timeout, the resolver or the connection is outstanding.
TimeoutOnlyWhenPending ==
    [][timerQueue' < timerQueue /\ pend'["final_write"] > pend["final_write"]
         => Out("resolve") + Out("connect") > 0]_vars

\* pack.md on 0x05: the session timed out, the server side session is
\* disconnected.  Once its cancel() has run it establishes no connection.
TimeoutDisconnects ==
    [][("timeout" \in history /\ "cancelled" \in history /\ socks5_state' = "CONNECTED")
         => socks5_state = "CONNECTED"]_vars

\* udp_connect_handler: the connection was successful, set the state to connected.
UdpConnectEstablishes ==
    [][(socks5_cmd = "UDP" /\ ok'["connect"] < ok["connect"] /\ life' = "live")
         => socks5_state' = "CONNECTED"]_vars
=============================================================================

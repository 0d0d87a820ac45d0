---------------------------- MODULE LocalSession ----------------------------
(***************************************************************************)
(* One lproxy::local::session: the object lsslocal creates for every       *)
(* client.  "left" is the thread and the socket of the client, "right"     *)
(* those of lssserver and of the resolver.  As in ServerSession the        *)
(* control state is the set of outstanding asynchronous operations, each a *)
(* slot named for what it does, with the counters pend, ok and err.        *)
(*                                                                         *)
(* A handler is one action, but for cancel(), which cancels one socket     *)
(* after the other, and for pack_data and unpack_reply_data, which create  *)
(* aes_encryptor on first use: two threads can be inside them at a time.   *)
(***************************************************************************)
EXTENDS Integers

CONSTANT MaxEndpoints \* bound on the addresses left when async_connect gives up

ASSUME EndpointsAssumption == MaxEndpoints \in Nat

VARIABLES
    life,             \* "new", "live", "destroyed" (last shared_ptr gone), "crashed"
    status,           \* session::status
    aes_encryptor,    \* the shared_ptr: "null" or "set"
    endpoints,        \* addresses behind the iterator given to connect_handler
    pend, ok, err,    \* asynchronous operations
    pc,               \* what a thread is in the middle of
    gone,             \* the ends, of "left" and "right", that are closed and drained
    sent,             \* packets sent to the server: "hello", "exchange", "data", "bad"
    heard             \* what the server sent: "exchange" (with our random number),
                      \* "deny", "timeout", "bad"; "unexpected": one of them, or
                      \* data, that lssserver would not have sent

ops     == <<pend, ok, err>>
packets == <<sent, heard>>
vars    == <<life, status, aes_encryptor, endpoints, ops, pc, gone, packets>>

-----------------------------------------------------------------------------
(* Operations and the handlers they are bound to.                          *)

LeftReads   == {"step1_read",      \* -> left_read_socks5_step1
                "left_read"}       \* -> left_read_handler
LeftWrites  == {"step1_write",     \* -> left_write_socks5_step1_handler
                "left_write",      \* -> left_write_handler
                "cont_write"}      \* -> right_read_handler, with the rest of the buffer
RightWrites == {"hello_write",     \* -> hello_handler
                "exchange_write",  \* -> exchange_handler
                "right_write",     \* -> right_write_handler
                "final_write"}     \* bad -> cancel
LeftOps     == LeftReads \cup LeftWrites
RightOps    == RightWrites \cup
               {"right_read",      \* -> right_read_handler
                "resolve",         \* -> resolve_handler
                "connect"}         \* -> connect_handler
Ops         == LeftOps \cup RightOps
Threads     == {"left", "right"}
ThreadOf(s) == IF s \in LeftOps THEN "left" ELSE "right"

Out(s) == pend[s] + ok[s] + err[s]

\* Nothing keeps a shared_ptr to the session any more.
Released == /\ \A s \in Ops : Out(s) = 0
            /\ \A t \in Threads : pc[t] = "idle"

\* The frame of every step of the session; ~session() runs when the handler
\* that returns held the last shared_ptr.
Return == /\ life' = IF Released' THEN "destroyed" ELSE "live"
          /\ UNCHANGED gone

\* A thread runs the handler of a completed operation.
Completed(s) == /\ pc[ThreadOf(s)] = "idle"
                /\ ok[s] > 0
                /\ ok' = [ok EXCEPT ![s] = @ - 1]
                /\ err' = err
Failed(s)    == /\ pc[ThreadOf(s)] = "idle"
                /\ err[s] > 0
                /\ err' = [err EXCEPT ![s] = @ - 1]
                /\ ok' = ok

\* How a handler ends: it initiates operation s,
Initiate(s) == /\ pend' = [pend EXCEPT ![s] = @ + 1]
               /\ UNCHANGED <<pc, sent>>
\* it sends a packet to the server,
Send(packet, s) == /\ pend' = [pend EXCEPT ![s] = @ + 1]
                   /\ sent' = sent \cup {packet}
                   /\ UNCHANGED pc
\* or it enters a function of several steps.
Enter(t, f) == /\ pc' = [pc EXCEPT ![t] = f]
               /\ UNCHANGED <<pend, sent>>
CallCancel(t) == Enter(t, "cancel_left")

-----------------------------------------------------------------------------
Init ==
    /\ life = "new"
    /\ status = "not_connected"
    /\ aes_encryptor = "null"
    /\ endpoints = 0
    /\ pend = [s \in Ops |-> 0]
    /\ ok = [s \in Ops |-> 0]
    /\ err = [s \in Ops |-> 0]
    /\ pc = [t \in Threads |-> "idle"]
    /\ gone = {}
    /\ sent = {}
    /\ heard = {}

\* The accept handler calls start().  When the client is already gone,
\* remote_endpoint() fails and the session is dropped.
start ==
    /\ life = "new"
    /\ Initiate("resolve") \/ UNCHANGED <<pend, pc, sent>>
    /\ UNCHANGED <<status, aes_encryptor, endpoints, ok, err, heard>>
    /\ Return

-----------------------------------------------------------------------------
(* Reaching the server.                                                    *)

\* async_connect tries every address.  When it gives up its iterator is at the
\* end, or, out of descriptors, still at an address (endpoints foretells where).
ResolveOk ==
    /\ Completed("resolve")
    /\ Initiate("connect")
    /\ endpoints' \in 0 .. MaxEndpoints
    /\ UNCHANGED <<status, aes_encryptor, heard>>
    /\ Return

Connected ==
    /\ Completed("connect")
    /\ status' = "connected"
    /\ Send("hello", "hello_write")
    /\ UNCHANGED <<aes_encryptor, endpoints, heard>>
    /\ Return

\* Mutant of ConnectTryNext: the comparison with the end iterator is missing.
MutConnectTryNext ==
    /\ Failed("connect")
    /\ endpoints' = endpoints - 1
    /\ Initiate("connect")
    /\ UNCHANGED <<status, aes_encryptor, heard>>
    /\ Return

ConnectTryNext ==
    /\ Failed("connect")
    /\ endpoints > 0
    /\ endpoints' = endpoints - 1
    /\ Initiate("connect")
    /\ UNCHANGED <<status, aes_encryptor, heard>>
    /\ Return

\* The frame of the handlers below, which touch neither iterator nor encryptor.
Handled == UNCHANGED <<aes_encryptor, endpoints>> /\ Return

Unreachable ==
    /\ Failed("resolve") \/ (Failed("connect") /\ endpoints = 0)
    /\ CallCancel("right")
    /\ UNCHANGED <<status, heard>>
    /\ Handled

HelloWritten ==
    /\ Completed("hello_write")
    /\ Initiate("right_read")
    /\ status' = "hello"
    /\ UNCHANGED heard
    /\ Handled

ExchangeWritten ==
    /\ Completed("exchange_write")
    /\ Initiate("right_read")
    /\ status' = "auth"
    /\ UNCHANGED heard
    /\ Handled

\* Mutant of RightWriteFailed: a write that failed is tried once more.
MutRightWriteFailed ==
    /\ \E s \in RightWrites \ {"final_write"} : Failed(s) /\ Initiate(s)
    /\ UNCHANGED <<status, heard>>
    /\ Handled

\* hello_handler, exchange_handler and right_write_handler with an error.
RightWriteFailed ==
    /\ \E s \in RightWrites \ {"final_write"} : Failed(s)
    /\ CallCancel("right")
    /\ UNCHANGED <<status, heard>>
    /\ Handled

-----------------------------------------------------------------------------
(* right_read_handler.  src is the operation that completed: a read of     *)
(* socket_right, or the write to the client after which the rest of the    *)
(* same buffer is handled, on the left thread.                             *)

Sources == {"right_read", "cont_write"}

\* A packet that is not complete yet: read on into the same buffer.
IncompletePacket(src) ==
    /\ Completed(src)
    /\ Initiate("right_read")
    /\ UNCHANGED <<status, heard>>
    /\ Handled

\* A packet that is too short, of an unknown type, wrong in the present status
\* (assert_status), a hello with an unusable key, or an exchange with another random
\* number: no word of it is answered.
RejectedPacket(src) ==
    /\ Completed(src)
    /\ CallCancel(ThreadOf(src))
    /\ UNCHANGED <<status, heard>>
    /\ Handled

\* Mutant of RightReadFailed: the read is started again.
MutRightReadFailed(src) ==
    /\ Failed(src)
    /\ Initiate("right_read")
    /\ UNCHANGED <<status, heard>>
    /\ Handled

RightReadFailed(src) ==
    /\ Failed(src)
    /\ CallCancel(ThreadOf(src))
    /\ UNCHANGED <<status, heard>>
    /\ Handled

\* The server may send anything.  lssserver, as ServerSession shows, denies only
\* exchanges, and sends data or timeout only after a request; bad at any time.
Expected(packet) ==
    CASE packet = "deny"                -> status = "auth"
      [] packet \in {"timeout", "data"} -> "data" \in sent
      [] OTHER                          -> TRUE

\* Mutant of Notice: a denied session starts over, as pack.md suggests.
MutNotice(src, packet) ==
    /\ Completed(src)
    /\ heard' = heard \cup (IF Expected(packet) THEN {packet} ELSE {packet, "unexpected"})
    /\ IF packet = "deny" THEN Send("hello", "hello_write") ELSE CallCancel(ThreadOf(src))
    /\ UNCHANGED status
    /\ Handled

\* deny, timeout, bad.
Notice(src, packet) ==
    /\ Completed(src)
    /\ heard' = heard \cup (IF Expected(packet) THEN {packet} ELSE {packet, "unexpected"})
    /\ CallCancel(ThreadOf(src))
    /\ UNCHANGED status
    /\ Handled

HelloReply(src) ==
    /\ Completed(src)
    /\ status = "hello"
    /\ Send("exchange", "exchange_write")
    /\ UNCHANGED <<status, heard>>
    /\ Handled

\* Mutant of ServerVerified: assert_status(status_auth) is missing.
MutServerVerified(src) ==
    /\ Completed(src)
    /\ heard' = heard \cup {"exchange"}
    /\ Initiate("step1_read")
    /\ status' = "data"
    /\ Handled

\* An exchange with the random number of ours.
ServerVerified(src) ==
    /\ Completed(src)
    /\ status = "auth"
    /\ heard' = heard \cup {"exchange"}
    /\ Initiate("step1_read")
    /\ status' = "data"
    /\ Handled

DataReply(src) ==
    /\ Completed(src)
    /\ status = "data"
    /\ heard' = IF Expected("data") THEN heard ELSE heard \cup {"unexpected"}
    /\ Enter(ThreadOf(src), "unpack")
    /\ UNCHANGED status
    /\ Handled

-----------------------------------------------------------------------------
(* pack_data and unpack_reply_data.  When both threads are inside and       *)
(* aes_encryptor is not set, both test it and assign it: a data race, which *)
(* may go well or end the process.                                          *)

Packing == {"pack", "unpack"}
Raced   == aes_encryptor = "null" /\ \A t \in Threads : pc[t] \in Packing

Crash ==
    /\ life' = "crashed"
    /\ pend' = [s \in Ops |-> 0]
    /\ ok' = [s \in Ops |-> 0]
    /\ err' = [s \in Ops |-> 0]
    /\ pc' = [t \in Threads |-> "idle"]
    /\ UNCHANGED <<status, aes_encryptor, endpoints, gone, packets>>

RaceCrash == Raced /\ Crash

\* Mutant of CreateEncryptor: an encryptor made for this packet only.
MutCreateEncryptor == UNCHANGED aes_encryptor

CreateEncryptor == aes_encryptor' = "set"

pack_data(t) ==
    /\ pc[t] = "pack"
    /\ CreateEncryptor
    /\ pc' = [pc EXCEPT ![t] = "idle"]
    /\ pend' = [pend EXCEPT !["right_write"] = @ + 1]
    /\ sent' = sent \cup {"data"}
    /\ UNCHANGED <<status, endpoints, ok, err, heard>>
    /\ Return

\* Mutant of unpack_reply_data: the server is read ahead while the client is
\* written to.
Mutunpack_reply_data(t) ==
    /\ pc[t] = "unpack"
    /\ CreateEncryptor
    /\ pc' = [pc EXCEPT ![t] = "idle"]
    /\ pend' = [pend EXCEPT !["left_write"] = @ + 1, !["right_read"] = @ + 1]
    /\ UNCHANGED <<status, endpoints, ok, err, packets>>
    /\ Return

\* When more packets follow in the buffer the write is bound to
\* right_read_handler, else to left_write_handler.
unpack_reply_data(t) ==
    /\ pc[t] = "unpack"
    /\ CreateEncryptor
    /\ pc' = [pc EXCEPT ![t] = "idle"]
    /\ \E write \in {"left_write", "cont_write"} : pend' = [pend EXCEPT ![write] = @ + 1]
    /\ UNCHANGED <<status, endpoints, ok, err, packets>>
    /\ Return

-----------------------------------------------------------------------------
(* The client's side.                                                      *)

\* The client's first message, a socks5 greeting, is answered by lsslocal.
Greeted ==
    /\ Completed("step1_read")
    /\ Initiate("step1_write")
    /\ UNCHANGED <<status, heard>>
    /\ Handled

\* illegal_data_type, unsupported_version.
IllegalGreeting ==
    /\ Completed("step1_read")
    /\ Send("bad", "final_write")
    /\ UNCHANGED <<status, heard>>
    /\ Handled

GreetingAnswered ==
    /\ Completed("step1_write")
    /\ pend' = [pend EXCEPT !["left_read"] = @ + 1, !["right_read"] = @ + 1]
    /\ UNCHANGED <<status, pc, packets>>
    /\ Handled

\* Mutant of ClientFailed: the read is restarted behind the bad, as the code in
\* the comments of left_read_handler does for HTTP keep-alive.
MutClientFailed ==
    /\ \E s \in LeftReads \cup {"step1_write"} : Failed(s)
    /\ pend' = [pend EXCEPT !["final_write"] = @ + 1, !["left_read"] = @ + 1]
    /\ sent' = sent \cup {"bad"}
    /\ UNCHANGED <<status, pc, heard>>
    /\ Handled

\* The error branches of left_read_socks5_step1, left_write_socks5_step1_handler
\* and left_read_handler.
ClientFailed ==
    /\ \E s \in LeftReads \cup {"step1_write"} : Failed(s)
    /\ Send("bad", "final_write")
    /\ UNCHANGED <<status, heard>>
    /\ Handled

LeftRead ==
    /\ Completed("left_read")
    /\ Enter("left", "pack")
    /\ UNCHANGED <<status, heard>>
    /\ Handled

RightWritten ==
    /\ Completed("right_write")
    /\ Initiate("left_read")
    /\ UNCHANGED <<status, heard>>
    /\ Handled

LeftWritten ==
    /\ Completed("left_write")
    /\ Initiate("right_read")
    /\ UNCHANGED <<status, heard>>
    /\ Handled

LeftWriteFailed ==
    /\ Failed("left_write")
    /\ CallCancel("left")
    /\ UNCHANGED <<status, heard>>
    /\ Handled

\* The completion of a bad packet is bound to cancel itself.
FinalWritten ==
    /\ Completed("final_write") \/ Failed("final_write")
    /\ CallCancel("right")
    /\ UNCHANGED <<status, heard>>
    /\ Handled

-----------------------------------------------------------------------------
(* cancel(), one socket after the other.  An operation that has completed  *)
(* is past cancelling, and a write that has made progress may continue; so *)
(* does async_connect, with its next address.                              *)

Abort(aborted) ==
    /\ pend' = [s \in Ops |-> IF s \in aborted THEN 0 ELSE pend[s]]
    /\ err' = [s \in Ops |-> IF s \in aborted THEN err[s] + pend[s] ELSE err[s]]
    /\ ok' = ok

CancelLeft(t) ==
    /\ pc[t] = "cancel_left"
    /\ pc' = [pc EXCEPT ![t] = "cancel_right"]
    /\ \E going \in SUBSET LeftWrites : Abort(LeftOps \ going)
    /\ UNCHANGED <<status, packets>>
    /\ Handled

\* The resolver is not cancelled.
CancelRight(t) ==
    /\ pc[t] = "cancel_right"
    /\ pc' = [pc EXCEPT ![t] = "idle"]
    /\ \E going \in SUBSET (RightWrites \cup {"connect"}) :
           Abort(RightOps \ (going \cup {"resolve"}))
    /\ UNCHANGED <<status, packets>>
    /\ Handled

-----------------------------------------------------------------------------
(* Environment: operations complete, the gone go away.                     *)

PeerGone(s) == ThreadOf(s) \in gone /\ s # "resolve"

CompleteOk(s) ==
    /\ pend[s] > 0
    /\ ~PeerGone(s)
    /\ pend' = [pend EXCEPT ![s] = @ - 1]
    /\ ok' = [ok EXCEPT ![s] = @ + 1]
    /\ UNCHANGED <<life, status, aes_encryptor, endpoints, err, pc, gone, packets>>

CompleteErr(s) ==
    /\ pend[s] > 0
    /\ pend' = [pend EXCEPT ![s] = @ - 1]
    /\ err' = [err EXCEPT ![s] = @ + 1]
    /\ UNCHANGED <<life, status, aes_encryptor, endpoints, ok, pc, gone, packets>>

PeerLeaves ==
    /\ life = "live"
    /\ \E end \in Threads \ gone : gone' = gone \cup {end}
    /\ UNCHANGED <<life, status, aes_encryptor, endpoints, ops, pc, packets>>

-----------------------------------------------------------------------------
right_read_handler(src) ==
    \/ IncompletePacket(src)
    \/ RejectedPacket(src)
    \/ RightReadFailed(src)
    \/ \E packet \in {"deny", "timeout", "bad"} : Notice(src, packet)
    \/ HelloReply(src)
    \/ ServerVerified(src)
    \/ DataReply(src)

InProgress(t) == pack_data(t) \/ unpack_reply_data(t) \/ CancelLeft(t) \/ CancelRight(t)

LeftThread ==
    \/ right_read_handler("cont_write")
    \/ Greeted
    \/ IllegalGreeting
    \/ GreetingAnswered
    \/ ClientFailed
    \/ LeftRead
    \/ LeftWritten
    \/ LeftWriteFailed
    \/ InProgress("left")

RightThread ==
    \/ ResolveOk
    \/ Connected
    \/ ConnectTryNext
    \/ Unreachable
    \/ HelloWritten
    \/ ExchangeWritten
    \/ RightWriteFailed
    \/ right_read_handler("right_read")
    \/ RightWritten
    \/ FinalWritten
    \/ InProgress("right")

Complete(s) == CompleteOk(s) \/ CompleteErr(s)

Next ==
    \/ start
    \/ LeftThread
    \/ RightThread
    \/ RaceCrash
    \/ PeerLeaves
    \/ \E s \in Ops : Complete(s)

Spec == Init /\ [][Next]_vars

\* Both io_services keep running what is queued, getaddrinfo returns, and an
\* operation on a connection whose other end is gone completes.  Nothing forces
\* client or server to send, to read or to go away, nor a connection to succeed.
\* RightFairness is WF_vars(RightThread), ResolveFairness WF_vars(Complete("resolve")),
\* GoneFairness(s) WF_vars(PeerGone(s) /\ CompleteErr(s)), with what is enabled
\* spelled out.
CanRight        == pc["right"] # "idle" \/ \E s \in RightOps : ok[s] + err[s] > 0
RightFairness   == []<>(~ CanRight) \/ []<><<RightThread>>_vars
ResolveFairness == []<>(pend["resolve"] = 0) \/ []<><<Complete("resolve")>>_vars
GoneFairness(s) == \/ []<>(~ (PeerGone(s) /\ pend[s] > 0))
                   \/ []<><<PeerGone(s) /\ CompleteErr(s)>>_vars
PeersFairness   == \A s \in Ops : GoneFairness(s)

Fairness ==
    /\ WF_vars(LeftThread)
    /\ RightFairness
    /\ ResolveFairness
    /\ PeersFairness

FairSpec == Spec /\ Fairness

-----------------------------------------------------------------------------
(* Properties.                                                             *)

\* Every variable has the type its declaration in session_local.h gives it.
TypeOK ==
    /\ life \in {"new", "live", "destroyed", "crashed"}
    /\ status \in {"not_connected", "connected", "hello", "auth", "data"}
    /\ aes_encryptor \in {"null", "set"}
    /\ endpoints \in 0 .. MaxEndpoints
    /\ pend \in [Ops -> Nat]
    /\ ok \in [Ops -> Nat]
    /\ err \in [Ops -> Nat]
    /\ pc \in [Threads -> {"idle", "cancel_left", "cancel_right"} \cup Packing]
    /\ gone \subseteq Threads
    /\ sent \subseteq {"hello", "exchange", "data", "bad"}
    /\ heard \subseteq {"exchange", "deny", "timeout", "bad", "unexpected"}

In(f) == (IF pc["left"] = f THEN 1 ELSE 0) + (IF pc["right"] = f THEN 1 ELSE 0)

\* Each socket has at most one read and one write outstanding, whatever cancel()
\* and the other thread do.  In particular the bad packet that left_read_handler
\* sends on the right socket never overlaps a data packet there.
OneOperationPerStream ==
    /\ Out("step1_read") + Out("left_read") + In("pack") <= 1
    /\ Out("step1_write") + Out("left_write") + Out("cont_write") <= 1
    /\ Out("right_read") + In("unpack") <= 1
    /\ Out("hello_write") + Out("exchange_write") + Out("right_write") + Out("final_write") <= 1

\* Not a byte of the client is read, and none sent to it, before the server has
\* returned the random number that was sent to it, whatever the server sends.
NothingBeforeVerified ==
    (status = "data" \/ \E s \in LeftOps \cup {"right_write", "final_write"} : Out(s) > 0)
        => {"hello", "exchange"} \subseteq sent /\ "exchange" \in heard

\* bad is the last packet a session sends: nothing of the client is read or
\* forwarded behind it.
BadIsLast ==
    "bad" \in sent => \A s \in (RightWrites \ {"final_write"}) \cup LeftReads \cup {"step1_write"} :
                          Out(s) = 0

\* While the server has sent nothing lssserver would not, the two threads never
\* create aes_encryptor at once, although nothing but the protocol prevents it:
\* data only answers data.
EncryptorNotRaced == "unexpected" \notin heard => ~Raced

\* When lssserver denies a session, it has nothing left to run.
DenyIsFinal ==
    "deny" \in heard /\ "unexpected" \notin heard => \A s \in Ops : Out(s) = 0

\* When both ends are gone the last handler returns and the session is freed.
PeersGoneEndsSession ==
    (gone = {"left", "right"}) ~> life \in {"destroyed", "crashed"}

\* A server that goes away during the handshake leaves no session behind,
\* although no operation watches the client: the handshake ends or has ended.
ServerGoneEndsHandshake ==
    ("right" \in gone) ~> (status = "data" \/ life = "destroyed")

-----------------------------------------------------------------------------
(* Claims of doc/lss/pack.md that do not hold.                             *)

\* pack.md on 0xff: explicitly requires that the session be disconnected.  It is
\* not, although the server closes its end as well: right_write_handler may be
\* queued behind the cancel() and starts another read of a client that is silent.
BadEndsSession ==
    ("bad" \in heard /\ "unexpected" \notin heard /\ "right" \in gone) ~> life \in {"destroyed", "crashed"}
=============================================================================

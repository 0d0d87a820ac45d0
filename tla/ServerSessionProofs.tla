------------------------ MODULE ServerSessionProofs ------------------------
(***************************************************************************)
(* What TLAPS proves of ServerSession, for every MaxEndpoints.             *)
(*                                                                         *)
(* The argument: the outstanding operations of a session are two tokens.   *)
(* The upstream token walks through the handshake, the resolver and the    *)
(* connection and then alternates between reading local and writing to the *)
(* remote; the downstream token alternates between writing to local and    *)
(* reading the remote and exists only once a request has been answered.    *)
(* A handler moves its token, answers with the other one or drops it;      *)
(* completions and cancel() move none.  Consistent says where a token may  *)
(* be for each value of status, socks5_state and socks5_resp_reply.        *)
(***************************************************************************)
EXTENDS ServerSession, TLAPS

UpOps   == {"left_read", "hello_write", "exchange_write", "resolve", "connect",
            "right_write", "cont_write"}
DownOps == {"left_write", "right_read"}

Gain(x, s) == IF x = s THEN 1 ELSE 0

\* The upstream token is at u: an operation, nowhere ("none"), or with a thread
\* that is about to initiate one, the read of socks5_resp_to_local or the attempt
\* that a tcp handler has armed the timer for.
Places == {"resp_read", "to_connect"}
UpIs(u) ==
    /\ \A x \in UpOps : Out(x) = Gain(x, u)
    /\ \A t \in Threads : pc[t] \in Places => pc[t] = u
    /\ u \in Places => \E t \in Threads : /\ pc[t] = u
                                         /\ \A o \in Threads \ {t} : pc[o] \notin Places

DownIs(d) == \A x \in DownOps : Out(x) = Gain(x, d)

\* The handshake: which packet may be on its way in which status.
HandshakeInv(u, d) ==
    /\ u = "hello_write" => status = "hello"
    /\ u = "exchange_write" => status = "auth" /\ "authed" \in history /\ aes_encryptor = "set"
    /\ status = "data" => "authed" \in history /\ aes_encryptor = "set"
    /\ status # "data" => /\ u \in {"none", "left_read", "hello_write", "exchange_write"}
                          /\ d = "none"
                          /\ socks5_state = "OPENING"

\* The request: where the tokens are before, while and after it is answered.
RequestInv(u, d) ==
    /\ socks5_state = "OPENING" => socks5_resp_reply = "unset" /\ socks5_cmd = "unset"
    /\ socks5_state = "CONNECTED" <=> socks5_resp_reply = "0x00"
    /\ socks5_state = "CONNECTED" => socks5_cmd \in {"CONNECT", "UDP"}
    /\ u = "left_read" => socks5_state # "CONNECTING"
    /\ u \in {"resolve", "to_connect", "connect"} => /\ socks5_state = "CONNECTING"
                                                     /\ socks5_resp_reply = "unset"
                                                     /\ socks5_cmd \in {"CONNECT", "UDP"}
    /\ u \in {"right_write", "cont_write", "resp_read"} \/ d = "right_read" =>
           socks5_state = "CONNECTED"
    /\ socks5_resp_reply = "unset" => d = "none"
    /\ socks5_resp_reply \notin {"unset", "0x00"} => u = "none"

Consistent(u, d) ==
    /\ HandshakeInv(u, d)
    /\ RequestInv(u, d)
    /\ "deny" \in history => u = "none" /\ d = "none"
    /\ life = "new" => /\ u = "none" /\ d = "none"
                       /\ status = "not_connected" /\ "deny" \notin history

Inv == \E u \in UpOps \cup {"none", "resp_read", "to_connect"}, d \in DownOps \cup {"none"} :
           UpIs(u) /\ DownIs(d) /\ Consistent(u, d)

\* The timer: an attempt is guarded from the moment its timer is armed, and a
\* wait in progress ends in the future.
Attempt == pend["connect"] > 0 \/ pc["right"] = "to_connect"
TimerInv == /\ socks5_cmd = "CONNECT" /\ Attempt => Guarded \/ "overtaken" \in history
            /\ timerWait = 1 => expiry = "future"

\* A session that is gone makes no attempt.
Freed == life = "destroyed" => pend["connect"] = 0 /\ pc["right"] # "to_connect"

-----------------------------------------------------------------------------
(* Types.                                                                  *)

LEMMA TypeInit == Init => TypeOK
<1>1. 0 \in 0 .. MaxEndpoints - 1
  BY EndpointsAssumption
<1>2. [s \in Ops |-> 0] \in [Ops -> Nat]
  OBVIOUS
<1>3. [t \in Threads |-> "idle"] \in [Threads -> {"idle", "resp_read", "to_connect"} \cup Cancelling]
  OBVIOUS
<1> QED
  BY <1>1, <1>2, <1>3 DEF Init, TypeOK

LEMMA TypeNext == ASSUME TypeOK, [Next]_vars PROVE TypeOK'
<1> USE EndpointsAssumption DEF TypeOK, Cancelling, Ops, LeftOps, RightOps, LeftWrites,
   RightWrites,
        Threads, ThreadOf, Completed, Failed, Initiate, SendFinal, CallCancel, RespToLocal,
        Request, Return, ReturnArmed, ReturnDisarmed, Settle, Crash, Abort, ToConnect, socks5, ops
<1>1. ASSUME NEW src \in Sources, IncompletePacket(src) PROVE TypeOK'
  BY <1>1 DEF IncompletePacket, Sources
<1>2. ASSUME NEW src \in Sources, RejectedPacket(src) PROVE TypeOK'
  BY <1>2 DEF RejectedPacket, Sources
<1>3. ASSUME NEW src \in Sources, ReadFailed(src) PROVE TypeOK'
  BY <1>3 DEF ReadFailed, Sources
<1>4. ASSUME NEW src \in Sources, HelloPacket(src) PROVE TypeOK'
  <2>1. CASE Initiate("hello_write")
    BY <1>4, <2>1 DEF HelloPacket, Sources
  <2>2. CASE SendFinal("bad")
    BY <1>4, <2>2 DEF HelloPacket, Sources
  <2> QED
    BY <1>4, <2>1, <2>2 DEF HelloPacket, Sources
<1>5. ASSUME NEW src \in Sources, ExchangeDenied(src) PROVE TypeOK'
  BY <1>5 DEF ExchangeDenied, Sources
<1>6. ASSUME NEW src \in Sources, ExchangeAccepted(src) PROVE TypeOK'
  BY <1>6 DEF ExchangeAccepted, Sources
<1>7. ASSUME NEW src \in Sources, RelayData(src) PROVE TypeOK'
  <2>1. CASE \E write \in RightWrites : Initiate(write)
    BY <1>7, <2>1 DEF RelayData, Sources
  <2>2. CASE SendFinal("bad")
    BY <1>7, <2>2 DEF RelayData, Sources
  <2> QED
    BY <1>7, <2>1, <2>2 DEF RelayData, Sources
<1>8. ASSUME NEW src \in Sources, MalformedRequest(src) PROVE TypeOK'
  BY <1>8 DEF MalformedRequest, Sources
<1>9. ASSUME NEW src \in Sources, ConnectRequest(src) PROVE TypeOK'
  BY <1>9 DEF ConnectRequest, Sources
<1>10. ASSUME NEW src \in Sources, UdpNameRequest(src) PROVE TypeOK'
  BY <1>10 DEF UdpNameRequest, Sources
<1>11. ASSUME NEW src \in Sources, UdpAnyRequest(src) PROVE TypeOK'
  BY <1>11 DEF UdpAnyRequest, Sources
<1>12. ASSUME NEW src \in Sources, BindRequest(src) PROVE TypeOK'
  BY <1>12 DEF BindRequest, Sources
<1>13. ASSUME NEW t \in Threads, RespRead(t) PROVE TypeOK'
  BY <1>13 DEF RespRead
<1>14. ASSUME NEW t \in Threads, CancelTimer(t) PROVE TypeOK'
  BY <1>14 DEF CancelTimer
<1>15. ASSUME NEW t \in Threads, CancelLeft(t) PROVE TypeOK'
  BY <1>15 DEF CancelLeft
<1>16. ASSUME NEW t \in Threads, CancelRight(t) PROVE TypeOK'
  BY <1>16 DEF CancelRight, Cancelled
<1>17. ASSUME ShortPacket PROVE TypeOK'
  BY <1>17 DEF ShortPacket
<1>18. ASSUME HelloWritten PROVE TypeOK'
  BY <1>18 DEF HelloWritten
<1>19. ASSUME ExchangeWritten PROVE TypeOK'
  BY <1>19 DEF ExchangeWritten
<1>20. ASSUME LeftWritten PROVE TypeOK'
  <2>1. CASE CallCancel("left")
    BY <1>20, <2>1 DEF LeftWritten
  <2>2. CASE Initiate("left_read")
    BY <1>20, <2>2 DEF LeftWritten
  <2>3. CASE Initiate("right_read")
    BY <1>20, <2>3 DEF LeftWritten
  <2>4. CASE SendFinal("bad")
    BY <1>20, <2>4 DEF LeftWritten
  <2> QED
    BY <1>20, <2>1, <2>2, <2>3, <2>4 DEF LeftWritten
<1>21. ASSUME LeftWriteFailed PROVE TypeOK'
  BY <1>21 DEF LeftWriteFailed
<1>22. ASSUME FinalWritten PROVE TypeOK'
  BY <1>22 DEF FinalWritten
<1>23. ASSUME ResolveOk PROVE TypeOK'
  <2>1. CASE socks5_cmd = "CONNECT" /\ ToConnect /\ ReturnArmed
    BY <1>23, <2>1 DEF ResolveOk
  <2>2. CASE /\ socks5_cmd = "UDP"
             /\ Initiate("connect")
             /\ UNCHANGED <<timerQueue, expiry, gone>>
             /\ Settle(timerWait)
    BY <1>23, <2>2 DEF ResolveOk
  <2> QED
    BY <1>23, <2>1, <2>2 DEF ResolveOk
<1>24. ASSUME ResolveFailed PROVE TypeOK'
  <2>1. CASE socks5_cmd = "CONNECT" /\ ReturnDisarmed
    BY <1>24, <2>1 DEF ResolveFailed
  <2>2. CASE socks5_cmd = "UDP" /\ Return
    BY <1>24, <2>2 DEF ResolveFailed
  <2> QED
    BY <1>24, <2>1, <2>2 DEF ResolveFailed
<1>25. ASSUME TcpConnected PROVE TypeOK'
  BY <1>25 DEF TcpConnected
<1>26. ASSUME TcpTryNext PROVE TypeOK'
  BY <1>26 DEF TcpTryNext
<1>27. ASSUME UdpTryNext PROVE TypeOK'
  BY <1>27 DEF UdpTryNext
<1>28. ASSUME ConnectFailed PROVE TypeOK'
  <2>1. CASE socks5_cmd = "CONNECT" /\ ReturnDisarmed
    BY <1>28, <2>1 DEF ConnectFailed
  <2>2. CASE socks5_cmd = "UDP" /\ Return
    BY <1>28, <2>2 DEF ConnectFailed
  <2> QED
    BY <1>28, <2>1, <2>2 DEF ConnectFailed
<1>29. ASSUME UdpConnected PROVE TypeOK'
  BY <1>29 DEF UdpConnected
<1>30. ASSUME UdpConnectedLast \/ UdpReceiveDangling PROVE TypeOK'
  <2>1. Crash
    BY <1>30 DEF UdpConnectedLast, UdpReceiveDangling
  <2> QED
    BY <2>1
<1>30b. ASSUME AsyncConnect PROVE TypeOK'
  BY <1>30b DEF AsyncConnect
<1>31. ASSUME RightWritten PROVE TypeOK'
  <2>1. CASE Initiate("left_read")
    BY <1>31, <2>1 DEF RightWritten
  <2>2. CASE SendFinal("bad")
    BY <1>31, <2>2 DEF RightWritten
  <2> QED
    BY <1>31, <2>1, <2>2 DEF RightWritten
<1>32. ASSUME RightWriteFailed PROVE TypeOK'
  BY <1>32 DEF RightWriteFailed
<1>33. ASSUME RightRead PROVE TypeOK'
  BY <1>33 DEF RightRead
<1>34. ASSUME RightReadFailed PROVE TypeOK'
  BY <1>34 DEF RightReadFailed
<1>35. ASSUME TimerExpired PROVE TypeOK'
  <2>1. CASE expiry = "future" /\ UNCHANGED <<pend, pc, history>>
    BY <1>35, <2>1 DEF TimerExpired
  <2>2. CASE expiry = "past" /\ SendFinal("timeout")
    BY <1>35, <2>2 DEF TimerExpired
  <2> QED
    BY <1>35, <2>1, <2>2 DEF TimerExpired
<1>36. ASSUME TimerExpiredDangling PROVE TypeOK'
  <2>1. CASE Crash
    BY <1>36, <2>1 DEF TimerExpiredDangling
  <2>2. CASE timerQueue' = timerQueue - 1 /\ UNCHANGED <<life, status, socks5,
     aes_encryptor, endpoints, ops, timerWait, expiry, pc, gone, history>>
    BY <1>36, <2>2 DEF TimerExpiredDangling
  <2> QED
    BY <1>36, <2>1, <2>2 DEF TimerExpiredDangling
<1>37. ASSUME start PROVE TypeOK'
  <2>1. CASE Initiate("left_read")
    BY <1>37, <2>1 DEF start
  <2>2. CASE pend' = pend /\ UNCHANGED <<pc, history, status>>
    BY <1>37, <2>2 DEF start
  <2> QED
    BY <1>37, <2>1, <2>2 DEF start
<1>38. ASSUME TimerElapse PROVE TypeOK'
  BY <1>38 DEF TimerElapse
<1>39. ASSUME PeerLeaves PROVE TypeOK'
  BY <1>39 DEF PeerLeaves
<1>40. ASSUME NEW s \in Ops, Complete(s) PROVE TypeOK'
  <2>1. CASE CompleteOk(s)
    BY <1>40, <2>1 DEF Complete, CompleteOk, CompleteErr
  <2>2. CASE CompleteErr(s)
    BY <1>40, <2>2 DEF Complete, CompleteOk, CompleteErr
  <2> QED
    BY <1>40, <2>1, <2>2 DEF Complete, CompleteOk, CompleteErr
<1>41. ASSUME UNCHANGED vars PROVE TypeOK'
  BY <1>41 DEF vars
<1> QED
  BY <1>1, <1>2, <1>3, <1>4, <1>5, <1>6, <1>7, <1>8, <1>9, <1>10, <1>11, <1>12, <1>13,
     <1>14, <1>15, <1>16, <1>17, <1>18, <1>19, <1>20, <1>21, <1>22, <1>23, <1>24, <1>25,
     <1>26, <1>27, <1>28, <1>29, <1>30, <1>30b, <1>31, <1>32, <1>33, <1>34, <1>35, <1>36, <1>37,
     <1>38, <1>39, <1>40, <1>41 DEF Next, LeftThread, RightThread, left_read_handler,
     InProgress, Sources

-----------------------------------------------------------------------------
(* What a step does to the number of outstanding operations.               *)

LEMMA OutIsNat == ASSUME TypeOK, NEW s \in Ops PROVE Out(s) \in Nat
  BY DEF TypeOK, Out

\* The handler of s ends with r: it initiates r, or calls cancel() ("none").
Ends(s, r) ==
    \/ r \in Ops /\ pend' = [pend EXCEPT ![r] = @ + 1] /\ pc' = pc
    \/ r = "none" /\ CallCancel(ThreadOf(s))

After(s, r) == \A x \in Ops : Out(x)' = Out(x) - Gain(x, s) + Gain(x, r)

SameReading == \A t \in Threads : pc[t] \in Places \/ pc'[t] \in Places => pc'[t] = pc[t]

\* A handler that initiates an operation moves one from s to r.
LEMMA OutMoves ==
  ASSUME TypeOK, NEW s \in Ops, NEW r \in Ops, Completed(s) \/ Failed(s),
         pend' = [pend EXCEPT ![r] = @ + 1]
  PROVE  Out(s) > 0 /\ After(s, r)
  BY DEF TypeOK, Out, Gain, After, Completed, Failed

\* So does one that ends with r, where "none" stands for none initiated.
LEMMA Handled ==
  ASSUME TypeOK, NEW s \in Ops, Completed(s) \/ Failed(s), NEW r, Ends(s, r)
  PROVE  Out(s) > 0 /\ After(s, r) /\ SameReading
<1>1. CASE r \in Ops /\ pend' = [pend EXCEPT ![r] = @ + 1] /\ pc' = pc
  BY <1>1, OutMoves DEF SameReading
<1>2. CASE r = "none" /\ CallCancel(ThreadOf(s))
  <2>1. Out(s) > 0 /\ After(s, r)
    BY <1>2 DEF TypeOK, Out, Gain, After, Completed, Failed, CallCancel,
                Ops, LeftOps, RightOps, LeftWrites, RightWrites
  <2>2. SameReading
    BY <1>2 DEF TypeOK, SameReading, Places, Completed, Failed, CallCancel
  <2> QED
    BY <2>1, <2>2
<1> QED
  BY <1>1, <1>2 DEF Ends

\* A step that handles no completion may add one.
LEMMA OutGrows ==
  ASSUME TypeOK, NEW r \in Ops, pend' = [pend EXCEPT ![r] = @ + 1], ok' = ok, err' = err
  PROVE  \A x \in Ops : Out(x)' = Out(x) + Gain(x, r)
  BY DEF TypeOK, Out, Gain

\* Completions and cancel() change no count.
LEMMA OutKept ==
  ASSUME TypeOK,
         \/ UNCHANGED ops
         \/ \E s \in Ops : Complete(s)
         \/ \E aborted : Abort(aborted)
  PROVE  \A x \in Ops : Out(x)' = Out(x)
<1>1. CASE UNCHANGED ops
  BY <1>1 DEF ops, Out
<1>2. CASE \E s \in Ops : Complete(s)
  BY <1>2 DEF TypeOK, Out, Complete, CompleteOk, CompleteErr
<1>3. CASE \E aborted : Abort(aborted)
  BY <1>3 DEF TypeOK, Out, Abort
<1> QED
  BY <1>1, <1>2, <1>3

-----------------------------------------------------------------------------
(* What it does to the tokens.                                             *)

\* A handler runs where its token is.
LEMMA TokenAt ==
  ASSUME TypeOK, NEW u, UpIs(u), NEW d, DownIs(d), NEW s \in UpOps \cup DownOps,
         Completed(s) \/ Failed(s)
  PROVE  /\ s \in UpOps => u = s
         /\ s \in DownOps => d = s
<1>1. Out(s) > 0
  BY DEF TypeOK, Out, Completed, Failed, UpOps, DownOps,
         Ops, LeftOps, RightOps, LeftWrites, RightWrites
<1> QED
  BY <1>1 DEF UpIs, DownIs, Gain

\* The handler of an upstream operation finds the token there and leaves it at
\* the operation it initiates.
LEMMA UpHandled ==
  ASSUME TypeOK, NEW u, UpIs(u), NEW d, DownIs(d), NEW s \in UpOps, Completed(s) \/ Failed(s),
         NEW r, r \in UpOps \cup {"final_write", "none"}, Ends(s, r)
  PROVE  /\ u = s /\ DownIs(d)'
         /\ r \in UpOps => UpIs(r)'
         /\ r \notin UpOps => UpIs("none")'
<1>1. s \in Ops /\ s \notin DownOps
  BY DEF UpOps, DownOps, Ops, LeftOps, RightOps, LeftWrites, RightWrites
<1>2. Out(s) > 0 /\ After(s, r) /\ SameReading
  BY <1>1, Handled
<1>3. u = s
  BY <1>2 DEF UpIs, Gain
<1> QED
  BY <1>2, <1>3 DEF UpIs, DownIs, After, SameReading, Places, Gain, UpOps, DownOps, Threads,
                    Ops, LeftOps, RightOps, LeftWrites, RightWrites

\* Likewise downstream.
LEMMA DownHandled ==
  ASSUME TypeOK, NEW u, UpIs(u), NEW d, DownIs(d), NEW s \in DownOps, Completed(s) \/ Failed(s),
         NEW r, r \in DownOps \cup {"final_write", "none"}, Ends(s, r)
  PROVE  /\ d = s /\ UpIs(u)'
         /\ r \in DownOps => DownIs(r)'
         /\ r \notin DownOps => DownIs("none")'
<1>1. s \in Ops /\ s \notin UpOps
  BY DEF UpOps, DownOps, Ops, LeftOps, RightOps, LeftWrites, RightWrites
<1>2. Out(s) > 0 /\ After(s, r) /\ SameReading
  BY <1>1, Handled
<1>3. d = s
  BY <1>2 DEF DownIs, Gain
<1> QED
  BY <1>2, <1>3 DEF UpIs, DownIs, After, SameReading, Places, Gain, UpOps, DownOps, Threads,
                    Ops, LeftOps, RightOps, LeftWrites, RightWrites

\* An answer creates the downstream token; the upstream one is left with the
\* read that follows when the connection was made, and dropped when it was not.
LEMMA Answered ==
  ASSUME TypeOK, NEW u, UpIs(u), DownIs("none"), NEW s \in UpOps, Completed(s) \/ Failed(s),
         NEW state, NEW reply, RespToLocal(ThreadOf(s), state, reply)
  PROVE  /\ u = s /\ DownIs("left_write")'
         /\ reply = "0x00" => UpIs("resp_read")'
         /\ reply # "0x00" => UpIs("none")'
<1>1. s \in Ops /\ s \notin DownOps /\ "left_write" \in Ops \ UpOps
  BY DEF UpOps, DownOps, Ops, LeftOps, RightOps, LeftWrites, RightWrites
<1>2. Out(s) > 0 /\ After(s, "left_write")
  BY <1>1, OutMoves DEF RespToLocal
<1>3. u = s /\ s \notin Places
  BY <1>2 DEF UpIs, Gain, UpOps, Places
<1>4. /\ \A x \in UpOps : Out(x)' = 0
      /\ DownIs("left_write")'
  BY <1>1, <1>2, <1>3 DEF UpIs, DownIs, After, Gain, UpOps, DownOps,
                    Ops, LeftOps, RightOps, LeftWrites, RightWrites
<1>5. ThreadOf(s) \in Threads /\ pc \in [Threads -> {"idle", "resp_read", "to_connect"} \cup Cancelling]
  BY DEF TypeOK, ThreadOf, Threads
<1>6. /\ reply = "0x00" => UpIs("resp_read")'
      /\ reply # "0x00" => UpIs("none")'
  BY <1>3, <1>4, <1>5 DEF UpIs, RespToLocal, Gain, UpOps, Places
<1> QED
  BY <1>3, <1>4, <1>6

\* A tcp handler that has armed the timer keeps it with the right thread.
LEMMA Placed ==
  ASSUME TypeOK, NEW u, UpIs(u), NEW d, DownIs(d), NEW s \in {"resolve", "connect"},
         Completed(s) \/ Failed(s), ToConnect
  PROVE  u = s /\ UpIs("to_connect")' /\ DownIs(d)'
<1>1. s \in Ops /\ s \in UpOps /\ s \notin DownOps /\ ThreadOf(s) = "right"
  BY DEF UpOps, DownOps, Ops, LeftOps, RightOps, LeftWrites, RightWrites, ThreadOf
<1>2. u = s /\ s \notin Places
  BY <1>1, TokenAt DEF Places
<1>3. \A x \in Ops : Out(x)' = Out(x) - Gain(x, s)
  BY <1>1 DEF TypeOK, Out, Gain, Completed, Failed, ToConnect
<1>4. /\ \A x \in UpOps : Out(x)' = 0
      /\ DownIs(d)'
  BY <1>1, <1>2, <1>3 DEF UpIs, DownIs, Gain, UpOps, DownOps,
                    Ops, LeftOps, RightOps, LeftWrites, RightWrites
<1>5. pc' = [pc EXCEPT !["right"] = "to_connect"] /\ "right" \in Threads
  BY DEF ToConnect, Threads
<1>6. pc \in [Threads -> {"idle", "resp_read", "to_connect"} \cup Cancelling]
  BY DEF TypeOK
<1>7. UpIs("to_connect")'
  BY <1>2, <1>4, <1>5, <1>6 DEF UpIs, Gain, UpOps, Places
<1> QED
  BY <1>2, <1>4, <1>7

\* A step that changes no count and starts no answer leaves both where they are.
LEMMA TokensStay ==
  ASSUME NEW u, UpIs(u), NEW d, DownIs(d), \A x \in Ops : Out(x)' = Out(x), SameReading
  PROVE  UpIs(u)' /\ DownIs(d)'
  BY DEF UpIs, DownIs, SameReading, UpOps, DownOps, Ops, LeftOps, RightOps, LeftWrites, RightWrites

\* Only a session that has not been started is new.
LEMMA NotNew == ASSUME Return \/ ReturnArmed \/ ReturnDisarmed \/ \E wait : Settle(wait)
                PROVE  life' # "new"
  BY DEF Return, ReturnArmed, ReturnDisarmed, Settle

-----------------------------------------------------------------------------
(* Every step keeps Inv.                                                   *)

LEMMA InvNext == ASSUME TypeOK, Inv, [Next]_vars PROVE Inv'
<1> DEFINE Upstreams == UpOps \cup {"none", "resp_read", "to_connect"}
           Downstreams == DownOps \cup {"none"}
<1> SUFFICES ASSUME NEW u \in Upstreams, NEW d \in Downstreams,
                    UpIs(u), DownIs(d), Consistent(u, d)
             PROVE  Inv'
  BY DEF Inv
<1>a. ASSUME NEW v \in Upstreams, NEW e \in Downstreams, UpIs(v)', DownIs(e)', Consistent(v, e)'
      PROVE  Inv'
  BY <1>a DEF Inv
<1> USE DEF Consistent, HandshakeInv, RequestInv, Sources, ThreadOf,
        Ops, LeftOps, RightOps, LeftWrites, RightWrites
<1>1. ASSUME NEW src \in Sources, IncompletePacket(src) PROVE Inv'
  <2>1. Ends(src, "left_read")
    BY <1>1 DEF IncompletePacket, Ends, Initiate
  <2>2. u = src /\ UpIs("left_read")' /\ DownIs(d)'
    BY <1>1, <2>1, UpHandled DEF IncompletePacket, UpOps, DownOps
  <2>3. Consistent("left_read", d)'
    BY <1>1, <2>2, NotNew DEF IncompletePacket, Initiate, socks5
  <2> QED
    BY <2>2, <2>3, <1>a DEF UpOps, DownOps
<1>2. ASSUME NEW src \in Sources, RejectedPacket(src) PROVE Inv'
  <2>1. Ends(src, "none")
    BY <1>2 DEF RejectedPacket, Ends
  <2>2. u = src /\ UpIs("none")' /\ DownIs(d)'
    BY <1>2, <2>1, UpHandled DEF RejectedPacket, UpOps, DownOps
  <2>3. Consistent("none", d)'
    BY <1>2, <2>2, NotNew DEF RejectedPacket, CallCancel, socks5
  <2> QED
    BY <2>2, <2>3, <1>a DEF UpOps, DownOps
<1>3. ASSUME NEW src \in Sources, ReadFailed(src) PROVE Inv'
  <2>1. Ends(src, "none")
    BY <1>3 DEF ReadFailed, Ends
  <2>2. u = src /\ UpIs("none")' /\ DownIs(d)'
    BY <1>3, <2>1, UpHandled DEF ReadFailed, UpOps, DownOps
  <2>3. Consistent("none", d)'
    BY <1>3, <2>2, NotNew DEF ReadFailed, CallCancel, socks5
  <2> QED
    BY <2>2, <2>3, <1>a DEF UpOps, DownOps
<1>4. ASSUME NEW src \in Sources, ExchangeDenied(src) PROVE Inv'
  <2>1. Ends(src, "final_write")
    BY <1>4 DEF ExchangeDenied, Ends, SendFinal
  <2>2. u = src /\ UpIs("none")' /\ DownIs(d)'
    BY <1>4, <2>1, UpHandled DEF ExchangeDenied, UpOps, DownOps
  <2>3. Consistent("none", d)'
    BY <1>4, <2>2, NotNew DEF ExchangeDenied, SendFinal, socks5
  <2> QED
    BY <2>2, <2>3, <1>a DEF UpOps, DownOps
<1>5. ASSUME NEW src \in Sources, ExchangeAccepted(src) PROVE Inv'
  <2>1. Ends(src, "exchange_write")
    BY <1>5 DEF ExchangeAccepted, Ends
  <2>2. u = src /\ UpIs("exchange_write")' /\ DownIs(d)'
    BY <1>5, <2>1, UpHandled DEF ExchangeAccepted, UpOps, DownOps
  <2>3. Consistent("exchange_write", d)'
    BY <1>5, <2>2, NotNew DEF ExchangeAccepted, socks5
  <2> QED
    BY <2>2, <2>3, <1>a DEF UpOps, DownOps
<1>6. ASSUME NEW src \in Sources, MalformedRequest(src) PROVE Inv'
  <2>1. Ends(src, "final_write")
    BY <1>6 DEF MalformedRequest, Ends, SendFinal
  <2>2. u = src /\ UpIs("none")' /\ DownIs(d)'
    BY <1>6, <2>1, UpHandled DEF MalformedRequest, UpOps, DownOps, Request
  <2>3. Consistent("none", d)'
    BY <1>6, <2>2, NotNew DEF MalformedRequest, SendFinal, Request
  <2> QED
    BY <2>2, <2>3, <1>a DEF UpOps, DownOps
<1>7. ASSUME NEW src \in Sources, ConnectRequest(src) PROVE Inv'
  <2>1. Ends(src, "resolve")
    BY <1>7 DEF ConnectRequest, Ends, Initiate
  <2>2. u = src /\ UpIs("resolve")' /\ DownIs(d)'
    BY <1>7, <2>1, UpHandled DEF ConnectRequest, UpOps, DownOps, Request
  <2>3. Consistent("resolve", d)'
    BY <1>7, <2>2, NotNew DEF ConnectRequest, Initiate, Request
  <2> QED
    BY <2>2, <2>3, <1>a DEF UpOps, DownOps
<1>8. ASSUME NEW src \in Sources, UdpNameRequest(src) PROVE Inv'
  <2>1. Ends(src, "resolve")
    BY <1>8 DEF UdpNameRequest, Ends, Initiate
  <2>2. u = src /\ UpIs("resolve")' /\ DownIs(d)'
    BY <1>8, <2>1, UpHandled DEF UdpNameRequest, UpOps, DownOps, Request
  <2>3. Consistent("resolve", d)'
    BY <1>8, <2>2, NotNew DEF UdpNameRequest, Initiate, Request
  <2> QED
    BY <2>2, <2>3, <1>a DEF UpOps, DownOps
<1>9. ASSUME NEW src \in Sources, HelloPacket(src) PROVE Inv'
  <2>1. ASSUME Initiate("hello_write") PROVE Inv'
    <3>1. Ends(src, "hello_write")
      BY <1>9, <2>1 DEF HelloPacket, Ends, Initiate, SendFinal
    <3>2. u = src /\ UpIs("hello_write")' /\ DownIs(d)'
      BY <1>9, <2>1, <3>1, UpHandled DEF HelloPacket, UpOps, DownOps
    <3>3. Consistent("hello_write", d)'
      BY <1>9, <2>1, <3>2, NotNew DEF HelloPacket, Initiate, SendFinal, socks5
    <3> QED
      BY <3>2, <3>3, <1>a DEF UpOps, DownOps
  <2>2. ASSUME SendFinal("bad") PROVE Inv'
    <3>1. Ends(src, "final_write")
      BY <1>9, <2>2 DEF HelloPacket, Ends, Initiate, SendFinal
    <3>2. u = src /\ UpIs("none")' /\ DownIs(d)'
      BY <1>9, <2>2, <3>1, UpHandled DEF HelloPacket, UpOps, DownOps
    <3>3. Consistent("none", d)'
      BY <1>9, <2>2, <3>2, NotNew DEF HelloPacket, Initiate, SendFinal, socks5
    <3> QED
      BY <3>2, <3>3, <1>a DEF UpOps, DownOps
  <2> QED
    BY <1>9, <2>1, <2>2 DEF HelloPacket
<1>10. ASSUME NEW src \in Sources, RelayData(src) PROVE Inv'
  <2>1. ASSUME NEW write \in RightWrites, Initiate(write) PROVE Inv'
    <3>1. Ends(src, write)
      BY <1>10, <2>1 DEF RelayData, Ends, Initiate, SendFinal
    <3>2. u = src /\ UpIs(write)' /\ DownIs(d)'
      BY <1>10, <2>1, <3>1, UpHandled DEF RelayData, UpOps, DownOps
    <3>3. Consistent(write, d)'
      BY <1>10, <2>1, <3>2, NotNew DEF RelayData, Initiate, SendFinal, socks5
    <3> QED
      BY <3>2, <3>3, <1>a DEF UpOps, DownOps
  <2>2. ASSUME SendFinal("bad") PROVE Inv'
    <3>1. Ends(src, "final_write")
      BY <1>10, <2>2 DEF RelayData, Ends, Initiate, SendFinal
    <3>2. u = src /\ UpIs("none")' /\ DownIs(d)'
      BY <1>10, <2>2, <3>1, UpHandled DEF RelayData, UpOps, DownOps
    <3>3. Consistent("none", d)'
      BY <1>10, <2>2, <3>2, NotNew DEF RelayData, Initiate, SendFinal, socks5
    <3> QED
      BY <3>2, <3>3, <1>a DEF UpOps, DownOps
  <2> QED
    BY <1>10, <2>1, <2>2 DEF RelayData
<1>11. ASSUME NEW src \in Sources, UdpAnyRequest(src) PROVE Inv'
  <2>1. ASSUME RespToLocal(ThreadOf(src), "CONNECTING", "0x00") PROVE Inv'
    <3>1. d = "none"
      BY <1>11, <2>1, TokenAt DEF UdpAnyRequest, UpOps, Request
    <3>2. u = src /\ UpIs("resp_read")' /\ DownIs("left_write")'
      BY <1>11, <2>1, <3>1, Answered DEF UdpAnyRequest, UpOps, Request
    <3>3. Consistent("resp_read", "left_write")'
      BY <1>11, <2>1, <3>2, NotNew DEF UdpAnyRequest, RespToLocal, Request
    <3> QED
      BY <3>2, <3>3, <1>a DEF UpOps, DownOps
  <2>2. ASSUME RespToLocal(ThreadOf(src), "CONNECTING", "0x01") PROVE Inv'
    <3>1. d = "none"
      BY <1>11, <2>2, TokenAt DEF UdpAnyRequest, UpOps, Request
    <3>2. u = src /\ UpIs("none")' /\ DownIs("left_write")'
      BY <1>11, <2>2, <3>1, Answered DEF UdpAnyRequest, UpOps, Request
    <3>3. Consistent("none", "left_write")'
      BY <1>11, <2>2, <3>2, NotNew DEF UdpAnyRequest, RespToLocal, Request
    <3> QED
      BY <3>2, <3>3, <1>a DEF UpOps, DownOps
  <2> QED
    BY <1>11, <2>1, <2>2 DEF UdpAnyRequest
<1>12. ASSUME NEW src \in Sources, BindRequest(src) PROVE Inv'
  <2>1. d = "none"
    BY <1>12, TokenAt DEF BindRequest, UpOps, Request
  <2>2. u = src /\ UpIs("none")' /\ DownIs("left_write")'
    BY <1>12, <2>1, Answered DEF BindRequest, UpOps, Request
  <2>3. Consistent("none", "left_write")'
    BY <1>12, <2>2, NotNew DEF BindRequest, RespToLocal, Request
  <2> QED
    BY <2>2, <2>3, <1>a DEF UpOps, DownOps
<1>13. ASSUME NEW t \in Threads, RespRead(t) PROVE Inv'
  <2>1. \A x \in Ops : Out(x)' = Out(x) + Gain(x, "left_read")
    BY <1>13, OutGrows DEF RespRead, ops
  <2>2. u = "resp_read" /\ UpIs("left_read")' /\ DownIs(d)'
    BY <1>13, <2>1 DEF RespRead, UpIs, DownIs, TypeOK, Gain, UpOps, DownOps, Threads, Places
  <2>3. Consistent("left_read", d)'
    BY <1>13, <2>2, NotNew DEF RespRead, socks5
  <2> QED
    BY <2>2, <2>3, <1>a DEF UpOps
<1>14. ASSUME NEW t \in Threads, CancelTimer(t) PROVE Inv'
  <2>1. \A x \in Ops : Out(x)' = Out(x)
    BY <1>14, OutKept DEF CancelTimer, ops
  <2>2. SameReading
    BY <1>14 DEF CancelTimer, SameReading, Places, TypeOK
  <2>3. UpIs(u)' /\ DownIs(d)'
    BY <2>1, <2>2, TokensStay
  <2>4. Consistent(u, d)'
    BY <1>14, NotNew DEF CancelTimer, socks5
  <2> QED
    BY <2>3, <2>4, <1>a
<1>15. ASSUME NEW t \in Threads, CancelLeft(t) PROVE Inv'
  <2>1. \A x \in Ops : Out(x)' = Out(x)
    BY <1>15, OutKept DEF CancelLeft, ops
  <2>2. SameReading
    BY <1>15 DEF CancelLeft, SameReading, Places, TypeOK
  <2>3. UpIs(u)' /\ DownIs(d)'
    BY <2>1, <2>2, TokensStay
  <2>4. Consistent(u, d)'
    BY <1>15, NotNew DEF CancelLeft, socks5
  <2> QED
    BY <2>3, <2>4, <1>a
<1>16. ASSUME NEW t \in Threads, CancelRight(t) PROVE Inv'
  <2>1. \A x \in Ops : Out(x)' = Out(x)
    BY <1>16, OutKept DEF CancelRight, ops
  <2>2. SameReading
    BY <1>16 DEF CancelRight, SameReading, Places, TypeOK
  <2>3. UpIs(u)' /\ DownIs(d)'
    BY <2>1, <2>2, TokensStay
  <2>4. Consistent(u, d)'
    BY <1>16, NotNew DEF CancelRight, Cancelled, socks5
  <2> QED
    BY <2>3, <2>4, <1>a
<1>17. ASSUME ShortPacket PROVE Inv'
  <2>1. Ends("left_read", "final_write")
    BY <1>17 DEF ShortPacket, Ends, SendFinal
  <2>2. u = "left_read" /\ UpIs("none")' /\ DownIs(d)'
    BY <1>17, <2>1, UpHandled DEF ShortPacket, UpOps, DownOps
  <2>3. Consistent("none", d)'
    BY <1>17, <2>2, NotNew DEF ShortPacket, SendFinal, socks5
  <2> QED
    BY <2>2, <2>3, <1>a DEF UpOps, DownOps
<1>18. ASSUME HelloWritten PROVE Inv'
  <2>1. Ends("hello_write", "left_read")
    BY <1>18 DEF HelloWritten, Ends, Initiate
  <2>2. u = "hello_write" /\ UpIs("left_read")' /\ DownIs(d)'
    BY <1>18, <2>1, UpHandled DEF HelloWritten, UpOps, DownOps
  <2>3. Consistent("left_read", d)'
    BY <1>18, <2>2, NotNew DEF HelloWritten, Initiate, socks5
  <2> QED
    BY <2>2, <2>3, <1>a DEF UpOps, DownOps
<1>19. ASSUME ExchangeWritten PROVE Inv'
  <2>1. Ends("exchange_write", "left_read")
    BY <1>19 DEF ExchangeWritten, Ends, Initiate
  <2>2. u = "exchange_write" /\ UpIs("left_read")' /\ DownIs(d)'
    BY <1>19, <2>1, UpHandled DEF ExchangeWritten, UpOps, DownOps
  <2>3. Consistent("left_read", d)'
    BY <1>19, <2>2, NotNew DEF ExchangeWritten, Initiate, socks5
  <2> QED
    BY <2>2, <2>3, <1>a DEF UpOps, DownOps
<1>20. ASSUME LeftWritten PROVE Inv'
  <2>1. ASSUME socks5_resp_reply # "0x00" PROVE Inv'
    <3>1. Ends("left_write", "none")
      BY <1>20, <2>1, TokenAt DEF LeftWritten, Ends, Initiate, SendFinal, DownOps
    <3>2. d = "left_write" /\ UpIs(u)' /\ DownIs("none")'
      BY <1>20, <2>1, <3>1, DownHandled DEF LeftWritten, UpOps, DownOps
    <3>3. Consistent(u, "none")'
      BY <1>20, <2>1, <3>2, NotNew DEF LeftWritten, Initiate, SendFinal, CallCancel, socks5
    <3> QED
      BY <3>2, <3>3, <1>a DEF UpOps, DownOps
  <2>2. ASSUME socks5_resp_reply = "0x00" PROVE Inv'
    <3>1. Ends("left_write", "right_read")
      BY <1>20, <2>2, TokenAt DEF LeftWritten, Ends, Initiate, SendFinal, DownOps
    <3>2. d = "left_write" /\ UpIs(u)' /\ DownIs("right_read")'
      BY <1>20, <2>2, <3>1, DownHandled DEF LeftWritten, UpOps, DownOps
    <3>3. Consistent(u, "right_read")'
      BY <1>20, <2>2, <3>2, NotNew DEF LeftWritten, Initiate, SendFinal, CallCancel, socks5
    <3> QED
      BY <3>2, <3>3, <1>a DEF UpOps, DownOps
  <2> QED
    BY <1>20, <2>1, <2>2 DEF LeftWritten
<1>21. ASSUME LeftWriteFailed PROVE Inv'
  <2>1. ASSUME Failed("hello_write") PROVE Inv'
    <3>1. Ends("hello_write", "none")
      BY <1>21, <2>1 DEF LeftWriteFailed, Ends
    <3>2. u = "hello_write" /\ UpIs("none")' /\ DownIs(d)'
      BY <1>21, <2>1, <3>1, UpHandled DEF LeftWriteFailed, UpOps, DownOps
    <3>3. Consistent("none", d)'
      BY <1>21, <2>1, <3>2, NotNew DEF LeftWriteFailed, CallCancel, socks5
    <3> QED
      BY <3>2, <3>3, <1>a DEF UpOps, DownOps
  <2>2. ASSUME Failed("exchange_write") PROVE Inv'
    <3>1. Ends("exchange_write", "none")
      BY <1>21, <2>2 DEF LeftWriteFailed, Ends
    <3>2. u = "exchange_write" /\ UpIs("none")' /\ DownIs(d)'
      BY <1>21, <2>2, <3>1, UpHandled DEF LeftWriteFailed, UpOps, DownOps
    <3>3. Consistent("none", d)'
      BY <1>21, <2>2, <3>2, NotNew DEF LeftWriteFailed, CallCancel, socks5
    <3> QED
      BY <3>2, <3>3, <1>a DEF UpOps, DownOps
  <2>3. ASSUME Failed("left_write") PROVE Inv'
    <3>1. Ends("left_write", "none")
      BY <1>21, <2>3 DEF LeftWriteFailed, Ends
    <3>2. d = "left_write" /\ UpIs(u)' /\ DownIs("none")'
      BY <1>21, <2>3, <3>1, DownHandled DEF LeftWriteFailed, UpOps, DownOps
    <3>3. Consistent(u, "none")'
      BY <1>21, <2>3, <3>2, NotNew DEF LeftWriteFailed, CallCancel, socks5
    <3> QED
      BY <3>2, <3>3, <1>a DEF UpOps, DownOps
  <2> QED
    BY <1>21, <2>1, <2>2, <2>3 DEF LeftWriteFailed
<1>22. ASSUME FinalWritten PROVE Inv'
  <2>1. Out("final_write") > 0 /\ After("final_write", "none") /\ SameReading
    BY <1>22, Handled DEF FinalWritten, Ends
  <2>2. UpIs(u)' /\ DownIs(d)'
    BY <2>1 DEF UpIs, DownIs, After, SameReading, Places, Gain, UpOps, DownOps
  <2>3. Consistent(u, d)'
    BY <1>22, NotNew DEF FinalWritten, CallCancel, socks5
  <2> QED
    BY <2>2, <2>3, <1>a
<1>23. ASSUME ResolveOk PROVE Inv'
  <2>1. ASSUME ToConnect PROVE Inv'
    <3>1. u = "resolve" /\ UpIs("to_connect")' /\ DownIs(d)'
      BY <1>23, <2>1, Placed DEF ResolveOk
    <3>2. Consistent("to_connect", d)'
      BY <1>23, <2>1, <3>1, NotNew DEF ResolveOk, ToConnect, socks5
    <3> QED
      BY <3>1, <3>2, <1>a
  <2>2. ASSUME Initiate("connect") PROVE Inv'
    <3>1. Ends("resolve", "connect")
      BY <2>2 DEF Ends, Initiate
    <3>2. u = "resolve" /\ UpIs("connect")' /\ DownIs(d)'
      BY <1>23, <3>1, UpHandled DEF ResolveOk, UpOps, DownOps
    <3>3. Consistent("connect", d)'
      BY <1>23, <2>2, <3>2, NotNew DEF ResolveOk, Initiate, socks5
    <3> QED
      BY <3>2, <3>3, <1>a DEF UpOps, DownOps
  <2> QED
    BY <1>23, <2>1, <2>2 DEF ResolveOk
<1>23b. ASSUME AsyncConnect PROVE Inv'
  <2>1. \A x \in Ops : Out(x)' = Out(x) + Gain(x, "connect")
    BY <1>23b, OutGrows DEF AsyncConnect, ops
  <2>2. u = "to_connect" /\ UpIs("connect")' /\ DownIs(d)'
    BY <1>23b, <2>1 DEF AsyncConnect, UpIs, DownIs, TypeOK, Gain, UpOps, DownOps, Threads, Places
  <2>3. Consistent("connect", d)'
    BY <1>23b, <2>2, NotNew DEF AsyncConnect, socks5
  <2> QED
    BY <2>2, <2>3, <1>a DEF UpOps
<1>24. ASSUME ResolveFailed PROVE Inv'
  <2>1. d = "none"
    BY <1>24, TokenAt DEF ResolveFailed, UpOps
  <2>2. u = "resolve" /\ UpIs("none")' /\ DownIs("left_write")'
    BY <1>24, <2>1, Answered DEF ResolveFailed, UpOps
  <2>3. Consistent("none", "left_write")'
    BY <1>24, <2>2, NotNew DEF ResolveFailed, RespToLocal
  <2> QED
    BY <2>2, <2>3, <1>a DEF UpOps, DownOps
<1>25. ASSUME TcpConnected PROVE Inv'
  <2>1. d = "none"
    BY <1>25, TokenAt DEF TcpConnected, UpOps
  <2>2. u = "connect" /\ UpIs("resp_read")' /\ DownIs("left_write")'
    BY <1>25, <2>1, Answered DEF TcpConnected, UpOps
  <2>3. Consistent("resp_read", "left_write")'
    BY <1>25, <2>2, NotNew DEF TcpConnected, RespToLocal
  <2> QED
    BY <2>2, <2>3, <1>a DEF UpOps, DownOps
<1>26. ASSUME TcpTryNext PROVE Inv'
  <2>1. u = "connect" /\ UpIs("to_connect")' /\ DownIs(d)'
    BY <1>26, Placed DEF TcpTryNext
  <2>2. Consistent("to_connect", d)'
    BY <1>26, <2>1, NotNew DEF TcpTryNext, ToConnect, socks5
  <2> QED
    BY <2>1, <2>2, <1>a
<1>27. ASSUME UdpTryNext PROVE Inv'
  <2>1. Ends("connect", "connect")
    BY <1>27 DEF UdpTryNext, Ends, Initiate
  <2>2. u = "connect" /\ UpIs("connect")' /\ DownIs(d)'
    BY <1>27, <2>1, UpHandled DEF UdpTryNext, UpOps, DownOps
  <2>3. Consistent("connect", d)'
    BY <1>27, <2>2, NotNew DEF UdpTryNext, Initiate, socks5
  <2> QED
    BY <2>2, <2>3, <1>a DEF UpOps, DownOps
<1>28. ASSUME ConnectFailed PROVE Inv'
  <2>1. d = "none"
    BY <1>28, TokenAt DEF ConnectFailed, UpOps
  <2>2. u = "connect" /\ UpIs("none")' /\ DownIs("left_write")'
    BY <1>28, <2>1, Answered DEF ConnectFailed, UpOps
  <2>3. Consistent("none", "left_write")'
    BY <1>28, <2>2, NotNew DEF ConnectFailed, RespToLocal
  <2> QED
    BY <2>2, <2>3, <1>a DEF UpOps, DownOps
<1>29. ASSUME UdpConnected PROVE Inv'
  <2>1. d = "none"
    BY <1>29, TokenAt DEF UdpConnected, UpOps
  <2>2. u = "connect" /\ UpIs("none")' /\ DownIs("left_write")'
    BY <1>29, <2>1, Answered DEF UdpConnected, UpOps
  <2>3. Consistent("none", "left_write")'
    BY <1>29, <2>2, NotNew DEF UdpConnected, RespToLocal
  <2> QED
    BY <2>2, <2>3, <1>a DEF UpOps, DownOps
<1>30. ASSUME UdpConnectedLast \/ UdpReceiveDangling PROVE Inv'
  <2> Crash
    BY <1>30 DEF UdpConnectedLast, UdpReceiveDangling
  <2>1. UpIs("none")' /\ DownIs("none")'
    BY DEF Crash, UpIs, DownIs, Out, Gain, UpOps, DownOps, Places
  <2>2. Consistent("none", "none")'
    BY DEF Crash, socks5
  <2> QED
    BY <2>1, <2>2, <1>a
<1>31. ASSUME RightWritten PROVE Inv'
  <2>1. ASSUME Initiate("left_read") PROVE Inv'
    <3>1. Ends("right_write", "left_read")
      BY <1>31, <2>1 DEF RightWritten, Ends, Initiate, SendFinal
    <3>2. u = "right_write" /\ UpIs("left_read")' /\ DownIs(d)'
      BY <1>31, <2>1, <3>1, UpHandled DEF RightWritten, UpOps, DownOps
    <3>3. Consistent("left_read", d)'
      BY <1>31, <2>1, <3>2, NotNew DEF RightWritten, Initiate, SendFinal, socks5
    <3> QED
      BY <3>2, <3>3, <1>a DEF UpOps, DownOps
  <2>2. ASSUME SendFinal("bad") PROVE Inv'
    <3>1. Ends("right_write", "final_write")
      BY <1>31, <2>2 DEF RightWritten, Ends, Initiate, SendFinal
    <3>2. u = "right_write" /\ UpIs("none")' /\ DownIs(d)'
      BY <1>31, <2>2, <3>1, UpHandled DEF RightWritten, UpOps, DownOps
    <3>3. Consistent("none", d)'
      BY <1>31, <2>2, <3>2, NotNew DEF RightWritten, Initiate, SendFinal, socks5
    <3> QED
      BY <3>2, <3>3, <1>a DEF UpOps, DownOps
  <2> QED
    BY <1>31, <2>1, <2>2 DEF RightWritten
<1>32. ASSUME RightWriteFailed PROVE Inv'
  <2>1. Ends("right_write", "final_write")
    BY <1>32 DEF RightWriteFailed, Ends, SendFinal
  <2>2. u = "right_write" /\ UpIs("none")' /\ DownIs(d)'
    BY <1>32, <2>1, UpHandled DEF RightWriteFailed, UpOps, DownOps
  <2>3. Consistent("none", d)'
    BY <1>32, <2>2, NotNew DEF RightWriteFailed, SendFinal, socks5
  <2> QED
    BY <2>2, <2>3, <1>a DEF UpOps, DownOps
<1>33. ASSUME RightRead PROVE Inv'
  <2>1. Ends("right_read", "left_write")
    BY <1>33 DEF RightRead, Ends, Initiate
  <2>2. d = "right_read" /\ UpIs(u)' /\ DownIs("left_write")'
    BY <1>33, <2>1, DownHandled DEF RightRead, UpOps, DownOps
  <2>3. Consistent(u, "left_write")'
    BY <1>33, <2>2, NotNew DEF RightRead, Initiate, socks5
  <2> QED
    BY <2>2, <2>3, <1>a DEF UpOps, DownOps
<1>34. ASSUME RightReadFailed PROVE Inv'
  <2>1. Ends("right_read", "final_write")
    BY <1>34 DEF RightReadFailed, Ends, SendFinal
  <2>2. d = "right_read" /\ UpIs(u)' /\ DownIs("none")'
    BY <1>34, <2>1, DownHandled DEF RightReadFailed, UpOps, DownOps
  <2>3. Consistent(u, "none")'
    BY <1>34, <2>2, NotNew DEF RightReadFailed, SendFinal, socks5
  <2> QED
    BY <2>2, <2>3, <1>a DEF UpOps, DownOps
<1>35. ASSUME start PROVE Inv'
  <2>1. ASSUME Initiate("left_read") PROVE Inv'
    <3>1. \A x \in Ops : Out(x)' = Out(x) + Gain(x, "left_read")
      BY <1>35, <2>1, OutGrows DEF start, Initiate, ops
    <3>2. u = "none" /\ UpIs("left_read")' /\ DownIs(d)'
       BY <1>35, <2>1, <3>1 DEF start, UpIs, DownIs, Initiate, TypeOK, Gain, UpOps, DownOps,
         Threads, Places
    <3>3. Consistent("left_read", d)'
      BY <1>35, <2>1, <3>2, NotNew DEF start, Initiate, socks5
    <3> QED
      BY <3>2, <3>3, <1>a DEF UpOps
  <2>2. ASSUME UNCHANGED <<pend, pc, history, status>> PROVE Inv'
    <3>1. \A x \in Ops : Out(x)' = Out(x)
      BY <1>35, <2>2, OutKept DEF start, ops
    <3>2. SameReading
      BY <1>35, <2>2 DEF start, SameReading, Places, TypeOK
    <3>3. UpIs(u)' /\ DownIs(d)'
      BY <3>1, <3>2, TokensStay
    <3>4. Consistent(u, d)'
      BY <1>35, <2>2, NotNew DEF start, socks5
    <3> QED
      BY <3>3, <3>4, <1>a
  <2> QED
    BY <1>35, <2>1, <2>2 DEF start
<1>36. ASSUME TimerElapse PROVE Inv'
  <2>1. \A x \in Ops : Out(x)' = Out(x)
    BY <1>36, OutKept DEF TimerElapse, ops
  <2>2. SameReading
    BY <1>36 DEF TimerElapse, SameReading, Places, TypeOK
  <2>3. UpIs(u)' /\ DownIs(d)'
    BY <2>1, <2>2, TokensStay
  <2>4. Consistent(u, d)'
    BY <1>36, NotNew DEF TimerElapse, socks5
  <2> QED
    BY <2>3, <2>4, <1>a
<1>37. ASSUME TimerExpired PROVE Inv'
  <2>1. ASSUME UNCHANGED <<pend, pc, history>> PROVE Inv'
    <3>1. \A x \in Ops : Out(x)' = Out(x)
      BY <1>37, <2>1, OutKept DEF TimerExpired, ops
    <3>2. SameReading
      BY <1>37, <2>1 DEF TimerExpired, SameReading, Places, TypeOK
    <3>3. UpIs(u)' /\ DownIs(d)'
      BY <3>1, <3>2, TokensStay
    <3>4. Consistent(u, d)'
      BY <1>37, <2>1, NotNew DEF TimerExpired, socks5
    <3> QED
      BY <3>3, <3>4, <1>a
  <2>2. ASSUME SendFinal("timeout") PROVE Inv'
    <3>1. \A x \in Ops : Out(x)' = Out(x) + Gain(x, "final_write")
      BY <1>37, <2>2, OutGrows DEF TimerExpired, SendFinal, ops
    <3>2. TRUE /\ UpIs(u)' /\ DownIs(d)'
       BY <1>37, <2>2, <3>1 DEF TimerExpired, UpIs, DownIs, SendFinal, TypeOK, Gain, UpOps,
         DownOps, Threads, Places
    <3>3. Consistent(u, d)'
      BY <1>37, <2>2, <3>2, NotNew DEF TimerExpired, SendFinal, socks5
    <3> QED
      BY <3>2, <3>3, <1>a DEF UpOps
  <2> QED
    BY <1>37, <2>1, <2>2 DEF TimerExpired
<1>38. ASSUME TimerExpiredDangling PROVE Inv'
  <2>1. ASSUME Crash PROVE Inv'
    <3>1. UpIs("none")' /\ DownIs("none")'
      BY <1>38, <2>1 DEF TimerExpiredDangling, Crash, UpIs, DownIs, Out, Gain, UpOps, DownOps, Places
    <3>2. Consistent("none", "none")'
      BY <1>38, <2>1 DEF TimerExpiredDangling, Crash, socks5
    <3> QED
      BY <3>1, <3>2, <1>a
   <2>2. ASSUME UNCHANGED <<life, status, socks5, aes_encryptor, endpoints, ops, timerWait,
     expiry, pc, gone, history>> PROVE Inv'
    <3>1. \A x \in Ops : Out(x)' = Out(x)
      BY <1>38, <2>2, OutKept DEF TimerExpiredDangling, ops
    <3>2. SameReading
      BY <1>38, <2>2 DEF TimerExpiredDangling, SameReading, Places, TypeOK
    <3>3. UpIs(u)' /\ DownIs(d)'
      BY <3>1, <3>2, TokensStay
    <3>4. Consistent(u, d)'
      BY <1>38, <2>2, NotNew DEF TimerExpiredDangling, socks5
    <3> QED
      BY <3>3, <3>4, <1>a
  <2> QED
    BY <1>38, <2>1, <2>2 DEF TimerExpiredDangling
<1>39. ASSUME PeerLeaves PROVE Inv'
  <2>1. \A x \in Ops : Out(x)' = Out(x)
    BY <1>39, OutKept DEF PeerLeaves, ops
  <2>2. SameReading
    BY <1>39 DEF PeerLeaves, SameReading, Places, TypeOK
  <2>3. UpIs(u)' /\ DownIs(d)'
    BY <2>1, <2>2, TokensStay
  <2>4. Consistent(u, d)'
    BY <1>39, NotNew DEF PeerLeaves, socks5
  <2> QED
    BY <2>3, <2>4, <1>a
<1>40. ASSUME NEW s \in Ops, Complete(s) PROVE Inv'
  <2>1. \A x \in Ops : Out(x)' = Out(x)
    BY <1>40, OutKept DEF Complete, ops
  <2>2. SameReading
    BY <1>40 DEF Complete, CompleteOk, CompleteErr, SameReading, Places, TypeOK
  <2>3. UpIs(u)' /\ DownIs(d)'
    BY <2>1, <2>2, TokensStay
  <2>4. Consistent(u, d)'
    BY <1>40, NotNew DEF Complete, CompleteOk, CompleteErr, socks5
  <2> QED
    BY <2>3, <2>4, <1>a
<1>41. ASSUME UNCHANGED vars PROVE Inv'
  BY <1>41 DEF Inv, UpIs, DownIs, Out, vars, ops, socks5
<1> QED
   BY <1>1, <1>2, <1>3, <1>4, <1>5, <1>6, <1>7, <1>8, <1>9, <1>10, <1>11, <1>12, <1>13, <1>14,
     <1>15, <1>16, <1>17, <1>18, <1>19, <1>20, <1>21, <1>22, <1>23, <1>23b, <1>24, <1>25, <1>26,
     <1>27, <1>28, <1>29, <1>30, <1>31, <1>32, <1>33, <1>34, <1>35, <1>36, <1>37, <1>38, <1>39, <1>40,
     <1>41 DEF Next, LeftThread, RightThread, left_read_handler, InProgress, Sources, Threads

LEMMA InvInit == Init => Inv
<1> SUFFICES ASSUME Init PROVE Inv
  OBVIOUS
<1>1. UpIs("none") /\ DownIs("none")
  BY DEF Init, UpIs, DownIs, Out, Gain, UpOps, DownOps, Threads, Places,
         Ops, LeftOps, RightOps, LeftWrites, RightWrites
<1>2. Consistent("none", "none")
  BY DEF Init, Consistent, HandshakeInv, RequestInv
<1> QED
  BY <1>1, <1>2 DEF Inv

-----------------------------------------------------------------------------
(* The theorems.                                                           *)

\* Every variable of a session has its type, for any number of addresses a
\* resolver answers with: the counters stay natural numbers, there is never
\* more than one wait of timer_right.
THEOREM TypeCorrect == Spec => []TypeOK
<1>1. Init => TypeOK
  BY TypeInit
<1>2. TypeOK /\ [Next]_vars => TypeOK'
  BY TypeNext
<1> QED
  BY <1>1, <1>2, PTL DEF Spec

\* The tokens of every reachable state are where Consistent says.
THEOREM Invariance == Spec => []Inv
<1>1. Init => Inv
  BY InvInit
<1>2. TypeOK /\ Inv /\ [Next]_vars => Inv'
  BY InvNext
<1> QED
  BY <1>1, <1>2, TypeCorrect, PTL DEF Spec

\* At most one operation is outstanding in each direction of the relay: handlers
\* of two threads, cancel() and the timer never start a second read of a socket
\* or a second data write.
THEOREM OneAtATime == Spec => []OneOperationPerDirection
<1>1. TypeOK /\ Inv => OneOperationPerDirection
  <2> SUFFICES ASSUME NEW u \in UpOps \cup {"none", "resp_read", "to_connect"}, UpIs(u),
                      NEW d \in DownOps \cup {"none"}, DownIs(d)
               PROVE  OneOperationPerDirection
    BY DEF Inv
  <2> DEFINE Sum == Reading("left") + Reading("right")
  <2>1. Sum \in {0, 1} /\ (Sum = 1 => u \in Places) /\ Reading("left") \in {0, 1}
                                                    /\ Reading("right") \in {0, 1}
    BY DEF UpIs, Reading, Threads, Places
  <2>2. Upstream = Gain("left_read", u) + Gain("hello_write", u) + Gain("exchange_write", u)
                   + Gain("resolve", u) + Gain("connect", u) + Gain("right_write", u)
                   + Gain("cont_write", u) + Reading("left") + Reading("right")
    BY DEF UpIs, UpOps, Upstream
  <2>3. Upstream <= 1
    BY <2>1, <2>2 DEF Gain, Places
  <2>4. Downstream <= 1
    BY DEF DownIs, DownOps, Downstream, Gain
  <2> QED
    BY <2>3, <2>4 DEF OneOperationPerDirection
<1> QED
  BY <1>1, TypeCorrect, Invariance, PTL

\* Before local has proved its key nothing is resolved, connected or encrypted.
THEOREM AuthFirst == Spec => []NothingBeforeAuth
<1>1. Inv => NothingBeforeAuth
  BY DEF Inv, UpIs, DownIs, Gain, Consistent, HandshakeInv, UpOps, DownOps, NothingBeforeAuth,
         RightOps, RightWrites
<1> QED
  BY <1>1, Invariance, PTL

\* The relay handlers read socks5_cmd and socks5_resp_reply after the request
\* has assigned them, and take none of their "cannot happen" branches.
THEOREM RequestKnown == Spec => []HandlersKnowTheRequest
<1>1. Inv => HandlersKnowTheRequest
  BY DEF Inv, UpIs, DownIs, Gain, Consistent, RequestInv, UpOps, DownOps, HandlersKnowTheRequest
<1> QED
  BY <1>1, Invariance, PTL

\* After a deny only the deny itself is on its way.
THEOREM DenyEnds == Spec => []DenyIsFinal
<1>1. Inv => DenyIsFinal
  BY DEF Inv, UpIs, DownIs, Gain, Consistent, UpOps, DownOps, DenyIsFinal,
         Ops, LeftOps, RightOps, LeftWrites, RightWrites
<1> QED
  BY <1>1, Invariance, PTL

-----------------------------------------------------------------------------
(* A request is answered once.                                             *)

\* The handlers that assign socks5_cmd or socks5_resp_reply run only while the
\* request is not answered: that is where Consistent lets their tokens be.
LEMMA AnswerOnceStep ==
  ASSUME TypeOK, Inv, [Next]_vars, socks5_resp_reply # "unset"
  PROVE  UNCHANGED <<socks5_resp_reply, socks5_cmd>>
<1> PICK u \in UpOps \cup {"none", "resp_read", "to_connect"}, d \in DownOps \cup {"none"} :
        UpIs(u) /\ DownIs(d) /\ Consistent(u, d)
  BY DEF Inv
<1>1. \A src \in Sources : ~ Request(src)
  <2> SUFFICES ASSUME NEW src \in Sources, Request(src) PROVE FALSE
    OBVIOUS
  <2>1. u = src
    BY TokenAt DEF Request, Sources, UpOps
  <2> QED
    BY <2>1 DEF Request, Sources, Consistent, RequestInv
<1>2. \A s \in {"resolve", "connect"} : ~ Completed(s) /\ ~ Failed(s)
  <2> SUFFICES ASSUME NEW s \in {"resolve", "connect"}, Completed(s) \/ Failed(s) PROVE FALSE
    OBVIOUS
  <2>1. u = s
    BY TokenAt DEF UpOps
  <2> QED
    BY <2>1 DEF Consistent, RequestInv
<1> USE DEF socks5
<1>3. ASSUME NEW src \in Sources, left_read_handler(src)
      PROVE  UNCHANGED <<socks5_resp_reply, socks5_cmd>>
  BY <1>1, <1>3 DEF left_read_handler, IncompletePacket, RejectedPacket, ReadFailed, HelloPacket,
        ExchangeDenied, ExchangeAccepted, RelayData, MalformedRequest, ConnectRequest,
        UdpNameRequest, UdpAnyRequest, BindRequest
<1>4. ASSUME NEW t \in Threads, InProgress(t)
      PROVE  UNCHANGED <<socks5_resp_reply, socks5_cmd>>
  BY <1>4 DEF InProgress, RespRead, CancelTimer, CancelLeft, CancelRight
<1>5. ASSUME LeftThread PROVE UNCHANGED <<socks5_resp_reply, socks5_cmd>>
  BY <1>3, <1>4, <1>5 DEF LeftThread, Sources, Threads, ShortPacket, HelloWritten, ExchangeWritten,
        LeftWritten, LeftWriteFailed, FinalWritten
<1>6. ASSUME RightThread PROVE UNCHANGED <<socks5_resp_reply, socks5_cmd>>
  BY <1>2, <1>3, <1>4, <1>6 DEF RightThread, Sources, Threads, ResolveOk, ResolveFailed,
        TcpConnected, TcpTryNext, UdpTryNext, ConnectFailed, UdpConnected, UdpConnectedLast, Crash,
        AsyncConnect, RightWritten, RightWriteFailed, RightRead, RightReadFailed, TimerExpired,
        TimerExpiredDangling
<1>7. ASSUME NEW s \in Ops, Complete(s) PROVE UNCHANGED <<socks5_resp_reply, socks5_cmd>>
  BY <1>7 DEF Complete, CompleteOk, CompleteErr
<1>8. ASSUME start \/ TimerElapse \/ PeerLeaves \/ UdpReceiveDangling \/ UNCHANGED vars
      PROVE  UNCHANGED <<socks5_resp_reply, socks5_cmd>>
  BY <1>8 DEF start, TimerElapse, PeerLeaves, UdpReceiveDangling, Crash, vars
<1> QED
  BY <1>5, <1>6, <1>7, <1>8 DEF Next

\* The answer of a session, once sent, is never replaced: no second request, no
\* connection or timeout that comes late assigns socks5_resp_reply again.
THEOREM OneAnswer == Spec => AnsweredOnce
<1>1. TypeOK /\ Inv /\ [Next]_vars =>
        [socks5_resp_reply # "unset" => UNCHANGED <<socks5_resp_reply, socks5_cmd>>]_vars
  BY AnswerOnceStep
<1> QED
  BY <1>1, TypeCorrect, Invariance, PTL DEF Spec, AnsweredOnce

-----------------------------------------------------------------------------
(* What the session at the other end relies on (Expected of LocalSession). *)

\* A client is denied or accepted, never both, denied only after its hello was
\* answered, and told of a response or of a timeout only after it was accepted
\* and has sent its request.
RepliesInOrder ==
    /\ "deny" \in history => status = "auth" /\ "authed" \notin history
    /\ history \cap {"timeout", "response"} # {} => "authed" \in history /\ socks5_cmd # "unset"

\* Why: the timer is armed for a request only, and once a key is accepted no
\* packet is read before the exchange is written.
NoPacketWaits == Out("left_read") = 0 /\ Out("hello_write") = 0
AcceptedInv == "authed" \in history => status = "data" \/ NoPacketWaits
SentInv ==
    /\ "deny" \in history => status = "auth" /\ "authed" \notin history
    /\ "response" \in history => socks5_resp_reply # "unset" /\ socks5_cmd # "unset"
    /\ "timeout" \in history \/ timerWait = 1 \/ timerQueue > 0 => socks5_cmd # "unset"
    /\ life = "new" => history = {}

\* Between the acceptance of the key and the exchange that tells of it, that
\* exchange is the only packet on its way.
LEMMA AcceptedWaits ==
  ASSUME TypeOK, Inv, "authed" \in history, status # "data", NoPacketWaits
  PROVE  /\ \A s \in UpOps \cup DownOps : Completed(s) \/ Failed(s) => s = "exchange_write"
         /\ \A t \in Threads : pc[t] \notin Places
<1> PICK u \in UpOps \cup {"none", "resp_read", "to_connect"}, d \in DownOps \cup {"none"} :
        UpIs(u) /\ DownIs(d) /\ Consistent(u, d)
  BY DEF Inv
<1>1. u \in {"none", "exchange_write"} /\ d = "none"
  BY DEF NoPacketWaits, Consistent, HandshakeInv, UpIs, Gain, UpOps
<1>2. \A s \in UpOps \cup DownOps : Completed(s) \/ Failed(s) => s = "exchange_write"
  <2> SUFFICES ASSUME NEW s \in UpOps \cup DownOps, Completed(s) \/ Failed(s)
               PROVE  s = "exchange_write"
    OBVIOUS
  <2> QED
    BY <1>1, TokenAt DEF UpOps, DownOps
<1> QED
  BY <1>1, <1>2 DEF UpIs, Places

\* A packet is read in status "data", or before a key was accepted.
LEMMA ReadsInOrder ==
  ASSUME TypeOK, Inv, AcceptedInv, NEW src \in Sources, Completed(src)
  PROVE  /\ "deny" \notin history
         /\ status # "data" => src = "left_read" /\ "authed" \notin history
<1> PICK u \in UpOps \cup {"none", "resp_read", "to_connect"}, d \in DownOps \cup {"none"} :
        UpIs(u) /\ DownIs(d) /\ Consistent(u, d)
  BY DEF Inv
<1>1. u = src
  BY TokenAt DEF Sources, UpOps
<1>2. Out(src) = 1
  BY <1>1 DEF UpIs, Gain, Sources, UpOps
<1> QED
  BY <1>1, <1>2 DEF Sources, Consistent, HandshakeInv, RequestInv, AcceptedInv, NoPacketWaits

LEMMA SentNext == ASSUME TypeOK, Inv, AcceptedInv, SentInv, [Next]_vars PROVE SentInv'
<1> timerWait \in {0, 1} /\ timerQueue \in Nat
  BY DEF TypeOK
<1> USE DEF SentInv, socks5, ops, Initiate, SendFinal, CallCancel, Return, Settle
<1>1. ASSUME NEW src \in Sources, left_read_handler(src) PROVE SentInv'
  <2>1. CASE IncompletePacket(src) \/ RejectedPacket(src) \/ ReadFailed(src) \/ HelloPacket(src)
    BY <2>1 DEF IncompletePacket, RejectedPacket, ReadFailed, HelloPacket
  <2>2. CASE ExchangeDenied(src)
    BY <2>2, ReadsInOrder DEF ExchangeDenied
  <2>3. CASE ExchangeAccepted(src)
    BY <2>3, ReadsInOrder DEF ExchangeAccepted
  <2>4. CASE RelayData(src) \/ MalformedRequest(src) \/ UdpNameRequest(src)
    BY <2>4 DEF RelayData, MalformedRequest, UdpNameRequest
  <2>5. CASE ConnectRequest(src)
    BY <2>5 DEF ConnectRequest, ReturnArmed
  <2>6. CASE UdpAnyRequest(src) \/ BindRequest(src)
    BY <2>6 DEF UdpAnyRequest, BindRequest, RespToLocal
  <2> QED
    BY <1>1, <2>1, <2>2, <2>3, <2>4, <2>5, <2>6 DEF left_read_handler
<1>2. ASSUME NEW t \in Threads, InProgress(t) PROVE SentInv'
  BY <1>2 DEF InProgress, RespRead, CancelTimer, CancelLeft, CancelRight, Cancelled, ReturnDisarmed
<1>3. ASSUME HelloWritten \/ ExchangeWritten PROVE SentInv'
  <2>1. "deny" \notin history
    <3> PICK u \in UpOps \cup {"none", "resp_read", "to_connect"}, d \in DownOps \cup {"none"} :
            UpIs(u) /\ DownIs(d) /\ Consistent(u, d)
      BY DEF Inv
    <3>1. u \in {"hello_write", "exchange_write"}
      BY <1>3, TokenAt DEF HelloWritten, ExchangeWritten, UpOps
    <3> QED
      BY <3>1 DEF Consistent
  <2> QED
    BY <1>3, <2>1 DEF HelloWritten, ExchangeWritten
<1>3b. ASSUME ShortPacket \/ LeftWritten \/ LeftWriteFailed \/ FinalWritten PROVE SentInv'
  BY <1>3b DEF ShortPacket, LeftWritten, LeftWriteFailed, FinalWritten
<1>4. ASSUME ResolveOk \/ TcpTryNext \/ UdpTryNext \/ AsyncConnect PROVE SentInv'
  <2>1. ASSUME ResolveOk PROVE SentInv'
    BY <2>1 DEF ResolveOk, ToConnect, ReturnArmed, Completed
  <2>2. ASSUME TcpTryNext \/ UdpTryNext \/ AsyncConnect PROVE SentInv'
    BY <2>2 DEF TcpTryNext, UdpTryNext, AsyncConnect, ToConnect, ReturnArmed
  <2> QED
    BY <1>4, <2>1, <2>2
<1>5. ASSUME ResolveFailed \/ TcpConnected \/ ConnectFailed \/ UdpConnected PROVE SentInv'
  BY <1>5 DEF ResolveFailed, TcpConnected, ConnectFailed, UdpConnected, RespToLocal,
        ReturnDisarmed
<1>6. ASSUME UdpConnectedLast \/ TimerExpired \/ TimerExpiredDangling \/ UdpReceiveDangling
      PROVE  SentInv'
  BY <1>6 DEF UdpConnectedLast, TimerExpired, TimerExpiredDangling, UdpReceiveDangling, Crash
<1>7. ASSUME RightWritten \/ RightWriteFailed \/ RightRead \/ RightReadFailed PROVE SentInv'
  BY <1>7 DEF RightWritten, RightWriteFailed, RightRead, RightReadFailed
<1>8. ASSUME NEW s \in Ops, Complete(s) PROVE SentInv'
  BY <1>8 DEF Complete, CompleteOk, CompleteErr
<1>9. ASSUME start \/ TimerElapse \/ PeerLeaves \/ UNCHANGED vars PROVE SentInv'
  BY <1>9 DEF start, TimerElapse, PeerLeaves, vars
<1>10. ASSUME LeftThread PROVE SentInv'
  BY <1>1, <1>2, <1>3, <1>3b, <1>10, Zenon DEF LeftThread, Sources, Threads
<1>11. ASSUME RightThread PROVE SentInv'
  BY <1>1, <1>2, <1>4, <1>5, <1>6, <1>7, <1>11, Zenon DEF RightThread, Sources, Threads
<1> QED
  BY <1>6, <1>8, <1>9, <1>10, <1>11, Zenon DEF Next

\* In status "data" a session stays in it.
LEMMA DataStays == ASSUME TypeOK, Inv, [Next]_vars, status = "data" PROVE status' = "data"
<1> PICK u \in UpOps \cup {"none", "resp_read", "to_connect"}, d \in DownOps \cup {"none"} :
        UpIs(u) /\ DownIs(d) /\ Consistent(u, d)
  BY DEF Inv
<1>1. ~ HelloWritten
  <2> SUFFICES ASSUME HelloWritten PROVE FALSE
    OBVIOUS
  <2>1. u = "hello_write"
    BY TokenAt DEF HelloWritten, UpOps
  <2> QED
    BY <2>1 DEF Consistent, HandshakeInv
<1>2. ~ start
  BY DEF start, Consistent
<1>3. ASSUME NEW src \in Sources, left_read_handler(src) PROVE status' = status
  BY <1>3 DEF left_read_handler, IncompletePacket, RejectedPacket, ReadFailed, HelloPacket,
        ExchangeDenied, ExchangeAccepted, RelayData, MalformedRequest, ConnectRequest,
        UdpNameRequest, UdpAnyRequest, BindRequest
<1>4. ASSUME NEW t \in Threads, InProgress(t) PROVE status' = status
  BY <1>4 DEF InProgress, RespRead, CancelTimer, CancelLeft, CancelRight
<1>5. ASSUME LeftThread PROVE status' = "data"
  BY <1>1, <1>3, <1>4, <1>5 DEF LeftThread, Sources, Threads, ShortPacket, ExchangeWritten,
        LeftWritten, LeftWriteFailed, FinalWritten
<1>6. ASSUME RightThread PROVE status' = status
  BY <1>3, <1>4, <1>6 DEF RightThread, Sources, Threads, ResolveOk, ResolveFailed,
        TcpConnected, TcpTryNext, UdpTryNext, ConnectFailed, UdpConnected, UdpConnectedLast, Crash,
        AsyncConnect, RightWritten, RightWriteFailed, RightRead, RightReadFailed, TimerExpired,
        TimerExpiredDangling
<1>7. ASSUME NEW s \in Ops, Complete(s) PROVE status' = status
  BY <1>7 DEF Complete, CompleteOk, CompleteErr
<1>8. ASSUME TimerElapse \/ PeerLeaves \/ UdpReceiveDangling \/ UNCHANGED vars
      PROVE  status' = status
  BY <1>8 DEF TimerElapse, PeerLeaves, UdpReceiveDangling, Crash, vars
<1> QED
  BY <1>2, <1>5, <1>6, <1>7, <1>8 DEF Next

\* A key is accepted by a packet that was read: none is read until the exchange
\* is written.
LEMMA AcceptedWhenRead ==
  ASSUME TypeOK, Inv, AcceptedInv, [Next]_vars, "authed" \notin history, "authed" \in history'
  PROVE  NoPacketWaits'
<1>1. ASSUME NEW src \in Sources, ~ ExchangeAccepted(src), left_read_handler(src) PROVE FALSE
  BY <1>1 DEF left_read_handler, IncompletePacket, RejectedPacket, ReadFailed, HelloPacket,
        ExchangeDenied, RelayData, MalformedRequest, ConnectRequest,
        UdpNameRequest, UdpAnyRequest, BindRequest, Initiate, SendFinal, CallCancel, RespToLocal
<1>2. ASSUME NEW t \in Threads, InProgress(t) PROVE FALSE
  BY <1>2 DEF InProgress, RespRead, CancelTimer, CancelLeft, CancelRight, Cancelled
<1>3. ASSUME \A src \in Sources : ~ ExchangeAccepted(src), LeftThread PROVE FALSE
  BY <1>1, <1>2, <1>3 DEF LeftThread, Sources, Threads, ShortPacket, HelloWritten,
        ExchangeWritten, LeftWritten, LeftWriteFailed, FinalWritten, Initiate, SendFinal, CallCancel
<1>4. ASSUME \A src \in Sources : ~ ExchangeAccepted(src), RightThread PROVE FALSE
  BY <1>1, <1>2, <1>4 DEF RightThread, Sources, Threads, ResolveOk, ResolveFailed,
        TcpConnected, TcpTryNext, UdpTryNext, ConnectFailed, UdpConnected, UdpConnectedLast, Crash,
        AsyncConnect, RightWritten, RightWriteFailed, RightRead, RightReadFailed, TimerExpired,
        TimerExpiredDangling, Initiate, SendFinal, RespToLocal, ToConnect
<1>5. ASSUME NEW s \in Ops, Complete(s) PROVE FALSE
  BY <1>5 DEF Complete, CompleteOk, CompleteErr
<1>6. ASSUME start \/ TimerElapse \/ PeerLeaves \/ UdpReceiveDangling \/ UNCHANGED vars PROVE FALSE
  BY <1>6 DEF start, TimerElapse, PeerLeaves, UdpReceiveDangling, Crash, vars, Initiate
<1>7. PICK src \in Sources : ExchangeAccepted(src)
  BY <1>3, <1>4, <1>5, <1>6 DEF Next
<1>8. src = "left_read"
  BY <1>7, ReadsInOrder DEF ExchangeAccepted
<1>9. PICK u \in UpOps \cup {"none", "resp_read", "to_connect"}, d \in DownOps \cup {"none"} :
        UpIs(u) /\ DownIs(d)
  BY DEF Inv
<1>10. UpIs("exchange_write")'
  BY <1>7, <1>8, <1>9, UpHandled DEF ExchangeAccepted, Ends, UpOps, Ops, LeftOps, LeftWrites
<1> QED
  BY <1>10 DEF UpIs, Gain, UpOps, NoPacketWaits

\* Until then only the exchange and final packets are written.
LEMMA AcceptedStays ==
  ASSUME TypeOK, Inv, SentInv, [Next]_vars,
         "authed" \in history, status # "data", NoPacketWaits
  PROVE  status' = "data" \/ NoPacketWaits'
<1> DEFINE Quiet == \A x \in {"left_read", "hello_write"} : Out(x)' = Out(x) \/ Out(x)' = 0
<1>a. SUFFICES Quiet \/ status' = "data"
  BY DEF NoPacketWaits
<1>b. /\ \A s \in UpOps \cup DownOps : Completed(s) \/ Failed(s) => s = "exchange_write"
      /\ \A t \in Threads : pc[t] \notin {"resp_read", "to_connect"}
  BY AcceptedWaits DEF Places
<1>c. {"left_read", "hello_write"} \subseteq Ops
  BY DEF Ops, LeftOps, LeftWrites
<1>1. \A src \in Sources : ~ left_read_handler(src)
  <2>1. \A src \in Sources : ~ Completed(src) /\ ~ Failed(src)
    BY <1>b DEF Sources, UpOps
  <2> QED
    BY <2>1 DEF left_read_handler, IncompletePacket, RejectedPacket, ReadFailed, HelloPacket,
          ExchangeDenied, ExchangeAccepted, RelayData, MalformedRequest, ConnectRequest,
          UdpNameRequest, UdpAnyRequest, BindRequest, Request
<1>2. ~ ShortPacket /\ ~ HelloWritten /\ ~ LeftWritten
  BY <1>b DEF ShortPacket, HelloWritten, LeftWritten, UpOps, DownOps
<1>3. /\ ~ ResolveOk /\ ~ ResolveFailed
      /\ ~ TcpConnected /\ ~ TcpTryNext /\ ~ UdpTryNext /\ ~ ConnectFailed /\ ~ UdpConnected
      /\ ~ RightWritten /\ ~ RightWriteFailed /\ ~ RightRead /\ ~ RightReadFailed
  BY <1>b DEF ResolveOk, ResolveFailed, TcpConnected, TcpTryNext, UdpTryNext, ConnectFailed,
        UdpConnected, RightWritten, RightWriteFailed, RightRead, RightReadFailed, UpOps, DownOps
<1>3b. ~ AsyncConnect
  BY <1>b DEF AsyncConnect, Threads
<1>4. ASSUME ExchangeWritten PROVE status' = "data"
  BY <1>4 DEF ExchangeWritten
<1>5. ASSUME LeftWriteFailed \/ FinalWritten PROVE Quiet
  <2>1. PICK s \in Ops : (Completed(s) \/ Failed(s)) /\ CallCancel(ThreadOf(s))
    BY <1>5 DEF LeftWriteFailed, FinalWritten, ThreadOf, Ops, LeftOps, LeftWrites
  <2>2. Out(s) > 0 /\ After(s, "none")
    BY <2>1, Handled DEF Ends
  <2> QED
    BY <1>c, <2>2 DEF After, Gain, NoPacketWaits, Ops, LeftOps, RightOps, LeftWrites, RightWrites
<1>6. ASSUME NEW t \in Threads, InProgress(t) PROVE Quiet
  <2>1. UNCHANGED ops \/ \E aborted : Abort(aborted)
    BY <1>b, <1>6, Zenon DEF InProgress, RespRead, CancelTimer, CancelLeft, CancelRight
  <2> QED
    BY <1>c, <2>1, OutKept
<1>7. ASSUME TimerExpired PROVE Quiet
  <2>1. CASE UNCHANGED pend
    BY <1>7, <1>c, <2>1, OutKept DEF TimerExpired, ops
  <2>2. CASE SendFinal("timeout")
    <3>1. ok' = ok /\ err' = err /\ "final_write" \in Ops
      BY <1>7 DEF TimerExpired, Ops, LeftOps
    <3>2. \A x \in Ops : Out(x)' = Out(x) + Gain(x, "final_write")
      BY <2>2, <3>1, OutGrows DEF SendFinal
    <3> QED
      BY <1>c, <3>2, OutIsNat DEF Gain
  <2> QED
    BY <1>7, <2>1, <2>2 DEF TimerExpired
<1>8. ASSUME UdpConnectedLast \/ TimerExpiredDangling \/ UdpReceiveDangling PROVE Quiet
  <2>1. CASE Crash
    BY <1>c, <2>1 DEF Crash, Out
  <2>2. CASE UNCHANGED ops
    BY <1>c, <2>2, OutKept
  <2> QED
    BY <1>8, <2>1, <2>2 DEF UdpConnectedLast, TimerExpiredDangling, UdpReceiveDangling
<1>9. ASSUME NEW s \in Ops, Complete(s) PROVE Quiet
  BY <1>9, <1>c, OutKept
<1>10. ~ start
  BY DEF start, SentInv
<1>11. ASSUME TimerElapse \/ PeerLeaves \/ UNCHANGED vars PROVE Quiet
  BY <1>11, <1>c, OutKept DEF TimerElapse, PeerLeaves, vars
<1> HIDE DEF Quiet
<1>12. ASSUME LeftThread PROVE Quiet \/ status' = "data"
  BY <1>1, <1>2, <1>4, <1>5, <1>6, <1>12, Zenon DEF LeftThread, Sources, Threads
<1>13. ASSUME RightThread PROVE Quiet
  BY <1>1, <1>3, <1>3b, <1>6, <1>7, <1>8, <1>13, Zenon DEF RightThread, Sources, Threads
<1> QED
  BY <1>8, <1>9, <1>10, <1>11, <1>12, <1>13, Zenon DEF Next

LEMMA OrderAlways == Spec => [](AcceptedInv /\ SentInv)
<1>1. Init => AcceptedInv /\ SentInv
  BY DEF Init, AcceptedInv, SentInv
<1>2. TypeOK /\ Inv /\ AcceptedInv /\ SentInv /\ [Next]_vars => AcceptedInv' /\ SentInv'
  <2> SUFFICES ASSUME TypeOK, Inv, AcceptedInv, SentInv, [Next]_vars
               PROVE  AcceptedInv' /\ SentInv'
    OBVIOUS
  <2>1. ASSUME "authed" \notin history PROVE AcceptedInv'
    BY <2>1, AcceptedWhenRead DEF AcceptedInv
  <2>2. ASSUME status = "data" PROVE AcceptedInv'
    BY <2>2, DataStays DEF AcceptedInv
  <2>3. ASSUME "authed" \in history, status # "data" PROVE AcceptedInv'
    BY <2>3, AcceptedStays DEF AcceptedInv
  <2> QED
    BY <2>1, <2>2, <2>3, SentNext
<1> QED
  BY <1>1, <1>2, TypeCorrect, Invariance, PTL DEF Spec

\* A client that is denied was answered its hello and not accepted, and one that
\* is told of a response or of a timeout was, and had sent a request: whatever the order in which the
\* handlers, the timer and cancel() run.  This is what a local session assumes
\* of the session it talks to.
THEOREM InOrder == Spec => []RepliesInOrder
<1>1. Inv /\ SentInv => RepliesInOrder
  <2> SUFFICES ASSUME Inv, SentInv PROVE RepliesInOrder
    OBVIOUS
  <2>1. socks5_cmd # "unset" => "authed" \in history
    BY DEF Inv, Consistent, HandshakeInv, RequestInv
  <2> QED
    BY <2>1 DEF SentInv, RepliesInOrder
<1> QED
  BY <1>1, Invariance, OrderAlways, PTL

-----------------------------------------------------------------------------
(* The handshake is sequential, and a denied client is dropped.            *)

\* All that is outstanding is s: an operation, cancel() on the left thread
\* ("cancel"), or nothing ("none").
OnlyThis(s) ==
    /\ \A x \in Ops : Out(x) = Gain(x, s)
    /\ pc["right"] = "idle"
    /\ IF s = "cancel" THEN pc["left"] \in Cancelling ELSE pc["left"] = "idle"

Handshakes == {"left_read", "hello_write", "exchange_write", "final_write", "cancel"}
SequentialInv ==
    status # "data" => \/ life \in {"new", "destroyed"} /\ OnlyThis("none")
                       \/ life = "live" /\ \E s \in Handshakes : OnlyThis(s)

\* So the only handler that can run is that of s, and the right thread, whose
\* timer is not armed either, has nothing to run.
LEMMA OnlyItsHandler ==
  ASSUME TypeOK, Inv, SentInv, status # "data", NEW s \in Handshakes \cup {"none"}, OnlyThis(s)
  PROVE  /\ \A x \in Ops : Completed(x) \/ Failed(x) => x = s
         /\ timerQueue = 0 /\ timerWait = 0
         /\ ~ RightThread /\ ~ UdpReceiveDangling
         /\ \A src \in Sources : ~ Request(src) /\ ~ RelayData(src)
<1>1. ASSUME NEW x \in Ops, ok[x] > 0 \/ err[x] > 0 PROVE x = s
  <2>1. Out(x) > 0
    BY <1>1 DEF TypeOK, Out
  <2> QED
    BY <2>1 DEF OnlyThis, Gain
<1>2. \A x \in Ops : Completed(x) \/ Failed(x) => x = s
  BY <1>1 DEF Completed, Failed
<1>3. timerQueue = 0 /\ timerWait = 0
  BY DEF Inv, Consistent, HandshakeInv, RequestInv, SentInv, TypeOK
<1>4. \A x \in RightOps : ~ Completed(x) /\ ~ Failed(x) /\ ~ ok[x] > 0
  BY <1>1, <1>2 DEF Handshakes, Ops, RightOps, RightWrites
<1>5. ~ left_read_handler("cont_write")
  BY <1>4 DEF left_read_handler, IncompletePacket, RejectedPacket, ReadFailed, HelloPacket,
        ExchangeDenied, ExchangeAccepted, RelayData, MalformedRequest, ConnectRequest,
        UdpNameRequest, UdpAnyRequest, BindRequest, Request, RightOps, RightWrites
<1>6. ~ InProgress("right")
  BY DEF OnlyThis, InProgress, RespRead, CancelTimer, CancelLeft, CancelRight
<1>6b. ~ AsyncConnect
  BY DEF OnlyThis, AsyncConnect
<1>6c. ~ UdpReceiveDangling
  <2>1. Out("right_read") = 0 /\ "right_read" \in Ops
    BY DEF OnlyThis, Gain, Handshakes, Ops, RightOps
  <2> QED
    BY <2>1 DEF UdpReceiveDangling, Out, TypeOK
<1>7. ~ RightThread
  BY <1>3, <1>4, <1>5, <1>6, <1>6b DEF RightThread, ResolveOk, ResolveFailed, TcpConnected, TcpTryNext,
        UdpTryNext, ConnectFailed, UdpConnected, UdpConnectedLast, RightWritten, RightWriteFailed,
        RightRead, RightReadFailed, TimerExpired, TimerExpiredDangling, RightOps, RightWrites
<1> QED
  BY <1>2, <1>3, <1>6c, <1>7 DEF Request, RelayData

\* A handler on the left thread leaves what it initiates, or cancel().
LEMMA OnlyMoves ==
  ASSUME TypeOK, NEW s \in LeftOps, OnlyThis(s), Completed(s) \/ Failed(s),
         NEW r \in LeftOps \cup {"none"}, Ends(s, r), Return
  PROVE  /\ life' = "live"
         /\ r # "none" => OnlyThis(r)'
         /\ r = "none" => OnlyThis("cancel")' /\ pc'["left"] = "cancel_timer"
<1>1. s \in Ops /\ LeftOps \subseteq Ops /\ "none" \notin Ops /\ "cancel" \notin Ops
  BY DEF Ops, LeftOps, RightOps, LeftWrites, RightWrites
<1>2. Out(s) > 0 /\ After(s, r)
  BY <1>1, Handled
<1>3. \A x \in Ops : Out(x)' = Gain(x, r)
  BY <1>1, <1>2 DEF OnlyThis, After, Gain
<1>4. CASE r # "none"
  <2>1. OnlyThis(r)'
    BY <1>1, <1>3, <1>4 DEF OnlyThis, Ends, LeftOps, LeftWrites
  <2>2. ~ Released'
    BY <1>1, <1>3, <1>4 DEF Released, Gain
  <2> QED
    BY <1>4, <2>1, <2>2 DEF Return, Settle
<1>5. CASE r = "none"
  <2>1. /\ pc' = [pc EXCEPT !["left"] = "cancel_timer"]
        /\ pc \in [Threads -> {"idle", "resp_read", "to_connect"} \cup Cancelling]
    BY <1>1, <1>5 DEF Ends, CallCancel, ThreadOf, TypeOK
  <2>2. OnlyThis("cancel")'
    BY <1>1, <1>3, <1>5, <2>1 DEF OnlyThis, Gain, Threads, Cancelling
  <2>3. ~ Released'
    BY <2>1 DEF Released, Threads
  <2> QED
    BY <1>5, <2>1, <2>2, <2>3 DEF Return, Settle, Threads
<1> QED
  BY <1>4, <1>5

LEMMA SequentialNext ==
  ASSUME TypeOK, Inv, SentInv, SequentialInv, [Next]_vars PROVE SequentialInv'
<1>a. SUFFICES ASSUME status # "data", status' # "data" PROVE SequentialInv'
  BY DataStays DEF SequentialInv
<1> PICK s \in Handshakes \cup {"none"} :
       /\ OnlyThis(s)
       /\ IF s = "none" THEN life \in {"new", "destroyed"} ELSE life = "live"
  BY <1>a DEF SequentialInv, Handshakes
<1>b. /\ \A x \in Ops : Completed(x) \/ Failed(x) => x = s
      /\ timerQueue = 0 /\ timerWait = 0
      /\ ~ RightThread /\ ~ UdpReceiveDangling
      /\ \A src \in Sources : ~ Request(src) /\ ~ RelayData(src)
  BY <1>a, OnlyItsHandler
<1>c. ASSUME NEW r \in Handshakes, life' = "live", OnlyThis(r)' PROVE SequentialInv'
  BY <1>c DEF SequentialInv
<1>d. ASSUME NEW x \in LeftOps, Completed(x) \/ Failed(x), Return,
             NEW r \in (LeftOps \cap Handshakes) \cup {"none"}, Ends(x, r)
      PROVE  SequentialInv'
  <2>1. x = s
    BY <1>b, <1>d DEF Ops
  <2>2. life' = "live" /\ (OnlyThis(r)' \/ OnlyThis("cancel")')
    BY <1>d, <2>1, OnlyMoves
  <2>3. r = "none" => OnlyThis("cancel")'
    BY <1>d, <2>1, OnlyMoves
  <2> QED
    BY <1>c, <1>d, <2>1, <2>2, <2>3, OnlyMoves DEF Handshakes
<1>e. /\ Sources \cap LeftOps = {"left_read"}
      /\ LeftOps \cap Handshakes = {"left_read", "hello_write", "exchange_write", "final_write"}
  BY DEF Sources, LeftOps, LeftWrites, Handshakes
<1>1. ASSUME left_read_handler("left_read") PROVE SequentialInv'
  <2>1. PICK r \in (LeftOps \cap Handshakes) \cup {"none"} :
           Ends("left_read", r) /\ Return /\ (Completed("left_read") \/ Failed("left_read"))
    <3> USE <1>b, <1>e DEF Ends, Initiate, SendFinal, Sources, Ops
    <3>1. CASE IncompletePacket("left_read") \/ HelloPacket("left_read")
      BY <3>1 DEF IncompletePacket, HelloPacket
    <3>2. CASE RejectedPacket("left_read") \/ ReadFailed("left_read")
      BY <3>2 DEF RejectedPacket, ReadFailed
    <3>3. CASE ExchangeDenied("left_read") \/ ExchangeAccepted("left_read")
      BY <3>3 DEF ExchangeDenied, ExchangeAccepted
    <3> QED
      BY <1>1, <1>b, <3>1, <3>2, <3>3 DEF left_read_handler, MalformedRequest, ConnectRequest,
            UdpNameRequest, UdpAnyRequest, BindRequest
  <2> QED
    BY <1>d, <1>e, <2>1
<1>2. ASSUME ShortPacket PROVE SequentialInv'
  BY <1>2, <1>d, <1>e DEF ShortPacket, SendFinal, Ends, Ops
<1>3. ASSUME HelloWritten PROVE SequentialInv'
  BY <1>3, <1>d, <1>e DEF HelloWritten, Initiate, Ends, Ops, LeftOps, LeftWrites
<1>4. ~ ExchangeWritten
  BY <1>a DEF ExchangeWritten
<1>5. ~ LeftWritten
  BY <1>b DEF LeftWritten, Handshakes, Ops, LeftOps, LeftWrites
<1>6. ASSUME LeftWriteFailed \/ FinalWritten PROVE SequentialInv'
  <2>1. PICK x \in LeftOps : (Completed(x) \/ Failed(x)) /\ CallCancel(ThreadOf(x)) /\ Return
    BY <1>6 DEF LeftWriteFailed, FinalWritten, ThreadOf, LeftOps
  <2>2. Ends(x, "none")
    BY <2>1 DEF Ends
  <2> QED
    BY <1>d, <2>1, <2>2
<1>7. ASSUME InProgress("left") PROVE SequentialInv'
  <2>1. s = "cancel" /\ ~ RespRead("left")
    BY <1>7 DEF OnlyThis, InProgress, RespRead, CancelTimer, CancelLeft, CancelRight, Cancelling
  <2>2. \A x \in Ops : Out(x)' = 0
    <3>1. UNCHANGED ops \/ \E aborted : Abort(aborted)
      BY <1>7, <2>1, Zenon DEF InProgress, CancelTimer, CancelLeft, CancelRight
    <3> QED
      BY <2>1, <3>1, OutKept DEF OnlyThis, Gain, Ops, LeftOps, RightOps, LeftWrites, RightWrites
  <2>3. pc \in [Threads -> {"idle", "resp_read", "to_connect"} \cup Cancelling]
    BY DEF TypeOK
  <2>4. CASE pc'["left"] = "idle" /\ pc'["right"] = "idle" /\ Return
    <3>1. Released'
      BY <2>2, <2>4 DEF Released, Threads
    <3> QED
      BY <2>2, <2>4, <3>1 DEF Return, Settle, SequentialInv, OnlyThis, Gain, Ops, LeftOps, RightOps,
            LeftWrites, RightWrites
  <2>5. CASE pc'["left"] \in Cancelling /\ pc'["right"] = "idle" /\ (Return \/ ReturnDisarmed)
    <3>1. ~ Released'
      BY <2>5 DEF Released, Threads, Cancelling
    <3>2. life' = "live"
      BY <2>5, <3>1 DEF Return, ReturnDisarmed, Settle
    <3>3. OnlyThis("cancel")'
      BY <2>2, <2>5 DEF OnlyThis, Gain, Ops, LeftOps, RightOps, LeftWrites, RightWrites
    <3> QED
      BY <1>c, <3>2, <3>3 DEF Handshakes
  <2> QED
    BY <1>7, <2>1, <2>3, <2>4, <2>5 DEF InProgress, CancelTimer, CancelLeft, CancelRight, OnlyThis,
          Cancelling, Threads
<1>8. ASSUME life' = life, pc' = pc, \A x \in Ops : Out(x)' = Out(x) PROVE SequentialInv'
  BY <1>8 DEF SequentialInv, OnlyThis, Handshakes
<1>9. ASSUME NEW x \in Ops, Complete(x) PROVE SequentialInv'
  BY <1>8, <1>9, OutKept DEF Complete, CompleteOk, CompleteErr
<1>10. ASSUME TimerElapse \/ PeerLeaves \/ UNCHANGED vars PROVE SequentialInv'
  BY <1>8, <1>10, OutKept DEF TimerElapse, PeerLeaves, vars
<1>11. ASSUME start PROVE SequentialInv'
  <2>1. \A x \in Ops : Out(x) = 0
    BY <1>11 DEF start, OnlyThis, Gain, Ops, LeftOps, RightOps, LeftWrites, RightWrites
  <2>2. pc["left"] = "idle" /\ pc["right"] = "idle"
    BY <1>11 DEF start, OnlyThis
  <2>3. ASSUME Initiate("left_read") PROVE SequentialInv'
    <3>1. \A x \in Ops : Out(x)' = Gain(x, "left_read")
      <4>1. ok' = ok /\ err' = err /\ "left_read" \in Ops
        BY <1>11 DEF start, Ops, LeftOps
      <4>2. \A x \in Ops : Out(x)' = Out(x) + Gain(x, "left_read")
        BY <2>3, <4>1, OutGrows DEF Initiate
      <4> QED
        BY <2>1, <4>2 DEF Gain
    <3>2. life' = "live"
      BY <1>11, <3>1 DEF start, Return, Settle, Released, Gain, Ops, LeftOps
    <3> QED
      BY <1>c, <2>2, <2>3, <3>1, <3>2 DEF Initiate, OnlyThis, Handshakes
  <2>4. ASSUME UNCHANGED <<pend, pc>> PROVE SequentialInv'
    <3>1. \A x \in Ops : Out(x)' = 0
      BY <1>11, <2>1, <2>4, OutKept DEF start, ops
    <3>2. Released' /\ life' = "destroyed"
      BY <1>11, <2>2, <2>4, <3>1 DEF start, Return, Settle, Released, Threads
    <3> QED
      BY <2>2, <2>4, <3>1, <3>2 DEF SequentialInv, OnlyThis, Gain, Ops, LeftOps, RightOps,
            LeftWrites, RightWrites
  <2> QED
    BY <1>11, <2>3, <2>4 DEF start
<1>12. ASSUME LeftThread PROVE SequentialInv'
  BY <1>1, <1>2, <1>3, <1>4, <1>5, <1>6, <1>7, <1>12, Zenon DEF LeftThread
<1> QED
  BY <1>b, <1>9, <1>10, <1>11, <1>12, Zenon DEF Next

LEMMA SequentialAlways == Spec => []SequentialInv
<1>1. Init => SequentialInv
  BY DEF Init, SequentialInv, OnlyThis, Gain, Out, Threads, Ops, LeftOps, RightOps, LeftWrites,
         RightWrites
<1>2. TypeOK /\ Inv /\ SentInv /\ SequentialInv /\ [Next]_vars => SequentialInv'
  BY SequentialNext
<1> QED
  BY <1>1, <1>2, TypeCorrect, Invariance, OrderAlways, PTL DEF Spec

\* How the session of a denied client goes down.
Denied       == "deny" \in history
DenySent     == Denied /\ life = "live" /\ OnlyThis("final_write") /\ pend["final_write"] > 0
DenyWritten  == Denied /\ life = "live" /\ OnlyThis("final_write") /\ pend["final_write"] = 0
DenyCancels(place) == Denied /\ life = "live" /\ OnlyThis("cancel") /\ pc["left"] = place
Dropped      == Denied /\ life = "destroyed"
DeniedStage  == \/ Dropped \/ DenySent \/ DenyWritten
                \/ \E place \in Cancelling : DenyCancels(place)
Safe         == TypeOK /\ Inv /\ SentInv /\ SequentialInv

\* Nothing else is left to run than the deny itself and the cancel() after it.
LEMMA DeniedWhere == Safe /\ Denied => DeniedStage
<1> SUFFICES ASSUME Safe, Denied PROVE DeniedStage
  OBVIOUS
<1> USE DEF DeniedStage
<1>1. status # "data" /\ life # "new"
  BY DEF Safe, Denied, SentInv
<1>2. CASE life = "destroyed"
  BY <1>2 DEF Dropped
<1>3. CASE life = "live"
  <2>1. PICK s \in Handshakes : OnlyThis(s)
    BY <1>1, <1>3 DEF Safe, SequentialInv
  <2>2. s \in {"final_write", "cancel"}
    <3>1. \A x \in UpOps : Out(x) = 0
      BY DEF Safe, Inv, Consistent, Denied, UpIs, Gain, UpOps
    <3> QED
      BY <2>1, <3>1 DEF OnlyThis, Gain, Handshakes, UpOps, Ops, LeftOps, LeftWrites
  <2>3. pend["final_write"] \in Nat
    BY DEF Safe, TypeOK, Ops, LeftOps
  <2> QED
    BY <1>3, <2>1, <2>2, <2>3 DEF DenySent, DenyWritten, DenyCancels, OnlyThis, Denied
<1> QED
  BY <1>1, <1>2, <1>3 DEF Safe, SequentialInv

\* What can happen to it until it is freed.
Apart == TimerElapse \/ PeerLeaves \/ UNCHANGED vars
LEMMA DeniedSteps ==
  ASSUME Safe, Denied, life = "live", [Next]_vars
  PROVE  \/ FinalWritten
         \/ CancelTimer("left") \/ CancelLeft("left") \/ CancelRight("left")
         \/ Complete("final_write")
         \/ Apart
<1>1. status # "data"
  BY DEF Safe, Denied, SentInv
<1>2. PICK s \in {"final_write", "cancel"} : OnlyThis(s)
  BY DeniedWhere DEF DeniedStage, DenySent, DenyWritten, DenyCancels, Dropped
<1>3. /\ \A x \in Ops : Completed(x) \/ Failed(x) => x = s
      /\ ~ RightThread /\ ~ UdpReceiveDangling
  BY <1>1, <1>2, OnlyItsHandler DEF Handshakes, Safe
<1>4. ~ start
  BY DEF start
<1>5. ASSUME LeftThread
      PROVE  FinalWritten \/ CancelTimer("left") \/ CancelLeft("left") \/ CancelRight("left")
  <2>1. \A x \in LeftOps \ {"final_write"} : ~ Completed(x) /\ ~ Failed(x)
    BY <1>3 DEF Ops, LeftOps, LeftWrites
  <2>2. ~ left_read_handler("left_read")
    BY <2>1 DEF left_read_handler, IncompletePacket, RejectedPacket, ReadFailed, HelloPacket,
          ExchangeDenied, ExchangeAccepted, RelayData, MalformedRequest, ConnectRequest,
          UdpNameRequest, UdpAnyRequest, BindRequest, Request, LeftOps
  <2>3. ~ RespRead("left")
    BY <1>2 DEF OnlyThis, RespRead, Cancelling
  <2> QED
    BY <1>5, <2>1, <2>2, <2>3 DEF LeftThread, ShortPacket, HelloWritten, ExchangeWritten,
          LeftWritten, LeftWriteFailed, InProgress, LeftOps, LeftWrites
<1>6. ASSUME NEW x \in Ops, Complete(x) PROVE x = "final_write"
  <2>1. Out(x) > 0
    BY <1>6 DEF Safe, TypeOK, Out, Complete, CompleteOk, CompleteErr
  <2> QED
    BY <1>2, <2>1 DEF OnlyThis, Gain, Ops, LeftOps, RightOps, LeftWrites, RightWrites
<1> QED
  BY <1>3, <1>4, <1>5, <1>6 DEF Next, Apart

LEMMA DeniedMoves ==
  ASSUME Safe, Safe', Denied, life = "live", [Next]_vars
  PROVE  \/ DenySent /\ DenyWritten'
         \/ DenyWritten /\ DenyCancels("cancel_timer")'
         \/ DenyCancels("cancel_timer") /\ DenyCancels("cancel_left")'
         \/ DenyCancels("cancel_left") /\ DenyCancels("cancel_right")'
         \/ DenyCancels("cancel_right") /\ Dropped'
         \/ /\ Apart
            /\ DenySent => DenySent'
            /\ DenyWritten => DenyWritten'
            /\ \A place \in Cancelling : DenyCancels(place) => DenyCancels(place)'
<1> USE DEF Safe
<1>a. PICK s \in {"final_write", "cancel"} : OnlyThis(s)
  BY DeniedWhere DEF DeniedStage, DenySent, DenyWritten, DenyCancels, Dropped
<1>b. pc \in [Threads -> {"idle", "resp_read", "to_connect"} \cup Cancelling] /\ "final_write" \in Ops
  BY DEF TypeOK, Ops, LeftOps
<1>1. CASE FinalWritten
  <2>1. (Completed("final_write") \/ Failed("final_write")) /\ CallCancel("left") /\ Return
    BY <1>1 DEF FinalWritten
  <2>2. s = "final_write"
    BY <1>a, <2>1 DEF OnlyThis, Completed, Failed, ThreadOf, Cancelling, LeftOps
  <2>3. Ends("final_write", "none")
    BY <2>1 DEF Ends, ThreadOf, LeftOps
  <2>4. life' = "live" /\ OnlyThis("cancel")' /\ pc'["left"] = "cancel_timer"
    BY <1>a, <2>1, <2>2, <2>3, OnlyMoves DEF LeftOps
  <2>5. pend["final_write"] = 0
    <3>1. Out("final_write") = 1
      BY <1>a, <1>b, <2>2 DEF OnlyThis, Gain
    <3> QED
      BY <1>b, <2>1, <3>1 DEF TypeOK, Out, Completed, Failed
  <2>6. Denied'
    BY <2>1 DEF Denied, CallCancel
  <2> QED
    BY <1>a, <2>2, <2>4, <2>5, <2>6 DEF DenyWritten, DenyCancels
<1>2. ASSUME NEW place, pc["left"] = place, place \in Cancelling, NEW next, history \subseteq history',
             pc' = [pc EXCEPT !["left"] = next],
             UNCHANGED ops \/ \E aborted : Abort(aborted)
      PROVE  /\ DenyCancels(place)
             /\ next = "idle" => Dropped'
             /\ next \in Cancelling => DenyCancels(next)'
  <2>1. s = "cancel"
    BY <1>a, <1>2 DEF OnlyThis, Cancelling
  <2>2. Denied' /\ pc'["left"] = next
    BY <1>b, <1>2 DEF Denied, Threads
  <2>3. ~ OnlyThis("final_write")'
    <3>1. Out("final_write") = 0
      BY <1>a, <1>b, <2>1 DEF OnlyThis, Gain
    <3>2. Out("final_write")' = 0
      BY <1>b, <1>2, <3>1, OutKept
    <3> QED
      BY <1>b, <3>2 DEF OnlyThis, Gain
  <2>4. Dropped' \/ \E p \in Cancelling : DenyCancels(p)'
    <3>1. DeniedStage'
      BY <2>2, DeniedWhere, PTL
    <3> QED
      BY <2>3, <3>1 DEF DeniedStage, DenySent, DenyWritten
  <2>5. Dropped' => next = "idle"
    <3>1. Dropped' => OnlyThis("none")'
      BY <2>2 DEF Dropped, Denied, SentInv, SequentialInv
    <3> QED
      BY <2>2, <3>1 DEF OnlyThis
  <2> QED
    BY <1>a, <1>2, <2>1, <2>2, <2>4, <2>5 DEF DenyCancels, Cancelling
<1>3. CASE CancelTimer("left")
  BY <1>2, <1>3 DEF CancelTimer, Cancelling
<1>4. CASE CancelLeft("left")
  BY <1>2, <1>4 DEF CancelLeft, Cancelling
<1>5. CASE CancelRight("left")
  BY <1>2, <1>5 DEF CancelRight, Cancelled, Cancelling
<1>6. ASSUME pc' = pc, life' = life, history' = history, \A x \in Ops : Out(x)' = Out(x)
      PROVE  Denied' /\ life' = "live" /\ \A r \in {"final_write", "cancel"} : OnlyThis(r) => OnlyThis(r)'
  BY <1>6 DEF Denied, OnlyThis
<1>7. CASE Complete("final_write")
  <2>1. Denied' /\ life' = "live" /\ OnlyThis(s)'
    BY <1>6, <1>7, <1>a, <1>b, OutKept DEF Complete, CompleteOk, CompleteErr
  <2>2. Out("final_write") > 0 /\ pend["final_write"] > 0
    BY <1>7, <1>b DEF TypeOK, Out, Complete, CompleteOk, CompleteErr
  <2>3. s = "final_write" /\ Out("final_write") = 1
    BY <1>a, <1>b, <2>2 DEF OnlyThis, Gain
  <2>4. pend'["final_write"] = 0
    BY <1>7, <1>b, <2>2, <2>3 DEF TypeOK, Out, Complete, CompleteOk, CompleteErr
  <2> QED
    BY <1>a, <2>1, <2>2, <2>3, <2>4 DEF DenySent, DenyWritten
<1>8. CASE Apart
  <2>1. Denied' /\ life' = "live" /\ \A r \in {"final_write", "cancel"} : OnlyThis(r) => OnlyThis(r)'
    BY <1>6, <1>8, OutKept DEF Apart, TimerElapse, PeerLeaves, vars
  <2>2. pend' = pend /\ pc' = pc
    BY <1>8 DEF Apart, TimerElapse, PeerLeaves, vars, ops
  <2> QED
    BY <1>8, <2>1, <2>2 DEF DenySent, DenyWritten, DenyCancels
<1> QED
  BY <1>1, <1>3, <1>4, <1>5, <1>7, <1>8, DeniedSteps

\* A step apart is none of the left thread and no completion.
LEMMA ApartOnly == ASSUME TypeOK, Apart PROVE ~ LeftThread /\ ~ Complete("final_write")
<1>1. UNCHANGED <<pend, ok, err, pc>>
  BY DEF Apart, TimerElapse, PeerLeaves, vars, ops
<1>2. \A x \in Ops : ~ Completed(x) /\ ~ Failed(x)
  <2> SUFFICES ASSUME NEW x \in Ops PROVE ~ Completed(x) /\ ~ Failed(x)
    OBVIOUS
  <2>1. ok[x] \in Nat /\ ok \in [Ops -> Nat] /\ err[x] \in Nat /\ err \in [Ops -> Nat]
    BY DEF TypeOK
  <2> QED
    BY <1>1, <2>1 DEF Completed, Failed
<1>3. ~ left_read_handler("left_read")
  BY <1>2 DEF left_read_handler, IncompletePacket, RejectedPacket, ReadFailed, HelloPacket,
        ExchangeDenied, ExchangeAccepted, RelayData, MalformedRequest, ConnectRequest,
        UdpNameRequest, UdpAnyRequest, BindRequest, Request, Ops, LeftOps
<1>4. ~ InProgress("left")
  BY <1>1 DEF TypeOK, InProgress, RespRead, CancelTimer, CancelLeft, CancelRight, Threads
<1>5. ~ LeftThread
  BY <1>2, <1>3, <1>4 DEF LeftThread, ShortPacket, HelloWritten, ExchangeWritten,
        LeftWritten, LeftWriteFailed, FinalWritten, Ops, LeftOps, LeftWrites
<1>6. ~ Complete("final_write")
  <2>1. pend["final_write"] \in Nat /\ pend \in [Ops -> Nat] /\ "final_write" \in Ops
    BY DEF TypeOK, Ops, LeftOps
  <2> QED
    BY <1>1, <2>1 DEF Complete, CompleteOk, CompleteErr
<1> QED
  BY <1>5, <1>6

\* A client that was denied is dropped, though it keeps its connection open: the
\* deny is written, its completion calls cancel(), and as nothing else of the
\* session is outstanding, the return of cancel() frees it.
THEOREM DeniedIsFreed == FairSpec => ("deny" \in history ~> life = "destroyed")
<1> DEFINE Timer == DenyCancels("cancel_timer")
           Left  == DenyCancels("cancel_left")
           Right == DenyCancels("cancel_right")
           Moves == \/ DenySent /\ DenyWritten'
                    \/ DenyWritten /\ Timer'
                    \/ Timer /\ Left'
                    \/ Left /\ Right'
                    \/ Right /\ Dropped'
           Stays == /\ Apart
                    /\ DenySent => DenySent'
                    /\ DenyWritten => DenyWritten'
                    /\ Timer => Timer'
                    /\ Left => Left'
                    /\ Right => Right'
           Going == DenySent \/ DenyWritten \/ Timer \/ Left \/ Right
<1>1. Going => Denied /\ life = "live"
  BY DEF DenySent, DenyWritten, DenyCancels
<1>2. Safe /\ Safe' /\ Going /\ [Next]_vars => Moves \/ Stays
  BY <1>1, DeniedMoves DEF Cancelling
<1>3. /\ DenySent => ~ DenyWritten /\ ~ Timer /\ ~ Left /\ ~ Right
      /\ DenyWritten => ~ Timer /\ ~ Left /\ ~ Right
      /\ Timer => ~ Left /\ ~ Right
      /\ Left => ~ Right
  BY DEF DenySent, DenyWritten, DenyCancels, OnlyThis, Cancelling
<1>4. Safe /\ Denied => Going \/ Dropped
  BY DeniedWhere DEF DeniedStage, Cancelling
<1>5. DenySent => ~ (pend["final_write"] = 0)
  BY DEF DenySent
<1>6. (Safe /\ DenyWritten) \/ Timer \/ Left \/ Right => CanLeft
  <2>1. ASSUME Safe, DenyWritten PROVE CanLeft
    <3>1. /\ "final_write" \in LeftOps \cap Ops
          /\ ok["final_write"] \in Nat /\ err["final_write"] \in Nat
      BY <2>1 DEF Safe, TypeOK, Ops, LeftOps
    <3>2. ok["final_write"] + err["final_write"] = 1
      BY <2>1, <3>1 DEF DenyWritten, OnlyThis, Out, Gain
    <3> QED
      BY <3>1, <3>2 DEF CanLeft
  <2>2. Timer \/ Left \/ Right => CanLeft
    BY DEF DenyCancels, CanLeft
  <2> QED
    BY <2>1, <2>2
<1>7. Safe /\ Stays => ~ <<Complete("final_write")>>_vars /\ ~ <<LeftThread>>_vars
  BY ApartOnly DEF Safe
<1> HIDE DEF Timer, Left, Right
<1> QED
  <2>1. Spec => []Safe
    BY TypeCorrect, Invariance, OrderAlways, SequentialAlways, PTL DEF Safe
  <2>2. FairSpec => (DenySent ~> DenyWritten)
    BY <1>2, <1>3, <1>5, <1>7, <2>1, PTL DEF FairSpec, Spec, Fairness, FinalFairness
  <2>3. FairSpec => (DenyWritten ~> Timer)
    BY <1>2, <1>3, <1>6, <1>7, <2>1, PTL DEF FairSpec, Spec, Fairness, LeftFairness
  <2>4. FairSpec => (Timer ~> Left)
    BY <1>2, <1>3, <1>6, <1>7, <2>1, PTL DEF FairSpec, Spec, Fairness, LeftFairness
  <2>5. FairSpec => (Left ~> Right)
    BY <1>2, <1>3, <1>6, <1>7, <2>1, PTL DEF FairSpec, Spec, Fairness, LeftFairness
  <2>6. FairSpec => (Right ~> Dropped)
    BY <1>2, <1>3, <1>6, <1>7, <2>1, PTL DEF FairSpec, Spec, Fairness, LeftFairness
  <2>7. FairSpec => (Denied ~> Dropped)
    BY <1>4, <2>1, <2>2, <2>3, <2>4, <2>5, <2>6, PTL DEF FairSpec
  <2>8. Dropped => life = "destroyed"
    BY DEF Dropped
  <2> QED
    BY <2>7, <2>8, PTL DEF Denied

-----------------------------------------------------------------------------
(* A connection attempt is guarded.                                        *)

\* While an attempt is made the session is not released, so the timer is left
\* as the handler that returns wants it.
LEMMA SettleKeeps ==
  ASSUME TypeOK', NEW wait, Settle(wait), Attempt'
  PROVE  timerWait' = wait
<1>1. CASE pend'["connect"] > 0
  <2>1. Out("connect")' > 0
    BY <1>1 DEF TypeOK, Out, Ops, RightOps
  <2> QED
    BY <2>1 DEF Settle, Released, Ops, RightOps
<1>2. CASE pc'["right"] = "to_connect"
  BY <1>2 DEF Settle, Released, Threads
<1> QED
  BY <1>1, <1>2 DEF Attempt

LEMMA ArmedGuards == ASSUME TypeOK', ReturnArmed PROVE TimerInv'
<1>1. Attempt' => timerWait' = 1
  BY SettleKeeps DEF ReturnArmed
<1> QED
  BY <1>1 DEF ReturnArmed, TimerInv, Guarded, Armed

\* The frame of a handler that leaves the timer alone.
TimerKept == UNCHANGED <<timerQueue, expiry>> /\ Settle(timerWait)

LEMMA ReturnKeepsTimer == ASSUME Return PROVE TimerKept
  BY DEF Return, TimerKept

\* What keeps a guard: the timer is left alone, threads in a cancel() stay in
\* it, and a final write in progress stays or its handler enters cancel().
LEMMA GuardKept ==
  ASSUME TypeOK, TypeOK', TimerInv, TimerKept, history \subseteq history',
         socks5_cmd' = "CONNECT" /\ Attempt' => socks5_cmd = "CONNECT" /\ Attempt,
         \A t \in Threads : pc[t] \in Cancelling => pc'[t] \in Cancelling,
         Out("final_write") > 0 => \/ Out("final_write")' > 0
                                   \/ \E t \in Threads : pc'[t] \in Cancelling
  PROVE  TimerInv'
<1>1. timerWait' = 1 => expiry' = "future"
  BY DEF TimerKept, Settle, TimerInv
<1>2. ASSUME socks5_cmd' = "CONNECT", Attempt' PROVE Guarded' \/ "overtaken" \in history'
  <2>1. timerWait' = timerWait
    BY <1>2, SettleKeeps DEF TimerKept
  <2>2. Guarded \/ "overtaken" \in history
    BY <1>2 DEF TimerInv
  <2> QED
    BY <2>1, <2>2 DEF Guarded, Armed, TimerKept
<1> QED
  BY <1>1, <1>2 DEF TimerInv

\* A handler that leaves the timer and the command alone and connects nothing.
LEMMA HandlerGuards ==
  ASSUME TypeOK, TypeOK', TimerInv, NEW s \in Ops, s # "final_write", Completed(s) \/ Failed(s),
         NEW r, r # "connect", Ends(s, r), TimerKept, socks5_cmd' = socks5_cmd,
         history \subseteq history'
  PROVE  TimerInv'
<1>1. Attempt' => Attempt
  <2>1. pend'["connect"] = pend["connect"]
    BY DEF TypeOK, Ends, CallCancel, Ops, RightOps
  <2>2. pc'["right"] \in {pc["right"], "cancel_timer"}
    BY DEF TypeOK, Ends, CallCancel, Threads
  <2> QED
    BY <2>1, <2>2 DEF Attempt
<1>2. \A t \in Threads : pc[t] \in Cancelling => pc'[t] \in Cancelling
  BY DEF TypeOK, Ends, CallCancel, Completed, Failed, Cancelling
<1>3. Out("final_write") > 0 => Out("final_write")' > 0
  <2>1. After(s, r)
    BY Handled
  <2>2. "final_write" \in Ops
    BY DEF Ops, LeftOps
  <2> QED
    BY <2>1, <2>2, OutIsNat DEF After, Gain
<1> QED
  BY <1>1, <1>2, <1>3, GuardKept

\* A step that leaves no connection of a CONNECT request needs no guard.
LEMMA NoConnectGuards ==
  ASSUME timerWait' = 1 => expiry' = "future",
         \/ pend'["connect"] = 0 /\ pc'["right"] # "to_connect"
         \/ socks5_cmd' # "CONNECT"
  PROVE  TimerInv'
  BY DEF TimerInv, Attempt

LEMMA SumOfNone == ASSUME NEW a \in Nat, NEW b \in Nat, NEW c \in Nat, a + b + c = 0 PROVE a = 0
  OBVIOUS

\* The last handler to return leaves none, and nothing starts one afterwards.
LEMMA FreedNext == ASSUME TypeOK, TypeOK', Freed, [Next]_vars PROVE Freed'
<1>1. ASSUME Return \/ ReturnArmed \/ ReturnDisarmed \/ \E wait : Settle(wait) PROVE Freed'
  <2>1. PICK wait : Settle(wait)
    BY <1>1 DEF Return, ReturnArmed, ReturnDisarmed
  <2>2. /\ life' = "destroyed" => Out("connect")' = 0
        /\ life' = "destroyed" => pc'["right"] = "idle"
    BY <2>1 DEF Settle, Released, Ops, RightOps, Threads
  <2>3. pend'["connect"] \in Nat /\ ok'["connect"] \in Nat /\ err'["connect"] \in Nat
    BY DEF TypeOK, Ops, RightOps
  <2>4. ASSUME life' = "destroyed" PROVE pend'["connect"] = 0
    <3>1. pend'["connect"] + ok'["connect"] + err'["connect"] = 0
      BY <2>2, <2>4 DEF Out
    <3> QED
      BY <2>3, <3>1, SumOfNone
  <2> QED
    BY <2>2, <2>4 DEF Freed
<1>2. ASSUME NEW src \in Sources, left_read_handler(src) PROVE Freed'
  BY <1>1, <1>2 DEF left_read_handler, IncompletePacket, RejectedPacket, ReadFailed, HelloPacket,
        ExchangeDenied, ExchangeAccepted, RelayData, MalformedRequest, ConnectRequest,
        UdpNameRequest, UdpAnyRequest, BindRequest
<1>3. ASSUME NEW t \in Threads, InProgress(t) PROVE Freed'
  BY <1>1, <1>3 DEF InProgress, RespRead, CancelTimer, CancelLeft, CancelRight
<1>4. ASSUME LeftThread PROVE Freed'
  BY <1>1, <1>2, <1>3, <1>4 DEF LeftThread, Sources, Threads, ShortPacket, HelloWritten,
        ExchangeWritten, LeftWritten, LeftWriteFailed, FinalWritten
<1>5. ASSUME RightThread PROVE Freed'
  BY <1>1, <1>2, <1>3, <1>5 DEF RightThread, Sources, Threads, ResolveOk, ResolveFailed,
        TcpConnected, TcpTryNext, UdpTryNext, ConnectFailed, UdpConnected, UdpConnectedLast, Crash,
        AsyncConnect, RightWritten, RightWriteFailed, RightRead, RightReadFailed, TimerExpired,
        TimerExpiredDangling, Freed, ops
<1>6. ASSUME NEW s \in Ops, Complete(s) PROVE Freed'
  <2>1. life' = life /\ pc' = pc /\ pend[s] > 0 /\ pend' = [pend EXCEPT ![s] = @ - 1]
    BY <1>6 DEF Complete, CompleteOk, CompleteErr
  <2> QED
    BY <2>1 DEF Freed, TypeOK, Ops, RightOps
<1>7. ASSUME start \/ TimerElapse \/ PeerLeaves \/ UdpReceiveDangling \/ UNCHANGED vars
      PROVE  Freed'
  BY <1>1, <1>7 DEF start, TimerElapse, PeerLeaves, UdpReceiveDangling, Crash, vars, ops, Freed
<1> QED
  BY <1>4, <1>5, <1>6, <1>7 DEF Next

LEMMA TimerNext == ASSUME TypeOK, TypeOK', Inv, Freed, TimerInv, [Next]_vars PROVE TimerInv'
<1> USE DEF socks5, Sources, ThreadOf, Ops, LeftOps, RightOps, LeftWrites, RightWrites
<1>a. timerWait = 1 => expiry = "future"
  BY DEF TimerInv
<1>b. ASSUME Return PROVE timerWait' = 1 => expiry' = "future"
  BY <1>a, <1>b DEF Return, Settle
<1>1. ASSUME NEW src \in Sources, left_read_handler(src) PROVE TimerInv'
  <2>1. ASSUME IncompletePacket(src) PROVE TimerInv'
    BY <2>1, HandlerGuards, ReturnKeepsTimer DEF IncompletePacket, Initiate, Ends
  <2>2. ASSUME RejectedPacket(src) \/ ReadFailed(src) PROVE TimerInv'
    <3>1. history' = history
      BY <2>2 DEF RejectedPacket, ReadFailed, CallCancel
    <3> QED
      BY <2>2, <3>1, HandlerGuards, ReturnKeepsTimer DEF RejectedPacket, ReadFailed, Ends
  <2>3. ASSUME HelloPacket(src) PROVE TimerInv'
    BY <2>3, HandlerGuards, ReturnKeepsTimer DEF HelloPacket, Initiate, SendFinal, Ends
  <2>4. ASSUME ExchangeDenied(src) \/ ExchangeAccepted(src) PROVE TimerInv'
    BY <2>4, HandlerGuards, ReturnKeepsTimer DEF ExchangeDenied, ExchangeAccepted, SendFinal, Ends
  <2>5. ASSUME RelayData(src) PROVE TimerInv'
    BY <2>5, HandlerGuards, ReturnKeepsTimer DEF RelayData, Initiate, SendFinal, Ends
  <2>6. ASSUME MalformedRequest(src) PROVE TimerInv'
    BY <2>6, HandlerGuards, ReturnKeepsTimer DEF MalformedRequest, Request, SendFinal, Ends
  <2>7. ASSUME ConnectRequest(src) PROVE TimerInv'
    BY <2>7, ArmedGuards DEF ConnectRequest
  <2>8. ASSUME UdpNameRequest(src) \/ UdpAnyRequest(src) \/ BindRequest(src) PROVE TimerInv'
    BY <2>8, <1>b, NoConnectGuards DEF UdpNameRequest, UdpAnyRequest, BindRequest
  <2> QED
    BY <1>1, <2>1, <2>2, <2>3, <2>4, <2>5, <2>6, <2>7, <2>8 DEF left_read_handler
<1>2. ASSUME NEW t \in Threads, InProgress(t) PROVE TimerInv'
  <2>1. ASSUME RespRead(t) PROVE TimerInv'
    <3>1. \A x \in Threads : pc[x] \in Cancelling => pc'[x] \in Cancelling
      BY <2>1 DEF RespRead, TypeOK, Cancelling
    <3>2. (Attempt' => Attempt) /\ Out("final_write")' = Out("final_write")
      BY <2>1 DEF RespRead, Attempt, TypeOK, Out
    <3> QED
      BY <2>1, <3>1, <3>2, GuardKept, ReturnKeepsTimer DEF RespRead
  <2>2. ASSUME CancelTimer(t) PROVE TimerInv'
    <3>1. pc'[t] \in Cancelling
      BY <2>2 DEF CancelTimer, TypeOK, Cancelling
    <3>2. timerWait' = 0
      BY <2>2 DEF CancelTimer, ReturnDisarmed, Settle
    <3> QED
      BY <3>1, <3>2 DEF TimerInv, Guarded
  <2>3. ASSUME CancelLeft(t) PROVE TimerInv'
    <3>1. pc'[t] \in Cancelling
      BY <2>3 DEF CancelLeft, TypeOK, Cancelling
    <3>2. timerWait' = 1 => expiry' = "future"
      BY <2>3, <1>b DEF CancelLeft
    <3> QED
      BY <3>1, <3>2 DEF TimerInv, Guarded
  <2>4. ASSUME CancelRight(t) PROVE TimerInv'
    <3>1. pend'["connect"] = 0
      BY <2>4 DEF CancelRight, Abort
    <3>2. timerWait' = 1 => expiry' = "future"
      BY <2>4, <1>b DEF CancelRight
    <3>3. CASE pc'["right"] # "to_connect"
      BY <3>1, <3>2, <3>3, NoConnectGuards
    <3>4. CASE pc'["right"] = "to_connect"
      <4>1. pc["right"] = "to_connect"
        BY <2>4, <3>4 DEF CancelRight, TypeOK
      <4>2. timerWait' = timerWait /\ UNCHANGED <<timerQueue, expiry>>
        BY <2>4, <3>4, SettleKeeps DEF CancelRight, Return, Attempt
      <4>3. Armed' \/ "overtaken" \in history'
        BY <2>4, <4>1, <4>2 DEF CancelRight, Cancelled, Armed
      <4> QED
        BY <3>2, <4>3 DEF TimerInv, Guarded
    <3> QED
      BY <3>3, <3>4
  <2> QED
    BY <1>2, <2>1, <2>2, <2>3, <2>4 DEF InProgress
<1>3. ASSUME ShortPacket \/ HelloWritten \/ ExchangeWritten PROVE TimerInv'
  <2>1. ASSUME ShortPacket PROVE TimerInv'
    BY <2>1, HandlerGuards, ReturnKeepsTimer DEF ShortPacket, SendFinal, Ends
  <2>2. ASSUME HelloWritten PROVE TimerInv'
    BY <2>2, HandlerGuards, ReturnKeepsTimer DEF HelloWritten, Initiate, Ends
  <2>3. ASSUME ExchangeWritten PROVE TimerInv'
    BY <2>3, HandlerGuards, ReturnKeepsTimer DEF ExchangeWritten, Initiate, Ends
  <2> QED
    BY <1>3, <2>1, <2>2, <2>3
<1>4. ASSUME LeftWritten \/ LeftWriteFailed PROVE TimerInv'
  <2>1. ASSUME LeftWritten PROVE TimerInv'
    <3>1. history \subseteq history'
      BY <2>1 DEF LeftWritten, Initiate, SendFinal, CallCancel
    <3> QED
      BY <2>1, <3>1, HandlerGuards, ReturnKeepsTimer DEF LeftWritten, Initiate, SendFinal, Ends
  <2>2. ASSUME LeftWriteFailed PROVE TimerInv'
    <3>1. history' = history
      BY <2>2 DEF LeftWriteFailed, CallCancel
    <3> QED
      BY <2>2, <3>1, HandlerGuards, ReturnKeepsTimer DEF LeftWriteFailed, Ends
  <2> QED
    BY <1>4, <2>1, <2>2
<1>5. ASSUME FinalWritten PROVE TimerInv'
  <2>1. pc' = [pc EXCEPT !["left"] = "cancel_timer"]
    BY <1>5 DEF FinalWritten, CallCancel
  <2>2. \A t \in Threads : pc[t] \in Cancelling => pc'[t] \in Cancelling
    BY <2>1 DEF TypeOK, Cancelling
  <2>3. pc'["left"] \in Cancelling /\ "left" \in Threads
    BY <2>1 DEF TypeOK, Threads, Cancelling
  <2>4. (Attempt' => Attempt) /\ history' = history /\ socks5_cmd' = socks5_cmd
    BY <1>5, <2>1 DEF FinalWritten, CallCancel, Attempt
  <2> QED
    BY <1>5, <2>2, <2>3, <2>4, GuardKept, ReturnKeepsTimer DEF FinalWritten
<1>6. ASSUME ResolveOk PROVE TimerInv'
  <2>1. ASSUME ReturnArmed PROVE TimerInv'
    BY <2>1, ArmedGuards
  <2>2. ASSUME socks5_cmd = "UDP", UNCHANGED expiry, Settle(timerWait) PROVE TimerInv'
    BY <1>6, <2>2, <1>a, NoConnectGuards DEF ResolveOk, Settle
  <2> QED
    BY <1>6, <2>1, <2>2 DEF ResolveOk
<1>6b. ASSUME AsyncConnect PROVE TimerInv'
  <2>1. \A t \in Threads : pc[t] \in Cancelling => pc'[t] \in Cancelling
    BY <1>6b DEF AsyncConnect, TypeOK, Cancelling
  <2>2. Attempt /\ Out("final_write")' = Out("final_write")
    BY <1>6b DEF AsyncConnect, Attempt, TypeOK, Out
  <2> QED
    BY <1>6b, <2>1, <2>2, GuardKept, ReturnKeepsTimer DEF AsyncConnect
<1>7. ASSUME TcpTryNext \/ UdpTryNext PROVE TimerInv'
  <2>1. ASSUME TcpTryNext PROVE TimerInv'
    BY <2>1, ArmedGuards DEF TcpTryNext
  <2>2. ASSUME UdpTryNext PROVE TimerInv'
    BY <2>2, <1>a, NoConnectGuards DEF UdpTryNext, Settle
  <2> QED
    BY <1>7, <2>1, <2>2
<1>8. ASSUME ResolveFailed \/ TcpConnected \/ ConnectFailed \/ UdpConnected PROVE TimerInv'
  <2>1. PICK s \in {"resolve", "connect"} :
          /\ Completed(s) \/ Failed(s)
          /\ pend' = [pend EXCEPT !["left_write"] = @ + 1]
          /\ pc["right"] = "idle" /\ pc' \in {pc, [pc EXCEPT !["right"] = "resp_read"]}
    BY <1>8 DEF ResolveFailed, TcpConnected, ConnectFailed, UdpConnected, RespToLocal, Completed,
          Failed
  <2>2. PICK u \in UpOps \cup {"none", "resp_read", "to_connect"}, d \in DownOps \cup {"none"} :
          UpIs(u) /\ DownIs(d)
    BY DEF Inv
  <2>3. u = s
    BY <2>1, <2>2, TokenAt DEF UpOps
  <2>4. Out("connect") <= 1 /\ (s = "resolve" => Out("connect") = 0)
    BY <2>2, <2>3 DEF UpIs, Gain, UpOps
  <2>5. pend["connect"] = 0
    BY <2>1, <2>4 DEF TypeOK, Out, Completed, Failed
  <2>6. pend'["connect"] = 0 /\ pc'["right"] # "to_connect"
    BY <2>1, <2>5 DEF TypeOK
  <2>7. ASSUME ReturnDisarmed PROVE timerWait' = 0
    BY <2>7 DEF ReturnDisarmed, Settle
  <2>8. ReturnDisarmed \/ Return
    BY <1>8 DEF ResolveFailed, TcpConnected, ConnectFailed, UdpConnected
  <2> QED
    BY <1>b, <2>6, <2>7, <2>8, NoConnectGuards
<1>9. ASSUME RightWritten \/ RightWriteFailed PROVE TimerInv'
  <2>1. ASSUME RightWritten PROVE TimerInv'
    BY <2>1, HandlerGuards, ReturnKeepsTimer DEF RightWritten, Initiate, SendFinal, Ends
  <2>2. ASSUME RightWriteFailed PROVE TimerInv'
    BY <2>2, HandlerGuards, ReturnKeepsTimer DEF RightWriteFailed, SendFinal, Ends
  <2> QED
    BY <1>9, <2>1, <2>2
<1>10. ASSUME RightRead \/ RightReadFailed PROVE TimerInv'
  <2>1. ASSUME RightRead PROVE TimerInv'
    BY <2>1, HandlerGuards, ReturnKeepsTimer DEF RightRead, Initiate, Ends
  <2>2. ASSUME RightReadFailed PROVE TimerInv'
    BY <2>2, HandlerGuards, ReturnKeepsTimer DEF RightReadFailed, SendFinal, Ends
  <2> QED
    BY <1>10, <2>1, <2>2
<1>11. ASSUME TimerElapse PROVE TimerInv'
  BY <1>11 DEF TimerElapse, TypeOK, TimerInv, Attempt, Guarded, Armed, Out, ops
<1>12. ASSUME TimerExpired PROVE TimerInv'
  <2>1. timerWait' = 1 => expiry' = "future"
    BY <1>12, <1>a DEF TimerExpired, Settle
  <2>2. (Attempt' => Attempt) /\ socks5_cmd' = socks5_cmd /\ history \subseteq history'
    BY <1>12 DEF TimerExpired, SendFinal, Attempt, TypeOK
  <2>3. ASSUME Attempt', Guarded PROVE Guarded'
    <3>1. timerWait' = timerWait
      BY <1>12, <2>3, SettleKeeps DEF TimerExpired
    <3>2. pc' = pc
      BY <1>12 DEF TimerExpired, SendFinal
    <3>3. CASE expiry = "future"
      BY <1>12, <2>3, <3>1, <3>2, <3>3 DEF TimerExpired, Guarded, Armed, Out, SendFinal
    <3>4. CASE expiry = "past"
      BY <1>12, <3>4 DEF TimerExpired, Guarded, Out, SendFinal, TypeOK
    <3> QED
      BY <3>3, <3>4 DEF TypeOK
  <2> QED
    BY <2>1, <2>2, <2>3 DEF TimerInv
<1>13. ASSUME TimerExpiredDangling \/ UdpConnectedLast \/ UdpReceiveDangling PROVE TimerInv'
  <2>1. ASSUME Crash PROVE TimerInv'
    BY <2>1, NoConnectGuards DEF Crash, Threads
  <2>2. ASSUME life = "destroyed",
               UNCHANGED <<life, socks5_cmd, pend, ok, err, timerWait, expiry, pc>>,
               timerQueue' = timerQueue - 1
        PROVE  TimerInv'
    BY <2>2, <1>a, NoConnectGuards DEF Freed, TypeOK
  <2> QED
    BY <1>13, <2>1, <2>2 DEF TimerExpiredDangling, UdpConnectedLast, UdpReceiveDangling, ops
<1>14. ASSUME NEW s \in Ops, Complete(s) PROVE TimerInv'
  <2>1. Out("final_write")' = Out("final_write")
    BY <1>14, OutKept
  <2>2. Attempt' => Attempt
    BY <1>14 DEF Complete, CompleteOk, CompleteErr, Attempt, TypeOK
  <2> QED
    BY <1>14, <2>1, <2>2 DEF Complete, CompleteOk, CompleteErr, TimerInv, Guarded, Armed
<1>15. ASSUME start \/ PeerLeaves \/ UNCHANGED vars PROVE TimerInv'
  <2>1. ASSUME start PROVE TimerInv'
    <3>1. socks5_cmd' # "CONNECT"
      BY <2>1 DEF start, Inv, Consistent, HandshakeInv, RequestInv
    <3> QED
      BY <2>1, <3>1, <1>b, NoConnectGuards DEF start
  <2>2. ASSUME PeerLeaves \/ UNCHANGED vars PROVE TimerInv'
    BY <2>2 DEF PeerLeaves, vars, ops, TimerInv, Attempt, Guarded, Armed, Out
  <2> QED
    BY <1>15, <2>1, <2>2
<1> QED
  BY <1>1, <1>2, <1>3, <1>4, <1>5, <1>6, <1>6b, <1>7, <1>8, <1>9, <1>10, <1>11, <1>12, <1>13, <1>14,
     <1>15 DEF Next, LeftThread, RightThread, Threads

\* A connection attempt to a silent remote has something under way that ends it,
\* whatever cancel(), the timer and the other thread do, unless a cancel() on the
\* other thread ran to its end after the timer of the attempt was armed and
\* before async_connect was called: that cancel() takes the timer, finds no
\* connection to abort, and leaves the attempt with neither.
THEOREM AttemptsGuarded == Spec => []ConnectGuarded
<1>1. Init => TimerInv /\ Freed
  BY DEF Init, TimerInv, Attempt, Freed, Threads, Ops, RightOps
<1>2. TypeOK /\ TypeOK' /\ Inv /\ Freed /\ TimerInv /\ [Next]_vars => TimerInv' /\ Freed'
  BY TimerNext, FreedNext
<1>3. TimerInv => ConnectGuarded
  BY DEF TimerInv, Attempt, ConnectGuarded
<1> QED
  BY <1>1, <1>2, <1>3, TypeCorrect, Invariance, PTL DEF Spec
=============================================================================

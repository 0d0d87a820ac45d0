------------------------- MODULE LocalSessionProofs -------------------------
(***************************************************************************)
(* What TLAPS proves of LocalSession, for every MaxEndpoints and whatever  *)
(* the server sends.                                                       *)
(*                                                                         *)
(* As in ServerSessionProofs, the outstanding operations are two tokens.   *)
(* The upstream token reaches the server, then alternates between reading  *)
(* the client and writing to the server, and ends with a bad packet.  The  *)
(* downstream token alternates between reading the server and writing to   *)
(* the client.  The handshake is different from ServerSession's: it hands  *)
(* one token back and forth (hello_write, right_read, exchange_write,      *)
(* right_read, step1_read), and only the answer to the greeting makes two. *)
(***************************************************************************)
EXTENDS LocalSession, TLAPS

UpOps   == {"resolve", "connect", "hello_write", "exchange_write", "step1_read", "step1_write",
            "left_read", "right_write", "final_write"}
DownOps == {"right_read", "left_write", "cont_write"}

Gain(x, s) == IF x = s THEN 1 ELSE 0

\* The upstream token is at u: an operation, pack_data, or nowhere ("none").
UpIs(u) ==
    /\ \A x \in UpOps : Out(x) = Gain(x, u)
    /\ pc["left"] = "pack" <=> u = "pack"
    /\ pc["right"] # "pack"

\* The downstream token is at d: an operation, unpack_reply_data on either
\* thread, or nowhere.
DownIs(d) ==
    /\ \A x \in DownOps : Out(x) = Gain(x, d)
    /\ (pc["left"] = "unpack" \/ pc["right"] = "unpack") <=> d = "unpack"
    /\ ~(pc["left"] = "unpack" /\ pc["right"] = "unpack")

Ups   == UpOps \cup {"pack", "none"}
Downs == DownOps \cup {"unpack", "none"}

\* The handshake: one token, and which packet it carries in which status.
HandshakeInv(u, d) ==
    /\ status = "not_connected" => u \in {"resolve", "connect", "none"} /\ d = "none"
    /\ status = "connected" => u \in {"hello_write", "none"} /\ d = "none"
    /\ status = "hello" => \/ u = "none" /\ d \in {"right_read", "none"}
                           \/ u = "exchange_write" /\ d = "none"
    /\ status = "auth" => u = "none" /\ d \in {"right_read", "none"}
    /\ status = "data" => u \notin {"resolve", "connect", "hello_write", "exchange_write"}
    /\ u \in {"step1_read", "step1_write"} => d = "none"

\* What has been sent and heard in which status.
PacketsInv(u) ==
    /\ status \in {"hello", "auth", "data"} \/ u = "hello_write" => "hello" \in sent
    /\ status \in {"auth", "data"} \/ u = "exchange_write" => "exchange" \in sent
    /\ status = "data" => "exchange" \in heard
    /\ "bad" \in sent => status = "data" /\ u \in {"final_write", "none"}
    /\ u = "final_write" => "bad" \in sent
    /\ "data" \in sent => aes_encryptor = "set"

\* While the server has sent nothing that lssserver would not.
ExpectedInv(u, d) ==
    /\ d = "unpack" => "data" \in sent
    /\ "deny" \in heard => status = "auth" /\ u = "none" /\ d = "none"

Consistent(u, d) ==
    /\ HandshakeInv(u, d)
    /\ PacketsInv(u)
    /\ "unexpected" \notin heard => ExpectedInv(u, d)
    /\ life = "new" => u = "none" /\ d = "none" /\ status = "not_connected" /\ heard = {}

Inv == \E u \in Ups, d \in Downs : UpIs(u) /\ DownIs(d) /\ Consistent(u, d)

-----------------------------------------------------------------------------
(* Types.                                                                  *)

LEMMA TypeInit == Init => TypeOK
<1>1. 0 \in 0 .. MaxEndpoints
  BY EndpointsAssumption
<1>2. [s \in Ops |-> 0] \in [Ops -> Nat]
  OBVIOUS
<1>3. [t \in Threads |-> "idle"] \in [Threads -> {"idle", "cancel_left", "cancel_right"} \cup Packing]
  OBVIOUS
<1> QED
  BY <1>1, <1>2, <1>3 DEF Init, TypeOK

LEMMA TypeNext == ASSUME TypeOK, [Next]_vars PROVE TypeOK'
<1> USE EndpointsAssumption DEF TypeOK, Packing, Ops, LeftOps, RightOps, LeftReads, LeftWrites,
        RightWrites, Threads, ThreadOf, Completed, Failed, Initiate, Send, Enter, CallCancel,
        Handled, Return, Crash, Abort, CreateEncryptor, ops, packets
<1>1. ASSUME NEW src \in Sources, IncompletePacket(src) PROVE TypeOK'
  BY <1>1 DEF IncompletePacket, Sources
<1>2. ASSUME NEW src \in Sources, RejectedPacket(src) PROVE TypeOK'
  BY <1>2 DEF RejectedPacket, Sources
<1>3. ASSUME NEW src \in Sources, RightReadFailed(src) PROVE TypeOK'
  BY <1>3 DEF RightReadFailed, Sources
<1>4. ASSUME NEW src \in Sources, HelloReply(src) PROVE TypeOK'
  BY <1>4 DEF HelloReply, Sources
<1>5. ASSUME NEW src \in Sources, ServerVerified(src) PROVE TypeOK'
  BY <1>5 DEF ServerVerified, Sources
<1>6. ASSUME NEW src \in Sources, DataReply(src) PROVE TypeOK'
  BY <1>6 DEF DataReply, Sources
<1>7. ASSUME NEW src \in Sources, NEW packet \in {"deny", "timeout", "bad"}, Notice(src, packet) PROVE TypeOK'
  BY <1>7 DEF Notice, Sources
<1>8. ASSUME NEW t \in Threads, pack_data(t) PROVE TypeOK'
  BY <1>8 DEF pack_data
<1>9. ASSUME NEW t \in Threads, unpack_reply_data(t) PROVE TypeOK'
  BY <1>9 DEF unpack_reply_data
<1>10. ASSUME NEW t \in Threads, CancelLeft(t) PROVE TypeOK'
  BY <1>10 DEF CancelLeft
<1>11. ASSUME NEW t \in Threads, CancelRight(t) PROVE TypeOK'
  BY <1>11 DEF CancelRight
<1>12. ASSUME start PROVE TypeOK'
  <2>1. CASE Initiate("resolve")
    BY <1>12, <2>1 DEF start
  <2>2. CASE UNCHANGED <<pend, pc, sent>>
    BY <1>12, <2>2 DEF start
  <2> QED
    BY <1>12, <2>1, <2>2 DEF start
<1>13. ASSUME ResolveOk PROVE TypeOK'
  BY <1>13 DEF ResolveOk
<1>14. ASSUME Connected PROVE TypeOK'
  BY <1>14 DEF Connected
<1>15. ASSUME ConnectTryNext PROVE TypeOK'
  BY <1>15 DEF ConnectTryNext
<1>16. ASSUME Unreachable PROVE TypeOK'
  <2>1. CASE Failed("resolve")
    BY <1>16, <2>1 DEF Unreachable
  <2>2. CASE Failed("connect")
    BY <1>16, <2>2 DEF Unreachable
  <2> QED
    BY <1>16, <2>1, <2>2 DEF Unreachable
<1>17. ASSUME HelloWritten PROVE TypeOK'
  BY <1>17 DEF HelloWritten
<1>18. ASSUME ExchangeWritten PROVE TypeOK'
  BY <1>18 DEF ExchangeWritten
<1>19. ASSUME RightWriteFailed PROVE TypeOK'
  BY <1>19 DEF RightWriteFailed
<1>20. ASSUME Greeted PROVE TypeOK'
  BY <1>20 DEF Greeted
<1>21. ASSUME IllegalGreeting PROVE TypeOK'
  BY <1>21 DEF IllegalGreeting
<1>22. ASSUME GreetingAnswered PROVE TypeOK'
  BY <1>22 DEF GreetingAnswered
<1>23. ASSUME ClientFailed PROVE TypeOK'
  BY <1>23 DEF ClientFailed
<1>24. ASSUME LeftRead PROVE TypeOK'
  BY <1>24 DEF LeftRead
<1>25. ASSUME RightWritten PROVE TypeOK'
  BY <1>25 DEF RightWritten
<1>26. ASSUME LeftWritten PROVE TypeOK'
  BY <1>26 DEF LeftWritten
<1>27. ASSUME LeftWriteFailed PROVE TypeOK'
  BY <1>27 DEF LeftWriteFailed
<1>28. ASSUME FinalWritten PROVE TypeOK'
  <2>1. CASE Completed("final_write")
    BY <1>28, <2>1 DEF FinalWritten
  <2>2. CASE Failed("final_write")
    BY <1>28, <2>2 DEF FinalWritten
  <2> QED
    BY <1>28, <2>1, <2>2 DEF FinalWritten
<1>29. ASSUME RaceCrash PROVE TypeOK'
  BY <1>29 DEF RaceCrash
<1>30. ASSUME PeerLeaves PROVE TypeOK'
  BY <1>30 DEF PeerLeaves
<1>31. ASSUME NEW s \in Ops, Complete(s) PROVE TypeOK'
  <2>1. CASE CompleteOk(s)
    BY <1>31, <2>1 DEF Complete, CompleteOk, CompleteErr
  <2>2. CASE CompleteErr(s)
    BY <1>31, <2>2 DEF Complete, CompleteOk, CompleteErr
  <2> QED
    BY <1>31, <2>1, <2>2 DEF Complete, CompleteOk, CompleteErr
<1>32. ASSUME UNCHANGED vars PROVE TypeOK'
  BY <1>32 DEF vars
<1> QED
  BY <1>1, <1>2, <1>3, <1>4, <1>5, <1>6, <1>7, <1>8, <1>9, <1>10, <1>11, <1>12, <1>13,
     <1>14, <1>15, <1>16, <1>17, <1>18, <1>19, <1>20, <1>21, <1>22, <1>23, <1>24, <1>25,
     <1>26, <1>27, <1>28, <1>29, <1>30, <1>31, <1>32 DEF Next, LeftThread, RightThread,
     right_read_handler, InProgress, Sources, Threads

-----------------------------------------------------------------------------
(* What a step does to the tokens.                                         *)

\* The handler of s ends with r: it initiates r, enters r, or calls cancel()
\* ("none").
Ends(s, r) ==
    \/ r \in Ops /\ pend' = [pend EXCEPT ![r] = @ + 1] /\ pc' = pc
    \/ r \in {"pack", "unpack"} /\ Enter(ThreadOf(s), r)
    \/ r = "none" /\ CallCancel(ThreadOf(s))

Places == Ops \cup {"pack", "unpack", "none"}

\* A handler takes one operation off s and adds one to r, if that is one.
LEMMA OutMoves ==
  ASSUME TypeOK, NEW s \in Ops, Completed(s) \/ Failed(s), NEW r \in Places, Ends(s, r)
  PROVE  /\ Out(s) > 0
         /\ \A x \in Ops : Out(x)' = Out(x) - Gain(x, s) + Gain(x, r)
<1>1. CASE r \in Ops /\ pend' = [pend EXCEPT ![r] = @ + 1]
  BY <1>1 DEF TypeOK, Out, Gain, Completed, Failed
<1>2. CASE r \notin Ops /\ pend' = pend
  BY <1>2 DEF TypeOK, Out, Gain, Completed, Failed
<1>3. \A f \in {"pack", "unpack", "none"} : f \notin Ops
  BY DEF Ops, LeftOps, RightOps, LeftReads, LeftWrites, RightWrites
<1> QED
  BY <1>1, <1>2, <1>3 DEF Ends, Enter, CallCancel

\* Which functions the threads are in afterwards.
LEMMA PcMoves ==
  ASSUME TypeOK, NEW s \in Ops, Completed(s) \/ Failed(s), NEW r \in Places, Ends(s, r)
  PROVE  /\ \A t \in Threads \ {ThreadOf(s)} : pc'[t] = pc[t]
         /\ pc[ThreadOf(s)] = "idle"
         /\ r \in {"pack", "unpack"} => pc'[ThreadOf(s)] = r
         /\ r \notin {"pack", "unpack"} => pc'[ThreadOf(s)] \notin Packing
<1>1. ThreadOf(s) \in Threads
  BY DEF ThreadOf, Threads
<1>2. pc[ThreadOf(s)] = "idle"
  BY DEF Completed, Failed
<1>3. \A f \in {"pack", "unpack", "none"} : f \notin Ops
  BY DEF Ops, LeftOps, RightOps, LeftReads, LeftWrites, RightWrites
<1> QED
  BY <1>1, <1>2, <1>3 DEF TypeOK, Ends, Enter, CallCancel, Packing

LEMMA OpsSplit == Ops = UpOps \cup DownOps /\ UpOps \cap DownOps = {}
  BY DEF UpOps, DownOps, Ops, LeftOps, RightOps, LeftReads, LeftWrites, RightWrites

\* A handler runs where its token is.
LEMMA TokenAt ==
  ASSUME TypeOK, NEW u, UpIs(u), NEW d, DownIs(d), NEW s \in Ops, Completed(s) \/ Failed(s)
  PROVE  /\ s \in UpOps => u = s
         /\ s \in DownOps => d = s
<1>1. Out(s) > 0
  BY DEF TypeOK, Out, Completed, Failed
<1> QED
  BY <1>1 DEF UpIs, DownIs, Gain

\* The handler of an upstream operation takes its token to r.
LEMMA UpHandled ==
  ASSUME TypeOK, NEW u, UpIs(u), NEW d, DownIs(d), NEW s \in UpOps, Completed(s) \/ Failed(s),
         NEW r \in UpOps \cup {"pack", "none"}, Ends(s, r), r = "pack" => s \in LeftOps
  PROVE  u = s /\ UpIs(r)' /\ DownIs(d)'
<1>1. s \in Ops /\ r \in Places /\ s \notin DownOps /\ r \notin DownOps
  BY OpsSplit DEF Places, UpOps, DownOps
<1>2. u = s
  BY <1>1, TokenAt
<1>3. \A x \in Ops : Out(x)' = Out(x) - Gain(x, s) + Gain(x, r)
  BY <1>1, OutMoves
<1>4. \A x \in UpOps : Out(x)' = Gain(x, r)
  BY <1>2, <1>3, OpsSplit DEF UpIs, Gain
<1>5. \A x \in DownOps : Out(x)' = Gain(x, d)
  BY <1>1, <1>3, OpsSplit DEF DownIs, Gain
<1>6. s # "pack" /\ r # "unpack" /\ (r = "pack" => ThreadOf(s) = "left")
  BY DEF UpOps, ThreadOf
<1> QED
  BY <1>1, <1>2, <1>4, <1>5, <1>6, PcMoves DEF UpIs, DownIs, Threads, Packing, ThreadOf

\* Likewise downstream.
LEMMA DownHandled ==
  ASSUME TypeOK, NEW u, UpIs(u), NEW d, DownIs(d), NEW s \in DownOps, Completed(s) \/ Failed(s),
         NEW r \in DownOps \cup {"unpack", "none"}, Ends(s, r)
  PROVE  d = s /\ UpIs(u)' /\ DownIs(r)'
<1>1. s \in Ops /\ r \in Places /\ s \notin UpOps /\ r \notin UpOps
  BY OpsSplit DEF Places, UpOps, DownOps
<1>2. d = s
  BY <1>1, TokenAt
<1>3. \A x \in Ops : Out(x)' = Out(x) - Gain(x, s) + Gain(x, r)
  BY <1>1, OutMoves
<1>4. \A x \in DownOps : Out(x)' = Gain(x, r)
  BY <1>2, <1>3, OpsSplit DEF DownIs, Gain
<1>5. \A x \in UpOps : Out(x)' = Gain(x, u)
  BY <1>1, <1>3, OpsSplit DEF UpIs, Gain
<1>6. s # "unpack" /\ r # "pack"
  BY DEF DownOps
<1> QED
  BY <1>1, <1>2, <1>4, <1>5, <1>6, PcMoves DEF UpIs, DownIs, Threads, Packing, ThreadOf

\* In the handshake the token changes sides.
LEMMA UpToDown ==
  ASSUME TypeOK, NEW u, UpIs(u), NEW d, DownIs(d), NEW s \in UpOps, Completed(s) \/ Failed(s),
         NEW r \in DownOps, Ends(s, r), d = "none"
  PROVE  UpIs("none")' /\ DownIs(r)'
<1>1. s \in Ops /\ r \in Places /\ s \notin DownOps /\ r \notin UpOps /\ "none" \notin Ops
  BY OpsSplit DEF Places, UpOps, DownOps
<1>2. u = s
  BY <1>1, TokenAt
<1>3. \A x \in Ops : Out(x)' = Out(x) - Gain(x, s) + Gain(x, r)
  BY <1>1, OutMoves
<1>4. /\ \A x \in UpOps : Out(x)' = 0
      /\ \A x \in DownOps : Out(x)' = Gain(x, r)
  BY <1>1, <1>2, <1>3, OpsSplit DEF UpIs, DownIs, Gain
<1>5. r \notin {"pack", "unpack"} /\ s # "pack"
  BY DEF DownOps, UpOps
<1> QED
  BY <1>1, <1>2, <1>4, <1>5, PcMoves, OpsSplit DEF UpIs, DownIs, Gain, Threads, Packing, ThreadOf

LEMMA DownToUp ==
  ASSUME TypeOK, NEW u, UpIs(u), NEW d, DownIs(d), NEW s \in DownOps, Completed(s) \/ Failed(s),
         NEW r \in UpOps, Ends(s, r), u = "none"
  PROVE  UpIs(r)' /\ DownIs("none")'
<1>1. s \in Ops /\ r \in Places /\ s \notin UpOps /\ r \notin DownOps /\ "none" \notin Ops
  BY OpsSplit DEF Places, UpOps, DownOps
<1>2. d = s
  BY <1>1, TokenAt
<1>3. \A x \in Ops : Out(x)' = Out(x) - Gain(x, s) + Gain(x, r)
  BY <1>1, OutMoves
<1>4. /\ \A x \in UpOps : Out(x)' = Gain(x, r)
      /\ \A x \in DownOps : Out(x)' = 0
  BY <1>1, <1>2, <1>3, OpsSplit DEF UpIs, DownIs, Gain
<1>5. r \notin {"pack", "unpack"} /\ s # "unpack"
  BY DEF DownOps, UpOps
<1> QED
  BY <1>1, <1>2, <1>4, <1>5, PcMoves, OpsSplit DEF UpIs, DownIs, Gain, Threads, Packing, ThreadOf

\* A function that ends by initiating r adds one operation.
LEMMA Grows ==
  ASSUME TypeOK, NEW r \in Ops, pend' = [pend EXCEPT ![r] = @ + 1], UNCHANGED <<ok, err>>
  PROVE  \A x \in Ops : Out(x)' = Out(x) + Gain(x, r)
  BY DEF TypeOK, Out, Gain

\* Completions and cancel() move no token.
LEMMA TokensStay ==
  ASSUME TypeOK, NEW u, UpIs(u), NEW d, DownIs(d),
         \/ UNCHANGED ops
         \/ \E s \in Ops : Complete(s)
         \/ \E aborted : Abort(aborted),
         \A t \in Threads : pc'[t] = pc[t] \/ (pc[t] \notin Packing /\ pc'[t] \notin Packing)
  PROVE  UpIs(u)' /\ DownIs(d)'
<1>1. \A x \in Ops : Out(x)' = Out(x)
  <2>1. CASE UNCHANGED ops
    BY <2>1 DEF ops, Out
  <2>2. CASE \E s \in Ops : Complete(s)
    BY <2>2 DEF TypeOK, Out, Complete, CompleteOk, CompleteErr
  <2>3. CASE \E aborted : Abort(aborted)
    BY <2>3 DEF TypeOK, Out, Abort
  <2> QED
    BY <2>1, <2>2, <2>3
<1> QED
  BY <1>1, OpsSplit DEF UpIs, DownIs, Threads, Packing

-----------------------------------------------------------------------------
(* Every step keeps Inv.                                                   *)

LEMMA InvNext == ASSUME TypeOK, Inv, [Next]_vars PROVE Inv'
<1> SUFFICES ASSUME NEW u \in Ups, NEW d \in Downs, UpIs(u), DownIs(d), Consistent(u, d)
             PROVE  Inv'
  BY DEF Inv
<1>a. ASSUME NEW v \in Ups, NEW e \in Downs, UpIs(v)', DownIs(e)', Consistent(v, e)'
      PROVE  Inv'
  BY <1>a DEF Inv
<1>b. ASSUME Return PROVE life' # "new"
  BY <1>b DEF Return
<1>s. status \in {"not_connected", "connected", "hello", "auth", "data"}
  BY DEF TypeOK
<1> USE DEF Consistent, HandshakeInv, PacketsInv, ExpectedInv, Handled, packets
<1>1. ASSUME NEW src \in Sources, IncompletePacket(src) PROVE Inv'
  <2>1. Ends(src, "right_read")
    BY <1>1 DEF IncompletePacket, Initiate, Ends, ThreadOf, Ops, LeftOps, RightOps,
       LeftReads, LeftWrites, RightWrites, Sources
  <2>2. d = src
    BY <1>1, TokenAt, OpsSplit, <1>s DEF IncompletePacket, Initiate, Sources, UpOps, DownOps
  <2>3. UpIs(u)' /\ DownIs("right_read")'
    BY <1>1, <2>1, <2>2, DownHandled DEF IncompletePacket, Initiate, Sources, UpOps, DownOps
  <2>4. Consistent(u, "right_read")'
    BY <1>1, <2>2, <1>b, <1>s DEF IncompletePacket, Initiate, Sources, UpOps, DownOps
  <2> QED
    BY <2>3, <2>4, <1>a DEF Ups, Downs, Sources, UpOps, DownOps
<1>2. ASSUME NEW src \in Sources, RejectedPacket(src) PROVE Inv'
  <2>1. Ends(src, "none")
    BY <1>2 DEF RejectedPacket, CallCancel, Enter, Ends, ThreadOf, Ops, LeftOps, RightOps,
       LeftReads, LeftWrites, RightWrites, Sources
  <2>2. d = src
    BY <1>2, TokenAt, OpsSplit, <1>s DEF RejectedPacket, CallCancel, Enter, Sources, UpOps,
       DownOps
  <2>3. UpIs(u)' /\ DownIs("none")'
    BY <1>2, <2>1, <2>2, DownHandled DEF RejectedPacket, CallCancel, Enter, Sources, UpOps,
       DownOps
  <2>4. Consistent(u, "none")'
    BY <1>2, <2>2, <1>b, <1>s DEF RejectedPacket, CallCancel, Enter, Sources, UpOps, DownOps
  <2> QED
    BY <2>3, <2>4, <1>a DEF Ups, Downs, Sources, UpOps, DownOps
<1>3. ASSUME NEW src \in Sources, RightReadFailed(src) PROVE Inv'
  <2>1. Ends(src, "none")
    BY <1>3 DEF RightReadFailed, CallCancel, Enter, Ends, ThreadOf, Ops, LeftOps, RightOps,
       LeftReads, LeftWrites, RightWrites, Sources
  <2>2. d = src
    BY <1>3, TokenAt, OpsSplit, <1>s DEF RightReadFailed, CallCancel, Enter, Sources, UpOps,
       DownOps
  <2>3. UpIs(u)' /\ DownIs("none")'
    BY <1>3, <2>1, <2>2, DownHandled DEF RightReadFailed, CallCancel, Enter, Sources, UpOps,
       DownOps
  <2>4. Consistent(u, "none")'
    BY <1>3, <2>2, <1>b, <1>s DEF RightReadFailed, CallCancel, Enter, Sources, UpOps, DownOps
  <2> QED
    BY <2>3, <2>4, <1>a DEF Ups, Downs, Sources, UpOps, DownOps
<1>4. ASSUME NEW src \in Sources, NEW packet \in {"deny", "timeout", "bad"}, Notice(src, packet) PROVE Inv'
  <2>1. Ends(src, "none")
    BY <1>4 DEF Notice, Expected, CallCancel, Enter, Ends, ThreadOf, Ops, LeftOps, RightOps,
       LeftReads, LeftWrites, RightWrites, Sources
  <2>2. d = src
    BY <1>4, TokenAt, OpsSplit, <1>s DEF Notice, Expected, CallCancel, Enter, Sources,
       UpOps, DownOps
  <2>3. UpIs(u)' /\ DownIs("none")'
    BY <1>4, <2>1, <2>2, DownHandled DEF Notice, Expected, CallCancel, Enter, Sources,
       UpOps, DownOps
  <2>4. Consistent(u, "none")'
    BY <1>4, <2>2, <1>b, <1>s DEF Notice, Expected, CallCancel, Enter, Sources, UpOps, DownOps
  <2> QED
    BY <2>3, <2>4, <1>a DEF Ups, Downs, Sources, UpOps, DownOps
<1>5. ASSUME NEW src \in Sources, HelloReply(src) PROVE Inv'
  <2>1. Ends(src, "exchange_write")
    BY <1>5 DEF HelloReply, Send, Ends, ThreadOf, Ops, LeftOps, RightOps, LeftReads,
       LeftWrites, RightWrites, Sources
  <2>2. d = src /\ u = "none"
    BY <1>5, TokenAt, OpsSplit, <1>s DEF HelloReply, Send, Sources, UpOps, DownOps
  <2>3. UpIs("exchange_write")' /\ DownIs("none")'
    BY <1>5, <2>1, <2>2, DownToUp DEF HelloReply, Send, Sources, UpOps, DownOps
  <2>4. Consistent("exchange_write", "none")'
    BY <1>5, <2>2, <1>b, <1>s DEF HelloReply, Send, Sources, UpOps, DownOps
  <2> QED
    BY <2>3, <2>4, <1>a DEF Ups, Downs, Sources, UpOps, DownOps
<1>6. ASSUME NEW src \in Sources, ServerVerified(src) PROVE Inv'
  <2>1. Ends(src, "step1_read")
    BY <1>6 DEF ServerVerified, Initiate, Ends, ThreadOf, Ops, LeftOps, RightOps, LeftReads,
       LeftWrites, RightWrites, Sources
  <2>2. d = src /\ u = "none"
    BY <1>6, TokenAt, OpsSplit, <1>s DEF ServerVerified, Initiate, Sources, UpOps, DownOps
  <2>3. UpIs("step1_read")' /\ DownIs("none")'
    BY <1>6, <2>1, <2>2, DownToUp DEF ServerVerified, Initiate, Sources, UpOps, DownOps
  <2>4. Consistent("step1_read", "none")'
    BY <1>6, <2>2, <1>b, <1>s DEF ServerVerified, Initiate, Sources, UpOps, DownOps
  <2> QED
    BY <2>3, <2>4, <1>a DEF Ups, Downs, Sources, UpOps, DownOps
<1>7. ASSUME NEW src \in Sources, DataReply(src) PROVE Inv'
  <2>1. Ends(src, "unpack")
    BY <1>7 DEF DataReply, Expected, Enter, Ends, ThreadOf, Ops, LeftOps, RightOps,
       LeftReads, LeftWrites, RightWrites, Sources
  <2>2. d = src
    BY <1>7, TokenAt, OpsSplit, <1>s DEF DataReply, Expected, Enter, Sources, UpOps, DownOps
  <2>3. UpIs(u)' /\ DownIs("unpack")'
    BY <1>7, <2>1, <2>2, DownHandled DEF DataReply, Expected, Enter, Sources, UpOps, DownOps
  <2>4. Consistent(u, "unpack")'
    BY <1>7, <2>2, <1>b, <1>s DEF DataReply, Expected, Enter, Sources, UpOps, DownOps
  <2> QED
    BY <2>3, <2>4, <1>a DEF Ups, Downs, Sources, UpOps, DownOps
<1>8. ASSUME ResolveOk PROVE Inv'
  <2>1. Ends("resolve", "connect")
    BY <1>8 DEF ResolveOk, Initiate, Ends, ThreadOf, Ops, LeftOps, RightOps, LeftReads,
       LeftWrites, RightWrites
  <2>2. u = "resolve"
    BY <1>8, TokenAt, OpsSplit, <1>s DEF ResolveOk, Initiate, UpOps, DownOps
  <2>3. UpIs("connect")' /\ DownIs(d)'
    BY <1>8, <2>1, <2>2, UpHandled DEF ResolveOk, Initiate, UpOps, DownOps
  <2>4. Consistent("connect", d)'
    BY <1>8, <2>2, <1>b, <1>s DEF ResolveOk, Initiate, UpOps, DownOps
  <2> QED
    BY <2>3, <2>4, <1>a DEF Ups, Downs, UpOps, DownOps
<1>9. ASSUME Connected PROVE Inv'
  <2>1. Ends("connect", "hello_write")
    BY <1>9 DEF Connected, Send, Ends, ThreadOf, Ops, LeftOps, RightOps, LeftReads,
       LeftWrites, RightWrites
  <2>2. u = "connect"
    BY <1>9, TokenAt, OpsSplit, <1>s DEF Connected, Send, UpOps, DownOps
  <2>3. UpIs("hello_write")' /\ DownIs(d)'
    BY <1>9, <2>1, <2>2, UpHandled DEF Connected, Send, UpOps, DownOps
  <2>4. Consistent("hello_write", d)'
    BY <1>9, <2>2, <1>b, <1>s DEF Connected, Send, UpOps, DownOps
  <2> QED
    BY <2>3, <2>4, <1>a DEF Ups, Downs, UpOps, DownOps
<1>10. ASSUME ConnectTryNext PROVE Inv'
  <2>1. Ends("connect", "connect")
    BY <1>10 DEF ConnectTryNext, Initiate, Ends, ThreadOf, Ops, LeftOps, RightOps,
       LeftReads, LeftWrites, RightWrites
  <2>2. u = "connect"
    BY <1>10, TokenAt, OpsSplit, <1>s DEF ConnectTryNext, Initiate, UpOps, DownOps
  <2>3. UpIs("connect")' /\ DownIs(d)'
    BY <1>10, <2>1, <2>2, UpHandled DEF ConnectTryNext, Initiate, UpOps, DownOps
  <2>4. Consistent("connect", d)'
    BY <1>10, <2>2, <1>b, <1>s DEF ConnectTryNext, Initiate, UpOps, DownOps
  <2> QED
    BY <2>3, <2>4, <1>a DEF Ups, Downs, UpOps, DownOps
<1>11. ASSUME NEW s \in {"resolve", "connect"}, Failed(s), Unreachable PROVE Inv'
  <2>1. Ends(s, "none")
    BY <1>11 DEF Unreachable, CallCancel, Enter, Ends, ThreadOf, Ops, LeftOps, RightOps,
       LeftReads, LeftWrites, RightWrites
  <2>2. u = s
    BY <1>11, TokenAt, OpsSplit, <1>s DEF Unreachable, CallCancel, Enter, UpOps, DownOps
  <2>3. UpIs("none")' /\ DownIs(d)'
    BY <1>11, <2>1, <2>2, UpHandled DEF Unreachable, CallCancel, Enter, UpOps, DownOps
  <2>4. Consistent("none", d)'
    BY <1>11, <2>2, <1>b, <1>s DEF Unreachable, CallCancel, Enter, UpOps, DownOps
  <2> QED
    BY <2>3, <2>4, <1>a DEF Ups, Downs, UpOps, DownOps
<1>12. ASSUME HelloWritten PROVE Inv'
  <2>1. Ends("hello_write", "right_read")
    BY <1>12 DEF HelloWritten, Initiate, Ends, ThreadOf, Ops, LeftOps, RightOps, LeftReads,
       LeftWrites, RightWrites
  <2>2. u = "hello_write" /\ d = "none"
    BY <1>12, TokenAt, OpsSplit, <1>s DEF HelloWritten, Initiate, UpOps, DownOps
  <2>3. UpIs("none")' /\ DownIs("right_read")'
    BY <1>12, <2>1, <2>2, UpToDown DEF HelloWritten, Initiate, UpOps, DownOps
  <2>4. Consistent("none", "right_read")'
    BY <1>12, <2>2, <1>b, <1>s DEF HelloWritten, Initiate, UpOps, DownOps
  <2> QED
    BY <2>3, <2>4, <1>a DEF Ups, Downs, UpOps, DownOps
<1>13. ASSUME ExchangeWritten PROVE Inv'
  <2>1. Ends("exchange_write", "right_read")
    BY <1>13 DEF ExchangeWritten, Initiate, Ends, ThreadOf, Ops, LeftOps, RightOps,
       LeftReads, LeftWrites, RightWrites
  <2>2. u = "exchange_write" /\ d = "none"
    BY <1>13, TokenAt, OpsSplit, <1>s DEF ExchangeWritten, Initiate, UpOps, DownOps
  <2>3. UpIs("none")' /\ DownIs("right_read")'
    BY <1>13, <2>1, <2>2, UpToDown DEF ExchangeWritten, Initiate, UpOps, DownOps
  <2>4. Consistent("none", "right_read")'
    BY <1>13, <2>2, <1>b, <1>s DEF ExchangeWritten, Initiate, UpOps, DownOps
  <2> QED
    BY <2>3, <2>4, <1>a DEF Ups, Downs, UpOps, DownOps
<1>14. ASSUME NEW s \in RightWrites \ {"final_write"}, Failed(s), RightWriteFailed PROVE Inv'
  <2>1. Ends(s, "none")
    BY <1>14 DEF RightWriteFailed, CallCancel, Enter, Ends, ThreadOf, Ops, LeftOps,
       RightOps, LeftReads, LeftWrites, RightWrites
  <2>2. u = s
    BY <1>14, TokenAt, OpsSplit, <1>s DEF RightWriteFailed, CallCancel, Enter, UpOps,
       DownOps, RightWrites
  <2>3. UpIs("none")' /\ DownIs(d)'
    BY <1>14, <2>1, <2>2, UpHandled DEF RightWriteFailed, CallCancel, Enter, UpOps, DownOps,
       RightWrites
  <2>4. Consistent("none", d)'
    BY <1>14, <2>2, <1>b, <1>s DEF RightWriteFailed, CallCancel, Enter, UpOps, DownOps,
       RightWrites
  <2> QED
    BY <2>3, <2>4, <1>a DEF Ups, Downs, UpOps, DownOps
<1>15. ASSUME Greeted PROVE Inv'
  <2>1. Ends("step1_read", "step1_write")
    BY <1>15 DEF Greeted, Initiate, Ends, ThreadOf, Ops, LeftOps, RightOps, LeftReads,
       LeftWrites, RightWrites
  <2>2. u = "step1_read"
    BY <1>15, TokenAt, OpsSplit, <1>s DEF Greeted, Initiate, UpOps, DownOps
  <2>3. UpIs("step1_write")' /\ DownIs(d)'
    BY <1>15, <2>1, <2>2, UpHandled DEF Greeted, Initiate, UpOps, DownOps
  <2>4. Consistent("step1_write", d)'
    BY <1>15, <2>2, <1>b, <1>s DEF Greeted, Initiate, UpOps, DownOps
  <2> QED
    BY <2>3, <2>4, <1>a DEF Ups, Downs, UpOps, DownOps
<1>16. ASSUME IllegalGreeting PROVE Inv'
  <2>1. Ends("step1_read", "final_write")
    BY <1>16 DEF IllegalGreeting, Send, Ends, ThreadOf, Ops, LeftOps, RightOps, LeftReads,
       LeftWrites, RightWrites
  <2>2. u = "step1_read"
    BY <1>16, TokenAt, OpsSplit, <1>s DEF IllegalGreeting, Send, UpOps, DownOps
  <2>3. UpIs("final_write")' /\ DownIs(d)'
    BY <1>16, <2>1, <2>2, UpHandled DEF IllegalGreeting, Send, UpOps, DownOps
  <2>4. Consistent("final_write", d)'
    BY <1>16, <2>2, <1>b, <1>s DEF IllegalGreeting, Send, UpOps, DownOps
  <2> QED
    BY <2>3, <2>4, <1>a DEF Ups, Downs, UpOps, DownOps
<1>17. ASSUME NEW s \in LeftReads \cup {"step1_write"}, Failed(s), ClientFailed PROVE Inv'
  <2>1. Ends(s, "final_write")
    BY <1>17 DEF ClientFailed, Send, LeftReads, Ends, ThreadOf, Ops, LeftOps, RightOps,
       LeftReads, LeftWrites, RightWrites
  <2>2. u = s
    BY <1>17, TokenAt, OpsSplit, <1>s DEF ClientFailed, Send, LeftReads, UpOps, DownOps
  <2>3. UpIs("final_write")' /\ DownIs(d)'
    BY <1>17, <2>1, <2>2, UpHandled DEF ClientFailed, Send, LeftReads, UpOps, DownOps
  <2>4. Consistent("final_write", d)'
    BY <1>17, <2>2, <1>b, <1>s DEF ClientFailed, Send, LeftReads, UpOps, DownOps
  <2> QED
    BY <2>3, <2>4, <1>a DEF Ups, Downs, UpOps, DownOps
<1>18. ASSUME LeftRead PROVE Inv'
  <2>1. Ends("left_read", "pack")
    BY <1>18 DEF LeftRead, Enter, Ends, ThreadOf, Ops, LeftOps, RightOps, LeftReads,
       LeftWrites, RightWrites
  <2>2. u = "left_read"
    BY <1>18, TokenAt, OpsSplit, <1>s DEF LeftRead, Enter, UpOps, DownOps, LeftOps, LeftReads
  <2>3. UpIs("pack")' /\ DownIs(d)'
    BY <1>18, <2>1, <2>2, UpHandled DEF LeftRead, Enter, UpOps, DownOps, LeftOps, LeftReads
  <2>4. Consistent("pack", d)'
    BY <1>18, <2>2, <1>b, <1>s DEF LeftRead, Enter, UpOps, DownOps, LeftOps, LeftReads
  <2> QED
    BY <2>3, <2>4, <1>a DEF Ups, Downs, UpOps, DownOps
<1>19. ASSUME RightWritten PROVE Inv'
  <2>1. Ends("right_write", "left_read")
    BY <1>19 DEF RightWritten, Initiate, Ends, ThreadOf, Ops, LeftOps, RightOps, LeftReads,
       LeftWrites, RightWrites
  <2>2. u = "right_write"
    BY <1>19, TokenAt, OpsSplit, <1>s DEF RightWritten, Initiate, UpOps, DownOps
  <2>3. UpIs("left_read")' /\ DownIs(d)'
    BY <1>19, <2>1, <2>2, UpHandled DEF RightWritten, Initiate, UpOps, DownOps
  <2>4. Consistent("left_read", d)'
    BY <1>19, <2>2, <1>b, <1>s DEF RightWritten, Initiate, UpOps, DownOps
  <2> QED
    BY <2>3, <2>4, <1>a DEF Ups, Downs, UpOps, DownOps
<1>20. ASSUME LeftWritten PROVE Inv'
  <2>1. Ends("left_write", "right_read")
    BY <1>20 DEF LeftWritten, Initiate, Ends, ThreadOf, Ops, LeftOps, RightOps, LeftReads,
       LeftWrites, RightWrites
  <2>2. d = "left_write"
    BY <1>20, TokenAt, OpsSplit, <1>s DEF LeftWritten, Initiate, UpOps, DownOps
  <2>3. UpIs(u)' /\ DownIs("right_read")'
    BY <1>20, <2>1, <2>2, DownHandled DEF LeftWritten, Initiate, UpOps, DownOps
  <2>4. Consistent(u, "right_read")'
    BY <1>20, <2>2, <1>b, <1>s DEF LeftWritten, Initiate, UpOps, DownOps
  <2> QED
    BY <2>3, <2>4, <1>a DEF Ups, Downs, UpOps, DownOps
<1>21. ASSUME LeftWriteFailed PROVE Inv'
  <2>1. Ends("left_write", "none")
    BY <1>21 DEF LeftWriteFailed, CallCancel, Enter, Ends, ThreadOf, Ops, LeftOps, RightOps,
       LeftReads, LeftWrites, RightWrites
  <2>2. d = "left_write"
    BY <1>21, TokenAt, OpsSplit, <1>s DEF LeftWriteFailed, CallCancel, Enter, UpOps, DownOps
  <2>3. UpIs(u)' /\ DownIs("none")'
    BY <1>21, <2>1, <2>2, DownHandled DEF LeftWriteFailed, CallCancel, Enter, UpOps, DownOps
  <2>4. Consistent(u, "none")'
    BY <1>21, <2>2, <1>b, <1>s DEF LeftWriteFailed, CallCancel, Enter, UpOps, DownOps
  <2> QED
    BY <2>3, <2>4, <1>a DEF Ups, Downs, UpOps, DownOps
<1>22. ASSUME FinalWritten PROVE Inv'
  <2>1. Ends("final_write", "none")
    BY <1>22 DEF FinalWritten, CallCancel, Enter, Ends, ThreadOf, Ops, LeftOps, RightOps,
       LeftReads, LeftWrites, RightWrites
  <2>2. u = "final_write"
    BY <1>22, TokenAt, OpsSplit, <1>s DEF FinalWritten, CallCancel, Enter, UpOps, DownOps
  <2>3. UpIs("none")' /\ DownIs(d)'
    BY <1>22, <2>1, <2>2, UpHandled DEF FinalWritten, CallCancel, Enter, UpOps, DownOps
  <2>4. Consistent("none", d)'
    BY <1>22, <2>2, <1>b, <1>s DEF FinalWritten, CallCancel, Enter, UpOps, DownOps
  <2> QED
    BY <2>3, <2>4, <1>a DEF Ups, Downs, UpOps, DownOps
<1>23. ASSUME GreetingAnswered PROVE Inv'
  <2>1. u = "step1_write" /\ d = "none"
    BY <1>23, TokenAt, OpsSplit DEF GreetingAnswered, UpOps
  <2>2. /\ \A x \in UpOps : Out(x)' = Gain(x, "left_read")
        /\ \A x \in DownOps : Out(x)' = Gain(x, "right_read")
    BY <1>23, <2>1 DEF GreetingAnswered, Completed, TypeOK, UpIs, DownIs, Out, Gain, UpOps,
       DownOps,
       Ops, LeftOps, RightOps, LeftReads, LeftWrites, RightWrites
  <2>3. UpIs("left_read")' /\ DownIs("right_read")'
    BY <1>23, <2>1, <2>2 DEF GreetingAnswered, UpIs, DownIs
  <2>4. Consistent("left_read", "right_read")'
    BY <1>23, <2>1, <1>b DEF GreetingAnswered
  <2> QED
    BY <2>3, <2>4, <1>a DEF Ups, Downs, UpOps, DownOps
<1>24. ASSUME NEW t \in Threads, pack_data(t) PROVE Inv'
  <2>1. t = "left" /\ u = "pack"
    BY <1>24 DEF pack_data, UpIs, Threads
  <2>2. \A x \in Ops : Out(x)' = Out(x) + Gain(x, "right_write")
    BY <1>24, Grows DEF pack_data, Ops, RightOps, RightWrites
  <2>3. UpIs("right_write")' /\ DownIs(d)'
    BY <1>24, <2>1, <2>2, OpsSplit DEF pack_data, TypeOK, UpIs, DownIs, Threads, Gain,
       UpOps, DownOps
  <2>4. Consistent("right_write", d)'
    BY <1>24, <2>1, <1>b DEF pack_data, CreateEncryptor
  <2> QED
    BY <2>3, <2>4, <1>a DEF Ups, UpOps
<1>25. ASSUME NEW t \in Threads, unpack_reply_data(t) PROVE Inv'
  <2>1. PICK write \in {"left_write", "cont_write"} : pend' = [pend EXCEPT ![write] = @ + 1]
    BY <1>25 DEF unpack_reply_data
  <2>2. d = "unpack"
    BY <1>25 DEF unpack_reply_data, DownIs, Threads
  <2>3. \A x \in Ops : Out(x)' = Out(x) + Gain(x, write)
    BY <1>25, <2>1, Grows DEF unpack_reply_data, Ops, LeftOps, LeftWrites
  <2>4. UpIs(u)' /\ DownIs(write)'
    BY <1>25, <2>2, <2>3, OpsSplit
       DEF unpack_reply_data, TypeOK, UpIs, DownIs, Threads, Gain, UpOps, DownOps
  <2>5. Consistent(u, write)'
    BY <1>25, <2>2, <1>b DEF unpack_reply_data, CreateEncryptor
  <2> QED
    BY <2>4, <2>5, <1>a DEF Downs, DownOps
<1>26. ASSUME NEW t \in Threads, CancelLeft(t) \/ CancelRight(t) PROVE Inv'
  <2>1. \E aborted : Abort(aborted)
    BY <1>26 DEF CancelLeft, CancelRight
  <2>2. \A o \in Threads : pc'[o] = pc[o] \/ (pc[o] \notin Packing /\ pc'[o] \notin Packing)
    BY <1>26 DEF CancelLeft, CancelRight, TypeOK, Packing
  <2>3. UpIs(u)' /\ DownIs(d)'
    BY <2>1, <2>2, TokensStay
  <2>4. Consistent(u, d)'
    BY <1>26, <1>b DEF CancelLeft, CancelRight
  <2> QED
    BY <2>3, <2>4, <1>a
<1>27. ASSUME start PROVE Inv'
  <2>1. u = "none" /\ d = "none"
    BY <1>27 DEF start
  <2>2. CASE Initiate("resolve")
    <3>1. /\ \A x \in UpOps : Out(x)' = Gain(x, "resolve")
          /\ \A x \in DownOps : Out(x)' = Gain(x, "none")
      BY <1>27, <2>1, <2>2 DEF start, Initiate, TypeOK, UpIs, DownIs, Out, Gain, UpOps, DownOps,
         Ops, LeftOps, RightOps, LeftReads, LeftWrites, RightWrites
    <3>2. UpIs("resolve")' /\ DownIs("none")'
      BY <2>1, <2>2, <3>1 DEF Initiate, UpIs, DownIs
    <3>3. Consistent("resolve", "none")'
      BY <1>27, <2>1, <2>2, <1>b DEF start, Initiate
    <3> QED
      BY <3>2, <3>3, <1>a DEF Ups, Downs, UpOps
  <2>3. CASE UNCHANGED <<pend, pc, sent>>
    <3>1. UpIs(u)' /\ DownIs(d)'
      BY <1>27, <2>3, TokensStay DEF start, ops
    <3>2. Consistent(u, d)'
      BY <1>27, <2>1, <2>3, <1>b DEF start
    <3> QED
      BY <3>1, <3>2, <1>a
  <2> QED
    BY <1>27, <2>2, <2>3 DEF start
<1>28. ASSUME RaceCrash PROVE Inv'
  <2>1. UpIs("none")' /\ DownIs("none")'
    BY <1>28, OpsSplit DEF RaceCrash, Crash, UpIs, DownIs, Out, Gain, Threads, UpOps, DownOps
  <2>2. Consistent("none", "none")'
    BY <1>28 DEF RaceCrash, Crash
  <2> QED
    BY <2>1, <2>2, <1>a DEF Ups, Downs
<1>29. ASSUME (\E s \in Ops : Complete(s)) \/ PeerLeaves \/ UNCHANGED vars PROVE Inv'
  <2>1. pc' = pc /\ (UNCHANGED ops \/ \E s \in Ops : Complete(s))
    BY <1>29 DEF Complete, CompleteOk, CompleteErr, PeerLeaves, vars, ops
  <2>2. UpIs(u)' /\ DownIs(d)'
    BY <2>1, TokensStay
  <2>3. UNCHANGED <<life, status, aes_encryptor, sent, heard>>
    BY <1>29 DEF Complete, CompleteOk, CompleteErr, PeerLeaves, vars
  <2>4. Consistent(u, d)'
    BY <2>3
  <2> QED
    BY <2>2, <2>4, <1>a
<1>c. Unreachable => \E s \in {"resolve", "connect"} : Failed(s)
  BY DEF Unreachable
<1>d. RightWriteFailed => \E s \in RightWrites \ {"final_write"} : Failed(s)
  BY DEF RightWriteFailed
<1>e. ClientFailed => \E s \in LeftReads \cup {"step1_write"} : Failed(s)
  BY DEF ClientFailed
<1> QED
  BY <1>1, <1>2, <1>3, <1>4, <1>5, <1>6, <1>7, <1>8, <1>9, <1>10, <1>11, <1>12, <1>13,
     <1>14, <1>15, <1>16, <1>17, <1>18, <1>19, <1>20, <1>21, <1>22, <1>23, <1>24, <1>25,
     <1>26, <1>27, <1>28, <1>29, <1>c, <1>d, <1>e DEF Next, LeftThread, RightThread,
     right_read_handler, InProgress, Sources, Threads

LEMMA InvInit == Init => Inv
<1> SUFFICES ASSUME Init PROVE UpIs("none") /\ DownIs("none") /\ Consistent("none", "none")
  BY DEF Inv, Ups, Downs
<1>1. \A x \in Ops : Out(x) = 0
  BY DEF Init, Out
<1>2. pc["left"] = "idle" /\ pc["right"] = "idle"
  BY DEF Init, Threads
<1>3. UpIs("none") /\ DownIs("none")
  BY <1>1, <1>2, OpsSplit DEF UpIs, DownIs, Gain, UpOps, DownOps
<1>4. Consistent("none", "none")
  BY DEF Init, Consistent, HandshakeInv, PacketsInv, ExpectedInv
<1> QED
  BY <1>3, <1>4

-----------------------------------------------------------------------------
(* The theorems.                                                           *)

\* Types, for every number of addresses and any server.
THEOREM LocalTypes == Spec => []TypeOK
<1>1. TypeOK /\ [Next]_vars => TypeOK'
  BY TypeNext
<1> QED
  BY TypeInit, <1>1, PTL DEF Spec

\* The tokens of a local session are always in a consistent pair of places.
THEOREM LocalInvariance == Spec => []Inv
<1>1. TypeOK /\ Inv /\ [Next]_vars => Inv'
  BY InvNext
<1> QED
  BY InvInit, LocalTypes, <1>1, PTL DEF Spec

\* Whatever the server sends and whenever the threads call cancel(), no socket
\* has two reads or two writes outstanding; bad never overlaps a data packet.
THEOREM OnePerStream == Spec => []OneOperationPerStream
<1>1. TypeOK /\ Inv => OneOperationPerStream
  <2> SUFFICES ASSUME TypeOK, NEW u \in Ups, NEW d \in Downs,
                      UpIs(u), DownIs(d), Consistent(u, d)
               PROVE  OneOperationPerStream
    BY DEF Inv
  <2>1. In("pack") = Gain("pack", u)
    BY DEF In, UpIs, Gain
  <2>2. In("unpack") = Gain("unpack", d)
    BY DEF In, DownIs, Gain
  <2>3. \A x \in UpOps : Out(x) = Gain(x, u)
    BY DEF UpIs
  <2>4. \A x \in DownOps : Out(x) = Gain(x, d)
    BY DEF DownIs
  <2>5. Out("step1_read") + Out("left_read") + In("pack") <= 1
    BY <2>1, <2>3 DEF Gain, UpOps
  <2>6. Out("right_read") + In("unpack") <= 1
    BY <2>2, <2>4 DEF Gain, DownOps
  <2>7. Out("hello_write") + Out("exchange_write") + Out("right_write") + Out("final_write") <= 1
    BY <2>3 DEF Gain, UpOps
  <2>8. Out("step1_write") + Out("left_write") + Out("cont_write") <= 1
    BY <2>3, <2>4 DEF Gain, UpOps, DownOps, Consistent, HandshakeInv
  <2> QED
    BY <2>5, <2>6, <2>7, <2>8 DEF OneOperationPerStream
<1> QED
  BY <1>1, LocalTypes, LocalInvariance, PTL

\* The client is neither read nor answered before the server has returned the
\* random number, whatever a server sends instead.
THEOREM VerifiedFirst == Spec => []NothingBeforeVerified
<1>1. TypeOK /\ Inv => NothingBeforeVerified
  <2> SUFFICES ASSUME TypeOK, NEW u \in Ups, NEW d \in Downs,
                      UpIs(u), DownIs(d), Consistent(u, d),
                      \/ status = "data"
                      \/ \E s \in LeftOps \cup {"right_write", "final_write"} : Out(s) > 0
               PROVE  {"hello", "exchange"} \subseteq sent /\ "exchange" \in heard
    BY DEF Inv, NothingBeforeVerified
  <2>1. ASSUME NEW s \in LeftOps \cup {"right_write", "final_write"}, Out(s) > 0
        PROVE  u = s \/ d = s
    BY <2>1 DEF UpIs, DownIs, Gain, UpOps, DownOps, LeftOps, LeftReads, LeftWrites
  <2>2. status = "data"
    BY <2>1 DEF Consistent, HandshakeInv, TypeOK, LeftOps, LeftReads, LeftWrites
  <2> QED
    BY <2>2 DEF Consistent, PacketsInv
<1> QED
  BY <1>1, LocalTypes, LocalInvariance, PTL

\* Behind the bad packet nothing of the client is read or forwarded.
THEOREM BadLast == Spec => []BadIsLast
<1>1. Inv => BadIsLast
  BY DEF Inv, BadIsLast, UpIs, Consistent, PacketsInv, Gain, UpOps, RightWrites, LeftReads
<1> QED
  BY <1>1, LocalInvariance, PTL

\* While the server has sent nothing lssserver would not, the creation of
\* aes_encryptor is not a race: a data packet is unpacked only when one was packed.
THEOREM EncryptorSafe == Spec => []EncryptorNotRaced
<1>1. Inv => EncryptorNotRaced
  BY DEF Inv, EncryptorNotRaced, Raced, Packing, Threads, UpIs, DownIs,
         Consistent, PacketsInv, ExpectedInv
<1> QED
  BY <1>1, LocalInvariance, PTL

\* A session that lssserver denies has nothing left to run.
THEOREM DenyLast == Spec => []DenyIsFinal
<1>1. Inv => DenyIsFinal
  BY OpsSplit DEF Inv, DenyIsFinal, UpIs, DownIs, Consistent, ExpectedInv, Gain, UpOps, DownOps
<1> QED
  BY <1>1, LocalInvariance, PTL

-----------------------------------------------------------------------------
(* The handshake is sequential, and ends when the server is gone.          *)

\* All that is outstanding is s: an operation, cancel() on the right thread
\* ("cancel"), or nothing ("none").
OnlyThis(s) ==
    /\ \A x \in Ops : Out(x) = Gain(x, s)
    /\ pc["left"] = "idle"
    /\ IF s = "cancel" THEN pc["right"] \in {"cancel_left", "cancel_right"} ELSE pc["right"] = "idle"

Exchanges  == {"hello_write", "exchange_write", "right_read"}
Handshakes == Exchanges \cup {"resolve", "connect"}
SequentialInv ==
    /\ gone # {} => life # "new"
    /\ status # "data" => \/ life \in {"new", "destroyed"} /\ OnlyThis("none")
                          \/ life = "live" /\ \E s \in Handshakes \cup {"cancel"} : OnlyThis(s)

\* Where operation s is, and cancel().
Waiting(s)     == life = "live" /\ OnlyThis(s) /\ pend[s] > 0
Through(s)     == life = "live" /\ OnlyThis(s) /\ ok[s] > 0
Broken(s)      == life = "live" /\ OnlyThis(s) /\ err[s] > 0
Cancels(place) == life = "live" /\ OnlyThis("cancel") /\ pc["right"] = place
Freed          == life = "destroyed" /\ OnlyThis("none")

LEMMA HandshakeOps ==
  /\ Handshakes \subseteq RightOps /\ RightOps \subseteq Ops /\ Handshakes \subseteq Ops
  /\ \A f \in {"none", "cancel"} : f \notin Ops
  BY DEF Handshakes, Exchanges, Ops, LeftOps, RightOps, LeftReads, LeftWrites, RightWrites

\* Only the handler of s can run, and the left thread has nothing to run.
LEMMA OnlyItsHandler ==
  ASSUME TypeOK, NEW s \in Handshakes \cup {"cancel", "none"}, OnlyThis(s)
  PROVE  /\ \A x \in Ops : Completed(x) \/ Failed(x) => x = s
         /\ ~ LeftThread
         /\ ~ RaceCrash
<1>1. \A x \in Ops : Completed(x) \/ Failed(x) => x = s
  BY DEF TypeOK, OnlyThis, Out, Gain, Completed, Failed
<1>2. \A x \in LeftOps : ~ Completed(x) /\ ~ Failed(x)
  BY <1>1 DEF Handshakes, Exchanges, Ops, LeftOps, LeftReads, LeftWrites
<1>3. ~ right_read_handler("cont_write")
  BY <1>2 DEF right_read_handler, IncompletePacket, RejectedPacket, RightReadFailed, Notice,
        HelloReply, ServerVerified, DataReply, LeftOps, LeftWrites
<1>4. ~ InProgress("left")
  BY DEF OnlyThis, InProgress, pack_data, unpack_reply_data, CancelLeft, CancelRight
<1>5. ~ LeftThread
  BY <1>2, <1>3, <1>4 DEF LeftThread, Greeted, IllegalGreeting, GreetingAnswered, ClientFailed,
        LeftRead, LeftWritten, LeftWriteFailed, LeftOps, LeftReads, LeftWrites
<1>6. ~ RaceCrash
  BY DEF OnlyThis, RaceCrash, Raced, Packing, Threads
<1> QED
  BY <1>1, <1>5, <1>6

\* A handler leaves what it initiates, which is waiting, or cancel().
LEMMA OnlyMoves ==
  ASSUME TypeOK, NEW s \in Handshakes, OnlyThis(s), Completed(s) \/ Failed(s),
         NEW r \in Handshakes \cup {"none"}, Ends(s, r), Return
  PROVE  IF r = "none" THEN Cancels("cancel_left")' ELSE Waiting(r)'
<1> USE HandshakeOps
<1>1. /\ \A x \in Ops : Out(x)' = Gain(x, r)
      /\ pend[s] = 0
  <2>1. \A x \in Ops : Out(x)' = Out(x) - Gain(x, s) + Gain(x, r)
    BY OutMoves DEF Places
  <2>2. \A x \in Ops : Out(x)' = Gain(x, r)
    BY <2>1 DEF OnlyThis, Gain
  <2>3. Out(s) = 1
    BY DEF OnlyThis, Gain
  <2>4. pend[s] = 0
    BY <2>3 DEF TypeOK, Out, Completed, Failed
  <2> QED
    BY <2>2, <2>4
<1>2. ThreadOf(s) = "right" /\ "right" \in Threads
  BY DEF ThreadOf, Handshakes, Exchanges, LeftOps, LeftReads, LeftWrites, Threads
<1>3. CASE r # "none"
  <2>1. pend' = [pend EXCEPT ![r] = @ + 1] /\ pc' = pc
    BY <1>3 DEF Ends, Handshakes, Exchanges
  <2>2. OnlyThis(r)'
    BY <1>1, <1>3, <2>1 DEF OnlyThis
  <2>3. pend'[r] > 0
    BY <1>3, <2>1 DEF TypeOK
  <2>4. ~ Released'
    BY <1>1, <1>3 DEF Released, Gain
  <2> QED
    BY <1>3, <2>2, <2>3, <2>4 DEF Return, Waiting
<1>4. CASE r = "none"
  <2>1. pc' = [pc EXCEPT !["right"] = "cancel_left"]
    BY <1>2, <1>4 DEF Ends, CallCancel, Enter
  <2>2. pc'["right"] = "cancel_left" /\ pc'["left"] = pc["left"]
    BY <2>1 DEF TypeOK, Threads
  <2>3. OnlyThis("cancel")'
    BY <1>1, <1>4, <2>2 DEF OnlyThis, Gain
  <2>4. ~ Released'
    BY <1>2, <2>2 DEF Released
  <2> QED
    BY <1>4, <2>2, <2>3, <2>4 DEF Return, Cancels
<1> QED
  BY <1>3, <1>4

\* What the right thread does in the handshake.
RightMoves(s) ==
    \/ s = "resolve" /\ Through(s) /\ Waiting("connect")'
    \/ s = "connect" /\ Through(s) /\ Waiting("hello_write")'
    \/ /\ s = "connect" /\ Broken(s) /\ Waiting(s)'
       /\ endpoints > 0 /\ endpoints' = endpoints - 1
    \/ s \in Exchanges /\ Through(s) /\ \E r \in Exchanges : Waiting(r)'
    \/ s \in Handshakes /\ (Through(s) \/ Broken(s)) /\ Cancels("cancel_left")'
    \/ Cancels("cancel_left") /\ Cancels("cancel_right")'
    \/ Cancels("cancel_right") /\ Freed'

LEMMA RightThreadMoves ==
  ASSUME TypeOK, life = "live", status # "data", status' # "data",
         NEW s \in Handshakes \cup {"cancel"}, OnlyThis(s), RightThread
  PROVE  RightMoves(s)
<1> USE HandshakeOps
<1>a. \A x \in Ops : Completed(x) \/ Failed(x) => x = s
  BY OnlyItsHandler
<1>b. ASSUME NEW x \in Ops, Completed(x) \/ Failed(x)
      PROVE  x = s /\ s \in Handshakes /\ (Completed(s) => Through(s)) /\ (Failed(s) => Broken(s))
  BY <1>a, <1>b DEF Completed, Failed, Through, Broken
<1>1. ASSUME ResolveOk PROVE RightMoves(s)
  <2>1. s = "resolve" /\ Through(s)
    BY <1>1, <1>b DEF ResolveOk, Handshakes
  <2>2. Waiting("connect")'
    BY <1>1, <2>1, OnlyMoves DEF ResolveOk, Initiate, Ends, Handshakes
  <2> QED
    BY <2>1, <2>2 DEF RightMoves
<1>2. ASSUME Connected PROVE RightMoves(s)
  <2>1. s = "connect" /\ Through(s)
    BY <1>2, <1>b DEF Connected, Handshakes
  <2>2. Waiting("hello_write")'
    BY <1>2, <2>1, OnlyMoves DEF Connected, Send, Ends, Handshakes, Exchanges
  <2> QED
    BY <2>1, <2>2 DEF RightMoves
<1>3. ASSUME ConnectTryNext PROVE RightMoves(s)
  <2>1. s = "connect" /\ Broken(s)
    BY <1>3, <1>b DEF ConnectTryNext, Handshakes
  <2>2. Waiting("connect")'
    BY <1>3, <2>1, OnlyMoves DEF ConnectTryNext, Initiate, Ends, Handshakes
  <2> QED
    BY <1>3, <2>1, <2>2 DEF RightMoves, ConnectTryNext
<1>c. ASSUME NEW x \in Ops, Completed(x) \/ Failed(x), CallCancel(ThreadOf(x)), Return
      PROVE  RightMoves(s)
  <2>1. x = s /\ s \in Handshakes /\ (Through(s) \/ Broken(s))
    BY <1>b, <1>c
  <2>2. Cancels("cancel_left")'
    BY <1>c, <2>1, OnlyMoves DEF Ends
  <2> QED
    BY <2>1, <2>2 DEF RightMoves
<1>d. ASSUME NEW x \in Ops, Completed(x), x \in Exchanges, NEW r \in Exchanges, Ends(x, r), Return
      PROVE  RightMoves(s)
  <2>1. x = s /\ s \in Handshakes /\ Through(s)
    BY <1>b, <1>d
  <2>2. Waiting(r)'
    BY <1>d, <2>1, OnlyMoves DEF Handshakes, Exchanges
  <2> QED
    BY <1>d, <2>1, <2>2 DEF RightMoves
<1>4. ASSUME Unreachable \/ RightWriteFailed \/ FinalWritten PROVE RightMoves(s)
  <2>1. PICK x \in Ops \cap RightOps : (Completed(x) \/ Failed(x)) /\ CallCancel("right") /\ Return
    BY <1>4 DEF Unreachable, RightWriteFailed, FinalWritten, Handled, Ops, RightOps, RightWrites
  <2>2. ThreadOf(x) = "right"
    BY <2>1 DEF ThreadOf, LeftOps, LeftReads, LeftWrites, RightOps, RightWrites
  <2> QED
    BY <1>c, <2>1, <2>2
<1>5. ASSUME HelloWritten \/ ExchangeWritten PROVE RightMoves(s)
  BY <1>5, <1>d DEF HelloWritten, ExchangeWritten, Initiate, Ends, Handled, Handshakes, Exchanges
<1>6. ASSUME right_read_handler("right_read") PROVE RightMoves(s)
  <2> "right_read" \in Ops /\ "right_read" \in Exchanges
    BY DEF Ops, RightOps, Exchanges
  <2>1. ASSUME IncompletePacket("right_read") \/ HelloReply("right_read") PROVE RightMoves(s)
    BY <2>1, <1>d DEF IncompletePacket, HelloReply, Initiate, Send, Ends, Handled, Handshakes,
          Exchanges
  <2>2. ASSUME RejectedPacket("right_read") \/ RightReadFailed("right_read") PROVE RightMoves(s)
    BY <2>2, <1>c DEF RejectedPacket, RightReadFailed, Handled
  <2>3. ASSUME NEW packet \in {"deny", "timeout", "bad"}, Notice("right_read", packet)
        PROVE  RightMoves(s)
    BY <2>3, <1>c DEF Notice, Handled
  <2>4. ~ ServerVerified("right_read") /\ ~ DataReply("right_read")
    BY DEF ServerVerified, DataReply
  <2> QED
    BY <1>6, <2>1, <2>2, <2>3, <2>4 DEF right_read_handler
<1>7. ~ RightWritten
  <2>1. "right_write" \in Ops /\ "right_write" \notin Handshakes \cup {"cancel"}
    BY DEF Ops, RightOps, RightWrites, Handshakes, Exchanges
  <2> QED
    BY <1>a, <2>1 DEF RightWritten
<1>8. ASSUME InProgress("right") PROVE RightMoves(s)
  <2>1. s = "cancel"
    BY <1>8 DEF OnlyThis, InProgress, pack_data, unpack_reply_data, CancelLeft, CancelRight
  <2>2. \A x \in Ops : Out(x)' = 0
    <3>1. \E aborted : Abort(aborted)
      BY <1>8, <2>1 DEF OnlyThis, InProgress, pack_data, unpack_reply_data, CancelLeft, CancelRight
    <3> QED
      BY <2>1, <3>1 DEF OnlyThis, Gain, TypeOK, Abort, Out
  <2>3. CASE CancelLeft("right")
    <3>1. Cancels("cancel_left") /\ pc'["right"] = "cancel_right" /\ pc'["left"] = "idle" /\ Return
      BY <2>1, <2>3 DEF CancelLeft, Handled, Cancels, OnlyThis, TypeOK, Threads
    <3>2. ~ Released'
      BY <3>1 DEF Released, Threads
    <3>3. Cancels("cancel_right")'
      BY <2>2, <3>1, <3>2 DEF Return, Cancels, OnlyThis, Gain
    <3> QED
      BY <3>1, <3>3 DEF RightMoves
  <2>4. CASE CancelRight("right")
    <3>1. Cancels("cancel_right") /\ pc'["right"] = "idle" /\ pc'["left"] = "idle" /\ Return
      BY <2>1, <2>4 DEF CancelRight, Handled, Cancels, OnlyThis, TypeOK, Threads
    <3>2. Released'
      BY <2>2, <3>1 DEF Released, Threads
    <3>3. Freed'
      BY <2>2, <3>1, <3>2 DEF Return, Freed, OnlyThis, Gain
    <3> QED
      BY <3>1, <3>3 DEF RightMoves
  <2> QED
    BY <1>8, <2>1, <2>3, <2>4 DEF OnlyThis, InProgress, pack_data, unpack_reply_data
<1> QED
  BY <1>1, <1>2, <1>3, <1>4, <1>5, <1>6, <1>7, <1>8, Zenon DEF RightThread

\* Completions and cancel() leave operation s the only one.
LEMMA OnlyStays ==
  ASSUME TypeOK, NEW s \in Handshakes \cup {"cancel", "none"}, OnlyThis(s), pc' = pc,
         UNCHANGED ops \/ \E x \in Ops : Complete(x)
  PROVE  OnlyThis(s)'
<1>1. \A x \in Ops : Out(x)' = Out(x)
  <2>1. CASE UNCHANGED ops
    BY <2>1 DEF ops, Out
  <2>2. CASE \E x \in Ops : Complete(x)
    BY <2>2 DEF TypeOK, Out, Complete, CompleteOk, CompleteErr
  <2> QED
    BY <2>1, <2>2
<1> QED
  BY <1>1 DEF OnlyThis

\* Once the server is verified there is no way back to the handshake.
LEMMA DataStays == ASSUME TypeOK, Inv, [Next]_vars, status = "data" PROVE status' = "data"
<1>1. PICK u \in Ups, d \in Downs : UpIs(u) /\ DownIs(d) /\ Consistent(u, d)
  BY DEF Inv
<1>2. ~ Connected /\ ~ HelloWritten /\ ~ ExchangeWritten
  <2>1. \A s \in {"connect", "hello_write", "exchange_write"} : ~ Completed(s)
    BY <1>1, TokenAt, HandshakeOps DEF Consistent, HandshakeInv, Handshakes, Exchanges, UpOps
  <2> QED
    BY <2>1 DEF Connected, HelloWritten, ExchangeWritten
<1>3. ASSUME NEW src \in Sources, right_read_handler(src) PROVE status' = "data"
  BY <1>3 DEF right_read_handler, IncompletePacket, RejectedPacket, RightReadFailed, Notice,
        HelloReply, ServerVerified, DataReply
<1>4. ASSUME NEW t \in Threads, InProgress(t) PROVE status' = "data"
  BY <1>4 DEF InProgress, pack_data, unpack_reply_data, CancelLeft, CancelRight
<1>5. ASSUME LeftThread PROVE status' = "data"
  BY <1>3, <1>4, <1>5 DEF LeftThread, Sources, Threads, Greeted, IllegalGreeting,
        GreetingAnswered, ClientFailed, LeftRead, LeftWritten, LeftWriteFailed
<1>6. ASSUME RightThread PROVE status' = "data"
  BY <1>2, <1>3, <1>4, <1>6 DEF RightThread, Sources, Threads, ResolveOk, ConnectTryNext,
        Unreachable, RightWriteFailed, RightWritten, FinalWritten
<1>7. ASSUME start \/ RaceCrash \/ PeerLeaves \/ (\E s \in Ops : Complete(s)) \/ UNCHANGED vars
      PROVE  status' = "data"
  BY <1>7 DEF start, RaceCrash, Crash, PeerLeaves, Complete, CompleteOk, CompleteErr, vars
<1> QED
  BY <1>5, <1>6, <1>7 DEF Next

\* Every handler ends like one.
LEMMA Returns == start \/ LeftThread \/ RightThread => Return
<1> USE DEF Handled
<1>1. ASSUME NEW src \in Sources, right_read_handler(src) PROVE Return
  BY <1>1 DEF right_read_handler, IncompletePacket, RejectedPacket, RightReadFailed, Notice,
        HelloReply, ServerVerified, DataReply
<1>2. ASSUME NEW t \in Threads, InProgress(t) PROVE Return
  BY <1>2 DEF InProgress, pack_data, unpack_reply_data, CancelLeft, CancelRight
<1>3. ASSUME LeftThread PROVE Return
  BY <1>1, <1>2, <1>3 DEF LeftThread, Sources, Threads, Greeted, IllegalGreeting,
        GreetingAnswered, ClientFailed, LeftRead, LeftWritten, LeftWriteFailed
<1>4. ASSUME RightThread PROVE Return
  BY <1>1, <1>2, <1>4 DEF RightThread, Sources, Threads, ResolveOk, Connected, ConnectTryNext,
        Unreachable, HelloWritten, ExchangeWritten, RightWriteFailed, RightWritten, FinalWritten
<1> QED
  BY <1>3, <1>4 DEF start

\* A step of the environment.
Apart == PeerLeaves \/ UNCHANGED vars

LEMMA SequentialNext == ASSUME TypeOK, Inv, SequentialInv, [Next]_vars PROVE SequentialInv'
<1> USE HandshakeOps
<1>1. gone' # {} => life' # "new"
  <2>1. Return => life' # "new"
    BY DEF Return
  <2>2. RaceCrash => life' # "new"
    BY DEF RaceCrash, Crash
  <2>3. PeerLeaves => life' # "new"
    BY DEF PeerLeaves
  <2>4. (\E x \in Ops : Complete(x)) \/ UNCHANGED vars => UNCHANGED <<life, gone>>
    BY DEF Complete, CompleteOk, CompleteErr, vars
  <2> QED
    BY <2>1, <2>2, <2>3, <2>4, Returns DEF Next, SequentialInv
<1>2. ASSUME status # "data", status' # "data"
      PROVE  \/ life' \in {"new", "destroyed"} /\ OnlyThis("none")'
             \/ life' = "live" /\ \E r \in Handshakes \cup {"cancel"} : OnlyThis(r)'
  <2>1. PICK s \in Handshakes \cup {"cancel", "none"} :
          /\ OnlyThis(s)
          /\ IF s = "none" THEN life \in {"new", "destroyed"} ELSE life = "live"
    BY <1>2 DEF SequentialInv
  <2>2. ~ LeftThread /\ ~ RaceCrash
    BY <2>1, OnlyItsHandler
  <2>3. CASE RightThread
    <3>1. s # "none"
      <4>1. ASSUME s = "none" PROVE \A x \in Ops : ~ Completed(x) /\ ~ Failed(x)
        BY <2>1, <4>1, OnlyItsHandler
      <4>2. ASSUME s = "none" PROVE ~ InProgress("right") /\ ~ right_read_handler("right_read")
        BY <2>1, <4>1, <4>2 DEF OnlyThis, InProgress, pack_data, unpack_reply_data, CancelLeft,
              CancelRight, right_read_handler, IncompletePacket, RejectedPacket, RightReadFailed,
              Notice, HelloReply, ServerVerified, DataReply, Handshakes, Exchanges
      <4> QED
        BY <2>3, <4>1, <4>2 DEF RightThread, ResolveOk, Connected, ConnectTryNext, Unreachable,
              HelloWritten, ExchangeWritten, RightWriteFailed, RightWritten, FinalWritten,
              RightWrites, Ops, RightOps
    <3>2. RightMoves(s)
      BY <1>2, <2>1, <2>3, <3>1, RightThreadMoves
    <3> QED
      BY <3>2 DEF RightMoves, Waiting, Cancels, Freed, Handshakes, Exchanges
  <2>4. CASE start
    <3>1. s = "none"
      BY <2>1, <2>4 DEF start
    <3>2. CASE Initiate("resolve")
      <4>1. \A x \in Ops : Out(x)' = Gain(x, "resolve")
        BY <2>1, <2>4, <3>1, <3>2 DEF OnlyThis, start, Initiate, Out, Gain, TypeOK
      <4>2. pc' = pc /\ ~ Released'
        BY <3>2, <4>1 DEF Initiate, Released, Gain, Handshakes
      <4>3. OnlyThis("resolve")' /\ life' = "live"
        BY <2>1, <2>4, <3>1, <4>1, <4>2 DEF OnlyThis, start, Return
      <4> QED
        BY <4>3 DEF Handshakes
    <3>3. CASE UNCHANGED <<pend, pc, sent>>
      <4>1. OnlyThis("none")'
        BY <2>1, <2>4, <3>1, <3>3, OnlyStays DEF start, ops
      <4>2. Released'
        BY <4>1 DEF OnlyThis, Released, Gain, Threads
      <4> QED
        BY <2>4, <4>1, <4>2 DEF start, Return
    <3> QED
      BY <2>4, <3>2, <3>3 DEF start
  <2>5. CASE Apart \/ \E x \in Ops : Complete(x)
    <3>1. pc' = pc /\ life' = life /\ (UNCHANGED ops \/ \E x \in Ops : Complete(x))
      BY <2>5 DEF Apart, PeerLeaves, Complete, CompleteOk, CompleteErr, vars, ops
    <3>2. OnlyThis(s)'
      BY <2>1, <3>1, OnlyStays
    <3> QED
      BY <2>1, <3>1, <3>2
  <2> QED
    BY <2>2, <2>3, <2>4, <2>5, Zenon DEF Next, Apart
<1> QED
  BY <1>1, <1>2, DataStays DEF SequentialInv

LEMMA SequentialAlways == Spec => []SequentialInv
<1>1. Init => SequentialInv
  BY HandshakeOps DEF Init, SequentialInv, OnlyThis, Gain, Out, Threads
<1>2. TypeOK /\ Inv /\ SequentialInv /\ [Next]_vars => SequentialInv'
  BY SequentialNext
<1> QED
  BY <1>1, <1>2, LocalTypes, LocalInvariance, PTL DEF Spec

\* The stages of a handshake whose server is gone.
Safe     == TypeOK /\ Inv /\ SequentialInv
Lost     == "right" \in gone /\ status # "data"
Ended    == status = "data" \/ life = "destroyed"
Waits(s) == Lost /\ Waiting(s)
Passed   == Lost /\ \E s \in Exchanges : Through(s)
Fails    == Lost /\ \E s \in Exchanges : Broken(s)
Closes   == Lost /\ Cancels("cancel_left")
Closing  == Lost /\ Cancels("cancel_right")
Linked   == Lost /\ Through("connect")
Looked   == Lost /\ (Through("resolve") \/ Broken("resolve"))
Tried(n) == Lost /\ Broken("connect") /\ endpoints = n
Retries(n) == Waits("connect") /\ endpoints \in 0 .. n - 1

\* What happens to the one operation.
LEMMA LostSteps ==
  ASSUME Safe, Lost, life = "live", NEW s \in Handshakes \cup {"cancel"}, OnlyThis(s), [Next]_vars
  PROVE  \/ status' = "data"
         \/ Lost' /\ RightMoves(s)
         \/ Lost' /\ ~ RightThread /\ endpoints' = endpoints /\ life' = "live" /\ OnlyThis(s)'
            /\ \/ UNCHANGED <<pend, ok, err, pc>> /\ \A x \in Ops : ~ Complete(x)
               \/ s \in Handshakes /\ Waiting(s) /\ Broken(s)'
               \/ s = "resolve" /\ Waiting(s) /\ Through(s)'
<1> SUFFICES ASSUME status' # "data"
             PROVE  \/ Lost' /\ RightMoves(s)
                    \/ Lost' /\ ~ RightThread /\ endpoints' = endpoints /\ life' = "live" /\ OnlyThis(s)'
                       /\ \/ UNCHANGED <<pend, ok, err, pc>> /\ \A x \in Ops : ~ Complete(x)
                          \/ s \in Handshakes /\ Waiting(s) /\ Broken(s)'
                          \/ s = "resolve" /\ Waiting(s) /\ Through(s)'
  OBVIOUS
<1> USE HandshakeOps DEF Safe
<1>1. CASE RightThread
  <2>1. gone' = gone
    BY <1>1, Returns DEF Return
  <2> QED
    BY <1>1, <2>1, RightThreadMoves DEF Lost
<1>2. ASSUME NEW x \in Ops, Complete(x)
      PROVE  /\ Lost' /\ ~ RightThread /\ endpoints' = endpoints /\ life' = "live" /\ OnlyThis(s)'
             /\ s \in Handshakes /\ Waiting(s) /\ (Broken(s)' \/ (s = "resolve" /\ Through(s)'))
  <2>1. Out(x) > 0 /\ pend[x] > 0
    BY <1>2 DEF TypeOK, Out, Complete, CompleteOk, CompleteErr
  <2>2. x = s /\ s \in Handshakes
    BY <2>1 DEF OnlyThis, Gain
  <2>3. /\ UNCHANGED <<life, endpoints, pc, gone, status>>
        /\ OnlyThis(s)'
    BY <1>2, OnlyStays DEF Complete, CompleteOk, CompleteErr
  <2>4. pend[s] = 1 /\ ok[s] = 0 /\ err[s] = 0
    <3>1. Out(s) = 1
      BY <2>2 DEF OnlyThis, Gain
    <3> QED
      BY <2>1, <2>2, <3>1 DEF TypeOK, Out
  <2>5. err'[s] > 0 \/ (s = "resolve" /\ ok'[s] > 0)
    <3>1. CASE CompleteErr(x)
      BY <2>2, <2>4, <3>1 DEF CompleteErr, TypeOK
    <3>2. CASE CompleteOk(x)
      <4>1. s = "resolve"
        BY <2>2, <3>2 DEF CompleteOk, PeerGone, Lost, ThreadOf, Handshakes, Exchanges, LeftOps,
              LeftReads, LeftWrites
      <4> QED
        BY <2>2, <2>4, <3>2, <4>1 DEF CompleteOk, TypeOK
    <3> QED
      BY <1>2, <3>1, <3>2 DEF Complete
  <2>6. ~ RightThread
    <3>1. pend' # pend /\ s \in Handshakes /\ ~ Completed(s) /\ ~ Failed(s)
      BY <1>2, <2>2, <2>4 DEF Completed, Failed, Complete, CompleteOk, CompleteErr, TypeOK
    <3>2. \A y \in Ops : ~ Completed(y) /\ ~ Failed(y)
      BY <3>1, OnlyItsHandler
    <3>3. RightThread => RightMoves(s)
      BY <2>2, RightThreadMoves DEF Lost
    <3> QED
      BY <2>2, <2>4, <3>3 DEF RightMoves, Through, Broken, Cancels, OnlyThis
  <2>7. Waiting(s) /\ (Broken(s)' \/ (s = "resolve" /\ Through(s)'))
    BY <2>1, <2>2, <2>3, <2>5 DEF Waiting, Broken, Through
  <2>8. Lost' /\ endpoints' = endpoints /\ life' = "live"
    BY <2>3 DEF Lost
  <2> QED
    BY <2>2, <2>3, <2>6, <2>7, <2>8
<1>3. ASSUME Apart, ~ RightThread, \A x \in Ops : ~ Complete(x)
      PROVE  Lost' /\ endpoints' = endpoints /\ life' = "live" /\ OnlyThis(s)'
             /\ UNCHANGED <<pend, ok, err, pc>>
  <2>1. /\ UNCHANGED <<life, endpoints, status, pend, ok, err, pc>>
        /\ gone \subseteq gone'
    BY <1>3 DEF Apart, PeerLeaves, vars, ops
  <2> QED
    BY <2>1, OnlyStays DEF Lost, ops
<1>4. ~ LeftThread /\ ~ RaceCrash /\ ~ start
  BY OnlyItsHandler DEF start
<1> QED
  BY <1>1, <1>2, <1>3, <1>4, Zenon DEF Next, Apart

\* The list of addresses that is left behind a connection.
At(s, n) == s = "connect" => endpoints = n

\* An operation other than the resolver's can only fail, and does, as its end
\* of the connection is gone.
Breaks(s, n) == Waits(s) /\ At(s, n) ~> Ended \/ (Lost /\ Broken(s) /\ At(s, n))

LEMMA WaitsFail ==
  ASSUME NEW s \in Handshakes, s # "resolve", NEW n \in Nat
  PROVE  FairSpec => Breaks(s, n)
<1> USE DEF At
<1> DEFINE W == Waits(s) /\ At(s, n)
           B == Lost /\ Broken(s) /\ At(s, n)
           Fail == PeerGone(s) /\ CompleteErr(s)
<1>1. Safe /\ W /\ [Next]_vars => W' \/ B' \/ Ended'
  <2> SUFFICES ASSUME Safe, W, [Next]_vars PROVE W' \/ B' \/ Ended'
    OBVIOUS
  <2>1. Lost /\ life = "live" /\ OnlyThis(s) /\ pend[s] > 0
    BY DEF Waits, Waiting
  <2>2. ~ RightMoves(s)
    <3>1. ok[s] = 0 /\ err[s] = 0
      <4>1. Out(s) = 1
        BY <2>1, HandshakeOps DEF OnlyThis, Gain
      <4> QED
        BY <2>1, <4>1, HandshakeOps DEF Safe, TypeOK, Out
    <3> QED
      BY <2>1, <3>1, HandshakeOps DEF RightMoves, Through, Broken, Cancels, OnlyThis
  <2> QED
    BY <2>1, <2>2, LostSteps DEF Ended, Waits, Waiting
<1>2. Safe /\ W /\ <<Fail>>_vars => B'
  <2> SUFFICES ASSUME Safe, W, CompleteErr(s) PROVE B'
    OBVIOUS
  <2>1. /\ UNCHANGED <<life, status, endpoints, pc, gone>>
        /\ err'[s] = err[s] + 1 /\ err[s] \in Nat
    BY HandshakeOps DEF CompleteErr, Safe, TypeOK
  <2>2. OnlyThis(s)'
    BY <2>1, OnlyStays, HandshakeOps DEF Waits, Waiting, Safe, Complete
  <2> QED
    BY <2>1, <2>2 DEF Waits, Waiting, Lost, Broken
<1>3. W => PeerGone(s) /\ pend[s] > 0
  BY DEF Waits, Waiting, Lost, PeerGone, ThreadOf, Handshakes, Exchanges, LeftOps, LeftReads,
     LeftWrites
<1>4. PeersFairness => GoneFairness(s)
  BY HandshakeOps, Zenon DEF PeersFairness
<1>5. Spec => []Safe
  BY LocalTypes, LocalInvariance, SequentialAlways, PTL DEF Safe
<1> HIDE DEF W, B
<1>6. FairSpec => (W ~> Ended \/ B)
  BY <1>1, <1>2, <1>3, <1>4, <1>5, PTL DEF FairSpec, Spec, Fairness, GoneFairness
<1> QED
  BY <1>6 DEF W, B, Breaks

\* What the handler of a completed operation leads to.
LEMMA StageSteps ==
  ASSUME Safe, [Next]_vars
  PROVE  /\ Passed => \/ Ended' \/ Closes' \/ \E r \in Exchanges : Waits(r)'
                      \/ Passed' /\ ~ RightThread
         /\ Fails => Ended' \/ Closes' \/ (Fails' /\ ~ RightThread)
         /\ Closes => Ended' \/ Closing' \/ (Closes' /\ ~ RightThread)
         /\ Closing => Ended' \/ (Closing' /\ ~ RightThread)
         /\ Linked => Ended' \/ Closes' \/ Waits("hello_write")' \/ (Linked' /\ ~ RightThread)
         /\ Looked => Ended' \/ Closes' \/ Waits("connect")' \/ (Looked' /\ ~ RightThread)
         /\ \A n \in Nat : Tried(n) => Ended' \/ Closes' \/ Retries(n)' \/ (Tried(n)' /\ ~ RightThread)
<1>a. endpoints \in Nat
  BY EndpointsAssumption DEF Safe, TypeOK
<1>b. \A s \in Handshakes : OnlyThis(s) =>
        /\ ok[s] > 0 => ~ pend[s] > 0 /\ ~ err[s] > 0
        /\ err[s] > 0 => ~ pend[s] > 0 /\ ~ ok[s] > 0
  <2> SUFFICES ASSUME NEW s \in Handshakes, OnlyThis(s)
               PROVE  /\ ok[s] > 0 => ~ pend[s] > 0 /\ ~ err[s] > 0
                      /\ err[s] > 0 => ~ pend[s] > 0 /\ ~ ok[s] > 0
    OBVIOUS
  <2>1. Out(s) = 1
    BY HandshakeOps DEF OnlyThis, Gain
  <2> QED
    BY <2>1, HandshakeOps DEF Safe, TypeOK, Out
<1>c. \A s \in Handshakes, r \in Handshakes \cup {"cancel"} : OnlyThis(s) /\ OnlyThis(r) => s = r
  BY HandshakeOps DEF OnlyThis, Gain
<1>1. ASSUME NEW s \in Handshakes, Lost, Through(s)
      PROVE  \/ Ended' \/ (Lost' /\ Cancels("cancel_left")')
             \/ Lost' /\ Through(s)' /\ ~ RightThread
             \/ Lost' /\ s = "resolve" /\ Waiting("connect")'
             \/ Lost' /\ s = "connect" /\ Waiting("hello_write")'
             \/ Lost' /\ s \in Exchanges /\ \E r \in Exchanges : Waiting(r)'
  <2>1. life = "live" /\ OnlyThis(s) /\ ok[s] > 0
    BY <1>1 DEF Through
  <2>2. ~ Broken(s) /\ ~ Waiting(s) /\ \A place \in {"cancel_left", "cancel_right"} : ~ Cancels(place)
    BY <1>b, <1>c, <2>1 DEF Broken, Waiting, Cancels, Handshakes, Exchanges
  <2>3. \/ Ended'
        \/ Lost' /\ RightMoves(s)
        \/ Lost' /\ ~ RightThread /\ life' = "live" /\ OnlyThis(s)' /\ ok' = ok
    BY <1>1, <2>1, <2>2, LostSteps DEF Ended
  <2> QED
    BY <2>1, <2>2, <2>3 DEF RightMoves, Through
<1>2. ASSUME NEW s \in Handshakes, Lost, Broken(s)
      PROVE  \/ Ended' \/ (Lost' /\ Cancels("cancel_left")')
             \/ Lost' /\ Broken(s)' /\ endpoints' = endpoints /\ ~ RightThread
             \/ Lost' /\ s = "connect" /\ Waiting(s)' /\ endpoints > 0 /\ endpoints' = endpoints - 1
  <2>1. life = "live" /\ OnlyThis(s) /\ err[s] > 0
    BY <1>2 DEF Broken
  <2>2. ~ Through(s) /\ ~ Waiting(s) /\ \A place \in {"cancel_left", "cancel_right"} : ~ Cancels(place)
    BY <1>b, <1>c, <2>1 DEF Through, Waiting, Cancels, Handshakes, Exchanges
  <2>3. \/ Ended'
        \/ Lost' /\ RightMoves(s)
        \/ /\ Lost' /\ ~ RightThread /\ life' = "live" /\ OnlyThis(s)' /\ err' = err
           /\ endpoints' = endpoints
    BY <1>2, <2>1, <2>2, LostSteps DEF Ended
  <2> QED
    BY <2>1, <2>2, <2>3 DEF RightMoves, Broken
<1>3. ASSUME NEW place \in {"cancel_left", "cancel_right"}, Lost, Cancels(place)
      PROVE  \/ Ended'
             \/ Lost' /\ place = "cancel_left" /\ Cancels("cancel_right")'
             \/ Lost' /\ Cancels(place)' /\ ~ RightThread
  <2>1. life = "live" /\ OnlyThis("cancel") /\ pc["right"] = place /\ "cancel" \notin Handshakes
    BY <1>3, HandshakeOps DEF Cancels
  <2>2. \/ Ended'
        \/ Lost' /\ RightMoves("cancel")
        \/ Lost' /\ ~ RightThread /\ life' = "live" /\ OnlyThis("cancel")' /\ pc' = pc
    BY <1>3, <2>1, LostSteps DEF Ended
  <2>3. RightMoves("cancel") => \/ place = "cancel_left" /\ Cancels("cancel_right")'
                                \/ Ended'
    BY <2>1 DEF RightMoves, Exchanges, Cancels, Freed, Ended
  <2> QED
    BY <2>1, <2>2, <2>3 DEF Cancels
<1>4. Passed => \/ Ended' \/ Closes' \/ \E r \in Exchanges : Waits(r)'
                \/ Passed' /\ ~ RightThread
  BY <1>1 DEF Passed, Closes, Waits, Handshakes, Exchanges
<1>5. Fails => Ended' \/ Closes' \/ (Fails' /\ ~ RightThread)
  BY <1>2 DEF Fails, Closes, Handshakes, Exchanges
<1>6. /\ Closes => Ended' \/ Closing' \/ (Closes' /\ ~ RightThread)
      /\ Closing => Ended' \/ (Closing' /\ ~ RightThread)
  BY <1>3 DEF Closes, Closing
<1>7. /\ Linked => Ended' \/ Closes' \/ Waits("hello_write")' \/ (Linked' /\ ~ RightThread)
      /\ Looked => Ended' \/ Closes' \/ Waits("connect")' \/ (Looked' /\ ~ RightThread)
  BY <1>1, <1>2 DEF Linked, Looked, Closes, Waits, Handshakes, Exchanges
<1>8. ASSUME NEW n \in Nat, Tried(n)
      PROVE  Ended' \/ Closes' \/ Retries(n)' \/ (Tried(n)' /\ ~ RightThread)
  <2>1. endpoints > 0 /\ endpoints' = endpoints - 1 => endpoints' \in 0 .. n - 1
    BY <1>a, <1>8 DEF Tried
  <2> QED
    BY <1>2, <1>8, <2>1 DEF Tried, Retries, Waits, Closes, Handshakes
<1> QED
  BY <1>4, <1>5, <1>6, <1>7, <1>8

\* A session with its server lost that is past connecting.
Going == Passed \/ Fails \/ (\E r \in Exchanges : Waits(r)) \/ Closes \/ Closing

LEMMA SafeAlways == Spec => []Safe
  BY LocalTypes, LocalInvariance, SequentialAlways, PTL DEF Safe

\* While one of these stages lasts, the right thread has something to run.
LEMMA StagesRun ==
  ASSUME Safe, Passed \/ Fails \/ Closes \/ Closing \/ Linked \/ Looked
         \/ \E n \in Nat : Tried(n)
  PROVE  CanRight
<1>1. ASSUME NEW s \in Handshakes, Through(s) \/ Broken(s) PROVE CanRight
  <2>1. s \in RightOps /\ ok[s] \in Nat /\ err[s] \in Nat
    BY HandshakeOps DEF Safe, TypeOK
  <2>2. ok[s] + err[s] > 0
    BY <1>1, <2>1 DEF Through, Broken
  <2> QED
    BY <2>1, <2>2 DEF CanRight
<1>2. ASSUME NEW place \in {"cancel_left", "cancel_right"}, Cancels(place) PROVE CanRight
  BY <1>2 DEF CanRight, Cancels
<1> QED
  BY <1>1, <1>2 DEF Passed, Fails, Closes, Closing, Linked, Looked, Tried, Handshakes

\* Past connecting, the operations fail, cancel() runs and the session is freed.
LEMMA GoingEnds == FairSpec => (Going ~> Ended)
<1> DEFINE Hello    == Waits("hello_write")
           Exchange == Waits("exchange_write")
           Read     == Waits("right_read")
           Waitings == Hello \/ Exchange \/ Read
<1>2. (\E r \in Exchanges : Waits(r)) <=> Waitings
  BY DEF Exchanges
<1>1. FairSpec => Breaks("hello_write", 0) /\ Breaks("exchange_write", 0) /\ Breaks("right_read", 0)
  BY WaitsFail DEF Handshakes, Exchanges
<1>3. FairSpec => (Waitings ~> Ended \/ Fails)
  <2>1. \A r \in Exchanges : (Waits(r) => At(r, 0)) /\ (Lost /\ Broken(r) => Fails)
    BY DEF At, Exchanges, Fails
  <2>2. /\ Hello => At("hello_write", 0)
        /\ Exchange => At("exchange_write", 0)
        /\ Read => At("right_read", 0)
        /\ Lost /\ (Broken("hello_write") \/ Broken("exchange_write") \/ Broken("right_read")) => Fails
    BY <2>1 DEF Exchanges
  <2> QED
    BY <1>1, <2>2, PTL DEF Breaks
<1> HIDE DEF Waitings
<1>4. Safe /\ [Next]_vars =>
        /\ Passed => Ended' \/ Closes' \/ Waitings' \/ (Passed' /\ ~ RightThread)
        /\ Fails => Ended' \/ Closes' \/ (Fails' /\ ~ RightThread)
        /\ Closes => Ended' \/ Closing' \/ (Closes' /\ ~ RightThread)
        /\ Closing => Ended' \/ (Closing' /\ ~ RightThread)
  BY StageSteps DEF Waitings, Exchanges
<1>5. Safe /\ (Passed \/ Fails \/ Closes \/ Closing) => CanRight
  BY StagesRun
<1>6. FairSpec => (Passed ~> Ended \/ Closes \/ Waitings)
  BY <1>4, <1>5, SafeAlways, PTL DEF FairSpec, Spec, Fairness, RightFairness
<1>7. FairSpec => (Fails ~> Ended \/ Closes)
  BY <1>4, <1>5, SafeAlways, PTL DEF FairSpec, Spec, Fairness, RightFairness
<1>8. FairSpec => (Closes ~> Ended \/ Closing)
  BY <1>4, <1>5, SafeAlways, PTL DEF FairSpec, Spec, Fairness, RightFairness
<1>9. FairSpec => (Closing ~> Ended)
  BY <1>4, <1>5, SafeAlways, PTL DEF FairSpec, Spec, Fairness, RightFairness
<1>10. Going => Passed \/ Fails \/ Waitings \/ Closes \/ Closing
  BY <1>2 DEF Going
<1> QED
  BY <1>3, <1>6, <1>7, <1>8, <1>9, <1>10, PTL

\* Where a session with its server gone can be.
LEMMA LostWhere ==
  ASSUME Safe, "right" \in gone, life # "crashed" \/ status = "data"
  PROVE  \/ Ended \/ Going
         \/ Waits("connect") \/ Linked \/ Tried(endpoints)
         \/ Waits("resolve") \/ Looked
<1> SUFFICES ASSUME status # "data", life # "destroyed"
             PROVE  \/ Going
                    \/ Waits("connect") \/ Linked \/ Tried(endpoints)
                    \/ Waits("resolve") \/ Looked
  BY DEF Ended
<1>1. PICK s \in Handshakes \cup {"cancel"} : OnlyThis(s) /\ life = "live"
  BY DEF Safe, SequentialInv
<1>2. CASE s = "cancel"
  BY <1>1, <1>2 DEF OnlyThis, Going, Closes, Closing, Cancels, Lost
<1>3. CASE s \in Handshakes
  <2>1. Out(s) = 1
    BY <1>1, <1>3, HandshakeOps DEF OnlyThis, Gain
  <2>2. Waiting(s) \/ Through(s) \/ Broken(s)
    BY <1>1, <1>3, <2>1, HandshakeOps DEF Safe, TypeOK, Out, Waiting, Through, Broken
  <2> QED
    BY <1>3, <2>2 DEF Handshakes, Lost, Going, Passed, Fails, Waits, Linked, Tried, Looked
<1> QED
  BY <1>1, <1>2, <1>3

\* A server that goes away once the connection was made, or when none is tried
\* any more, leaves no session behind: what is outstanding fails, its handler
\* calls cancel(), and when that returns the session is freed.
THEOREM ServerGoneEnds ==
  FairSpec => ("right" \in gone /\ Out("resolve") = 0 /\ Out("connect") = 0 ~> Ended)
<1>1. Safe /\ "right" \in gone /\ Out("resolve") = 0 /\ Out("connect") = 0 => Ended \/ Going
  <2> SUFFICES ASSUME Safe, "right" \in gone, Out("resolve") = 0, Out("connect") = 0
               PROVE  Ended \/ Going
    OBVIOUS
  <2>1. ~ OnlyThis("connect") /\ ~ OnlyThis("resolve")
    BY HandshakeOps DEF OnlyThis, Gain, Handshakes
  <2> QED
    BY <2>1, LostWhere DEF Safe, SequentialInv, Ended, Waits, Waiting, Linked, Tried, Looked,
       Through, Broken
<1> QED
  BY <1>1, GoingEnds, SafeAlways, PTL DEF FairSpec

\* Every failed attempt leaves fewer addresses to try: a session whose server is
\* gone while it connects tries the next one or ends, and the last attempt ends it.
Attempt(n) == "right" \in gone /\ Out("connect") > 0 /\ endpoints = n

THEOREM AttemptsEnd ==
  ASSUME NEW n \in Nat
  PROVE  FairSpec => (Attempt(n) ~> Ended \/ \E m \in 0 .. n - 1 : Attempt(m))
<1> DEFINE Trying == Waits("connect") /\ At("connect", n)
           Refused == Lost /\ Broken("connect") /\ At("connect", n)
           Less == \E m \in 0 .. n - 1 : Attempt(m)
<1>1. FairSpec => (Trying ~> Ended \/ Refused)
  <2>1. FairSpec => Breaks("connect", n)
    BY WaitsFail DEF Handshakes
  <2> QED
    BY <2>1 DEF Breaks
<1>2. Refused => Tried(n)
  BY DEF Tried, At
<1>3. Retries(n) => Less
  BY HandshakeOps DEF Retries, Attempt, Waits, Waiting, Lost, OnlyThis, Gain, Handshakes
<1>4. Safe /\ [Next]_vars =>
        /\ Tried(n) => Ended' \/ Closes' \/ Retries(n)' \/ (Tried(n)' /\ ~ RightThread)
        /\ Linked => Ended' \/ Closes' \/ Waits("hello_write")' \/ (Linked' /\ ~ RightThread)
  BY StageSteps
<1>5. Safe /\ (Tried(n) \/ Linked) => CanRight
  BY StagesRun
<1>6. Closes \/ Waits("hello_write") => Going
  BY DEF Going, Exchanges
<1>7. Safe /\ Attempt(n) => Ended \/ Trying \/ Tried(n) \/ Linked
  <2> SUFFICES ASSUME Safe, Attempt(n), ~ Ended PROVE Trying \/ Tried(n) \/ Linked
    OBVIOUS
  <2>1. PICK s \in Handshakes \cup {"cancel", "none"} : OnlyThis(s)
    BY DEF Safe, SequentialInv, Ended
  <2>2. s = "connect"
    BY <2>1, HandshakeOps DEF Attempt, OnlyThis, Gain, Handshakes
  <2>3. \A r \in Handshakes \cup {"cancel"} : OnlyThis(r) => r = "connect"
    BY <2>1, <2>2, HandshakeOps DEF OnlyThis, Gain, Handshakes
  <2> QED
    BY <2>3, LostWhere DEF Attempt, Safe, SequentialInv, Ended, Going, Passed, Fails, Closes,
       Closing, Waits, Waiting, Cancels, Linked, Tried, Looked, Through, Broken, At,
       Handshakes, Exchanges
<1> HIDE DEF Trying, Refused, Less
<1>8. FairSpec => (Tried(n) ~> Ended \/ Closes \/ Retries(n))
  BY <1>4, <1>5, SafeAlways, PTL DEF FairSpec, Spec, Fairness, RightFairness
<1>9. FairSpec => (Linked ~> Ended \/ Closes \/ Waits("hello_write"))
  BY <1>4, <1>5, SafeAlways, PTL DEF FairSpec, Spec, Fairness, RightFairness
<1>10. FairSpec => (Attempt(n) ~> Ended \/ Less)
  BY <1>1, <1>2, <1>3, <1>6, <1>7, <1>8, <1>9, GoingEnds, SafeAlways, PTL DEF FairSpec
<1> QED
  BY <1>10 DEF Less

\* And a session whose server is gone while its name is resolved, as getaddrinfo
\* returns, ends or tries to connect.
THEOREM ResolvingEnds ==
  FairSpec => ("right" \in gone /\ Out("resolve") > 0 ~> Ended \/ \E n \in Nat : Attempt(n))
<1> DEFINE Any == \E n \in Nat : Attempt(n)
           Looks == Waits("resolve")
<1>1. Safe /\ Waits("connect") => Any
  BY EndpointsAssumption, HandshakeOps
     DEF Safe, TypeOK, Attempt, Waits, Waiting, Lost, OnlyThis, Gain, Handshakes
<1>2. Safe /\ [Next]_vars => (Looked => Ended' \/ Closes' \/ Waits("connect")' \/ (Looked' /\ ~ RightThread))
  BY StageSteps
<1>3. Safe /\ Looked => CanRight
  BY StagesRun
<1>4. Safe /\ Looks => ~ (pend["resolve"] = 0)
  BY DEF Waits, Waiting
<1>5. Safe /\ Looks /\ [Next]_vars =>
        Ended' \/ Looked' \/ (Looks' /\ ~ <<Complete("resolve")>>_vars)
  <2> SUFFICES ASSUME Safe, Looks, [Next]_vars
               PROVE  Ended' \/ Looked' \/ (Looks' /\ ~ Complete("resolve"))
    OBVIOUS
  <2>1. Lost /\ life = "live" /\ OnlyThis("resolve") /\ pend["resolve"] > 0
    BY DEF Waits, Waiting
  <2>2. ~ RightMoves("resolve")
    <3>1. Out("resolve") = 1
      BY <2>1, HandshakeOps DEF OnlyThis, Gain, Handshakes
    <3>2. ok["resolve"] = 0 /\ err["resolve"] = 0
      BY <2>1, <3>1, HandshakeOps DEF Safe, TypeOK, Out, Handshakes
    <3> QED
      BY <2>1, <3>2, HandshakeOps DEF RightMoves, Through, Broken, Cancels, OnlyThis, Exchanges
  <2> QED
    BY <2>1, <2>2, LostSteps, HandshakeOps DEF Ended, Looked, Waits, Waiting, Handshakes
<1>6. Closes => Going
  BY DEF Going
<1>7. Safe /\ "right" \in gone /\ Out("resolve") > 0 => Ended \/ Looks \/ Looked
  <2> SUFFICES ASSUME Safe, "right" \in gone, Out("resolve") > 0, ~ Ended PROVE Looks \/ Looked
    OBVIOUS
  <2>1. \A r \in Handshakes \cup {"cancel"} : OnlyThis(r) => r = "resolve"
    BY HandshakeOps DEF OnlyThis, Gain, Handshakes
  <2>2. life # "crashed"
    BY DEF Safe, SequentialInv, Ended
  <2> QED
    BY <2>1, <2>2, LostWhere DEF Going, Passed, Fails, Closes, Closing, Waits, Waiting, Cancels,
       Linked, Tried, Looked, Through, Broken, Handshakes, Exchanges
<1> HIDE DEF Any, Looks
<1>8. FairSpec => (Looked ~> Ended \/ Closes \/ Waits("connect"))
  BY <1>2, <1>3, SafeAlways, PTL DEF FairSpec, Spec, Fairness, RightFairness
<1>9. FairSpec => (Looks ~> Ended \/ Looked)
  BY <1>4, <1>5, SafeAlways, PTL DEF FairSpec, Spec, Fairness, ResolveFairness
<1>10. FairSpec => ("right" \in gone /\ Out("resolve") > 0 ~> Ended \/ Any)
  BY <1>1, <1>6, <1>7, <1>8, <1>9, GoingEnds, SafeAlways, PTL DEF FairSpec
<1> QED
  BY <1>10 DEF Any
=============================================================================

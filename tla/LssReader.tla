------------------------------ MODULE LssReader ------------------------------
(***************************************************************************)
(* How a stream of bytes becomes data packets again: left_read_handler of  *)
(* the server's session and right_read_handler of the local one, once the  *)
(* relay runs.  Both read what the socket has, complete a packet that has  *)
(* arrived in part, and take the packets of one buffer apart (cut_lss).    *)
(*                                                                         *)
(* The bytes of the stream are numbered from 1; packet i consists of the   *)
(* bytes Boundary[i] + 1 .. Boundary[i + 1].  What the bytes are does not  *)
(* matter, except for the length in a header that is read at the wrong     *)
(* place: then it may be any.                                              *)
(***************************************************************************)
EXTENDS Integers, Sequences

CONSTANTS
    Packets,    \* the number of packets sent
    Boundary,   \* Boundary[i] bytes precede packet i
    MaxLength,  \* readbuffer::max_length
    MisreadLens \* the data lengths bytes that are no header may be taken for

HeaderLen == 4
Garbage   == 0

ASSUME PacketsAssumption ==
    /\ Packets \in Nat \ {0}
    /\ Boundary \in [1 .. Packets + 1 -> Nat]
    /\ Boundary[1] = 0
    /\ \A i \in 1 .. Packets : Boundary[i + 1] >= Boundary[i] + HeaderLen
    /\ \A i, j \in 1 .. Packets + 1 : i < j => Boundary[i] < Boundary[j]

ASSUME ReaderAssumption ==
    /\ MaxLength \in Nat
    /\ MisreadLens \subseteq Nat

VARIABLES
    taken,     \* bytes read from the socket so far
    start,     \* bytes before the first one of lss_request
    want,      \* the size of the buffer of the read
    pc,        \* "read", "left_read_handler", the two continuations of a write,
               \* and "cancelled"
    delivered, \* what was written: the data of packet i, or Garbage
    whole      \* so far the transport has let no read end within a header

vars == <<taken, start, want, pc, delivered, whole>>

Total  == Boundary[Packets + 1]
Header(i) == Boundary[i] + 1 .. Boundary[i] + HeaderLen - 1

\* The packet whose header lss_request begins with, if any.
PacketAt(pos) == {i \in 1 .. Packets : Boundary[i] = pos}

\* The lengths data_len() may return.
DataLen(pos) ==
    IF PacketAt(pos) = {} THEN MisreadLens
    ELSE {Boundary[i + 1] - Boundary[i] - HeaderLen : i \in PacketAt(pos)}

\* What unpack_data makes of the data of the packet.
Plain(pos) == IF PacketAt(pos) = {} THEN Garbage ELSE CHOOSE i \in PacketAt(pos) : TRUE

-----------------------------------------------------------------------------
Init ==
    /\ taken = 0
    /\ start = 0
    /\ want = HeaderLen + MaxLength
    /\ pc = "read"
    /\ delivered = <<>>
    /\ whole = TRUE

\* async_read_some completes, with as many bytes as the transport likes.
Read ==
    /\ pc = "read"
    /\ \E n \in 1 .. want :
           /\ taken + n <= Total
           /\ taken' = taken + n
    /\ whole' = (whole /\ \A i \in 1 .. Packets : taken' \notin Header(i))
    /\ pc' = "left_read_handler"
    /\ UNCHANGED <<start, want, delivered>>

\* lss_pack_integrity_check: less than a header.
Short ==
    /\ pc = "left_read_handler"
    /\ taken - start < HeaderLen
    /\ pc' = "cancelled"
    /\ UNCHANGED <<taken, start, want, delivered, whole>>

\* Mutant of Incomplete: off by one, a complete packet counts as incomplete.
MutIncomplete ==
    /\ pc = "left_read_handler"
    /\ taken - start >= HeaderLen
    /\ \E len \in DataLen(start) :
           /\ len + HeaderLen >= taken - start
           /\ want' = len + HeaderLen - (taken - start)
    /\ pc' = "read"
    /\ UNCHANGED <<taken, start, delivered, whole>>

\* Some bytes of the packet are missing: a read of exactly as many.
Incomplete ==
    /\ pc = "left_read_handler"
    /\ taken - start >= HeaderLen
    /\ \E len \in DataLen(start) :
           /\ len + HeaderLen > taken - start
           /\ want' = len + HeaderLen - (taken - start)
    /\ pc' = "read"
    /\ UNCHANGED <<taken, start, delivered, whole>>

\* Mutant of Deliver: off by one, a rest that is just a header is dropped.
MutDeliver ==
    /\ pc = "left_read_handler"
    /\ taken - start >= HeaderLen
    /\ \E len \in DataLen(start) :
           LET next == start + HeaderLen + len IN
           /\ next <= taken
           /\ IF next + HeaderLen < taken
              THEN start' = next /\ pc' = "cont_write"
              ELSE start' = taken /\ pc' = "right_write"
    /\ delivered' = Append(delivered, Plain(start))
    /\ UNCHANGED <<taken, want, whole>>

\* Mutant of Deliver: the packet is not cut off before the rest is handled.
MutDeliverUncut ==
    /\ pc = "left_read_handler"
    /\ taken - start >= HeaderLen
    /\ \E len \in DataLen(start) :
           LET next == start + HeaderLen + len IN
           /\ next <= taken
           /\ IF next + HeaderLen <= taken
              THEN start' = start /\ pc' = "cont_write"
              ELSE start' = taken /\ pc' = "right_write"
    /\ delivered' = Append(delivered, Plain(start))
    /\ UNCHANGED <<taken, want, whole>>

\* The packet is complete: its data is written.  A rest that holds a header
\* becomes the new lss_request and is handled after the write; a shorter rest
\* is dropped.
Deliver ==
    /\ pc = "left_read_handler"
    /\ taken - start >= HeaderLen
    /\ \E len \in DataLen(start) :
           LET next == start + HeaderLen + len IN
           /\ next <= taken
           /\ IF next + HeaderLen <= taken
              THEN start' = next /\ pc' = "cont_write"
              ELSE start' = taken /\ pc' = "right_write"
    /\ delivered' = Append(delivered, Plain(start))
    /\ UNCHANGED <<taken, want, whole>>

\* Bytes that are no header: an unknown type, or data that cannot be decrypted.
Misread ==
    /\ pc = "left_read_handler"
    /\ taken - start >= HeaderLen
    /\ PacketAt(start) = {}
    /\ pc' = "cancelled"
    /\ UNCHANGED <<taken, start, want, delivered, whole>>

\* The write has completed and more packets are in the buffer.
ContWritten ==
    /\ pc = "cont_write"
    /\ pc' = "left_read_handler"
    /\ UNCHANGED <<taken, start, want, delivered, whole>>

\* right_write_handler (left_write_handler of local): a new buffer.
RightWritten ==
    /\ pc = "right_write"
    /\ pc' = "read"
    /\ want' = HeaderLen + MaxLength
    /\ UNCHANGED <<taken, start, delivered, whole>>

Next == Read \/ Short \/ Incomplete \/ Deliver \/ Misread \/ ContWritten \/ RightWritten

Spec == Init /\ [][Next]_vars

\* Something is queued or there is something to read.
CanStep == pc # "cancelled" /\ (pc = "read" => taken < Total /\ want > 0)

\* What was sent arrives, and the io_service runs what is queued: weak fairness
\* of Next, with what is enabled spelled out.
FairSpec == Spec /\ ([]<>(~ CanStep) \/ []<><<Next>>_vars)

-----------------------------------------------------------------------------
TypeOK ==
    /\ taken \in 0 .. Total
    /\ start \in 0 .. taken
    /\ want \in Nat \ {0}
    /\ pc \in {"read", "left_read_handler", "cont_write", "right_write", "cancelled"}
    /\ delivered \in Seq(0 .. Packets)
    /\ whole \in BOOLEAN

\* "What is left over can just be dropped" (cut_lss): what is delivered are the
\* packets that were sent, each once, in their order, whatever the segments.
Intact == \A i \in DOMAIN delivered : delivered[i] = i

\* What holds of that: however else the stream is cut, joined and buffered, the
\* packets are delivered intact and in order until a read ends within a header.
IntactWhileWhole == whole => Intact

\* However the reader loses its place, a packet is never delivered twice, nor
\* one after a later one.
NoneTwice ==
    \A i, j \in DOMAIN delivered :
        (i < j /\ delivered[i] # Garbage /\ delivered[j] # Garbage)
            => delivered[i] < delivered[j]

\* All packets arrive, unless a read ends within a header.
AllDelivered == <>(Len(delivered) = Packets \/ ~ whole)
=============================================================================

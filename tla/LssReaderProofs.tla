--------------------------- MODULE LssReaderProofs ---------------------------
(***************************************************************************)
(* What TLAPS proves of LssReader, for any number of packets of any size   *)
(* and any size of the buffer.                                             *)
(*                                                                         *)
(* Intact needs that no read has ended within a header.  Then lss_request  *)
(* always begins where the next packet does (InPlace): a rest too short    *)
(* for a header that cut_lss drops would have to end within one, so it is  *)
(* empty.                                                                  *)
(***************************************************************************)
EXTENDS LssReader, TLAPS

LEMMA Numbers ==
  /\ Packets \in Nat /\ Packets >= 1
  /\ \A i \in 1 .. Packets + 1 : Boundary[i] \in Nat
  /\ Boundary[1] = 0
  /\ \A i \in 1 .. Packets : Boundary[i + 1] >= Boundary[i] + 4
  /\ \A i, j \in 1 .. Packets + 1 : i < j => Boundary[i] < Boundary[j]
  /\ Total \in Nat
  /\ MaxLength \in Nat /\ MisreadLens \subseteq Nat
  BY PacketsAssumption, ReaderAssumption DEF Total, HeaderLen

\* At most one packet begins at a place.
LEMMA OnePacket ==
  ASSUME NEW i \in 1 .. Packets
  PROVE  /\ PacketAt(Boundary[i]) = {i}
         /\ DataLen(Boundary[i]) = {Boundary[i + 1] - Boundary[i] - HeaderLen}
         /\ Plain(Boundary[i]) = i
<1>1. ASSUME NEW j \in 1 .. Packets, Boundary[j] = Boundary[i] PROVE j = i
  BY <1>1, Numbers
<1>2. PacketAt(Boundary[i]) = {i}
  BY <1>1 DEF PacketAt
<1>3. Plain(Boundary[i]) = CHOOSE p \in {i} : TRUE
  BY <1>2 DEF Plain
<1> QED
  BY <1>2, <1>3 DEF DataLen

\* data_len() is never negative, and unpack_data yields a packet or garbage.
LEMMA LensArePlain ==
  ASSUME NEW pos \in Nat
  PROVE  DataLen(pos) \subseteq Nat /\ Plain(pos) \in 0 .. Packets
<1>1. CASE PacketAt(pos) = {}
  BY <1>1, Numbers DEF DataLen, Plain, Garbage
<1>2. CASE PacketAt(pos) # {}
  <2>1. PICK i \in 1 .. Packets : pos = Boundary[i]
    BY <1>2 DEF PacketAt
  <2> QED
    BY <2>1, OnePacket, Numbers DEF HeaderLen
<1> QED
  BY <1>1, <1>2

-----------------------------------------------------------------------------
LEMMA TypeNext == TypeOK /\ [Next]_vars => TypeOK'
<1> SUFFICES ASSUME TypeOK, [Next]_vars PROVE TypeOK'
  OBVIOUS
<1> USE Numbers DEF TypeOK, HeaderLen
<1>0. start \in Nat /\ taken \in Nat
  OBVIOUS
<1>1. CASE Read
  BY <1>1 DEF Read
<1>2. CASE Short
  BY <1>2 DEF Short
<1>3. CASE Incomplete
  <2>1. PICK len \in DataLen(start) : /\ len + HeaderLen > taken - start
                                      /\ want' = len + HeaderLen - (taken - start)
    BY <1>3 DEF Incomplete
  <2>2. len \in Nat
    BY <1>0, LensArePlain
  <2>3. want' \in Nat \ {0}
    BY <2>1, <2>2
  <2> QED
    BY <1>3, <2>3 DEF Incomplete
<1>4. CASE Deliver
  <2>1. PICK len \in DataLen(start) :
           /\ start + HeaderLen + len <= taken
           /\ \/ start' = start + HeaderLen + len /\ pc' = "cont_write"
              \/ start' = taken /\ pc' = "right_write"
    BY <1>4 DEF Deliver
  <2>2. len \in Nat /\ Plain(start) \in 0 .. Packets
    BY <1>0, LensArePlain
  <2>3. start' \in 0 .. taken
    BY <1>0, <2>1, <2>2
  <2>4. delivered' \in Seq(0 .. Packets)
    BY <1>4, <2>2 DEF Deliver
  <2> QED
    BY <1>4, <2>1, <2>3, <2>4 DEF Deliver
<1>5. CASE Misread
  BY <1>5 DEF Misread
<1>6. CASE ContWritten
  BY <1>6 DEF ContWritten
<1>7. CASE RightWritten
  BY <1>7 DEF RightWritten
<1>8. CASE UNCHANGED vars
  BY <1>8 DEF vars
<1> QED
  BY <1>1, <1>2, <1>3, <1>4, <1>5, <1>6, <1>7, <1>8 DEF Next

\* The reader's state is well formed whatever the segmentation: the buffer it
\* asks for is never empty (a read of no bytes would complete at once, for
\* ever), and lss_request never begins beyond what was read.
THEOREM ReaderTypes == Spec => []TypeOK
<1>1. Init => TypeOK
  BY Numbers DEF Init, TypeOK, HeaderLen
<1> QED
  BY <1>1, TypeNext, PTL DEF Spec

-----------------------------------------------------------------------------
\* lss_request begins with the packet after those delivered.
InPlace ==
    /\ Len(delivered) <= Packets
    /\ start = Boundary[Len(delivered) + 1]
    /\ pc = "left_read_handler" => start < taken
    /\ pc = "cont_write" => start < taken
    /\ \A i \in 1 .. Packets : taken \notin Header(i)

LEMMA IntactNext ==
  ASSUME TypeOK, Intact, InPlace, [Next]_vars, whole'
  PROVE  (Intact /\ InPlace)'
<1> USE Numbers DEF TypeOK, HeaderLen
<1> DEFINE n == Len(delivered)
<1>0. /\ n \in Nat /\ n <= Packets /\ delivered \in Seq(0 .. Packets)
      /\ start \in Nat /\ taken \in Nat /\ start <= taken /\ taken <= Total
  BY DEF InPlace
<1>1. CASE Read
  <2>1. \A i \in 1 .. Packets : taken' \notin Header(i)
    BY <1>1, Zenon DEF Read
  <2> QED
    BY <1>1, <2>1 DEF Read, Intact, InPlace
<1>2. CASE Short \/ Incomplete \/ Misread
  <2>1. /\ UNCHANGED <<taken, start, delivered>>
        /\ pc' \notin {"left_read_handler", "cont_write"}
    BY <1>2 DEF Short, Incomplete, Misread
  <2> QED
    BY <2>1 DEF Intact, InPlace
<1>3. CASE Deliver
  <2>1. n + 1 \in 1 .. Packets /\ start = Boundary[n + 1]
    BY <1>0, <1>3 DEF Deliver, InPlace, Total
  <2>2. DataLen(start) = {Boundary[n + 2] - start - 4} /\ Plain(start) = n + 1
    <3> HIDE DEF n
    <3>1. n + 1 + 1 = n + 2
      BY <1>0
    <3>2. /\ DataLen(Boundary[n + 1]) = {Boundary[n + 1 + 1] - Boundary[n + 1] - 4}
          /\ Plain(Boundary[n + 1]) = n + 1
      BY <2>1, OnePacket
    <3> QED
      BY <2>1, <3>1, <3>2
  <2>3. PICK len \in DataLen(start) :
           /\ start + HeaderLen + len <= taken
           /\ IF start + HeaderLen + len + HeaderLen <= taken
              THEN start' = start + HeaderLen + len /\ pc' = "cont_write"
              ELSE start' = taken /\ pc' = "right_write"
    BY <1>3 DEF Deliver
  <2>4. Boundary[n + 2] \in Nat /\ start + HeaderLen + len = Boundary[n + 2]
    <3> HIDE DEF n, TypeOK
    <3>1. n + 2 \in 1 .. Packets + 1
      BY ONLY <2>1, <1>0, Packets \in Nat
    <3>2. Boundary[n + 2] \in Nat
      BY <3>1
    <3>3. len = Boundary[n + 2] - start - 4
      BY ONLY <2>2
    <3>4. start \in Nat
      BY ONLY <1>0
    <3> QED
      BY ONLY <3>2, <3>3, <3>4 DEF HeaderLen
  <2>5. /\ delivered' = Append(delivered, n + 1) /\ UNCHANGED <<taken, want>>
        /\ \A i \in 1 .. Packets : taken \notin Header(i)
    BY <1>3, <2>2 DEF Deliver, InPlace
  <2>6. Len(delivered') = n + 1 /\ Intact'
    <3> HIDE DEF TypeOK
    <3>1. DOMAIN delivered' = 1 .. n + 1 /\ Len(delivered') = n + 1
      BY ONLY <1>0, <2>5
    <3>2. \A i \in 1 .. n + 1 : delivered'[i] = IF i = n + 1 THEN n + 1 ELSE delivered[i]
      BY ONLY <1>0, <2>5
    <3>3. \A i \in 1 .. n : delivered[i] = i
      BY ONLY Intact, <1>0 DEF Intact
    <3> QED
      BY ONLY <1>0, <3>1, <3>2, <3>3 DEF Intact
  <2> DEFINE b == Boundary[n + 2]
  <2>7. b \in Nat /\ taken \in Nat /\ b <= taken /\ taken <= Total
    BY ONLY <1>0, <2>3, <2>4
  <2>8. taken' = taken /\ n + 1 <= Packets /\ n + 1 + 1 = n + 2
    BY ONLY <1>0, <2>1, <2>5
  <2>9. IF b + 4 <= taken THEN start' = b /\ pc' = "cont_write"
                          ELSE start' = taken /\ pc' = "right_write"
    BY ONLY <2>3, <2>4 DEF HeaderLen
  \* The rest that is dropped is empty.
  <2>10. ASSUME taken < b + 4
         PROVE  taken = b
    <3>1. CASE n + 2 <= Packets
      <4>1. n + 2 \in 1 .. Packets
        BY ONLY <3>1, <1>0, Packets \in Nat
      <4>2. taken \notin b + 1 .. b + 3
        BY ONLY <4>1, <2>5, <2>7 DEF Header, HeaderLen
      <4> QED
        BY ONLY <4>2, <2>7, <2>10
    <3>2. CASE n + 2 = Packets + 1
      BY ONLY <3>2, <2>7 DEF Total
    <3> QED
      BY ONLY <3>1, <3>2, <2>1, <1>0, Packets \in Nat
  <2>11. start' = b
    BY ONLY <2>7, <2>9, <2>10
  <2>12. pc' = "cont_write" => start' < taken'
    BY ONLY <2>7, <2>8, <2>9
  <2>13. pc' # "left_read_handler"
    BY ONLY <2>9
  <2>14. InPlace'
    <3>1. \A i \in 1 .. Packets : taken' \notin Header(i)
      BY ONLY <2>5, <2>8
    <3>2. start' = Boundary[Len(delivered') + 1]
      BY ONLY <2>6, <2>8, <2>11
    <3> QED
      BY ONLY <3>1, <3>2, <2>6, <2>8, <2>12, <2>13 DEF InPlace, Header
  <2> QED
    BY ONLY <2>6, <2>14
<1>4. CASE ContWritten
  BY <1>4 DEF ContWritten, Intact, InPlace
<1>5. CASE RightWritten
  BY <1>5 DEF RightWritten, Intact, InPlace
<1>6. CASE UNCHANGED vars
  BY <1>6 DEF vars, Intact, InPlace
<1> QED
  BY <1>1, <1>2, <1>3, <1>4, <1>5, <1>6 DEF Next

\* What the reader knows of its place while headers arrive whole.
WholeInv == whole => (Intact /\ InPlace)

\* A header that was cut stays cut.
LEMMA WholeBefore == ASSUME [Next]_vars, whole' PROVE whole
<1>1. CASE Read
  BY <1>1, Zenon DEF Read
<1>2. CASE whole' = whole
  BY <1>2, Zenon
<1> QED
  BY <1>1, <1>2, Zenon DEF Next, Short, Incomplete, Deliver, Misread, ContWritten, RightWritten, vars

LEMMA PlaceKnown == Spec => []WholeInv
<1>1. Init => WholeInv
  BY Numbers DEF Init, WholeInv, Intact, InPlace, Header
<1>2. TypeOK /\ WholeInv /\ [Next]_vars => WholeInv'
  <2> SUFFICES ASSUME TypeOK, WholeInv, [Next]_vars, whole' PROVE (Intact /\ InPlace)'
    BY Zenon DEF WholeInv
  <2>1. Intact /\ InPlace
    BY WholeBefore, Zenon DEF WholeInv
  <2> QED
    BY <2>1, IntactNext
<1> QED
  BY <1>1, <1>2, ReaderTypes, PTL DEF Spec

\* Until a read ends within a header, left_read_handler delivers the packets
\* that were sent, each once and in order, whatever their number and size,
\* however else they are cut and joined on the way, and however small the buffer.
THEOREM StreamIntact == Spec => []IntactWhileWhole
<1>1. WholeInv => IntactWhileWhole
  BY Zenon DEF WholeInv, IntactWhileWhole
<1> QED
  BY <1>1, PlaceKnown, PTL

-----------------------------------------------------------------------------
\* The packets delivered so far lie before lss_request.
Behind == \A i \in DOMAIN delivered :
              delivered[i] # Garbage => Boundary[delivered[i] + 1] <= start

LEMMA NoneTwiceNext ==
  ASSUME TypeOK, NoneTwice, Behind, [Next]_vars
  PROVE  (NoneTwice /\ Behind)'
<1> USE Numbers DEF TypeOK, HeaderLen, Garbage
<1>1. CASE Deliver
  <2> DEFINE n == Len(delivered)
  <2>1. PICK len \in DataLen(start) :
           /\ start + HeaderLen + len <= taken
           /\ \/ start' = start + HeaderLen + len
              \/ start' = taken
    BY <1>1 DEF Deliver
  <2>2. start \in Nat /\ taken \in Nat /\ len \in Nat /\ Plain(start) \in 0 .. Packets
    BY LensArePlain
  <2>3. start' \in Nat /\ start' >= start + HeaderLen + len
    BY <2>1, <2>2
  <2>4. ASSUME Plain(start) # Garbage
        PROVE  /\ Plain(start) \in 1 .. Packets
               /\ start = Boundary[Plain(start)]
               /\ Boundary[Plain(start) + 1] <= start'
    <3>1. PICK i \in 1 .. Packets : start = Boundary[i]
      BY <2>4 DEF Plain, PacketAt
    <3>2. len \in {Boundary[i + 1] - Boundary[i] - 4} /\ Plain(start) = i
      BY <3>1, OnePacket
    <3>3. Boundary[i] \in Nat /\ Boundary[i + 1] \in Nat
      OBVIOUS
    <3>4. len = Boundary[i + 1] - start - 4
      BY ONLY <3>1, <3>2
    <3>5. Boundary[i + 1] <= start'
      BY ONLY <3>1, <3>3, <3>4, <2>2, <2>3 DEF HeaderLen
    <3> QED
      BY <3>1, <3>2, <3>5
  <2>5. /\ n \in Nat /\ DOMAIN delivered = 1 .. n
        /\ \A i \in 1 .. n : delivered[i] \in 0 .. Packets
        /\ DOMAIN delivered' = 1 .. n + 1
        /\ delivered'[n + 1] = Plain(start)
        /\ \A i \in 1 .. n : delivered'[i] = delivered[i]
    <3>1. delivered' = Append(delivered, Plain(start))
      BY <1>1 DEF Deliver
    <3>2. delivered \in Seq(0 .. Packets) /\ n \in Nat
      OBVIOUS
    <3>3. /\ n \in Nat /\ DOMAIN delivered = 1 .. n
          /\ \A i \in 1 .. n : delivered[i] \in 0 .. Packets
      BY ONLY <3>2, Packets \in Nat
    <3>4. DOMAIN delivered' = 1 .. n + 1
      BY ONLY <3>1, <3>2, <2>2
    <3>5. /\ delivered'[n + 1] = Plain(start)
          /\ \A i \in 1 .. n : delivered'[i] = delivered[i]
      BY ONLY <3>1, <3>2, <2>2
    <3> QED
      BY ONLY <3>3, <3>4, <3>5
  <2> HIDE DEF n, TypeOK
  <2>6. ASSUME NEW i \in 1 .. n, delivered[i] # Garbage
         PROVE  /\ delivered[i] \in 1 .. Packets
                /\ Boundary[delivered[i] + 1] \in Nat
                /\ Boundary[delivered[i] + 1] <= start
    <3>1. Boundary[delivered[i] + 1] <= start
      BY ONLY <2>5, <2>6, Behind DEF Behind
    <3>2. delivered[i] \in 1 .. Packets
      BY ONLY <2>5, <2>6, Packets \in Nat DEF Garbage
    <3> QED
      BY <3>1, <3>2
  <2>7. Behind'
    <3>1. ASSUME NEW i \in 1 .. n, delivered[i] # Garbage
          PROVE  Boundary[delivered[i] + 1] <= start'
      <4>1. Boundary[delivered[i] + 1] \in Nat /\ Boundary[delivered[i] + 1] <= start
        BY ONLY <2>6, <3>1
      <4> QED
        BY ONLY <4>1, <2>2, <2>3 DEF HeaderLen
    <3>2. delivered'[n + 1] # Garbage => Boundary[delivered'[n + 1] + 1] <= start'
      BY ONLY <2>4, <2>5
    <3>3. ASSUME NEW i \in 1 .. n + 1, delivered'[i] # Garbage
          PROVE  Boundary[delivered'[i] + 1] <= start'
      <4>1. CASE i = n + 1
        BY ONLY <3>2, <3>3, <4>1
      <4>2. CASE i \in 1 .. n
        BY ONLY <3>1, <3>3, <4>2, <2>5
      <4> QED
        BY ONLY <4>1, <4>2, <2>5
    <3> QED
      BY ONLY <3>3, <2>5 DEF Behind
  <2>8. NoneTwice'
    <3>1. ASSUME NEW i \in 1 .. n, delivered[i] # Garbage, Plain(start) # Garbage
          PROVE  delivered[i] < Plain(start)
      <4>1. delivered[i] \in 1 .. Packets /\ Boundary[delivered[i] + 1] <= start
        BY <3>1, <2>6
      <4>2. Plain(start) \in 1 .. Packets /\ start = Boundary[Plain(start)]
        BY <3>1, <2>4
      <4>3. ~ (Plain(start) < delivered[i] + 1)
        BY <4>1, <4>2
      <4> QED
        BY <4>1, <4>2, <4>3
    <3>2. ASSUME NEW i \in 1 .. n, NEW j \in 1 .. n, i < j,
                 delivered[i] # Garbage, delivered[j] # Garbage
          PROVE  delivered[i] < delivered[j]
      BY ONLY <3>2, <2>5, NoneTwice DEF NoneTwice
    <3> QED
      BY ONLY <3>1, <3>2, <2>5 DEF NoneTwice, Garbage
  <2> QED
    BY <2>7, <2>8
<1>2. CASE UNCHANGED <<start, delivered>>
  BY <1>2 DEF NoneTwice, Behind
<1> QED
  BY <1>1, <1>2 DEF Next, Read, Short, Incomplete, Misread, ContWritten, RightWritten, vars

\* Even when a read ends within a header and bytes are taken for a header that
\* are none, no packet is delivered a second time or after a later one: the
\* reader only ever moves forward.
THEOREM StreamForward == Spec => []NoneTwice
<1>1. Init => NoneTwice /\ Behind
  BY DEF Init, NoneTwice, Behind
<1> QED
  BY <1>1, NoneTwiceNext, ReaderTypes, PTL DEF Spec

-----------------------------------------------------------------------------
(* The packets keep coming.                                                 *)

\* The packet that is delivered next, and its data.
LEMMA NextPacket ==
  ASSUME TypeOK, InPlace, Len(delivered) < Packets
  PROVE  /\ Boundary[Len(delivered) + 2] \in Nat
         /\ start + HeaderLen <= Boundary[Len(delivered) + 2]
         /\ Boundary[Len(delivered) + 2] <= Total
         /\ DataLen(start) = {Boundary[Len(delivered) + 2] - start - HeaderLen}
         /\ PacketAt(start) # {}
<1> DEFINE n == Len(delivered)
<1>1. n \in Nat /\ n < Packets /\ start = Boundary[n + 1]
  BY DEF TypeOK, InPlace
<1> HIDE DEF n
<1>2. n + 1 \in 1 .. Packets /\ n + 2 \in 1 .. Packets + 1 /\ n + 1 + 1 = n + 2
  BY <1>1, Numbers
<1>3. DataLen(start) = {Boundary[n + 2] - start - HeaderLen} /\ PacketAt(start) = {n + 1}
  BY <1>1, <1>2, OnePacket
<1>4. Boundary[n + 2] \in Nat /\ Boundary[n + 2] >= Boundary[n + 1] + 4
  BY <1>2, Numbers
<1>5. Boundary[n + 2] <= Total
  <2>1. CASE n + 2 = Packets + 1
    BY <1>4, <2>1 DEF Total
  <2>2. CASE n + 2 < Packets + 1
    BY <1>2, <1>4, <2>2, Numbers DEF Total
  <2> QED
    BY <1>1, <2>1, <2>2, Numbers
<1>6. Boundary[n + 1] \in Nat
  BY <1>2, Numbers
<1> QED
  BY <1>1, <1>3, <1>4, <1>5, <1>6 DEF n, HeaderLen

\* left_read_handler finds a header, and the one of a packet.
LEMMA NeverLost == ASSUME TypeOK, InPlace PROVE ~ Short /\ ~ Misread
<1> SUFFICES ASSUME pc = "left_read_handler" PROVE ~ Short /\ ~ Misread
  BY DEF Short, Misread
<1>1. start < taken /\ start \in Nat /\ taken \in Nat /\ taken <= Total /\ Len(delivered) \in Nat
  BY Numbers DEF InPlace, TypeOK
<1>2. Len(delivered) < Packets
  BY <1>1, Numbers DEF InPlace, Total
<1>3. ~ Misread
  BY <1>2, NextPacket DEF Misread
<1>4. taken \notin Header(Len(delivered) + 1)
  BY <1>1, <1>2, Numbers DEF InPlace
<1>5. taken - start >= HeaderLen
  BY <1>1, <1>4 DEF Header, HeaderLen, InPlace
<1> QED
  BY <1>1, <1>3, <1>5 DEF Short, HeaderLen

\* A read is started only where the next packet has not arrived in whole.
MoreComes ==
    /\ pc # "cancelled"
    /\ pc = "right_write" => start = taken
    /\ pc = "read" /\ Len(delivered) < Packets => taken < Boundary[Len(delivered) + 2]

WholeMore == whole => MoreComes

LEMMA MoreNext ==
  ASSUME TypeOK, InPlace, MoreComes, [Next]_vars
  PROVE  MoreComes'
<1> USE DEF MoreComes
<1>1. CASE Read \/ ContWritten
  BY <1>1 DEF Read, ContWritten
<1>2. CASE Incomplete
  <2>1. PICK len \in DataLen(start) : len + HeaderLen > taken - start
    BY <1>2 DEF Incomplete
  <2>2. ASSUME Len(delivered) < Packets
        PROVE  taken < Boundary[Len(delivered) + 2]
    BY <2>1, <2>2, NextPacket DEF HeaderLen, TypeOK
  <2> QED
    BY <1>2, <2>2 DEF Incomplete
<1>3. CASE Deliver
  <2>1. pc' = "right_write" => start' = taken'
    BY <1>3, Zenon DEF Deliver
  <2>2. pc' # "read" /\ pc' # "cancelled"
    BY <1>3 DEF Deliver
  <2> QED
    BY <2>1, <2>2
<1>4. CASE RightWritten
  <2>1. ASSUME Len(delivered) < Packets
        PROVE  taken < Boundary[Len(delivered) + 2]
    BY <1>4, <2>1, NextPacket DEF RightWritten, HeaderLen, TypeOK
  <2> QED
    BY <1>4, <2>1 DEF RightWritten
<1>5. CASE UNCHANGED vars
  BY <1>5 DEF vars
<1> QED
  BY <1>1, <1>2, <1>3, <1>4, <1>5, NeverLost DEF Next

\* Where the reader is between two packets, with n bytes read and packets
\* delivered, and what it gets to.
Lagging(n) == whole /\ Len(delivered) < Packets /\ taken + Len(delivered) = n
Finished   == Len(delivered) = Packets \/ ~ whole
Ahead(n)   == Finished \/ \E m \in n + 1 .. Total + Packets : Lagging(m)

At(n, place) == Lagging(n) /\ pc = place

Known == TypeOK /\ WholeInv /\ WholeMore

LEMMA KnownAlways == Spec => []Known
<1>1. Init => WholeMore
  BY Numbers DEF Init, WholeMore, MoreComes
<1>2. TypeOK /\ WholeInv /\ WholeMore /\ [Next]_vars => WholeMore'
  BY WholeBefore, MoreNext, Zenon DEF WholeInv, WholeMore
<1> QED
  BY <1>1, <1>2, ReaderTypes, PlaceKnown, PTL DEF Spec, Known

\* More bytes, or a packet more, is ahead.
LEMMA AheadOf ==
  ASSUME NEW n \in Nat, Lagging(n), Known, Known',
         taken' + Len(delivered') > taken + Len(delivered)
  PROVE  Ahead(n)'
<1> SUFFICES ASSUME ~ Finished' PROVE \E m \in n + 1 .. Total + Packets : Lagging(m)'
  BY DEF Ahead
<1>1. /\ whole' /\ InPlace' /\ Len(delivered') # Packets
  BY Zenon DEF Finished, Known, WholeInv
<1>2. /\ Len(delivered) \in Nat /\ taken \in Nat
      /\ Len(delivered') \in Nat /\ taken' \in Nat /\ taken' <= Total
  BY Numbers DEF Known, TypeOK
<1>3. Len(delivered') < Packets
  BY <1>1, <1>2, Numbers DEF InPlace
<1>4. PICK m \in n + 1 .. Total + Packets : m = taken' + Len(delivered')
  BY <1>2, <1>3, Numbers DEF Lagging
<1>5. Lagging(m)'
  BY <1>1, <1>3, <1>4, Zenon DEF Lagging
<1> QED
  BY <1>5, Zenon

\* While the reader lags behind a step takes it ahead, or from one place to the
\* next; it is never cancelled.
LEMMA LaggingSteps ==
  ASSUME NEW n \in Nat, Lagging(n), Known, Known', <<Next>>_vars
  PROVE  \/ Ahead(n)'
         \/ pc = "right_write" /\ At(n, "read")'
         \/ pc = "cont_write" /\ At(n, "left_read_handler")'
         \/ pc = "left_read_handler" /\ At(n, "read")'
<1>0. /\ InPlace /\ TypeOK /\ Len(delivered) < Packets
      /\ Len(delivered) \in Nat /\ taken \in Nat
  <2>1. InPlace /\ TypeOK /\ Len(delivered) < Packets
    BY Zenon DEF Known, WholeInv, Lagging
  <2> QED
    BY <2>1, Numbers DEF TypeOK
<1>1. CASE Read
  <2>1. taken' \in Nat /\ taken' > taken /\ delivered' = delivered
    BY <1>0, <1>1 DEF Read, TypeOK
  <2>2. taken' + Len(delivered') > taken + Len(delivered)
    BY <1>0, <2>1
  <2> QED
    BY <2>2, AheadOf
<1>2. CASE Incomplete
  BY <1>2 DEF Incomplete, Lagging, At
<1>3. CASE Deliver
  <2>1. Len(delivered') = Len(delivered) + 1 /\ taken' = taken
    BY <1>0, <1>3 DEF Deliver, TypeOK
  <2>2. taken' + Len(delivered') > taken + Len(delivered)
    BY <1>0, <2>1
  <2> QED
    BY <2>2, AheadOf
<1>4. CASE ContWritten
  BY <1>4 DEF ContWritten, Lagging, At
<1>5. CASE RightWritten
  BY <1>5 DEF RightWritten, Lagging, At
<1> QED
  BY <1>0, <1>1, <1>2, <1>3, <1>4, <1>5, NeverLost DEF Next

LEMMA LaggingCan ==
  ASSUME NEW n \in Nat, Lagging(n), Known
  PROVE  /\ CanStep
         /\ pc \in {"read", "left_read_handler", "cont_write", "right_write"}
<1>1. InPlace /\ TypeOK /\ MoreComes /\ Len(delivered) < Packets
  BY Zenon DEF Known, WholeInv, WholeMore, Lagging
<1>2. pc = "read" => taken < Total
  BY <1>1, NextPacket, Numbers DEF MoreComes, TypeOK
<1> QED
  BY <1>1, <1>2 DEF MoreComes, CanStep, TypeOK

\* While packets are missing and every header arrives in one piece the reader
\* gets on: from n bytes read and packets delivered to more of them.  As n is
\* at most Total + Packets this is the step of an induction whose conclusion is
\* AllDelivered.
THEOREM ReaderGetsOn == \A n \in Nat : FairSpec => (Lagging(n) ~> Ahead(n))
<1> SUFFICES ASSUME NEW n \in Nat PROVE FairSpec => (Lagging(n) ~> Ahead(n))
  OBVIOUS
<1> DEFINE R == At(n, "read")
           H == At(n, "left_read_handler")
           C == At(n, "cont_write")
           W == At(n, "right_write")
<1>1. Known /\ Known' /\ R /\ [Next]_vars => R' \/ Ahead(n)'
  BY LaggingSteps DEF At, Lagging, vars
<1>2. Known /\ Known' /\ R /\ <<Next>>_vars => Ahead(n)'
  BY LaggingSteps DEF At
<1>3. Known /\ Known' /\ W /\ [Next]_vars => W' \/ R' \/ Ahead(n)'
  BY LaggingSteps DEF At, Lagging, vars
<1>4. Known /\ Known' /\ W /\ <<Next>>_vars => R' \/ Ahead(n)'
  BY LaggingSteps DEF At
<1>5. Known /\ Known' /\ H /\ [Next]_vars => H' \/ R' \/ Ahead(n)'
  BY LaggingSteps DEF At, Lagging, vars
<1>6. Known /\ Known' /\ H /\ <<Next>>_vars => R' \/ Ahead(n)'
  BY LaggingSteps DEF At
<1>7. Known /\ Known' /\ C /\ [Next]_vars => C' \/ H' \/ Ahead(n)'
  BY LaggingSteps DEF At, Lagging, vars
<1>8. Known /\ Known' /\ C /\ <<Next>>_vars => H' \/ Ahead(n)'
  BY LaggingSteps DEF At
<1>9. Known /\ (R \/ H \/ C \/ W) => CanStep
  BY LaggingCan DEF At
<1>10. Known /\ Lagging(n) => R \/ H \/ C \/ W
  BY LaggingCan DEF At
<1> HIDE DEF R, H, C, W
<1> QED
  BY <1>1, <1>2, <1>3, <1>4, <1>5, <1>6, <1>7, <1>8, <1>9, <1>10, KnownAlways, PTL
  DEF FairSpec, Spec

\* The induction begins with nothing read and nothing delivered.
LEMMA ReaderBegins == Init => Lagging(0)
  BY Numbers DEF Init, Lagging
=============================================================================

------------------------- MODULE VirtioBlkProofs --------------------------
(***************************************************************************)
(* Proofs about VirtioBlk for every queue size, index width, disk and      *)
(* caller bound the assumptions allow.                                     *)
(***************************************************************************)
EXTENDS VirtioBlk, Integers, SequenceTheorems, TLAPS

\* The constants as the provers need them.
LEMMA BlkConstFacts ==
  /\ IdxMod \in Nat /\ Q \in Nat /\ 4 <= Q /\ Q <= IdxMod
  /\ SectorMod \in Nat /\ SectorMod > 0
  /\ BlkSizes \subseteq Nat
  /\ MaxCnt \in Nat /\ CmaSlots \in Nat
  /\ MaxOutstanding \in Nat
  /\ Q <= 32768
  /\ BufAddrs \subseteq [1 .. 4 -> U16]
<1>0. QSize <= 32768 /\ BufAddrs \subseteq [1 .. 4 -> U16]
  BY BlkConstAssumption DEF BlkConstAssumption, U16
<1>1. IdxMod \in Nat /\ QSize \in 4 .. IdxMod
  BY BlkConstAssumption DEF BlkConstAssumption
<1>2. SectorMod \in Nat \ {0} /\ BlkSizes \subseteq Nat \ {0}
  BY BlkConstAssumption DEF BlkConstAssumption
<1>3. MaxCnt \in Nat /\ {Capacity, MaxBlock, CmaSlots} \subseteq Nat
  BY BlkConstAssumption DEF BlkConstAssumption
<1>4. MaxOutstanding \in 1 .. QSize
  BY BlkConstAssumption DEF BlkConstAssumption
<1>5. QED
  BY <1>0, <1>1, <1>2, <1>3, <1>4 DEF Q, U16

-----------------------------------------------------------------------------
(* The values the driver computes.                                         *)

LEMMA Inc16Type ==
  ASSUME NEW x \in Nat PROVE Inc16(x) \in Idx
BY BlkConstFacts DEF Inc16, Idx

\* virtioblk_transfer's chain head (avail_idx * 3) % size is a descriptor.
LEMMA ChainHeadType ==
  ASSUME NEW a \in Nat PROVE ChainHead(a) \in DescId
BY BlkConstFacts DEF ChainHead, DescId

\* The header's sector fits the uint32_t it passes through.
LEMMA HdrSectorType ==
  ASSUME NEW b \in Nat, blkSize \in Nat
  PROVE  HdrSector(b) \in 0 .. SectorMod - 1
BY BlkConstFacts DEF HdrSector

ReqType == [op : Ops, sector : 0 .. SectorMod - 1, cnt : 0 .. MaxCnt]

LEMMA ZeroDescType == ZeroDesc \in Desc
<1>1. NoReq \in ReqType
  BY BlkConstFacts DEF NoReq, ReqType, Ops, VIRTIO_BLK_T_IN, VIRTIO_BLK_T_OUT
<1>2. QED
  BY <1>1, BlkConstFacts DEF ZeroDesc, Desc, ReqType, Parts, Idx

\* The three descriptors of a request keep the table well typed.
LEMMA ChainDescsType ==
  ASSUME desc \in [DescId -> Desc], NEW id \in DescId, NEW s \in Idx,
         NEW t \in Ops, NEW r \in ReqType
  PROVE  ChainDescs(id, s, t, r) \in [DescId -> Desc]
<1>1. /\ id + 1 \in 0 .. Q + 1 /\ id + 2 \in 0 .. Q + 1 /\ 0 \in 0 .. Q + 1
  BY BlkConstFacts DEF DescId
<1>2. DataFlags(t) \in SUBSET {"NEXT", "WRITE"}
  BY DEF DataFlags
<1>3. NoReq \in ReqType
  BY BlkConstFacts DEF NoReq, ReqType, Ops, VIRTIO_BLK_T_IN, VIRTIO_BLK_T_OUT
<1>4. /\ HdrDesc(id, s, r) \in Desc
      /\ DataDesc(id, s, t) \in Desc
      /\ StatusDesc(s) \in Desc
  BY <1>1, <1>2, <1>3 DEF Desc, ReqType, Parts, HdrDesc, DataDesc, StatusDesc
<1>5. ASSUME NEW i \in DescId PROVE ChainDescs(id, s, t, r)[i] \in Desc
  <2>1. CASE i = id
    BY <1>4, <2>1 DEF ChainDescs
  <2>2. CASE i # id /\ i = id + 1
    BY <1>4, <2>2 DEF ChainDescs
  <2>3. CASE i # id /\ i # id + 1 /\ i = id + 2
    BY <1>4, <2>3 DEF ChainDescs
  <2>4. CASE i # id /\ i # id + 1 /\ i # id + 2
    BY <2>4 DEF ChainDescs
  <2>5. QED
    BY <2>1, <2>2, <2>3, <2>4
<1>6. QED
  BY <1>5 DEF ChainDescs

\* The eight words virtio_fill_desc stores for a descriptor are 16-bit
\* values, whatever the byte order.
LEMMA DescWordsType ==
  ASSUME NEW addr \in [1 .. 4 -> U16], NEW len \in Nat, NEW d,
         d.flags \subseteq {"NEXT", "WRITE"}, d.next \in U16
  PROVE  \A k \in 1 .. 8 : DescWords(addr, len, d)[k] \in U16
<1>1. /\ len % 65536 \in U16 /\ (len \div 65536) % 65536 \in U16
      /\ (IF "NEXT" \in d.flags THEN 1 ELSE 0)
           + (IF "WRITE" \in d.flags THEN 2 ELSE 0) \in U16
  BY DEF U16
<1>2. /\ addr[1] \in U16 /\ addr[2] \in U16 /\ addr[3] \in U16
      /\ addr[4] \in U16
  OBVIOUS
<1>3. QED
  BY <1>1, <1>2 DEF DescWords

\* A descriptor stored past the table leaves the avail ring a ring of
\* 16-bit words.
LEMMA SpillType ==
  ASSUME NEW ring \in [DescId -> U16], NEW p \in Nat, NEW w,
         \A k \in 1 .. 8 : w[k] \in U16
  PROVE  SpillOntoRing(ring, p, w) \in [DescId -> U16]
<1>1. ASSUME NEW j \in DescId, p >= Q, j + 2 - 8 * (p - Q) \in 0 .. 7
      PROVE  j + 3 - 8 * (p - Q) \in 1 .. 8
  BY <1>1, BlkConstFacts DEF DescId
<1>2. QED
  BY <1>1 DEF SpillOntoRing

\* The head the device takes from a well-formed queue is a descriptor.
LEMMA HostHeadType ==
  ASSUME ChainOK PROVE HostHead \in DescId
BY DEF ChainOK

-----------------------------------------------------------------------------
(* Type correctness.                                                       *)

LEMMA InitType == Init => BlkTypeOK
<1> SUFFICES ASSUME Init PROVE BlkTypeOK
  OBVIOUS
<1>1. desc \in [DescId -> Desc]
  BY ZeroDescType DEF Init
<1>2. avail \in [idx : Idx, ring : [DescId -> U16]]
      /\ used \in [idx : Idx, ring : [DescId -> DescId]]
  BY BlkConstFacts DEF Init, ZeroRing, Idx, DescId, U16
<1>3. hostAvail \in Idx /\ nsub \in Idx /\ cma \in 0 .. CmaSlots
  BY BlkConstFacts DEF Init, Idx
<1>4. subq \in Seq(Submission) /\ Len(subq) <= MaxOutstanding
  BY BlkConstFacts, EmptySeq DEF Init
<1>5. QED
  BY <1>1, <1>2, <1>3, <1>4 DEF Init, BlkTypeOK

\* A reset keeps the device's part well typed.
LEMMA ResetType ==
  ASSUME BlkTypeOK, DeviceReset
  PROVE  hostAvail' \in Idx /\ broken' \in BOOLEAN
         /\ subq' \in Seq(Submission) /\ Len(subq') <= MaxOutstanding
<1>0. 0 \in Idx
  BY BlkConstFacts DEF Idx
<1>1. hostAvail' \in Idx /\ broken' \in BOOLEAN
  BY <1>0 DEF DeviceReset
<1>2. <<>> \in Seq(Submission) /\ Len(<<>>) = 0
  BY EmptySeq
<1>3. QED
  BY <1>1, <1>2, BlkConstFacts DEF DeviceReset

LEMMA InitFailsType ==
  ASSUME BlkTypeOK, InitNegotiationFails \/ InitQueueFails PROVE BlkTypeOK'
<1>1. status' \subseteq {ACK, DRIVER, FEATURES_OK, DRIVER_OK, FAILED}
  BY DEF InitNegotiationFails, InitQueueFails, NegotiatedStatus
<1>2. QED
  BY <1>1, ResetType DEF InitNegotiationFails, InitQueueFails, BlkTypeOK

LEMMA InitSucceedsType ==
  ASSUME BlkTypeOK, InitSucceeds PROVE BlkTypeOK'
<1>1. desc' \in [DescId -> Desc]
  BY ZeroDescType DEF InitSucceeds
<1>2. /\ avail' \in [idx : Idx, ring : [DescId -> U16]]
      /\ used' \in [idx : Idx, ring : [DescId -> DescId]]
  BY BlkConstFacts DEF InitSucceeds, ZeroRing, Idx, DescId, U16
<1>3. cma' \in 0 .. CmaSlots /\ nsub' \in Idx
  BY BlkConstFacts DEF InitSucceeds, BlkTypeOK, Idx
<1>4. status' \subseteq {ACK, DRIVER, FEATURES_OK, DRIVER_OK, FAILED}
  BY DEF InitSucceeds, NegotiatedStatus
<1>5. QED
  BY <1>1, <1>2, <1>3, <1>4, ResetType DEF InitSucceeds, BlkTypeOK

LEMMA ShutdownType ==
  ASSUME BlkTypeOK, Shutdown PROVE BlkTypeOK'
BY ResetType DEF Shutdown, BlkTypeOK

\* virtioblk_transfer keeps every variable well typed.
LEMMA TransferType ==
  ASSUME BlkTypeOK, NEW b \in 0 .. MaxBlock, NEW c \in 1 .. MaxCnt,
         NEW t \in Ops, Transfer(b, c, t)
  PROVE  BlkTypeOK'
<1> DEFINE id == ChainHead(avail.idx)
           r == [op |-> t, sector |-> HdrSector(b), cnt |-> c]
           e == [seq |-> nsub, op |-> t, sector |-> b * blkSize, cnt |-> c]
<1>1. avail.idx \in Nat /\ nsub \in Nat /\ blkSize \in Nat
  BY BlkConstFacts DEF BlkTypeOK, Idx
<1>2. id \in DescId
  BY <1>1, ChainHeadType
<1>3. r \in ReqType
  <2>1. HdrSector(b) \in 0 .. SectorMod - 1
    BY <1>1, HdrSectorType, BlkConstFacts
  <2>2. c \in 0 .. MaxCnt
    BY BlkConstFacts
  <2>3. QED
    BY <2>1, <2>2 DEF ReqType
<1>4. nsub \in Idx
  BY DEF BlkTypeOK
<1>5. desc' \in [DescId -> Desc]
  BY <1>2, <1>3, <1>4, ChainDescsType DEF Transfer, BlkTypeOK
<1>6. (avail.idx % Q) % Q \in DescId /\ NextAvailIdx(avail.idx) \in Idx
  <2>1. avail.idx % Q \in Nat
    BY <1>1, BlkConstFacts
  <2>2. QED
    BY <1>1, <2>1, Inc16Type, BlkConstFacts DEF NextAvailIdx, DescId
<1>7. avail' \in [idx : Idx, ring : [DescId -> U16]]
  <2> DEFINE a == avail.idx % Q
  <2>1. PICK hdrPa \in BufAddrs, bufPa \in BufAddrs, statusPa \in BufAddrs :
          LET spilt == SpillOntoRing(SpillOntoRing(SpillOntoRing(
                         avail.ring, id, DescWords(hdrPa, 16, HdrDesc(id, nsub, r))),
                         id + 1, DescWords(bufPa, c * blkSize * 512,
                                           DataDesc(id, nsub, t))),
                         id + 2, DescWords(statusPa, 1, StatusDesc(nsub)))
          IN  avail' = [avail EXCEPT !.ring = [spilt EXCEPT ![a % Q] = id],
                                     !.idx = NextAvailIdx(avail.idx)]
    BY DEF Transfer
  <2>2. /\ id \in Nat /\ id + 1 \in Nat /\ id + 2 \in Nat
        /\ id + 1 \in U16 /\ id + 2 \in U16 /\ 0 \in U16 /\ id \in U16
        /\ 16 \in Nat /\ 1 \in Nat /\ c * blkSize * 512 \in Nat
    BY <1>1, <1>2, BlkConstFacts DEF DescId, U16
  <2>3. /\ hdrPa \in [1 .. 4 -> U16] /\ bufPa \in [1 .. 4 -> U16]
        /\ statusPa \in [1 .. 4 -> U16]
    BY <2>1, BlkConstFacts
  <2>4. /\ \A k \in 1 .. 8 : DescWords(hdrPa, 16, HdrDesc(id, nsub, r))[k] \in U16
        /\ \A k \in 1 .. 8 : DescWords(bufPa, c * blkSize * 512,
                                        DataDesc(id, nsub, t))[k] \in U16
        /\ \A k \in 1 .. 8 : DescWords(statusPa, 1, StatusDesc(nsub))[k] \in U16
    <3>1. /\ HdrDesc(id, nsub, r).flags \subseteq {"NEXT", "WRITE"}
          /\ HdrDesc(id, nsub, r).next \in U16
          /\ DataDesc(id, nsub, t).flags \subseteq {"NEXT", "WRITE"}
          /\ DataDesc(id, nsub, t).next \in U16
          /\ StatusDesc(nsub).flags \subseteq {"NEXT", "WRITE"}
          /\ StatusDesc(nsub).next \in U16
      BY <2>2 DEF HdrDesc, DataDesc, StatusDesc, DataFlags
    <3>2. QED
      BY <2>2, <2>3, <3>1, DescWordsType
  <2>5. avail.ring \in [DescId -> U16]
    BY DEF BlkTypeOK
  <2>6. SpillOntoRing(SpillOntoRing(SpillOntoRing(
          avail.ring, id, DescWords(hdrPa, 16, HdrDesc(id, nsub, r))),
          id + 1, DescWords(bufPa, c * blkSize * 512, DataDesc(id, nsub, t))),
          id + 2, DescWords(statusPa, 1, StatusDesc(nsub))) \in [DescId -> U16]
    <3> DEFINE s1 == SpillOntoRing(avail.ring, id,
                       DescWords(hdrPa, 16, HdrDesc(id, nsub, r)))
               s2 == SpillOntoRing(s1, id + 1, DescWords(bufPa, c * blkSize * 512,
                                                     DataDesc(id, nsub, t)))
    <3>1. s1 \in [DescId -> U16]
      BY <2>2, <2>4, <2>5, SpillType
    <3>2. s2 \in [DescId -> U16]
      BY <2>2, <2>4, <3>1, SpillType
    <3>3. QED
      BY <2>2, <2>4, <3>2, SpillType
  <2>7. QED
    BY <1>6, <2>1, <2>2, <2>6 DEF BlkTypeOK
<1>8. nsub' \in Idx
  BY <1>1, Inc16Type DEF Transfer
<1>9. e \in Submission
  <2>1. b * blkSize \in Nat
    BY <1>1, BlkConstFacts
  <2>2. QED
    BY <1>4, <2>1 DEF Submission
<1>10. subq' \in Seq(Submission) /\ Len(subq') <= MaxOutstanding
  <2>1. subq' = Append(subq, e) /\ Len(subq) < MaxOutstanding
    BY DEF Transfer
  <2>2. subq \in Seq(Submission)
    BY DEF BlkTypeOK
  <2>3. QED
    BY <1>9, <2>1, <2>2, AppendProperties, BlkConstFacts
<1>11. QED
  BY <1>5, <1>7, <1>8, <1>10 DEF Transfer, BlkTypeOK

\* The device's step keeps every variable well typed.
LEMMA HostBlkType ==
  ASSUME BlkTypeOK, HostBlk PROVE BlkTypeOK'
<1>1. HostHead \in DescId
  BY HostHeadType DEF HostBlk
<1>2. used.idx \in Nat /\ hostAvail \in Nat
  BY BlkConstFacts DEF BlkTypeOK, Idx
<1>3. used.idx % Q \in DescId /\ Inc16(used.idx) \in Idx
  BY <1>2, Inc16Type, BlkConstFacts DEF DescId
<1>4. used' \in [idx : Idx, ring : [DescId -> DescId]]
  BY <1>1, <1>3 DEF HostBlk, BlkTypeOK
<1>5. hostAvail' \in Idx
  BY <1>2, Inc16Type DEF HostBlk
<1>6. subq' \in Seq(Submission) /\ Len(subq') <= MaxOutstanding
  <2>1. CASE subq = <<>>
    BY <2>1 DEF HostBlk, BlkTypeOK
  <2>2. CASE subq # <<>>
    <3>1. subq \in Seq(Submission) /\ Len(subq) <= MaxOutstanding
      BY DEF BlkTypeOK
    <3>2. subq' = Tail(subq)
      BY <2>2 DEF HostBlk
    <3>3. QED
      BY <2>2, <3>1, <3>2, HeadTailProperties, BlkConstFacts
  <2>3. QED
    BY <2>1, <2>2
<1>7. QED
  BY <1>4, <1>5, <1>6 DEF HostBlk, BlkTypeOK

LEMMA HostBlkErrorType ==
  ASSUME BlkTypeOK, HostBlkError PROVE BlkTypeOK'
BY DEF HostBlkError, BlkTypeOK

\* Every step of the driver and the device keeps every variable well typed.
LEMMA NextType ==
  ASSUME BlkTypeOK, [Next]_vars PROVE BlkTypeOK'
<1>1. CASE InitNegotiationFails \/ InitQueueFails
  BY <1>1, InitFailsType
<1>2. CASE InitSucceeds
  BY <1>2, InitSucceedsType
<1>3. CASE Shutdown
  BY <1>3, ShutdownType
<1>4. CASE \E b \in 0 .. MaxBlock, c \in 1 .. MaxCnt, t \in Ops : Transfer(b, c, t)
  BY <1>4, TransferType
<1>5. CASE HostBlk
  BY <1>5, HostBlkType
<1>6. CASE HostBlkError
  BY <1>6, HostBlkErrorType
<1>7. CASE UNCHANGED vars
  BY <1>7 DEF vars, BlkTypeOK
<1>8. QED
  BY <1>1, <1>2, <1>3, <1>4, <1>5, <1>6, <1>7 DEF Next

(* Type correctness of the block driver and its device, for every queue    *)
(* size, index width, disk, buffer address and byte order: every word a    *)
(* chain descriptor past the table stores on the avail ring is a u16, the  *)
(* used ring holds only descriptor ids because the device takes only a     *)
(* head inside the table, the header sector stays inside its uint32_t,     *)
(* and the caller never has more than MaxOutstanding requests with the     *)
(* device.                                                                 *)
THEOREM BlkTypeCorrect == Spec => []BlkTypeOK
<1>1. Init => BlkTypeOK
  BY InitType
<1>2. BlkTypeOK /\ [Next]_vars => BlkTypeOK'
  BY NextType
<1>3. QED
  BY <1>1, <1>2, PTL DEF Spec

-----------------------------------------------------------------------------
(* A serial caller: virtioblk_transfer is called again only after the     *)
(* device has taken the previous request (MaxOutstanding = 1).            *)

\* The chain at head id describes submission e, as far as it lies inside the
\* table: the header, then the data and status descriptors it links to.
ChainMatches(id, e) ==
  /\ desc[id].part = "hdr" /\ desc[id].seq = e.seq
  /\ desc[id].req.op = e.op /\ desc[id].req.cnt = e.cnt
  /\ desc[id].next = id + 1 /\ "NEXT" \in desc[id].flags
  /\ id + 1 < Q =>
       /\ desc[id + 1].part = "data" /\ desc[id + 1].seq = e.seq
       /\ desc[id + 1].next = id + 2 /\ "NEXT" \in desc[id + 1].flags
       /\ ("WRITE" \in desc[id + 1].flags <=> e.op = VIRTIO_BLK_T_IN)
  /\ id + 2 < Q =>
       /\ desc[id + 2].part = "status" /\ desc[id + 2].seq = e.seq

\* What a serial caller keeps true: with no request outstanding the device's
\* cursor is at avail->idx; with one, either the cursor is further from
\* avail->idx than the queue holds, so the device will refuse the queue, or
\* the entry at the cursor is the chain of that request.
SerialInv ==
  /\ BlkTypeOK
  /\ DeviceLive => ready
  /\ ready => avail.idx <= Q
  /\ ready /\ ~broken /\ subq = <<>> => hostAvail = avail.idx
  /\ ready /\ ~broken /\ subq # <<>> =>
       \/ Dist(hostAvail, avail.idx) > Q
       \/ /\ avail.idx = Inc16(hostAvail)
          /\ avail.ring[hostAvail % Q] = ChainHead(hostAvail)
          /\ ChainMatches(ChainHead(hostAvail), subq[1])


\* The index space holds at least two rounds of the queue when it holds more
\* than one, because the queue size divides it.
LEMMA IdxModTwice ==
  ASSUME Q < IdxMod PROVE 2 * Q <= IdxMod
<1>1. IdxMod % Q = 0 /\ Q \in Nat /\ Q > 0
  BY BlkConstAssumption, BlkConstFacts DEF BlkConstAssumption, Q
<1>2. IdxMod = Q * (IdxMod \div Q)
  BY <1>1, BlkConstFacts
<1>3. IdxMod \div Q \in Nat /\ IdxMod \div Q >= 2
  BY <1>1, <1>2, BlkConstFacts
<1>4. QED
  BY <1>2, <1>3, BlkConstFacts

LEMMA SerialInit == Init => SerialInv
<1> SUFFICES ASSUME Init PROVE SerialInv
  OBVIOUS
<1>1. BlkTypeOK
  BY InitType
<1>2. QED
  BY <1>1 DEF Init, SerialInv, DeviceLive

\* A step of the device taken from a state of a serial caller is the
\* execution ExecutesSubmitted asks for.
LEMMA SerialExecutes ==
  ASSUME SerialInv, HostBlk
  PROVE  /\ subq # <<>>
         /\ <<desc[HostHead].part, desc[HostData].part, desc[HostStatus].part>>
              = <<"hdr", "data", "status">>
         /\ \A d \in {HostHead, HostData, HostStatus} : desc[d].seq = subq[1].seq
         /\ desc[HostHead].req.op = subq[1].op
         /\ desc[HostHead].req.cnt = subq[1].cnt
         /\ ("WRITE" \in desc[HostData].flags <=> subq[1].op = VIRTIO_BLK_T_IN)
<1>1. ready /\ ~broken /\ hostAvail # avail.idx /\ ChainOK
  BY DEF SerialInv, HostBlk
<1>2. subq # <<>>
  BY <1>1 DEF SerialInv
<1>3. /\ avail.ring[hostAvail % Q] = ChainHead(hostAvail)
      /\ ChainMatches(ChainHead(hostAvail), subq[1])
  <2>1. hostAvail \in Nat /\ avail.idx \in Nat
    BY DEF SerialInv, BlkTypeOK, Idx
  <2>2. Dist(hostAvail, avail.idx) \in Nat /\ Dist(hostAvail, avail.idx) <= Q
    BY <1>1, <2>1, BlkConstFacts DEF ChainOK, Dist
  <2>3. ~(Dist(hostAvail, avail.idx) > Q)
    BY <2>2, BlkConstFacts
  <2>4. QED
    BY <1>1, <1>2, <2>3 DEF SerialInv
<1> DEFINE id == ChainHead(hostAvail)
<1>4. HostHead = id /\ id \in Nat
  <2>1. hostAvail \in Nat
    BY DEF SerialInv, BlkTypeOK, Idx
  <2>2. QED
    BY <1>3, <2>1, ChainHeadType DEF HostHead, DescId
<1>5. HostData = id + 1 /\ id + 1 < Q
  <2>1. HostData = id + 1
    BY <1>3, <1>4 DEF HostData, ChainMatches
  <2>2. HostData \in DescId
    BY <1>1 DEF ChainOK
  <2>3. QED
    BY <1>4, <2>1, <2>2, BlkConstFacts DEF DescId
<1>6. HostStatus = id + 2 /\ id + 2 < Q
  <2>1. desc[id + 1].next = id + 2
    BY <1>3, <1>5 DEF ChainMatches
  <2>2. HostStatus = id + 2
    BY <1>5, <2>1 DEF HostStatus
  <2>3. HostStatus \in DescId
    BY <1>1 DEF ChainOK
  <2>4. QED
    BY <1>4, <2>2, <2>3, BlkConstFacts DEF DescId
<1>7. QED
  BY <1>2, <1>3, <1>4, <1>5, <1>6 DEF ChainMatches


\* The three entries virtioblk_transfer stores inside the table.
LEMMA ChainDescsAt ==
  ASSUME NEW id \in DescId, NEW s, NEW t, NEW r
  PROVE  /\ ChainDescs(id, s, t, r)[id] = HdrDesc(id, s, r)
         /\ id + 1 \in DescId => ChainDescs(id, s, t, r)[id + 1] = DataDesc(id, s, t)
         /\ id + 2 \in DescId => ChainDescs(id, s, t, r)[id + 2] = StatusDesc(s)
<1>1. id \in Nat /\ id + 1 # id /\ id + 2 # id /\ id + 2 # id + 1
  BY BlkConstFacts DEF DescId
<1>2. QED
  BY <1>1 DEF ChainDescs

\* virtioblk_transfer from an empty queue either lays out a chain the
\* device will take as that request, or, at avail->idx = size, stores an
\* index the device will find too far from its cursor.
LEMMA SerialTransfer ==
  ASSUME MaxOutstanding = 1, SerialInv,
         NEW b \in 0 .. MaxBlock, NEW c \in 1 .. MaxCnt, NEW t \in Ops,
         Transfer(b, c, t)
  PROVE  SerialInv'
<1> DEFINE id == ChainHead(avail.idx)
           r == [op |-> t, sector |-> HdrSector(b), cnt |-> c]
           e == [seq |-> nsub, op |-> t, sector |-> b * blkSize, cnt |-> c]
           a == avail.idx % Q
<1>1. BlkTypeOK'
  BY NextType DEF SerialInv, Next
<1>2. /\ subq = <<>> /\ ready /\ avail.idx \in Nat /\ avail.idx <= Q
      /\ hostAvail \in Nat /\ avail.idx < IdxMod
  <2>1. Len(subq) < 1 /\ subq \in Seq(Submission)
    BY DEF Transfer, SerialInv, BlkTypeOK
  <2>2. subq = <<>>
    BY <2>1, EmptySeq, LenProperties
  <2>3. ready /\ avail.idx <= Q
    BY DEF Transfer, SerialInv
  <2>4. avail.idx \in Nat /\ avail.idx < IdxMod /\ hostAvail \in Nat
    BY BlkConstFacts DEF SerialInv, BlkTypeOK, Idx
  <2>5. QED
    BY <2>2, <2>3, <2>4
<1>3. /\ UNCHANGED <<status, ready, broken, hostAvail>>
      /\ subq' = <<e>>
      /\ avail'.idx = NextAvailIdx(avail.idx)
  BY <1>2 DEF Transfer
<1>4. avail'.idx <= Q
  BY <1>2, <1>3, BlkConstFacts DEF NextAvailIdx, Inc16
<1>5. CASE broken
  BY <1>1, <1>2, <1>3, <1>4, <1>5 DEF SerialInv
<1>6. CASE ~broken /\ avail.idx = Q
  <2>1. hostAvail = Q /\ Q < IdxMod
    BY <1>2, <1>6 DEF SerialInv
  <2>2. avail'.idx = 1
    BY <1>3, <1>6, <2>1, BlkConstFacts DEF NextAvailIdx, Inc16
  <2>3. 2 * Q <= IdxMod
    BY <2>1, IdxModTwice
  <2>4. Dist(hostAvail', avail'.idx) > Q
    BY <1>3, <2>1, <2>2, <2>3, BlkConstFacts DEF Dist
  <2>5. QED
    BY <1>1, <1>2, <1>3, <1>4, <1>6, <2>4 DEF SerialInv
<1>7. CASE ~broken /\ avail.idx < Q
  <2>1. hostAvail = avail.idx /\ a = avail.idx /\ hostAvail % Q = a
    BY <1>2, <1>7, BlkConstFacts DEF SerialInv
  <2>2. avail'.idx = Inc16(hostAvail)
    BY <1>3, <2>1 DEF NextAvailIdx
  <2>3. id \in DescId /\ a \in DescId /\ id \in Nat
    <3>1. id \in DescId
      BY <1>2, ChainHeadType
    <3>2. QED
      BY <1>2, <1>7, <2>1, <3>1, BlkConstFacts DEF DescId
  <2>4. avail'.ring[hostAvail % Q] = ChainHead(hostAvail)
    <3>1. PICK hdrPa \in BufAddrs, bufPa \in BufAddrs, statusPa \in BufAddrs :
            LET spilt == SpillOntoRing(SpillOntoRing(SpillOntoRing(
                           avail.ring, id, DescWords(hdrPa, 16, HdrDesc(id, nsub, r))),
                           id + 1, DescWords(bufPa, c * blkSize * 512,
                                             DataDesc(id, nsub, t))),
                           id + 2, DescWords(statusPa, 1, StatusDesc(nsub)))
            IN  avail' = [avail EXCEPT !.ring = [spilt EXCEPT ![a % Q] = id],
                                       !.idx = NextAvailIdx(avail.idx)]
      BY DEF Transfer
    <3>2. a % Q = a
      BY <2>1, <2>3, BlkConstFacts DEF DescId
    <3>3. QED
      BY <2>1, <2>3, <3>1, <3>2 DEF SpillOntoRing
  <2>5. desc' = ChainDescs(id, nsub, t, r)
    BY DEF Transfer
  <2>6. /\ desc'[id] = HdrDesc(id, nsub, r)
        /\ id + 1 < Q => desc'[id + 1] = DataDesc(id, nsub, t)
        /\ id + 2 < Q => desc'[id + 2] = StatusDesc(nsub)
    BY <2>3, <2>5, ChainDescsAt, BlkConstFacts DEF DescId
  <2>7. "WRITE" \in DataFlags(t) <=> t = VIRTIO_BLK_T_IN
    BY DEF DataFlags, Ops, VIRTIO_BLK_T_IN, VIRTIO_BLK_T_OUT
  <2>8. ChainMatches(ChainHead(hostAvail), subq[1])'
    <3>1. ChainHead(hostAvail') = id /\ subq'[1] = e
      BY <1>3, <2>1
    <3>2. QED
      BY <2>6, <2>7, <3>1 DEF ChainMatches, HdrDesc, DataDesc, StatusDesc,
                             DataFlags
  <2>9. QED
    BY <1>1, <1>2, <1>3, <1>4, <2>2, <2>4, <2>8 DEF SerialInv
<1>8. QED
  BY <1>2, <1>5, <1>6, <1>7, BlkConstFacts


\* The device takes the one outstanding request and its cursor reaches
\* avail->idx.
LEMMA SerialHostBlk ==
  ASSUME MaxOutstanding = 1, SerialInv, HostBlk PROVE SerialInv'
<1>1. BlkTypeOK'
  BY NextType DEF SerialInv, Next
<1>2. /\ ready /\ ~broken /\ subq # <<>>
      /\ avail.idx = Inc16(hostAvail)
  <2>1. ready /\ ~broken /\ subq # <<>>
    BY SerialExecutes DEF SerialInv, HostBlk
  <2>2. hostAvail \in Nat /\ avail.idx \in Nat
    BY DEF SerialInv, BlkTypeOK, Idx
  <2>3. ~(Dist(hostAvail, avail.idx) > Q)
    BY <2>2, BlkConstFacts DEF HostBlk, ChainOK, Dist
  <2>4. QED
    BY <2>1, <2>3 DEF SerialInv
<1>3. subq' = <<>>
  <2>1. subq \in Seq(Submission) /\ Len(subq) <= 1
    BY DEF SerialInv, BlkTypeOK
  <2>2. Len(subq) = 1
    <3>1. Len(subq) \in Nat \ {0}
      BY <1>2, <2>1, EmptySeq
    <3>2. Len(subq) <= 1
      BY <2>1
    <3>3. QED
      BY ONLY <3>1, <3>2
  <2>3. Len(Tail(subq)) = 0 /\ Tail(subq) \in Seq(Submission)
    BY <1>2, <2>1, <2>2, HeadTailProperties
  <2>4. QED
    BY <1>2, <2>3, EmptySeq DEF HostBlk
<1>4. /\ UNCHANGED <<status, ready, broken, avail>>
      /\ hostAvail' = Inc16(hostAvail)
  BY DEF HostBlk
<1>5. QED
  BY <1>1, <1>2, <1>3, <1>4 DEF SerialInv

\* Every step keeps SerialInv for a serial caller.
LEMMA SerialStep ==
  ASSUME MaxOutstanding = 1, SerialInv, [Next]_vars PROVE SerialInv'
<1>1. BlkTypeOK'
  BY NextType DEF SerialInv
<1>2. CASE InitNegotiationFails \/ InitQueueFails
  BY <1>1, <1>2 DEF SerialInv, InitNegotiationFails, InitQueueFails,
                   DeviceLive
<1>3. CASE InitSucceeds
  BY <1>1, <1>3, BlkConstFacts DEF SerialInv, InitSucceeds, DeviceReset,
                                    ZeroRing
<1>4. CASE Shutdown
  BY <1>1, <1>4 DEF SerialInv, Shutdown, DeviceLive
<1>5. CASE \E b \in 0 .. MaxBlock, c \in 1 .. MaxCnt, t \in Ops : Transfer(b, c, t)
  BY <1>5, SerialTransfer
<1>6. CASE HostBlk
  BY <1>6, SerialHostBlk
<1>7. CASE HostBlkError
  BY <1>1, <1>7 DEF SerialInv, HostBlkError
<1>8. CASE UNCHANGED vars
  BY <1>1, <1>8 DEF SerialInv, vars, DeviceLive, ChainMatches
<1>9. QED
  BY <1>2, <1>3, <1>4, <1>5, <1>6, <1>7, <1>8 DEF Next

(* For a caller that submits and drains serially, and for every queue      *)
(* size, index width and disk: whenever the device executes a chain, it is *)
(* the request virtioblk_transfer submitted last, with its operation,      *)
(* block count and data direction.  The chain of virtioblk_transfer never  *)
(* leads the device to another request's descriptors; when it runs past   *)
(* the table or avail->idx wraps at the queue size, the device refuses the *)
(* queue instead.                                                          *)
THEOREM SerialExecutesSubmitted ==
  ASSUME MaxOutstanding = 1 PROVE Spec => ExecutesSubmitted
<1>1. Init => SerialInv
  BY SerialInit
<1>2. SerialInv /\ [Next]_vars => SerialInv'
  BY SerialStep
<1>3. SerialInv /\ [Next]_vars => [HostBlk =>
         /\ subq # <<>>
         /\ <<desc[HostHead].part, desc[HostData].part, desc[HostStatus].part>>
              = <<"hdr", "data", "status">>
         /\ \A d \in {HostHead, HostData, HostStatus} : desc[d].seq = subq[1].seq
         /\ desc[HostHead].req.op = subq[1].op
         /\ desc[HostHead].req.cnt = subq[1].cnt
         /\ ("WRITE" \in desc[HostData].flags <=> subq[1].op = VIRTIO_BLK_T_IN)
       ]_vars
  BY SerialExecutes
<1>4. QED
  BY <1>1, <1>2, <1>3, PTL DEF Spec, ExecutesSubmitted

=============================================================================

------------------------ MODULE VirtioNetRxProofs ------------------------
(***************************************************************************)
(* Proof of RX buffer ownership (RxRingPartition) on a CPU that keeps      *)
(* loads in order: every one of the size/2 RX chains virtionet_init posts  *)
(* is either held by the device or waiting for virtionet_receive.          *)
(***************************************************************************)
EXTENDS VirtioNetTxProofs

-----------------------------------------------------------------------------
(* The chains the device holds and the ones waiting for the driver.        *)

HeldSet == {RxHeldByDevice(j) : j \in 0 .. RxDevCount - 1}
AwaitSet == {RxAwaitingDriver(j) : j \in 0 .. RxDrvCount - 1}

\* Every RX chain head is named by one of the two stretches of the rings.
RxCover == vnet => HeldSet \cup AwaitSet = RxHeads

-----------------------------------------------------------------------------
(* Arithmetic of the ring positions.                                       *)

\* A ring position taken from a wrapped 16-bit index is the one taken from
\* the unwrapped index, because the queue size divides 2^16.
LEMMA ModQIdx ==
  ASSUME NEW x \in Int, NEW j \in Int
  PROVE  ((x % IdxMod) + j) % Q = (x + j) % Q
<1> DEFINE c == IdxMod \div Q
<1>1. IdxMod = Q * c /\ c \in Int /\ Q \in Nat /\ Q > 0 /\ IdxMod \in Nat /\ IdxMod > 0
  <2>1. IdxMod % Q = 0
    BY QSizeAssumption DEF QSizeAssumption, Q
  <2>2. QED
    BY <2>1, ConstFacts, DivMod
<1>2. (x % IdxMod) + j = (x + j) + Q * (-(c * (x \div IdxMod)))
  <2>1. x % IdxMod = x - IdxMod * (x \div IdxMod)
    BY <1>1, DivMod
  <2>2. IdxMod * (x \div IdxMod) = Q * (c * (x \div IdxMod))
    BY <1>1, Z3
  <2>3. QED
    BY <1>1, <2>1, <2>2
<1>3. x + j \in Int /\ -(c * (x \div IdxMod)) \in Int
  BY <1>1
<1>4. \A y \in Int, k \in Int : (y + Q * k) % Q = y % Q
  BY <1>1, ModShift
<1>5. QED
  BY <1>2, <1>3, <1>4

\* Fewer than Q consecutive positions of a ring are distinct.
LEMMA RingPosDistinct ==
  ASSUME NEW x \in Int, NEW i \in Nat, NEW j \in Nat, i < j, j < Q
  PROVE  (x + i) % Q # (x + j) % Q
<1>1. Q \in Nat /\ Q > 0 /\ x + i \in Int /\ j - i \in 1 .. Q - 1
      /\ x + j = (x + i) + (j - i)
  BY ConstFacts
<1>2. ((x + i) + (j - i)) % Q # (x + i) % Q
  BY <1>1, ModStep
<1>3. QED
  BY <1>1, <1>2

\* virtionet_receive re-posts exactly the chain head the device returned:
\* the payload descriptor is head+1, and id - 1 gives the head back.
LEMMA RepostOfHead ==
  ASSUME NEW e \in RxHeads
  PROVE  RepostHead(PayloadDesc(e)) = e /\ e \in DescId
BY ConstFacts DEF RxHeads, RxChains, RepostHead, PayloadDesc, Word16, DescId

-----------------------------------------------------------------------------
(* RxCover is inductive together with the credit count, when loads are     *)
(* not reordered.                                                          *)

PInv == CInv /\ RxCover

LEMMA InitRxCover == Init => RxCover
BY DEF Init, RxCover

\* Steps that leave the RX indices and rings alone, or end the instance.
LEMMA RxCoverFrame ==
  ASSUME RxCover,
         \/ /\ UNCHANGED <<vnet, lastRx>>
            /\ hostAvail'[RX] = hostAvail[RX] /\ avail'[RX] = avail[RX]
            /\ used'[RX] = used[RX]
         \/ ~vnet'
  PROVE  RxCover'
BY DEF RxCover, HeldSet, AwaitSet, RxHeldByDevice, RxAwaitingDriver,
       RxDevCount, RxDrvCount

\* virtionet_open posts chain 2s at avail entry s for s < size/2.
LEMMA OpenSucceedsRxCover ==
  ASSUME OpenSucceeds
  PROVE  RxCover'
<1>1. /\ vnet' /\ hostAvail'[RX] = 0 /\ avail'[RX].idx = (Q \div 2) % IdxMod
      /\ avail'[RX].ring = [s \in DescId |-> IF s < Q \div 2 THEN 2 * s ELSE 0]
      /\ lastRx' = 0 /\ used'[RX].idx = 0
  BY DEF OpenSucceeds, DeviceReset, ZeroUsed, Queues, RX, TX
<1>2. RxDevCount' = Q \div 2 /\ RxDrvCount' = 0 /\ Q \div 2 \in Nat
  BY <1>1, ConstFacts, HalfQueue DEF RxDevCount, RxDrvCount, Dist
<1>3. \A j \in 0 .. Q \div 2 - 1 : RxHeldByDevice(j)' = 2 * j
  <2>1. SUFFICES ASSUME NEW j \in 0 .. Q \div 2 - 1
                 PROVE  RxHeldByDevice(j)' = 2 * j
    OBVIOUS
  <2>2. (0 + j) % Q = j /\ j \in DescId /\ j < Q \div 2
    BY ConstFacts DEF DescId
  <2>3. QED
    BY <1>1, <2>2 DEF RxHeldByDevice
<1>4. HeldSet' = RxHeads /\ AwaitSet' = {}
  BY <1>2, <1>3 DEF HeldSet, AwaitSet, RxHeads, RxChains
<1>5. QED
  BY <1>1, <1>4 DEF RxCover

\* virtionet_receive moves the head at last_rx_idx from the used ring to
\* the end of the avail ring.
LEMMA ReceiveRxCover ==
  ASSUME ~LoadsReorder, PInv, Receive
  PROVE  RxCover'
<1> DEFINE h == hostAvail[RX]  a == avail[RX].idx  l == lastRx
           u == used[RX].idx  D == RxDevCount  W == RxDrvCount
           e == used[RX].ring[l % Q]
<1>1. /\ vnet /\ l # u /\ h \in Idx /\ a \in Idx /\ l \in Idx /\ u \in Idx
      /\ D \in Idx /\ W \in Idx /\ D + W = Q \div 2
      /\ HeldSet \cup AwaitSet = RxHeads
  BY CountTypes DEF Receive, PInv, CInv, TInv, TypeOK, Queues, RxCredits, RxCover
<1>2. /\ Q \in Nat /\ Q > 0 /\ Q \div 2 < Q /\ Q \div 2 < IdxMod - 1
      /\ D \in Nat /\ W \in Nat /\ D < Q /\ D < IdxMod - 1
      /\ h \in Int /\ l \in Int
  BY <1>1, ConstFacts, HalfQueue DEF Idx
<1>3. /\ lastRx' = Inc16(l) /\ used' = used /\ hostAvail' = hostAvail
      /\ vnet' = vnet
  BY DEF Receive
<1>12. DOMAIN avail[RX].ring = DescId
  BY DEF PInv, CInv, TInv, TypeOK, Queues
<1>4. W >= 1 /\ RxDrvCount' = W - 1
  BY <1>1, <1>3, DistIncFrom DEF RxDrvCount
<1>5. e = RxAwaitingDriver(0) /\ e \in RxHeads
  <2>1. e = RxAwaitingDriver(0)
    BY <1>2 DEF RxAwaitingDriver
  <2>2. e \in AwaitSet
    BY <1>2, <1>4, <2>1 DEF AwaitSet
  <2>3. QED
    BY <1>1, <2>1, <2>2
<1>6. /\ avail'[RX].ring = [avail[RX].ring EXCEPT ![a % Q] = e]
      /\ avail'[RX].idx = Inc16(a)
  <2>1. avail' = [avail EXCEPT ![RX].ring[a % Q] = RepostHead(PayloadDesc(e)),
                               ![RX].idx = Inc16(a)]
    BY DEF Receive, UsedEntryRead
  <2>2. RepostHead(PayloadDesc(e)) = e
    BY <1>5, RepostOfHead
  <2>3. DOMAIN avail = Queues /\ RX \in Queues
        /\ avail[RX] \in [noInterrupt : BOOLEAN, idx : Idx,
                          ring : [DescId -> 0 .. Word16 - 1]]
    BY DEF PInv, CInv, TInv, TypeOK, Queues
  <2>4. QED
    BY <2>1, <2>2, <2>3
<1>7. RxDevCount' = D + 1
  <2>1. Dist(h, Inc16(a)) = D + 1
    BY <1>1, <1>2, DistIncTo DEF RxDevCount
  <2>2. QED
    BY <1>3, <1>6, <2>1 DEF RxDevCount
<1>8. a % Q = (h + D) % Q /\ a % Q \in DescId
  <2>1. a = (h + D) % IdxMod
    BY <1>1, DistEnd DEF RxDevCount
  <2>2. (((h + D) % IdxMod) + 0) % Q = (h + D + 0) % Q
    <3>1. h + D \in Int /\ 0 \in Int
      BY <1>2
    <3>2. QED
      BY <3>1, ModQIdx
  <2>3. QED
    BY <1>1, <1>2, <2>1, <2>2 DEF Idx, DescId
<1>9. HeldSet' = HeldSet \cup {e}
  <2>1. ASSUME NEW j \in 0 .. D - 1
        PROVE  RxHeldByDevice(j)' = RxHeldByDevice(j)
    <3>1. j \in Nat /\ j < D
      BY <1>2
    <3>2. (h + j) % Q # (h + D) % Q
      BY <1>2, <3>1, RingPosDistinct
    <3>3. (h + j) % Q \in DescId
      BY <1>2, <3>1 DEF DescId
    <3>4. QED
      BY <1>3, <1>6, <1>8, <3>2, <3>3 DEF RxHeldByDevice
  <2>2. ASSUME NEW c \in {D}
        PROVE  RxHeldByDevice(c)' = e
    BY <1>3, <1>6, <1>8, <1>12 DEF RxHeldByDevice
  <2>3. QED
    <3>1. HeldSet' = {RxHeldByDevice(j)' : j \in 0 .. D}
      BY <1>2, <1>7 DEF HeldSet
    <3>2. ASSUME NEW x \in HeldSet' PROVE x \in HeldSet \cup {e}
      <4>1. PICK j \in 0 .. D : x = RxHeldByDevice(j)'
        BY <3>1
      <4>2. CASE j < D
        BY <1>2, <2>1, <4>1, <4>2 DEF HeldSet
      <4>3. CASE j = D
        BY <2>2, <4>1, <4>3
      <4>4. QED
        BY <1>2, <4>2, <4>3
    <3>3. ASSUME NEW x \in HeldSet \cup {e} PROVE x \in HeldSet'
      <4>1. CASE x = e
        BY <1>2, <2>2, <3>1, <4>1
      <4>2. CASE x \in HeldSet
        <5>1. PICK j \in 0 .. D - 1 : x = RxHeldByDevice(j)
          BY <4>2 DEF HeldSet
        <5>2. QED
          BY <1>2, <2>1, <3>1, <5>1
      <4>3. QED
        BY <4>1, <4>2
    <3>4. QED
      BY <3>2, <3>3
<1>10. AwaitSet = {e} \cup AwaitSet'
  <2>1. ASSUME NEW j \in 0 .. W - 2
        PROVE  RxAwaitingDriver(j)' = RxAwaitingDriver(j + 1)
    <3>1. l + 1 \in Int /\ j \in Int /\ l + 1 + j = l + (j + 1)
      BY <1>2
    <3>2. (((l + 1) % IdxMod) + j) % Q = (l + 1 + j) % Q
      BY <3>1, ModQIdx
    <3>3. QED
      BY <1>3, <3>1, <3>2 DEF RxAwaitingDriver, Inc16
  <2>2. AwaitSet' = {RxAwaitingDriver(j)' : j \in 0 .. W - 2}
    BY <1>2, <1>4 DEF AwaitSet
  <2>3. QED
    BY <1>2, <1>4, <1>5, <2>1, <2>2 DEF AwaitSet
<1>11. QED
  BY <1>1, <1>3, <1>9, <1>10 DEF RxCover

\* The device takes the head at hostAvail from the avail ring and returns
\* it at the end of the used ring.
LEMMA HostRxRxCover ==
  ASSUME PInv, HostRx
  PROVE  RxCover'
<1>1. CASE ~vnet
  <2>1. ~vnet'
    BY <1>1 DEF HostRx, drv
  <2>2. QED
    BY <2>1, RxCoverFrame DEF PInv
<1>2. CASE vnet
  <2> DEFINE h == hostAvail[RX]  a == avail[RX].idx  l == lastRx
             u == used[RX].idx  D == RxDevCount  W == RxDrvCount
             h0 == avail[RX].ring[h % Q]
  <2>1. /\ h # a /\ h \in Idx /\ a \in Idx /\ l \in Idx /\ u \in Idx
        /\ D \in Idx /\ W \in Idx /\ D + W = Q \div 2
        /\ HeldSet \cup AwaitSet = RxHeads
        /\ DOMAIN used[RX].ring = DescId
  BY <1>2, CountTypes DEF HostRx, PInv, CInv, TInv, TypeOK, Queues, RxCredits, RxCover
  <2>2. /\ Q \in Nat /\ Q > 0 /\ D \in Nat /\ W \in Nat /\ W < Q /\ W < IdxMod - 1
        /\ h \in Int /\ l \in Int /\ D >= 1
    <3>1. D >= 1
      BY <2>1, DistIncFrom DEF RxDevCount
    <3>2. QED
      BY <2>1, <3>1, ConstFacts, HalfQueue DEF Idx
  <2>3. /\ hostAvail'[RX] = Inc16(h) /\ avail' = avail /\ lastRx' = lastRx
        /\ vnet' = vnet
    BY DEF HostRx, drv, PInv, CInv, TInv, TypeOK, Queues
  <2>4. /\ used'[RX].ring = [used[RX].ring EXCEPT ![u % Q] = h0]
        /\ used'[RX].idx = Inc16(u)
    <3>1. HostChain(RX)[1] = h0
      <4>1. HostChain(RX) # <<>>
        BY DEF HostRx
      <4>2. QED
        BY <4>1 DEF HostChain
    <3>2. used' = [used EXCEPT ![RX].ring[u % Q] = HostChain(RX)[1],
                               ![RX].idx = Inc16(@)]
      BY DEF HostRx
    <3>3. DOMAIN used = Queues /\ RX \in Queues
          /\ used[RX] \in [idx : Idx, ring : [DescId -> DescId]]
      BY DEF PInv, CInv, TInv, TypeOK, Queues
    <3>4. QED
      BY <3>1, <3>2, <3>3
  <2>5. RxDevCount' = D - 1 /\ RxDrvCount' = W + 1
    <3>1. Dist(Inc16(h), a) = D - 1
      BY <2>1, DistIncFrom DEF RxDevCount
    <3>2. Dist(l, Inc16(u)) = W + 1
      BY <2>1, <2>2, DistIncTo DEF RxDrvCount
    <3>3. QED
      BY <2>3, <2>4, <3>1, <3>2 DEF RxDevCount, RxDrvCount
  <2>6. h0 = RxHeldByDevice(0)
    BY <2>2 DEF RxHeldByDevice
  <2>7. HeldSet = {h0} \cup HeldSet'
    <3>1. ASSUME NEW j \in 0 .. D - 2
          PROVE  RxHeldByDevice(j)' = RxHeldByDevice(j + 1)
      <4>1. h + 1 \in Int /\ j \in Int /\ h + 1 + j = h + (j + 1)
        BY <2>2
      <4>2. (((h + 1) % IdxMod) + j) % Q = (h + 1 + j) % Q
        BY <4>1, ModQIdx
      <4>3. QED
        BY <2>3, <4>1, <4>2 DEF RxHeldByDevice, Inc16
    <3>2. HeldSet' = {RxHeldByDevice(j)' : j \in 0 .. D - 2}
      BY <2>2, <2>5 DEF HeldSet
    <3>3. ASSUME NEW x \in HeldSet PROVE x \in {h0} \cup HeldSet'
      <4>1. PICK j \in 0 .. D - 1 : x = RxHeldByDevice(j)
        BY DEF HeldSet
      <4>2. CASE j = 0
        BY <2>6, <4>1, <4>2
      <4>3. CASE j # 0
        <5>1. j - 1 \in 0 .. D - 2 /\ j - 1 + 1 = j
          BY <2>2, <4>3
        <5>2. RxHeldByDevice(j - 1)' = RxHeldByDevice(j)
          BY <3>1, <5>1
        <5>3. QED
          BY <3>2, <4>1, <5>1, <5>2
      <4>4. QED
        BY <4>2, <4>3
    <3>4. ASSUME NEW x \in {h0} \cup HeldSet' PROVE x \in HeldSet
      <4>1. CASE x = h0
        <5>1. 0 \in 0 .. D - 1
          BY <2>2
        <5>2. QED
          BY <2>6, <4>1, <5>1 DEF HeldSet
      <4>2. CASE x \in HeldSet'
        <5>1. PICK j \in 0 .. D - 2 : x = RxHeldByDevice(j)'
          BY <3>2, <4>2
        <5>2. j + 1 \in 0 .. D - 1
          BY <2>2
        <5>3. QED
          BY <3>1, <5>1, <5>2 DEF HeldSet
      <4>3. QED
        BY <4>1, <4>2
    <3>5. QED
      BY <3>3, <3>4
  <2>8. AwaitSet' = AwaitSet \cup {h0}
    <3>1. u % Q = (l + W) % Q /\ u % Q \in DescId
      <4>1. u = (l + W) % IdxMod
        BY <2>1, DistEnd DEF RxDrvCount
      <4>2. l + W \in Int /\ 0 \in Int
        BY <2>2
      <4>3. (((l + W) % IdxMod) + 0) % Q = (l + W + 0) % Q
        BY <4>2, ModQIdx
      <4>4. QED
        BY <2>1, <2>2, <4>1, <4>3 DEF Idx, DescId
    <3>2. ASSUME NEW j \in 0 .. W - 1
          PROVE  RxAwaitingDriver(j)' = RxAwaitingDriver(j)
      <4>1. j \in Nat /\ j < W
        BY <2>2
      <4>2. (l + j) % Q # (l + W) % Q
        BY <2>2, <4>1, RingPosDistinct
      <4>3. (l + j) % Q \in DescId
        BY <2>2, <4>1 DEF DescId
      <4>4. QED
        BY <2>1, <2>3, <2>4, <3>1, <4>2, <4>3 DEF RxAwaitingDriver
    <3>3. ASSUME NEW c \in {W}
          PROVE  RxAwaitingDriver(c)' = h0
      BY <2>1, <2>3, <2>4, <3>1 DEF RxAwaitingDriver
    <3>4. AwaitSet' = {RxAwaitingDriver(j)' : j \in 0 .. W}
      BY <2>2, <2>5 DEF AwaitSet
    <3>5. ASSUME NEW x \in AwaitSet' PROVE x \in AwaitSet \cup {h0}
      <4>1. PICK j \in 0 .. W : x = RxAwaitingDriver(j)'
        BY <3>4
      <4>2. CASE j < W
        BY <2>2, <3>2, <4>1, <4>2 DEF AwaitSet
      <4>3. CASE j = W
        BY <3>3, <4>1, <4>3
      <4>4. QED
        BY <2>2, <4>2, <4>3
    <3>6. ASSUME NEW x \in AwaitSet \cup {h0} PROVE x \in AwaitSet'
      <4>1. CASE x = h0
        BY <2>2, <3>3, <3>4, <4>1
      <4>2. CASE x \in AwaitSet
        <5>1. PICK j \in 0 .. W - 1 : x = RxAwaitingDriver(j)
          BY <4>2 DEF AwaitSet
        <5>2. QED
          BY <2>2, <3>2, <3>4, <5>1
      <4>3. QED
        BY <4>1, <4>2
    <3>7. QED
      BY <3>5, <3>6
  <2>9. QED
    BY <2>1, <2>3, <2>7, <2>8 DEF RxCover
<1>3. QED
  BY <1>1, <1>2

\* Every step keeps the credit count and the cover together.
LEMMA NextPInv ==
  ASSUME ~LoadsReorder, PInv, [Next]_vars
  PROVE  PInv'
<1>1. CInv'
  BY NextCInv DEF PInv
<1>2. RxCover'
  <2>1. RxCover /\ TInv
    BY DEF PInv, CInv
  <2>2. CASE OpenNegotiationFails
    BY <2>1, <2>2, RxCoverFrame DEF OpenNegotiationFails
  <2>3. CASE OpenAllocFails
    BY <2>1, <2>3, RxCoverFrame DEF OpenAllocFails
  <2>4. CASE OpenSucceeds
    BY <2>4, OpenSucceedsRxCover
  <2>5. CASE Close
    BY <2>1, <2>5, RxCoverFrame DEF Close
  <2>6. CASE Xmit
    <3>1. UNCHANGED <<vnet, lastRx, hostAvail, used>> /\ avail'[RX] = avail[RX]
      BY <2>1, <2>6, XmitRx DEF Xmit
    <3>2. QED
      BY <2>1, <3>1, RxCoverFrame
  <2>7. CASE Receive
    BY <2>7, ReceiveRxCover
  <2>8. CASE HandleInterrupt
    BY <2>1, <2>8, RxCoverFrame DEF HandleInterrupt, drv, ring
  <2>9. CASE HostRx
    BY <2>9, HostRxRxCover
  <2>10. CASE HostTx
    <3>1. UNCHANGED <<vnet, avail, lastRx>>
          /\ used'[RX] = used[RX] /\ hostAvail'[RX] = hostAvail[RX]
      BY <2>1, <2>10, HostTxRx DEF HostTx, drv
    <3>2. QED
      BY <2>1, <3>1, RxCoverFrame
  <2>11. CASE UNCHANGED vars
    BY <2>1, <2>11, RxCoverFrame DEF vars, drv, ring, dev
  <2>12. QED
    BY <2>2, <2>3, <2>4, <2>5, <2>6, <2>7, <2>8, <2>9, <2>10, <2>11 DEF Next
<1>3. QED
  BY <1>1, <1>2 DEF PInv

(* The RX ring partition, for every queue size and index width, when the   *)
(* driver's loads of the used ring are not reordered: while the instance   *)
(* exists, the heads of the size/2 RX chains virtionet_open posted are      *)
(* exactly the heads the device still holds (avail entries from            *)
(* hostAvail) together with the heads virtionet_receive has yet to take    *)
(* (used entries from last_rx_idx), and they number size/2.  The receive   *)
(* path re-posts the very head it took from the used ring; the device      *)
(* returns the very head it took from the avail ring.                      *)
THEOREM RxRingPartitionProved ==
  ASSUME ~LoadsReorder
  PROVE  Spec => []RxRingPartition
<1>1. Init => PInv
  BY InitCInv, InitRxCover DEF PInv
<1>2. PInv /\ [Next]_vars => PInv'
  BY NextPInv
<1>3. PInv => RxRingPartition
  BY DEF PInv, CInv, RxCover, HeldSet, AwaitSet, RxRingPartition
<1>4. QED
  BY <1>1, <1>2, <1>3, PTL DEF Spec

=============================================================================

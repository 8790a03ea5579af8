----------------------------- MODULE VirtioNet -----------------------------
(***************************************************************************)
(* The virtio-net guest driver of src/virtio-blk.c (lines 222-709: the     *)
(* file holds virtio-blk.c, cpu.h and virtio-net.c one after the other)    *)
(* together with the device (the hypervisor) that shares its two split     *)
(* virtqueues: queue 0 receives (RX), queue 1 transmits (TX).              *)
(*                                                                         *)
(* Every driver entry point is one atomic action: the guest is single-     *)
(* threaded and callers serialize calls on an instance.  The device runs   *)
(* concurrently and acts between any two driver calls.  The one memory-    *)
(* ordering effect that survives this atomicity is modelled explicitly:    *)
(* virtionet_receive loads used->idx and then used->ring[...] and the      *)
(* packet buffer with no barrier in between, so on a CPU that reorders     *)
(* loads those two loads may return the value a location had before the   *)
(* device's latest write to it, as long as that write came after the       *)
(* guest's last full barrier (sync()).                                     *)
(*                                                                         *)
(* Data is abstracted: a packet is its sequence number, the device         *)
(* numbers the k-th received packet k and the driver numbers the packet    *)
(* it sends at avail index k with k, so FIFO delivery is checkable with    *)
(* counters that wrap like the 16-bit ring indices.                        *)
(***************************************************************************)
EXTENDS Naturals, FiniteSets

CONSTANTS
  QSize,            \* the queue size both queues report (vq->size)
  IdxMod,           \* modulus of the free-running ring indices (2^16 in the code)
  CmaSlots,         \* number of regions the contiguous-memory arena can hold
  TxInFlightBound,  \* how far the caller may run ahead of the device on TX
  LoadsReorder      \* TRUE: the CPU may satisfy a load before an earlier one

\* The indices are unsigned integers of 2 to 16 bits.
IdxWidths == {4, 8, 16, 32, 64, 128, 256, 512, 1024, 2048, 4096, 8192,
              16384, 32768, 65536}

ASSUME IdxModAssumption == IdxMod \in IdxWidths

\* Queue sizes are powers of two (so Q divides 2^16) with room for Q/4 TX
\* slots.
ASSUME QSizeAssumption ==
  /\ IdxMod \in Nat /\ 4 <= IdxMod /\ IdxMod <= 65536
  /\ QSize \in 4 .. IdxMod /\ QSize % 4 = 0 /\ IdxMod % QSize = 0

ASSUME BoundsAssumption ==
  /\ CmaSlots \in Nat
  /\ TxInFlightBound \in 1 .. QSize \div 2
  /\ LoadsReorder \in BOOLEAN

-----------------------------------------------------------------------------
(* Constants of the code.                                                  *)

Q == QSize
RX == 0                          \* VQ_RX
TX == 1                          \* VQ_TX
Queues == {RX, TX}
Word16 == 65536                  \* range of a u16 ring entry
Idx == 0 .. IdxMod - 1           \* values of avail.idx, used.idx, last_rx_idx
DescId == 0 .. Q - 1
RxChains == 0 .. Q \div 2 - 1    \* RX slot i is the chain 2i -> 2i+1
TxSlots == 0 .. Q \div 4 - 1     \* TX payload slots the code addresses
RxHeads == {2 * i : i \in RxChains}

ACK == "ACKNOWLEDGE"
DRIVER == "DRIVER"
FEATURES_OK == "FEATURES_OK"
DRIVER_OK == "DRIVER_OK"
FAILED == "FAILED"
StatusBits == {ACK, DRIVER, FEATURES_OK, DRIVER_OK, FAILED}

\* Regions taken from the contiguous-memory arena (SLOF_alloc_mem_aligned).
Regions == {"rxRing", "txRing", "rxPool", "txPool"}

\* What a descriptor's addr field can point at.
NullAddr == <<"null", 0>>
NetHdrAddr == <<"nethdr", 0>>    \* the static zeroed net header of xmit
Addr == {NullAddr, NetHdrAddr}
          \cup {<<"rxhdr", i>> : i \in RxChains}
          \cup {<<"rxbuf", i>> : i \in RxChains}
          \cup {<<"txbuf", i>> : i \in TxSlots}
Flags == SUBSET {"NEXT", "WRITE"}

NoData == IdxMod                 \* contents of a buffer no packet was put in
Data == Idx \cup {NoData}

ZeroDesc == [addr |-> NullAddr, flags |-> {}, next |-> 0]
ZeroAvail == [noInterrupt |-> FALSE, idx |-> 0, ring |-> [s \in DescId |-> 0]]
ZeroUsed == [idx |-> 0, ring |-> [s \in DescId |-> 0]]

-----------------------------------------------------------------------------
VARIABLES
  vnet,       \* the struct virtio_net returned by virtionet_open exists
  running,    \* vnet->driver.running
  status,     \* the device status register, as a set of bits
  modern,     \* the device offers VIRTIO_F_VERSION_1
  netHdr,     \* the global net_hdr_size
  cma,        \* number of arena regions allocated and not freed
  owned,      \* arena regions reachable from the live driver instance
  desc,       \* desc[q][i]: descriptor table of queue q
  avail,      \* avail[q]: [noInterrupt, idx, ring] of queue q
  used,       \* used[q]: [idx, ring] of queue q (ring holds the ids)
  lastRx,     \* the global last_rx_idx
  lastTx,     \* the global last_tx_idx
  rxBuf,      \* rxBuf[i]: packet in the payload part of RX slot i
  txBuf,      \* txBuf[i]: packet in TX payload slot i
  rxOut,      \* what the last virtionet_receive copied to the caller
  wire,       \* the last packet the device put on the wire
  hostAvail,  \* hostAvail[q]: the device's last_avail_idx
  isr,        \* the device's interrupt status
  usedOld,    \* usedOld[s]: RX used.ring[s] before the device's last write
  usedFresh,  \* RX used slots the device wrote since the guest's last barrier
  bufOld,     \* bufOld[i]: rxBuf[i] before the device's last write
  bufFresh    \* RX slots the device wrote since the guest's last barrier

drv == <<vnet, running, status, modern, netHdr, cma, owned, lastRx, lastTx>>
ring == <<desc, avail, used, rxBuf, txBuf, rxOut, wire>>
dev == <<hostAvail, isr, usedOld, usedFresh, bufOld, bufFresh>>
vars == <<drv, ring, dev>>

-----------------------------------------------------------------------------
(* Plausible mistakes in the code, each used in place of the definition    *)
(* that follows it to check that some property notices it.                *)

\* last_rx_idx / avail idx kept in a wider type that never wraps.
Inc16Wide(x) == x + 1
\* The payload descriptor taken as the used id itself (the +1 forgotten).
PayloadDescNoNext(e) == e % Q
\* The descriptor re-posted as the payload id rather than its chain head.
RepostHeadSame(id) == id
\* The TX pool indexed modulo a quarter of the queue instead of a half.
TxSlotQuarter(idx) == ((idx * 2) % (Q \div 4)) \div 2
\* The TX chain head without the reduction mod the queue size.
TxHeadNoMod(idx) == idx * 2

-----------------------------------------------------------------------------
(* Helpers translated from the code.                                       *)

\* A 16-bit ring index incremented (uint16_t arithmetic).
Inc16(x) == (x + 1) % IdxMod

\* Number of entries between two free-running 16-bit indices.
Dist(from, to) == (to - from) % IdxMod

\* id = (used->ring[...].id + 1) % vq_rx->size: the payload descriptor.
PayloadDesc(e) == (e + 1) % Q

\* avail->ring[...] = cpu_to_modern16(id - 1): the chain head to re-post.
RepostHead(id) == (id - 1) % Word16

\* id = (idx * 2) % vq_tx->size: the head of the TX chain for avail index idx.
TxHead(idx) == (idx * 2) % Q

\* The TX payload slot: buf_index = (idx*2) % (size/2), slot buf_index/2.
TxSlot(idx) == ((idx * 2) % (Q \div 2)) \div 2

\* The RX descriptor table after the pre-post loop of virtionet_init.
RxDescTable ==
  [i \in DescId |->
     IF i % 2 = 0
     THEN [addr |-> <<"rxhdr", i \div 2>>, flags |-> {"NEXT", "WRITE"},
           next |-> i + 1]
     ELSE [addr |-> <<"rxbuf", i \div 2>>, flags |-> {"WRITE"}, next |-> 0]]

\* The device is driving the queues: DRIVER_OK set and not FAILED.
DeviceLive == DRIVER_OK \in status /\ FAILED \notin status

\* virtio_reset_device: the device forgets its queue state.
DeviceReset ==
  /\ hostAvail' = [q \in Queues |-> 0]
  /\ isr' = FALSE

\* Values a load of RX used.ring[s] may return.
UsedEntryRead(s) ==
  {used[RX].ring[s]}
    \cup (IF LoadsReorder /\ s \in usedFresh THEN {usedOld[s]} ELSE {})

\* Values the memcpy from address a may copy.
BufRead(a) ==
  IF a[1] = "rxbuf"
  THEN {rxBuf[a[2]]}
         \cup (IF LoadsReorder /\ a[2] \in bufFresh THEN {bufOld[a[2]]} ELSE {})
  ELSE {NoData}

\* sync(): every later load sees every earlier write of the device.
Barrier == usedFresh' = {} /\ bufFresh' = {}

-----------------------------------------------------------------------------
Init ==
  /\ vnet = FALSE
  /\ running = FALSE
  /\ status = {}
  /\ modern \in BOOLEAN
  /\ netHdr = 0
  /\ cma = 0
  /\ owned = {}
  /\ desc = [q \in Queues |-> [i \in DescId |-> ZeroDesc]]
  /\ avail = [q \in Queues |-> ZeroAvail]
  /\ used = [q \in Queues |-> ZeroUsed]
  /\ lastRx = 0
  /\ lastTx = 0
  /\ rxBuf = [i \in RxChains |-> NoData]
  /\ txBuf = [i \in TxSlots |-> NoData]
  /\ rxOut = NoData
  /\ wire = NoData
  /\ hostAvail = [q \in Queues |-> 0]
  /\ isr = FALSE
  /\ usedOld = [s \in DescId |-> 0]
  /\ usedFresh = {}
  /\ bufOld = [i \in RxChains |-> NoData]
  /\ bufFresh = {}

-----------------------------------------------------------------------------
(* virtionet_open: SLOF_alloc_mem, virtionet_init_mmio (reset, set         *)
(* ACKNOWLEDGE), virtionet_init.  The device's answers decide the exit:    *)
(* a modern device may clear FEATURES_OK, and each of the four arena       *)
(* allocations (the two rings in virtio_queue_init_vq, then the RX and TX  *)
(* pools) fails once the arena is full.  On every failure virtionet_open   *)
(* frees vnet and returns NULL; what was allocated stays allocated.        *)

\* Status after the feature phase: modern devices kept FEATURES_OK.
NegotiatedStatus == IF modern THEN {ACK, DRIVER, FEATURES_OK} ELSE {ACK, DRIVER}

\* How many of the four allocations succeed, in order.
FreeAllocs == IF CmaSlots - cma >= 4 THEN 4 ELSE CmaSlots - cma

\* A modern device clears FEATURES_OK: goto dev_error.
OpenNegotiationFails ==
  /\ ~vnet
  /\ modern
  /\ status' = {ACK, DRIVER, FAILED}
  /\ DeviceReset
  /\ UNCHANGED <<vnet, running, modern, netHdr, cma, owned, lastRx, lastTx>>
  /\ UNCHANGED <<ring, usedOld, usedFresh, bufOld, bufFresh>>

\* The features are accepted but an allocation fails.
OpenAllocFails ==
  /\ ~vnet
  /\ FreeAllocs < 4
  /\ netHdr' = IF modern THEN 12 ELSE 10
  /\ cma' = cma + FreeAllocs
  /\ status' = IF FreeAllocs < 2 THEN {ACK, DRIVER, FAILED}
                                 ELSE NegotiatedStatus \cup {FAILED}
  /\ DeviceReset
  /\ UNCHANGED <<vnet, running, modern, owned, lastRx, lastTx>>
  /\ UNCHANGED <<ring, usedOld, usedFresh, bufOld, bufFresh>>

\* Everything succeeds: RX pre-posted, DRIVER_OK, running.
OpenSucceeds ==
  /\ ~vnet
  /\ FreeAllocs = 4
  /\ vnet' = TRUE
  /\ running' = TRUE
  /\ netHdr' = IF modern THEN 12 ELSE 10
  /\ cma' = cma + 4
  /\ owned' = Regions
  /\ status' = NegotiatedStatus \cup {DRIVER_OK, FEATURES_OK}
  /\ desc' = [q \in Queues |-> IF q = RX THEN RxDescTable
                                         ELSE [i \in DescId |-> ZeroDesc]]
  /\ avail' = [q \in Queues |->
                 IF q = RX
                 THEN [noInterrupt |-> FALSE, idx |-> (Q \div 2) % IdxMod,
                       ring |-> [s \in DescId |-> IF s < Q \div 2 THEN 2 * s
                                                                 ELSE 0]]
                 ELSE [noInterrupt |-> TRUE, idx |-> 0,
                       ring |-> [s \in DescId |-> 0]]]
  /\ used' = [q \in Queues |-> ZeroUsed]
  /\ lastRx' = 0
  /\ rxBuf' = [i \in RxChains |-> NoData]
  /\ txBuf' = [i \in TxSlots |-> NoData]
  /\ DeviceReset
  /\ usedOld' = [s \in DescId |-> 0]
  /\ bufOld' = [i \in RxChains |-> NoData]
  /\ Barrier
  /\ UNCHANGED <<modern, lastTx, rxOut, wire>>

(* virtionet_close: virtionet_term (set FAILED, reset, free the RX pool,   *)
(* drop the TX pool pointer, virtio_queue_term_vq on both queues), then    *)
(* free vnet.                                                              *)
Close ==
  /\ vnet
  /\ vnet' = FALSE
  /\ IF running
     THEN /\ status' = {}
          /\ DeviceReset
          /\ running' = FALSE
          /\ cma' = cma - 3
          /\ owned' = {}
     ELSE UNCHANGED <<status, hostAvail, isr, running, cma, owned>>
  /\ UNCHANGED <<modern, netHdr, lastRx, lastTx>>
  /\ UNCHANGED <<ring, usedOld, usedFresh, bufOld, bufFresh>>

\* virtionet_write -> virtionet_xmit of a packet that fits the buffer.  The
\* caller runs at most TxInFlightBound packets ahead of the device.
Xmit ==
  /\ vnet
  /\ Dist(hostAvail[TX], avail[TX].idx) < TxInFlightBound
  /\ LET idx == avail[TX].idx
         id == TxHead(idx)
         slot == TxSlot(idx)
     IN /\ txBuf' = [txBuf EXCEPT ![slot] = idx]
        /\ desc' = [desc EXCEPT
                      ![TX][id] = [addr |-> NetHdrAddr, flags |-> {"NEXT"},
                                   next |-> id + 1],
                      ![TX][id + 1] = [addr |-> <<"txbuf", slot>>,
                                       flags |-> {}, next |-> 0]]
        /\ avail' = [avail EXCEPT ![TX].ring[idx % Q] = id,
                                  ![TX].idx = Inc16(idx)]
  /\ lastTx' = used[TX].idx
  /\ Barrier
  /\ UNCHANGED <<vnet, running, status, modern, netHdr, cma, owned, lastRx>>
  /\ UNCHANGED <<used, rxBuf, rxOut, wire, hostAvail, isr, usedOld, bufOld>>

\* virtionet_read -> virtionet_receive when used->idx has moved.
Receive ==
  /\ vnet
  /\ lastRx # used[RX].idx
  /\ \E e \in UsedEntryRead(lastRx % Q) :
       LET id == PayloadDesc(e)
           a == avail[RX].idx
       IN /\ rxOut' \in BufRead(desc[RX][id].addr)
          /\ avail' = [avail EXCEPT ![RX].ring[a % Q] = RepostHead(id),
                                    ![RX].idx = Inc16(a)]
  /\ lastRx' = Inc16(lastRx)
  /\ Barrier
  /\ UNCHANGED <<vnet, running, status, modern, netHdr, cma, owned, lastTx>>
  /\ UNCHANGED <<desc, used, rxBuf, txBuf, wire, hostAvail, isr>>
  /\ UNCHANGED <<usedOld, bufOld>>

\* virtionet_handle_interrupt: read the interrupt status and acknowledge it.
HandleInterrupt ==
  /\ vnet
  /\ isr
  /\ isr' = FALSE
  /\ UNCHANGED <<drv, ring, hostAvail, usedOld, usedFresh, bufOld, bufFresh>>

-----------------------------------------------------------------------------
(* The device.  It takes available chains in order and completes each at   *)
(* once: the used entry is written before used.idx (the device's own       *)
(* ordering is correct).  A chain head outside the table, or a head        *)
(* without NEXT, stops the device on that queue.                           *)

\* The payload descriptor of the chain at the device's next avail entry.
HostChain(q) ==
  LET h == avail[q].ring[hostAvail[q] % Q]
  IN IF h \in DescId /\ "NEXT" \in desc[q][h].flags /\ desc[q][h].next \in DescId
     THEN <<h, desc[q][h].next>>
     ELSE <<>>

\* A packet arrives: the device fills the next RX chain and completes it.
HostRx ==
  /\ DeviceLive
  /\ hostAvail[RX] # avail[RX].idx
  /\ HostChain(RX) # <<>>
  /\ LET h == HostChain(RX)[1]
         a == desc[RX][HostChain(RX)[2]].addr
         s == used[RX].idx % Q
     IN /\ rxBuf' = IF a[1] = "rxbuf" THEN [rxBuf EXCEPT ![a[2]] = used[RX].idx]
                                      ELSE rxBuf
        /\ used' = [used EXCEPT ![RX].ring[s] = h, ![RX].idx = Inc16(@)]
        /\ IF LoadsReorder
           THEN /\ usedOld' = [usedOld EXCEPT ![s] = used[RX].ring[s]]
                /\ usedFresh' = usedFresh \cup {s}
                /\ IF a[1] = "rxbuf"
                   THEN /\ bufOld' = [bufOld EXCEPT ![a[2]] = rxBuf[a[2]]]
                        /\ bufFresh' = bufFresh \cup {a[2]}
                   ELSE UNCHANGED <<bufOld, bufFresh>>
           ELSE UNCHANGED <<usedOld, usedFresh, bufOld, bufFresh>>
  /\ hostAvail' = [hostAvail EXCEPT ![RX] = Inc16(@)]
  /\ isr' = (isr \/ ~avail[RX].noInterrupt)
  /\ UNCHANGED <<drv, desc, avail, txBuf, rxOut, wire>>

\* The device sends the packet of the next TX chain and completes it.
HostTx ==
  /\ DeviceLive
  /\ hostAvail[TX] # avail[TX].idx
  /\ HostChain(TX) # <<>>
  /\ LET h == HostChain(TX)[1]
         a == desc[TX][HostChain(TX)[2]].addr
     IN /\ wire' = IF a[1] = "txbuf" THEN txBuf[a[2]] ELSE NoData
        /\ used' = [used EXCEPT ![TX].ring[used[TX].idx % Q] = h,
                                ![TX].idx = Inc16(@)]
  /\ hostAvail' = [hostAvail EXCEPT ![TX] = Inc16(@)]
  /\ isr' = (isr \/ ~avail[TX].noInterrupt)
  /\ UNCHANGED <<drv, desc, avail, rxBuf, txBuf, rxOut>>
  /\ UNCHANGED <<usedOld, usedFresh, bufOld, bufFresh>>

-----------------------------------------------------------------------------
Next ==
  \/ OpenNegotiationFails
  \/ OpenAllocFails
  \/ OpenSucceeds
  \/ Close
  \/ Xmit
  \/ Receive
  \/ HandleInterrupt
  \/ HostRx
  \/ HostTx

Spec == Init /\ [][Next]_vars

\* virtionet_xmit notifies the device on VQ_TX after every packet (line
\* 557), and a hypervisor serves a notified queue.  Packets arrive on RX
\* only when the network sends them, so the device's RX step is not fair.
FairSpec == Spec /\ WF_vars(HostTx)

-----------------------------------------------------------------------------
(* Properties.                                                             *)

\* Every variable holds a value of its type.
TypeOK ==
  /\ vnet \in BOOLEAN
  /\ running \in BOOLEAN
  /\ status \subseteq StatusBits
  /\ modern \in BOOLEAN
  /\ netHdr \in {0, 10, 12}
  /\ cma \in 0 .. CmaSlots
  /\ owned \subseteq Regions
  /\ desc \in [Queues -> [DescId -> [addr : Addr, flags : Flags,
                                     next : 0 .. Word16 - 1]]]
  /\ avail \in [Queues -> [noInterrupt : BOOLEAN, idx : Idx,
                           ring : [DescId -> 0 .. Word16 - 1]]]
  /\ used \in [Queues -> [idx : Idx, ring : [DescId -> DescId]]]
  /\ lastRx \in Idx
  /\ lastTx \in Idx
  /\ rxBuf \in [RxChains -> Data]
  /\ txBuf \in [TxSlots -> Data]
  /\ rxOut \in Data
  /\ wire \in Data
  /\ hostAvail \in [Queues -> Idx]
  /\ isr \in BOOLEAN
  /\ usedOld \in [DescId -> DescId]
  /\ usedFresh \subseteq DescId
  /\ bufOld \in [RxChains -> Data]
  /\ bufFresh \subseteq RxChains

\* The chain heads the device holds (avail entries it has not taken) and
\* the ones it has returned and virtionet_receive has not consumed yet.
RxHeldByDevice(j) == avail[RX].ring[(hostAvail[RX] + j) % Q]
RxAwaitingDriver(j) == used[RX].ring[(lastRx + j) % Q]

\* How many RX chains the device holds, and how many wait for the driver.
RxDevCount == Dist(hostAvail[RX], avail[RX].idx)
RxDrvCount == Dist(lastRx, used[RX].idx)

(* RX credit conservation (virtionet_init posts Q/2 chains, the device     *)
(* completes one per packet and virtionet_receive re-posts one per         *)
(* packet): while the driver runs, the chains the device holds and the     *)
(* ones waiting for virtionet_receive add up to Q/2.  This bounds          *)
(* used.idx - last_rx_idx by Q/2 (spec section 8, invariant 1).            *)
RxCredits == vnet => RxDevCount + RxDrvCount = Q \div 2

(* RX buffer ownership (virtionet_init pre-posts Q/2 chains and            *)
(* virtionet_receive re-posts the chain it consumed): while the driver     *)
(* runs, each of the Q/2 RX chains is in exactly one place, either posted  *)
(* to the device or completed and waiting for virtionet_receive; none is   *)
(* lost, none is posted twice.                                             *)
RxRingPartition ==
  /\ RxCredits
  /\ vnet =>
       {RxHeldByDevice(j) : j \in 0 .. RxDevCount - 1}
         \cup {RxAwaitingDriver(j) : j \in 0 .. RxDrvCount - 1} = RxHeads

(* virtionet_receive hands the caller the packets the device received, in  *)
(* order, none skipped and none twice: the receive that advances           *)
(* last_rx_idx from k copies packet k.                                     *)
RxDeliversInOrder == [][Receive => rxOut' = lastRx]_vars

(* virtionet_xmit's packets go on the wire in order and intact: when the   *)
(* device sends the chain published at avail index k, the payload it       *)
(* reads is the packet virtionet_xmit copied in at index k.                *)
TxDeliversInOrder == [][HostTx => wire' = hostAvail[TX]]_vars

(* virtionet_close returns to the arena everything virtionet_open took:    *)
(* every allocated region is reachable from the live driver instance.      *)
NoLeak == cma = Cardinality(owned)

\* The packet virtionet_xmit published at avail index k is still waiting for
\* the device on the instance that is open.
TxQueued(k) ==
  vnet /\ Dist(hostAvail[TX], k) < Dist(hostAvail[TX], avail[TX].idx)

(* Every packet virtionet_xmit publishes is eventually taken by the device *)
(* and put on the wire, or the instance is closed: the TX chain at every   *)
(* avail index, across the wrap of the 16-bit index, is one the device     *)
(* can follow.                                                             *)
TxEventuallySent == \A k \in Idx : TxQueued(k) ~> ~TxQueued(k)

(* A legacy device sees the legacy status sequence (spec section 4.4:      *)
(* legacy negotiation has no FEATURES_OK round trip; ACK, DRIVER,          *)
(* DRIVER_OK).  virtionet_init ORs FEATURES_OK into the status together    *)
(* with DRIVER_OK whatever the device offered.                             *)
LegacyNoFeaturesOk == ~modern => FEATURES_OK \notin status

=============================================================================

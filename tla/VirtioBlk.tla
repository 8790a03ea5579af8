------------------------------ MODULE VirtioBlk ------------------------------
(***************************************************************************)
(* The virtio block driver of src/virtio-blk.c (lines 1-179) and the       *)
(* hypervisor's side of its request queue.                                 *)
(*                                                                         *)
(* virtioblk_init resets the device, negotiates, sets up queue 0 and sets  *)
(* DRIVER_OK; virtioblk_transfer frames a request as a three-descriptor    *)
(* chain (header, data, status) at head (avail_idx * 3) % size, publishes  *)
(* it and returns without waiting; virtioblk_shutdown sets FAILED and      *)
(* resets.  The device takes published chains in order; it stops on a     *)
(* malformed queue (an avail index that moved by more than the queue size, *)
(* or a chain whose links leave the table), as a virtio device must.       *)
(*                                                                         *)
(* The descriptor table, the avail ring and the used ring are one          *)
(* contiguous region (spec 4.3), and virtio_fill_desc stores at the        *)
(* position it is given: a chain descriptor at size or size + 1 lands on   *)
(* the avail ring that follows the table.                                  *)
(*                                                                         *)
(* A request is [op, sector, cnt]; its data and status buffers are named   *)
(* by the submission's sequence number.                                   *)
(***************************************************************************)
EXTENDS Naturals, Sequences

CONSTANTS
  QSize,          \* vq->size of queue 0
  IdxMod,         \* avail->idx and used->idx are u16: 2^16
  Capacity,       \* config capacity, in 512-byte sectors
  BlkSizes,       \* config blk_size values, in 512-byte sectors
  SectorMod,      \* fill_blk_hdr takes the sector as a uint32_t: 2^32
  MaxBlock,       \* the caller's block numbers are 0 .. MaxBlock
  MaxCnt,         \* the caller's block counts are 1 .. MaxCnt
  CmaSlots,       \* arena regions available for queue rings
  MaxOutstanding, \* requests the caller leaves with the device at once
  BufAddrs,       \* physical addresses of the request's buffers, each as
                  \* its four 16-bit words, least significant first
  GuestBigEndian  \* the guest's byte order, used on a legacy device

ASSUME BlkConstAssumption ==
  /\ IdxMod \in Nat /\ QSize \in 4 .. IdxMod /\ IdxMod % QSize = 0
  /\ BlkSizes \subseteq Nat \ {0} /\ BlkSizes # {}
  /\ {Capacity, MaxBlock, CmaSlots} \subseteq Nat
  /\ SectorMod \in Nat \ {0}
  /\ MaxCnt \in Nat \ {0} /\ MaxOutstanding \in 1 .. QSize
  /\ QSize <= 32768
  /\ BufAddrs \subseteq [1 .. 4 -> Nat] /\ BufAddrs # {}
  /\ \A pa \in BufAddrs : \A k \in 1 .. 4 : pa[k] < 65536
  /\ GuestBigEndian \in BOOLEAN

Q == QSize
DescId == 0 .. Q - 1
Idx == 0 .. IdxMod - 1
U16 == {w \in Nat : w < 65536}    \* a 16-bit word of guest memory

VIRTIO_BLK_T_IN == 0             \* read from the disk
VIRTIO_BLK_T_OUT == 1            \* write to the disk
Ops == {VIRTIO_BLK_T_IN, VIRTIO_BLK_T_OUT}

ACK == "ACKNOWLEDGE"
DRIVER == "DRIVER"
FEATURES_OK == "FEATURES_OK"
DRIVER_OK == "DRIVER_OK"
FAILED == "FAILED"

\* The buffer a descriptor points at: a part of the request with that number.
Parts == {"none", "hdr", "data", "status"}
NoReq == [op |-> 0, sector |-> 0, cnt |-> 0]
ZeroDesc == [part |-> "none", seq |-> 0, flags |-> {}, next |-> 0, req |-> NoReq]
ZeroRing == [idx |-> 0, ring |-> [s \in DescId |-> 0]]

VARIABLES
  status,     \* the device status register, as a set of bits
  modern,     \* the device offers VIRTIO_F_VERSION_1
  blkSize,    \* the device's config blk_size, in sectors
  ready,      \* queue 0 is set up by a virtioblk_init that succeeded
  cma,        \* arena regions allocated for queue rings and not freed
  desc,       \* descriptor table of queue 0
  avail,      \* [idx, ring] of queue 0
  used,       \* [idx, ring] of queue 0 (ring holds the ids)
  hostAvail,  \* the device's last_avail_idx
  broken,     \* the device found the queue malformed and stopped
  nsub,       \* submissions since the last init, mod 2^16 (history)
  subq        \* submissions the device has not taken, oldest first (history)

vars == <<status, modern, blkSize, ready, cma, desc, avail, used, hostAvail,
          broken, nsub, subq>>

(* Plausible mistakes in the code, each used in place of the definition    *)
(* it follows in a mutant run.                                             *)

\* The chain head without the final reduction mod the queue size.
ChainHeadNoMod(a) == (a % Q) * 3
\* The data direction taken from the wrong branch of (type & 1).
DataFlagsInverted(t) == IF t % 2 = 1 THEN {"NEXT", "WRITE"} ELSE {"NEXT"}

\* The index arithmetic of the code: u16 stores, and the distance between
\* two free-running indices.
Inc16(x) == (x + 1) % IdxMod
Dist(from, to) == (to - from) % IdxMod

\* fill_blk_hdr(..., blocknum * blk_size / DEFAULT_SECTOR_SIZE): the sector
\* passes through a uint32_t parameter.
HdrSector(b) == (b * blkSize) % SectorMod

\* The chain head virtioblk_transfer picks for avail index a.
ChainHead(a) == ((a % Q) * 3) % Q

\* The value virtioblk_transfer stores back into avail->idx.
NextAvailIdx(a) == Inc16(a % Q)

\* The data descriptor's flags: the device writes the buffer of a read.
DataFlags(t) == IF t % 2 = 1 THEN {"NEXT"} ELSE {"NEXT", "WRITE"}

\* The three descriptors of request s at head id: header, data, status.
HdrDesc(id, s, r) ==
  [part |-> "hdr", seq |-> s, flags |-> {"NEXT"}, next |-> id + 1, req |-> r]
DataDesc(id, s, t) ==
  [part |-> "data", seq |-> s, flags |-> DataFlags(t), next |-> id + 2,
   req |-> NoReq]
StatusDesc(s) ==
  [part |-> "status", seq |-> s, flags |-> {"WRITE"}, next |-> 0, req |-> NoReq]

\* The table after the three stores; the ones at id + 1 and id + 2 that are
\* past the table change no entry of it (SpillOntoRing).
ChainDescs(id, s, t, r) ==
  [i \in DescId |->
     CASE i = id     -> HdrDesc(id, s, r)
       [] i = id + 1 -> DataDesc(id, s, t)
       [] i = id + 2 -> StatusDesc(s)
       [] OTHER      -> desc[i]]

\* The 16-bit words of a descriptor {addr u64, len u32, flags u16, next u16}
\* in memory order: each field least significant word first on a modern
\* (little-endian) device, and in the guest's order on a legacy one.
\* VRING_DESC_F_NEXT is 1 and VRING_DESC_F_WRITE is 2.
LittleEndian == modern \/ ~GuestBigEndian
DescWords(addr, len, d) ==
  LET aw == IF LittleEndian THEN addr
            ELSE <<addr[4], addr[3], addr[2], addr[1]>>
      lo == len % 65536
      hi == (len \div 65536) % 65536
  IN  <<aw[1], aw[2], aw[3], aw[4],
        IF LittleEndian THEN lo ELSE hi, IF LittleEndian THEN hi ELSE lo,
        (IF "NEXT" \in d.flags THEN 1 ELSE 0) + (IF "WRITE" \in d.flags THEN 2 ELSE 0),
        d.next>>

\* virtio_fill_desc at position p >= size: the eight words of desc[p] are
\* words 8 * (p - size) .. 8 * (p - size) + 7 of the avail ring, which are
\* flags, idx, ring[0], ring[1], ...  The words past ring[size - 1] are
\* used_event (read only under VIRTIO_F_EVENT_IDX, never negotiated) and
\* padding or the used ring's header, which this driver never reads and
\* the device keeps its own count of; flags carries no bit this driver
\* uses, and idx is stored again at the end of virtioblk_transfer.  So
\* only the ring entries are kept.
SpillOntoRing(ring, p, w) ==
  [j \in DescId |->
     IF p >= Q /\ j + 2 - 8 * (p - Q) \in 0 .. 7
     THEN w[j + 3 - 8 * (p - Q)]
     ELSE ring[j]]

\* virtio_reset_device: the device forgets the queue and every request it
\* has not taken.
DeviceReset ==
  /\ hostAvail' = 0
  /\ broken' = FALSE
  /\ subq' = <<>>

\* The device processes the queue while DRIVER_OK is set and FAILED is not.
DeviceLive == DRIVER_OK \in status /\ FAILED \notin status

-----------------------------------------------------------------------------
Init ==
  /\ status = {}
  /\ modern \in BOOLEAN
  /\ blkSize \in BlkSizes
  /\ ready = FALSE
  /\ cma = 0
  /\ desc = [i \in DescId |-> ZeroDesc]
  /\ avail = ZeroRing
  /\ used = ZeroRing
  /\ hostAvail = 0
  /\ broken = FALSE
  /\ nsub = 0
  /\ subq = <<>>

(* virtioblk_init.  It resets the device, sets ACKNOWLEDGE and DRIVER,     *)
(* negotiates VERSION_1 on a modern device, sets up queue 0 and sets       *)
(* DRIVER_OK; on a failure it ORs FAILED into the status it holds.         *)

\* Status after the feature phase: a modern device kept FEATURES_OK.
NegotiatedStatus == IF modern THEN {ACK, DRIVER, FEATURES_OK} ELSE {ACK, DRIVER}

\* A modern device clears FEATURES_OK: goto dev_error.
InitNegotiationFails ==
  /\ ~ready
  /\ modern
  /\ status' = {ACK, DRIVER, FAILED}
  /\ DeviceReset
  /\ UNCHANGED <<modern, blkSize, ready, cma, desc, avail, used, nsub>>

\* virtio_queue_init_vq cannot allocate the rings: goto dev_error.
InitQueueFails ==
  /\ ~ready
  /\ cma = CmaSlots
  /\ status' = NegotiatedStatus \cup {FAILED}
  /\ DeviceReset
  /\ UNCHANGED <<modern, blkSize, ready, cma, desc, avail, used, nsub>>

\* (Mistake) set-up that never ORs DRIVER_OK into the status.
InitSucceedsNoDriverOk ==
  /\ ~ready
  /\ cma < CmaSlots
  /\ status' = NegotiatedStatus
  /\ ready' = TRUE
  /\ cma' = cma + 1
  /\ desc' = [i \in DescId |-> ZeroDesc]
  /\ avail' = ZeroRing
  /\ used' = ZeroRing
  /\ nsub' = 0
  /\ DeviceReset
  /\ UNCHANGED <<modern, blkSize>>

\* Set-up succeeds: fresh rings, DRIVER_OK.
InitSucceeds ==
  /\ ~ready
  /\ cma < CmaSlots
  /\ status' = NegotiatedStatus \cup {DRIVER_OK}
  /\ ready' = TRUE
  /\ cma' = cma + 1
  /\ desc' = [i \in DescId |-> ZeroDesc]
  /\ avail' = ZeroRing
  /\ used' = ZeroRing
  /\ nsub' = 0
  /\ DeviceReset
  /\ UNCHANGED <<modern, blkSize>>

\* virtioblk_shutdown: FAILED, then reset.  The rings are not freed.
Shutdown ==
  /\ status' = {}
  /\ ready' = FALSE
  /\ DeviceReset
  /\ UNCHANGED <<modern, blkSize, cma, desc, avail, used, nsub>>

(* virtioblk_transfer(blocknum b, cnt c, type t) once the capacity check   *)
(* passes (the rejecting exit changes nothing).  The caller leaves at      *)
(* most MaxOutstanding requests with the device.  Its header, data and    *)
(* status buffers are at any of BufAddrs; the three descriptors are        *)
(* stored first, then the ring entry, then the index.                      *)
Transfer(b, c, t) ==
  /\ ready
  /\ Len(subq) < MaxOutstanding
  /\ b + c - 1 <= Capacity
  /\ LET a == avail.idx % Q
         id == ChainHead(avail.idx)
         r == [op |-> t, sector |-> HdrSector(b), cnt |-> c]
     IN /\ desc' = ChainDescs(id, nsub, t, r)
        /\ \E hdrPa, bufPa, statusPa \in BufAddrs :
             LET hdrWords == DescWords(hdrPa, 16, HdrDesc(id, nsub, r))
                 dataWords == DescWords(bufPa, c * blkSize * 512,
                                        DataDesc(id, nsub, t))
                 statusWords == DescWords(statusPa, 1, StatusDesc(nsub))
                 spilt == SpillOntoRing(SpillOntoRing(SpillOntoRing(
                            avail.ring, id, hdrWords), id + 1, dataWords),
                            id + 2, statusWords)
             IN  avail' = [avail EXCEPT !.ring = [spilt EXCEPT ![a % Q] = id],
                                        !.idx = NextAvailIdx(avail.idx)]
  /\ nsub' = Inc16(nsub)
  /\ subq' = Append(subq, [seq |-> nsub, op |-> t, sector |-> b * blkSize,
                           cnt |-> c])
  /\ UNCHANGED <<status, modern, blkSize, ready, cma, used, hostAvail, broken>>

-----------------------------------------------------------------------------
(* The device.                                                             *)

\* The chain at the device's next avail entry: header, data, status.
HostHead == avail.ring[hostAvail % Q]
HostData == desc[HostHead].next
HostStatus == desc[HostData].next

\* The queue is well formed at the device's next entry.
ChainOK ==
  /\ Dist(hostAvail, avail.idx) <= Q
  /\ HostHead \in DescId /\ "NEXT" \in desc[HostHead].flags
  /\ HostData \in DescId /\ "NEXT" \in desc[HostData].flags
  /\ HostStatus \in DescId /\ "NEXT" \notin desc[HostStatus].flags

\* The device executes the request and returns its head in the used ring.
HostBlk ==
  /\ DeviceLive /\ ~broken
  /\ hostAvail # avail.idx
  /\ ChainOK
  /\ used' = [used EXCEPT !.ring[used.idx % Q] = HostHead, !.idx = Inc16(@)]
  /\ hostAvail' = Inc16(hostAvail)
  /\ subq' = IF subq = <<>> THEN subq ELSE Tail(subq)
  /\ UNCHANGED <<status, modern, blkSize, ready, cma, desc, avail, broken, nsub>>

\* The device finds the queue malformed and stops until the next reset.
HostBlkError ==
  /\ DeviceLive /\ ~broken
  /\ hostAvail # avail.idx
  /\ ~ChainOK
  /\ broken' = TRUE
  /\ UNCHANGED <<status, modern, blkSize, ready, cma, desc, avail, used,
                 hostAvail, nsub, subq>>

HostStep == HostBlk \/ HostBlkError

Next ==
  \/ InitNegotiationFails
  \/ InitQueueFails
  \/ InitSucceeds
  \/ Shutdown
  \/ \E b \in 0 .. MaxBlock, c \in 1 .. MaxCnt, t \in Ops : Transfer(b, c, t)
  \/ HostBlk
  \/ HostBlkError

Spec == Init /\ [][Next]_vars

\* The hypervisor acts on queue 0 whenever virtioblk_transfer notifies it.
FairSpec == Spec /\ WF_vars(HostStep)

-----------------------------------------------------------------------------
(* Properties.                                                             *)

Desc == [part : Parts, seq : Idx, flags : SUBSET {"NEXT", "WRITE"},
         next : 0 .. Q + 1, req : [op : Ops, sector : 0 .. SectorMod - 1,
                                   cnt : 0 .. MaxCnt]]
Submission == [seq : Idx, op : Ops, sector : Nat, cnt : 1 .. MaxCnt]

\* Every variable holds a value of its type.
BlkTypeOK ==
  /\ status \subseteq {ACK, DRIVER, FEATURES_OK, DRIVER_OK, FAILED}
  /\ modern \in BOOLEAN /\ ready \in BOOLEAN /\ broken \in BOOLEAN
  /\ blkSize \in BlkSizes
  /\ cma \in 0 .. CmaSlots
  /\ desc \in [DescId -> Desc]
  /\ avail \in [idx : Idx, ring : [DescId -> U16]]
  /\ used \in [idx : Idx, ring : [DescId -> DescId]]
  /\ hostAvail \in Idx /\ nsub \in Idx
  /\ subq \in Seq(Submission) /\ Len(subq) <= MaxOutstanding

(* The device executes the oldest request virtioblk_transfer submitted and *)
(* it has not taken: the header, data and status descriptors of the chain  *)
(* it takes all belong to that request, the header names its operation and *)
(* block count, and the data buffer is device-writable exactly for a read. *)
(* Nothing virtioblk_transfer stores for a later request may overwrite     *)
(* the descriptors or the avail ring entry of a request the device has    *)
(* not taken.                                                              *)
ExecutesSubmitted ==
  [][HostBlk =>
       /\ subq # <<>>
       /\ <<desc[HostHead].part, desc[HostData].part, desc[HostStatus].part>>
            = <<"hdr", "data", "status">>
       /\ \A d \in {HostHead, HostData, HostStatus} : desc[d].seq = subq[1].seq
       /\ desc[HostHead].req.op = subq[1].op
       /\ desc[HostHead].req.cnt = subq[1].cnt
       /\ ("WRITE" \in desc[HostData].flags <=> subq[1].op = VIRTIO_BLK_T_IN)
    ]_vars

\* The headers of the chains published after the device's cursor, read as
\* the device reads them: the queue of requests the ring holds.
RingRequests ==
  IF ready
  THEN [k \in 1 .. Dist(hostAvail, avail.idx) |->
          desc[avail.ring[(hostAvail + k - 1) % Q]].req]
  ELSE <<>>

\* The requests a caller can ask for, as their headers name them.
CallerRequests ==
  [op : Ops, sector : {b * z : b \in 0 .. MaxBlock, z \in BlkSizes},
   cnt : 1 .. MaxCnt]

BQ == INSTANCE BlkRequests WITH
        Requests <- CallerRequests, on <- ready, pending <- RingRequests,
        halted <- broken

(* The block driver with its device implements the request queue of        *)
(* BlkRequests: virtioblk_transfer only appends a request at the tail of   *)
(* what the ring holds, the device only takes its head, virtioblk_init and *)
(* virtioblk_shutdown empty it, and once the hypervisor acts on every      *)
(* notify the device works through it unless it halts.                     *)
BlkRequestsSpec == BQ!Spec

(* virtio 2.6.6: avail->idx is where the driver puts the next entry; it    *)
(* starts at 0 and increases.  After a virtioblk_init, it counts the       *)
(* requests virtioblk_transfer has submitted, mod 2^16.                    *)
AvailCountsSubmissions == ready => avail.idx = nsub

(* "Check whether request is within disk capacity": every request the      *)
(* driver submits lies within the disk's Capacity sectors.                 *)
RequestWithinDisk ==
  \A i \in 1 .. Len(subq) : subq[i].sector + subq[i].cnt * blkSize <= Capacity

(* Spec 4.5: the header the device executes names the sector              *)
(* blocknum * blk_size / 512 the caller asked for.                         *)
AccessesRequestedSector ==
  [][HostBlk => subq # <<>> /\ desc[HostHead].req.sector = subq[1].sector]_vars

=============================================================================

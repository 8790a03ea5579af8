# TLA+ models of libvirtio

This directory holds TLA+ specifications of the virtio guest drivers in `src/`,
the TLC configurations that model-check them, and TLAPS proofs about them.

## The system

`src/virtio-blk.c` holds three sources concatenated: the block driver
(lines 1-179), `cpu.h` with `sync()`/`mb()` (180-221), and the network driver
(222-708). `src/helpers.c` is the platform layer. It provides the
contiguous-memory arena (`SLOF_alloc_mem_aligned` / `SLOF_free_mem_aligned`),
`malloc`, and timers. The transport (`virtio.c`), the queue set-up
(`virtio_queue_init_vq`) and the byte-order helpers are not in this
repository.

The drivers share split virtqueues with the hypervisor, which runs
concurrently. Each queue has three parts:
- a descriptor table;
- an avail ring, where the guest publishes chain heads and bumps `avail->idx`;
- a used ring, where the device returns completed heads and bumps `used->idx`.

Indices are free-running `u16`s, and ring positions are taken mod the queue
size. The guest is single-threaded and callers serialise calls on an
instance, so the only concurrency is guest against device. The memory-ordering
contract of spec section 5 governs that concurrency.

## Modules

| module | models | status |
|---|---|---|
| `VirtioNet` | the network driver with its device: open, close, write, read, handle_interrupt; the arena accounting; load reordering on the RX path | modelled |
| `MCVirtioNet` | the constants for TLC | |
| `VirtioNetPair` | two net instances at once, composed from two `INSTANCE`s of `VirtioNet` that share the file-scope globals and the arena | |
| `BlkRequests` | the abstract request queue the block driver implements | |
| `VirtioBlk` | the block driver with its device: init, transfer, shutdown; queue 0 and its three-descriptor chains | modelled |
| `MCVirtioBlk` | the constants for TLC | |
| `VirtioNetProofs` | TLAPS proofs, for all constants, of type correctness and of RX credit conservation | |
| `VirtioNetTxProofs` | TLAPS proof, for all constants, that TX packets reach the wire in order and intact while at most size/4 are in flight | |
| `VirtioNetRxProofs` | TLAPS proof, for all constants and without load reordering, of the RX ring partition (`RxRingPartition`) | |
| `VirtioBlkProofs` | TLAPS proofs, for all constants, of the block driver's type correctness and, for a serial caller, that the device executes only the submitted request | |

### VirtioNet: state and actions

**State.** The variables are:
- `vnet`, `running`, `status`, `modern` and `netHdr`: the instance, `driver.running`, the status register, VERSION_1 offered, and `net_hdr_size`;
- `cma` and `owned`: the arena regions in use, and those reachable from the live instance;
- `desc`, `avail` and `used`: per queue, with `used` rings holding only the ids;
- `lastRx` and `lastTx`: the globals `last_rx_idx` and `last_tx_idx`;
- `rxBuf` and `txBuf`: the payload buffers;
- `rxOut`: what the last receive copied out;
- `wire`: the last packet the device sent;
- `hostAvail` and `isr`: the device's cursors and its interrupt status;
- `usedOld`, `usedFresh`, `bufOld` and `bufFresh`: the reordering state, described below.

**Data.** A packet is its sequence number. The device numbers the k-th RX
packet k, and `virtionet_xmit` numbers the packet it queues at avail index k
with k. FIFO delivery is then an equality between a delivered value and an
index.

**Actions.** Each is a whole handler:
- `OpenNegotiationFails`, `OpenAllocFails` and `OpenSucceeds` are the three
  exits of `virtionet_open` (via `virtionet_init_mmio` and `virtionet_init`):
  - the modern feature handshake may fail (goto `dev_error`);
  - each of the four arena allocations may fail, in order: the two rings, the
    RX pool, the TX pool. `FreeAllocs` is how many succeed;
  - the success path installs the RX chain table `RxDescTable` (the pre-post
    loop), `avail.idx = Q/2`, DRIVER_OK|FEATURES_OK and `running`.
- `Close` is `virtionet_close`/`virtionet_term`. It frees the RX pool and both
  rings (three regions) and drops the TX pool pointer.
- `Xmit` is `virtionet_write`/`virtionet_xmit`:
  - chain `TxHead(idx)` = `(idx*2)%Q`, `+1`; payload slot `TxSlot(idx)`;
  - the avail entry and `avail.idx+1`;
  - `last_tx_idx = used->idx`.
- `Receive` is `virtionet_read`/`virtionet_receive`. It reads the used entry
  (`UsedEntryRead`), takes the payload id `(e+1)%Q` (`PayloadDesc`), copies
  (`BufRead`), advances `last_rx_idx`, and re-posts `id-1` (`RepostHead`).
- `HandleInterrupt` reads and acknowledges the interrupt status.
- `HostRx` and `HostTx` are the device, modelled from the spec. It consumes
  avail entries in order while DRIVER_OK is set and FAILED is not, writes the
  used entry before `used.idx`, and raises the interrupt unless
  NO_INTERRUPT is set.

**Weak memory.** `virtionet_receive` loads `used->idx` and then the used entry
and the packet with no barrier in between. With `LoadsReorder = TRUE`, each of
those two loads may return the value the location had before the device's
last write to it, provided that write came after the guest's last `sync()`.
`usedFresh`/`bufFresh` record such writes, and `Barrier` (every `sync()` of a
handler) clears them.

**Constants.**
- `QSize` is the queue size, a multiple of 4 that divides `IdxMod`.
- `IdxMod` is the index modulus, 2^16 in the code.
- `CmaSlots` is the arena capacity in regions.
- `TxInFlightBound` is how far the caller may run ahead of the device on TX.
- `LoadsReorder` says whether the CPU may reorder loads.


### VirtioNetPair: two instances

`virtionet_open` allocates a `struct virtio_net` per device, but
`net_hdr_size`, `last_rx_idx` and `last_tx_idx` (lines 283 and 295-296) are
file-scope globals, and both instances allocate from one arena.
`VirtioNetPair` declares one copy of those four variables (`shared`) and, for
each instance A and B, its own copy of every other variable of `VirtioNet`.
`NA` and `NB` are `INSTANCE VirtioNet WITH ...`, each mapping the
per-instance variables to its own copy and leaving the globals shared. A step
is a step of one instance's `Next` (a driver call on it, or its device
acting) with the other instance's variables unchanged.

### VirtioBlk: state and actions

**State.** The variables are:
- `status`, `modern` and `blkSize`: the status register, whether the device offers VERSION_1, and the config `blk_size` in 512-byte sectors;
- `ready`: queue 0 is set up by an init that succeeded;
- `cma`: how many queue rings are allocated from the arena;
- `desc`, `avail` and `used`: queue 0;
- `hostAvail` and `broken`: the device's cursor, and whether it has found the queue malformed and stopped.

Two history variables record what the caller did:
- `nsub` counts the submissions since init, mod 2^16;
- `subq` lists the submissions the device has not yet taken, oldest first.

**Descriptors.** A descriptor records:
- which part of which request it points at (`part`, `seq`);
- its `flags` and `next` fields;
- for a header descriptor, the header it points at (`req`).

**Stores past the table.** `virtioblk_transfer` stores the three descriptors
at `id`, `id+1` and `id+2` (lines 155-169) without reducing them mod the
size. For a head of `size-2` or `size-1`, one or two of the stores fall past
the table. `virtio_fill_desc` is outside `src/`; per spec line 74 it writes
the entry at the id it is given, so the model stores there. The descriptor
table, the avail ring and the used ring are one contiguous region (spec
line 70), so a store at `Q + k` lands on avail ring words `8k .. 8k+7`:
- `ChainDescs` changes only the entries inside the table;
- `DescWords` gives the eight 16-bit words of a descriptor in memory order
  (`addr`, `len`, `flags`, `next`). They are little-endian on a modern device
  and in the guest's order on a legacy one (spec line 37);
- `SpillOntoRing` writes those words over the avail ring entries they cover.
  It leaves out the avail `flags` word (no bit this driver uses), `idx`
  (line 173 stores it again), and the words past the ring (`used_event`,
  never negotiated, then padding the driver never reads).

The ring entry for the new request is stored after the spill (line 171), so
a request never clobbers its own entry. It can clobber the entry of an
earlier request the device has not taken yet.

**Actions.** Each is a whole call:
- `InitNegotiationFails`, `InitQueueFails` and `InitSucceeds` are the three exits of `virtioblk_init`. Each starts with a reset, which voids outstanding requests:
  - a modern device may clear FEATURES_OK;
  - a ring allocation may fail once the arena is full;
  - otherwise init sets up fresh rings and sets DRIVER_OK.
- `Shutdown` is `virtioblk_shutdown`: FAILED, then a reset. The rings are not freed.
- `Transfer(b, c, t)` is `virtioblk_transfer` once the capacity check passes:
  - `avail_idx = avail->idx % size`;
  - the header sector is `b * blk_size / 512` truncated to `uint32_t` (`HdrSector`);
  - the chain goes at head `(avail_idx * 3) % size` (`ChainHead`), with data flags from `type & 1`;
  - the avail entry is written, then `avail->idx = avail_idx + 1` (`NextAvailIdx`).

  The rejecting exits return before changing anything.
- `HostBlk` and `HostBlkError` are the device. It takes the next avail entry while DRIVER_OK is set and FAILED is not:
  - it executes a well-formed chain (header and data with NEXT, status without NEXT, all inside the table, and an index jump of at most `size`);
  - otherwise it stops until the next reset, as a virtio device must on a malformed queue.

**Constants.**
- `QSize`, `IdxMod` and `CmaSlots` are as for the net driver.
- `Capacity` is the disk size in sectors.
- `BlkSizes` is the set of `blk_size` values the device may report.
- `SectorMod` is the width of the sector parameter, 2^32 in the code.
- `MaxBlock` and `MaxCnt` bound the caller's arguments.
- `MaxOutstanding` is how many requests the caller leaves with the device at once. `virtioblk_transfer` does not wait for completion (it returns after the notify, line 178), so more than one is reachable. Spec line 81 says the drivers "submit and drain serially", which is 1.
- `BufAddrs` is the set of physical addresses the header, data and status buffers may have, each as four 16-bit words. The words matter only when a descriptor spills onto the avail ring.
- `GuestBigEndian` is the guest's byte order, used for a legacy device.

## Runs

| run | cfg | result | shows |
|---|---|---|---|
| `net_core` | `MCVirtioNet.cfg` | pass, 457,461 states | `TypeOK`, `RxRingPartition`, `RxDeliversInOrder`, `TxDeliversInOrder` hold with an in-order CPU and at most 2 packets in flight |
| `rx_load_reorder` | `MCVirtioNetReorder.cfg` | violation | with load reordering, receive copies the previous contents of the buffer (a missing acquire barrier after line 593) |
| `tx_ring_full` | `MCVirtioNetTxFull.cfg` | violation | with 4 packets in flight on an 8-entry queue, the third `xmit` overwrites the first packet's payload (TX slots are `idx mod Q/4`; there is no flow control) |
| `blk_core` | `MCVirtioBlk.cfg` | pass, 87,006 states | `ExecutesSubmitted` and the refinement `BlkRequestsSpec` hold on an 8-entry queue for a serial caller, across failed inits, shutdowns, re-inits and the device refusing the third chain (6, 7, 8, which spills onto the avail ring) |
| `blk_avail_wrap` | `MCVirtioBlkWrap.cfg` | violation | after `size` submissions on a 4-entry queue, `avail->idx` falls from 4 to 1; a device that has not caught up never executes the chains at indices 1..4 |
| `blk_capacity` | `MCVirtioBlkCapacity.cfg` | violation | with capacity 3, a read of block 3 passes the check (`3 + 1 - 1 > 3` is false) although the last sector is 2 |
| `blk_sector_trunc` | `MCVirtioBlkSector.cfg` | violation | with a 2-bit sector width standing for 32 bits, block 4 is sent to the device as sector 0 |
| `blk_ring_clobber` | `MCVirtioBlkClobber.cfg` | violation | with two requests in flight on an 8-entry queue, the third request's status descriptor is stored at `desc[8]`, which overlays the avail ring's flags, idx and `ring[0..5]`. The high words of its buffer address land on `ring[0..1]`, so the entry of the waiting second request becomes 0, and the device re-executes the first request's chain |
| `pool_leak` | `MCVirtioNetLeak.cfg` | violation | after open then close, one region (the TX pool) is still allocated; the failed-open paths leak too |
| `net_tx_live` | `MCVirtioNetTxLive.cfg` | pass, 31,995 states | `TxEventuallySent` under weak fairness of the device's TX step: every published packet is sent or its instance closed |
| `net_legacy_status` | `MCVirtioNetLegacy.cfg` | violation | `virtionet_init` hands a legacy device FEATURES_OK together with DRIVER_OK |
| `net_pair_rx_cursor` | `MCVirtioNetPair.cfg` | violation | A opens, receives one packet (`last_rx_idx` = 1), B opens and sets the shared `last_rx_idx` to 0: A's cursor is one behind its used ring and its next receive consumes entry 0 again |

**Properties.**
- `RxRingPartition`: while the driver runs, the Q/2 RX chains are split
  between the device (avail entries it has not taken) and the driver (used
  entries not yet received). Their counts add up to Q/2 and together they name
  every chain head. No buffer is lost or posted twice.
- `RxDeliversInOrder`: the receive that advances `last_rx_idx` from k copies
  packet k.
- `TxDeliversInOrder`: when the device sends the chain of avail index k, it
  sends packet k.
- `TxEventuallySent` (liveness): every packet `virtionet_xmit` publishes
  is eventually taken by the device, or its instance is closed.
- `NoLeak`: every region in use is reachable from the live instance.
- `ExecutesSubmitted` (block, action property): each request the device
  executes is the oldest outstanding one, and the header, data and status
  descriptors of the chain all belong to it. The header also carries its
  operation and count, and the data buffer is device-writable exactly for a
  read. It fails if a later submission overwrites a descriptor or the avail
  entry of a request still waiting (run `blk_ring_clobber`), or if the data
  direction is taken from the wrong branch of `type & 1`.
- `BlkRequestsSpec` (block, refinement): the driver with its device
  implements `BlkRequests`. That module is the abstract request queue: a FIFO
  of requests that `Start` and `Stop` empty, `Submit` appends to, and the
  device `Execute`s oldest first, or stops on with `Halt`, under weak fairness.
  The refinement mapping is:
  - `on <- ready`;
  - `halted <- broken`;
  - `pending <- RingRequests`: the headers of the chains between the device's
    cursor and `avail->idx`, read as the device reads them.

  The ring therefore only grows at the tail, only shrinks at the head, and is
  emptied by every reset. Because the abstract queue's liveness is part of
  the property, the device works through it.

  A request whose chain leaves the table makes the device refuse the queue.
  The refinement maps that to the abstract `Halt`, which `blk_core` reaches.
- The block violation runs check one property each:
  - `AvailCountsSubmissions` (virtio 2.6.6): `avail->idx` counts the
    submissions since init;
  - `RequestWithinDisk`: what the comment at line 130 promises;
  - `AccessesRequestedSector`: spec 4.5's sector formula;
  - `ExecutesSubmitted` again, with two requests in flight (`blk_ring_clobber`).

- The pair's violation run checks `RxCredits` of `VirtioNet` for each open
  instance (`EachInstanceRxCredits`); the spec's section on global mutable
  state says the RX cursor belongs to the instance. It uses Q = 4 and an
  arena for two instances: the shortest counterexample takes five steps of
  three actors (A's driver, A's device, B's driver). The pair also shows
  `net_hdr_size` overwritten by a second open of the other device kind
  (`netHdr`), but lengths are abstracted, so no property measures the
  consequence.
- `LegacyNoFeaturesOk`: a legacy device never sees FEATURES_OK, as in the
  spec's legacy negotiation and in `virtioblk_init`.

**Bounds.**
- Q = 8 gives 4 RX chains and 2 TX slots, so the ring wraps several times.
- IdxMod = 16 makes the 16-bit indices wrap: index 15 → 0 crosses the ring
  twice.
- CmaSlots = 5 fits one instance (4 regions). Each close leaks one region,
  so the second open still succeeds and the third fails part-way. All three
  open exits are reached.
- `TxInFlightBound = 2` equals Q/4, the most the code's TX pool supports.
  `TxFull` uses 4 = Q/2, what the descriptor ring would allow.

Every action fires in `net_core`. The mutants in `PROJECT.json` show that each
property notices a plausible slip in the code:
- a 16-bit index kept wide;
- the payload id without `+1`;
- re-posting the payload id instead of the head;
- the TX slot computed mod a quarter of the queue instead of a half (a pool of half the size).

The net runs assume no fairness, except `net_tx_live`. It uses `FairSpec`,
which adds weak fairness of `HostTx`: `virtionet_xmit` notifies VQ_TX after
every packet (line 557), and a hypervisor serves a notified queue. The RX
step is not fair, because packets arrive only when the network sends them.
`TxEventuallySent` says that a packet published at avail index k stops being
queued: either the device sends it or the instance is closed. That run uses
a 4-entry queue with 3-bit indices, so the avail index wraps twice per lap
of the index space. The mutant that drops `% size` from the TX head leaves
the device facing an out-of-table chain and a packet queued forever.

The block run `blk_core` uses `FairSpec`, which adds
weak fairness of the device step (`HostBlk \/ HostBlkError`).
`virtioblk_transfer` notifies the device after every submission (line 176),
and a hypervisor acts on a notified queue. The driver's calls are not fair,
because a caller may stop at any time.

Block bounds:
- An 8-entry queue puts chains at heads 0 and 3. The third chain (6, 7, 8)
  leaves the table, which is the first malformed chain any power-of-two size
  reaches. Its status descriptor spills onto `avail->ring[0..5]`.
- `blk_core` has a serial caller (spec line 81). `blk_ring_clobber` has two
  requests in flight, the fewest at which a spill can hit a waiting request.
- Two `blk_size`s and two re-inits reach every exit of init, including the
  arena running out.
- Two buffer addresses, with a big-endian guest, make a spilt word differ
  between a modern and a legacy device.

## Proofs

`VirtioNetProofs` proves `THEOREM TypeCorrect == Spec => []TypeOK` for every
value of the constants that satisfies `QSizeAssumption` and
`BoundsAssumption`.

`TypeOK` alone is not inductive. `virtionet_close` subtracts 3 from the arena
count, which stays non-negative only because a running driver holds its four
regions. The inductive invariant is therefore
`TInv == TypeOK /\ (running => cma >= 4)`.

The proof has one lemma per action (`...TInv`) and combines them in
`NextTInv`. It rests on arithmetic lemmas:
- `TxChainInTable`: the TX chain `(idx*2)%Q`, `+1` lies in the table, because
  an even number mod an even Q is even;
- `TxSlotInPool`;
- `PayloadDescType` and `RepostHeadType`;
- `AddrKinds`: only RX payload addresses name RX slots;
- `HostChainType`.

It also proves `THEOREM RxCreditsInvariant == Spec => []RxCredits`.
`RxCredits` is the counting half of `RxRingPartition`. While the instance
exists, two counts add up to Q/2:
- the RX chains the device holds, `Dist(hostAvail[RX], avail[RX].idx)`;
- the chains waiting for the driver, `Dist(last_rx_idx, used[RX].idx)`.

The inductive invariant is `CInv == TInv /\ RxCredits`. `TInv` is needed so
that the indices are in `0..IdxMod-1`. The argument runs per action:
- `virtionet_open` sets the counts to Q/2 and 0.
- `virtionet_receive` moves one credit from the driver to the device. It
  re-posts one chain and advances `last_rx_idx`.
- The device's RX step moves one credit back.
- `virtionet_close` ends the instance.
- Every other step leaves the RX counters alone.

Three `Dist` lemmas carry the proof over the wrap of the 16-bit indices:
- `DistType`: a distance is an index;
- `DistIncTo`: bumping the far end adds one, unless the distance is already
  `IdxMod-1`;
- `DistIncFrom`: bumping the near end of a non-empty stretch subtracts one.

The side condition of `DistIncTo` follows from the invariant, because Q/2 <
IdxMod-1.

`VirtioNetTxProofs` proves `THEOREM TxDeliversInOrderProved`:
`Spec => TxDeliversInOrder` under the hypothesis
`TxInFlightBound <= Q \div 4`. Every packet the device sends is the one
`virtionet_xmit` published at that avail index. The hypothesis is the size
of the TX pool: `virtionet_init` gives it size/4 payload slots, and
`virtionet_xmit` picks slot `idx mod size/4`. A caller that runs further
ahead overwrites a slot still in flight; run `tx_ring_full` shows this.
The hypothesis is a theorem hypothesis, not an `ASSUME`, so the model keeps
`TxInFlightBound` up to Q/2 and TLC still reaches that case.

The action property needs an invariant about the packets in flight. The
inductive invariant is `TInv /\ TxInv`, where `TxInv` says:
- `running = vnet`, and a live device (`DRIVER_OK`, no `FAILED`) implies an
  open instance. Without this, the device could send from rings that
  `virtionet_open` has not yet set up;
- while the instance is open, the window `Dist(hostAvail[TX], avail[TX].idx)`
  is at most the bound, and every index `k` in it is intact (`TxChainOK`):
  the ring entry at `k mod Q` is `TxHead(k)`, that descriptor is the header
  linked to `TxHead(k)+1`, the payload descriptor points at slot
  `TxSlot(k)`, and that slot holds packet `k`.

`virtionet_xmit` appends the next index to the window. It must not overwrite
anything the older indices use. They lie fewer than size/4 places back, so
their remainders mod size/4 differ. This is `WindowDistinct`, which also
holds across the wrap, because size/4 divides `IdxMod`. `TxDistinct` turns
different remainders into a different slot, ring entry, head and payload
descriptor. It uses `TxIndexForms`, which gives `TxSlot(k) = k mod size/4`
and `TxHead(k) = 2 (k mod size/2)`. The device's step removes the first
index, and `ModAddMod` shifts the rest. The remaining steps leave TX state
alone. TLC checked `TxInv` as an invariant before it was proved
(Q = 8, bound 2, 457 461 states).

`VirtioNetRxProofs` proves `THEOREM RxRingPartitionProved`:
`Spec => []RxRingPartition`, under the hypothesis `~LoadsReorder`. While the
instance is open, the size/2 chain heads that `virtionet_open` posted are
exactly the union of two lists:
- the avail entries from `hostAvail[RX]`, which the device has not taken;
- the used entries from `last_rx_idx`, which `virtionet_receive` has not
  taken.

The hypothesis is needed. With reordered loads, `virtionet_receive` can read
a stale used entry and re-post a head that is not the one the device
returned. TLC finds the partition broken that way in a few hundred states.
The run `rx_load_reorder` records the visible symptom, a stale packet
(`RxDeliversInOrder`).

`RxCredits` (proved above) counts the two lists but does not name their
entries. The inductive invariant is `CInv /\ RxCover`, where `RxCover` is
the set equation itself. It needs no cardinality argument, because each step
moves one head from one list to the other:
- `HostRx` removes the first held head and writes it at used position
  `used.idx`. That position is the end of the awaiting list (`DistEnd`), and
  the earlier awaiting positions differ from it (`RingPosDistinct`,
  fewer than Q of them);
- `virtionet_receive` takes the first awaiting head `e` and re-posts
  `RepostHead(PayloadDesc(e))`, which is `e` again (`RepostOfHead`), at the
  end of the held list;
- `ModQIdx` shifts positions taken modulo `IdxMod` to positions modulo Q.
  It is valid because Q divides `IdxMod`;
- the other steps leave the RX rings and cursors alone (`RxCoverFrame`,
  `XmitRx`, `HostTxRx`), or close the instance.

The arithmetic lemmas are built from `DivMod` (`x % d = x - d*(x \div d)`,
for Z3): `ModRange`, `ModUnique`, `ModShift`, `ModMod`, `ModDouble` and
`ModStep`. Z3 does not find the nonlinear facts on its own.

`VirtioBlkProofs` proves `THEOREM BlkTypeCorrect == Spec => []BlkTypeOK`
for every value of the constants that satisfies `BlkConstAssumption`.
`BlkTypeOK` is inductive as it stands, so one lemma per action suffices
(`TransferType`, `HostBlkType`, ...), combined in `NextType`. What it shows
beyond the shape of the model:
- every word a spilt descriptor leaves on the avail ring is a `u16`, for
  every buffer address and byte order (`DescWordsType`, `SpillType`);
- the used ring holds only descriptor ids, because the device validates
  the head it takes (`ChainOK` in `HostHeadType`).

It also rests on:
- `ChainHeadType`: `((a % Q) * 3) % Q` is a descriptor for every index `a`;
- `ChainDescsType`: writing the three descriptors of a chain keeps the
  table well typed. The links `id + 1` and `id + 2` may point one or two
  past the table, which the type `next : 0 .. Q + 1` admits;
- `HdrSectorType`: the header sector is reduced into the `uint32_t` range;
- the `Append` and `Tail` facts of `SequenceTheorems` for the caller's queue,
  bounded by the guard `Len(subq) < MaxOutstanding`.

`VirtioBlkProofs` also proves `THEOREM SerialExecutesSubmitted`:
`Spec => ExecutesSubmitted` under the hypothesis `MaxOutstanding = 1`, for
every queue size, index width and disk. A serial caller never has the device
execute anything but the request it submitted. When the chain runs past
the table, or `avail->idx` wraps at the queue size, the device refuses the
queue instead. The inductive invariant `SerialInv` says:
- a live device implies a set-up queue, and `avail->idx <= size` (the code
  stores `avail_idx % size + 1`);
- with nothing outstanding, the device's cursor equals `avail->idx`;
- with one request outstanding, either the cursor is more than `size`
  behind `avail->idx` (the device will refuse the queue), or `avail->idx`
  is one past the cursor and the ring entry at the cursor is `ChainHead` of
  it. In the second case, the chain there, as far as it lies in the table,
  is the request's (`ChainMatches`).

`SerialTransfer` is the main step. When `avail->idx < size`, the entry is
stored after the spill, and `ChainDescsAt` gives the three stores inside the
table. When `avail->idx = size`, the stored index is 1 while the cursor is at
`size`; `IdxModTwice` (the size divides `IdxMod`) puts them more than `size`
apart. The hypothesis is not an `ASSUME`, so the model keeps
`MaxOutstanding` free and `blk_ring_clobber` shows what two requests do.
TLC checked `SerialInv` before it was proved, with the queue sizes 8, 6
and 4, including 6 with `IdxMod` 6 and 12, where every chain fits and the
index wraps.

Only TLC checks the rest:
- `RxRingPartition` when loads may be reordered (the theorem assumes they
  are not);
- `RxDeliversInOrder`;
- the liveness property `TxEventuallySent` and the
  fairness part of `BlkRequestsSpec`. Those need `ENABLED` and fairness
  reasoning, which the provers here do not do;
- the refinement of `BlkRequests` by `VirtioBlk`.

## Not modelled, and next

- **Block completion.** The block driver has no completion path: the caller
  polls, which is outside `src/`. The history variable `subq` stands for what
  the caller still waits for.
- **A passing two-instance run.** `VirtioNetPair` is only used to exhibit
  the shared-global defects; with them, no per-instance RX property holds.
- **A notify-driven device.** This would reach the missing barrier before
  notify in receive, with a liveness property under weak fairness of the
  device.
- **More abstract specifications and refinement:** an RX FIFO channel for
  the net driver, and the status FSM of spec section 4.4. (The block
  driver's refinement of `BlkRequests` is checked by TLC.)
- **The transport, queue set-up and byte-order helpers.** These are not in
  this repository. Lengths and MAC configuration reads hold no state that the
  properties tell apart.

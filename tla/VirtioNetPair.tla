---------------------------- MODULE VirtioNetPair ----------------------------
(***************************************************************************)
(* Two virtio-net devices driven by the same driver code at once: each     *)
(* virtionet_open returns its own struct virtio_net, with its own device,  *)
(* rings, buffers and status, but the file-scope globals of                *)
(* src/virtio-blk.c are one copy for both:                                 *)
(*   net_hdr_size (line 283), last_rx_idx and last_tx_idx (lines 295-296), *)
(* and the contiguous-memory arena both instances allocate from.           *)
(*                                                                         *)
(* Each instance is the VirtioNet specification over its own variables,    *)
(* with the globals substituted by the shared ones.  A step of the system  *)
(* is a step of one instance (a driver call on it, or its device acting)   *)
(* that leaves the other instance's variables alone.                       *)
(***************************************************************************)
EXTENDS Naturals

CONSTANTS QSize, IdxMod, CmaSlots, TxInFlightBound, LoadsReorder

VARIABLES
  netHdr, cma, lastRx, lastTx,              \* the shared globals and arena
  vnetA, runningA, statusA, modernA, ownedA, descA, availA, usedA,
  rxBufA, txBufA, rxOutA, wireA, hostAvailA, isrA, usedOldA, usedFreshA,
  bufOldA, bufFreshA,                       \* instance A
  vnetB, runningB, statusB, modernB, ownedB, descB, availB, usedB,
  rxBufB, txBufB, rxOutB, wireB, hostAvailB, isrB, usedOldB, usedFreshB,
  bufOldB, bufFreshB                        \* instance B

shared == <<netHdr, cma, lastRx, lastTx>>
varsA == <<vnetA, runningA, statusA, modernA, ownedA, descA, availA, usedA,
           rxBufA, txBufA, rxOutA, wireA, hostAvailA, isrA, usedOldA,
           usedFreshA, bufOldA, bufFreshA>>
varsB == <<vnetB, runningB, statusB, modernB, ownedB, descB, availB, usedB,
           rxBufB, txBufB, rxOutB, wireB, hostAvailB, isrB, usedOldB,
           usedFreshB, bufOldB, bufFreshB>>
vars == <<shared, varsA, varsB>>

NA == INSTANCE VirtioNet
        WITH vnet <- vnetA, running <- runningA, status <- statusA,
             modern <- modernA, owned <- ownedA, desc <- descA,
             avail <- availA, used <- usedA, rxBuf <- rxBufA,
             txBuf <- txBufA, rxOut <- rxOutA, wire <- wireA,
             hostAvail <- hostAvailA, isr <- isrA, usedOld <- usedOldA,
             usedFresh <- usedFreshA, bufOld <- bufOldA, bufFresh <- bufFreshA

NB == INSTANCE VirtioNet
        WITH vnet <- vnetB, running <- runningB, status <- statusB,
             modern <- modernB, owned <- ownedB, desc <- descB,
             avail <- availB, used <- usedB, rxBuf <- rxBufB,
             txBuf <- txBufB, rxOut <- rxOutB, wire <- wireB,
             hostAvail <- hostAvailB, isr <- isrB, usedOld <- usedOldB,
             usedFresh <- usedFreshB, bufOld <- bufOldB, bufFresh <- bufFreshB

\* Both devices start reset; the static globals start zeroed.
Init == NA!Init /\ NB!Init

\* Every entry point takes the instance it works on (virtionet_open,
\* close, read, write, handle_interrupt); each device acts on its own queues.
Next == \/ NA!Next /\ UNCHANGED varsB
        \/ NB!Next /\ UNCHANGED varsA

Spec == Init /\ [][Next]_vars

-----------------------------------------------------------------------------
(* Properties.                                                             *)

(* RX credit conservation for each open instance (spec: the RX cursor is   *)
(* per virtqueue, "a correct design attaches these cursors to each         *)
(* virtqueue handle").  virtionet_open of a second device stores its own   *)
(* used->idx into the shared last_rx_idx under the first, whose next       *)
(* virtionet_receive then consumes entries again or skips them.            *)
EachInstanceRxCredits == NA!RxCredits /\ NB!RxCredits

=============================================================================

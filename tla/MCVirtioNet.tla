---------------------------- MODULE MCVirtioNet ----------------------------
(***************************************************************************)
(* Small instances of VirtioNet for TLC.  An eight-entry queue is the      *)
(* smallest where the TX pool has two slots (Q/4) and RX four chains, and  *)
(* 4-bit ring indices wrap after two laps of the ring, so index wrap-      *)
(* around is reached.  Five arena regions allow two complete open/close    *)
(* lifetimes before the leaked regions make virtionet_open fail.           *)
(***************************************************************************)
EXTENDS VirtioNet

MCQSize == 8
MCIdxMod == 16
MCCmaSlots == 5
\* The device keeps up within the two TX payload slots the code uses.
MCTxPaced == 2
\* The caller may fill every TX chain of the ring (Q/2) before the device.
MCTxRingFull == 4
=============================================================================

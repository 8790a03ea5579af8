----------------------------- MODULE MCVirtioBlk -----------------------------
(* Constants of the block driver for TLC.                                  *)
EXTENDS VirtioBlk

\* An 8-entry queue: chains at heads 0 and 3 fit, the third (6, 7, 8) leaves
\* the table.  16-entry index space so that u16 wrap-around is reachable.
MCQSize == 8
MCIdxMod == 16
\* Blocks of one and of two sectors.
MCBlkSizes == {1, 2}
\* Buffers at 1 MiB and at 1 MiB + 4 KiB (0x100000 and 0x101000).
MCBufAddrs == {<<0, 16, 0, 0>>, <<4096, 16, 0, 0>>}
=============================================================================

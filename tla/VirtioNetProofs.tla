------------------------- MODULE VirtioNetProofs -------------------------
(***************************************************************************)
(* Proofs about VirtioNet for every queue size, index width and arena      *)
(* size the assumptions allow.                                             *)
(***************************************************************************)
EXTENDS VirtioNet, Integers, TLAPS

-----------------------------------------------------------------------------
(* Arithmetic of the ring indices.                                         *)

\* The constants as the provers need them.
LEMMA ConstFacts ==
  /\ IdxMod \in Nat /\ 4 <= IdxMod /\ IdxMod <= 65536
  /\ Q \in Nat /\ 4 <= Q /\ Q <= IdxMod /\ Q % 4 = 0
  /\ CmaSlots \in Nat
  /\ TxInFlightBound \in Nat
  /\ Word16 \in Nat /\ IdxMod <= Word16
<1>0. Word16 = 65536
  BY DEF Word16
<1>1. IdxMod \in Nat /\ 4 <= IdxMod /\ IdxMod <= 65536
  BY QSizeAssumption DEF QSizeAssumption
<1>2. QSize \in 4 .. IdxMod
  BY QSizeAssumption DEF QSizeAssumption
<1>3. QSize % 4 = 0
  BY QSizeAssumption DEF QSizeAssumption
<1>4. CmaSlots \in Nat
  BY BoundsAssumption DEF BoundsAssumption
<1>5. TxInFlightBound \in 1 .. QSize \div 2
  BY BoundsAssumption DEF BoundsAssumption
<1>6. QED
  BY <1>0, <1>1, <1>2, <1>3, <1>4, <1>5 DEF Q

\* Division and remainder by a positive divisor.
LEMMA DivMod ==
  ASSUME NEW x \in Int, NEW d \in Int, d > 0
  PROVE  x % d = x - d * (x \div d)
BY Z3

\* A remainder of an even number by an even divisor is even.
LEMMA EvenMod ==
  ASSUME NEW x \in Int, NEW m \in Int, m > 0
  PROVE  ((x * 2) % (2 * m)) % 2 = 0
<1> DEFINE k == (x * 2) \div (2 * m)
<1>1. (x * 2) % (2 * m) = x * 2 - (2 * m) * k
  BY DivMod
<1>2. (x * 2) % (2 * m) = 2 * (x - m * k)
  BY <1>1
<1>3. QED
  BY <1>2

\* virtionet_xmit's chain id = (idx*2) % size is even, so the chain
\* id, id+1 lies inside the descriptor table.
LEMMA TxChainInTable ==
  ASSUME NEW idx \in Nat
  PROVE  /\ ((idx * 2) % Q) \in DescId
         /\ ((idx * 2) % Q) + 1 \in DescId
<1> DEFINE r == (idx * 2) % Q
<1>1. r \in 0 .. Q - 1
  BY ConstFacts
<1>2. r % 2 = 0
  <2>1. Q = 2 * (Q \div 2) /\ Q \div 2 > 0
    BY ConstFacts
  <2>2. QED
    BY <2>1, ConstFacts, EvenMod
<1>3. QED
  BY <1>1, <1>2, ConstFacts DEF DescId

\* The TX payload slot the code computes is one of the Q/4 pool slots.
LEMMA TxSlotInPool ==
  ASSUME NEW idx \in Nat
  PROVE  TxSlot(idx) \in TxSlots
BY ConstFacts DEF TxSlot, TxSlots

\* Incrementing a ring index stays a ring index.
LEMMA Inc16Type ==
  ASSUME NEW x \in Idx
  PROVE  Inc16(x) \in Idx
BY ConstFacts DEF Inc16, Idx

\* The remaining constant facts the type proof uses.
LEMMA RangeFacts ==
  /\ Q \div 2 \in Nat /\ 2 * (Q \div 2) = Q /\ Q \div 4 \in Nat
  /\ Q \div 4 >= 1 /\ Q \div 4 <= Q \div 2
  /\ Idx \subseteq Data
  /\ DescId \subseteq 0 .. Word16 - 1
  /\ DescId \subseteq Idx
  /\ RxChains \subseteq DescId
BY ConstFacts DEF Idx, Data, NoData, DescId, RxChains

\* The payload descriptor of a used entry is in the table.
LEMMA PayloadDescType ==
  ASSUME NEW e \in DescId
  PROVE  PayloadDesc(e) \in DescId
BY ConstFacts DEF PayloadDesc, DescId

\* The re-posted head is a u16.
LEMMA RepostHeadType ==
  ASSUME NEW id \in Int
  PROVE  RepostHead(id) \in 0 .. Word16 - 1
BY ConstFacts DEF RepostHead

\* Only an RX payload address names an RX slot, only a TX payload address
\* names a TX slot.
LEMMA AddrKinds ==
  ASSUME NEW a \in Addr
  PROVE  /\ a[1] = "rxbuf" => a[2] \in RxChains
         /\ a[1] = "txbuf" => a[2] \in TxSlots
BY DEF Addr, NullAddr, NetHdrAddr

-----------------------------------------------------------------------------
(* Type correctness.                                                       *)

\* TypeOK together with the arena fact virtionet_close relies on: a running
\* driver holds the four regions, so freeing three cannot go below zero.
TInv == TypeOK /\ (running => cma >= 4)

LEMMA InitTInv == Init => TInv
<1> SUFFICES ASSUME Init PROVE TInv
  OBVIOUS
<1>1. ZeroDesc \in [addr : Addr, flags : Flags, next : 0 .. Word16 - 1]
  BY ConstFacts DEF ZeroDesc, Addr, Flags
<1>2. NoData \in Data /\ 0 \in Idx /\ 0 \in DescId
  BY ConstFacts DEF Data, Idx, DescId
<1>3. /\ ZeroAvail \in [noInterrupt : BOOLEAN, idx : Idx,
                        ring : [DescId -> 0 .. Word16 - 1]]
      /\ ZeroUsed \in [idx : Idx, ring : [DescId -> DescId]]
  BY <1>2, ConstFacts DEF ZeroAvail, ZeroUsed
<1>4. /\ desc \in [Queues -> [DescId -> [addr : Addr, flags : Flags,
                                         next : 0 .. Word16 - 1]]]
      /\ avail \in [Queues -> [noInterrupt : BOOLEAN, idx : Idx,
                               ring : [DescId -> 0 .. Word16 - 1]]]
      /\ used \in [Queues -> [idx : Idx, ring : [DescId -> DescId]]]
  BY <1>1, <1>3 DEF Init
<1>5. /\ rxBuf \in [RxChains -> Data] /\ txBuf \in [TxSlots -> Data]
      /\ bufOld \in [RxChains -> Data] /\ usedOld \in [DescId -> DescId]
      /\ rxOut \in Data /\ wire \in Data
  BY <1>2 DEF Init
<1>6. /\ cma \in 0 .. CmaSlots
      /\ hostAvail \in [Queues -> Idx]
      /\ lastRx \in Idx /\ lastTx \in Idx
  BY <1>2, ConstFacts DEF Init
<1>7. QED
  BY <1>4, <1>5, <1>6 DEF Init, TInv, TypeOK

\* The status sets the open paths write are sets of status bits.
LEMMA StatusSets ==
  /\ NegotiatedStatus \subseteq StatusBits
  /\ {ACK, DRIVER, FAILED} \subseteq StatusBits
BY DEF NegotiatedStatus, StatusBits

LEMMA NegotiationFailsTInv ==
  ASSUME TInv, OpenNegotiationFails PROVE TInv'
<1>1. hostAvail' \in [Queues -> Idx]
  BY ConstFacts DEF OpenNegotiationFails, DeviceReset, Idx
<1>2. QED
  BY <1>1, StatusSets DEF OpenNegotiationFails, DeviceReset, TInv, TypeOK, ring

LEMMA AllocFailsTInv ==
  ASSUME TInv, OpenAllocFails PROVE TInv'
<1>1. hostAvail' \in [Queues -> Idx]
  BY ConstFacts DEF OpenAllocFails, DeviceReset, Idx
<1>2. /\ cma' \in 0 .. CmaSlots
      /\ running' => cma' >= 4
  BY ConstFacts DEF OpenAllocFails, FreeAllocs, TInv, TypeOK
<1>3. status' \subseteq StatusBits
  BY StatusSets DEF OpenAllocFails, StatusBits
<1>4. netHdr' \in {0, 10, 12}
  BY DEF OpenAllocFails
<1>5. QED
  BY <1>1, <1>2, <1>3, <1>4
  DEF OpenAllocFails, DeviceReset, TInv, TypeOK, ring

LEMMA CloseTInv ==
  ASSUME TInv, Close PROVE TInv'
<1>1. CASE running
  <2>1. hostAvail' \in [Queues -> Idx]
    BY <1>1, ConstFacts DEF Close, DeviceReset, Idx
  <2>2. cma' \in 0 .. CmaSlots /\ ~running'
    BY <1>1, ConstFacts DEF Close, TInv, TypeOK
  <2>3. QED
    BY <1>1, <2>1, <2>2 DEF Close, DeviceReset, TInv, TypeOK, ring
<1>2. CASE ~running
  BY <1>2 DEF Close, TInv, TypeOK, ring
<1>3. QED
  BY <1>1, <1>2

LEMMA HandleInterruptTInv ==
  ASSUME TInv, HandleInterrupt PROVE TInv'
BY DEF HandleInterrupt, TInv, TypeOK, drv, ring

\* The RX descriptor table virtionet_init builds is well typed: every
\* header descriptor links to the payload descriptor right after it.
LEMMA RxDescTableType ==
  RxDescTable \in [DescId -> [addr : Addr, flags : Flags, next : 0 .. Word16 - 1]]
<1> SUFFICES ASSUME NEW i \in DescId
             PROVE  RxDescTable[i] \in [addr : Addr, flags : Flags,
                                        next : 0 .. Word16 - 1]
  BY DEF RxDescTable
<1>1. i \div 2 \in RxChains
  BY ConstFacts DEF DescId, RxChains
<1>2. CASE i % 2 = 0
  <2>1. i + 1 \in 0 .. Word16 - 1
    <3>1. i + 1 <= Q - 1
      BY <1>2, ConstFacts DEF DescId
    <3>2. QED
      BY <3>1, ConstFacts DEF DescId
  <2>2. QED
    BY <1>1, <1>2, <2>1 DEF RxDescTable, Addr, Flags
<1>3. CASE i % 2 # 0
  BY <1>1, <1>3, ConstFacts DEF RxDescTable, Addr, Flags
<1>4. QED
  BY <1>2, <1>3

LEMMA OpenSucceedsTInv ==
  ASSUME TInv, OpenSucceeds PROVE TInv'
<1>1. desc' \in [Queues -> [DescId -> [addr : Addr, flags : Flags,
                                        next : 0 .. Word16 - 1]]]
  <2>1. [i \in DescId |-> ZeroDesc]
          \in [DescId -> [addr : Addr, flags : Flags, next : 0 .. Word16 - 1]]
    BY ConstFacts DEF ZeroDesc, Addr, Flags
  <2>2. QED
    BY <2>1, RxDescTableType DEF OpenSucceeds, Queues
<1>2. avail' \in [Queues -> [noInterrupt : BOOLEAN, idx : Idx,
                             ring : [DescId -> 0 .. Word16 - 1]]]
  <2>1. (Q \div 2) % IdxMod \in Idx
    BY ConstFacts DEF Idx
  <2>2. [s \in DescId |-> IF s < Q \div 2 THEN 2 * s ELSE 0]
          \in [DescId -> 0 .. Word16 - 1]
    BY ConstFacts, RangeFacts DEF DescId
  <2>3. [noInterrupt |-> TRUE, idx |-> 0, ring |-> [s \in DescId |-> 0]]
          \in [noInterrupt : BOOLEAN, idx : Idx, ring : [DescId -> 0 .. Word16 - 1]]
    BY ConstFacts DEF Idx
  <2>4. QED
    BY <2>1, <2>2, <2>3 DEF OpenSucceeds, Queues
<1>3. used' \in [Queues -> [idx : Idx, ring : [DescId -> DescId]]]
  BY ConstFacts DEF OpenSucceeds, ZeroUsed, Idx, DescId
<1>4. /\ rxBuf' \in [RxChains -> Data] /\ txBuf' \in [TxSlots -> Data]
      /\ bufOld' \in [RxChains -> Data] /\ usedOld' \in [DescId -> DescId]
      /\ hostAvail' \in [Queues -> Idx]
  BY ConstFacts DEF OpenSucceeds, DeviceReset, Data, NoData, DescId, Idx
<1>5. /\ cma' \in 0 .. CmaSlots /\ cma' >= 4
      /\ status' \subseteq StatusBits
      /\ owned' \subseteq Regions
      /\ netHdr' \in {0, 10, 12}
      /\ usedFresh' = {} /\ bufFresh' = {} /\ running' /\ vnet'
  BY ConstFacts, StatusSets
  DEF OpenSucceeds, FreeAllocs, TInv, TypeOK, StatusBits, Barrier
<1>6. lastRx' \in Idx
  BY ConstFacts DEF OpenSucceeds, Idx
<1>7. /\ lastTx' \in Idx /\ modern' \in BOOLEAN
      /\ rxOut' \in Data /\ wire' \in Data /\ isr' \in BOOLEAN
  BY DEF OpenSucceeds, DeviceReset, TInv, TypeOK
<1>8. QED
  BY <1>1, <1>2, <1>3, <1>4, <1>5, <1>6, <1>7 DEF TInv, TypeOK

LEMMA XmitTInv ==
  ASSUME TInv, Xmit PROVE TInv'
<1> DEFINE idx == avail[TX].idx
           id == TxHead(idx)
           slot == TxSlot(idx)
<1>1. /\ idx \in Idx /\ idx \in Nat
      /\ avail[TX] \in [noInterrupt : BOOLEAN, idx : Idx,
                        ring : [DescId -> 0 .. Word16 - 1]]
  BY ConstFacts DEF TInv, TypeOK, Idx, Queues
<1>2. /\ id \in DescId /\ id + 1 \in DescId
      /\ slot \in TxSlots
  BY <1>1, TxChainInTable, TxSlotInPool DEF TxHead
<1>3. txBuf' \in [TxSlots -> Data]
  BY <1>1, <1>2, RangeFacts DEF Xmit, TInv, TypeOK
<1>4. desc' \in [Queues -> [DescId -> [addr : Addr, flags : Flags,
                                        next : 0 .. Word16 - 1]]]
  <2>1. [addr |-> NetHdrAddr, flags |-> {"NEXT"}, next |-> id + 1]
          \in [addr : Addr, flags : Flags, next : 0 .. Word16 - 1]
    BY <1>2, RangeFacts DEF Addr, Flags
  <2>2. [addr |-> <<"txbuf", slot>>, flags |-> {}, next |-> 0]
          \in [addr : Addr, flags : Flags, next : 0 .. Word16 - 1]
    BY <1>2, ConstFacts DEF Addr, Flags
  <2>3. QED
    BY <2>1, <2>2 DEF Xmit, TInv, TypeOK, Queues
<1>5. avail' \in [Queues -> [noInterrupt : BOOLEAN, idx : Idx,
                             ring : [DescId -> 0 .. Word16 - 1]]]
  <2>1. /\ Inc16(idx) \in Idx
        /\ idx % Q \in DescId
        /\ id \in 0 .. Word16 - 1
    <3>1. Inc16(idx) \in Idx
      BY <1>1, Inc16Type
    <3>2. idx % Q \in DescId
      BY <1>1, ConstFacts DEF DescId
    <3>3. id \in 0 .. Word16 - 1
      BY <1>2, RangeFacts
    <3>4. QED
      BY <3>1, <3>2, <3>3
  <2> DEFINE r == avail[TX]
              AvailRec == [noInterrupt : BOOLEAN, idx : Idx,
                           ring : [DescId -> 0 .. Word16 - 1]]
  <2>2. avail' = [avail EXCEPT ![TX] = [r EXCEPT !.ring[idx % Q] = id,
                                                 !.idx = Inc16(idx)]]
    BY DEF Xmit
  <2>3. [r EXCEPT !.ring[idx % Q] = id, !.idx = Inc16(idx)] \in AvailRec
    BY <1>1, <2>1
  <2>4. QED
    BY <2>2, <2>3 DEF TInv, TypeOK, Queues
<1>6. lastTx' \in Idx /\ usedFresh' = {} /\ bufFresh' = {}
  BY DEF Xmit, Barrier, TInv, TypeOK, Queues
<1>7. QED
  BY <1>3, <1>4, <1>5, <1>6 DEF Xmit, TInv, TypeOK

\* What virtionet_receive can load from a used slot is a descriptor id.
LEMMA UsedEntryReadType ==
  ASSUME TInv, NEW s \in DescId
  PROVE  UsedEntryRead(s) \subseteq DescId
BY DEF UsedEntryRead, TInv, TypeOK, Queues

\* What its memcpy can copy is a packet or nothing.
LEMMA BufReadType ==
  ASSUME TInv, NEW a \in Addr
  PROVE  BufRead(a) \subseteq Data
<1>1. a[1] = "rxbuf" => a[2] \in RxChains
  BY AddrKinds
<1>2. NoData \in Data
  BY DEF Data
<1>3. QED
  BY <1>1, <1>2 DEF BufRead, TInv, TypeOK

LEMMA ReceiveTInv ==
  ASSUME TInv, Receive PROVE TInv'
<1> DEFINE a == avail[RX].idx
<1>1. /\ lastRx % Q \in DescId
      /\ a \in Idx /\ a \in Nat /\ a % Q \in DescId
      /\ avail[RX] \in [noInterrupt : BOOLEAN, idx : Idx,
                        ring : [DescId -> 0 .. Word16 - 1]]
  <2>1. /\ avail[RX] \in [noInterrupt : BOOLEAN, idx : Idx,
                           ring : [DescId -> 0 .. Word16 - 1]]
        /\ lastRx \in Idx
    BY DEF TInv, TypeOK, Queues
  <2>2. /\ lastRx % Q \in DescId
        /\ a \in Nat /\ a % Q \in DescId
    BY <2>1, ConstFacts DEF Idx, DescId
  <2>3. QED
    BY <2>1, <2>2
<1>2. PICK e \in UsedEntryRead(lastRx % Q) :
        /\ rxOut' \in BufRead(desc[RX][PayloadDesc(e)].addr)
        /\ avail' = [avail EXCEPT ![RX].ring[a % Q] = RepostHead(PayloadDesc(e)),
                                  ![RX].idx = Inc16(a)]
  BY DEF Receive
<1> DEFINE id == PayloadDesc(e)
<1>3. id \in DescId
  BY <1>1, <1>2, UsedEntryReadType, PayloadDescType
<1>4. rxOut' \in Data
  <2>1. desc[RX][id].addr \in Addr
    BY <1>3 DEF TInv, TypeOK, Queues
  <2>2. QED
    BY <1>2, <2>1, BufReadType
<1>5. avail' \in [Queues -> [noInterrupt : BOOLEAN, idx : Idx,
                             ring : [DescId -> 0 .. Word16 - 1]]]
  <2>1. RepostHead(id) \in 0 .. Word16 - 1
    BY <1>3, RepostHeadType DEF DescId
  <2>2. Inc16(a) \in Idx
    BY <1>1, Inc16Type
  <2> DEFINE r == avail[RX]
  <2>3. avail' = [avail EXCEPT ![RX] = [r EXCEPT !.ring[a % Q] = RepostHead(id),
                                                 !.idx = Inc16(a)]]
    BY <1>2
  <2>4. [r EXCEPT !.ring[a % Q] = RepostHead(id), !.idx = Inc16(a)]
          \in [noInterrupt : BOOLEAN, idx : Idx, ring : [DescId -> 0 .. Word16 - 1]]
    BY <1>1, <2>1, <2>2
  <2>5. QED
    BY <2>3, <2>4 DEF TInv, TypeOK, Queues
<1>6. lastRx' \in Idx /\ usedFresh' = {} /\ bufFresh' = {}
  BY Inc16Type DEF Receive, Barrier, TInv, TypeOK
<1>7. QED
  BY <1>4, <1>5, <1>6 DEF Receive, TInv, TypeOK

\* A chain the device takes has its head and its payload in the table.
LEMMA HostChainType ==
  ASSUME TInv, NEW q \in Queues, HostChain(q) # <<>>
  PROVE  /\ HostChain(q)[1] \in DescId
         /\ HostChain(q)[2] \in DescId
BY DEF HostChain

\* The device's index update keeps every index a ring index.
LEMMA HostAvailStep ==
  ASSUME TInv, NEW q \in Queues
  PROVE  [hostAvail EXCEPT ![q] = Inc16(@)] \in [Queues -> Idx]
BY Inc16Type DEF TInv, TypeOK

LEMMA HostRxTInv ==
  ASSUME TInv, HostRx PROVE TInv'
<1> DEFINE h == HostChain(RX)[1]
           a == desc[RX][HostChain(RX)[2]].addr
           s == used[RX].idx % Q
<1>1. /\ h \in DescId /\ a \in Addr /\ s \in DescId
      /\ used[RX] \in [idx : Idx, ring : [DescId -> DescId]]
      /\ used[RX].idx \in Data
  <2>1. h \in DescId /\ HostChain(RX)[2] \in DescId
    BY HostChainType DEF HostRx, Queues
  <2>2. a \in Addr /\ used[RX] \in [idx : Idx, ring : [DescId -> DescId]]
    BY <2>1 DEF TInv, TypeOK, Queues
  <2>3. s \in DescId /\ used[RX].idx \in Data
    BY <2>2, ConstFacts, RangeFacts DEF Idx, DescId
  <2>4. QED
    BY <2>1, <2>2, <2>3
<1>2. a[1] = "rxbuf" => a[2] \in RxChains
  BY <1>1, AddrKinds
<1>3. rxBuf' \in [RxChains -> Data]
  BY <1>1, <1>2 DEF HostRx, TInv, TypeOK
<1>4. used' \in [Queues -> [idx : Idx, ring : [DescId -> DescId]]]
  <2>1. Inc16(used[RX].idx) \in Idx
    BY <1>1, Inc16Type
  <2> DEFINE u == used[RX]
  <2>2. used' = [used EXCEPT ![RX] = [u EXCEPT !.ring[s] = h,
                                             !.idx = Inc16(u.idx)]]
    BY DEF HostRx
  <2>3. [u EXCEPT !.ring[s] = h, !.idx = Inc16(u.idx)]
          \in [idx : Idx, ring : [DescId -> DescId]]
    BY <1>1, <2>1
  <2>4. QED
    BY <2>2, <2>3 DEF TInv, TypeOK, Queues
<1>5. /\ usedOld' \in [DescId -> DescId] /\ usedFresh' \subseteq DescId
      /\ bufOld' \in [RxChains -> Data] /\ bufFresh' \subseteq RxChains
  <2>1. CASE LoadsReorder
    <3>1. /\ usedOld' = [usedOld EXCEPT ![s] = used[RX].ring[s]]
          /\ usedFresh' = usedFresh \cup {s}
      BY <2>1 DEF HostRx
    <3>2. usedOld' \in [DescId -> DescId] /\ usedFresh' \subseteq DescId
      BY <1>1, <3>1 DEF TInv, TypeOK
    <3>3. ASSUME a[1] = "rxbuf"
          PROVE  bufOld' \in [RxChains -> Data] /\ bufFresh' \subseteq RxChains
      <4>1. /\ bufOld' = [bufOld EXCEPT ![a[2]] = rxBuf[a[2]]]
            /\ bufFresh' = bufFresh \cup {a[2]}
        BY <2>1, <3>3 DEF HostRx
      <4>2. QED
        BY <1>2, <3>3, <4>1 DEF TInv, TypeOK
    <3>4. ASSUME a[1] # "rxbuf"
          PROVE  bufOld' \in [RxChains -> Data] /\ bufFresh' \subseteq RxChains
      BY <2>1, <3>4 DEF HostRx, TInv, TypeOK
    <3>5. QED
      BY <3>2, <3>3, <3>4
  <2>2. CASE ~LoadsReorder
    BY <2>2 DEF HostRx, TInv, TypeOK
  <2>3. QED
    BY <2>1, <2>2
<1>6. hostAvail' \in [Queues -> Idx] /\ isr' \in BOOLEAN
  BY HostAvailStep DEF HostRx, Queues
<1>7. QED
  BY <1>3, <1>4, <1>5, <1>6 DEF HostRx, TInv, TypeOK, drv

LEMMA HostTxTInv ==
  ASSUME TInv, HostTx PROVE TInv'
<1> DEFINE h == HostChain(TX)[1]
           a == desc[TX][HostChain(TX)[2]].addr
           s == used[TX].idx % Q
<1>1. /\ h \in DescId /\ a \in Addr /\ s \in DescId
      /\ used[TX] \in [idx : Idx, ring : [DescId -> DescId]]
  <2>1. h \in DescId /\ HostChain(TX)[2] \in DescId
    BY HostChainType DEF HostTx, Queues
  <2>2. a \in Addr /\ used[TX] \in [idx : Idx, ring : [DescId -> DescId]]
    BY <2>1 DEF TInv, TypeOK, Queues
  <2>3. s \in DescId
    <3>1. used[TX].idx \in Idx
      BY <2>2
    <3>2. QED
      BY <3>1, ConstFacts DEF Idx, DescId
  <2>4. QED
    BY <2>1, <2>2, <2>3
<1>2. wire' \in Data
  <2>1. a[1] = "txbuf" => a[2] \in TxSlots
    BY <1>1, AddrKinds
  <2>2. NoData \in Data
    BY DEF Data
  <2>3. QED
    BY <2>1, <2>2 DEF HostTx, TInv, TypeOK
<1>3. used' \in [Queues -> [idx : Idx, ring : [DescId -> DescId]]]
  <2>1. Inc16(used[TX].idx) \in Idx
    BY <1>1, Inc16Type
  <2> DEFINE u == used[TX]
  <2>2. used' = [used EXCEPT ![TX] = [u EXCEPT !.ring[s] = h,
                                             !.idx = Inc16(u.idx)]]
    BY DEF HostTx
  <2>3. [u EXCEPT !.ring[s] = h, !.idx = Inc16(u.idx)]
          \in [idx : Idx, ring : [DescId -> DescId]]
    BY <1>1, <2>1
  <2>4. QED
    BY <2>2, <2>3 DEF TInv, TypeOK, Queues
<1>4. hostAvail' \in [Queues -> Idx] /\ isr' \in BOOLEAN
  BY HostAvailStep DEF HostTx, Queues
<1>5. QED
  BY <1>2, <1>3, <1>4 DEF HostTx, TInv, TypeOK, drv

\* Every step of the driver or of the device keeps TInv.
LEMMA NextTInv ==
  ASSUME TInv, [Next]_vars PROVE TInv'
<1>1. CASE OpenNegotiationFails  BY <1>1, NegotiationFailsTInv
<1>2. CASE OpenAllocFails        BY <1>2, AllocFailsTInv
<1>3. CASE OpenSucceeds          BY <1>3, OpenSucceedsTInv
<1>4. CASE Close                 BY <1>4, CloseTInv
<1>5. CASE Xmit                  BY <1>5, XmitTInv
<1>6. CASE Receive               BY <1>6, ReceiveTInv
<1>7. CASE HandleInterrupt       BY <1>7, HandleInterruptTInv
<1>8. CASE HostRx                BY <1>8, HostRxTInv
<1>9. CASE HostTx                BY <1>9, HostTxTInv
<1>10. CASE UNCHANGED vars
  BY <1>10 DEF vars, drv, ring, dev, TInv, TypeOK
<1>11. QED
  BY <1>1, <1>2, <1>3, <1>4, <1>5, <1>6, <1>7, <1>8, <1>9, <1>10 DEF Next

(* Type correctness of the driver and the device for every queue size,     *)
(* index width and arena size: in particular virtionet_close's cma - 3     *)
(* never goes below zero, virtionet_xmit's chain (idx*2)%size, +1 and its  *)
(* payload slot stay inside the descriptor table and the TX pool, and      *)
(* virtionet_receive's payload id (id+1)%size is a descriptor.             *)
THEOREM TypeCorrect == Spec => []TypeOK
<1>1. TInv => TypeOK
  BY DEF TInv
<1>2. QED
  BY <1>1, InitTInv, NextTInv, PTL DEF Spec

-----------------------------------------------------------------------------
(* RX credit conservation.                                                 *)

\* The distance between two ring indices is a ring index.
LEMMA DistType ==
  ASSUME NEW x \in Idx, NEW y \in Idx
  PROVE  Dist(x, y) \in Idx
BY ConstFacts DEF Dist, Idx

\* Publishing one more entry lengthens the distance by one.
LEMMA DistIncTo ==
  ASSUME NEW x \in Idx, NEW y \in Idx, Dist(x, y) < IdxMod - 1
  PROVE  Dist(x, Inc16(y)) = Dist(x, y) + 1
BY ConstFacts DEF Dist, Inc16, Idx

\* Consuming one entry of a non-empty stretch shortens it by one.
LEMMA DistIncFrom ==
  ASSUME NEW x \in Idx, NEW y \in Idx, x # y
  PROVE  /\ Dist(x, y) >= 1
         /\ Dist(Inc16(x), y) = Dist(x, y) - 1
BY ConstFacts DEF Dist, Inc16, Idx

\* Half a queue is far below the index modulus.
LEMMA HalfQueue == Q \div 2 < IdxMod - 1
BY ConstFacts

\* The counts are ring indices whenever the state is well typed.
LEMMA CountTypes ==
  ASSUME TInv
  PROVE  RxDevCount \in Idx /\ RxDrvCount \in Idx
<1>1. /\ hostAvail[RX] \in Idx /\ avail[RX].idx \in Idx
      /\ lastRx \in Idx /\ used[RX].idx \in Idx
  BY DEF TInv, TypeOK, Queues
<1>2. QED
  BY <1>1, DistType DEF RxDevCount, RxDrvCount

\* TypeOK and the credit count together are inductive.
CInv == TInv /\ RxCredits

LEMMA InitCInv == Init => CInv
BY InitTInv DEF Init, CInv, RxCredits

LEMMA ReceiveCredits ==
  ASSUME TInv, RxCredits, Receive PROVE RxCredits'
<1>1. /\ hostAvail[RX] \in Idx /\ avail[RX].idx \in Idx
      /\ lastRx \in Idx /\ used[RX].idx \in Idx
  BY DEF TInv, TypeOK, Queues
<1>2. /\ avail'[RX].idx = Inc16(avail[RX].idx)
      /\ lastRx' = Inc16(lastRx)
      /\ UNCHANGED <<vnet, hostAvail, used>>
      /\ vnet /\ lastRx # used[RX].idx
  <2>1. PICK e \in UsedEntryRead(lastRx % Q) :
          avail' = [avail EXCEPT ![RX].ring[avail[RX].idx % Q] =
                                    RepostHead(PayloadDesc(e)),
                                 ![RX].idx = Inc16(avail[RX].idx)]
    BY DEF Receive
  <2>2. avail'[RX].idx = Inc16(avail[RX].idx)
    BY <2>1 DEF TInv, TypeOK, Queues
  <2>3. QED
    BY <2>2 DEF Receive
<1>3. RxDrvCount' = RxDrvCount - 1 /\ RxDrvCount >= 1
  BY <1>1, <1>2, DistIncFrom DEF RxDrvCount
<1>4. RxDevCount' = RxDevCount + 1
  <2>1. RxDevCount < IdxMod - 1
    BY <1>2, <1>3, CountTypes, HalfQueue, ConstFacts DEF RxCredits, Idx
  <2>2. QED
    BY <1>1, <1>2, <2>1, DistIncTo DEF RxDevCount
<1>5. QED
  BY <1>2, <1>3, <1>4, CountTypes DEF RxCredits, Idx

LEMMA HostRxCredits ==
  ASSUME TInv, RxCredits, HostRx PROVE RxCredits'
<1>1. /\ hostAvail[RX] \in Idx /\ avail[RX].idx \in Idx
      /\ lastRx \in Idx /\ used[RX].idx \in Idx
  BY DEF TInv, TypeOK, Queues
<1>2. /\ hostAvail'[RX] = Inc16(hostAvail[RX])
      /\ used'[RX].idx = Inc16(used[RX].idx)
      /\ UNCHANGED <<vnet, avail, lastRx>>
      /\ hostAvail[RX] # avail[RX].idx
  <2>1. used' = [used EXCEPT ![RX].ring[used[RX].idx % Q] = HostChain(RX)[1],
                             ![RX].idx = Inc16(@)]
    BY DEF HostRx
  <2>2. used'[RX].idx = Inc16(used[RX].idx)
    BY <2>1 DEF TInv, TypeOK, Queues
  <2>3. hostAvail'[RX] = Inc16(hostAvail[RX])
    BY DEF HostRx, TInv, TypeOK, Queues
  <2>4. QED
    BY <2>2, <2>3 DEF HostRx, drv
<1>3. RxDevCount' = RxDevCount - 1 /\ RxDevCount >= 1
  BY <1>1, <1>2, DistIncFrom DEF RxDevCount
<1>4. ASSUME vnet PROVE RxDrvCount' = RxDrvCount + 1
  <2>1. RxDrvCount < IdxMod - 1
    BY <1>3, <1>4, CountTypes, HalfQueue, ConstFacts DEF RxCredits, Idx
  <2>2. QED
    BY <1>1, <1>2, <2>1, DistIncTo DEF RxDrvCount
<1>5. QED
  BY <1>2, <1>3, <1>4, CountTypes DEF RxCredits, Idx

LEMMA OpenSucceedsCredits ==
  ASSUME TInv, OpenSucceeds PROVE RxCredits'
<1>1. /\ hostAvail'[RX] = 0 /\ avail'[RX].idx = (Q \div 2) % IdxMod
      /\ lastRx' = 0 /\ used'[RX].idx = 0
  BY DEF OpenSucceeds, DeviceReset, ZeroUsed, Queues
<1>2. (Q \div 2) % IdxMod = Q \div 2 /\ Q \div 2 \in Nat
  BY ConstFacts, HalfQueue
<1>3. QED
  BY <1>1, <1>2, ConstFacts DEF RxCredits, RxDevCount, RxDrvCount, Dist

\* Steps that leave every counted variable alone, or leave no instance.
LEMMA FrameCredits ==
  ASSUME RxCredits,
         \/ UNCHANGED <<vnet, hostAvail, avail, lastRx, used>>
         \/ ~vnet'
  PROVE  RxCredits'
BY DEF RxCredits, RxDevCount, RxDrvCount

LEMMA XmitRx ==
  ASSUME TInv, Xmit PROVE avail'[RX] = avail[RX]
<1>1. PICK r : avail' = [avail EXCEPT ![TX] = r]
  BY DEF Xmit
<1>2. avail \in [Queues -> [noInterrupt : BOOLEAN, idx : Idx,
                            ring : [DescId -> 0 .. Word16 - 1]]]
  BY DEF TInv, TypeOK
<1>3. QED
  BY <1>1, <1>2 DEF Queues, RX, TX

LEMMA HostTxRx ==
  ASSUME TInv, HostTx PROVE used'[RX] = used[RX] /\ hostAvail'[RX] = hostAvail[RX]
<1>1. /\ \E r : used' = [used EXCEPT ![TX] = r]
      /\ \E n : hostAvail' = [hostAvail EXCEPT ![TX] = n]
  BY DEF HostTx
<1>2. used \in [Queues -> [idx : Idx, ring : [DescId -> DescId]]]
      /\ hostAvail \in [Queues -> Idx]
  BY DEF TInv, TypeOK
<1>3. QED
  BY <1>1, <1>2 DEF Queues, RX, TX

LEMMA NextCInv ==
  ASSUME CInv, [Next]_vars PROVE CInv'
<1>1. TInv'
  BY NextTInv DEF CInv
<1>2. RxCredits'
  <2> USE DEF CInv
  <2>1. CASE OpenNegotiationFails
    BY <2>1, FrameCredits DEF OpenNegotiationFails, RxCredits
  <2>2. CASE OpenAllocFails
    BY <2>2, FrameCredits DEF OpenAllocFails, RxCredits
  <2>3. CASE OpenSucceeds  BY <2>3, OpenSucceedsCredits
  <2>4. CASE Close         BY <2>4, FrameCredits DEF Close
  <2>5. CASE Xmit
    <3>1. UNCHANGED <<vnet, hostAvail, lastRx, used>> /\ avail'[RX] = avail[RX]
      BY <2>5, XmitRx DEF Xmit
    <3>2. QED
      BY <3>1 DEF RxCredits, RxDevCount, RxDrvCount
  <2>6. CASE Receive       BY <2>6, ReceiveCredits
  <2>7. CASE HandleInterrupt
    BY <2>7, FrameCredits DEF HandleInterrupt, drv, ring
  <2>8. CASE HostRx        BY <2>8, HostRxCredits
  <2>9. CASE HostTx
    <3>1. UNCHANGED <<vnet, avail, lastRx>>
          /\ used'[RX] = used[RX] /\ hostAvail'[RX] = hostAvail[RX]
      BY <2>9, HostTxRx DEF HostTx, drv
    <3>2. QED
      BY <3>1 DEF RxCredits, RxDevCount, RxDrvCount
  <2>10. CASE UNCHANGED vars
    BY <2>10, FrameCredits DEF vars, drv, ring, dev
  <2>11. QED
    BY <2>1, <2>2, <2>3, <2>4, <2>5, <2>6, <2>7, <2>8, <2>9, <2>10 DEF Next
<1>3. QED
  BY <1>1, <1>2 DEF CInv

(* RX credit conservation for every queue size and index width: while the  *)
(* instance exists, the RX chains the device holds (avail entries it has    *)
(* not taken) and those waiting for virtionet_receive (used entries past    *)
(* last_rx_idx) always number size/2, across every wrap of the 16-bit       *)
(* indices.  virtionet_receive re-posts exactly one chain per packet it     *)
(* takes, and the device completes exactly one per chain it takes.          *)
THEOREM RxCreditsInvariant == Spec => []RxCredits
<1>1. CInv => RxCredits
  BY DEF CInv
<1>2. QED
  BY <1>1, InitCInv, NextCInv, PTL DEF Spec
=============================================================================

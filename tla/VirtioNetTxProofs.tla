------------------------ MODULE VirtioNetTxProofs ------------------------
(***************************************************************************)
(* Proof that virtionet_xmit's packets go on the wire in order and intact  *)
(* (TxDeliversInOrder) when the caller keeps at most size/4 packets in     *)
(* flight, the number of payload slots virtionet_init's TX pool has.       *)
(***************************************************************************)
EXTENDS VirtioNetProofs

-----------------------------------------------------------------------------
(* The inductive invariant.  The TX window is the stretch of avail         *)
(* entries published by virtionet_xmit and not yet taken by the device;    *)
(* the packet at avail index k sits in a chain at TxHead(k) whose payload  *)
(* descriptor points at pool slot TxSlot(k) = k mod size/4, and that slot  *)
(* still holds packet k.                                                   *)

TxWin == Dist(hostAvail[TX], avail[TX].idx)
TxAt(j) == (hostAvail[TX] + j) % IdxMod

\* The chain of index k is intact in rings av, table ds and pool tb.
TxChainAt(av, ds, tb, k) ==
  /\ av[TX].ring[k % Q] = TxHead(k)
  /\ ds[TX][TxHead(k)] = [addr |-> NetHdrAddr, flags |-> {"NEXT"},
                          next |-> TxHead(k) + 1]
  /\ ds[TX][TxHead(k) + 1].addr = <<"txbuf", TxSlot(k)>>
  /\ tb[TxSlot(k)] = k

TxChainOK(k) == TxChainAt(avail, desc, txBuf, k)

\* Only the open instance's device serves the queues, and while it is open
\* every packet in the TX window is intact.
TxInv ==
  /\ running = vnet
  /\ DeviceLive => vnet
  /\ vnet => /\ TxWin <= TxInFlightBound
             /\ \A j \in 0 .. TxWin - 1 : TxChainOK(TxAt(j))

-----------------------------------------------------------------------------
(* Arithmetic of the TX window.                                            *)

\* A remainder by a positive divisor lies below it.
LEMMA ModRange ==
  ASSUME NEW x \in Int, NEW d \in Int, d > 0
  PROVE  x % d \in 0 .. d - 1
BY Z3

\* A non-zero multiple of m is at least m away from zero.
LEMMA MulBound ==
  ASSUME NEW m \in Int, m > 0, NEW d \in Int, d # 0
  PROVE  m * d >= m \/ m * d <= -m
<1>1. CASE d >= 1
  <2>1. m * d = m + m * (d - 1) /\ m * (d - 1) >= 0
    BY <1>1, Z3
  <2>2. QED BY <2>1
<1>2. CASE d <= -1
  <2>1. m * d = -m - m * (-d - 1) /\ m * (-d - 1) >= 0
    BY <1>2, Z3
  <2>2. QED BY <2>1
<1>3. QED BY <1>1, <1>2

\* The remainder is the r of any decomposition x = m * q + r.
LEMMA ModUnique ==
  ASSUME NEW x \in Int, NEW m \in Int, m > 0, NEW q \in Int,
         NEW r \in 0 .. m - 1, x = m * q + r
  PROVE  x % m = r
<1> DEFINE d == q - x \div m
<1>1. x % m \in 0 .. m - 1 /\ x % m = x - m * (x \div m)
  BY DivMod, ModRange
<1>2. (x % m) - r = m * d
  BY <1>1, Z3
<1>3. d = 0
  BY <1>1, <1>2, MulBound
<1>4. QED BY <1>2, <1>3

\* Adding a multiple of the divisor leaves the remainder alone.
LEMMA ModShift ==
  ASSUME NEW y \in Int, NEW m \in Int, m > 0, NEW k \in Int
  PROVE  (y + m * k) % m = y % m
<1>0. y \div m \in Int
  OBVIOUS
<1>1. y % m = y - m * (y \div m) /\ y % m \in 0 .. m - 1
  BY DivMod, ModRange
<1>2. y + m * k = m * ((y \div m) + k) + (y % m)
  BY <1>0, <1>1
<1>3. \A x \in Int, q \in Int, r \in 0 .. m - 1 : x = m * q + r => x % m = r
  BY ModUnique
<1>4. y + m * k \in Int /\ (y \div m) + k \in Int
  BY <1>0
<1>5. QED BY <1>1, <1>2, <1>3, <1>4

\* A product of positive numbers is at least either factor.
LEMMA MulPos ==
  ASSUME NEW m \in Nat, m > 0, NEW n \in Nat, n > 0
  PROVE  m * n \in Nat /\ m * n >= m
<1>1. m * n = m + m * (n - 1) /\ m * (n - 1) >= 0
  BY Z3
<1>2. QED BY <1>1

\* A remainder by a multiple of m has the same remainder by m.
LEMMA ModMod ==
  ASSUME NEW x \in Int, NEW m \in Nat, m > 0, NEW n \in Nat, n > 0
  PROVE  (x % (m * n)) % m = x % m
<1>1. m * n \in Nat /\ m * n > 0
  BY MulPos
<1>2. x % (m * n) = x - (m * n) * (x \div (m * n))
  BY <1>1, DivMod
<1>3. x % (m * n) = x + m * (-(n * (x \div (m * n))))
  BY <1>2, <1>1
<1>4. -(n * (x \div (m * n))) \in Int
  BY <1>1
<1>5. \A y \in Int, k \in Int : (y + m * k) % m = y % m
  BY ModShift
<1>6. QED
  BY <1>3, <1>4, <1>5

\* Doubling commutes with the remainder by a doubled divisor.
LEMMA ModDouble ==
  ASSUME NEW x \in Int, NEW n \in Nat, n > 0
  PROVE  (2 * x) % (2 * n) = 2 * (x % n)
<1>1. x % n = x - n * (x \div n) /\ x % n \in 0 .. n - 1
  BY DivMod, ModRange
<1>2. 2 * x = (2 * n) * (x \div n) + 2 * (x % n) /\ 2 * (x % n) \in 0 .. 2 * n - 1
  BY <1>1
<1>3. \A y \in Int, q \in Int, r \in 0 .. 2 * n - 1 : y = (2 * n) * q + r => y % (2 * n) = r
  BY ModUnique
<1>4. x \div n \in Int
  OBVIOUS
<1>5. 2 * x \in Int /\ 2 * n \in Int /\ 2 * n > 0
  OBVIOUS
<1>6. QED
  BY <1>2, <1>4, <1>5, ModUnique, Zenon

\* Moving less than m forward changes the remainder by m.
LEMMA ModStep ==
  ASSUME NEW x \in Int, NEW m \in Nat, m > 0, NEW d \in 1 .. m - 1
  PROVE  (x + d) % m # x % m
<1> DEFINE r == x % m  q == x \div m
<1>1. x = m * q + r /\ r \in 0 .. m - 1 /\ q \in Int
  BY DivMod, ModRange
<1>2. \A y \in Int, p \in Int, s \in 0 .. m - 1 : y = m * p + s => y % m = s
  BY ModUnique
<1>3. CASE r + d < m
  <2>1. x + d = m * q + (r + d) /\ r + d \in 0 .. m - 1 /\ x + d \in Int
    BY <1>1, <1>3
  <2>2. (x + d) % m = r + d
    BY <1>1, <1>2, <2>1
  <2>3. QED BY <2>2
<1>4. CASE r + d >= m
  <2>1. x + d = m * (q + 1) + (r + d - m) /\ r + d - m \in 0 .. m - 1
    BY <1>1, <1>4
  <2>2. (x + d) % m = r + d - m
    <3>1. q + 1 \in Int /\ x + d \in Int /\ m \in Int
      BY <1>1
    <3>2. QED BY <2>1, <3>1, ModUnique, Zenon
  <2>3. QED BY <2>2
<1>5. QED BY <1>3, <1>4

\* The quarter of the queue, the number of TX payload slots, divides the
\* index modulus.
LEMMA QuarterFacts ==
  /\ Q \div 4 \in Nat /\ Q \div 4 >= 1 /\ Q = (Q \div 4) * 4
  /\ 4 * (IdxMod \div Q) \in Nat /\ 4 * (IdxMod \div Q) > 0
  /\ IdxMod = (Q \div 4) * (4 * (IdxMod \div Q))
<1> DEFINE m == Q \div 4  c == IdxMod \div Q
<1>1. IdxMod % Q = 0
  BY QSizeAssumption DEF QSizeAssumption, Q
<1>2. m \in Nat /\ m >= 1 /\ Q = m * 4
  BY ConstFacts
<1>3. IdxMod = Q * c /\ c \in Int
  BY <1>1, ConstFacts, DivMod
<1>4. c > 0
  BY <1>3, ConstFacts, Z3
<1>5. IdxMod = m * (4 * c)
  BY <1>2, <1>3, Z3
<1>6. QED
  BY <1>2, <1>3, <1>4, <1>5


\* virtionet_xmit's payload slot is the index mod size/4 and its chain head
\* twice the index mod size/2; both remainders determine the one mod size/4.
LEMMA TxIndexForms ==
  ASSUME NEW k \in Int
  PROVE  /\ TxSlot(k) = k % (Q \div 4)
         /\ TxHead(k) = 2 * (k % (2 * (Q \div 4)))
         /\ (k % (2 * (Q \div 4))) % (Q \div 4) = k % (Q \div 4)
         /\ (k % Q) % (Q \div 4) = k % (Q \div 4)
<1> DEFINE m == Q \div 4
<1>1. m \in Nat /\ m >= 1 /\ Q = m * 4
  BY QuarterFacts
<1>2. Q \div 2 = 2 * m /\ Q = 2 * (2 * m) /\ k * 2 = 2 * k /\ 2 * m \in Nat
      /\ 2 * m > 0 /\ m * 2 = 2 * m
  BY <1>1
<1>3. (2 * k) % (2 * m) = 2 * (k % m)
  BY <1>1, ModDouble
<1>4. TxSlot(k) = k % m
  <2>1. (2 * (k % m)) \div 2 = k % m
    BY <1>1
  <2>2. QED BY <1>2, <1>3, <2>1 DEF TxSlot
<1>5. (2 * k) % (2 * (2 * m)) = 2 * (k % (2 * m))
  BY <1>2, ModDouble
<1>6. TxHead(k) = 2 * (k % (2 * m))
  BY <1>2, <1>5 DEF TxHead
<1>7. 2 \in Nat /\ 2 > 0 /\ 4 \in Nat /\ 4 > 0 /\ m > 0
  BY <1>1
<1>8. (k % (m * 2)) % m = k % m /\ (k % (m * 4)) % m = k % m
  BY <1>1, <1>7, ModMod, Zenon
<1>9. QED
  BY <1>1, <1>2, <1>4, <1>6, <1>8

\* Two positions of a window shorter than size/4 fall on different
\* remainders mod size/4, also after the wrap of the 16-bit index.
LEMMA WindowDistinct ==
  ASSUME NEW h \in Int, NEW i \in Nat, NEW j \in Nat, i < j, j < Q \div 4
  PROVE  ((h + i) % IdxMod) % (Q \div 4) # ((h + j) % IdxMod) % (Q \div 4)
<1> DEFINE m == Q \div 4  n == 4 * (IdxMod \div Q)
<1>1. m \in Nat /\ m > 0 /\ n \in Nat /\ n > 0 /\ IdxMod = m * n
  BY QuarterFacts
<1>2. h + i \in Int /\ h + j \in Int /\ j - i \in 1 .. m - 1 /\ h + j = (h + i) + (j - i)
  BY <1>1
<1>3. ((h + i) % (m * n)) % m = (h + i) % m
  BY <1>1, <1>2, ModMod, Zenon
<1>4. ((h + j) % (m * n)) % m = (h + j) % m
  BY <1>1, <1>2, ModMod, Zenon
<1>5. ((h + i) + (j - i)) % m # (h + i) % m
  BY <1>1, <1>2, ModStep, Zenon
<1>6. QED
  BY <1>1, <1>2, <1>3, <1>4, <1>5

\* Packets whose indices differ mod size/4 share no pool slot, no avail
\* ring entry and no descriptor of their chains.
LEMMA TxDistinct ==
  ASSUME NEW a \in Int, NEW b \in Int, a % (Q \div 4) # b % (Q \div 4)
  PROVE  /\ TxSlot(a) # TxSlot(b)
         /\ a % Q # b % Q
         /\ TxHead(a) # TxHead(b)
         /\ TxHead(a) # TxHead(b) + 1
         /\ TxHead(a) + 1 # TxHead(b)
<1> DEFINE m == Q \div 4
<1>1. m \in Nat /\ m >= 1
  BY QuarterFacts
<1>2. /\ TxSlot(a) = a % m /\ TxHead(a) = 2 * (a % (2 * m))
      /\ (a % (2 * m)) % m = a % m /\ (a % Q) % m = a % m
  BY TxIndexForms
<1>3. /\ TxSlot(b) = b % m /\ TxHead(b) = 2 * (b % (2 * m))
      /\ (b % (2 * m)) % m = b % m /\ (b % Q) % m = b % m
  BY TxIndexForms
<1>4. a % (2 * m) \in Int /\ b % (2 * m) \in Int
  BY <1>1
<1>5. QED
  BY <1>2, <1>3, <1>4

\* Walking from a wrapped index is walking from the unwrapped one.
LEMMA ModAddMod ==
  ASSUME NEW x \in Int, NEW j \in Int
  PROVE  ((x % IdxMod) + j) % IdxMod = (x + j) % IdxMod
<1>1. IdxMod \in Int /\ IdxMod > 0
  BY ConstFacts
<1>2. (x % IdxMod) + j = (x + j) + IdxMod * (-(x \div IdxMod))
  BY <1>1, DivMod
<1>3. x + j \in Int /\ -(x \div IdxMod) \in Int
  BY <1>1
<1>4. \A y \in Int, k \in Int : (y + IdxMod * k) % IdxMod = y % IdxMod
  BY <1>1, ModShift
<1>5. QED
  BY <1>2, <1>3, <1>4

\* Walking the distance from one ring index reaches the other.
LEMMA DistEnd ==
  ASSUME NEW h \in Idx, NEW a \in Idx
  PROVE  (h + Dist(h, a)) % IdxMod = a
<1>1. IdxMod \in Int /\ IdxMod > 0 /\ h \in Int /\ a \in Int /\ a - h \in Int
  BY ConstFacts DEF Idx
<1>2. (h + Dist(h, a)) % IdxMod = (h + (a - h)) % IdxMod
  BY <1>1, ModAddMod DEF Dist
<1>3. a % IdxMod = a
  BY ConstFacts DEF Idx
<1>4. QED
  BY <1>1, <1>2, <1>3

-----------------------------------------------------------------------------
(* TxInv is inductive when the caller keeps at most size/4 packets in      *)
(* flight.                                                                 *)

LEMMA InitTxInv == Init => TxInv
BY DEF Init, TxInv, DeviceLive

\* A step that leaves the open instance, its status, the TX descriptors,
\* the TX pool and the TX indices alone keeps TxInv.
LEMMA TxFrame ==
  ASSUME TxInv,
         UNCHANGED <<vnet, running, status, desc, txBuf>>,
         avail'[TX] = avail[TX], hostAvail'[TX] = hostAvail[TX]
  PROVE  TxInv'
BY DEF TxInv, TxWin, TxAt, TxChainOK, TxChainAt, DeviceLive

\* A failed virtionet_open leaves no instance and a FAILED device.
LEMMA OpenFailsTxInv ==
  ASSUME TxInv, OpenNegotiationFails \/ OpenAllocFails
  PROVE  TxInv'
<1>1. ~vnet' /\ running' = running /\ vnet' = vnet /\ FAILED \in status'
  BY DEF OpenNegotiationFails, OpenAllocFails, NegotiatedStatus
<1>2. QED
  BY <1>1 DEF TxInv, DeviceLive

\* A successful virtionet_open starts with an empty TX window.
LEMMA OpenSucceedsTxInv ==
  ASSUME OpenSucceeds
  PROVE  TxInv'
<1>1. vnet' /\ running' /\ hostAvail'[TX] = 0 /\ avail'[TX].idx = 0
  BY DEF OpenSucceeds, DeviceReset, Queues, RX, TX
<1>2. Dist(0, 0) = 0 /\ TxInFlightBound >= 0
  BY ConstFacts DEF Dist
<1>3. QED
  BY <1>1, <1>2 DEF TxInv, TxWin

\* virtionet_close of the running instance resets the device.
LEMMA CloseTxInv ==
  ASSUME TxInv, Close
  PROVE  TxInv'
<1>1. running
  BY DEF Close, TxInv
<1>2. vnet' = FALSE /\ running' = FALSE /\ status' = {}
  BY <1>1 DEF Close
<1>3. QED
  BY <1>2 DEF TxInv, DeviceLive

\* The chain, ring entry and pool slot of a ring index lie in the table,
\* the ring and the pool.
LEMMA TxChainIds ==
  ASSUME NEW k \in Idx
  PROVE  /\ TxHead(k) \in DescId /\ TxHead(k) + 1 \in DescId
         /\ TxSlot(k) \in TxSlots /\ k % Q \in DescId
<1>1. k \in Nat
  BY ConstFacts DEF Idx
<1>2. TxHead(k) \in DescId /\ TxHead(k) + 1 \in DescId
  BY <1>1, TxChainInTable DEF TxHead
<1>3. TxSlot(k) \in TxSlots
  BY <1>1, TxSlotInPool
<1>4. k % Q \in DescId
  BY <1>1, ConstFacts DEF DescId
<1>5. QED
  BY <1>2, <1>3, <1>4

\* virtionet_xmit appends packet avail.idx at the end of the window and
\* overwrites no descriptor, ring entry or pool slot of the packets before
\* it: they sit at indices less than size/4 away.
LEMMA XmitTxInv ==
  ASSUME TInv, TxInv, TxInFlightBound <= Q \div 4, Xmit
  PROVE  TxInv'
<1> DEFINE h == hostAvail[TX]  a == avail[TX].idx  w == TxWin
           id == TxHead(a)  slot == TxSlot(a)  m == Q \div 4
           R == [addr |-> NetHdrAddr, flags |-> {"NEXT"}, next |-> id + 1]
           P == [addr |-> <<"txbuf", slot>>, flags |-> {}, next |-> 0]
<1>1. /\ h \in Idx /\ a \in Idx /\ vnet
      /\ avail[TX].ring \in [DescId -> 0 .. Word16 - 1]
      /\ desc[TX] \in [DescId -> [addr : Addr, flags : Flags,
                                  next : 0 .. Word16 - 1]]
      /\ txBuf \in [TxSlots -> Data]
  BY DEF TInv, TypeOK, Xmit, Queues
<1>2. /\ w \in Nat /\ w < TxInFlightBound /\ w < m /\ m \in Nat
      /\ TxInFlightBound \in Nat /\ w < IdxMod - 1
  <2>1. w \in Idx
    BY <1>1, DistType DEF TxWin
  <2>2. w < TxInFlightBound
    BY DEF Xmit, TxWin
  <2>3. QED
    BY <2>1, <2>2, ConstFacts, QuarterFacts, HalfQueue, BoundsAssumption
    DEF Idx, BoundsAssumption
<1>3. id \in DescId /\ id + 1 \in DescId /\ slot \in TxSlots /\ a % Q \in DescId
  BY <1>1, TxChainIds
<1>11. /\ DOMAIN desc[TX] = DescId /\ DOMAIN avail[TX].ring = DescId
       /\ DOMAIN txBuf = TxSlots
  BY <1>1
<1>4. /\ txBuf' = [txBuf EXCEPT ![slot] = a]
      /\ desc'[TX] = [desc[TX] EXCEPT ![id] = R, ![id + 1] = P]
      /\ avail'[TX].ring = [avail[TX].ring EXCEPT ![a % Q] = id]
      /\ avail'[TX].idx = Inc16(a)
      /\ UNCHANGED <<vnet, running, status, hostAvail>>
  BY <1>1, <1>3 DEF Xmit, TInv, TypeOK, Queues
<1>5. TxWin' = w + 1
  BY <1>1, <1>2, <1>4, DistIncTo DEF TxWin
<1>6. TxAt(w) = a /\ \A j \in 0 .. w : TxAt(j)' = TxAt(j)
  <2>1. TxAt(w) = a
    BY <1>1, DistEnd DEF TxAt, TxWin
  <2>2. QED
    BY <1>4, <2>1 DEF TxAt
<1>7. ASSUME NEW j \in 0 .. w - 1
      PROVE  TxChainOK(TxAt(j))'
  <2> DEFINE k == TxAt(j)
  <2>1. k \in Idx /\ k \in Int
    BY <1>1, ConstFacts DEF TxAt, Idx
  <2>2. k % m # a % m
    <3>1. h \in Int /\ j \in Nat /\ j < w
      BY <1>1, <1>2 DEF Idx
    <3>2. ((h + j) % IdxMod) % m # ((h + w) % IdxMod) % m
      BY <1>2, <3>1, WindowDistinct
    <3>3. QED
      BY <1>6, <3>2 DEF TxAt
  <2>3. /\ TxSlot(k) # slot /\ k % Q # a % Q
        /\ TxHead(k) # id /\ TxHead(k) # id + 1 /\ TxHead(k) + 1 # id
    BY <1>1, <2>1, <2>2, TxDistinct DEF Idx
  <2>4. TxChainOK(k)
    BY <1>1, <1>2 DEF TxInv
  <2>5. /\ TxHead(k) \in DescId /\ TxHead(k) + 1 \in DescId
        /\ TxSlot(k) \in TxSlots /\ k % Q \in DescId
    BY <2>1, TxChainIds
  <2>6. TxChainAt(avail', desc', txBuf', k)
    <3>1. avail'[TX].ring[k % Q] = avail[TX].ring[k % Q]
      BY <1>11, <1>3, <1>4, <2>3, <2>5
    <3>2. desc'[TX][TxHead(k)] = desc[TX][TxHead(k)]
      BY <1>11, <1>3, <1>4, <2>3, <2>5
    <3>3. desc'[TX][TxHead(k) + 1] = desc[TX][TxHead(k) + 1]
      <4>1. TxHead(k) + 1 # id + 1 /\ TxHead(k) + 1 # id
        BY <2>3, <2>5, <1>3 DEF DescId
      <4>2. QED
        BY <1>11, <1>3, <1>4, <2>5, <4>1
    <3>4. txBuf'[TxSlot(k)] = txBuf[TxSlot(k)]
      <4>1. txBuf' = [txBuf EXCEPT ![slot] = a] /\ txBuf \in [TxSlots -> Data]
        BY <1>1, <1>4, <1>11
      <4>2. TxSlot(k) \in TxSlots /\ TxSlot(k) # slot
        BY <2>3, <2>5
      <4>3. QED
        BY <4>1, <4>2
    <3>5. QED
      BY <2>4, <3>1, <3>2, <3>3, <3>4 DEF TxChainOK, TxChainAt
  <2>7. TxAt(j)' = k
    BY <1>2, <1>6
  <2>8. QED
    BY <2>6, <2>7 DEF TxChainOK
<1>8. ASSUME NEW c \in {w}
      PROVE  TxChainOK(TxAt(c))'
  <2>1. TxChainAt(avail', desc', txBuf', a)
    <3>1. avail'[TX].ring[a % Q] = id
      BY <1>11, <1>3, <1>4
    <3>2. desc'[TX][id] = R
      <4>1. id # id + 1
        BY <1>3 DEF DescId
      <4>2. QED
        BY <1>11, <1>3, <1>4, <4>1
    <3>5. desc'[TX][id + 1] = P
      BY <1>11, <1>3, <1>4
    <3>3. txBuf'[slot] = a
      BY <1>11, <1>3, <1>4
    <3>4. QED
      BY <3>1, <3>2, <3>3, <3>5 DEF TxChainAt
  <2>2. TxAt(c)' = a
    <3>1. c \in 0 .. w
      BY <1>2
    <3>2. TxAt(c)' = TxAt(c) /\ TxAt(c) = a
      BY <3>1, <1>6
    <3>3. QED
      BY <3>2
  <2>3. QED
    BY <2>1, <2>2 DEF TxChainOK
<1>9. \A j \in 0 .. TxWin' - 1 : TxChainOK(TxAt(j))'
  <2>1. SUFFICES ASSUME NEW j \in 0 .. w
                 PROVE  TxChainOK(TxAt(j))'
    BY <1>2, <1>5
  <2>2. CASE j < w
    BY <2>2, <1>2, <1>7
  <2>3. CASE j = w
    BY <2>3, <1>2, <1>8
  <2>4. QED
    BY <2>2, <2>3, <1>2
<1>10. QED
  BY <1>1, <1>2, <1>4, <1>5, <1>9 DEF TxInv

\* The device takes the first packet of the window; the rest move up one
\* place, untouched.
LEMMA HostTxTxInv ==
  ASSUME TInv, TxInv, HostTx
  PROVE  TxInv'
<1> DEFINE h == hostAvail[TX]  a == avail[TX].idx  w == TxWin
<1>1. h \in Idx /\ a \in Idx /\ h # a /\ vnet
  BY DEF TInv, TypeOK, Queues, HostTx, TxInv
<1>2. hostAvail'[TX] = Inc16(h) /\ UNCHANGED <<vnet, running, status, desc, avail, txBuf>>
  BY DEF HostTx, drv, TInv, TypeOK, Queues
<1>3. w >= 1 /\ TxWin' = w - 1 /\ w \in Idx
  BY <1>1, <1>2, DistIncFrom, DistType DEF TxWin
<1>4. ASSUME NEW j \in 0 .. w - 2
      PROVE  TxAt(j)' = TxAt(j + 1)
  <2>1. h \in Int /\ h + 1 \in Int /\ j \in Int /\ h + 1 + j = h + (j + 1)
    BY <1>1, <1>3, ConstFacts DEF Idx
  <2>2. (((h + 1) % IdxMod) + j) % IdxMod = (h + 1 + j) % IdxMod
    BY <2>1, ModAddMod
  <2>3. QED
    BY <1>2, <2>1, <2>2 DEF TxAt, Inc16
<1>6. \A j \in 0 .. TxWin' - 1 : TxChainOK(TxAt(j))'
  <2>1. SUFFICES ASSUME NEW j \in 0 .. w - 2
                 PROVE  TxChainOK(TxAt(j))'
    BY <1>3 DEF Idx
  <2>2. TxAt(j)' = TxAt(j + 1)
    BY <1>4
  <2>3. TxChainOK(TxAt(j + 1))
    <3>1. j + 1 \in 0 .. w - 1
      BY <1>3 DEF Idx
    <3>2. QED
      BY <1>1, <3>1 DEF TxInv
  <2>4. TxChainAt(avail', desc', txBuf', TxAt(j + 1))
    BY <1>2, <2>3 DEF TxChainOK
  <2>5. QED
    BY <2>2, <2>4 DEF TxChainOK
<1>7. TxWin' <= TxInFlightBound
  BY <1>1, <1>3, ConstFacts DEF TxInv, Idx
<1>8. QED
  BY <1>1, <1>2, <1>6, <1>7 DEF TxInv, DeviceLive

\* virtionet_receive only re-posts on the RX ring.
LEMMA ReceiveTxInv ==
  ASSUME TInv, TxInv, Receive
  PROVE  TxInv'
<1>1. PICK e \in UsedEntryRead(lastRx % Q) :
        avail' = [avail EXCEPT ![RX].ring[avail[RX].idx % Q] = RepostHead(PayloadDesc(e)),
                               ![RX].idx = Inc16(avail[RX].idx)]
  BY DEF Receive
<1>2. avail'[TX] = avail[TX]
  <2>1. DOMAIN avail = Queues /\ RX # TX /\ TX \in Queues
    BY DEF TInv, TypeOK, Queues, RX, TX
  <2>2. QED
    BY <1>1, <2>1
<1>3. QED
  BY <1>2, TxFrame DEF Receive

\* A packet arriving on RX leaves the TX queue alone.
LEMMA HostRxTxInv ==
  ASSUME TInv, TxInv, HostRx
  PROVE  TxInv'
<1>1. hostAvail'[TX] = hostAvail[TX]
  BY DEF HostRx, TInv, TypeOK, Queues, RX, TX
<1>2. QED
  BY <1>1, TxFrame DEF HostRx, drv

LEMMA NextTxInv ==
  ASSUME TxInFlightBound <= Q \div 4, TInv, TxInv, [Next]_vars
  PROVE  TxInv'
<1>1. CASE OpenNegotiationFails \/ OpenAllocFails  BY <1>1, OpenFailsTxInv
<1>2. CASE OpenSucceeds      BY <1>2, OpenSucceedsTxInv
<1>3. CASE Close             BY <1>3, CloseTxInv
<1>4. CASE Xmit              BY <1>4, XmitTxInv
<1>5. CASE Receive           BY <1>5, ReceiveTxInv
<1>6. CASE HandleInterrupt   BY <1>6, TxFrame DEF HandleInterrupt, drv, ring
<1>7. CASE HostRx            BY <1>7, HostRxTxInv
<1>8. CASE HostTx            BY <1>8, HostTxTxInv
<1>9. CASE UNCHANGED vars    BY <1>9, TxFrame DEF vars, drv, ring, dev
<1>10. QED
  BY <1>1, <1>2, <1>3, <1>4, <1>5, <1>6, <1>7, <1>8, <1>9 DEF Next

\* When TxInv holds, the device's TX step sends the packet at hostAvail.
LEMMA HostTxSendsNext ==
  ASSUME TInv, TxInv, HostTx
  PROVE  wire' = hostAvail[TX]
<1> DEFINE h == hostAvail[TX]  a == avail[TX].idx  hd == TxHead(h)
<1>1. h \in Idx /\ a \in Idx /\ h # a /\ vnet
  BY DEF TInv, TypeOK, Queues, HostTx, TxInv
<1>2. 0 \in 0 .. TxWin - 1
  <2>1. TxWin >= 1 /\ TxWin \in Idx
    BY <1>1, DistIncFrom, DistType DEF TxWin
  <2>2. QED
    BY <2>1 DEF Idx
<1>3. TxAt(0) = h
  BY <1>1, ConstFacts DEF TxAt, Idx
<1>4. TxChainOK(h)
  BY <1>1, <1>2, <1>3 DEF TxInv
<1>5. /\ avail[TX].ring[h % Q] = hd
      /\ desc[TX][hd] = [addr |-> NetHdrAddr, flags |-> {"NEXT"}, next |-> hd + 1]
      /\ desc[TX][hd + 1].addr = <<"txbuf", TxSlot(h)>>
      /\ txBuf[TxSlot(h)] = h
  BY <1>4 DEF TxChainOK, TxChainAt
<1>6. hd \in DescId /\ hd + 1 \in DescId
  BY <1>1, TxChainIds
<1>7. HostChain(TX) = <<hd, hd + 1>>
  BY <1>5, <1>6 DEF HostChain
<1>8. QED
  BY <1>5, <1>7 DEF HostTx

IInv == TInv /\ TxInv

(* The TX half of virtionet_xmit's contract, for every queue size, index   *)
(* width and arena size the assumptions allow: as long as the caller keeps *)
(* at most size/4 packets in flight (the TX pool virtionet_init allocates  *)
(* has size/4 payload slots, and run tx_ring_full shows a caller that      *)
(* goes further overwriting a slot still in flight), every packet the      *)
(* device sends is the one virtionet_xmit published at that avail index,   *)
(* across every wrap of the 16-bit index.                                  *)
THEOREM TxDeliversInOrderProved ==
  ASSUME TxInFlightBound <= Q \div 4
  PROVE  Spec => TxDeliversInOrder
<1>1. Init => IInv
  BY InitTInv, InitTxInv DEF IInv
<1>2. IInv /\ [Next]_vars => IInv'
  BY NextTInv, NextTxInv DEF IInv
<1>3. IInv => (HostTx => wire' = hostAvail[TX])
  BY HostTxSendsNext DEF IInv
<1>4. QED
  BY <1>1, <1>2, <1>3, PTL DEF Spec, TxDeliversInOrder

=============================================================================

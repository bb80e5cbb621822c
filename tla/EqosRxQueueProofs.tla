------------------------- MODULE EqosRxQueueProofs -------------------------
(***************************************************************************)
(* Proofs about the receive queue, for every size of its three rings: the  *)
(* device has no buffer that NetAdapterCx may reuse, and what is returned  *)
(* without Ignore is a good frame.  The last two theorems are about the    *)
(* queue next to another one, as the runs have it.                         *)
(***************************************************************************)
EXTENDS MCEqosRings, FiniteSetTheorems, FunctionTheorems, TLAPS

-----------------------------------------------------------------------------
(* Ring arithmetic.                                                        *)

\* Distances around a ring of n elements.
LEMMA Ring ==
  ASSUME NEW n \in Nat, n > 1, NEW a \in 0 .. n - 1, NEW b \in 0 .. n - 1
  PROVE  /\ (b - a) % n = IF b >= a THEN b - a ELSE b - a + n
         /\ (b + 1) % n = IF b + 1 = n THEN 0 ELSE b + 1
         /\ (b - 1) % n = IF b = 0 THEN n - 1 ELSE b - 1
  OBVIOUS

LEMMA DescRing ==
  ASSUME NEW a \in DescIndex, NEW b \in DescIndex
  PROVE  /\ DescDist(a, b) \in Nat /\ DescDist(a, b) < DescCount
         /\ DescDist(a, a) = 0
         /\ DescDist(a, b) = 0 => b = a
         /\ DescFwd(b) \in DescIndex
         /\ DescFwd(b) # a => DescDist(a, DescFwd(b)) = DescDist(a, b) + 1
         /\ DescDist(a, b) + 1 < DescCount => DescFwd(b) # a
         /\ b # (a - 1) % DescCount => DescFwd(b) # a
<1>1. DescCount \in Nat /\ DescCount > 1
  BY RxSizesAssumption
<1>2. /\ DescDist(a, b) = IF b >= a THEN b - a ELSE b - a + DescCount
      /\ DescDist(a, a) = 0
      /\ DescFwd(b) = IF b + 1 = DescCount THEN 0 ELSE b + 1
      /\ (a - 1) % DescCount = IF a = 0 THEN DescCount - 1 ELSE a - 1
  <2>1. a \in 0 .. DescCount - 1 /\ b \in 0 .. DescCount - 1
    BY DEF DescIndex
  <2>2. (a - 1) % DescCount = IF a = 0 THEN DescCount - 1 ELSE a - 1
    BY <1>1, <2>1, Ring
  <2>3. (b + 1) % DescCount = IF b + 1 = DescCount THEN 0 ELSE b + 1
    BY <1>1, <2>1, Ring
  <2>4. (b - a) % DescCount = IF b >= a THEN b - a ELSE b - a + DescCount
    BY <1>1, <2>1, Ring
  <2>5. (a - a) % DescCount = 0
    BY <1>1, <2>1
  <2> QED BY <2>2, <2>3, <2>4, <2>5 DEF DescDist, DescFwd
<1>3. DescFwd(b) \in DescIndex
  BY <1>1, <1>2 DEF DescIndex
<1>4. DescDist(a, DescFwd(b)) = IF DescFwd(b) >= a THEN DescFwd(b) - a ELSE DescFwd(b) - a + DescCount
  BY <1>1, <1>3, Ring DEF DescIndex, DescDist
<1> QED BY <1>1, <1>2, <1>3, <1>4 DEF DescIndex

\* Seen from a later place b.
LEMMA DescRebase ==
  ASSUME NEW a \in DescIndex, NEW b \in DescIndex, NEW c \in DescIndex
  PROVE  /\ DescDist(a, b) <= DescDist(a, c) => DescDist(b, c) = DescDist(a, c) - DescDist(a, b)
         /\ DescDist(a, b) > DescDist(a, c) => DescDist(b, c) = DescDist(a, c) - DescDist(a, b) + DescCount
         /\ DescDist(a, b) = DescDist(a, c) => b = c
<1>1. DescCount \in Nat /\ DescCount > 1
  BY RxSizesAssumption
<1>2. /\ DescDist(a, b) = IF b >= a THEN b - a ELSE b - a + DescCount
      /\ DescDist(a, c) = IF c >= a THEN c - a ELSE c - a + DescCount
      /\ DescDist(b, c) = IF c >= b THEN c - b ELSE c - b + DescCount
  BY <1>1, Ring DEF DescIndex, DescDist
<1> QED BY <1>1, <1>2 DEF DescIndex

LEMMA FragRing ==
  ASSUME NEW a \in FragIndex, NEW b \in FragIndex
  PROVE  /\ FragDist(a, b) \in Nat /\ FragDist(a, b) < FragCount
         /\ FragDist(a, a) = 0
         /\ FragDist(a, b) = 0 => b = a
         /\ FragFwd(b) \in FragIndex
         /\ FragFwd(b) # a => FragDist(a, FragFwd(b)) = FragDist(a, b) + 1
         /\ FragDist(a, b) + 1 < FragCount => FragFwd(b) # a
<1>1. FragCount \in Nat /\ FragCount > 1
  BY RxSizesAssumption
<1>2. /\ FragDist(a, b) = IF b >= a THEN b - a ELSE b - a + FragCount
      /\ FragDist(a, a) = 0
      /\ FragFwd(b) = IF b + 1 = FragCount THEN 0 ELSE b + 1
  BY <1>1, Ring DEF FragIndex, FragDist, FragFwd
<1>3. FragFwd(b) \in FragIndex
  BY <1>1, <1>2 DEF FragIndex
<1>4. FragDist(a, FragFwd(b)) = IF FragFwd(b) >= a THEN FragFwd(b) - a ELSE FragFwd(b) - a + FragCount
  BY <1>1, <1>3, Ring DEF FragIndex, FragDist
<1> QED BY <1>1, <1>2, <1>3, <1>4 DEF FragIndex

LEMMA FragRebase ==
  ASSUME NEW a \in FragIndex, NEW b \in FragIndex, NEW c \in FragIndex
  PROVE  /\ FragDist(a, b) <= FragDist(a, c) => FragDist(b, c) = FragDist(a, c) - FragDist(a, b)
         /\ FragDist(a, b) = FragDist(a, c) => b = c
<1>1. FragCount \in Nat /\ FragCount > 1
  BY RxSizesAssumption
<1>2. /\ FragDist(a, b) = IF b >= a THEN b - a ELSE b - a + FragCount
      /\ FragDist(a, c) = IF c >= a THEN c - a ELSE c - a + FragCount
      /\ FragDist(b, c) = IF c >= b THEN c - b ELSE c - b + FragCount
  BY <1>1, Ring DEF FragIndex, FragDist
<1> QED BY <1>1, <1>2 DEF FragIndex

LEMMA PktRing ==
  ASSUME NEW a \in PktIndex, NEW b \in PktIndex
  PROVE  /\ PktDist(a, b) \in Nat /\ PktDist(a, b) < PktCount
         /\ PktDist(a, a) = 0
         /\ PktFwd(b) \in PktIndex
         /\ PktDist(a, b) + 1 < PktCount => PktDist(a, PktFwd(b)) = PktDist(a, b) + 1
         /\ PktFwd(b) # a => PktDist(a, PktFwd(b)) = PktDist(a, b) + 1
<1>1. PktCount \in Nat /\ PktCount > 1
  BY RxSizesAssumption
<1>2. /\ PktDist(a, b) = IF b >= a THEN b - a ELSE b - a + PktCount
      /\ PktDist(a, a) = 0
      /\ PktFwd(b) = IF b + 1 = PktCount THEN 0 ELSE b + 1
  BY <1>1, Ring DEF PktIndex, PktDist, PktFwd
<1>3. PktFwd(b) \in PktIndex
  BY <1>1, <1>2 DEF PktIndex
<1>4. PktDist(a, PktFwd(b)) = IF PktFwd(b) >= a THEN PktFwd(b) - a ELSE PktFwd(b) - a + PktCount
  BY <1>1, <1>3, Ring DEF PktIndex, PktDist
<1> QED BY <1>1, <1>2, <1>3, <1>4 DEF PktIndex

LEMMA PktRebase ==
  ASSUME NEW a \in PktIndex, NEW b \in PktIndex, NEW c \in PktIndex
  PROVE  /\ PktDist(a, b) <= PktDist(a, c) => PktDist(b, c) = PktDist(a, c) - PktDist(a, b)
         /\ PktDist(a, b) = PktDist(a, c) => b = c
<1>1. PktCount \in Nat /\ PktCount > 1
  BY RxSizesAssumption
<1>2. /\ PktDist(a, b) = IF b >= a THEN b - a ELSE b - a + PktCount
      /\ PktDist(a, c) = IF c >= a THEN c - a ELSE c - a + PktCount
      /\ PktDist(b, c) = IF c >= b THEN c - b ELSE c - b + PktCount
  BY <1>1, Ring DEF PktIndex, PktDist
<1> QED BY <1>1, <1>2 DEF PktIndex

-----------------------------------------------------------------------------
(* The inductive invariant.                                                *)

TypeOK ==
  /\ queue \in {"absent", "created", "running", "cancelled", "stopped"}
  /\ pc \in {"idle", "reap", "fill"}
  /\ pktBegin \in PktIndex /\ pktEnd \in PktIndex /\ pktIndex \in PktIndex
  /\ fragBegin \in FragIndex /\ fragNext \in FragIndex /\ fragEnd \in FragIndex /\ fragIndex \in FragIndex
  /\ descBegin \in DescIndex /\ descEnd \in DescIndex /\ descIndex \in DescIndex /\ descNext \in DescIndex
  /\ hwNext \in DescIndex /\ hwDone \in DescIndex /\ hwTail \in DescIndex
  /\ pkts \in [PktIndex -> [frag : FragIndex, ignore : BOOLEAN]]
  /\ descs \in [DescIndex -> [own : BOOLEAN, frag : FragIndex, good : BOOLEAN]]
  /\ wrote \in [FragIndex -> {"none", "good", "bad"}]

Active == queue \in {"running", "cancelled"}

D(d) == DescDist(descBegin, d)
F(f) == FragDist(fragBegin, f)
P(i) == PktDist(pktBegin, i)

\* Descriptors have been filled up to here.
Filled == IF pc = "fill" THEN descIndex ELSE descEnd

\* After RxQueueCancel, all buffers have gone back, and the device uses none.
Drained == queue = "cancelled" /\ fragBegin = fragEnd /\ hwDone = hwNext /\ descBegin = hwNext

LifeInv ==
  /\ running <=> queue = "running"
  /\ hwStart <=> queue = "running"
  /\ ~Active => pc = "idle" /\ hwDone = hwNext
  /\ pc = "fill" => queue = "running"
  /\ pc = "reap" /\ queue = "cancelled" => descNext = hwNext
  /\ queue = "created" => fragNext = fragBegin

\* descBegin, what the device has written back, has taken and may take, and descEnd follow
\* each other around the ring.  RxQueueAdvance looks at what has been written back only.
OrderInv ==
  Active =>
    /\ hwTail = descEnd
    /\ D(hwDone) <= D(hwNext) /\ D(hwNext) <= D(descEnd)
    /\ pc = "reap" => /\ D(descIndex) <= D(hwDone) /\ D(descIndex) <= D(descNext)
                      /\ D(descNext) <= D(hwNext)
    /\ pc = "fill" => D(descEnd) <= D(descIndex) /\ D(descNext) <= D(hwNext)
    /\ \A d \in DescIndex : D(hwDone) <= D(d) /\ D(d) < D(Filled) => descs[d].own

\* The k-th descriptor from descBegin on designates the k-th fragment from fragBegin on.
LockstepInv ==
  Active /\ ~Drained =>
    /\ F(fragNext) = D(descEnd) /\ F(fragNext) <= F(fragEnd)
    /\ \A d \in DescIndex : D(d) < D(Filled) => F(descs[d].frag) = D(d)
    /\ pc # "idle" => F(fragIndex) = D(descIndex)
    /\ pc = "fill" => F(fragIndex) <= F(fragEnd)

\* What has been written back says what is in the buffer, and so do the packets filled in.
FrameInv ==
  Active =>
    /\ \A d \in DescIndex : D(d) < D(hwDone) => (descs[d].good => wrote[descs[d].frag] = "good")
    /\ pc = "reap" =>
         /\ P(pktIndex) <= P(pktEnd)
         /\ \A i \in PktIndex : P(i) < P(pktIndex) =>
              \/ pkts[i].ignore
              \/ F(pkts[i].frag) < F(fragIndex) /\ wrote[pkts[i].frag] = "good"

IInv == TypeOK /\ LifeInv /\ OrderInv /\ LockstepInv /\ FrameInv
-----------------------------------------------------------------------------
LEMMA InitHolds ==
  ASSUME Init
  PROVE  IInv
<1>1. 0 \in DescIndex /\ 0 \in PktIndex /\ 0 \in FragIndex
  BY RxSizesAssumption DEF DescIndex, PktIndex, FragIndex
<1>2. TypeOK
  BY <1>1 DEF Init, TypeOK, Empty
<1>3. LifeInv /\ ~Active
  BY DEF Init, LifeInv, Active
<1> QED BY <1>2, <1>3 DEF IInv, OrderInv, LockstepInv, FrameInv

\* Creating, starting, stopping and freeing the queue.
LEMMA LifecycleKeeps ==
  ASSUME IInv, RxQueueCreate \/ RxQueueStart \/ RxQueueStop \/ RxQueueCleanup
  PROVE  IInv'
<1> USE DEF netVars, ringVars, descVars, locals, hwVars
<1>1. 0 \in DescIndex /\ 0 \in PktIndex /\ 0 \in FragIndex
  BY RxSizesAssumption DEF DescIndex, PktIndex, FragIndex
<1>2. TypeOK'
  <2>1. CASE RxQueueCreate
    BY <1>1, <2>1 DEF IInv, TypeOK, Empty, RxQueueCreate
  <2>2. CASE RxQueueStart
    BY <1>1, <2>2 DEF IInv, TypeOK, RxQueueStart
  <2>3. CASE RxQueueStop \/ RxQueueCleanup
    BY <2>3 DEF IInv, TypeOK, RxQueueStop, RxQueueCleanup
  <2> QED BY <2>1, <2>2, <2>3
<1>3. CASE RxQueueStart
  <2>1. LifeInv' /\ ~Drained'
    BY <1>3 DEF IInv, LifeInv, Active, RxQueueStart, Drained
  <2>2. /\ pc' = "idle" /\ descBegin' = 0 /\ descEnd' = 0 /\ hwDone' = 0 /\ hwNext' = 0 /\ hwTail' = 0
        /\ fragNext' = fragNext /\ fragBegin' = fragBegin /\ fragEnd' = fragEnd /\ fragNext = fragBegin
        /\ fragBegin \in FragIndex /\ fragEnd \in FragIndex
    BY <1>3 DEF IInv, TypeOK, LifeInv, Active, RxQueueStart
  <2>3. DescDist(0, 0) = 0 /\ (\A d \in DescIndex : DescDist(0, d) \in Nat)
    BY <1>1, DescRing
  <2>4. OrderInv' /\ FrameInv'
    BY <2>2, <2>3 DEF OrderInv, FrameInv, D, Filled
  <2>5. FragDist(fragBegin, fragBegin) = 0 /\ FragDist(fragBegin, fragEnd) \in Nat
    BY <2>2, FragRing
  <2>6. LockstepInv'
    BY <2>2, <2>3, <2>5 DEF LockstepInv, D, F, Filled
  <2> QED BY <1>2, <2>1, <2>4, <2>6 DEF IInv
<1>4. CASE RxQueueStop
  <2>1. hwDone = hwNext
    <3>1. CASE Drained
      BY <3>1 DEF Drained
    <3>2. CASE ~Drained
      <4>1. F(fragEnd) = 0
        BY <1>4, FragRing DEF RxQueueStop, IInv, TypeOK, F
      <4>2. D(hwDone) \in Nat /\ D(hwNext) \in Nat /\ F(fragNext) \in Nat
        BY DescRing, FragRing DEF IInv, TypeOK, D, F
      <4>3. D(hwDone) = 0 /\ D(hwNext) = 0
        BY <1>4, <3>2, <4>1, <4>2 DEF RxQueueStop, IInv, OrderInv, LockstepInv, Active
      <4> QED BY <4>3, DescRebase DEF IInv, TypeOK, D
    <3> QED BY <3>1, <3>2
  <2> QED BY <1>2, <1>4, <2>1 DEF RxQueueStop, IInv, LifeInv, OrderInv, LockstepInv, FrameInv, Active
<1>5. CASE RxQueueCreate \/ RxQueueCleanup
  BY <1>2, <1>5 DEF RxQueueCreate, RxQueueCleanup, IInv, LifeInv, OrderInv, LockstepInv, FrameInv, Active
<1> QED BY <1>3, <1>4, <1>5

\* RxQueueCancel stops the device, which may be left with descriptors it has taken.
LEMMA CancelKeeps ==
  ASSUME IInv, RxQueueCancel
  PROVE  IInv'
<1>1. /\ queue = "running" /\ pc = "idle" /\ queue' = "cancelled" /\ running' = FALSE /\ hwStart' = FALSE
      /\ UNCHANGED <<pc, pktEnd, fragEnd, ringVars, descBegin, descEnd, descs, locals, hwNext, hwDone, hwTail,
                     wrote>>
  BY DEF RxQueueCancel, netVars
<1>2. TypeOK' /\ LifeInv'
  BY <1>1 DEF IInv, TypeOK, LifeInv, Active, ringVars, locals
<1>3. OrderInv' /\ FrameInv'
  BY <1>1 DEF IInv, OrderInv, FrameInv, Active, D, Filled, ringVars, locals
<1>4. LockstepInv'
  BY <1>1 DEF IInv, LockstepInv, Active, Drained, D, F, Filled, ringVars, locals
<1> QED BY <1>2, <1>3, <1>4 DEF IInv

-----------------------------------------------------------------------------
(* NetAdapterCx.                                                           *)

LEMMA PostPacketKeeps ==
  ASSUME IInv, NetPostPacket
  PROVE  IInv'
<1>1. /\ queue = "running" /\ pc = "idle" /\ pktEnd' = PktFwd(pktEnd)
      /\ pkts' = [pkts EXCEPT ![pktEnd] = [frag |-> 0, ignore |-> FALSE]]
      /\ UNCHANGED <<queue, pc, pktBegin, fragBegin, fragNext, fragEnd, descVars, locals, hwVars>>
  BY DEF NetPostPacket
<1>2. 0 \in FragIndex
  BY RxSizesAssumption DEF FragIndex
<1>3. PktFwd(pktEnd) \in PktIndex
  BY PktRing DEF IInv, TypeOK
<1>4. TypeOK' /\ LifeInv'
  BY <1>1, <1>2, <1>3 DEF IInv, TypeOK, LifeInv, Active, descVars, locals, hwVars
<1>5. OrderInv' /\ LockstepInv' /\ FrameInv'
  BY <1>1 DEF IInv, OrderInv, LockstepInv, FrameInv, Active, Drained, D, F, Filled, descVars, locals, hwVars
<1> QED BY <1>4, <1>5 DEF IInv

LEMMA PostFragmentKeeps ==
  ASSUME IInv, NetPostFragment
  PROVE  IInv'
<1>1. /\ queue = "running" /\ pc = "idle" /\ FragFwd(fragEnd) # fragBegin /\ fragEnd' = FragFwd(fragEnd)
      /\ wrote' = [wrote EXCEPT ![fragEnd] = "none"]
      /\ UNCHANGED <<queue, pc, pktEnd, ringVars, descVars, locals, hwStart, hwNext, hwDone, hwTail>>
  BY DEF NetPostFragment
<1>2. /\ fragBegin \in FragIndex /\ fragEnd \in FragIndex /\ fragNext \in FragIndex
      /\ ~Drained /\ ~Drained' /\ Active
  BY <1>1 DEF IInv, TypeOK, Drained, Active
<1>3. /\ fragEnd' \in FragIndex /\ F(fragEnd) \in Nat /\ F(fragNext) \in Nat
      /\ F(fragEnd)' = F(fragEnd) + 1
  BY <1>1, <1>2, FragRing DEF F, ringVars
<1>4. TypeOK' /\ LifeInv'
  BY <1>1, <1>3 DEF IInv, TypeOK, LifeInv, Active, ringVars, descVars, locals
<1>5. OrderInv'
  BY <1>1 DEF IInv, OrderInv, Active, D, Filled, ringVars, descVars, locals
<1>6. LockstepInv'
  BY <1>1, <1>2, <1>3 DEF IInv, LockstepInv, D, F, Filled, ringVars, descVars, locals
<1>7. FrameInv'
  <2> SUFFICES ASSUME NEW d \in DescIndex, D(d) < D(hwDone), descs[d].good
               PROVE  wrote'[descs[d].frag] = "good"
    BY <1>1 DEF FrameInv, D, ringVars, descVars
  <2>1. D(d) \in Nat /\ D(hwDone) \in Nat /\ D(hwNext) \in Nat /\ D(descEnd) \in Nat
    BY DescRing DEF IInv, TypeOK, D
  <2>2. D(d) < D(Filled) /\ D(d) < F(fragEnd)
    BY <1>1, <1>2, <1>3, <2>1 DEF IInv, OrderInv, LockstepInv, Filled
  <2>3. F(descs[d].frag) < F(fragEnd)
    BY <1>2, <2>2 DEF IInv, LockstepInv
  <2>4. descs[d].frag # fragEnd /\ descs[d].frag \in FragIndex
    BY <1>3, <2>3 DEF IInv, TypeOK
  <2>5. wrote[descs[d].frag] = "good"
    BY <1>2 DEF IInv, FrameInv
  <2> QED BY <1>1, <2>4, <2>5 DEF IInv, TypeOK
<1> QED BY <1>4, <1>5, <1>6, <1>7 DEF IInv

-----------------------------------------------------------------------------
(* The device.                                                             *)

LEMMA HwTakeKeeps ==
  ASSUME IInv, HwTake
  PROVE  IInv'
<1>1. /\ hwStart /\ hwNext # hwTail /\ hwNext' = DescFwd(hwNext)
      /\ UNCHANGED <<queue, pc, netVars, ringVars, descVars, locals, hwStart, hwDone, hwTail, wrote>>
  BY DEF HwTake
<1>2. queue = "running" /\ Active /\ hwTail = descEnd /\ ~Drained /\ ~Drained'
  BY <1>1 DEF IInv, LifeInv, OrderInv, Active, Drained
<1>3. \A x \in DescIndex : D(x) \in Nat /\ D(x) < DescCount
  BY DescRing DEF IInv, TypeOK, D
<1>4. D(hwNext) < D(descEnd)
  <2>1. D(hwNext) # D(descEnd)
    BY <1>1, <1>2, DescRebase DEF IInv, TypeOK, D
  <2>2. D(hwNext) <= D(descEnd)
    BY <1>2 DEF IInv, OrderInv
  <2>3. D(hwNext) \in Nat /\ D(descEnd) \in Nat
    BY <1>3 DEF IInv, TypeOK
  <2> QED BY <2>1, <2>2, <2>3
<1>5. hwNext' \in DescIndex /\ D(hwNext') = D(hwNext) + 1
  BY <1>1, <1>3, <1>4, DescRing, RxSizesAssumption DEF IInv, TypeOK, D
<1>6. TypeOK' /\ LifeInv'
  BY <1>1, <1>2, <1>5 DEF IInv, TypeOK, LifeInv, Active, netVars, ringVars, descVars, locals
<1>7. OrderInv'
  <2>1. \A x \in DescIndex : D(x)' = D(x)
    BY <1>1 DEF D, descVars
  <2>2. D(hwNext)' = D(hwNext) + 1
    BY <1>1, <1>5 DEF D, descVars
  <2> QED
    BY <1>1, <1>2, <1>3, <1>4, <2>2 DEF IInv, TypeOK, OrderInv, D, Filled, descVars, locals
<1>8. LockstepInv' /\ FrameInv'
  BY <1>1, <1>2 DEF IInv, LockstepInv, FrameInv, Active, D, F, P, Filled, netVars, ringVars, descVars, locals
<1> QED BY <1>6, <1>7, <1>8 DEF IInv

LEMMA HwWriteBackKeeps ==
  ASSUME IInv, HwWriteBack
  PROVE  IInv'
<1>1. PICK good \in BOOLEAN :
        /\ descs' = [descs EXCEPT ![hwDone].own = FALSE, ![hwDone].good = good]
        /\ wrote' = [wrote EXCEPT ![descs[hwDone].frag] = IF good THEN "good" ELSE "bad"]
  BY DEF HwWriteBack
<1>2. /\ hwDone # hwNext /\ hwDone' = DescFwd(hwDone)
      /\ UNCHANGED <<queue, pc, netVars, ringVars, running, descBegin, descEnd, locals, hwStart, hwNext, hwTail>>
  BY DEF HwWriteBack
<1>3. Active /\ ~Drained
  BY <1>2 DEF IInv, LifeInv, Drained
<1>4. \A x \in DescIndex : D(x) \in Nat /\ D(x) < DescCount
  BY DescRing DEF IInv, TypeOK, D
<1>5. D(hwDone) < D(hwNext) /\ D(hwDone) < D(descEnd)
  <2>1. D(hwNext) # D(hwDone)
    BY <1>2, DescRebase DEF IInv, TypeOK, D
  <2>2. D(hwDone) <= D(hwNext) /\ D(hwNext) <= D(descEnd)
    BY <1>3 DEF IInv, OrderInv
  <2>3. D(hwDone) \in Nat /\ D(hwNext) \in Nat /\ D(descEnd) \in Nat
    BY <1>4 DEF IInv, TypeOK
  <2> QED BY <2>1, <2>2, <2>3
<1>6. hwDone' \in DescIndex /\ D(hwDone') = D(hwDone) + 1
  BY <1>2, <1>4, <1>5, DescRing, RxSizesAssumption DEF IInv, TypeOK, D
<1>7. \A x \in DescIndex :
        /\ descs'[x].frag = descs[x].frag
        /\ x # hwDone => descs'[x] = descs[x]
  BY <1>1 DEF IInv, TypeOK
<1>8. TypeOK'
  <2>1. descs' \in [DescIndex -> [own : BOOLEAN, frag : FragIndex, good : BOOLEAN]]
    BY <1>1 DEF IInv, TypeOK
  <2>2. wrote' \in [FragIndex -> {"none", "good", "bad"}]
    BY <1>1 DEF IInv, TypeOK
  <2> QED BY <1>2, <1>6, <2>1, <2>2 DEF IInv, TypeOK, netVars, ringVars, locals
<1>9. LifeInv'
  BY <1>2, <1>3 DEF IInv, LifeInv, Active, ringVars, locals
<1>10. D(hwDone)' = D(hwDone) + 1 /\ (\A x \in DescIndex : DescDist(descBegin', x) = D(x))
  BY <1>2, <1>6 DEF D
<1>11. OrderInv'
  <2>1. \A d \in DescIndex : D(hwDone) + 1 <= D(d) /\ D(d) < D(Filled) => descs'[d].own
    <3> SUFFICES ASSUME NEW d \in DescIndex, D(hwDone) + 1 <= D(d), D(d) < D(Filled)
                 PROVE  descs'[d].own
      OBVIOUS
    <3>1. d # hwDone /\ D(hwDone) <= D(d)
      BY <1>4 DEF IInv, TypeOK
    <3> QED BY <1>3, <1>7, <3>1 DEF IInv, OrderInv
  <2> QED BY <1>2, <1>3, <1>4, <1>5, <1>10, <2>1 DEF IInv, TypeOK, OrderInv, D, Filled, locals
<1>12. LockstepInv'
  BY <1>2, <1>3, <1>7 DEF IInv, LockstepInv, Active, D, F, Filled, netVars, ringVars, locals
<1>13. FrameInv'
  <2>1. \A f \in FragIndex : F(f) # D(hwDone) => wrote'[f] = wrote[f]
    BY <1>1, <1>3, <1>4, <1>5 DEF IInv, TypeOK, OrderInv, LockstepInv, Filled
  <2>2. ASSUME NEW d \in DescIndex, D(d) < D(hwDone) + 1, descs'[d].good
        PROVE  wrote'[descs'[d].frag] = "good"
    <3>1. CASE d = hwDone
      BY <1>1, <2>2, <3>1 DEF IInv, TypeOK
    <3>2. CASE d # hwDone
      <4>1. D(d) < D(hwDone) /\ D(d) < D(Filled)
        <5>1. D(d) # D(hwDone)
          BY <3>2, DescRebase DEF IInv, TypeOK, D
        <5>2. D(d) < D(hwDone)
          <6>1. D(d) \in Nat /\ D(hwDone) \in Nat
            BY <1>4 DEF IInv, TypeOK
          <6> QED BY <2>2, <5>1, <6>1
        <5>3. D(descEnd) <= D(Filled)
          BY <1>3, <1>4 DEF IInv, TypeOK, OrderInv, Filled
        <5>4. Filled \in DescIndex
          BY DEF IInv, TypeOK, Filled
        <5> QED BY <1>4, <1>5, <5>2, <5>3, <5>4 DEF IInv, TypeOK
      <4>2. F(descs[d].frag) = D(d) /\ descs[d].frag \in FragIndex
        BY <1>3, <4>1 DEF IInv, TypeOK, LockstepInv
      <4> QED BY <1>3, <1>4, <1>7, <2>1, <2>2, <3>2, <4>1, <4>2 DEF IInv, TypeOK, FrameInv
    <3> QED BY <3>1, <3>2
  <2>3. ASSUME pc = "reap", NEW i \in PktIndex, P(i) < P(pktIndex)
        PROVE  pkts[i].ignore \/ (F(pkts[i].frag) < F(fragIndex) /\ wrote'[pkts[i].frag] = "good")
    <3>1. F(fragIndex) = D(descIndex) /\ D(descIndex) <= D(hwDone)
      BY <1>3, <2>3 DEF IInv, OrderInv, LockstepInv
    <3>2. pkts[i].frag \in FragIndex /\ F(pkts[i].frag) \in Nat /\ F(fragIndex) \in Nat
      BY FragRing DEF IInv, TypeOK, F
    <3> QED BY <1>3, <1>4, <2>1, <2>3, <3>1, <3>2 DEF IInv, TypeOK, FrameInv
  <2> QED BY <1>2, <1>3, <1>10, <2>2, <2>3 DEF IInv, FrameInv, D, F, P, netVars, ringVars, locals
<1> QED BY <1>8, <1>9, <1>11, <1>12, <1>13 DEF IInv

LEMMA HwStallKeeps ==
  ASSUME IInv, HwStall \/ UNCHANGED vars
  PROVE  IInv'
<1>1. UNCHANGED <<queue, pc, netVars, ringVars, descVars, locals, hwStart, hwNext, hwDone, hwTail, wrote>>
  BY DEF HwStall, vars, hwVars
<1> QED
  BY <1>1 DEF IInv, TypeOK, LifeInv, OrderInv, LockstepInv, FrameInv, Active, Drained, D, F, P, Filled,
    netVars, ringVars, descVars, locals

-----------------------------------------------------------------------------
(* RxQueueAdvance.                                                         *)

LEMMA BeginKeeps ==
  ASSUME IInv, AdvanceBegin
  PROVE  IInv'
<1>1. /\ Active /\ pc = "idle" /\ pc' = "reap" /\ descIndex' = descBegin /\ descNext' = hwNext
      /\ pktIndex' = pktBegin /\ fragIndex' = fragBegin
      /\ UNCHANGED <<queue, netVars, ringVars, descVars, hwVars>>
  BY DEF AdvanceBegin, Active
<1>2. /\ D(descBegin) = 0 /\ F(fragBegin) = 0 /\ P(pktBegin) = 0
      /\ D(hwDone) \in Nat /\ D(hwNext) \in Nat /\ P(pktEnd) \in Nat
      /\ \A i \in PktIndex : P(i) \in Nat
  BY DescRing, FragRing, PktRing DEF IInv, TypeOK, D, F, P
<1>3. TypeOK' /\ LifeInv'
  BY <1>1 DEF IInv, TypeOK, LifeInv, Active, netVars, ringVars, descVars, hwVars
<1>4. OrderInv' /\ LockstepInv'
  BY <1>1, <1>2 DEF IInv, OrderInv, LockstepInv, Active, Drained, D, F, Filled, netVars, ringVars, descVars, hwVars
<1>5. FrameInv'
  BY <1>1, <1>2 DEF IInv, FrameInv, D, F, P, netVars, ringVars, descVars, hwVars
<1> QED BY <1>3, <1>4, <1>5 DEF IInv

\* The descriptor that ReapDescriptor looks at has been written back.
LEMMA ReapPlace ==
  ASSUME IInv, pc = "reap", MoreReceived
  PROVE  /\ Active /\ ~Drained
         /\ D(descIndex) < D(hwDone) /\ D(descIndex) < D(descNext) /\ D(descIndex) < D(descEnd)
         /\ D(DescFwd(descIndex)) = D(descIndex) + 1 /\ D(descIndex) + 1 < DescCount
<1>1. Active
  BY DEF IInv, LifeInv
<1>2. \A x \in DescIndex : D(x) \in Nat /\ D(x) < DescCount
  BY DescRing DEF IInv, TypeOK, D
<1>3. /\ D(descIndex) \in Nat /\ D(hwDone) \in Nat /\ D(hwNext) \in Nat /\ D(descEnd) \in Nat
      /\ D(descNext) \in Nat /\ D(descEnd) < DescCount
  BY <1>2 DEF IInv, TypeOK
<1>4. /\ D(descIndex) <= D(hwDone) /\ D(descIndex) <= D(descNext) /\ D(descNext) <= D(hwNext)
      /\ D(hwDone) <= D(hwNext) /\ D(hwNext) <= D(descEnd)
  BY <1>1 DEF IInv, OrderInv
<1>5. D(descIndex) # D(descNext)
  BY DescRebase DEF MoreReceived, IInv, TypeOK, D
<1>6. D(descIndex) < D(descEnd) /\ D(descIndex) < D(descNext)
  BY <1>3, <1>4, <1>5
<1>7. D(descIndex) < D(hwDone)
  <2>1. ~(D(hwDone) <= D(descIndex) /\ D(descIndex) < D(Filled))
    BY <1>1 DEF MoreReceived, IInv, TypeOK, OrderInv
  <2> QED BY <1>3, <1>6, <2>1 DEF Filled
<1>8. ~Drained
  <2>1. CASE hwDone = hwNext /\ descBegin = hwNext
    BY <1>3, <1>7, <2>1, DescRing DEF IInv, TypeOK, D
  <2> QED BY <2>1 DEF Drained
<1>9. D(descIndex) + 1 < DescCount
  BY <1>3, <1>6, RxSizesAssumption
<1>10. D(DescFwd(descIndex)) = D(descIndex) + 1
  BY <1>9, DescRing DEF IInv, TypeOK, D
<1> QED BY <1>1, <1>6, <1>7, <1>8, <1>9, <1>10

LEMMA ReapDescriptorKeeps ==
  ASSUME IInv, ReapDescriptor
  PROVE  IInv'
<1>1. /\ pc = "reap" /\ MoreReceived
      /\ pkts' = [pkts EXCEPT ![pktIndex] =
                    [frag |-> fragIndex, ignore |-> @.ignore \/ ~descs[descIndex].good]]
      /\ pktIndex' = PktFwd(pktIndex) /\ fragIndex' = FragFwd(fragIndex) /\ descIndex' = DescFwd(descIndex)
      /\ UNCHANGED <<queue, pc, netVars, pktBegin, fragBegin, fragNext, descVars, descNext, hwVars>>
  BY DEF ReapDescriptor
<1>2. /\ Active /\ ~Drained
      /\ D(descIndex) < D(hwDone) /\ D(descIndex) < D(descNext) /\ D(descIndex) < D(descEnd)
      /\ D(DescFwd(descIndex)) = D(descIndex) + 1
  BY <1>1, ReapPlace
<1>3. /\ D(descIndex) \in Nat /\ D(hwDone) \in Nat /\ D(descNext) \in Nat /\ D(descEnd) \in Nat
      /\ P(pktIndex) \in Nat /\ P(pktEnd) \in Nat /\ P(pktEnd) < PktCount
      /\ F(fragIndex) \in Nat /\ F(fragNext) \in Nat /\ F(fragEnd) \in Nat /\ F(fragEnd) < FragCount
  BY DescRing, PktRing, FragRing DEF IInv, TypeOK, D, F, P
<1>4. /\ F(fragIndex) = D(descIndex) /\ F(fragNext) = D(descEnd) /\ F(fragNext) <= F(fragEnd)
      /\ F(descs[descIndex].frag) = D(descIndex)
  BY <1>1, <1>2 DEF IInv, TypeOK, LockstepInv, Filled
<1>5. FragFwd(fragIndex) \in FragIndex /\ F(FragFwd(fragIndex)) = F(fragIndex) + 1
  <2>1. F(fragIndex) + 1 < FragCount
    BY <1>2, <1>3, <1>4, RxSizesAssumption
  <2> QED BY <2>1, FragRing DEF IInv, TypeOK, F
<1>6. PktFwd(pktIndex) \in PktIndex /\ P(PktFwd(pktIndex)) = P(pktIndex) + 1 /\ P(pktIndex) < P(pktEnd)
  <2>1. P(pktIndex) # P(pktEnd)
    BY <1>1, PktRebase DEF MoreReceived, IInv, TypeOK, P
  <2>2. P(pktIndex) < P(pktEnd)
    BY <1>1, <1>2, <1>3, <2>1 DEF IInv, FrameInv
  <2>3. P(pktIndex) + 1 < PktCount
    BY <1>3, <2>2, RxSizesAssumption
  <2> QED BY <2>2, <2>3, PktRing DEF IInv, TypeOK, P
<1>7. DescFwd(descIndex) \in DescIndex
  BY DescRing DEF IInv, TypeOK
<1>8. TypeOK'
  <2>1. pkts' \in [PktIndex -> [frag : FragIndex, ignore : BOOLEAN]]
    BY <1>1 DEF IInv, TypeOK
  <2> QED BY <1>1, <1>5, <1>6, <1>7, <2>1 DEF IInv, TypeOK, netVars, descVars, hwVars
<1>9. LifeInv'
  BY <1>1 DEF IInv, LifeInv, Active, descVars, hwVars
<1>10. OrderInv'
  BY <1>1, <1>2, <1>3 DEF IInv, OrderInv, D, Filled, descVars, hwVars
<1>11. LockstepInv'
  BY <1>1, <1>2, <1>4, <1>5 DEF IInv, LockstepInv, D, F, Filled, netVars, descVars, hwVars
<1>12. FrameInv'
  <2>1. descs[descIndex].frag = fragIndex
    BY <1>4, FragRebase DEF IInv, TypeOK, F
  <2>2. ASSUME NEW i \in PktIndex, P(i) < P(pktIndex) + 1
        PROVE  \/ pkts'[i].ignore
               \/ F(pkts'[i].frag) < F(fragIndex) + 1 /\ wrote[pkts'[i].frag] = "good"
    <3>1. CASE i = pktIndex
      <4>1. pkts'[i].frag = fragIndex /\ (~pkts'[i].ignore => descs[descIndex].good)
        BY <1>1, <3>1 DEF IInv, TypeOK
      <4>2. descs[descIndex].good => wrote[fragIndex] = "good"
        BY <1>2, <2>1 DEF IInv, TypeOK, FrameInv
      <4> QED BY <1>3, <4>1, <4>2
    <3>2. CASE i # pktIndex
      <4>1. P(i) # P(pktIndex) /\ P(i) \in Nat
        BY <3>2, PktRebase, PktRing DEF IInv, TypeOK, P
      <4>2. P(i) < P(pktIndex)
        BY <1>3, <2>2, <4>1
      <4>3. pkts'[i] = pkts[i] /\ F(pkts[i].frag) \in Nat
        BY <1>1, <3>2, FragRing DEF IInv, TypeOK, F
      <4> QED BY <1>1, <1>2, <1>3, <4>2, <4>3 DEF IInv, FrameInv
    <3> QED BY <3>1, <3>2
  <2>3. P(pktIndex) + 1 <= P(pktEnd)
    BY <1>3, <1>6
  <2> QED
    BY <1>1, <1>2, <1>5, <1>6, <2>2, <2>3 DEF IInv, FrameInv, D, F, P, netVars, descVars, hwVars
<1> QED BY <1>8, <1>9, <1>10, <1>11, <1>12 DEF IInv

\* When descBegin has moved on to descIndex, and fragBegin with it, everything behind them
\* is nearer by as much.
LEMMA Moved ==
  ASSUME IInv, Active, pc = "reap", descBegin' = descIndex, fragBegin' = fragIndex
  PROVE  /\ \A x \in DescIndex :
               /\ D(x) \in Nat /\ D(x) < DescCount
               /\ D(descIndex) <= D(x) => DescDist(descIndex, x) = D(x) - D(descIndex)
               /\ D(descIndex) > D(x) => DescDist(descIndex, x) = D(x) - D(descIndex) + DescCount
         /\ \A x \in FragIndex :
               /\ F(x) \in Nat
               /\ F(fragIndex) <= F(x) => FragDist(fragIndex, x) = F(x) - F(fragIndex)
         /\ D(descIndex) <= D(hwDone) /\ D(descIndex) <= D(descNext) /\ D(descNext) <= D(hwNext)
         /\ D(hwDone) <= D(hwNext) /\ D(hwNext) <= D(descEnd)
<1>1. \A x \in DescIndex :
        /\ D(x) \in Nat /\ D(x) < DescCount
        /\ D(descIndex) <= D(x) => DescDist(descIndex, x) = D(x) - D(descIndex)
        /\ D(descIndex) > D(x) => DescDist(descIndex, x) = D(x) - D(descIndex) + DescCount
  BY DescRing, DescRebase DEF IInv, TypeOK, D
<1>2. \A x \in FragIndex :
        /\ F(x) \in Nat
        /\ F(fragIndex) <= F(x) => FragDist(fragIndex, x) = F(x) - F(fragIndex)
  BY FragRing, FragRebase DEF IInv, TypeOK, F
<1> QED BY <1>1, <1>2 DEF IInv, OrderInv

LEMMA ReapDoneKeeps ==
  ASSUME IInv, ReapDone
  PROVE  IInv'
<1>1. /\ pc = "reap" /\ running /\ pc' = "fill"
      /\ descBegin' = descIndex /\ pktBegin' = pktIndex /\ fragBegin' = fragIndex
      /\ fragIndex' = fragNext /\ descIndex' = descEnd
      /\ UNCHANGED <<queue, netVars, pkts, fragNext, running, descEnd, descs, descNext, pktIndex, hwVars>>
  BY DEF ReapDone
<1>2. Active /\ queue = "running" /\ ~Drained
  BY <1>1 DEF IInv, LifeInv, Active, Drained
<1>3. TypeOK' /\ LifeInv'
  BY <1>1, <1>2 DEF IInv, TypeOK, LifeInv, Active, netVars, hwVars
<1>4. /\ \A x \in DescIndex :
           /\ D(x) \in Nat /\ D(x) < DescCount
           /\ D(descIndex) <= D(x) => D(x)' = D(x) - D(descIndex)
           /\ D(descIndex) > D(x) => D(x)' = D(x) - D(descIndex) + DescCount
      /\ D(descIndex) <= D(hwDone) /\ D(descIndex) <= D(descNext) /\ D(descNext) <= D(hwNext)
      /\ D(hwDone) <= D(hwNext) /\ D(hwNext) <= D(descEnd)
  BY <1>1, <1>2, Moved DEF D
<1>5. /\ \A x \in FragIndex : /\ F(x) \in Nat
                               /\ F(fragIndex) <= F(x) => F(x)' = F(x) - F(fragIndex)
  BY <1>1, <1>2, Moved DEF F
<1>6. /\ D(hwDone)' = D(hwDone) - D(descIndex) /\ D(hwNext)' = D(hwNext) - D(descIndex)
      /\ D(descEnd)' = D(descEnd) - D(descIndex) /\ D(descNext)' = D(descNext) - D(descIndex)
      /\ D(descIndex)' = D(descEnd) - D(descIndex)
      /\ {D(hwDone), D(hwNext), D(descEnd), D(descNext), D(descIndex)} \subseteq Nat
      /\ D(descEnd) < DescCount
  <2>1. {hwDone, hwNext, descEnd, descNext, descIndex} \subseteq DescIndex
    BY DEF IInv, TypeOK
  <2>2. /\ D(hwDone)' = DescDist(descIndex, hwDone) /\ D(hwNext)' = DescDist(descIndex, hwNext)
        /\ D(descEnd)' = DescDist(descIndex, descEnd) /\ D(descNext)' = DescDist(descIndex, descNext)
        /\ D(descIndex)' = DescDist(descIndex, descEnd)
    BY <1>1 DEF D, hwVars
  <2>3. \A x \in DescIndex : D(x)' = DescDist(descIndex, x)
    BY <1>1 DEF D
  <2> QED BY <1>4, <2>1, <2>2, <2>3
\* Only what lies between descIndex and descEnd is as near now.
<1>7. ASSUME NEW x \in DescIndex, NEW y \in DescIndex, D(descIndex) <= D(y), D(y) <= D(descEnd),
             D(x)' < D(y) - D(descIndex)
      PROVE  D(descIndex) <= D(x) /\ D(x) < D(y) /\ D(x)' = D(x) - D(descIndex)
  BY <1>4, <1>6, <1>7, RxSizesAssumption DEF IInv, TypeOK
<1>8. /\ F(fragIndex) = D(descIndex) /\ F(fragNext) = D(descEnd) /\ F(fragNext) <= F(fragEnd)
      /\ \A d \in DescIndex : D(d) < D(descEnd) => F(descs[d].frag) = D(d)
  BY <1>1, <1>2 DEF IInv, LockstepInv, Filled
<1>9. OrderInv'
  <2>1. ASSUME NEW d \in DescIndex, D(hwDone)' <= D(d)', D(d)' < D(descEnd)'
        PROVE  descs[d].own
    <3>1. D(d)' = D(d) - D(descIndex) /\ D(d) < D(descEnd) /\ D(d) \in Nat
      BY <1>4, <1>6, <1>7, <2>1 DEF IInv, TypeOK
    <3>2. D(hwDone) <= D(d)
      BY <1>6, <2>1, <3>1
    <3> QED BY <1>1, <1>2, <3>1, <3>2 DEF IInv, OrderInv, Filled
  <2>2. D(hwDone)' <= D(hwNext)' /\ D(hwNext)' <= D(descEnd)' /\ D(descNext)' <= D(hwNext)'
        /\ D(descEnd)' <= D(descIndex)'
    BY <1>4, <1>6
  <2>3. hwTail' = descEnd'
    BY <1>1, <1>2 DEF IInv, OrderInv, hwVars
  <2>4. D(Filled)' = D(descEnd)'
    BY <1>1 DEF D, Filled
  <2>5. \A d \in DescIndex : D(hwDone)' <= D(d)' /\ D(d)' < D(descEnd)' => descs'[d].own
    BY <1>1, <2>1
  <2> QED BY <1>1, <2>2, <2>3, <2>4, <2>5 DEF OrderInv
<1>10. LockstepInv'
  <2>1. {fragNext, fragEnd, fragIndex} \subseteq FragIndex /\ {F(fragNext), F(fragEnd), F(fragIndex)} \subseteq Nat
    BY FragRing DEF IInv, TypeOK, F
  <2>2. F(fragNext)' = F(fragNext) - F(fragIndex) /\ F(fragEnd)' = F(fragEnd) - F(fragIndex)
        /\ F(fragIndex)' = F(fragNext) - F(fragIndex)
    <3>1. \A x \in FragIndex : F(x)' = FragDist(fragIndex, x)
      BY <1>1 DEF F
    <3>2. /\ F(fragNext)' = FragDist(fragIndex, fragNext) /\ F(fragEnd)' = FragDist(fragIndex, fragEnd)
          /\ F(fragIndex)' = FragDist(fragIndex, fragNext)
      BY <1>1 DEF F, netVars
    <3>3. F(fragIndex) <= F(fragNext) /\ F(fragIndex) <= F(fragEnd)
      BY <1>4, <1>6, <1>8, <2>1
    <3> QED BY <1>5, <2>1, <3>1, <3>2, <3>3
  <2>3. ASSUME NEW d \in DescIndex, D(d)' < D(descEnd)'
        PROVE  F(descs[d].frag)' = D(d)'
    <3>1. D(d)' = D(d) - D(descIndex) /\ D(d) < D(descEnd) /\ D(descIndex) <= D(d)
      BY <1>4, <1>6, <1>7, <2>3 DEF IInv, TypeOK
    <3>2. F(descs[d].frag) = D(d) /\ descs[d].frag \in FragIndex
      BY <1>8, <3>1 DEF IInv, TypeOK
    <3>3. F(fragIndex) <= F(descs[d].frag)
      BY <1>8, <3>1, <3>2
    <3>4. FragDist(fragIndex, descs[d].frag) = F(descs[d].frag) - F(fragIndex)
      BY <3>2, <3>3, FragRebase DEF IInv, TypeOK, F
    <3>5. FragDist(fragIndex, descs[d].frag) = D(d)'
      BY <1>8, <3>1, <3>2, <3>4
    <3> QED BY <1>1, <3>5 DEF F
  <2>4. \A d \in DescIndex : D(d)' < D(descEnd)' => F(descs[d].frag)' = D(d)'
    BY <2>3
  <2>5. D(Filled)' = D(descEnd)'
    BY <1>1 DEF D, Filled
  <2> QED BY <1>1, <1>6, <1>8, <2>1, <2>2, <2>4, <2>5 DEF LockstepInv
<1>11. FrameInv'
  <2>1. ASSUME NEW d \in DescIndex, D(d)' < D(hwDone)', descs[d].good
        PROVE  wrote[descs[d].frag] = "good"
    <3>1. D(d) < D(hwDone)
      BY <1>4, <1>6, <1>7, <2>1 DEF IInv, TypeOK
    <3> QED BY <1>2, <2>1, <3>1 DEF IInv, FrameInv
  <2>2. \A d \in DescIndex : D(d)' < D(hwDone)' => (descs'[d].good => wrote'[descs'[d].frag] = "good")
    BY <1>1, <2>1 DEF hwVars
  <2> QED BY <1>1, <2>2 DEF FrameInv
<1> QED BY <1>3, <1>9, <1>10, <1>11 DEF IInv

LEMMA ReapCancelledKeeps ==
  ASSUME IInv, ReapCancelled
  PROVE  IInv'
<1>1. /\ pc = "reap" /\ ~running /\ pc' = "idle" /\ descBegin' = descIndex
      /\ IF descIndex = descNext
           THEN /\ pktBegin' = pktEnd /\ fragBegin' = fragEnd
                /\ pkts' = [i \in PktIndex |->
                              IF PktDist(pktIndex, i) < PktDist(pktIndex, pktEnd)
                                THEN [pkts[i] EXCEPT !.ignore = TRUE] ELSE pkts[i]]
           ELSE pktBegin' = pktIndex /\ fragBegin' = fragIndex /\ pkts' = pkts
      /\ descIndex' = 0 /\ descNext' = 0 /\ pktIndex' = 0 /\ fragIndex' = 0
      /\ UNCHANGED <<queue, netVars, fragNext, running, descEnd, descs, hwVars>>
  BY DEF ReapCancelled
<1>2. Active /\ queue = "cancelled" /\ descNext = hwNext
  BY <1>1 DEF IInv, LifeInv, Active
<1>3. TypeOK' /\ LifeInv'
  <2>1. 0 \in DescIndex /\ 0 \in PktIndex /\ 0 \in FragIndex
    BY RxSizesAssumption DEF DescIndex, PktIndex, FragIndex
  <2>2. pkts' \in [PktIndex -> [frag : FragIndex, ignore : BOOLEAN]]
    <3>1. \A i \in PktIndex : /\ pkts[i] \in [frag : FragIndex, ignore : BOOLEAN]
                              /\ [pkts[i] EXCEPT !.ignore = TRUE] \in [frag : FragIndex, ignore : BOOLEAN]
      BY DEF IInv, TypeOK
    <3>2. CASE descIndex = descNext
      BY <1>1, <3>1, <3>2, Zenon
    <3>3. CASE descIndex # descNext
      BY <1>1, <3>3 DEF IInv, TypeOK
    <3> QED BY <3>2, <3>3
  <2>3. pktBegin' \in PktIndex /\ fragBegin' \in FragIndex
    BY <1>1 DEF IInv, TypeOK
  <2> QED BY <1>1, <1>2, <2>1, <2>2, <2>3 DEF IInv, TypeOK, LifeInv, Active, netVars, hwVars
<1>4. /\ \A x \in DescIndex :
           /\ D(x) \in Nat /\ D(x) < DescCount
           /\ D(descIndex) <= D(x) => D(x)' = D(x) - D(descIndex)
           /\ D(descIndex) > D(x) => D(x)' = D(x) - D(descIndex) + DescCount
      /\ D(descIndex) <= D(hwDone) /\ D(hwDone) <= D(hwNext) /\ D(hwNext) <= D(descEnd)
  <2>1. \A x \in DescIndex : D(x)' = DescDist(descIndex, x)
    BY <1>1 DEF D
  <2>2. \A x \in DescIndex :
          /\ D(x) \in Nat /\ D(x) < DescCount
          /\ D(descIndex) <= D(x) => DescDist(descIndex, x) = D(x) - D(descIndex)
          /\ D(descIndex) > D(x) => DescDist(descIndex, x) = D(x) - D(descIndex) + DescCount
    BY DescRing, DescRebase DEF IInv, TypeOK, D
  <2>3. D(descIndex) <= D(hwDone) /\ D(hwDone) <= D(hwNext) /\ D(hwNext) <= D(descEnd)
    BY <1>1, <1>2 DEF IInv, OrderInv
  <2> QED BY <2>1, <2>2, <2>3
<1>5. /\ D(hwDone)' = D(hwDone) - D(descIndex) /\ D(hwNext)' = D(hwNext) - D(descIndex)
      /\ D(descEnd)' = D(descEnd) - D(descIndex)
      /\ {D(hwDone), D(hwNext), D(descEnd), D(descIndex)} \subseteq Nat
      /\ D(descEnd) < DescCount
  <2>1. {hwDone, hwNext, descEnd, descIndex} \subseteq DescIndex
    BY DEF IInv, TypeOK
  <2>2. /\ D(hwDone)' = DescDist(descIndex, hwDone) /\ D(hwNext)' = DescDist(descIndex, hwNext)
        /\ D(descEnd)' = DescDist(descIndex, descEnd)
    BY <1>1 DEF D, hwVars
  <2>3. \A x \in DescIndex : D(x)' = DescDist(descIndex, x)
    BY <1>1 DEF D
  <2> QED BY <1>4, <2>1, <2>2, <2>3
<1>6. ASSUME NEW x \in DescIndex, NEW y \in DescIndex, D(descIndex) <= D(y), D(y) <= D(descEnd),
             D(x)' < D(y) - D(descIndex)
      PROVE  D(descIndex) <= D(x) /\ D(x) < D(y) /\ D(x)' = D(x) - D(descIndex)
  BY <1>4, <1>5, <1>6, RxSizesAssumption DEF IInv, TypeOK
<1>7. OrderInv'
  <2>1. ASSUME NEW d \in DescIndex, D(hwDone)' <= D(d)', D(d)' < D(descEnd)'
        PROVE  descs[d].own
    <3>1. D(d)' = D(d) - D(descIndex) /\ D(d) < D(descEnd) /\ D(d) \in Nat
      BY <1>4, <1>5, <1>6, <2>1 DEF IInv, TypeOK
    <3>2. D(hwDone) <= D(d)
      BY <1>5, <2>1, <3>1
    <3> QED BY <1>1, <1>2, <3>1, <3>2 DEF IInv, OrderInv, Filled
  <2>2. D(hwDone)' <= D(hwNext)' /\ D(hwNext)' <= D(descEnd)'
    BY <1>4, <1>5
  <2>3. hwTail' = descEnd'
    BY <1>1, <1>2 DEF IInv, OrderInv, hwVars
  <2>4. D(Filled)' = D(descEnd)'
    BY <1>1 DEF D, Filled
  <2>5. \A d \in DescIndex : D(hwDone)' <= D(d)' /\ D(d)' < D(descEnd)' => descs'[d].own
    BY <1>1, <2>1
  <2> QED BY <1>1, <2>2, <2>3, <2>4, <2>5 DEF OrderInv
<1>8. LockstepInv'
  <2>1. CASE descIndex = descNext
    <3>1. D(hwDone) = D(hwNext)
      BY <1>2, <1>4, <1>5, <2>1
    <3>2. hwDone = hwNext
      BY <3>1, DescRebase DEF IInv, TypeOK, D
    <3>3. Drained'
      BY <1>1, <1>2, <2>1, <3>2 DEF Drained, netVars, hwVars
    <3> QED BY <3>3 DEF LockstepInv
  <2>2. CASE descIndex # descNext
    <3>1. fragBegin' = fragIndex /\ ~Drained
      <4>1. CASE Drained
        <5>1. D(descIndex) = 0
          BY <1>4, <1>5, <4>1, DescRing DEF Drained, IInv, TypeOK, D
        <5>2. descIndex = descBegin
          BY <5>1, DescRing DEF IInv, TypeOK, D
        <5> QED BY <1>2, <2>2, <4>1, <5>2 DEF Drained
      <4> QED BY <1>1, <2>2, <4>1
    <3>2. /\ F(fragIndex) = D(descIndex) /\ F(fragNext) = D(descEnd) /\ F(fragNext) <= F(fragEnd)
          /\ \A d \in DescIndex : D(d) < D(descEnd) => F(descs[d].frag) = D(d)
      BY <1>1, <1>2, <3>1 DEF IInv, LockstepInv, Filled
    <3>3. {F(fragNext), F(fragEnd), F(fragIndex)} \subseteq Nat
      BY FragRing DEF IInv, TypeOK, F
    <3>4. F(fragNext)' = F(fragNext) - F(fragIndex) /\ F(fragEnd)' = F(fragEnd) - F(fragIndex)
      <4>1. F(fragIndex) <= F(fragNext) /\ F(fragIndex) <= F(fragEnd)
        BY <1>4, <1>5, <3>2, <3>3
      <4>2. /\ FragDist(fragIndex, fragNext) = F(fragNext) - F(fragIndex)
            /\ FragDist(fragIndex, fragEnd) = F(fragEnd) - F(fragIndex)
        BY <4>1, FragRebase DEF IInv, TypeOK, F
      <4> QED BY <1>1, <3>1, <4>2 DEF F, netVars
    <3>5. ASSUME NEW d \in DescIndex, D(d)' < D(descEnd)'
          PROVE  F(descs[d].frag)' = D(d)'
      <4>1. D(d)' = D(d) - D(descIndex) /\ D(d) < D(descEnd) /\ D(descIndex) <= D(d)
        BY <1>4, <1>5, <1>6, <3>5 DEF IInv, TypeOK
      <4>2. F(descs[d].frag) = D(d) /\ descs[d].frag \in FragIndex
        BY <3>2, <4>1 DEF IInv, TypeOK
      <4>3. F(fragIndex) <= F(descs[d].frag)
        BY <3>2, <4>1, <4>2
      <4>4. FragDist(fragIndex, descs[d].frag) = F(descs[d].frag) - F(fragIndex)
        BY <4>2, <4>3, FragRebase DEF IInv, TypeOK, F
      <4>5. FragDist(fragIndex, descs[d].frag) = D(d)'
        BY <3>2, <4>1, <4>2, <4>4
      <4> QED BY <1>1, <3>1, <4>5 DEF F
    <3>6. \A d \in DescIndex : D(d)' < D(descEnd)' => F(descs[d].frag)' = D(d)'
      BY <3>5
    <3>7. D(Filled)' = D(descEnd)'
      BY <1>1 DEF D, Filled
    <3> QED BY <1>1, <1>5, <3>2, <3>3, <3>4, <3>6, <3>7 DEF LockstepInv
  <2> QED BY <2>1, <2>2
<1>9. FrameInv'
  <2>1. ASSUME NEW d \in DescIndex, D(d)' < D(hwDone)', descs[d].good
        PROVE  wrote[descs[d].frag] = "good"
    <3>1. D(d) < D(hwDone)
      BY <1>4, <1>5, <1>6, <2>1 DEF IInv, TypeOK
    <3> QED BY <1>2, <2>1, <3>1 DEF IInv, FrameInv
  <2>2. \A d \in DescIndex : D(d)' < D(hwDone)' => (descs'[d].good => wrote'[descs'[d].frag] = "good")
    BY <1>1, <2>1 DEF hwVars
  <2> QED BY <1>1, <2>2 DEF FrameInv
<1> QED BY <1>3, <1>7, <1>8, <1>9 DEF IInv

LEMMA FillKeeps ==
  ASSUME IInv, FillDescriptor
  PROVE  IInv'
<1>1. /\ pc = "fill" /\ descIndex # DescFull /\ fragIndex # fragEnd
      /\ descs' = [descs EXCEPT ![descIndex] = [own |-> TRUE, frag |-> fragIndex, good |-> FALSE]]
      /\ descIndex' = DescFwd(descIndex) /\ fragIndex' = FragFwd(fragIndex)
      /\ UNCHANGED <<queue, pc, netVars, ringVars, running, descBegin, descEnd, descNext, pktIndex, hwVars>>
  BY DEF FillDescriptor
<1>2. Active /\ queue = "running" /\ ~Drained
  BY <1>1 DEF IInv, LifeInv, Active, Drained
<1>3. /\ D(descEnd) <= D(descIndex) /\ D(hwDone) <= D(hwNext) /\ D(hwNext) <= D(descEnd)
      /\ F(fragIndex) = D(descIndex) /\ F(fragIndex) <= F(fragEnd)
  BY <1>1, <1>2 DEF IInv, OrderInv, LockstepInv
<1>4. /\ {D(descEnd), D(descIndex), D(hwDone), D(hwNext), F(fragIndex), F(fragEnd)} \subseteq Nat
      /\ \A d \in DescIndex : D(d) \in Nat
      /\ F(fragEnd) < FragCount
  BY DescRing, FragRing DEF IInv, TypeOK, D, F
<1>5. DescFwd(descIndex) \in DescIndex /\ D(DescFwd(descIndex)) = D(descIndex) + 1
  BY <1>1, DescRing DEF DescFull, IInv, TypeOK, D
<1>6. FragFwd(fragIndex) \in FragIndex /\ F(FragFwd(fragIndex)) = F(fragIndex) + 1 /\ F(fragIndex) < F(fragEnd)
  <2>1. F(fragIndex) # F(fragEnd)
    BY <1>1, FragRebase DEF IInv, TypeOK, F
  <2>2. F(fragIndex) + 1 < FragCount /\ F(fragIndex) < F(fragEnd)
    BY <1>3, <1>4, <2>1, RxSizesAssumption
  <2> QED BY <2>2, FragRing DEF IInv, TypeOK, F
<1>7. \A d \in DescIndex : d # descIndex => descs'[d] = descs[d]
  BY <1>1 DEF IInv, TypeOK
<1>8. descs'[descIndex] = [own |-> TRUE, frag |-> fragIndex, good |-> FALSE]
  BY <1>1 DEF IInv, TypeOK
<1>9. \A d \in DescIndex : D(d) < D(descIndex) + 1 /\ d # descIndex => D(d) < D(descIndex)
  <2> SUFFICES ASSUME NEW d \in DescIndex, D(d) < D(descIndex) + 1, d # descIndex
               PROVE  D(d) < D(descIndex)
    OBVIOUS
  <2>1. D(d) # D(descIndex)
    BY DescRebase DEF IInv, TypeOK, D
  <2> QED BY <1>4, <2>1
<1>10. TypeOK' /\ LifeInv'
  <2>1. descs' \in [DescIndex -> [own : BOOLEAN, frag : FragIndex, good : BOOLEAN]]
    BY <1>1 DEF IInv, TypeOK
  <2> QED BY <1>1, <1>2, <1>5, <1>6, <2>1 DEF IInv, TypeOK, LifeInv, Active, netVars, ringVars, hwVars
<1>11. /\ \A d \in DescIndex : D(d)' = D(d)
       /\ D(hwDone)' = D(hwDone) /\ D(hwNext)' = D(hwNext) /\ D(descEnd)' = D(descEnd)
       /\ D(descNext)' = D(descNext) /\ D(descIndex)' = D(descIndex) + 1 /\ D(Filled)' = D(descIndex) + 1
       /\ D(Filled) = D(descIndex)
  BY <1>1, <1>5 DEF D, Filled, hwVars
<1>12. OrderInv'
  <2>1. \A d \in DescIndex : D(hwDone) <= D(d) /\ D(d) < D(descIndex) + 1 => descs'[d].own
    BY <1>2, <1>7, <1>8, <1>9, <1>11 DEF IInv, OrderInv
  <2>2. D(descNext) <= D(hwNext) /\ hwTail' = descEnd'
    BY <1>1, <1>2 DEF IInv, OrderInv, hwVars
  <2> QED BY <1>1, <1>3, <1>4, <1>11, <2>1, <2>2 DEF OrderInv
<1>13. LockstepInv'
  <2>1. \A d \in DescIndex : D(d) < D(descIndex) + 1 => F(descs'[d].frag) = D(d)
    BY <1>2, <1>3, <1>7, <1>8, <1>9, <1>11 DEF IInv, LockstepInv
  <2>2. \A d \in DescIndex : D(d)' < D(Filled)' => F(descs[d].frag)' = D(d)'
    BY <1>1, <1>11, <2>1 DEF F, ringVars
  <2>3. /\ F(fragNext)' = F(fragNext) /\ F(fragEnd)' = F(fragEnd) /\ F(fragIndex)' = F(fragIndex) + 1
    BY <1>1, <1>6 DEF F, ringVars, netVars
  <2>4. F(fragNext) = D(descEnd) /\ F(fragNext) <= F(fragEnd)
    BY <1>2 DEF IInv, LockstepInv
  <2> QED BY <1>1, <1>3, <1>4, <1>6, <1>11, <2>2, <2>3, <2>4 DEF LockstepInv
<1>14. FrameInv'
  <2>1. ASSUME NEW d \in DescIndex, D(d) < D(hwDone)
        PROVE  descs'[d] = descs[d]
    BY <1>3, <1>4, <1>7, <2>1
  <2>2. \A d \in DescIndex : D(d)' < D(hwDone)' => (descs'[d].good => wrote'[descs'[d].frag] = "good")
    BY <1>1, <1>2, <1>11, <2>1 DEF IInv, FrameInv, hwVars
  <2> QED BY <1>1, <2>2 DEF FrameInv
<1> QED BY <1>10, <1>12, <1>13, <1>14 DEF IInv

LEMMA CommitKeeps ==
  ASSUME IInv, AdvanceCommit
  PROVE  IInv'
<1>1. /\ pc = "fill" /\ pc' = "idle"
      /\ IF TailWriteNeeded
           THEN descEnd' = descIndex /\ hwTail' = descIndex /\ fragNext' = fragIndex
           ELSE UNCHANGED <<descEnd, hwTail, fragNext>>
      /\ descIndex' = 0 /\ descNext' = 0 /\ pktIndex' = 0 /\ fragIndex' = 0
      /\ UNCHANGED <<queue, netVars, pktBegin, pkts, fragBegin, running, descBegin, descs,
                     hwStart, hwNext, hwDone, wrote>>
  BY DEF AdvanceCommit
<1>2. Active /\ queue = "running" /\ ~Drained
  BY <1>1 DEF IInv, LifeInv, Active, Drained
<1>3. TypeOK' /\ LifeInv'
  <2>1. 0 \in DescIndex /\ 0 \in PktIndex /\ 0 \in FragIndex
    BY RxSizesAssumption DEF DescIndex, PktIndex, FragIndex
  <2> QED BY <1>1, <1>2, <2>1 DEF IInv, TypeOK, LifeInv, Active, netVars
<1>4. /\ D(descEnd) <= D(descIndex) /\ D(hwNext) <= D(descEnd) /\ D(descNext) <= D(hwNext)
      /\ F(fragIndex) = D(descIndex) /\ F(fragIndex) <= F(fragEnd)
      /\ {D(descEnd), D(descIndex), D(hwNext), D(descNext)} \subseteq Nat
      /\ hwTail = descEnd
  <2>1. {D(descEnd), D(descIndex), D(hwNext), D(descNext)} \subseteq Nat
    BY DescRing DEF IInv, TypeOK, D
  <2> QED BY <1>1, <1>2, <2>1 DEF IInv, OrderInv, LockstepInv
\* Without the write nothing has been filled.
<1>5. descEnd' = descIndex /\ hwTail' = descIndex
  <2>1. CASE TailWriteNeeded
    BY <1>1, <2>1
  <2>2. CASE ~TailWriteNeeded
    <3>1. D(descEnd) = D(descIndex)
      BY <1>4, <2>2 DEF TailWriteNeeded
    <3>2. descEnd = descIndex
      BY <3>1, DescRebase DEF IInv, TypeOK, D
    <3> QED BY <1>1, <1>4, <2>2, <3>2
  <2> QED BY <2>1, <2>2
<1>6. F(fragNext)' = F(fragIndex)
  <2>1. CASE TailWriteNeeded
    BY <1>1, <2>1 DEF F
  <2>2. CASE ~TailWriteNeeded
    <3>1. D(descEnd) = D(descIndex)
      BY <1>4, <2>2 DEF TailWriteNeeded
    <3>2. F(fragNext) = F(fragIndex)
      BY <1>2, <1>4, <3>1 DEF IInv, LockstepInv
    <3> QED BY <1>1, <2>2, <3>2 DEF F
  <2> QED BY <2>1, <2>2
<1>7. /\ \A d \in DescIndex : D(d)' = D(d)
      /\ D(hwDone)' = D(hwDone) /\ D(hwNext)' = D(hwNext) /\ D(descEnd)' = D(descIndex)
      /\ D(Filled)' = D(descIndex) /\ D(Filled) = D(descIndex)
  BY <1>1, <1>5 DEF D, Filled
<1>8. OrderInv'
  BY <1>1, <1>2, <1>4, <1>5, <1>7 DEF IInv, OrderInv
<1>9. LockstepInv'
  <2>1. F(fragEnd)' = F(fragEnd) /\ (\A d \in DescIndex : F(descs[d].frag)' = F(descs[d].frag))
    BY <1>1 DEF F, netVars
  <2> QED BY <1>1, <1>2, <1>4, <1>6, <1>7, <2>1 DEF IInv, LockstepInv
<1>10. FrameInv'
  BY <1>1, <1>2, <1>7 DEF IInv, FrameInv
<1> QED BY <1>3, <1>8, <1>9, <1>10 DEF IInv

-----------------------------------------------------------------------------
LEMMA NextKeeps ==
  ASSUME IInv, [Next]_vars
  PROVE  IInv'
  BY LifecycleKeeps, CancelKeeps, PostPacketKeeps, PostFragmentKeeps, HwTakeKeeps, HwWriteBackKeeps,
    HwStallKeeps, BeginKeeps, ReapDescriptorKeeps, ReapDoneKeeps, ReapCancelledKeeps, FillKeeps, CommitKeeps
  DEF Next, RxQueueAdvance

LEMMA Inductive == Spec => []IInv
  BY InitHolds, NextKeeps, PTL DEF Spec

\* What the device may still write through lies between hwDone and descEnd.
LEMMA DeviceOwnedPlace ==
  ASSUME IInv, NEW d \in DeviceOwned
  PROVE  /\ Active /\ ~Drained /\ d \in DescIndex
         /\ D(hwDone) <= D(d) /\ D(d) < D(descEnd)
<1> DEFINE end == IF hwStart THEN hwTail ELSE hwNext
<1>1. d \in DescIndex /\ DescDist(hwDone, d) < DescDist(hwDone, end)
  BY DEF DeviceOwned, DescsBetween
<1>2. end # hwDone
  <2>1. CASE end = hwDone
    BY <1>1, <2>1, DescRing DEF IInv, TypeOK
  <2> QED BY <2>1
<1>3. Active /\ ~Drained
  BY <1>2 DEF IInv, LifeInv, Drained, Active
<1>4. /\ D(hwDone) <= D(end) /\ D(end) <= D(descEnd) /\ end \in DescIndex
  <2>1. {D(hwDone), D(hwNext), D(descEnd)} \subseteq Nat
    BY DescRing DEF IInv, TypeOK, D
  <2>2. D(hwDone) <= D(hwNext) /\ D(hwNext) <= D(descEnd) /\ hwTail = descEnd
    BY <1>3 DEF IInv, OrderInv
  <2>3. CASE end = hwTail
    BY <2>1, <2>2, <2>3 DEF IInv, TypeOK
  <2>4. CASE end = hwNext
    BY <2>1, <2>2, <2>4 DEF IInv, TypeOK
  <2> QED BY <2>3, <2>4
<1> HIDE DEF end
<1>5. /\ {D(hwDone), D(end), D(d), D(descEnd)} \subseteq Nat
      /\ D(d) < DescCount /\ D(end) < DescCount /\ D(hwDone) < DescCount
  BY <1>1, <1>4, DescRing DEF IInv, TypeOK, D
<1>6. /\ DescDist(hwDone, end) = D(end) - D(hwDone)
      /\ D(hwDone) <= D(d) => DescDist(hwDone, d) = D(d) - D(hwDone)
      /\ D(hwDone) > D(d) => DescDist(hwDone, d) = D(d) - D(hwDone) + DescCount
  BY <1>1, <1>4, DescRebase DEF IInv, TypeOK, D
<1> QED BY <1>1, <1>3, <1>4, <1>5, <1>6, RxSizesAssumption

\* What the device may write to has not been returned, and nothing of it is there twice.
LEMMA KeepsBuffers == ASSUME IInv PROVE NoBufferReturnedWhileInUse
<1>1. ASSUME NEW d \in DeviceOwned
      PROVE  /\ descs[d].own /\ F(descs[d].frag) = D(d) /\ d \in DescIndex
             /\ descs[d].frag \in FragsBetween(fragBegin, fragEnd)
  <2>1. /\ Active /\ ~Drained /\ d \in DescIndex
        /\ D(hwDone) <= D(d) /\ D(d) < D(descEnd)
    BY DeviceOwnedPlace
  <2>2. D(d) < D(Filled)
    <3>1. {D(d), D(descEnd), D(Filled)} \subseteq Nat
      BY <2>1, DescRing DEF IInv, TypeOK, D, Filled
    <3>2. D(descEnd) <= D(Filled)
      BY <2>1, <3>1 DEF IInv, OrderInv, Filled
    <3> QED BY <2>1, <3>1, <3>2
  <2>3. descs[d].own /\ F(descs[d].frag) = D(d) /\ descs[d].frag \in FragIndex
    BY <2>1, <2>2 DEF IInv, TypeOK, OrderInv, LockstepInv
  <2>4. D(descEnd) = F(fragNext) /\ F(fragNext) <= F(fragEnd)
    BY <2>1 DEF IInv, LockstepInv
  <2>5. {D(d), F(fragNext), F(fragEnd)} \subseteq Nat
    BY <2>1, DescRing, FragRing DEF IInv, TypeOK, D, F
  <2>6. F(descs[d].frag) < F(fragEnd)
    BY <2>1, <2>3, <2>4, <2>5
  <2> QED BY <2>1, <2>3, <2>6 DEF FragsBetween, F
<1>2. Cardinality({descs[d].frag : d \in DeviceOwned}) = Cardinality(DeviceOwned)
  <2> DEFINE B == {descs[d].frag : d \in DeviceOwned}
             f == [d \in DeviceOwned |-> descs[d].frag]
  <2>1. IsFiniteSet(DeviceOwned)
    <3>1. DeviceOwned \subseteq DescIndex
      BY DEF DeviceOwned, DescsBetween
    <3>2. IsFiniteSet(DescIndex)
      BY FS_Interval, RxSizesAssumption DEF DescIndex
    <3> QED BY <3>1, <3>2, FS_Subset
  <2>2. \A d, e \in DeviceOwned : descs[d].frag = descs[e].frag => d = e
    <3> SUFFICES ASSUME NEW d \in DeviceOwned, NEW e \in DeviceOwned, descs[d].frag = descs[e].frag
                 PROVE  d = e
      OBVIOUS
    <3>1. D(d) = D(e) /\ d \in DescIndex /\ e \in DescIndex
      BY <1>1
    <3> QED BY <3>1, DescRebase DEF IInv, TypeOK, D
  <2>3. f \in Bijection(DeviceOwned, B)
    <3>1. f \in [DeviceOwned -> B]
      OBVIOUS
    <3>2. \A d, e \in DeviceOwned : f[d] = f[e] => d = e
      BY <2>2
    <3>3. \A b \in B : \E d \in DeviceOwned : f[d] = b
      OBVIOUS
    <3> HIDE DEF f, B
    <3> QED BY <3>1, <3>2, <3>3, Fun_IsBij
  <2> HIDE DEF f
  <2>4. ExistsBijection(DeviceOwned, B)
    BY <2>3 DEF ExistsBijection
  <2> QED BY <2>1, <2>4, FS_Bijection
<1> QED BY <1>1, <1>2 DEF NoBufferReturnedWhileInUse

\* Neither before the device is done with it nor after RxQueueCancel does RxQueueAdvance
\* return a buffer that the device may write to, and no two descriptors share one:
\* NoBufferReturnedWhileInUse holds for every size of the rings, whether or not NetAdapterCx
\* posts a packet for every fragment.
THEOREM KeepsBuffersInUse == Spec => []NoBufferReturnedWhileInUse
<1>1. IInv => NoBufferReturnedWhileInUse
  BY KeepsBuffers
<1> QED BY <1>1, Inductive, PTL

\* What a step of RxQueueAdvance returns without Ignore holds a good frame.
LEMMA FramesGood ==
  ASSUME IInv, [Next]_vars
  PROVE  [GoodFrames]_vars
<1> SUFFICES ASSUME Next, NEW i \in PktIndex, queue' = queue,
                    PktDist(pktBegin, i) < PktDist(pktBegin, pktBegin')
             PROVE  pkts'[i].ignore \/ wrote[pkts'[i].frag] = "good"
  BY DEF GoodFrames
<1>1. pktBegin' # pktBegin
  <2>1. PktDist(pktBegin, pktBegin) = 0 /\ P(i) \in Nat
    BY PktRing DEF IInv, TypeOK, P
  <2> QED BY <2>1 DEF P
<1>2. ReapDone \/ ReapCancelled
  BY <1>1 DEF Next, RxQueueCreate, RxQueueStart, RxQueueCancel, RxQueueStop, RxQueueCleanup, NetPostPacket,
    NetPostFragment, RxQueueAdvance, AdvanceBegin, ReapDescriptor, FillDescriptor, AdvanceCommit, HwTake,
    HwWriteBack, HwStall, ringVars
<1>3. pc = "reap" /\ Active
  BY <1>2 DEF ReapDone, ReapCancelled, IInv, LifeInv
<1>4. P(i) < P(pktIndex) => pkts[i].ignore \/ wrote[pkts[i].frag] = "good"
  BY <1>3 DEF IInv, FrameInv
<1>5. CASE pktBegin' = pktIndex /\ pkts' = pkts
  BY <1>4, <1>5 DEF P
<1>6. CASE /\ pktBegin' = pktEnd
           /\ pkts' = [j \in PktIndex |->
                         IF PktDist(pktIndex, j) < PktDist(pktIndex, pktEnd)
                           THEN [pkts[j] EXCEPT !.ignore = TRUE] ELSE pkts[j]]
  <2>1. pkts[i] \in [frag : FragIndex, ignore : BOOLEAN]
    BY DEF IInv, TypeOK
  <2>2. CASE PktDist(pktIndex, i) < PktDist(pktIndex, pktEnd)
    BY <1>6, <2>1, <2>2
  <2>3. CASE ~(PktDist(pktIndex, i) < PktDist(pktIndex, pktEnd))
    <3>1. {P(i), P(pktIndex), P(pktEnd)} \subseteq Nat /\ P(pktIndex) <= P(pktEnd) /\ P(i) < P(pktEnd)
      BY <1>3, <1>6, PktRing DEF IInv, TypeOK, FrameInv, P
    <3>2. /\ P(pktIndex) <= P(i) => PktDist(pktIndex, i) = P(i) - P(pktIndex)
          /\ PktDist(pktIndex, pktEnd) = P(pktEnd) - P(pktIndex)
      BY <3>1, PktRebase DEF IInv, TypeOK, P
    <3>3. P(i) < P(pktIndex)
      BY <2>3, <3>1, <3>2
    <3> QED BY <1>4, <1>6, <2>3, <3>3
  <2> QED BY <2>2, <2>3
<1> QED BY <1>2, <1>5, <1>6 DEF ReapDone, ReapCancelled

\* A packet that RxQueueAdvance returns is one to be ignored, or describes a buffer that the
\* device has filled with a good frame: OnlyGoodFrames holds for every size of the rings.
THEOREM ReturnsGoodFrames == Spec => OnlyGoodFrames
<1>1. IInv /\ [Next]_vars => [GoodFrames]_vars
  BY FramesGood
<1> QED BY <1>1, Inductive, PTL DEF Spec, OnlyGoodFrames

-----------------------------------------------------------------------------
(* The queue as one of the two of MCEqosRings.                             *)

LEMMA RingsInductive == MCSpec => [](part = "rx" => IInv)
<1>1. MCInit => (part = "rx" => IInv)
  BY InitHolds DEF MCInit
<1>2. (part = "rx" => IInv) /\ [MCNext]_<<part, allVars>> => (part = "rx" => IInv)'
  BY NextKeeps DEF MCNext, allVars
<1> QED BY <1>1, <1>2, PTL DEF MCSpec

\* While there is the receive queue, whatever the sizes of the rings of either queue,
\* RxQueueAdvance returns no buffer the device may still write to, nor gives it one twice.
THEOREM RingsKeepBuffersInUse == MCSpec => []RxKeepsBuffersInUse
<1>1. IInv => NoBufferReturnedWhileInUse
  BY KeepsBuffers
<1> QED BY <1>1, RingsInductive, PTL DEF RxKeepsBuffersInUse

\* The same for what it returns: a packet without Ignore describes a good frame.
THEOREM RingsReturnGoodFrames == MCSpec => RxOnlyGoodFrames
<1>1. (part = "rx" => IInv) /\ [MCNext]_<<part, allVars>> => [part = "rx" => GoodFrames]_vars
  BY FramesGood DEF MCNext, allVars
<1> QED BY <1>1, RingsInductive, PTL DEF MCSpec, RxOnlyGoodFrames
=============================================================================

-------------------------- MODULE EqosTxSetupProofs --------------------------
(***************************************************************************)
(* Proofs about the transmit queue, for every size of the rings and every  *)
(* set of packets that the driver's assertions admit; and about what       *)
(* surrounds the queues, part by part: the adapter for any number of       *)
(* address registers, any filters, jumbo packet sizes and FIFOs; the       *)
(* counters for any devices and counter sets; the evaluation of ACPI       *)
(* methods for methods of any length and form.  The variables are those of *)
(* the parts; S is EqosSetup.                                              *)
(***************************************************************************)
EXTENDS MCEqosTxSetup, RecursionLemmas, SequenceTheorems, WellFoundedInduction, TLAPS

-----------------------------------------------------------------------------
(* Ring arithmetic.                                                        *)

\* Every non-empty set of natural numbers has a least element, which is the
\* one that Min denotes.
LEMMA MinOfNaturals ==
  ASSUME NEW E, E \subseteq Nat, E # {}
  PROVE  Min(E) \in E /\ \A y \in E : Min(E) <= y
<1> DEFINE R == {ss \in Nat \X Nat : ss[1] < ss[2]}
<1>1. IsWellFoundedOn(R, Nat)
  BY NatLessThanWellFounded, Zenon DEF OpToRel
<1>2. PICK x \in E : \A y \in E : ~ (<<y, x>> \in R)
  <2> HIDE DEF R
  <2> QED BY <1>1, WFMin
<1>3. ASSUME NEW y \in E
      PROVE  x <= y
  <2>1. <<y, x>> \in Nat \X Nat
    OBVIOUS
  <2>2. ~ (<<y, x>>[1] < <<y, x>>[2])
    BY <1>2, <2>1, Zenon
  <2> QED
    BY <2>2
<1> QED
  BY <1>3, Zenon DEF Min

\* DescDist counts the steps forward around the ring (the masked subtractions
\* of TxQueueAdvance).
LEMMA DescDistValue ==
  ASSUME NEW a \in DescIndex, NEW b \in DescIndex
  PROVE  /\ DescDist(a, b) = IF b >= a THEN b - a ELSE b - a + DescCount
         /\ DescDist(a, b) \in DescIndex /\ DescDist(a, b) \in Nat
  BY SizesAssumption DEF DescDist, DescIndex

\* Moving forward by at most one round stays in the ring.
LEMMA DescFwdValue ==
  ASSUME NEW a \in DescIndex, NEW k \in 0 .. DescCount
  PROVE  /\ DescFwd(a, k) = IF a + k < DescCount THEN a + k ELSE a + k - DescCount
         /\ DescFwd(a, k) \in DescIndex
  BY SizesAssumption DEF DescFwd, DescIndex

\* EMPTY_DESC_REMAINING is what is left of the ring behind i, without the hole.
LEMMA EmptyDescRemainingValue ==
  ASSUME NEW i \in DescIndex, descBegin \in DescIndex
  PROVE  EmptyDescRemaining(i) = DescCount - 1 - DescDist(descBegin, i)
<1>1. EmptyDescRemaining(i) = IF descBegin > i THEN descBegin - 1 - i
                                               ELSE descBegin - 1 - i + DescCount
  BY SizesAssumption DEF EmptyDescRemaining, DescIndex
<1>2. DescDist(descBegin, i) = IF i >= descBegin THEN i - descBegin
                                                 ELSE i - descBegin + DescCount
  BY DescDistValue
<1> QED
  BY <1>1, <1>2, SizesAssumption DEF DescIndex

\* Steps forward add up as long as they stay within one round of the ring.
LEMMA DescDistFwd ==
  ASSUME NEW a \in DescIndex, NEW b \in DescIndex, NEW k \in Nat,
         DescDist(a, b) + k < DescCount
  PROVE  DescFwd(b, k) \in DescIndex /\ DescDist(a, DescFwd(b, k)) = DescDist(a, b) + k
<1>1. k \in 0 .. DescCount
  BY DescDistValue, SizesAssumption DEF DescIndex
<1>2. DescFwd(b, k) = IF b + k < DescCount THEN b + k ELSE b + k - DescCount
  BY <1>1, DescFwdValue
<1>3. DescFwd(b, k) \in DescIndex
  BY <1>1, DescFwdValue
<1>4. DescDist(a, DescFwd(b, k)) = IF DescFwd(b, k) >= a THEN DescFwd(b, k) - a
                                                         ELSE DescFwd(b, k) - a + DescCount
  BY <1>3, DescDistValue
<1>5. DescDist(a, b) = IF b >= a THEN b - a ELSE b - a + DescCount
  BY DescDistValue
<1> QED
  BY <1>2, <1>3, <1>4, <1>5, SizesAssumption DEF DescIndex

\* Seen from two places: what lies from b on, before the hole, is as far behind
\* b as the difference of the distances from a.
LEMMA DescDistBetween ==
  ASSUME NEW a \in DescIndex, NEW b \in DescIndex, NEW c \in DescIndex
  PROVE  DescDist(b, c) = IF DescDist(a, c) >= DescDist(a, b)
                            THEN DescDist(a, c) - DescDist(a, b)
                            ELSE DescDist(a, c) - DescDist(a, b) + DescCount
<1>1. DescDist(a, b) = IF b >= a THEN b - a ELSE b - a + DescCount
  BY DescDistValue
<1>2. DescDist(a, c) = IF c >= a THEN c - a ELSE c - a + DescCount
  BY DescDistValue
<1>3. DescDist(b, c) = IF c >= b THEN c - b ELSE c - b + DescCount
  BY DescDistValue
<1> QED
  BY <1>1, <1>2, <1>3, SizesAssumption DEF DescIndex

\* An index of the packet ring or of the fragment ring stays one.
LEMMA PktIndexes ==
  /\ \A i \in PktIndex, k \in Nat : PktFwd(i, k) \in PktIndex
  /\ \A i \in PktIndex, j \in PktIndex : PktDist(i, j) \in Nat
  /\ \A i \in FragIndex, k \in Nat : FragFwd(i, k) \in FragIndex
  BY SizesAssumption DEF PktFwd, PktDist, FragFwd, PktIndex, FragIndex

-----------------------------------------------------------------------------
(* Packets.                                                                *)

\* What the assumptions on packets say of one packet: the descriptors reserved
\* for it are enough for those that are written.
LEMMA PacketFacts ==
  ASSUME NEW p \in Packets
  PROVE  /\ p.ignore \in BOOLEAN /\ p.mss \in Nat
         /\ VlanTag(p) \in Nat
         /\ Len(p.frags) \in Nat
         /\ DescriptorsReserved(p) \in Nat /\ DescriptorsWritten(p) \in Nat
         /\ DescriptorsWritten(p) <= DescriptorsReserved(p)
<1>1. /\ p.ignore \in BOOLEAN /\ p.mss \in Nat /\ p.vlan \in Nat
      /\ Len(p.frags) \in 1 .. (DescCount - 3)
      /\ UserDescriptorsNeeded(p) \in Nat /\ DataDescriptors(p) \in Nat
      /\ IsGso(p) => DataDescriptors(p) <= UserDescriptorsNeeded(p)
  BY PacketsAssumption, Zenon
<1>2. p.mss \in Nat /\ Len(p.frags) \in Nat
  BY <1>1, SizesAssumption
<1>3. VlanTag(p) \in Nat
  BY <1>1, SizesAssumption DEF VlanTag
<1>4. Bit(ContextNeeded(p)) \in {0, 1}
  BY DEF Bit
<1>5. CASE IsGso(p)
  <2>1. /\ DescriptorsReserved(p) = UserDescriptorsNeeded(p) + Bit(ContextNeeded(p)) + 1
        /\ DescriptorsWritten(p) = Bit(ContextNeeded(p)) + 1 + DataDescriptors(p)
    BY <1>5, Zenon DEF DescriptorsReserved, DescriptorsWritten, Bit
  <2> QED
    BY <1>1, <1>2, <1>3, <1>4, <1>5, <2>1
<1>6. CASE ~IsGso(p)
  <2>1. DataDescriptors(p) = Len(p.frags)
    BY <1>6, Zenon DEF DataDescriptors
  <2>2. /\ DescriptorsReserved(p) = Len(p.frags) + Bit(ContextNeeded(p))
        /\ DescriptorsWritten(p) = Bit(ContextNeeded(p)) + 0 + Len(p.frags)
    BY <1>6, <2>1, Zenon DEF DescriptorsReserved, DescriptorsWritten, Bit
  <2> QED
    BY <1>1, <1>2, <1>3, <1>4, <2>2
<1> QED
  BY <1>5, <1>6

\* SkipIgnorePackets stays in the packet ring.
LEMMA SkipIgnorePacketsType ==
  ASSUME TypeOK, NEW i \in PktIndex
  PROVE  SkipIgnorePackets(i) \in PktIndex
<1> DEFINE E == {d \in 0 .. PktDist(i, pktNext) :
                   d = PktDist(i, pktNext) \/ ~pkts[PktFwd(i, d)].ignore}
<1>1. PktDist(i, pktNext) \in Nat
  BY PktIndexes DEF TypeOK
<1>2. E \subseteq Nat /\ E # {}
  BY <1>1
<1>3. Min(E) \in Nat
  BY <1>2, MinOfNaturals
<1> QED
  BY <1>3, PktIndexes DEF SkipIgnorePackets

\* So does the fragment index it leaves.
LEMMA SkipFragIndexType ==
  ASSUME TypeOK, NEW i \in PktIndex, NEW f \in FragIndex
  PROVE  SkipFragIndex(i, f) \in FragIndex
  BY SkipIgnorePacketsType DEF SkipFragIndex, TypeOK

\* Every descriptor written for a packet has the fields of a descriptor.
LEMMA DescriptorAtType ==
  ASSUME NEW p \in Packets, NEW i \in PktIndex, NEW o \in Nat
  PROVE  DescriptorAt(p, i, o) \in DescriptorType
<1>1. p.mss \in Nat /\ VlanTag(p) \in Nat
  BY PacketFacts
<1>2. Bit(VlanTag(p) # 0) \in Nat
  BY DEF Bit
<1>3. \A type \in {"context", "tso", "data"}, first \in BOOLEAN, last \in BOOLEAN,
         mss \in Nat, tag \in Nat : Descriptor(type, first, last, mss, tag, i) \in DescriptorType
  BY DEF Descriptor, DescriptorType
<1>4. (~IsGso(p) /\ o = Bit(ContextNeeded(p))) \in BOOLEAN
      /\ (o = DescriptorsWritten(p) - 1) \in BOOLEAN
  OBVIOUS
<1>5. (IF ContextTagNeeded(p) THEN VlanTag(p) ELSE 0) \in Nat
  BY <1>1
<1> QED
  BY <1>1, <1>2, <1>3, <1>4, <1>5, Zenon DEF DescriptorAt

-----------------------------------------------------------------------------
(* Type correctness.                                                       *)

\* Indexes that occur as literals, and the constants' facts the types need.
LEMMA Zeros ==
  0 \in DescIndex /\ 0 \in PktIndex /\ 0 \in FragIndex
  BY SizesAssumption DEF DescIndex, PktIndex, FragIndex

LEMMA EmptyType == Empty \in DescriptorType
  BY Zeros DEF Empty, DescriptorType

LEMMA InitType == Init => TypeOK
<1> SUFFICES ASSUME Init PROVE TypeOK
  OBVIOUS
<1>1. (CHOOSE p \in Packets : TRUE) \in Packets
  BY PacketsAssumption, Zenon
<1> QED
  BY <1>1, Zeros, EmptyType DEF Init, TypeOK

\* The driver's callbacks and NetAdapterCx keep the types.
LEMMA DriverType ==
  ASSUME TypeOK,
         \/ TxQueueCreate \/ TxQueueStart \/ TxQueueCancel \/ TxQueueStop \/ TxQueueCleanup
         \/ \E p \in Packets : NetAddPacket(p)
         \/ Cancelling
  PROVE  TypeOK'
<1> USE DEF netVars, ringVars, descVars, locals, hwVars
<1>1. CASE TxQueueCreate
  BY <1>1, Zeros, EmptyType DEF TypeOK, TxQueueCreate
<1>2. CASE TxQueueStart
  BY <1>2, Zeros, SizesAssumption DEF TypeOK, TxQueueStart, NoMss
<1>3. CASE TxQueueCancel
  BY <1>3 DEF TypeOK, TxQueueCancel
<1>4. CASE TxQueueStop
  BY <1>4, Zeros DEF TypeOK, TxQueueStop
<1>5. CASE TxQueueCleanup
  BY <1>5 DEF TypeOK, TxQueueCleanup
<1>6. ASSUME NEW p \in Packets, NetAddPacket(p)
      PROVE  TypeOK'
  <2>1. Len(p.frags) \in Nat
    BY PacketFacts
  <2>2. PktFwd(pktEnd, 1) \in PktIndex /\ FragFwd(fragEnd, Len(p.frags)) \in FragIndex
    BY <2>1, PktIndexes DEF TypeOK
  <2> QED
    BY <1>6, <2>2 DEF TypeOK, NetAddPacket
<1>7. CASE CancelDrained
  <2>1. /\ SkipIgnorePackets(pktBegin) \in PktIndex
        /\ SkipFragIndex(pktBegin, fragBegin) \in FragIndex
    BY SkipIgnorePacketsType, SkipFragIndexType DEF TypeOK
  <2> QED
    BY <1>7, <2>1 DEF TypeOK, CancelDrained, EnterAdvance
<1>8. CASE CancelTimeout
  BY <1>8, Zeros DEF TypeOK, CancelTimeout
<1>9. CASE CancelDiscard
  BY <1>9 DEF TypeOK, CancelDiscard
<1> QED
  BY <1>1, <1>2, <1>3, <1>4, <1>5, <1>6, <1>7, <1>8, <1>9 DEF Cancelling

\* So do the steps of TxQueueAdvance.
LEMMA AdvanceType ==
  ASSUME TypeOK, TxQueueAdvance
  PROVE  TypeOK'
<1> USE DEF netVars, ringVars, descVars, locals, hwVars
<1>1. CASE AdvanceBegin
  <2>1. /\ SkipIgnorePackets(pktBegin) \in PktIndex
        /\ SkipFragIndex(pktBegin, fragBegin) \in FragIndex
    BY SkipIgnorePacketsType, SkipFragIndexType DEF TypeOK
  <2> QED
    BY <1>1, <2>1 DEF TypeOK, AdvanceBegin, EnterAdvance
<1>2. CASE ReapDescriptor
  <2> DEFINE next == PktFwd(pktIndex, 1)
             frag == FragFwd(pktFrag[pktIndex], Len(pkts[pktIndex].frags))
  <2>1. Len(pkts[pktIndex].frags) \in Nat
    BY PacketFacts DEF TypeOK
  <2>2. next \in PktIndex /\ frag \in FragIndex
    BY <2>1, PktIndexes DEF TypeOK
  <2> HIDE DEF next, frag
  <2>3. SkipIgnorePackets(next) \in PktIndex /\ SkipFragIndex(next, frag) \in FragIndex
    BY <2>2, SkipIgnorePacketsType, SkipFragIndexType
  <2>4. DescFwd(descIndex, 1) \in DescIndex
    BY DescFwdValue, SizesAssumption DEF TypeOK
  <2> QED
    BY <1>2, <2>3, <2>4 DEF TypeOK, ReapDescriptor, next, frag
<1>3. CASE ReapDone
  BY <1>3 DEF TypeOK, ReapDone
<1>4. CASE QueuePacket
  <2> DEFINE p == pkts[pktIndex]
             new == [d \in DescIndex |->
                       IF DescDist(descIndex, d) < DescriptorsWritten(p)
                         THEN DescriptorAt(p, pktIndex, DescDist(descIndex, d))
                         ELSE descs[d]]
  <2>1. p \in Packets
    BY DEF TypeOK
  <2>2. p.mss \in Nat /\ VlanTag(p) \in Nat /\ DescriptorsWritten(p) \in Nat
    BY <2>1, PacketFacts
  <2>3. new \in [DescIndex -> DescriptorType]
    <3>1. \A d \in DescIndex : DescDist(descIndex, d) \in Nat
      BY DescDistValue DEF TypeOK
    <3>2. \A d \in DescIndex :
            DescriptorAt(p, pktIndex, DescDist(descIndex, d)) \in DescriptorType
      BY <2>1, <3>1, DescriptorAtType DEF TypeOK
    <3> QED
      BY <3>2 DEF TypeOK
  <2>4. DescFwd(descIndex, DescriptorsWritten(p)) \in DescIndex
    BY <2>2, SizesAssumption DEF TypeOK, DescFwd, DescIndex
  <2>5. PktFwd(pktIndex, 1) \in PktIndex
    BY PktIndexes DEF TypeOK
  <2>6. /\ descs' = new /\ descIndex' = DescFwd(descIndex, DescriptorsWritten(p))
        /\ lastMss' = (IF IsGso(p) THEN p.mss ELSE lastMss)
        /\ lastVlanTag' = (IF ContextTagNeeded(p) THEN VlanTag(p) ELSE lastVlanTag)
        /\ pktIndex' = PktFwd(pktIndex, 1)
        /\ UNCHANGED <<queue, pc, netVars, ringVars, descBegin, descEnd, pktFragIndex, hwVars>>
    BY <1>4, Zenon DEF QueuePacket
  <2>7. lastMss' \in Nat /\ lastVlanTag' \in Nat
    BY <2>2, <2>6 DEF TypeOK
  <2> HIDE DEF new, p
  <2> QED
    BY <2>3, <2>4, <2>5, <2>6, <2>7 DEF TypeOK
<1>5. CASE QueueIgnored
  <2>1. PktFwd(pktIndex, 1) \in PktIndex
    BY PktIndexes DEF TypeOK
  <2> QED
    BY <1>5, <2>1 DEF TypeOK, QueueIgnored
<1>6. CASE AdvanceCommit
  BY <1>6, Zeros DEF TypeOK, AdvanceCommit
<1> QED
  BY <1>1, <1>2, <1>3, <1>4, <1>5, <1>6 DEF TxQueueAdvance

\* And so does the device.
LEMMA HardwareType ==
  ASSUME TypeOK, Hardware
  PROVE  TypeOK'
<1> USE DEF netVars, ringVars, descVars, locals, hwVars
<1>1. CASE HwFetch
  <2> DEFINE d == descs[hwNext]
  <2>1. d \in DescriptorType
    BY DEF TypeOK
  <2>2. d.mss \in Nat /\ d.tag \in Nat
    BY <2>1 DEF DescriptorType
  <2>3. DescFwd(hwNext, 1) \in DescIndex
    BY DescFwdValue, SizesAssumption DEF TypeOK
  <2>4. hwMss' \in Nat /\ hwTag' \in Nat
    BY <1>1, <2>2 DEF TypeOK, HwFetch
  <2>5. hwMid' \in BOOLEAN
    BY <1>1, Zenon DEF HwFetch
  <2> QED
    BY <1>1, <2>3, <2>4, <2>5 DEF TypeOK, HwFetch
<1>2. CASE HwWriteBack
  <2>1. DescFwd(hwDone, 1) \in DescIndex
    BY DescFwdValue, SizesAssumption DEF TypeOK
  <2>2. descs' \in [DescIndex -> DescriptorType]
    BY <1>2 DEF TypeOK, HwWriteBack, DescriptorType
  <2> QED
    BY <1>2, <2>1, <2>2 DEF TypeOK, HwWriteBack
<1> QED
  BY <1>1, <1>2 DEF Hardware

LEMMA NextType ==
  ASSUME TypeOK, [Next]_vars
  PROVE  TypeOK'
<1>1. CASE UNCHANGED vars
  BY <1>1 DEF TypeOK, vars, netVars, ringVars, descVars, locals, hwVars
<1>2. CASE TxQueueAdvance
  BY <1>2, AdvanceType
<1>3. CASE Hardware
  BY <1>3, HardwareType
<1> QED
  BY <1>1, <1>2, <1>3, DriverType DEF Next

\* TypeOK is an invariant: the indexes of TxQueueAdvance stay within the three
\* rings, however the device interleaves.
THEOREM TypeCorrect == Spec => []TypeOK
  BY InitType, NextType, PTL DEF Spec

-----------------------------------------------------------------------------
(* The order of the ring.                                                  *)

\* Two descriptors at the same distance are the same.
LEMMA DescDistInjective ==
  ASSUME NEW a \in DescIndex, NEW b \in DescIndex, NEW c \in DescIndex, b # c
  PROVE  DescDist(a, b) # DescDist(a, c)
<1>1. DescDist(a, b) = IF b >= a THEN b - a ELSE b - a + DescCount
  BY DescDistValue
<1>2. DescDist(a, c) = IF c >= a THEN c - a ELSE c - a + DescCount
  BY DescDistValue
<1>3. a \in 0 .. DescCount - 1 /\ b \in 0 .. DescCount - 1 /\ c \in 0 .. DescCount - 1
  BY DEF DescIndex
<1> QED
  BY <1>1, <1>2, <1>3, SizesAssumption

LEMMA DescDistSelf ==
  ASSUME NEW a \in DescIndex
  PROVE  DescDist(a, a) = 0
  BY DescDistValue DEF DescIndex

\* Distances are below the size of the ring.
LEMMA DescDistBound ==
  ASSUME NEW a \in DescIndex, NEW b \in DescIndex
  PROVE  DescDist(a, b) \in Nat /\ DescDist(a, b) < DescCount
<1>1. DescDist(a, b) \in DescIndex
  BY DescDistValue
<1> QED
  BY <1>1, SizesAssumption DEF DescIndex

LEMMA InitOrder == Init => RingOrder
  BY DEF Init, RingOrder, RingActive

\* One iteration of the reaping loop stops at the first descriptor the device
\* has not written back.
LEMMA ReapDescriptorOrder ==
  ASSUME TypeOK, RingOrder, ReapDescriptor
  PROVE  RingOrder'
<1> USE DEF netVars, ringVars, descVars, hwVars
<1> DEFINE D(x) == DescDist(descBegin, x)
<1>1. /\ descIndex \in DescIndex /\ descBegin \in DescIndex /\ descEnd \in DescIndex
      /\ hwDone \in DescIndex /\ hwNext \in DescIndex
  BY DEF TypeOK
<1>2. RingActive /\ pc = "reap"
  BY DEF ReapDescriptor, RingActive, RingOrder
<1>3. D(descIndex) < D(hwDone)
  <2>1. D(descIndex) # D(descEnd)
    BY <1>1, DescDistInjective DEF ReapDescriptor
  <2>2. D(descIndex) \in Nat /\ D(hwDone) \in Nat /\ D(hwNext) \in Nat /\ D(descEnd) \in Nat
    BY <1>1, DescDistBound
  <2>3. ~ descs[descIndex].own
    BY DEF ReapDescriptor
  <2>4. ~ (D(hwDone) <= D(descIndex) /\ D(descIndex) < D(descEnd))
    BY <1>1, <1>2, <2>3 DEF RingOrder, OwnedUpTo
  <2>5. D(descIndex) <= D(hwDone) /\ D(hwDone) <= D(hwNext) /\ D(hwNext) <= D(descEnd)
    BY <1>2 DEF RingOrder
  <2> QED
    BY <2>1, <2>2, <2>4, <2>5
<1>4. D(DescFwd(descIndex, 1)) = D(descIndex) + 1
  <2>1. D(descIndex) \in Nat /\ D(hwDone) \in Nat /\ D(hwDone) < DescCount
    BY <1>1, DescDistBound
  <2>2. D(descIndex) + 1 < DescCount
    BY <1>3, <2>1, SizesAssumption
  <2> QED
    BY <1>1, <2>2, DescDistFwd
<1>5. DescDist(descBegin, descIndex') <= D(hwDone)
  <2>1. descIndex' = DescFwd(descIndex, 1)
    BY DEF ReapDescriptor
  <2>2. D(descIndex) \in Nat /\ D(hwDone) \in Nat
    BY <1>1, DescDistBound
  <2> QED
    BY <1>3, <1>4, <2>1, <2>2
<1>6. UNCHANGED <<queue, pc, descBegin, descEnd, descs, hwStart, hwNext, hwDone, hwTail, hwMid>>
  BY DEF ReapDescriptor
<1> QED
  BY <1>2, <1>5, <1>6 DEF RingOrder, RingActive, OwnedUpTo

\* Moving descBegin forward to the first descriptor in use keeps the order.
LEMMA ReapDoneOrder ==
  ASSUME TypeOK, RingOrder, ReapDone
  PROVE  RingOrder'
<1> USE DEF netVars, ringVars, descVars, hwVars
<1> DEFINE D(x) == DescDist(descBegin, x)
           E(x) == DescDist(descIndex, x)
<1>1. /\ descIndex \in DescIndex /\ descBegin \in DescIndex /\ descEnd \in DescIndex
      /\ hwDone \in DescIndex /\ hwNext \in DescIndex
  BY DEF TypeOK
<1>2. RingActive /\ pc = "reap"
  BY DEF ReapDone, RingActive, RingOrder
<1>3. /\ D(descIndex) <= D(hwDone) /\ D(hwDone) <= D(hwNext) /\ D(hwNext) <= D(descEnd)
      /\ OwnedUpTo(descEnd) /\ hwTail = descEnd
  BY <1>2 DEF RingOrder
<1>4. \A x \in DescIndex :
        /\ D(x) \in Nat /\ D(x) < DescCount
        /\ E(x) = IF D(x) >= D(descIndex) THEN D(x) - D(descIndex)
                                          ELSE D(x) - D(descIndex) + DescCount
  BY <1>1, DescDistBound, DescDistBetween
<1> HIDE DEF D, E
<1>5. E(hwDone) <= E(hwNext) /\ E(hwNext) <= E(descEnd)
  BY <1>1, <1>3, <1>4, SizesAssumption
<1>6. ASSUME NEW d \in DescIndex, E(hwDone) <= E(d), E(d) < E(descEnd)
      PROVE  descs[d].own
  <2>1. D(hwDone) <= D(d) /\ D(d) < D(descEnd)
    BY <1>1, <1>3, <1>4, <1>6, SizesAssumption
  <2> QED
    BY <1>3, <2>1 DEF OwnedUpTo, D
<1>7. /\ descBegin' = descIndex /\ descIndex' = descEnd /\ pc' = "fill"
      /\ UNCHANGED <<queue, descEnd, descs, hwStart, hwNext, hwDone, hwTail, hwMid>>
  BY DEF ReapDone
<1>8. E(descEnd) <= E(descEnd)
  BY <1>1, <1>4, SizesAssumption
<1>9. OwnedUpTo(descEnd)' /\ OwnedUpTo(descIndex)'
  BY <1>6, <1>7 DEF OwnedUpTo, E
<1> QED
  BY <1>2, <1>3, <1>5, <1>7, <1>8, <1>9 DEF RingOrder, RingActive, E

\* Where the descriptors of a packet go: behind those in use and before the
\* hole, so none of them is one the device may have.
LEMMA QueuePacketPlace ==
  ASSUME TypeOK, RingOrder, QueuePacket, NEW d \in DescIndex
  PROVE  LET w == DescriptorsWritten(pkts[pktIndex]) IN
         /\ DescDist(descBegin, DescFwd(descIndex, w)) = DescDist(descBegin, descIndex) + w
         /\ w \in Nat
         /\ DescDist(descIndex, d) < w <=>
              /\ DescDist(descBegin, descIndex) <= DescDist(descBegin, d)
              /\ DescDist(descBegin, d) < DescDist(descBegin, descIndex) + w
<1> DEFINE p == pkts[pktIndex]
           w == DescriptorsWritten(p)
           D(x) == DescDist(descBegin, x)
<1>1. descIndex \in DescIndex /\ descBegin \in DescIndex /\ p \in Packets
  BY DEF TypeOK
<1>2. /\ w \in Nat /\ DescriptorsReserved(p) \in Nat /\ w <= DescriptorsReserved(p)
  BY <1>1, PacketFacts
<1>3. DescriptorsReserved(p) <= DescCount - 1 - D(descIndex)
  <2>1. DescriptorsReserved(p) <= EmptyDescRemaining(descIndex)
    BY Zenon DEF QueuePacket, PacketFits
  <2> QED
    BY <1>1, <2>1, EmptyDescRemainingValue
<1>4. /\ D(descIndex) \in Nat /\ D(descIndex) < DescCount
      /\ D(d) \in Nat /\ D(d) < DescCount
  BY <1>1, DescDistBound
<1>5. DescDist(descIndex, d) = IF D(d) >= D(descIndex) THEN D(d) - D(descIndex)
                                                       ELSE D(d) - D(descIndex) + DescCount
  BY <1>1, DescDistBetween
<1> HIDE DEF p, w
<1>6. D(descIndex) + w < DescCount
  BY <1>2, <1>3, <1>4, SizesAssumption
<1>7. D(DescFwd(descIndex, w)) = D(descIndex) + w
  BY <1>1, <1>2, <1>6, DescDistFwd
<1> HIDE DEF D
<1>8. DescDist(descIndex, d) < w <=> D(descIndex) <= D(d) /\ D(d) < D(descIndex) + w
  BY <1>2, <1>3, <1>4, <1>5, SizesAssumption
<1> QED
  BY <1>2, <1>7, <1>8 DEF p, w, D

\* Filling descriptors keeps the order; all new ones are the device's.
LEMMA QueuePacketOrder ==
  ASSUME TypeOK, RingOrder, QueuePacket
  PROVE  RingOrder'
<1> USE DEF netVars, ringVars, descVars, hwVars
<1> DEFINE p == pkts[pktIndex]
           w == DescriptorsWritten(p)
           D(x) == DescDist(descBegin, x)
<1>1. /\ descIndex \in DescIndex /\ descBegin \in DescIndex /\ descEnd \in DescIndex
      /\ hwDone \in DescIndex
  BY DEF TypeOK
<1>2. RingActive /\ pc = "fill"
  BY DEF QueuePacket, RingActive, RingOrder
<1>3. D(descEnd) <= D(descIndex) /\ OwnedUpTo(descIndex) /\ OwnedUpTo(descEnd)
  BY <1>2 DEF RingOrder
<1>4. /\ UNCHANGED <<queue, pc, descBegin, descEnd, hwStart, hwNext, hwDone, hwTail, hwMid>>
      /\ descIndex' = DescFwd(descIndex, w)
      /\ \A d \in DescIndex :
           descs'[d] = IF DescDist(descIndex, d) < w
                         THEN DescriptorAt(p, pktIndex, DescDist(descIndex, d))
                         ELSE descs[d]
  BY DEF QueuePacket
<1>5. \A o : DescriptorAt(p, pktIndex, o).own
  BY Zenon DEF DescriptorAt, Descriptor
<1>6. /\ w \in Nat
      /\ D(DescFwd(descIndex, w)) = D(descIndex) + w
      /\ \A d \in DescIndex :
           DescDist(descIndex, d) < w <=> D(descIndex) <= D(d) /\ D(d) < D(descIndex) + w
  BY <1>1, QueuePacketPlace
<1>7. \A x \in DescIndex : D(x) \in Nat
  BY <1>1, DescDistBound
<1> HIDE DEF p, w
<1>8. D(descEnd) <= D(descIndex')
  <2> HIDE DEF D
  <2> QED
    BY <1>1, <1>3, <1>4, <1>6, <1>7
<1>9. ASSUME NEW d \in DescIndex, D(hwDone) <= D(d), D(d) < D(descIndex')
      PROVE  descs'[d].own
  <2>1. CASE D(d) < D(descIndex)
    <3>1. descs[d].own
      BY <1>3, <1>9, <2>1 DEF OwnedUpTo
    <3> QED
      BY <1>4, <1>5, <3>1
  <2>2. CASE ~ (D(d) < D(descIndex))
    <3>1. DescDist(descIndex, d) < w
      <4> HIDE DEF D
      <4> QED
        BY <1>1, <1>4, <1>6, <1>7, <1>9, <2>2
    <3> QED
      BY <1>4, <1>5, <3>1
  <2> QED
    BY <2>1, <2>2
<1>10. OwnedUpTo(descIndex)' /\ OwnedUpTo(descEnd)'
  <2>1. \A d \in DescIndex : D(d) < D(descEnd) => D(d) < D(descIndex')
    <3>1. descIndex' \in DescIndex
      BY AdvanceType DEF TypeOK, TxQueueAdvance
    <3> HIDE DEF D
    <3> QED
      BY <1>1, <1>7, <1>8, <3>1
  <2> QED
    BY <1>4, <1>9, <2>1 DEF OwnedUpTo
<1> QED
  BY <1>2, <1>4, <1>8, <1>10 DEF RingOrder, RingActive

\* The other steps of the driver.
LEMMA DriverOrder ==
  ASSUME TypeOK, RingOrder, Next, ~Hardware, ~ReapDescriptor, ~ReapDone, ~QueuePacket
  PROVE  RingOrder'
<1> USE DEF netVars, ringVars, descVars, locals, hwVars
<1>1. CASE TxQueueCreate
  BY <1>1 DEF TxQueueCreate, RingOrder, RingActive
<1>2. CASE TxQueueStart
  <2>1. DescDist(0, 0) = 0
    BY Zeros, DescDistSelf
  <2>2. \A d \in DescIndex : DescDist(0, d) \in Nat
    BY Zeros, DescDistBound
  <2>3. pc = "idle"
    BY <1>2 DEF TxQueueStart, RingOrder
  <2> QED
    BY <1>2, <2>1, <2>2, <2>3 DEF TxQueueStart, RingOrder, RingActive, OwnedUpTo
<1>3. CASE TxQueueCancel
  BY <1>3 DEF TxQueueCancel, RingOrder, RingActive, OwnedUpTo
<1>4. CASE TxQueueStop
  BY <1>4 DEF TxQueueStop, RingOrder, RingActive
<1>5. CASE TxQueueCleanup
  BY <1>5 DEF TxQueueCleanup, RingOrder, RingActive
<1>6. CASE \E p \in Packets : NetAddPacket(p)
  BY <1>6 DEF NetAddPacket, RingOrder, RingActive, OwnedUpTo
<1>7. CASE AdvanceBegin \/ CancelDrained
  <2>1. DescDist(descBegin, descBegin) = 0 /\ DescDist(descBegin, hwDone) \in Nat
    BY DescDistSelf, DescDistBound DEF TypeOK
  <2>2. /\ descIndex' = descBegin /\ pc' = "reap"
        /\ UNCHANGED <<queue, descBegin, descEnd, descs, hwStart, hwNext, hwDone, hwTail, hwMid>>
        /\ queue = "running" \/ (pc = "drain" /\ ~hwMid /\ hwDone = hwNext)
    BY <1>7 DEF AdvanceBegin, CancelDrained, EnterAdvance
  <2>3. RingActive
    BY <2>2 DEF RingActive, RingOrder
  <2> QED
    BY <2>1, <2>2, <2>3 DEF RingOrder, RingActive, OwnedUpTo
<1>8. CASE QueueIgnored
  BY <1>8 DEF QueueIgnored, RingOrder, RingActive, OwnedUpTo
<1>9. CASE AdvanceCommit
  <2>1. RingActive /\ pc = "fill"
    BY <1>9 DEF AdvanceCommit, RingActive, RingOrder
  <2>2. /\ descEnd' = descIndex /\ hwTail' = descIndex
        /\ pc' = IF queue = "running" THEN "idle" ELSE "discard"
        /\ UNCHANGED <<queue, descBegin, descs, hwStart, hwNext, hwDone, hwMid>>
    BY <1>9 DEF AdvanceCommit
  <2>3. DescDist(descBegin, hwNext) <= DescDist(descBegin, descIndex)
    <3>1. /\ DescDist(descBegin, hwNext) \in Nat /\ DescDist(descBegin, descEnd) \in Nat
          /\ DescDist(descBegin, descIndex) \in Nat
      BY DescDistBound DEF TypeOK
    <3> QED
      BY <2>1, <3>1 DEF RingOrder
  <2> QED
    BY <2>1, <2>2, <2>3 DEF RingOrder, RingActive, OwnedUpTo
<1>10. CASE CancelTimeout
  BY <1>10 DEF CancelTimeout, RingOrder, RingActive
<1>11. CASE CancelDiscard
  BY <1>11 DEF CancelDiscard, RingOrder, RingActive
<1> QED
  BY <1>1, <1>2, <1>3, <1>4, <1>5, <1>6, <1>7, <1>8, <1>9, <1>10, <1>11
  DEF Next, TxQueueAdvance, Cancelling

\* The device keeps the order too: it fetches up to the tail and writes back
\* what it has fetched.
LEMMA HardwareOrder ==
  ASSUME TypeOK, RingOrder, Hardware
  PROVE  RingOrder'
<1> USE DEF netVars, ringVars, descVars, locals, hwVars
<1> DEFINE D(x) == DescDist(descBegin, x)
<1>1. /\ descBegin \in DescIndex /\ descEnd \in DescIndex /\ descIndex \in DescIndex
      /\ hwDone \in DescIndex /\ hwNext \in DescIndex
  BY DEF TypeOK
<1>2. \A x \in DescIndex : D(x) \in Nat /\ D(x) < DescCount
  BY <1>1, DescDistBound
<1>3. CASE HwFetch
  <2>1. /\ hwNext # hwTail /\ (hwStart \/ hwMid) /\ hwNext' = DescFwd(hwNext, 1)
        /\ UNCHANGED <<queue, pc, descBegin, descEnd, descIndex, descs, hwStart, hwDone, hwTail>>
    BY <1>3 DEF HwFetch
  <2>2. CASE RingActive
    <3>1. /\ hwTail = descEnd /\ D(hwDone) <= D(hwNext) /\ D(hwNext) <= D(descEnd)
      BY <2>2 DEF RingOrder
    <3>2. D(hwNext) # D(descEnd)
      BY <1>1, <2>1, <3>1, DescDistInjective
    <3>3. D(hwNext) + 1 < DescCount /\ D(hwNext) + 1 <= D(descEnd)
      <4> HIDE DEF D
      <4> QED
        BY <1>1, <1>2, <3>1, <3>2, SizesAssumption
    <3>4. D(hwNext') = D(hwNext) + 1
      BY <1>1, <2>1, <3>3, DescDistFwd
    <3>5. D(hwDone) <= D(hwNext') /\ D(hwNext') <= D(descEnd)
      <4> HIDE DEF D
      <4> QED
        BY <1>1, <1>2, <3>1, <3>3, <3>4
    <3>6. queue = "cancelling" => pc = "drain"
      BY <2>1 DEF RingOrder
    <3> QED
      BY <2>1, <2>2, <3>5, <3>6 DEF RingOrder, RingActive, OwnedUpTo
  <2>3. CASE ~RingActive
    <3>1. queue # "cancelling" /\ queue # "running" /\ pc = "idle"
      BY <2>1, <2>3 DEF RingActive, RingOrder
    <3> QED
      BY <2>1, <3>1 DEF RingOrder, RingActive
  <2> QED
    BY <2>2, <2>3
<1>4. CASE HwWriteBack
  <2>1. /\ hwDone # hwNext /\ hwDone' = DescFwd(hwDone, 1)
        /\ descs' = [descs EXCEPT ![hwDone].own = FALSE]
        /\ UNCHANGED <<queue, pc, descBegin, descEnd, descIndex, hwStart, hwNext, hwTail, hwMid>>
    BY <1>4 DEF HwWriteBack
  <2>2. CASE RingActive
    <3>1. /\ hwTail = descEnd /\ D(hwDone) <= D(hwNext) /\ D(hwNext) <= D(descEnd)
      BY <2>2 DEF RingOrder
    <3>2. D(hwDone) # D(hwNext)
      BY <1>1, <2>1, DescDistInjective
    <3>3. D(hwDone) + 1 < DescCount /\ D(hwDone) + 1 <= D(hwNext)
      <4> HIDE DEF D
      <4> QED
        BY <1>1, <1>2, <3>1, <3>2, SizesAssumption
    <3>4. D(hwDone') = D(hwDone) + 1
      BY <1>1, <2>1, <3>3, DescDistFwd
    <3>5. D(hwDone') <= D(hwNext)
      BY <3>3, <3>4
    <3>6. queue = "cancelling" => pc = "drain"
      BY <2>1 DEF RingOrder
    <3>7. ASSUME NEW end \in DescIndex, OwnedUpTo(end),
                 NEW d \in DescIndex, D(hwDone') <= D(d), D(d) < D(end)
          PROVE  descs'[d].own
      <4>1. d # hwDone /\ D(hwDone) <= D(d)
        <5>1. D(hwDone) < D(d)
          <6> HIDE DEF D
          <6> QED
            BY <1>1, <1>2, <3>4, <3>7
        <5> QED
          BY <1>1, <1>2, <5>1
      <4>2. descs[d].own
        BY <3>7, <4>1 DEF OwnedUpTo
      <4>3. descs'[d] = descs[d]
        BY <2>1, <4>1 DEF TypeOK
      <4> QED
        BY <4>2, <4>3
    <3>8. OwnedUpTo(descEnd) /\ (pc = "fill" => OwnedUpTo(descIndex))
      BY <2>2 DEF RingOrder
    <3>9. OwnedUpTo(descEnd)' /\ (pc = "fill" => OwnedUpTo(descIndex)')
      BY <1>1, <2>1, <3>7, <3>8 DEF OwnedUpTo
    <3>10. pc = "reap" => D(descIndex) <= D(hwDone')
      <4>1. pc = "reap" => D(descIndex) <= D(hwDone)
        BY DEF RingOrder
      <4> HIDE DEF D
      <4> QED
        BY <1>1, <1>2, <3>4, <4>1
    <3> QED
      BY <2>1, <2>2, <3>1, <3>5, <3>6, <3>9, <3>10 DEF RingOrder, RingActive
  <2>3. CASE ~RingActive
    <3>1. queue # "cancelling" /\ queue # "running" /\ pc = "idle"
      BY <2>1, <2>3 DEF RingActive, RingOrder
    <3> QED
      BY <2>1, <3>1 DEF RingOrder, RingActive
  <2> QED
    BY <2>2, <2>3
<1> QED
  BY <1>3, <1>4 DEF Hardware

LEMMA NextOrder ==
  ASSUME TypeOK, RingOrder, [Next]_vars
  PROVE  RingOrder'
<1>1. CASE UNCHANGED vars
  BY <1>1 DEF RingOrder, RingActive, OwnedUpTo, vars, netVars, ringVars, descVars, locals, hwVars
<1> QED
  BY <1>1, HardwareOrder, ReapDescriptorOrder, ReapDoneOrder, QueuePacketOrder, DriverOrder

\* RingOrder is an invariant of the transmit queue.
THEOREM RingOrdered == Spec => []RingOrder
<1>1. Init => TypeOK /\ RingOrder
  BY InitType, InitOrder
<1>2. TypeOK /\ RingOrder /\ [Next]_vars => (TypeOK /\ RingOrder)'
  BY NextType, NextOrder
<1> QED
  BY <1>1, <1>2, PTL DEF Spec

-----------------------------------------------------------------------------
(* What follows from it.                                                   *)

\* What the device may still use lies between hwDone and descEnd.
LEMMA DeviceOwnedPlace ==
  ASSUME TypeOK, RingOrder, queue \in {"running", "cancelling"}, NEW d \in DeviceOwned
  PROVE  /\ RingActive /\ d \in DescIndex
         /\ DescDist(descBegin, hwDone) <= DescDist(descBegin, d)
         /\ DescDist(descBegin, d) < DescDist(descBegin, descEnd)
<1> DEFINE D(x) == DescDist(descBegin, x)
           end == IF hwStart \/ hwMid THEN hwTail ELSE hwNext
<1>1. /\ d \in DescIndex /\ end \in DescIndex
      /\ DescDist(hwDone, d) < DescDist(hwDone, end)
  BY DEF DeviceOwned, DescsBetween, TypeOK
<1>2. /\ descBegin \in DescIndex /\ descEnd \in DescIndex
      /\ hwDone \in DescIndex /\ hwNext \in DescIndex
  BY DEF TypeOK
<1>3. RingActive
  <2> SUFFICES ASSUME ~RingActive PROVE FALSE
    OBVIOUS
  <2>1. ~hwStart /\ ~hwMid /\ hwDone = hwNext
    BY DEF RingActive, RingOrder
  <2>2. DescDist(hwDone, end) = 0 /\ DescDist(hwDone, d) \in Nat
    BY <1>1, <1>2, <2>1, DescDistSelf, DescDistBound
  <2> HIDE DEF end
  <2> QED
    BY <1>1, <2>2
<1>4. /\ D(hwDone) <= D(hwNext) /\ D(hwNext) <= D(descEnd) /\ hwTail = descEnd
  BY <1>3 DEF RingOrder
<1>5. \A x \in DescIndex :
        /\ D(x) \in Nat /\ D(x) < DescCount
        /\ DescDist(hwDone, x) = IF D(x) >= D(hwDone) THEN D(x) - D(hwDone)
                                                      ELSE D(x) - D(hwDone) + DescCount
  BY <1>2, DescDistBound, DescDistBetween
<1>6. D(end) = D(descEnd) \/ D(end) = D(hwNext)
  BY <1>4
<1> HIDE DEF D, end
<1>7. D(hwDone) <= D(d) /\ D(d) < D(descEnd)
  BY <1>1, <1>2, <1>4, <1>5, <1>6, SizesAssumption
<1> QED
  BY <1>1, <1>3, <1>7 DEF D

\* While the queue is in use, every descriptor the device may still use has its
\* Own bit: DeviceFindsOwnDescriptors holds for every ring and every packet.
THEOREM DeviceFindsOwn == Spec => []DeviceFindsOwnDescriptors
<1>1. TypeOK /\ RingOrder => DeviceFindsOwnDescriptors
  <2> SUFFICES ASSUME TypeOK, RingOrder, queue \in {"running", "cancelling"}, NEW d \in DeviceOwned
               PROVE  descs[d].own
    BY DEF DeviceFindsOwnDescriptors
  <2> QED
    BY DeviceOwnedPlace DEF RingOrder, OwnedUpTo
<1> QED
  BY <1>1, TypeCorrect, RingOrdered, PTL

\* The driver never writes to a descriptor the device may still use:
\* DriverLeavesDeviceDescriptors holds for every ring and every packet.
THEOREM DriverLeaves == Spec => DriverLeavesDeviceDescriptors
<1>1. ASSUME TypeOK, RingOrder, [Next]_vars
      PROVE  [LeavesDeviceDescriptors]_vars
  <2> SUFFICES ASSUME Next, NEW d \in DeviceOwned, descs'[d] # descs[d]
               PROVE  HwWriteBack \/ TxQueueCreate
    BY <1>1, Zenon DEF LeavesDeviceDescriptors
  <2>1. CASE QueuePacket
    <3> DEFINE D(x) == DescDist(descBegin, x)
               w == DescriptorsWritten(pkts[pktIndex])
    <3>1. pc = "fill" /\ queue \in {"running", "cancelling"}
      BY <1>1, <2>1 DEF QueuePacket, RingOrder
    <3>2. d \in DescIndex /\ D(d) < D(descEnd)
      BY <1>1, <3>1, DeviceOwnedPlace
    <3>3. D(descEnd) <= D(descIndex)
      BY <1>1, <3>1 DEF RingOrder
    <3>4. DescDist(descIndex, d) < w => D(descIndex) <= D(d)
      BY <1>1, <2>1, <3>2, QueuePacketPlace
    <3>5. D(d) \in Nat /\ D(descEnd) \in Nat /\ D(descIndex) \in Nat
      BY <1>1, <3>2, DescDistBound DEF TypeOK
    <3>6. ~ (DescDist(descIndex, d) < w)
      BY <3>2, <3>3, <3>4, <3>5
    <3>7. descs'[d] = descs[d]
      BY <2>1, <3>2, <3>6 DEF QueuePacket
    <3> QED
      BY <3>7
  <2>2. CASE ~QueuePacket /\ ~HwWriteBack /\ ~TxQueueCreate
    <3>1. descs' = descs
      BY <2>2 DEF Next, TxQueueStart, TxQueueCancel, TxQueueStop, TxQueueCleanup,
                  NetAddPacket, TxQueueAdvance, AdvanceBegin, ReapDescriptor, ReapDone,
                  QueueIgnored, AdvanceCommit, Cancelling, CancelDrained, CancelTimeout,
                  CancelDiscard, Hardware, HwFetch, descVars
    <3> QED
      BY <3>1
  <2> QED
    BY <2>1, <2>2
<1> QED
  BY <1>1, TypeCorrect, RingOrdered, PTL DEF Spec, DriverLeavesDeviceDescriptors

-----------------------------------------------------------------------------
(* The descriptors and the packets.                                        *)
(*                                                                         *)
(* D, P and F are the positions in the three rings, counted from where the *)
(* part that is in use begins.                                             *)

D(d) == DescDist(descBegin, d)
P(i) == PktDist(pktBegin, i)
F(f) == FragDist(fragBegin, f)

\* Descriptors have been filled up to here, for the packets up to there.
DescsFilled == IF pc = "fill" THEN descIndex ELSE descEnd
PktsFilled  == IF pc = "fill" THEN pktIndex ELSE pktNext

\* Descriptors have been found completed up to here, and the packets up to there.
DescsReaped == IF pc = "reap" THEN descIndex ELSE descBegin
PktsReaped  == IF pc = "reap" THEN pktIndex ELSE pktBegin

\* Behind the fragments of a packet, and the descriptor whose completion completes it.
FragsEnd(i) == F(pktFrag[i]) + Len(pkts[i].frags)
IsLast(d)   == descs[d].last /\ descs[d].type # "context"

\* When the queue is not in use the device has nothing to read, nor has a new queue.
UseInv ==
  /\ queue \notin {"running", "cancelling"} =>
       ~hwStart /\ hwDone = hwNext /\ (hwMid => hwTail = hwNext)
  /\ queue = "created" => pktNext = pktBegin /\ pktEnd = pktBegin /\ fragEnd = fragBegin

\* Packets have their fragments one after the other.
FragsInv ==
  RingActive =>
    \A i \in PktIndex : P(i) < P(pktEnd) =>
       /\ FragsEnd(i) <= F(fragEnd)
       /\ \A j \in PktIndex : P(i) < P(j) /\ P(j) < P(pktEnd) => FragsEnd(i) <= F(pktFrag[j])

\* Descriptors are for packets that are not ignored, in the order of the packets, and the
\* last one of a packet is the last one.
FilledInv ==
  RingActive =>
    /\ P(pktNext) <= P(PktsFilled) /\ P(PktsFilled) <= P(pktEnd)
    /\ \A d \in DescIndex : D(d) < D(descEnd) => P(descs[d].pkt) < P(pktNext)
    /\ \A d \in DescIndex : D(d) < D(DescsFilled) =>
         P(descs[d].pkt) < P(PktsFilled) /\ ~pkts[descs[d].pkt].ignore
    /\ \A d \in DescIndex, e \in DescIndex : D(d) < D(e) /\ D(e) < D(DescsFilled) =>
         /\ P(descs[d].pkt) <= P(descs[e].pkt)
         /\ IsLast(d) => descs[d].pkt # descs[e].pkt

\* No packet is without descriptors, but for those that are to be ignored.
LastInv ==
  RingActive =>
    \A i \in PktIndex :
       P(PktsReaped) <= P(i) /\ P(i) < P(PktsFilled) /\ ~pkts[i].ignore =>
         \E d \in DescIndex : /\ D(DescsReaped) <= D(d) /\ D(d) < D(DescsFilled)
                              /\ descs[d].pkt = i /\ IsLast(d)

\* The first loop of TxQueueAdvance stands at a packet whose descriptors are still to come,
\* and all fragments from *pktFragIndex on belong to packets from there on.
ReapInv ==
  pc = "reap" =>
    /\ P(pktIndex) <= P(pktNext) /\ F(pktFragIndex) <= F(fragEnd)
    /\ pktIndex = pktNext \/ ~pkts[pktIndex].ignore
    /\ \A d \in DescIndex :
         D(descIndex) <= D(d) /\ D(d) < D(descEnd) => P(pktIndex) <= P(descs[d].pkt)
    /\ \A i \in PktIndex :
         P(pktIndex) <= P(i) /\ P(i) < P(pktEnd) => F(pktFragIndex) <= F(pktFrag[i])

PacketInv == FragsInv /\ FilledInv /\ LastInv /\ ReapInv

\* What has been proved above, and the above.
IInv == TypeOK /\ RingOrder /\ UseInv /\ PacketInv

-----------------------------------------------------------------------------
(* Positions in the packet ring and the fragment ring.                     *)

\* Distances around a ring of n elements.
LEMMA RingDist ==
  ASSUME NEW n \in Nat \ {0}, NEW a \in 0 .. n - 1, NEW b \in 0 .. n - 1
  PROVE  (b - a) % n = IF b >= a THEN b - a ELSE b - a + n
  OBVIOUS

LEMMA RingFwd ==
  ASSUME NEW n \in Nat \ {0}, NEW a \in 0 .. n - 1, NEW k \in 0 .. n
  PROVE  (a + k) % n = IF a + k < n THEN a + k ELSE a + k - n
  OBVIOUS

\* The distance to a place, and to one k further on.
LEMMA RingPlace ==
  ASSUME NEW n \in Nat \ {0}, NEW a \in 0 .. n - 1, NEW b \in 0 .. n - 1
  PROVE  /\ (b - a) % n \in Nat /\ (b - a) % n < n
         /\ (a - a) % n = 0
         /\ \A k \in Nat : ((b - a) % n) + k < n =>
              /\ (b + k) % n \in 0 .. n - 1
              /\ (((b + k) % n) - a) % n = ((b - a) % n) + k
<1>1. (b - a) % n = IF b >= a THEN b - a ELSE b - a + n
  BY RingDist
<1>2. (a - a) % n = 0
  BY RingDist
<1>3. ASSUME NEW k \in Nat, ((b - a) % n) + k < n
      PROVE  /\ (b + k) % n \in 0 .. n - 1
             /\ (((b + k) % n) - a) % n = ((b - a) % n) + k
  <2>1. k \in 0 .. n
    BY <1>1, <1>3
  <2>2. (b + k) % n = IF b + k < n THEN b + k ELSE b + k - n
    BY <2>1, RingFwd
  <2> DEFINE c == (b + k) % n
  <2>3. c \in 0 .. n - 1
    BY <2>1, <2>2
  <2> HIDE DEF c
  <2>4. (c - a) % n = IF c >= a THEN c - a ELSE c - a + n
    BY <2>3, RingDist
  <2>5. c = IF b + k < n THEN b + k ELSE b + k - n
    BY <2>2 DEF c
  <2>6. (c - a) % n = ((b - a) % n) + k
    BY <1>1, <1>3, <2>3, <2>4, <2>5
  <2> QED BY <2>3, <2>6 DEF c
<1> QED BY <1>1, <1>2, <1>3

LEMMA PktPlace ==
  ASSUME NEW a \in PktIndex, NEW b \in PktIndex
  PROVE  /\ PktDist(a, b) \in Nat /\ PktDist(a, b) < PktCount
         /\ PktDist(a, a) = 0
         /\ \A k \in Nat : PktDist(a, b) + k < PktCount =>
              PktFwd(b, k) \in PktIndex /\ PktDist(a, PktFwd(b, k)) = PktDist(a, b) + k
  BY SizesAssumption, RingPlace, PktIndexes DEF PktIndex, PktDist, PktFwd

\* Seen from b instead of a.
LEMMA PktRebase ==
  ASSUME NEW a \in PktIndex, NEW b \in PktIndex, NEW c \in PktIndex
  PROVE  /\ PktDist(b, c) = IF PktDist(a, b) <= PktDist(a, c)
                               THEN PktDist(a, c) - PktDist(a, b)
                               ELSE PktDist(a, c) - PktDist(a, b) + PktCount
         /\ PktDist(a, b) = PktDist(a, c) => b = c
<1>1. /\ PktDist(a, b) = IF b >= a THEN b - a ELSE b - a + PktCount
      /\ PktDist(a, c) = IF c >= a THEN c - a ELSE c - a + PktCount
      /\ PktDist(b, c) = IF c >= b THEN c - b ELSE c - b + PktCount
  BY SizesAssumption, RingDist DEF PktIndex, PktDist
<1> QED BY <1>1, SizesAssumption DEF PktIndex

LEMMA FragPlace ==
  ASSUME NEW a \in FragIndex, NEW b \in FragIndex
  PROVE  /\ FragDist(a, b) \in Nat /\ FragDist(a, b) < FragCount
         /\ FragDist(a, a) = 0
         /\ \A k \in Nat : FragDist(a, b) + k < FragCount =>
              FragFwd(b, k) \in FragIndex /\ FragDist(a, FragFwd(b, k)) = FragDist(a, b) + k
  BY SizesAssumption, RingPlace DEF FragIndex, FragDist, FragFwd

LEMMA FragRebase ==
  ASSUME NEW a \in FragIndex, NEW b \in FragIndex, NEW c \in FragIndex
  PROVE  /\ FragDist(a, b) <= FragDist(a, c) => FragDist(b, c) = FragDist(a, c) - FragDist(a, b)
         /\ FragDist(a, b) = FragDist(a, c) => b = c
<1>1. /\ FragDist(a, b) = IF b >= a THEN b - a ELSE b - a + FragCount
      /\ FragDist(a, c) = IF c >= a THEN c - a ELSE c - a + FragCount
      /\ FragDist(b, c) = IF c >= b THEN c - b ELSE c - b + FragCount
  BY SizesAssumption, RingDist DEF FragIndex, FragDist
<1> QED BY <1>1, SizesAssumption DEF FragIndex

\* All positions are numbers, and a position belongs to one index.
LEMMA Positions ==
  ASSUME TypeOK
  PROVE  /\ \A d \in DescIndex : D(d) \in Nat /\ D(d) < DescCount
         /\ \A i \in PktIndex : P(i) \in Nat /\ P(i) < PktCount
         /\ \A f \in FragIndex : F(f) \in Nat /\ F(f) < FragCount
         /\ \A d \in DescIndex, e \in DescIndex : D(d) = D(e) => d = e
         /\ \A i \in PktIndex, j \in PktIndex : P(i) = P(j) => i = j
         /\ D(descBegin) = 0 /\ P(pktBegin) = 0 /\ F(fragBegin) = 0
<1>1. descBegin \in DescIndex /\ pktBegin \in PktIndex /\ fragBegin \in FragIndex
  BY DEF TypeOK
<1>2. /\ \A d \in DescIndex : D(d) \in Nat /\ D(d) < DescCount
      /\ \A d \in DescIndex, e \in DescIndex : D(d) = D(e) => d = e
      /\ D(descBegin) = 0
  BY <1>1, DescDistBound, DescDistInjective, DescDistSelf DEF D
<1>3. /\ \A i \in PktIndex : P(i) \in Nat /\ P(i) < PktCount
      /\ \A i \in PktIndex, j \in PktIndex : P(i) = P(j) => i = j
      /\ P(pktBegin) = 0
  BY <1>1, PktPlace, PktRebase DEF P
<1>4. (\A f \in FragIndex : F(f) \in Nat /\ F(f) < FragCount) /\ F(fragBegin) = 0
  BY <1>1, FragPlace DEF F
<1> QED BY <1>2, <1>3, <1>4

\* SkipIgnorePackets finds the first packet that is not to be ignored, or pktNext.
LEMMA SkipPlace ==
  ASSUME TypeOK, NEW i \in PktIndex, P(i) <= P(pktNext), NEW s, s = SkipIgnorePackets(i)
  PROVE  /\ s \in PktIndex /\ P(i) <= P(s) /\ P(s) <= P(pktNext)
         /\ s = pktNext \/ ~pkts[s].ignore
         /\ \A j \in PktIndex : P(i) <= P(j) /\ P(j) < P(pktNext) /\ ~pkts[j].ignore => P(s) <= P(j)
<1> DEFINE dist == PktDist(i, pktNext)
           E == {d \in 0 .. dist : d = dist \/ ~pkts[PktFwd(i, d)].ignore}
           k == Min(E)
<1>1. pktBegin \in PktIndex /\ pktNext \in PktIndex
  BY DEF TypeOK
<1>2. dist \in Nat /\ dist = P(pktNext) - P(i)
  BY <1>1, PktPlace, PktRebase DEF P
<1>3. \A x \in PktIndex : P(x) \in Nat /\ P(x) < PktCount
  BY Positions
<1>4. E \subseteq Nat /\ E # {}
  BY <1>2
<1>5. k \in E /\ \A y \in E : k <= y
  BY <1>4, MinOfNaturals
<1>6. s = PktFwd(i, k)
  BY Zenon DEF SkipIgnorePackets
<1>7. k \in Nat /\ k <= dist /\ (k = dist \/ ~pkts[PktFwd(i, k)].ignore)
  BY <1>2, <1>5
<1> HIDE DEF k, E, dist
<1>8. s \in PktIndex /\ P(s) = P(i) + k
  <2>1. P(i) + k < PktCount
    BY <1>1, <1>2, <1>3, <1>7, SizesAssumption
  <2> QED BY <1>1, <1>6, <1>7, <2>1, PktPlace DEF P
<1>9. s = pktNext \/ ~pkts[s].ignore
  <2>1. CASE k = dist
    <3>1. P(s) = P(pktNext)
      BY <1>1, <1>2, <1>3, <1>8, <2>1
    <3> QED BY <1>1, <1>8, <3>1, Positions
  <2>2. CASE k # dist
    BY <1>6, <1>7, <2>2
  <2> QED BY <2>1, <2>2
<1>10. ASSUME NEW j \in PktIndex, P(i) <= P(j), P(j) < P(pktNext), ~pkts[j].ignore
       PROVE  P(s) <= P(j)
  <2> DEFINE m == P(j) - P(i)
  <2>1. m \in 0 .. dist /\ P(i) + m < PktCount /\ P(i) + m = P(j)
    BY <1>1, <1>2, <1>3, <1>10
  <2> HIDE DEF m
  <2>2. PktFwd(i, m) \in PktIndex /\ P(PktFwd(i, m)) = P(j)
    BY <1>1, <1>2, <2>1, PktPlace DEF P
  <2>3. PktFwd(i, m) = j
    BY <2>2, Positions
  <2>4. m \in E
    BY <1>10, <2>1, <2>3 DEF E
  <2>5. k <= m
    BY <1>5, <2>4
  <2> QED BY <1>3, <1>7, <1>8, <1>2, <2>1, <2>5
<1>11. P(i) <= P(s) /\ P(s) <= P(pktNext)
  BY <1>1, <1>2, <1>3, <1>7, <1>8
<1> QED BY <1>8, <1>9, <1>10, <1>11

\* The types of what positions are taken of.
LEMMA PacketTypes ==
  ASSUME TypeOK
  PROVE  /\ \A i \in PktIndex : /\ Len(pkts[i].frags) \in Nat /\ pktFrag[i] \in FragIndex
                               /\ FragsEnd(i) \in Nat
         /\ \A d \in DescIndex : descs[d].pkt \in PktIndex
         /\ DescsFilled \in DescIndex /\ DescsReaped \in DescIndex
         /\ PktsFilled \in PktIndex /\ PktsReaped \in PktIndex
<1>1. ASSUME NEW i \in PktIndex
      PROVE  Len(pkts[i].frags) \in Nat /\ pktFrag[i] \in FragIndex /\ FragsEnd(i) \in Nat
  <2>1. Len(pkts[i].frags) \in Nat
    BY PacketFacts DEF TypeOK
  <2>2. pktFrag[i] \in FragIndex
    BY DEF TypeOK
  <2>3. F(pktFrag[i]) \in Nat
    BY <2>2, Positions
  <2> QED BY <2>1, <2>2, <2>3 DEF FragsEnd
<1>2. \A d \in DescIndex : descs[d].pkt \in PktIndex
  BY DEF TypeOK, DescriptorType
<1>3. /\ DescsFilled \in DescIndex /\ DescsReaped \in DescIndex
      /\ PktsFilled \in PktIndex /\ PktsReaped \in PktIndex
  BY DEF TypeOK, DescsFilled, DescsReaped, PktsFilled, PktsReaped
<1> QED BY <1>1, <1>2, <1>3

-----------------------------------------------------------------------------
(* Steps that leave the packets alone.                                     *)

\* The device, and a stop of it, change nothing that descriptors say of packets.
LEMMA SamePackets ==
  ASSUME PacketInv, RingActive' => RingActive,
         (pc = "reap" <=> pc' = "reap") /\ (pc = "fill" <=> pc' = "fill"),
         UNCHANGED <<netVars, ringVars, descBegin, descEnd, locals>>,
         \A d \in DescIndex : /\ descs'[d].pkt = descs[d].pkt /\ descs'[d].last = descs[d].last
                             /\ descs'[d].type = descs[d].type
  PROVE  PacketInv'
<1>1. UNCHANGED <<pktBegin, pktNext, pktEnd, pkts, fragBegin, fragEnd, pktFrag, descBegin, descEnd,
                  descIndex, pktIndex, pktFragIndex>>
  BY DEF netVars, ringVars, locals
<1>2. /\ \A d : D(d)' = D(d)
      /\ \A i : P(i)' = P(i)
      /\ \A f : F(f)' = F(f)
      /\ \A d \in DescIndex : IsLast(d)' = IsLast(d)
      /\ \A i : FragsEnd(i)' = FragsEnd(i)
      /\ DescsFilled' = DescsFilled /\ PktsFilled' = PktsFilled
      /\ DescsReaped' = DescsReaped /\ PktsReaped' = PktsReaped
  BY <1>1 DEF D, P, F, IsLast, FragsEnd, DescsFilled, PktsFilled, DescsReaped, PktsReaped
<1>3. FragsInv'
  BY <1>1, <1>2 DEF PacketInv, FragsInv
<1>4. FilledInv'
  BY <1>1, <1>2 DEF PacketInv, FilledInv
<1>5. LastInv'
  BY <1>1, <1>2 DEF PacketInv, LastInv
<1>6. ReapInv'
  BY <1>1, <1>2 DEF PacketInv, ReapInv
<1> QED BY <1>3, <1>4, <1>5, <1>6 DEF PacketInv

\* Outside of use nothing is said of packets.
LEMMA NotActive ==
  ASSUME ~RingActive, pc # "reap"
  PROVE  PacketInv
  BY DEF PacketInv, FragsInv, FilledInv, LastInv, ReapInv

\* A queue starts with empty rings.
LEMMA StartKeeps ==
  ASSUME IInv, TypeOK', TxQueueStart
  PROVE  PacketInv'
<1>1. /\ pc' = "idle" /\ descBegin' = 0 /\ descEnd' = 0
      /\ pktNext' = pktBegin' /\ pktEnd' = pktBegin'
  BY DEF TxQueueStart, IInv, UseInv, RingOrder, netVars, ringVars
<1>2. DescDist(0, 0) = 0 /\ \A d \in DescIndex : DescDist(0, d) \in Nat
  BY Zeros, DescDistSelf, DescDistBound
<1>3. PktDist(pktBegin', pktBegin') = 0 /\ \A i \in PktIndex : PktDist(pktBegin', i) \in Nat
  BY PktPlace DEF TypeOK
<1>4. /\ D(descEnd)' = 0 /\ \A d \in DescIndex : ~ (D(d)' < 0)
      /\ P(pktNext)' = 0 /\ P(pktEnd)' = 0 /\ \A i \in PktIndex : ~ (P(i)' < 0)
  BY <1>1, <1>2, <1>3 DEF D, P
<1>5. DescsFilled' = descEnd' /\ PktsFilled' = pktNext'
  BY <1>1 DEF DescsFilled, PktsFilled
<1>6. FragsInv' /\ ReapInv' /\ LastInv'
  BY <1>1, <1>4, <1>5 DEF FragsInv, ReapInv, LastInv
<1>7. FilledInv'
  BY <1>1, <1>4, <1>5 DEF FilledInv
<1> QED BY <1>6, <1>7 DEF PacketInv

\* So do the other steps of the life of the queue.
LEMMA LifecycleKeeps ==
  ASSUME IInv, TypeOK', RingOrder',
         \/ TxQueueCreate \/ TxQueueStart \/ TxQueueStop \/ TxQueueCleanup
         \/ CancelTimeout \/ CancelDiscard
  PROVE  PacketInv'
<1>1. CASE ~TxQueueStart
  <2>1. (~RingActive /\ pc # "reap")'
    BY <1>1 DEF TxQueueCreate, TxQueueStop, TxQueueCleanup, CancelTimeout, CancelDiscard,
                IInv, RingActive, RingOrder
  <2> QED BY <2>1 DEF PacketInv, FragsInv, FilledInv, LastInv, ReapInv
<1> QED BY <1>1, StartKeeps

\* The device, the loop of TxQueueCancel before it, and a step that changes nothing.
LEMMA DeviceKeeps ==
  ASSUME IInv, TxQueueCancel \/ HwFetch \/ HwWriteBack \/ UNCHANGED vars
  PROVE  PacketInv'
<1>1. /\ (pc = "reap" <=> pc' = "reap") /\ (pc = "fill" <=> pc' = "fill")
      /\ UNCHANGED <<netVars, ringVars, descBegin, descEnd, locals>>
      /\ RingActive' => RingActive
  BY DEF TxQueueCancel, HwFetch, HwWriteBack, vars, descVars, RingActive
<1>2. ASSUME NEW d \in DescIndex
      PROVE  descs'[d].pkt = descs[d].pkt /\ descs'[d].last = descs[d].last
             /\ descs'[d].type = descs[d].type
  <2>1. CASE HwWriteBack
    BY <2>1 DEF HwWriteBack, IInv, TypeOK, DescriptorType
  <2>2. CASE ~HwWriteBack
    BY <2>2 DEF TxQueueCancel, HwFetch, vars, descVars
  <2> QED BY <2>1, <2>2
<1> QED BY <1>1, <1>2, SamePackets DEF IInv

-----------------------------------------------------------------------------
(* Steps that move packets.                                                *)

\* A packet that NetAdapterCx adds gets the fragments behind those in use.
LEMMA AddPacketKeeps ==
  ASSUME IInv, TypeOK', NEW p \in Packets, NetAddPacket(p)
  PROVE  PacketInv'
<1>1. /\ queue = "running" /\ pc = "idle" /\ RingActive
      /\ P(pktEnd) + 1 < PktCount /\ F(fragEnd) + Len(p.frags) < FragCount
      /\ pkts' = [pkts EXCEPT ![pktEnd] = p] /\ pktFrag' = [pktFrag EXCEPT ![pktEnd] = fragEnd]
      /\ pktEnd' = PktFwd(pktEnd, 1) /\ fragEnd' = FragFwd(fragEnd, Len(p.frags))
      /\ UNCHANGED <<queue, pc, pktBegin, pktNext, fragBegin, descBegin, descEnd, descs,
                     descIndex, pktIndex, pktFragIndex>>
  BY DEF NetAddPacket, RingActive, P, F, ringVars, descVars, locals
<1>2. /\ \A d : D(d)' = D(d)
      /\ \A i : P(i)' = PktDist(pktBegin, i)
      /\ \A f : F(f)' = FragDist(fragBegin, f)
      /\ \A d \in DescIndex : IsLast(d)' = IsLast(d)
      /\ DescsFilled' = DescsFilled /\ PktsFilled' = PktsFilled /\ PktsFilled = pktNext
      /\ DescsReaped' = DescsReaped /\ PktsReaped' = PktsReaped
  BY <1>1 DEF D, P, F, IsLast, FragsEnd, DescsFilled, PktsFilled, DescsReaped, PktsReaped
<1>3. /\ \A i \in PktIndex : P(i) \in Nat
      /\ \A f \in FragIndex : F(f) \in Nat
      /\ pktEnd \in PktIndex /\ pktNext \in PktIndex /\ fragEnd \in FragIndex
      /\ Len(p.frags) \in Nat
  BY Positions, PacketFacts DEF IInv, TypeOK
<1>4. P(pktEnd)' = P(pktEnd) + 1 /\ F(fragEnd)' = F(fragEnd) + Len(p.frags)
  <2>1. pktBegin \in PktIndex /\ fragBegin \in FragIndex
    BY DEF IInv, TypeOK
  <2>2. PktDist(pktBegin, PktFwd(pktEnd, 1)) = PktDist(pktBegin, pktEnd) + 1
    BY <1>1, <1>3, <2>1, PktPlace DEF P
  <2>3. FragDist(fragBegin, FragFwd(fragEnd, Len(p.frags))) = FragDist(fragBegin, fragEnd) + Len(p.frags)
    BY <1>1, <1>3, <2>1, FragPlace DEF F
  <2> QED BY <1>1, <2>2, <2>3 DEF P, F
<1>5. \A i \in PktIndex : i # pktEnd =>
        /\ pkts'[i] = pkts[i] /\ pktFrag'[i] = pktFrag[i] /\ FragsEnd(i)' = FragsEnd(i)
        /\ F(pktFrag[i])' = F(pktFrag[i])
  <2> SUFFICES ASSUME NEW i \in PktIndex, i # pktEnd
               PROVE  /\ pkts'[i] = pkts[i] /\ pktFrag'[i] = pktFrag[i]
                      /\ FragsEnd(i)' = FragsEnd(i) /\ F(pktFrag[i])' = F(pktFrag[i])
    OBVIOUS
  <2>1. pkts'[i] = pkts[i] /\ pktFrag'[i] = pktFrag[i]
    BY <1>1 DEF IInv, TypeOK
  <2> QED BY <1>1, <2>1 DEF FragsEnd, F
<1>6. \A i \in PktIndex : i = pktEnd =>
        F(pktFrag[i])' = F(fragEnd) /\ FragsEnd(i)' = F(fragEnd)' /\ P(i)' = P(pktEnd)
  <2> SUFFICES ASSUME NEW i \in PktIndex, i = pktEnd
               PROVE  F(pktFrag[i])' = F(fragEnd) /\ FragsEnd(i)' = F(fragEnd)' /\ P(i)' = P(pktEnd)
    OBVIOUS
  <2>1. pkts'[i] = p /\ pktFrag'[i] = fragEnd
    BY <1>1 DEF IInv, TypeOK
  <2>2. F(pktFrag[i])' = F(fragEnd)
    BY <1>1, <2>1 DEF F
  <2> QED BY <1>1, <1>4, <2>1, <2>2 DEF FragsEnd, P
<1>7. FragsInv'
  <2> SUFFICES ASSUME NEW i \in PktIndex, P(i) < P(pktEnd) + 1
               PROVE  /\ FragsEnd(i)' <= F(fragEnd)'
                      /\ \A j \in PktIndex : P(i) < P(j) /\ P(j) < P(pktEnd) + 1 =>
                           FragsEnd(i)' <= F(pktFrag[j])'
    BY <1>2, <1>4 DEF FragsInv, P
  <2>1. FragsEnd(i) \in Nat /\ F(fragEnd) \in Nat /\ P(i) \in Nat
    BY <1>3, PacketTypes DEF IInv
  <2>2. CASE i = pktEnd
    BY <1>1, <1>3, <1>4, <1>6, <2>2
  <2>3. CASE i # pktEnd
    <3>1. P(i) < P(pktEnd)
      BY <1>3, <2>3, Positions DEF IInv
    <3>2. /\ FragsEnd(i)' = FragsEnd(i) /\ FragsEnd(i) <= F(fragEnd)
          /\ \A j \in PktIndex : P(i) < P(j) /\ P(j) < P(pktEnd) => FragsEnd(i) <= F(pktFrag[j])
      BY <1>1, <1>5, <2>3, <3>1 DEF IInv, PacketInv, FragsInv
    <3>3. ASSUME NEW j \in PktIndex, P(i) < P(j), P(j) < P(pktEnd) + 1
          PROVE  FragsEnd(i)' <= F(pktFrag[j])'
      <4>1. CASE j = pktEnd
        BY <1>6, <3>2, <4>1
      <4>2. CASE j # pktEnd
        <5>1. P(j) < P(pktEnd)
          BY <1>3, <3>3, <4>2, Positions DEF IInv
        <5> QED BY <1>5, <3>2, <3>3, <4>2, <5>1
      <4> QED BY <4>1, <4>2
    <3> QED BY <1>3, <1>4, <2>1, <3>2, <3>3
  <2> QED BY <2>2, <2>3
<1>8. \A i \in PktIndex : P(i) < P(pktNext) => i # pktEnd
  BY <1>1, <1>2, <1>3 DEF IInv, PacketInv, FilledInv
<1>9. FilledInv'
  <2>1. P(pktNext) <= P(PktsFilled) /\ P(PktsFilled) <= P(pktEnd)' /\ P(PktsFilled)' = P(PktsFilled)
        /\ P(pktNext)' = P(pktNext)
    BY <1>1, <1>2, <1>3, <1>4 DEF IInv, PacketInv, FilledInv, P
  <2>2. \A d \in DescIndex : D(d) < D(descEnd) => P(descs[d].pkt) < P(pktNext)
    BY <1>1 DEF IInv, PacketInv, FilledInv
  <2>3. \A d \in DescIndex : D(d) < D(DescsFilled) =>
          P(descs[d].pkt) < P(PktsFilled) /\ ~pkts[descs[d].pkt].ignore
    BY <1>1 DEF IInv, PacketInv, FilledInv
  <2>4. \A d \in DescIndex : D(d) < D(DescsFilled) => ~pkts'[descs[d].pkt].ignore
    BY <1>2, <1>5, <1>8, <2>3, PacketTypes DEF IInv
  <2>5. \A d \in DescIndex : P(descs[d].pkt)' = P(descs[d].pkt)
    BY <1>1 DEF P
  <2>6. \A d \in DescIndex, e \in DescIndex : D(d) < D(e) /\ D(e) < D(DescsFilled) =>
          P(descs[d].pkt) <= P(descs[e].pkt) /\ (IsLast(d) => descs[d].pkt # descs[e].pkt)
    BY <1>1 DEF IInv, PacketInv, FilledInv
  <2>7. D(descEnd)' = D(descEnd) /\ D(DescsFilled)' = D(DescsFilled)
    BY <1>1, <1>2 DEF D
  <2> QED BY <1>1, <1>2, <2>1, <2>2, <2>3, <2>4, <2>5, <2>6, <2>7 DEF FilledInv
<1>10. LastInv'
  <2> SUFFICES ASSUME NEW i \in PktIndex, P(PktsReaped) <= P(i), P(i) < P(pktNext), ~pkts'[i].ignore
               PROVE  \E d \in DescIndex : /\ D(DescsReaped) <= D(d) /\ D(d) < D(DescsFilled)
                                           /\ descs[d].pkt = i /\ IsLast(d)
    BY <1>1, <1>2 DEF LastInv, P, D
  <2>1. ~pkts[i].ignore
    BY <1>5, <1>8
  <2> QED BY <1>1, <1>2, <2>1 DEF IInv, PacketInv, LastInv
<1> QED
  BY <1>1, <1>7, <1>9, <1>10 DEF PacketInv, ReapInv

\* Where the first loop of TxQueueAdvance stands after SkipIgnorePackets, which leaves
\* behind ignored packets only.
LEMMA SkipKeeps ==
  ASSUME IInv, RingActive, NEW i \in PktIndex, P(i) <= P(pktNext),
         NEW f \in FragIndex, F(f) <= F(fragEnd),
         \A j \in PktIndex : P(i) <= P(j) /\ P(j) < P(pktEnd) => F(f) <= F(pktFrag[j]),
         NEW s, s = SkipIgnorePackets(i), NEW g, g = SkipFragIndex(i, f)
  PROVE  /\ g \in FragIndex /\ F(g) <= F(fragEnd)
         /\ \A j \in PktIndex : P(s) <= P(j) /\ P(j) < P(pktEnd) => F(g) <= F(pktFrag[j])
<1>1. s \in PktIndex /\ P(i) <= P(s) /\ P(s) <= P(pktNext) /\ P(pktNext) <= P(pktEnd)
  <2>1. TypeOK /\ P(pktNext) <= P(PktsFilled) /\ P(PktsFilled) <= P(pktEnd)
    BY DEF IInv, PacketInv, FilledInv
  <2>2. P(pktNext) \in Nat /\ P(PktsFilled) \in Nat /\ P(pktEnd) \in Nat
    BY <2>1, Positions, PacketTypes DEF TypeOK
  <2>3. P(pktNext) <= P(pktEnd)
    BY <2>1, <2>2
  <2> QED BY <2>1, <2>3, SkipPlace
<1>2. g = IF s = pktNext THEN f ELSE pktFrag[s]
  BY DEF SkipFragIndex
<1>3. /\ \A x \in PktIndex : P(x) \in Nat
      /\ \A x \in FragIndex : F(x) \in Nat
      /\ \A x \in PktIndex : Len(pkts[x].frags) \in Nat /\ pktFrag[x] \in FragIndex
      /\ fragEnd \in FragIndex /\ pktEnd \in PktIndex /\ pktNext \in PktIndex
  BY Positions, PacketTypes DEF IInv, TypeOK
<1>4. CASE s = pktNext
  <2>1. g = f
    BY <1>2, <1>4
  <2> QED BY <1>1, <1>3, <2>1
<1>5. CASE s # pktNext
  <2>1. g = pktFrag[s] /\ g \in FragIndex
    BY <1>1, <1>2, <1>3, <1>5
  <2>2. P(s) < P(pktEnd)
    <3>1. P(s) # P(pktNext)
      BY <1>1, <1>3, <1>5, Positions DEF IInv
    <3> QED BY <1>1, <1>3, <3>1
  <2>3. /\ FragsEnd(s) <= F(fragEnd)
        /\ \A j \in PktIndex : P(s) < P(j) /\ P(j) < P(pktEnd) => FragsEnd(s) <= F(pktFrag[j])
    BY <1>1, <2>2 DEF IInv, PacketInv, FragsInv
  <2>4. FragsEnd(s) \in Nat /\ F(g) \in Nat /\ F(g) <= FragsEnd(s)
    <3>1. F(g) \in Nat /\ Len(pkts[s].frags) \in Nat
      BY <1>1, <1>3, <2>1
    <3>2. FragsEnd(s) = F(g) + Len(pkts[s].frags)
      BY <2>1 DEF FragsEnd
    <3> QED BY <3>1, <3>2
  <2>5. F(g) <= F(fragEnd)
    BY <1>3, <2>3, <2>4
  <2>6. ASSUME NEW j \in PktIndex, P(s) <= P(j), P(j) < P(pktEnd)
        PROVE  F(g) <= F(pktFrag[j])
    <3>1. CASE j = s
      BY <1>3, <2>1, <2>4, <3>1
    <3>2. CASE j # s
      <4>1. P(s) # P(j)
        BY <1>1, <3>2, Positions DEF IInv
      <4>2. P(s) < P(j)
        BY <1>1, <1>3, <2>6, <4>1
      <4>3. F(pktFrag[j]) \in Nat /\ FragsEnd(s) <= F(pktFrag[j])
        BY <1>3, <2>3, <2>6, <4>2
      <4> QED BY <2>4, <4>3
    <3> QED BY <3>1, <3>2
  <2> QED BY <2>1, <2>5, <2>6
<1> QED BY <1>4, <1>5

\* TxQueueAdvance begins at the first packet that is not to be ignored.
LEMMA EnterKeeps ==
  ASSUME IInv, AdvanceBegin \/ CancelDrained
  PROVE  PacketInv'
<1> DEFINE s == SkipIgnorePackets(pktBegin)
           g == SkipFragIndex(pktBegin, fragBegin)
<1>1. /\ RingActive /\ pc \in {"idle", "drain"} /\ pc' = "reap"
      /\ descIndex' = descBegin /\ pktIndex' = s /\ pktFragIndex' = g
      /\ UNCHANGED <<queue, pktBegin, pktNext, pktEnd, pkts, fragBegin, fragEnd, pktFrag,
                     descBegin, descEnd, descs>>
  BY DEF AdvanceBegin, CancelDrained, EnterAdvance, RingActive, IInv, RingOrder,
         netVars, ringVars, descVars
<1>2. /\ \A x \in DescIndex : D(x) \in Nat
      /\ \A x \in PktIndex : P(x) \in Nat
      /\ \A x \in FragIndex : F(x) \in Nat
      /\ D(descBegin) = 0 /\ P(pktBegin) = 0 /\ F(fragBegin) = 0
      /\ pktBegin \in PktIndex /\ pktNext \in PktIndex /\ pktEnd \in PktIndex
      /\ fragBegin \in FragIndex /\ fragEnd \in FragIndex /\ descBegin \in DescIndex
      /\ \A x \in DescIndex : descs[x].pkt \in PktIndex
      /\ \A x \in PktIndex : pktFrag[x] \in FragIndex
  BY Positions, PacketTypes DEF IInv, TypeOK
<1>3. /\ s \in PktIndex /\ P(s) <= P(pktNext)
      /\ s = pktNext \/ ~pkts[s].ignore
      /\ \A j \in PktIndex : P(pktBegin) <= P(j) /\ P(j) < P(pktNext) /\ ~pkts[j].ignore => P(s) <= P(j)
  BY <1>2, SkipPlace DEF IInv
<1>4. /\ g \in FragIndex /\ F(g) <= F(fragEnd)
      /\ \A j \in PktIndex : P(s) <= P(j) /\ P(j) < P(pktEnd) => F(g) <= F(pktFrag[j])
  BY <1>1, <1>2, SkipKeeps
<1> HIDE DEF s, g
<1>5. /\ \A x : D(x)' = D(x)
      /\ \A x : P(x)' = P(x)
      /\ \A x : F(x)' = F(x)
      /\ \A d \in DescIndex : IsLast(d)' = IsLast(d)
      /\ \A i : FragsEnd(i)' = FragsEnd(i)
      /\ DescsFilled' = DescsFilled /\ PktsFilled' = PktsFilled
      /\ PktsFilled = pktNext /\ DescsFilled = descEnd
      /\ DescsReaped' = descBegin /\ PktsReaped' = s
      /\ DescsReaped = descBegin /\ PktsReaped = pktBegin
  BY <1>1 DEF D, P, F, IsLast, FragsEnd, DescsFilled, PktsFilled, DescsReaped, PktsReaped
<1>6. RingActive'
  BY <1>1 DEF RingActive
<1>7. FragsInv'
  BY <1>1, <1>5 DEF IInv, PacketInv, FragsInv
<1>8. FilledInv'
  BY <1>1, <1>5 DEF IInv, PacketInv, FilledInv
<1>9. LastInv'
  BY <1>1, <1>2, <1>3, <1>5 DEF IInv, PacketInv, LastInv, P, D
<1>10. ReapInv'
  <2>1. \A d \in DescIndex : D(d) < D(descEnd) => P(s) <= P(descs[d].pkt)
    BY <1>1, <1>2, <1>3, <1>5 DEF IInv, PacketInv, FilledInv
  <2>2. P(pktIndex)' = P(s) /\ F(pktFragIndex)' = F(g)
    BY <1>1 DEF P, F
  <2> QED BY <1>1, <1>3, <1>4, <1>5, <2>1, <2>2 DEF ReapInv
<1> QED BY <1>7, <1>8, <1>9, <1>10 DEF PacketInv

-----------------------------------------------------------------------------
(* The first loop of TxQueueAdvance.                                       *)

\* The descriptor it stands at belongs to the packet it stands at.
LEMMA ReapedFollows ==
  ASSUME IInv, pc = "reap", descIndex # descEnd
  PROVE  /\ RingActive /\ D(descIndex) < D(descEnd)
         /\ P(pktIndex) < P(pktNext) /\ P(pktNext) <= P(pktEnd)
         /\ descs[descIndex].pkt = pktIndex
<1>1. RingActive
  BY DEF IInv, RingOrder, RingActive
<1>2. /\ descIndex \in DescIndex /\ descEnd \in DescIndex /\ hwDone \in DescIndex /\ hwNext \in DescIndex
      /\ pktIndex \in PktIndex /\ pktNext \in PktIndex /\ pktEnd \in PktIndex
      /\ \A x \in DescIndex : D(x) \in Nat /\ descs[x].pkt \in PktIndex
      /\ \A x \in PktIndex : P(x) \in Nat
  BY Positions, PacketTypes DEF IInv, TypeOK
<1>3. D(descIndex) < D(descEnd)
  <2>1. D(descIndex) <= D(hwDone) /\ D(hwDone) <= D(hwNext) /\ D(hwNext) <= D(descEnd)
    BY <1>1 DEF IInv, RingOrder, D
  <2>2. D(descIndex) # D(descEnd)
    BY <1>2, Positions DEF IInv
  <2> QED BY <1>2, <2>1, <2>2
<1>4. DescsFilled = descEnd /\ PktsFilled = pktNext /\ DescsReaped = descIndex /\ PktsReaped = pktIndex
  BY DEF DescsFilled, PktsFilled, DescsReaped, PktsReaped
<1>5. P(pktIndex) <= P(descs[descIndex].pkt) /\ P(descs[descIndex].pkt) < P(pktNext)
      /\ P(pktNext) <= P(pktEnd)
  BY <1>1, <1>2, <1>3, <1>4 DEF IInv, PacketInv, ReapInv, FilledInv
<1>6. P(pktIndex) < P(pktNext)
  BY <1>2, <1>5
<1>7. PICK e \in DescIndex : D(descIndex) <= D(e) /\ D(e) < D(descEnd) /\ descs[e].pkt = pktIndex
  <2>1. pktIndex # pktNext
    BY <1>2, <1>6
  <2>2. ~pkts[pktIndex].ignore
    BY <2>1 DEF IInv, PacketInv, ReapInv
  <2> QED BY <1>1, <1>2, <1>4, <1>6, <2>2 DEF IInv, PacketInv, LastInv
<1>8. descs[descIndex].pkt = pktIndex
  <2>1. CASE e = descIndex
    BY <1>7, <2>1
  <2>2. CASE e # descIndex
    <3>1. D(descIndex) < D(e)
      BY <1>2, <1>7, <2>2, Positions DEF IInv
    <3>2. P(descs[descIndex].pkt) <= P(pktIndex)
      BY <1>1, <1>2, <1>4, <1>7, <3>1 DEF IInv, PacketInv, FilledInv
    <3>3. P(descs[descIndex].pkt) = P(pktIndex)
      BY <1>2, <1>5, <3>2
    <3> QED BY <1>2, <3>3, Positions DEF IInv
  <2> QED BY <2>1, <2>2
<1> QED BY <1>1, <1>3, <1>5, <1>6, <1>8

\* A completed descriptor that is not the last one of its packet.
LEMMA ReapPartKeeps ==
  ASSUME IInv, ReapDescriptor, ~IsLast(descIndex)
  PROVE  PacketInv'
<1>1. /\ pc = "reap" /\ descIndex # descEnd /\ descIndex' = DescFwd(descIndex, 1)
      /\ UNCHANGED <<queue, pc, pktBegin, pktNext, pktEnd, pkts, fragBegin, fragEnd, pktFrag,
                     descBegin, descEnd, descs, pktIndex, pktFragIndex>>
  BY DEF ReapDescriptor, IsLast, netVars, ringVars, descVars
<1>2. /\ descIndex \in DescIndex /\ descEnd \in DescIndex /\ descBegin \in DescIndex
      /\ \A x \in DescIndex : D(x) \in Nat /\ D(x) < DescCount
  BY Positions DEF IInv, TypeOK
<1>3. RingActive /\ D(descIndex) < D(descEnd)
  BY <1>1, ReapedFollows
<1>4. D(descIndex)' = D(descIndex) + 1
  <2>1. D(descIndex) + 1 < DescCount
    BY <1>2, <1>3, SizesAssumption
  <2> QED BY <1>1, <1>2, <2>1, DescDistFwd DEF D
<1>5. /\ \A x : D(x)' = D(x)
      /\ \A x : P(x)' = P(x)
      /\ \A x : F(x)' = F(x)
      /\ \A d \in DescIndex : IsLast(d)' = IsLast(d)
      /\ \A i : FragsEnd(i)' = FragsEnd(i)
      /\ DescsFilled' = descEnd /\ DescsFilled = descEnd
      /\ PktsFilled' = pktNext /\ PktsFilled = pktNext
      /\ DescsReaped' = descIndex' /\ DescsReaped = descIndex
      /\ PktsReaped' = pktIndex /\ PktsReaped = pktIndex
  BY <1>1 DEF D, P, F, IsLast, FragsEnd, DescsFilled, PktsFilled, DescsReaped, PktsReaped
<1>6. RingActive' /\ FragsInv' /\ FilledInv'
  BY <1>1, <1>3, <1>5 DEF IInv, PacketInv, FragsInv, FilledInv, RingActive
<1>7. LastInv'
  <2> SUFFICES ASSUME NEW i \in PktIndex, P(pktIndex) <= P(i), P(i) < P(pktNext), ~pkts[i].ignore
               PROVE  \E d \in DescIndex : /\ D(descIndex) + 1 <= D(d) /\ D(d) < D(descEnd)
                                           /\ descs[d].pkt = i /\ IsLast(d)
    BY <1>1, <1>4, <1>5 DEF LastInv, P, D
  <2>1. PICK d \in DescIndex : /\ D(descIndex) <= D(d) /\ D(d) < D(descEnd)
                               /\ descs[d].pkt = i /\ IsLast(d)
    BY <1>3, <1>5 DEF IInv, PacketInv, LastInv
  <2>2. d # descIndex
    BY <2>1
  <2>3. D(descIndex) + 1 <= D(d)
    BY <1>2, <2>1, <2>2, Positions DEF IInv
  <2> QED BY <2>1, <2>3
<1>8. ReapInv'
  BY <1>1, <1>2, <1>4, <1>5 DEF IInv, PacketInv, ReapInv, P, D, F
<1> QED BY <1>6, <1>7, <1>8 DEF PacketInv

\* A completed descriptor that is the last one of its packet: on to the next packet.
LEMMA ReapLastKeeps ==
  ASSUME IInv, ReapDescriptor, IsLast(descIndex)
  PROVE  PacketInv'
<1> DEFINE next == PktFwd(pktIndex, 1)
           frag == FragFwd(pktFrag[pktIndex], Len(pkts[pktIndex].frags))
           s == SkipIgnorePackets(next)
           g == SkipFragIndex(next, frag)
<1>1. /\ pc = "reap" /\ descIndex # descEnd /\ descIndex' = DescFwd(descIndex, 1)
      /\ pktIndex' = s /\ pktFragIndex' = g
      /\ UNCHANGED <<queue, pc, pktBegin, pktNext, pktEnd, pkts, fragBegin, fragEnd, pktFrag,
                     descBegin, descEnd, descs>>
  BY DEF ReapDescriptor, IsLast, netVars, ringVars, descVars
<1>2. /\ descIndex \in DescIndex /\ descEnd \in DescIndex /\ descBegin \in DescIndex
      /\ pktIndex \in PktIndex /\ pktNext \in PktIndex /\ pktEnd \in PktIndex /\ pktBegin \in PktIndex
      /\ fragEnd \in FragIndex /\ fragBegin \in FragIndex
      /\ \A x \in DescIndex : D(x) \in Nat /\ D(x) < DescCount /\ descs[x].pkt \in PktIndex
      /\ \A x \in PktIndex : /\ P(x) \in Nat /\ P(x) < PktCount /\ pktFrag[x] \in FragIndex
                             /\ Len(pkts[x].frags) \in Nat /\ FragsEnd(x) \in Nat
      /\ \A x \in FragIndex : F(x) \in Nat /\ F(x) < FragCount
  BY Positions, PacketTypes DEF IInv, TypeOK
<1>3. /\ RingActive /\ D(descIndex) < D(descEnd)
      /\ P(pktIndex) < P(pktNext) /\ P(pktNext) <= P(pktEnd)
      /\ descs[descIndex].pkt = pktIndex
  BY <1>1, ReapedFollows
<1>4. D(descIndex)' = D(descIndex) + 1
  <2>1. D(descIndex) + 1 < DescCount
    BY <1>2, <1>3, SizesAssumption
  <2> QED BY <1>1, <1>2, <2>1, DescDistFwd DEF D
<1>5. next \in PktIndex /\ P(next) = P(pktIndex) + 1 /\ P(next) <= P(pktNext)
  <2>1. P(pktIndex) + 1 < PktCount /\ P(pktIndex) + 1 <= P(pktNext)
    BY <1>2, <1>3, SizesAssumption
  <2>2. next \in PktIndex /\ P(next) = P(pktIndex) + 1
    BY <1>2, <2>1, PktPlace DEF P
  <2> QED BY <2>1, <2>2
<1>6. /\ FragsEnd(pktIndex) <= F(fragEnd)
      /\ \A j \in PktIndex : P(pktIndex) < P(j) /\ P(j) < P(pktEnd) => FragsEnd(pktIndex) <= F(pktFrag[j])
  <2>1. P(pktIndex) < P(pktEnd)
    BY <1>2, <1>3
  <2> QED BY <1>2, <1>3, <2>1 DEF IInv, PacketInv, FragsInv
<1>7. frag \in FragIndex /\ F(frag) = FragsEnd(pktIndex)
  <2>1. F(pktFrag[pktIndex]) + Len(pkts[pktIndex].frags) < FragCount
    BY <1>2, <1>6, SizesAssumption DEF FragsEnd
  <2>2. pktFrag[pktIndex] \in FragIndex /\ Len(pkts[pktIndex].frags) \in Nat /\ fragBegin \in FragIndex
    BY <1>2
  <2>3. /\ FragFwd(pktFrag[pktIndex], Len(pkts[pktIndex].frags)) \in FragIndex
        /\ FragDist(fragBegin, FragFwd(pktFrag[pktIndex], Len(pkts[pktIndex].frags)))
             = FragDist(fragBegin, pktFrag[pktIndex]) + Len(pkts[pktIndex].frags)
    BY <2>1, <2>2, FragPlace DEF F
  <2> QED BY <2>3 DEF F, FragsEnd
<1>8. /\ F(frag) <= F(fragEnd)
      /\ \A j \in PktIndex : P(next) <= P(j) /\ P(j) < P(pktEnd) => F(frag) <= F(pktFrag[j])
  <2> HIDE DEF next, frag
  <2> QED BY <1>2, <1>5, <1>6, <1>7
<1> HIDE DEF next, frag
<1>9. /\ s \in PktIndex /\ P(next) <= P(s) /\ P(s) <= P(pktNext)
      /\ s = pktNext \/ ~pkts[s].ignore
      /\ \A j \in PktIndex : P(next) <= P(j) /\ P(j) < P(pktNext) /\ ~pkts[j].ignore => P(s) <= P(j)
  BY <1>5, SkipPlace DEF IInv
<1>10. /\ g \in FragIndex /\ F(g) <= F(fragEnd)
       /\ \A j \in PktIndex : P(s) <= P(j) /\ P(j) < P(pktEnd) => F(g) <= F(pktFrag[j])
  BY <1>3, <1>5, <1>7, <1>8, SkipKeeps
<1> HIDE DEF s, g
<1>11. /\ \A x : D(x)' = D(x)
       /\ \A x : P(x)' = P(x)
       /\ \A x : F(x)' = F(x)
       /\ \A d \in DescIndex : IsLast(d)' = IsLast(d)
       /\ \A i : FragsEnd(i)' = FragsEnd(i)
       /\ DescsFilled' = descEnd /\ DescsFilled = descEnd
       /\ PktsFilled' = pktNext /\ PktsFilled = pktNext
       /\ DescsReaped' = descIndex' /\ DescsReaped = descIndex
       /\ PktsReaped' = s /\ PktsReaped = pktIndex
  BY <1>1 DEF D, P, F, IsLast, FragsEnd, DescsFilled, PktsFilled, DescsReaped, PktsReaped
<1>12. RingActive' /\ FragsInv' /\ FilledInv'
  BY <1>1, <1>3, <1>11 DEF IInv, PacketInv, FragsInv, FilledInv, RingActive
<1>13. LastInv'
  <2> SUFFICES ASSUME NEW i \in PktIndex, P(s) <= P(i), P(i) < P(pktNext), ~pkts[i].ignore
               PROVE  \E d \in DescIndex : /\ D(descIndex) + 1 <= D(d) /\ D(d) < D(descEnd)
                                           /\ descs[d].pkt = i /\ IsLast(d)
    BY <1>1, <1>4, <1>11 DEF LastInv, P, D
  <2>1. P(pktIndex) < P(i) /\ P(pktIndex) <= P(i)
    <3>1. P(pktIndex) \in Nat /\ P(next) \in Nat /\ P(s) \in Nat /\ P(i) \in Nat
      BY <1>2, <1>5, <1>9
    <3>2. P(next) = P(pktIndex) + 1 /\ P(next) <= P(s)
      BY <1>5, <1>9
    <3> QED BY <3>1, <3>2
  <2>2. PICK d \in DescIndex : /\ D(descIndex) <= D(d) /\ D(d) < D(descEnd)
                               /\ descs[d].pkt = i /\ IsLast(d)
    <3>1. /\ RingActive /\ LastInv /\ PktsReaped = pktIndex /\ PktsFilled = pktNext
          /\ DescsReaped = descIndex /\ DescsFilled = descEnd
      BY <1>3, <1>11 DEF IInv, PacketInv
    <3> QED BY <2>1, <3>1 DEF LastInv
  <2>3. d # descIndex
    BY <1>2, <1>3, <2>1, <2>2
  <2>4. D(descIndex) + 1 <= D(d)
    <3>1. D(descIndex) # D(d)
      BY <1>2, <2>2, <2>3, Positions DEF IInv
    <3>2. D(descIndex) \in Nat /\ D(d) \in Nat
      BY <1>2
    <3> QED BY <2>2, <3>1, <3>2
  <2> QED BY <2>2, <2>4
<1>14. ASSUME NEW d \in DescIndex, D(descIndex) + 1 <= D(d), D(d) < D(descEnd)
       PROVE  P(s) <= P(descs[d].pkt)
  <2>1. D(descIndex) < D(d)
    BY <1>2, <1>14
  <2>2. P(pktIndex) <= P(descs[d].pkt) /\ descs[d].pkt # pktIndex
    BY <1>2, <1>3, <1>11, <1>14, <2>1 DEF IInv, PacketInv, FilledInv
  <2>3. P(next) <= P(descs[d].pkt)
    BY <1>2, <1>5, <2>2, Positions DEF IInv
  <2>4. P(descs[d].pkt) < P(pktNext) /\ ~pkts[descs[d].pkt].ignore
    BY <1>2, <1>3, <1>11, <1>14 DEF IInv, PacketInv, FilledInv
  <2> QED BY <1>2, <1>9, <2>3, <2>4
<1>15. ReapInv'
  <2>1. P(pktIndex)' = P(s) /\ F(pktFragIndex)' = F(g)
    BY <1>1 DEF P, F
  <2> QED BY <1>1, <1>4, <1>9, <1>10, <1>11, <1>14, <2>1 DEF ReapInv, P, F, D
<1> QED BY <1>12, <1>13, <1>15 DEF PacketInv

\* The end of the loop: everything is counted from where it stands.
LEMMA ReapDoneKeeps ==
  ASSUME IInv, ReapDone
  PROVE  PacketInv'
<1>1. /\ pc = "reap" /\ pc' = "fill"
      /\ pktBegin' = pktIndex /\ fragBegin' = pktFragIndex /\ descBegin' = descIndex
      /\ pktIndex' = pktNext /\ descIndex' = descEnd
      /\ UNCHANGED <<queue, pktNext, pktEnd, pkts, fragEnd, pktFrag, descEnd, descs>>
  BY DEF ReapDone, netVars
<1>2. /\ descIndex \in DescIndex /\ descEnd \in DescIndex /\ descBegin \in DescIndex
      /\ pktIndex \in PktIndex /\ pktNext \in PktIndex /\ pktEnd \in PktIndex /\ pktBegin \in PktIndex
      /\ fragEnd \in FragIndex /\ fragBegin \in FragIndex /\ pktFragIndex \in FragIndex
      /\ \A x \in DescIndex : D(x) \in Nat /\ D(x) < DescCount /\ descs[x].pkt \in PktIndex
      /\ \A x \in PktIndex : /\ P(x) \in Nat /\ P(x) < PktCount /\ pktFrag[x] \in FragIndex
                             /\ Len(pkts[x].frags) \in Nat /\ FragsEnd(x) \in Nat
      /\ \A x \in FragIndex : F(x) \in Nat /\ F(x) < FragCount
  BY Positions, PacketTypes DEF IInv, TypeOK
<1>3. /\ RingActive /\ D(descIndex) <= D(descEnd)
  <2>1. RingActive
    BY <1>1 DEF IInv, RingOrder, RingActive
  <2> QED BY <1>1, <1>2, <2>1, ReapedFollows
<1>4. /\ DescsFilled = descEnd /\ PktsFilled = pktNext
      /\ DescsReaped = descIndex /\ PktsReaped = pktIndex
      /\ DescsFilled' = descEnd /\ PktsFilled' = pktNext
      /\ DescsReaped' = descIndex /\ PktsReaped' = pktIndex
  BY <1>1 DEF DescsFilled, PktsFilled, DescsReaped, PktsReaped
<1>5. /\ P(pktIndex) <= P(pktNext) /\ P(pktNext) <= P(pktEnd) /\ P(pktIndex) <= P(pktEnd)
      /\ F(pktFragIndex) <= F(fragEnd)
  BY <1>1, <1>2, <1>3, <1>4 DEF IInv, PacketInv, FilledInv, ReapInv
<1> DEFINE E(d) == DescDist(descIndex, d)
           Q(i) == PktDist(pktIndex, i)
           G(f) == FragDist(pktFragIndex, f)
<1>6. \A d \in DescIndex :
        /\ E(d) = IF D(descIndex) <= D(d) THEN D(d) - D(descIndex) ELSE D(d) - D(descIndex) + DescCount
        /\ E(d) \in Nat
  BY <1>2, DescDistBetween, DescDistBound DEF D
<1>7. \A i \in PktIndex :
        /\ Q(i) = IF P(pktIndex) <= P(i) THEN P(i) - P(pktIndex) ELSE P(i) - P(pktIndex) + PktCount
        /\ Q(i) \in Nat
  BY <1>2, PktRebase, PktPlace DEF P
<1>8. \A f \in FragIndex : F(pktFragIndex) <= F(f) => G(f) = F(f) - F(pktFragIndex)
  BY <1>2, FragRebase DEF F
<1>9. /\ \A d : D(d)' = E(d)
      /\ \A i : P(i)' = Q(i)
      /\ \A f : F(f)' = G(f)
      /\ P(pktNext)' = Q(pktNext) /\ P(pktEnd)' = Q(pktEnd) /\ F(fragEnd)' = G(fragEnd)
      /\ D(descEnd)' = E(descEnd) /\ D(DescsFilled)' = E(descEnd) /\ P(PktsFilled)' = Q(pktNext)
      /\ D(DescsReaped)' = E(descIndex) /\ P(PktsReaped)' = Q(pktIndex)
  BY <1>1, <1>4 DEF D, P, F
<1> HIDE DEF E, Q, G
<1>10. /\ Q(pktNext) = P(pktNext) - P(pktIndex) /\ Q(pktEnd) = P(pktEnd) - P(pktIndex)
       /\ G(fragEnd) = F(fragEnd) - F(pktFragIndex) /\ E(descEnd) = D(descEnd) - D(descIndex)
       /\ E(descIndex) = 0 /\ Q(pktIndex) = 0
  <2>1. E(descEnd) = D(descEnd) - D(descIndex) /\ E(descIndex) = 0
    <3>1. D(descEnd) \in Nat /\ D(descIndex) \in Nat
      BY <1>2
    <3>2. \A d \in DescIndex : D(descIndex) <= D(d) => E(d) = D(d) - D(descIndex)
      BY <1>6
    <3>3. D(descIndex) <= D(descIndex) /\ D(descIndex) - D(descIndex) = 0
      BY <3>1
    <3> QED BY <1>2, <1>3, <3>2, <3>3
  <2>2. Q(pktNext) = P(pktNext) - P(pktIndex) /\ Q(pktEnd) = P(pktEnd) - P(pktIndex)
        /\ Q(pktIndex) = 0
    <3>1. P(pktNext) \in Nat /\ P(pktIndex) \in Nat /\ P(pktEnd) \in Nat
      BY <1>2
    <3>2. /\ pktNext \in PktIndex /\ P(pktIndex) <= P(pktNext)
          /\ pktEnd \in PktIndex /\ P(pktIndex) <= P(pktEnd)
          /\ pktIndex \in PktIndex /\ P(pktIndex) <= P(pktIndex)
      BY <1>2, <1>5, <3>1
    <3>3. \A x \in PktIndex : P(pktIndex) <= P(x) => Q(x) = P(x) - P(pktIndex)
      BY <1>7
    <3> QED BY <3>1, <3>2, <3>3
  <2>3. G(fragEnd) = F(fragEnd) - F(pktFragIndex)
    BY <1>2, <1>5, <1>8
  <2> QED BY <2>1, <2>2, <2>3
\* What lies before the ends is what lay between the positions of the loop and the ends.
<1>11. ASSUME NEW d \in DescIndex, E(d) < E(descEnd)
       PROVE  D(descIndex) <= D(d) /\ D(d) < D(descEnd) /\ E(d) = D(d) - D(descIndex)
  <2>1. /\ D(d) \in Nat /\ D(descIndex) \in Nat /\ D(descEnd) \in Nat
        /\ D(descEnd) < DescCount /\ DescCount \in Nat
    BY <1>2, SizesAssumption
  <2>2. E(d) = IF D(descIndex) <= D(d) THEN D(d) - D(descIndex) ELSE D(d) - D(descIndex) + DescCount
    BY <1>6
  <2> QED BY <1>3, <1>10, <1>11, <2>1, <2>2
<1>12. ASSUME NEW i \in PktIndex, Q(i) < Q(pktEnd)
       PROVE  P(pktIndex) <= P(i) /\ P(i) < P(pktEnd) /\ Q(i) = P(i) - P(pktIndex)
  <2>1. /\ P(i) \in Nat /\ P(pktIndex) \in Nat /\ P(pktEnd) \in Nat
        /\ P(pktEnd) < PktCount /\ PktCount \in Nat
    BY <1>2, SizesAssumption
  <2>2. Q(i) = IF P(pktIndex) <= P(i) THEN P(i) - P(pktIndex) ELSE P(i) - P(pktIndex) + PktCount
    BY <1>7
  <2> QED BY <1>5, <1>10, <1>12, <2>1, <2>2
<1>13. \A i \in PktIndex : P(pktIndex) <= P(i) /\ P(i) < P(pktEnd) =>
         F(pktFrag[i])' = F(pktFrag[i]) - F(pktFragIndex) /\ FragsEnd(i)' = FragsEnd(i) - F(pktFragIndex)
  <2> SUFFICES ASSUME NEW i \in PktIndex, P(pktIndex) <= P(i), P(i) < P(pktEnd)
               PROVE  /\ F(pktFrag[i])' = F(pktFrag[i]) - F(pktFragIndex)
                      /\ FragsEnd(i)' = FragsEnd(i) - F(pktFragIndex)
    OBVIOUS
  <2>1. F(pktFragIndex) <= F(pktFrag[i])
    BY <1>1 DEF IInv, PacketInv, ReapInv
  <2>2. F(pktFrag[i])' = G(pktFrag[i])
    BY <1>1 DEF F, G
  <2>3. F(pktFrag[i])' = F(pktFrag[i]) - F(pktFragIndex)
    BY <1>2, <1>8, <2>1, <2>2
  <2>4. F(pktFrag[i]) \in Nat /\ F(pktFragIndex) \in Nat /\ Len(pkts[i].frags) \in Nat
    BY <1>2
  <2>5. FragsEnd(i)' = F(pktFrag[i])' + Len(pkts[i].frags)
    BY <1>1 DEF FragsEnd
  <2> QED BY <2>3, <2>4, <2>5 DEF FragsEnd
<1>14. FragsInv'
  <2> SUFFICES ASSUME NEW i \in PktIndex, Q(i) < Q(pktEnd)
               PROVE  /\ FragsEnd(i)' <= F(fragEnd)'
                      /\ \A j \in PktIndex : Q(i) < Q(j) /\ Q(j) < Q(pktEnd) =>
                           FragsEnd(i)' <= F(pktFrag[j])'
    BY <1>9 DEF FragsInv
  <2>1. /\ FragsEnd(i) <= F(fragEnd)
        /\ \A j \in PktIndex : P(i) < P(j) /\ P(j) < P(pktEnd) => FragsEnd(i) <= F(pktFrag[j])
    BY <1>3, <1>12 DEF IInv, PacketInv, FragsInv
  <2>2. FragsEnd(i)' = FragsEnd(i) - F(pktFragIndex) /\ F(fragEnd)' = F(fragEnd) - F(pktFragIndex)
    BY <1>9, <1>10, <1>12, <1>13
  <2>3. FragsEnd(i) \in Nat /\ F(pktFragIndex) \in Nat /\ F(fragEnd) \in Nat
    BY <1>2
  <2>4. ASSUME NEW j \in PktIndex, Q(i) < Q(j), Q(j) < Q(pktEnd)
        PROVE  FragsEnd(i)' <= F(pktFrag[j])'
    <3>1. P(i) < P(j) /\ P(j) < P(pktEnd) /\ P(pktIndex) <= P(j)
      <4>1. P(i) \in Nat /\ P(j) \in Nat /\ P(pktIndex) \in Nat
        BY <1>2
      <4>2. Q(i) = P(i) - P(pktIndex) /\ Q(j) = P(j) - P(pktIndex) /\ P(j) < P(pktEnd) /\ P(pktIndex) <= P(j)
        BY <1>12, <2>4
      <4> QED BY <2>4, <4>1, <4>2
    <3>2. F(pktFrag[j])' = F(pktFrag[j]) - F(pktFragIndex) /\ F(pktFrag[j]) \in Nat
      BY <1>2, <1>13, <3>1
    <3>3. FragsEnd(i) <= F(pktFrag[j])
      BY <2>1, <3>1
    <3> QED BY <2>2, <2>3, <3>2, <3>3
  <2> QED BY <2>1, <2>2, <2>3, <2>4
<1>15. ASSUME NEW d \in DescIndex, E(d) < E(descEnd)
       PROVE  /\ P(pktIndex) <= P(descs[d].pkt)
              /\ Q(descs[d].pkt) = P(descs[d].pkt) - P(pktIndex)
              /\ Q(descs[d].pkt) < Q(pktNext) /\ ~pkts[descs[d].pkt].ignore
  <2>1. D(descIndex) <= D(d) /\ D(d) < D(descEnd)
    BY <1>11, <1>15
  <2>2. P(pktIndex) <= P(descs[d].pkt)
    BY <1>1, <2>1 DEF IInv, PacketInv, ReapInv
  <2>3. P(descs[d].pkt) < P(pktNext) /\ ~pkts[descs[d].pkt].ignore
    BY <1>3, <1>4, <2>1 DEF IInv, PacketInv, FilledInv
  <2>4. /\ P(descs[d].pkt) \in Nat /\ P(pktIndex) \in Nat /\ P(pktNext) \in Nat
        /\ Q(descs[d].pkt) = P(descs[d].pkt) - P(pktIndex)
    BY <1>2, <1>7, <2>2
  <2> QED BY <1>10, <2>2, <2>3, <2>4
<1>16. FilledInv'
  <2>1. Q(pktNext) <= Q(pktEnd) /\ Q(pktNext) \in Nat
    <3>1. P(pktNext) \in Nat /\ P(pktEnd) \in Nat /\ P(pktIndex) \in Nat
      BY <1>2
    <3> QED BY <1>2, <1>5, <1>7, <1>10, <3>1
  <2>2. \A d \in DescIndex : P(descs[d].pkt)' = Q(descs[d].pkt)
    BY <1>1 DEF P, Q
  <2>3. ASSUME NEW d \in DescIndex, NEW e \in DescIndex, E(d) < E(e), E(e) < E(descEnd)
        PROVE  Q(descs[d].pkt) <= Q(descs[e].pkt) /\ (IsLast(d) => descs[d].pkt # descs[e].pkt)
    <3>1. E(d) \in Nat /\ E(e) \in Nat /\ E(descEnd) \in Nat
      BY <1>2, <1>6
    <3>2. E(d) < E(descEnd)
      BY <2>3, <3>1
    <3>3. /\ E(d) = D(d) - D(descIndex) /\ E(e) = D(e) - D(descIndex) /\ D(e) < D(descEnd)
      BY <1>11, <2>3, <3>2
    <3>4. D(d) \in Nat /\ D(e) \in Nat /\ D(descIndex) \in Nat
      BY <1>2
    <3>5. D(d) < D(e)
      BY <2>3, <3>3, <3>4
    <3>6. P(descs[d].pkt) <= P(descs[e].pkt) /\ (IsLast(d) => descs[d].pkt # descs[e].pkt)
      BY <1>3, <1>4, <3>3, <3>5 DEF IInv, PacketInv, FilledInv
    <3>7. P(descs[d].pkt) \in Nat /\ P(descs[e].pkt) \in Nat /\ P(pktIndex) \in Nat
      BY <1>2
    <3>8. Q(descs[d].pkt) = P(descs[d].pkt) - P(pktIndex) /\ Q(descs[e].pkt) = P(descs[e].pkt) - P(pktIndex)
      BY <1>15, <2>3, <3>2
    <3> QED BY <3>6, <3>7, <3>8
  <2>4. \A d \in DescIndex : IsLast(d)' = IsLast(d)
    BY <1>1 DEF IsLast
  <2> QED BY <1>1, <1>9, <1>15, <2>1, <2>2, <2>3, <2>4 DEF FilledInv
<1>17. LastInv'
  <2> SUFFICES ASSUME NEW i \in PktIndex, Q(i) < Q(pktNext), ~pkts[i].ignore
               PROVE  \E d \in DescIndex : /\ 0 <= E(d) /\ E(d) < E(descEnd)
                                           /\ descs[d].pkt = i /\ IsLast(d)
    <3>1. \A d \in DescIndex : IsLast(d)' = IsLast(d)
      BY <1>1 DEF IsLast
    <3> QED BY <1>1, <1>9, <1>10, <3>1 DEF LastInv
  <2>1. P(pktIndex) <= P(i) /\ P(i) < P(pktNext)
    <3>1. P(i) \in Nat /\ P(pktIndex) \in Nat /\ P(pktNext) \in Nat /\ P(pktEnd) \in Nat /\ Q(i) \in Nat
      BY <1>2, <1>7
    <3>2. Q(i) < Q(pktEnd)
      BY <1>5, <1>10, <3>1
    <3> QED BY <1>10, <1>12, <3>1, <3>2
  <2>2. PICK d \in DescIndex : /\ D(descIndex) <= D(d) /\ D(d) < D(descEnd)
                               /\ descs[d].pkt = i /\ IsLast(d)
    BY <1>3, <1>4, <2>1 DEF IInv, PacketInv, LastInv
  <2>3. E(d) = D(d) - D(descIndex) /\ D(d) \in Nat /\ D(descIndex) \in Nat /\ D(descEnd) \in Nat
    BY <1>2, <1>6, <2>2
  <2> QED BY <1>10, <2>2, <2>3
<1> QED BY <1>1, <1>14, <1>16, <1>17 DEF PacketInv, ReapInv

-----------------------------------------------------------------------------
(* The second loop of TxQueueAdvance.                                      *)

\* The descriptors of a packet name it, and the last one written is its last.
LEMMA DescriptorAtLast ==
  ASSUME NEW p \in Packets, NEW i, NEW o \in Nat, o < DescriptorsWritten(p)
  PROVE  /\ DescriptorAt(p, i, o).pkt = i
         /\ DescriptorAt(p, i, o).last /\ DescriptorAt(p, i, o).type # "context"
              <=> o = DescriptorsWritten(p) - 1
<1> DEFINE ctx == Bit(ContextNeeded(p))
           gso == Bit(IsGso(p))
<1>1. DataDescriptors(p) \in Nat /\ DataDescriptors(p) >= 1
  BY PacketsAssumption, Zenon
<1>2. ctx \in {0, 1} /\ gso \in {0, 1} /\ (IsGso(p) => gso = 1)
  BY DEF Bit
<1>3. DescriptorsWritten(p) = ctx + gso + DataDescriptors(p)
  BY DEF DescriptorsWritten
<1> HIDE DEF ctx, gso
<1>4. CASE o < ctx
  <2>1. DescriptorAt(p, i, o).pkt = i /\ DescriptorAt(p, i, o).type = "context"
    BY <1>4, Zenon DEF DescriptorAt, Descriptor, ctx
  <2>2. o # DescriptorsWritten(p) - 1
    BY <1>1, <1>2, <1>3, <1>4
  <2> QED BY <2>1, <2>2
<1>5. CASE ~ (o < ctx) /\ IsGso(p) /\ o = ctx
  <2>1. DescriptorAt(p, i, o).pkt = i /\ DescriptorAt(p, i, o).last = FALSE
    BY <1>5, Zenon DEF DescriptorAt, Descriptor, ctx
  <2>2. o # DescriptorsWritten(p) - 1
    BY <1>1, <1>2, <1>3, <1>5
  <2> QED BY <2>1, <2>2
<1>6. CASE ~ (o < ctx) /\ ~ (IsGso(p) /\ o = ctx)
  <2>1. /\ DescriptorAt(p, i, o).pkt = i /\ DescriptorAt(p, i, o).type = "data"
        /\ DescriptorAt(p, i, o).last = (o = DescriptorsWritten(p) - 1)
    BY <1>6, Zenon DEF DescriptorAt, Descriptor, ctx
  <2> QED BY <2>1
<1> QED BY <1>4, <1>5, <1>6

\* A packet is filled behind those that have been.
LEMMA QueuePacketKeeps ==
  ASSUME IInv, QueuePacket
  PROVE  PacketInv'
<1> DEFINE p == pkts[pktIndex]
           w == DescriptorsWritten(p)
<1>1. /\ pc = "fill" /\ pktIndex # pktEnd /\ ~p.ignore
      /\ descIndex' = DescFwd(descIndex, w) /\ pktIndex' = PktFwd(pktIndex, 1)
      /\ \A d \in DescIndex :
           descs'[d] = IF DescDist(descIndex, d) < w
                         THEN DescriptorAt(p, pktIndex, DescDist(descIndex, d)) ELSE descs[d]
      /\ UNCHANGED <<queue, pc, pktBegin, pktNext, pktEnd, pkts, fragBegin, fragEnd, pktFrag,
                     descBegin, descEnd>>
  BY DEF QueuePacket, MorePackets, netVars, ringVars
<1>2. /\ descIndex \in DescIndex /\ descEnd \in DescIndex /\ descBegin \in DescIndex
      /\ pktIndex \in PktIndex /\ pktNext \in PktIndex /\ pktEnd \in PktIndex /\ pktBegin \in PktIndex
      /\ \A x \in DescIndex : D(x) \in Nat /\ D(x) < DescCount /\ descs[x].pkt \in PktIndex
      /\ \A x \in PktIndex : P(x) \in Nat /\ P(x) < PktCount
      /\ p \in Packets
  BY Positions, PacketTypes DEF IInv, TypeOK
<1>3. /\ RingActive /\ D(descEnd) <= D(descIndex)
  BY <1>1 DEF IInv, RingOrder, RingActive, D
<1>4. /\ DescsFilled = descIndex /\ PktsFilled = pktIndex
      /\ DescsReaped = descBegin /\ PktsReaped = pktBegin
      /\ DescsFilled' = descIndex' /\ PktsFilled' = pktIndex'
      /\ DescsReaped' = descBegin /\ PktsReaped' = pktBegin
  BY <1>1 DEF DescsFilled, PktsFilled, DescsReaped, PktsReaped
<1>5. P(pktNext) <= P(pktIndex) /\ P(pktIndex) < P(pktEnd)
  <2>1. P(pktNext) <= P(pktIndex) /\ P(pktIndex) <= P(pktEnd)
    BY <1>3, <1>4 DEF IInv, PacketInv, FilledInv
  <2>2. P(pktIndex) # P(pktEnd)
    BY <1>1, <1>2, Positions DEF IInv
  <2> QED BY <1>2, <2>1, <2>2
<1>6. P(pktIndex)' = P(pktIndex) + 1
  <2>1. P(pktIndex) + 1 < PktCount
    BY <1>2, <1>5, SizesAssumption
  <2> QED BY <1>1, <1>2, <2>1, PktPlace DEF P
<1>7. /\ w \in Nat /\ D(DescFwd(descIndex, w)) = D(descIndex) + w
      /\ \A d \in DescIndex :
           DescDist(descIndex, d) < w <=> D(descIndex) <= D(d) /\ D(d) < D(descIndex) + w
  BY <1>2, QueuePacketPlace DEF IInv, D
<1>8. D(descIndex)' = D(descIndex) + w
  BY <1>1, <1>7 DEF D
<1> HIDE DEF w, p
\* What was filled before is left alone, and what is new belongs to this packet.
<1>9. ASSUME NEW d \in DescIndex, D(d) < D(descIndex)
      PROVE  descs'[d] = descs[d]
  <2>1. ~ (D(descIndex) <= D(d))
    BY <1>2, <1>9
  <2> QED BY <1>1, <1>7, <2>1
<1>10. ASSUME NEW d \in DescIndex, ~ (D(d) < D(descIndex)), D(d) < D(descIndex) + w
       PROVE  /\ descs'[d].pkt = pktIndex
              /\ descs'[d].last /\ descs'[d].type # "context" <=> D(d) = D(descIndex) + w - 1
  <2> DEFINE o == DescDist(descIndex, d)
  <2>1. D(d) \in Nat /\ D(descIndex) \in Nat /\ D(descIndex) <= D(d)
    BY <1>2, <1>10
  <2>2. o < w /\ o = D(d) - D(descIndex) /\ o \in Nat
    BY <1>2, <1>7, <1>10, <2>1, DescDistBetween DEF D
  <2>3. descs'[d] = DescriptorAt(p, pktIndex, o)
    BY <1>1, <2>2
  <2> HIDE DEF o
  <2>4. /\ descs'[d].pkt = pktIndex
        /\ descs'[d].last /\ descs'[d].type # "context" <=> o = w - 1
    BY <1>2, <2>2, <2>3, DescriptorAtLast DEF w
  <2> QED BY <1>7, <2>1, <2>2, <2>4
<1>11. /\ \A x : D(x)' = D(x)
       /\ \A x : P(x)' = P(x)
       /\ \A x : F(x)' = F(x)
       /\ \A i : FragsEnd(i)' = FragsEnd(i)
       /\ \A d \in DescIndex : IsLast(d)' = (descs'[d].last /\ descs'[d].type # "context")
       /\ \A d \in DescIndex : P(descs[d].pkt)' = P(descs'[d].pkt)
       /\ D(DescsFilled)' = D(descIndex) + w /\ P(PktsFilled)' = P(pktIndex) + 1
       /\ D(DescsReaped)' = 0 /\ P(PktsReaped)' = 0 /\ D(DescsReaped) = 0 /\ P(PktsReaped) = 0
  <2>1. /\ \A x : D(x)' = D(x)
        /\ \A x : P(x)' = P(x)
        /\ \A x : F(x)' = F(x)
        /\ \A i : FragsEnd(i)' = FragsEnd(i)
        /\ \A d \in DescIndex : IsLast(d)' = (descs'[d].last /\ descs'[d].type # "context")
        /\ \A d \in DescIndex : P(descs[d].pkt)' = P(descs'[d].pkt)
    BY <1>1 DEF D, P, F, FragsEnd, IsLast
  <2>2. D(DescsFilled)' = D(descIndex)' /\ P(PktsFilled)' = P(pktIndex)'
    BY <1>4 DEF D, P
  <2>3. D(DescsReaped)' = D(descBegin) /\ P(PktsReaped)' = P(pktBegin)
    BY <1>1, <1>4 DEF D, P
  <2>4. D(descBegin) = 0 /\ P(pktBegin) = 0
    BY Positions DEF IInv
  <2> QED BY <1>4, <1>6, <1>8, <2>1, <2>2, <2>3, <2>4
<1>12. FragsInv'
  BY <1>1, <1>3, <1>11 DEF IInv, PacketInv, FragsInv
<1>13. ASSUME NEW d \in DescIndex, D(d) < D(descIndex)
       PROVE  P(descs[d].pkt) < P(pktIndex) /\ ~pkts[descs[d].pkt].ignore
  BY <1>3, <1>4, <1>13 DEF IInv, PacketInv, FilledInv
<1>14. FilledInv'
  <2>1. P(pktNext)' = P(pktNext) /\ P(pktEnd)' = P(pktEnd) /\ D(descEnd)' = D(descEnd)
    BY <1>1 DEF P, D
  <2>2. P(pktNext) <= P(pktIndex) + 1 /\ P(pktIndex) + 1 <= P(pktEnd)
    BY <1>2, <1>5
  <2>3. ASSUME NEW d \in DescIndex, D(d) < D(descEnd)
        PROVE  P(descs'[d].pkt) < P(pktNext)
    <3>1. D(d) < D(descIndex)
      BY <1>2, <1>3, <2>3
    <3> QED BY <1>3, <1>9, <2>3, <3>1 DEF IInv, PacketInv, FilledInv
  <2>4. ASSUME NEW d \in DescIndex, D(d) < D(descIndex) + w
        PROVE  P(descs'[d].pkt) < P(pktIndex) + 1 /\ ~pkts[descs'[d].pkt].ignore
    <3>1. CASE D(d) < D(descIndex)
      <4>1. descs'[d] = descs[d] /\ P(descs[d].pkt) < P(pktIndex) /\ ~pkts[descs[d].pkt].ignore
        BY <1>9, <1>13, <3>1
      <4>2. P(descs[d].pkt) \in Nat /\ P(pktIndex) \in Nat
        BY <1>2
      <4> QED BY <4>1, <4>2
    <3>2. CASE ~ (D(d) < D(descIndex))
      <4>1. descs'[d].pkt = pktIndex
        BY <1>10, <2>4, <3>2
      <4> QED BY <1>1, <1>2, <4>1 DEF p
    <3> QED BY <3>1, <3>2
  <2>5. ASSUME NEW d \in DescIndex, NEW e \in DescIndex, D(d) < D(e), D(e) < D(descIndex) + w
        PROVE  /\ P(descs'[d].pkt) <= P(descs'[e].pkt)
               /\ descs'[d].last /\ descs'[d].type # "context" => descs'[d].pkt # descs'[e].pkt
    <3>1. D(d) \in Nat /\ D(e) \in Nat /\ D(descIndex) \in Nat /\ P(pktIndex) \in Nat
          /\ P(descs[d].pkt) \in Nat /\ descs[d].pkt \in PktIndex
      BY <1>2
    <3>2. CASE D(e) < D(descIndex)
      <4>1. D(d) < D(descIndex)
        BY <2>5, <3>1, <3>2
      <4>2. P(descs[d].pkt) <= P(descs[e].pkt) /\ (IsLast(d) => descs[d].pkt # descs[e].pkt)
        BY <1>3, <1>4, <2>5, <3>2 DEF IInv, PacketInv, FilledInv
      <4> QED BY <1>9, <3>2, <4>1, <4>2 DEF IsLast
    <3>3. CASE ~ (D(e) < D(descIndex)) /\ D(d) < D(descIndex)
      <4>1. descs'[e].pkt = pktIndex /\ descs'[d] = descs[d] /\ P(descs[d].pkt) < P(pktIndex)
        BY <1>9, <1>10, <1>13, <2>5, <3>3
      <4> QED BY <3>1, <4>1
    <3>4. CASE ~ (D(e) < D(descIndex)) /\ ~ (D(d) < D(descIndex))
      <4>1. D(d) < D(descIndex) + w /\ D(d) # D(descIndex) + w - 1
        BY <1>7, <2>5, <3>1
      <4>2. /\ descs'[d].pkt = pktIndex /\ descs'[e].pkt = pktIndex
            /\ ~ (descs'[d].last /\ descs'[d].type # "context")
        BY <1>10, <2>5, <3>4, <4>1
      <4> QED BY <3>1, <4>2
    <3> QED BY <3>2, <3>3, <3>4
  <2> QED BY <1>1, <1>11, <2>1, <2>2, <2>3, <2>4, <2>5 DEF FilledInv
<1>15. LastInv'
  <2>1. ASSUME NEW i \in PktIndex, P(i) < P(pktIndex) + 1, ~pkts[i].ignore
        PROVE  \E d \in DescIndex : 0 <= D(d) /\ D(d) < D(descIndex) + w /\ descs'[d].pkt = i /\ IsLast(d)'
    <3>1. CASE i = pktIndex
      <4>1. w >= 1
        BY <1>2, PacketsAssumption DEF w, DescriptorsWritten, Bit
      <4>2. DescFwd(descIndex, w) \in DescIndex /\ D(descIndex) \in Nat
        BY <1>2, <1>7, SizesAssumption DEF DescFwd, DescIndex
      <4> DEFINE d == DescFwd(descIndex, w - 1)
      <4>3. d \in DescIndex /\ D(d) = D(descIndex) + w - 1
        <5>1. w - 1 \in Nat /\ D(descIndex) + (w - 1) < DescCount
          <6>1. D(descIndex) + w < DescCount
            BY <1>2, <1>7, <4>2
          <6> QED BY <1>7, <4>1, <4>2, <6>1, SizesAssumption
        <5>2. d \in DescIndex /\ D(d) = D(descIndex) + (w - 1)
          BY <1>2, <5>1, DescDistFwd DEF D
        <5> QED BY <1>7, <4>1, <4>2, <5>2
      <4> HIDE DEF d
      <4>4. ~ (D(d) < D(descIndex)) /\ D(d) < D(descIndex) + w /\ 0 <= D(d)
        BY <1>7, <4>1, <4>2, <4>3
      <4>5. descs'[d].pkt = pktIndex /\ descs'[d].last /\ descs'[d].type # "context"
        BY <1>10, <4>3, <4>4
      <4> QED BY <1>11, <3>1, <4>3, <4>4, <4>5
    <3>2. CASE i # pktIndex
      <4>1. P(i) < P(pktIndex) /\ 0 <= P(i)
        BY <1>2, <2>1, <3>2, Positions DEF IInv
      <4>2. PICK d \in DescIndex : D(d) < D(descIndex) /\ descs[d].pkt = i /\ IsLast(d)
        BY <1>3, <1>4, <1>11, <2>1, <4>1 DEF IInv, PacketInv, LastInv
      <4>3. D(d) \in Nat /\ D(descIndex) \in Nat /\ descs'[d] = descs[d]
        BY <1>2, <1>9, <4>2
      <4>4. 0 <= D(d) /\ D(d) < D(descIndex) + w /\ IsLast(d)'
        BY <1>7, <1>11, <4>2, <4>3 DEF IsLast
      <4> QED BY <4>2, <4>3, <4>4
    <3> QED BY <3>1, <3>2
  <2>2. /\ \A d : D(d)' = D(d)
        /\ \A i : P(i)' = P(i)
    BY <1>11
  <2>3. D(DescsFilled)' = D(descIndex) + w /\ P(PktsFilled)' = P(pktIndex) + 1
        /\ D(DescsReaped)' = 0 /\ pkts' = pkts
    BY <1>1, <1>11
  <2> QED BY <2>1, <2>2, <2>3 DEF LastInv
<1> QED BY <1>1, <1>12, <1>14, <1>15 DEF PacketInv, ReapInv

\* A packet that is to be ignored has no descriptors.
LEMMA QueueIgnoredKeeps ==
  ASSUME IInv, QueueIgnored
  PROVE  PacketInv'
<1>1. /\ pc = "fill" /\ pktIndex # pktEnd /\ pkts[pktIndex].ignore /\ pktIndex' = PktFwd(pktIndex, 1)
      /\ UNCHANGED <<queue, pc, pktBegin, pktNext, pktEnd, pkts, fragBegin, fragEnd, pktFrag,
                     descBegin, descEnd, descs, descIndex>>
  BY DEF QueueIgnored, MorePackets, netVars, ringVars, descVars
<1>2. /\ pktIndex \in PktIndex /\ pktNext \in PktIndex /\ pktEnd \in PktIndex /\ pktBegin \in PktIndex
      /\ \A x \in DescIndex : descs[x].pkt \in PktIndex
      /\ \A x \in PktIndex : P(x) \in Nat /\ P(x) < PktCount
  BY Positions, PacketTypes DEF IInv, TypeOK
<1>3. RingActive
  BY <1>1 DEF IInv, RingOrder, RingActive
<1>4. /\ DescsFilled = descIndex /\ PktsFilled = pktIndex
      /\ DescsReaped = descBegin /\ PktsReaped = pktBegin
      /\ DescsFilled' = descIndex /\ PktsFilled' = pktIndex'
      /\ DescsReaped' = descBegin /\ PktsReaped' = pktBegin
  BY <1>1 DEF DescsFilled, PktsFilled, DescsReaped, PktsReaped
<1>5. P(pktNext) <= P(pktIndex) /\ P(pktIndex) < P(pktEnd)
  <2>1. P(pktNext) <= P(pktIndex) /\ P(pktIndex) <= P(pktEnd)
    BY <1>3, <1>4 DEF IInv, PacketInv, FilledInv
  <2>2. P(pktIndex) # P(pktEnd)
    BY <1>1, <1>2, Positions DEF IInv
  <2> QED BY <1>2, <2>1, <2>2
<1>6. P(pktIndex)' = P(pktIndex) + 1
  <2>1. P(pktIndex) + 1 < PktCount
    BY <1>2, <1>5, SizesAssumption
  <2> QED BY <1>1, <1>2, <2>1, PktPlace DEF P
<1>7. /\ \A x : D(x)' = D(x)
      /\ \A x : P(x)' = P(x)
      /\ \A x : F(x)' = F(x)
      /\ \A i : FragsEnd(i)' = FragsEnd(i)
      /\ \A d \in DescIndex : IsLast(d)' = IsLast(d)
      /\ P(PktsFilled)' = P(pktIndex) + 1
      /\ D(DescsFilled)' = D(descIndex) /\ D(descEnd)' = D(descEnd)
      /\ P(pktNext)' = P(pktNext) /\ P(pktEnd)' = P(pktEnd)
      /\ P(PktsReaped)' = P(pktBegin) /\ D(DescsReaped)' = D(descBegin)
      /\ \A d \in DescIndex : P(descs[d].pkt)' = P(descs[d].pkt)
  BY <1>1, <1>4, <1>6 DEF D, P, F, FragsEnd, IsLast
<1>8. FragsInv'
  BY <1>1, <1>3, <1>7 DEF IInv, PacketInv, FragsInv
<1>9. FilledInv'
  <2>1. P(pktNext) <= P(pktIndex) + 1 /\ P(pktIndex) + 1 <= P(pktEnd)
    BY <1>2, <1>5
  <2>2. ASSUME NEW d \in DescIndex, D(d) < D(descIndex)
        PROVE  P(descs[d].pkt) < P(pktIndex) + 1 /\ ~pkts[descs[d].pkt].ignore
    <3>1. P(descs[d].pkt) < P(pktIndex) /\ ~pkts[descs[d].pkt].ignore
      BY <1>3, <1>4, <2>2 DEF IInv, PacketInv, FilledInv
    <3> QED BY <1>2, <3>1
  <2> QED BY <1>1, <1>3, <1>4, <1>7, <2>1, <2>2 DEF IInv, PacketInv, FilledInv
<1>10. LastInv'
  <2> SUFFICES ASSUME NEW i \in PktIndex, P(pktBegin) <= P(i), P(i) < P(pktIndex) + 1, ~pkts[i].ignore
               PROVE  \E d \in DescIndex : /\ D(descBegin) <= D(d) /\ D(d) < D(descIndex)
                                           /\ descs[d].pkt = i /\ IsLast(d)
    BY <1>1, <1>7 DEF LastInv
  <2>1. i # pktIndex
    BY <1>1
  <2>2. P(i) < P(pktIndex)
    BY <1>2, <2>1, Positions DEF IInv
  <2> QED BY <1>3, <1>4, <2>2 DEF IInv, PacketInv, LastInv
<1> QED BY <1>1, <1>8, <1>9, <1>10 DEF PacketInv, ReapInv

\* The end of the loop: what is new is handed over, if it has descriptors.
LEMMA CommitKeeps ==
  ASSUME IInv, AdvanceCommit
  PROVE  PacketInv'
<1>1. /\ pc = "fill" /\ pc' \in {"idle", "discard"} /\ descEnd' = descIndex
      /\ pktNext' = IF descIndex # descEnd THEN pktIndex ELSE pktNext
      /\ UNCHANGED <<queue, pktBegin, pktEnd, pkts, fragBegin, fragEnd, pktFrag, descBegin, descs>>
  BY DEF AdvanceCommit, netVars
<1>2. /\ pktIndex \in PktIndex /\ pktNext \in PktIndex /\ pktEnd \in PktIndex
      /\ \A x \in DescIndex : descs[x].pkt \in PktIndex
      /\ \A x \in PktIndex : P(x) \in Nat
  BY Positions, PacketTypes DEF IInv, TypeOK
<1>3. RingActive
  BY <1>1 DEF IInv, RingOrder, RingActive
<1>4. /\ DescsFilled = descIndex /\ PktsFilled = pktIndex
      /\ DescsReaped = descBegin /\ PktsReaped = pktBegin
      /\ DescsFilled' = descIndex /\ PktsFilled' = pktNext'
      /\ DescsReaped' = descBegin /\ PktsReaped' = pktBegin
  BY <1>1 DEF DescsFilled, PktsFilled, DescsReaped, PktsReaped
<1>5. P(pktNext) <= P(pktIndex) /\ P(pktIndex) <= P(pktEnd)
  BY <1>3, <1>4 DEF IInv, PacketInv, FilledInv
<1>6. /\ \A x : D(x)' = D(x)
      /\ \A x : P(x)' = P(x)
      /\ \A x : F(x)' = F(x)
      /\ \A i : FragsEnd(i)' = FragsEnd(i)
      /\ \A d \in DescIndex : IsLast(d)' = IsLast(d)
      /\ P(PktsFilled)' = P(pktNext)' /\ P(pktEnd)' = P(pktEnd)
      /\ D(DescsFilled)' = D(descIndex) /\ D(descEnd)' = D(descIndex)
      /\ P(PktsReaped)' = P(pktBegin) /\ D(DescsReaped)' = D(descBegin)
      /\ \A d \in DescIndex : P(descs[d].pkt)' = P(descs[d].pkt)
  BY <1>1, <1>4 DEF D, P, F, FragsEnd, IsLast
<1>7. /\ P(pktNext)' \in Nat /\ P(pktNext)' <= P(pktIndex)
      /\ \A d \in DescIndex : D(d) < D(descIndex) => P(descs[d].pkt) < P(pktNext)'
  <2>1. CASE descIndex # descEnd
    <3>1. P(pktNext)' = P(pktIndex)
      BY <1>1, <2>1 DEF P
    <3> QED BY <1>2, <1>3, <1>4, <3>1 DEF IInv, PacketInv, FilledInv
  <2>2. CASE descIndex = descEnd
    <3>1. P(pktNext)' = P(pktNext)
      BY <1>1, <2>2 DEF P
    <3> QED BY <1>2, <1>3, <1>5, <2>2, <3>1 DEF IInv, PacketInv, FilledInv
  <2> QED BY <2>1, <2>2
<1>8. FragsInv'
  BY <1>1, <1>3, <1>6 DEF IInv, PacketInv, FragsInv
<1>9. FilledInv'
  <2>1. P(pktNext)' <= P(pktEnd)
    BY <1>2, <1>5, <1>7
  <2> QED BY <1>1, <1>3, <1>4, <1>6, <1>7, <2>1 DEF IInv, PacketInv, FilledInv
<1>10. LastInv'
  <2> SUFFICES ASSUME NEW i \in PktIndex, P(pktBegin) <= P(i), P(i) < P(pktNext)', ~pkts[i].ignore
               PROVE  \E d \in DescIndex : /\ D(descBegin) <= D(d) /\ D(d) < D(descIndex)
                                           /\ descs[d].pkt = i /\ IsLast(d)
    BY <1>1, <1>6 DEF LastInv
  <2>1. P(i) < P(pktIndex)
    BY <1>2, <1>7
  <2> QED BY <1>3, <1>4, <2>1 DEF IInv, PacketInv, LastInv
<1> QED BY <1>1, <1>8, <1>9, <1>10 DEF PacketInv, ReapInv

-----------------------------------------------------------------------------
(* The invariant and what follows from it.                                 *)

\* When the rings are empty the device has nothing: the short way of TxQueueCancel.
LEMMA EmptyMeansIdle ==
  ASSUME IInv, queue = "running", pc = "idle", pktBegin = pktEnd
  PROVE  hwDone = hwNext /\ hwTail = hwNext
<1>1. /\ RingActive /\ DescsFilled = descEnd /\ PktsFilled = pktNext
  BY DEF RingActive, DescsFilled, PktsFilled
<1>2. /\ hwDone \in DescIndex /\ hwNext \in DescIndex /\ descEnd \in DescIndex /\ descBegin \in DescIndex
      /\ \A x \in DescIndex : D(x) \in Nat /\ descs[x].pkt \in PktIndex
      /\ \A x \in PktIndex : P(x) \in Nat
      /\ D(descBegin) = 0 /\ P(pktBegin) = 0 /\ pktNext \in PktIndex
  BY Positions, PacketTypes DEF IInv, TypeOK
<1>3. P(pktNext) <= 0
  BY <1>1, <1>2 DEF IInv, PacketInv, FilledInv
<1>4. ~ (D(descBegin) < D(descEnd))
  BY <1>1, <1>2, <1>3 DEF IInv, PacketInv, FilledInv
<1>5. hwTail = descEnd /\ D(hwDone) <= D(hwNext) /\ D(hwNext) <= D(descEnd)
  BY <1>1 DEF IInv, RingOrder, D
<1>6. D(hwDone) = D(hwNext) /\ D(hwNext) = D(descEnd)
  BY <1>2, <1>4, <1>5
<1> QED BY <1>2, <1>5, <1>6, Positions DEF IInv

LEMMA UseKeeps ==
  ASSUME IInv, [Next]_vars
  PROVE  UseInv'
<1> USE DEF netVars, ringVars, descVars, locals, hwVars
<1>1. CASE UNCHANGED vars
  BY <1>1 DEF IInv, UseInv, vars
<1>2. CASE TxQueueCreate \/ TxQueueStart \/ TxQueueStop \/ TxQueueCleanup
  BY <1>2 DEF TxQueueCreate, TxQueueStart, TxQueueStop, TxQueueCleanup, IInv, UseInv
<1>3. CASE TxQueueCancel
  BY <1>3, EmptyMeansIdle DEF TxQueueCancel, IInv, UseInv
<1>4. CASE CancelDiscard
  BY <1>4 DEF CancelDiscard, IInv, UseInv, RingOrder
<1>5. CASE (\E p \in Packets : NetAddPacket(p)) \/ TxQueueAdvance \/ CancelDrained \/ CancelTimeout
  <2>1. queue' = queue /\ queue \in {"running", "cancelling"}
    BY <1>5 DEF NetAddPacket, TxQueueAdvance, AdvanceBegin, ReapDescriptor, ReapDone, QueuePacket,
                QueueIgnored, AdvanceCommit, CancelDrained, CancelTimeout, IInv, RingOrder
  <2> QED BY <2>1 DEF UseInv
<1>6. CASE Hardware
  BY <1>6 DEF Hardware, HwFetch, HwWriteBack, IInv, UseInv
<1> QED BY <1>1, <1>2, <1>3, <1>4, <1>5, <1>6 DEF Next, Cancelling

LEMMA NextKeeps ==
  ASSUME IInv, [Next]_vars
  PROVE  IInv'
<1>1. TypeOK' /\ RingOrder' /\ UseInv'
  BY NextType, NextOrder, UseKeeps DEF IInv
<1>2. PacketInv'
  <2>1. CASE \E p \in Packets : NetAddPacket(p)
    BY <1>1, <2>1, AddPacketKeeps
  <2>2. CASE TxQueueAdvance
    BY <2>2, EnterKeeps, ReapPartKeeps, ReapLastKeeps, ReapDoneKeeps, QueuePacketKeeps,
       QueueIgnoredKeeps, CommitKeeps DEF TxQueueAdvance
  <2>3. CASE Cancelling
    BY <1>1, <2>3, EnterKeeps, LifecycleKeeps DEF Cancelling
  <2>4. CASE Hardware \/ UNCHANGED vars \/ TxQueueCancel
    BY <2>4, DeviceKeeps DEF Hardware
  <2>5. CASE TxQueueCreate \/ TxQueueStart \/ TxQueueStop \/ TxQueueCleanup
    BY <1>1, <2>5, LifecycleKeeps
  <2> QED BY <2>1, <2>2, <2>3, <2>4, <2>5 DEF Next
<1> QED BY <1>1, <1>2 DEF IInv

LEMMA Inductive == Spec => []IInv
<1>1. Init => IInv
  <2> SUFFICES ASSUME Init PROVE IInv
    OBVIOUS
  <2>1. TypeOK /\ RingOrder
    BY InitType, InitOrder
  <2>2. UseInv
    BY DEF Init, UseInv
  <2>3. PacketInv
    BY NotActive DEF Init, RingActive
  <2> QED BY <2>1, <2>2, <2>3 DEF IInv
<1>2. IInv /\ [Next]_vars => IInv'
  BY NextKeeps
<1> QED BY <1>1, <1>2, PTL DEF Spec

\* TxQueueAdvance returns packets by position only; whatever packets are ignored and however
\* many descriptors the others take, the packet it returns next is the one whose descriptor
\* it finds completed (its two NT_ASSERTs).
THEOREM CompletionsFollowPackets == Spec => []DescriptorsFollowPackets
<1>1. IInv => DescriptorsFollowPackets
  <2> SUFFICES ASSUME IInv, pc = "reap", descIndex # descEnd
               PROVE  pktIndex # pktNext /\ descs[descIndex].pkt = pktIndex
    BY DEF DescriptorsFollowPackets
  <2>1. P(pktIndex) < P(pktNext) /\ descs[descIndex].pkt = pktIndex
    BY ReapedFollows
  <2>2. P(pktIndex) \in Nat /\ P(pktNext) \in Nat
    BY Positions DEF IInv, TypeOK
  <2> QED BY <2>1, <2>2
<1> QED BY <1>1, Inductive, PTL

\* No packet and no fragment goes back to NetAdapterCx while the device may read it, for
\* every size of the rings, through every cancel: NoReturnWhileInUse.
THEOREM KeepsPacketsInUse == Spec => []NoReturnWhileInUse
<1>1. ASSUME IInv, NEW d \in DeviceOwned
      PROVE  /\ descs[d].pkt \in PktsBetween(pktBegin, pktEnd)
             /\ ~pkts[descs[d].pkt].ignore
             /\ FragsOf(descs[d].pkt) \subseteq FragsBetween(fragBegin, fragEnd)
  <2> DEFINE i == descs[d].pkt
  <2>1. queue \in {"running", "cancelling"}
    <3> SUFFICES ASSUME queue \notin {"running", "cancelling"} PROVE FALSE
      OBVIOUS
    <3>1. ~hwStart /\ hwDone = hwNext /\ (hwMid => hwTail = hwNext)
      BY <1>1 DEF IInv, UseInv
    <3>2. d \in DescIndex /\ DescDist(hwDone, d) < DescDist(hwDone, hwDone) /\ hwDone \in DescIndex
      BY <1>1, <3>1 DEF DeviceOwned, DescsBetween, IInv, TypeOK
    <3>3. DescDist(hwDone, hwDone) = 0 /\ DescDist(hwDone, d) \in Nat
      BY <3>2, DescDistSelf, DescDistBound
    <3> QED BY <3>2, <3>3
  <2>2. RingActive /\ d \in DescIndex /\ D(d) < D(descEnd)
    BY <1>1, <2>1, DeviceOwnedPlace DEF IInv, D
  <2>3. /\ i \in PktIndex /\ P(i) \in Nat /\ FragsEnd(i) \in Nat
        /\ pktFrag[i] \in FragIndex /\ Len(pkts[i].frags) \in Nat
        /\ P(pktNext) \in Nat /\ P(PktsFilled) \in Nat /\ P(pktEnd) \in Nat
        /\ D(d) \in Nat /\ D(descEnd) \in Nat /\ D(DescsFilled) \in Nat
        /\ \A x \in FragIndex : F(x) \in Nat /\ F(x) < FragCount
        /\ fragEnd \in FragIndex /\ fragBegin \in FragIndex
    BY <1>1, <2>2, Positions, PacketTypes DEF IInv, TypeOK
  <2>4. P(i) < P(pktNext) /\ P(i) < P(pktEnd)
    BY <1>1, <2>2, <2>3 DEF IInv, PacketInv, FilledInv
  <2>5. D(d) < D(DescsFilled)
    <3>1. DescsFilled = descEnd \/ D(descEnd) <= D(DescsFilled)
      BY <1>1 DEF IInv, RingOrder, DescsFilled, D
    <3> QED BY <2>2, <2>3, <3>1
  <2>6. ~pkts[i].ignore
    BY <1>1, <2>2, <2>5 DEF IInv, PacketInv, FilledInv
  <2>7. FragsEnd(i) <= F(fragEnd)
    BY <1>1, <2>2, <2>3, <2>4 DEF IInv, PacketInv, FragsInv
  <2> HIDE DEF i
  <2>8. ASSUME NEW k \in 0 .. Len(pkts[i].frags) - 1
        PROVE  FragFwd(pktFrag[i], k) \in FragsBetween(fragBegin, fragEnd)
    <3>1. k \in Nat /\ F(pktFrag[i]) + k < F(fragEnd) /\ F(pktFrag[i]) + k < FragCount
      <4>1. k \in Nat /\ k < Len(pkts[i].frags)
        BY <2>3
      <4>2. F(pktFrag[i]) \in Nat /\ F(fragEnd) \in Nat /\ F(fragEnd) < FragCount /\ FragCount \in Nat
        BY <2>3, SizesAssumption
      <4>3. F(pktFrag[i]) + Len(pkts[i].frags) <= F(fragEnd)
        BY <2>7 DEF FragsEnd
      <4>4. Len(pkts[i].frags) \in Nat
        BY <2>3
      <4> QED BY <4>1, <4>2, <4>3, <4>4
    <3>2. FragFwd(pktFrag[i], k) \in FragIndex /\ F(FragFwd(pktFrag[i], k)) = F(pktFrag[i]) + k
      BY <2>3, <3>1, FragPlace DEF F
    <3> QED BY <3>1, <3>2 DEF FragsBetween, F
  <2> QED BY <2>3, <2>4, <2>6, <2>8 DEF PktsBetween, FragsOf, P, i
<1>2. IInv => NoReturnWhileInUse
  BY <1>1 DEF NoReturnWhileInUse
<1> QED BY <1>2, Inductive, PTL

-----------------------------------------------------------------------------
(* What the device knows.                                                  *)
(*                                                                         *)
(* A context descriptor sets the segment size or the tag that the device   *)
(* remembers.  What it will know when it gets to a descriptor is what the  *)
(* last of them before it sets.                                            *)

\* What each descriptor sets, 0 if nothing.
MssSet == [d \in DescIndex |-> IF descs[d].type = "context" THEN descs[d].mss ELSE 0]
TagSet == [d \in DescIndex |-> IF descs[d].type = "context" THEN descs[d].tag ELSE 0]

\* Of the n descriptors from h on, those that set something.
Setters(f, h, n) == {d \in DescIndex : f[d] # 0 /\ DescDist(h, d) < n}

\* With reg in its register at h, the device has v there n descriptors later.
Carried(f, reg, h, n, v) ==
  /\ Setters(f, h, n) = {} => reg = v
  /\ \A c \in Setters(f, h, n) :
       (\A d \in Setters(f, h, n) : DescDist(h, d) <= DescDist(h, c)) => f[c] = v

\* How far ahead of the device a descriptor is, and what the device knows there.
K(d) == DescDist(hwNext, d)
MssAt(n, v) == Carried(MssSet, hwMss, hwNext, n, v)
TagAt(n, v) == Carried(TagSet, hwTag, hwNext, n, v)

\* The packet at d will be transmitted as it asks for.
AsAsked(d) ==
  LET p == pkts[descs[d].pkt] IN
  /\ descs[d].type = "tso" <=> IsGso(p)
  /\ IsGso(p) => MssAt(K(d), p.mss)
  /\ descs[d].tag = 0 <=> VlanTag(p) = 0
  /\ VlanTag(p) # 0 => TagAt(K(d), VlanTag(p))

\* Behind all that has been filled in the device will know lastMss and lastVlanTag, unless
\* these say that nothing is known; so every packet before is transmitted as it asks for.
ContextInv ==
  hwStart =>
    /\ lastMss # NoMss => MssAt(K(DescsFilled), lastMss)
    /\ lastVlanTag # 0 => TagAt(K(DescsFilled), lastVlanTag)
    /\ \A d \in DescIndex : K(d) < K(DescsFilled) /\ descs[d].first => AsAsked(d)

\* What is known n descriptors ahead depends on these alone.
LEMMA CarriedSame ==
  ASSUME NEW f, NEW g, NEW reg, NEW h, NEW n, NEW v,
         \A d \in DescIndex : DescDist(h, d) < n => g[d] = f[d],
         Carried(f, reg, h, n, v)
  PROVE  Carried(g, reg, h, n, v)
<1>1. Setters(g, h, n) = Setters(f, h, n)
  BY DEF Setters
<1>2. \A c \in Setters(f, h, n) : g[c] = f[c]
  BY DEF Setters
<1> QED BY <1>1, <1>2 DEF Carried

\* It stays known over descriptors that set nothing.
LEMMA CarriedOn ==
  ASSUME NEW f, NEW g, NEW reg, NEW h \in DescIndex, NEW m \in Nat, NEW n \in Nat, m <= n, NEW v,
         \A d \in DescIndex : DescDist(h, d) < m => g[d] = f[d],
         \A d \in DescIndex : m <= DescDist(h, d) /\ DescDist(h, d) < n => g[d] \in {0, v},
         Carried(f, reg, h, m, v)
  PROVE  Carried(g, reg, h, n, v)
<1>1. \A d \in DescIndex : DescDist(h, d) \in Nat
  BY DescDistBound
<1>2. Setters(g, h, n) = {} => reg = v
  <2> SUFFICES ASSUME Setters(g, h, n) = {} PROVE reg = v
    OBVIOUS
  <2>1. Setters(f, h, m) = {}
    BY <1>1 DEF Setters
  <2> QED BY <2>1 DEF Carried
<1>3. ASSUME NEW c \in Setters(g, h, n), \A d \in Setters(g, h, n) : DescDist(h, d) <= DescDist(h, c)
      PROVE  g[c] = v
  <2>1. CASE DescDist(h, c) < m
    <3>1. c \in Setters(f, h, m) /\ g[c] = f[c]
      BY <2>1 DEF Setters
    <3>2. Setters(f, h, m) \subseteq Setters(g, h, n)
      BY <1>1 DEF Setters
    <3> QED BY <1>3, <3>1, <3>2 DEF Carried
  <2>2. CASE m <= DescDist(h, c)
    BY <1>3, <2>2 DEF Setters
  <2> QED BY <1>1, <1>3, <2>1, <2>2 DEF Setters
<1> QED BY <1>2, <1>3 DEF Carried

\* A descriptor that sets it makes it known.
LEMMA CarriedSet ==
  ASSUME NEW f, NEW reg, NEW h \in DescIndex, NEW n \in Nat, NEW v, v # 0,
         NEW c \in DescIndex, DescDist(h, c) < n, f[c] = v,
         \A d \in DescIndex : DescDist(h, c) < DescDist(h, d) /\ DescDist(h, d) < n => f[d] = 0
  PROVE  Carried(f, reg, h, n, v)
<1>1. \A d \in DescIndex : DescDist(h, d) \in Nat
  BY DescDistBound
<1>2. c \in Setters(f, h, n)
  BY DEF Setters
<1>3. ASSUME NEW e \in Setters(f, h, n), \A d \in Setters(f, h, n) : DescDist(h, d) <= DescDist(h, e)
      PROVE  f[e] = v
  <2>1. DescDist(h, c) <= DescDist(h, e) /\ e \in DescIndex /\ f[e] # 0 /\ DescDist(h, e) < n
    BY <1>2, <1>3 DEF Setters
  <2>2. ~ (DescDist(h, c) < DescDist(h, e))
    BY <2>1
  <2>3. DescDist(h, c) = DescDist(h, e)
    BY <1>1, <2>1, <2>2
  <2>4. c = e
    BY <2>1, <2>3, DescDistInjective
  <2> QED BY <2>4
<1> QED BY <1>2, <1>3 DEF Carried

\* The device gets one step further, and remembers what it has read.
LEMMA CarriedFetch ==
  ASSUME NEW f, NEW reg, NEW h \in DescIndex, NEW n \in Nat, n # 0, NEW v,
         NEW g \in DescIndex, g = DescFwd(h, 1), n <= DescCount,
         Carried(f, reg, h, n, v)
  PROVE  Carried(f, IF f[h] # 0 THEN f[h] ELSE reg, g, n - 1, v)
<1>1. \A d \in DescIndex : DescDist(h, d) \in Nat /\ DescDist(h, d) < DescCount
  BY DescDistBound
<1>2. DescDist(h, h) = 0
  BY DescDistSelf
<1>3. DescDist(h, g) = 1
  <2>1. DescDist(h, h) + 1 < DescCount
    BY <1>2, SizesAssumption
  <2> QED BY <1>2, <2>1, DescDistFwd
<1>4. \A d \in DescIndex : DescDist(g, d) = IF DescDist(h, d) >= 1 THEN DescDist(h, d) - 1 ELSE DescDist(h, d) - 1 + DescCount
  BY <1>3, DescDistBetween
<1>5. \A d \in DescIndex : DescDist(h, d) = 0 <=> d = h
  BY <1>2, DescDistInjective
<1>6. \A d \in DescIndex : d # h => DescDist(g, d) = DescDist(h, d) - 1
  BY <1>1, <1>4, <1>5
<1>7. DescDist(g, h) = DescCount - 1
  BY <1>2, <1>4, SizesAssumption
<1>8. Setters(f, g, n - 1) = Setters(f, h, n) \ {h}
  <2>1. ASSUME NEW d \in DescIndex
        PROVE  DescDist(g, d) < n - 1 <=> DescDist(h, d) < n /\ d # h
    BY <1>1, <1>6, <1>7, SizesAssumption
  <2> QED BY <2>1 DEF Setters
<1>9. CASE Setters(f, g, n - 1) = {}
  <2>1. CASE f[h] # 0
    <3>1. Setters(f, h, n) = {h}
      BY <1>2, <1>8, <1>9, <2>1 DEF Setters
    <3>2. f[h] = v
      BY <1>2, <3>1 DEF Carried
    <3> QED BY <1>9, <2>1, <3>2 DEF Carried
  <2>2. CASE f[h] = 0
    <3>1. Setters(f, h, n) = {}
      BY <1>8, <1>9, <2>2 DEF Setters
    <3> QED BY <1>9, <2>2, <3>1 DEF Carried
  <2> QED BY <2>1, <2>2
<1>10. CASE Setters(f, g, n - 1) # {}
  <2> SUFFICES ASSUME NEW c \in Setters(f, g, n - 1),
                      \A d \in Setters(f, g, n - 1) : DescDist(g, d) <= DescDist(g, c)
               PROVE  f[c] = v
    BY <1>10 DEF Carried
  <2>1. c \in Setters(f, h, n) /\ c # h /\ c \in DescIndex
    BY <1>8 DEF Setters
  <2>2. ASSUME NEW d \in Setters(f, h, n)
        PROVE  DescDist(h, d) <= DescDist(h, c)
    <3>1. CASE d = h
      BY <1>1, <1>2, <2>1, <3>1
    <3>2. CASE d # h
      <4>1. d \in DescIndex /\ DescDist(g, d) <= DescDist(g, c)
        BY <1>8, <3>2 DEF Setters
      <4> QED BY <1>1, <1>6, <2>1, <3>2, <4>1
    <3> QED BY <3>1, <3>2
  <2> QED BY <2>1, <2>2 DEF Carried
<1> QED BY <1>9, <1>10

\* Where the device is, it has it.
LEMMA CarriedHere ==
  ASSUME NEW f, NEW reg, NEW h \in DescIndex, NEW v, Carried(f, reg, h, 0, v)
  PROVE  reg = v
<1>1. Setters(f, h, 0) = {}
  BY DescDistBound DEF Setters
<1> QED BY <1>1 DEF Carried

\* While the device runs, what it has still to read begins at hwNext.
LEMMA AheadPlace ==
  ASSUME IInv, hwStart
  PROVE  /\ queue = "running" /\ RingActive /\ hwTail = descEnd
         /\ hwNext \in DescIndex /\ DescsFilled \in DescIndex
         /\ \A d \in DescIndex : K(d) \in Nat /\ K(d) < DescCount
         /\ K(DescsFilled) = D(DescsFilled) - D(hwNext)
         /\ K(descEnd) <= K(DescsFilled)
         /\ \A d \in DescIndex :
              K(d) < K(DescsFilled) => D(d) < D(DescsFilled) /\ K(d) = D(d) - D(hwNext)
<1>1. queue = "running" /\ RingActive
  BY DEF IInv, UseInv, RingOrder, RingActive
<1>2. /\ hwNext \in DescIndex /\ descEnd \in DescIndex /\ descIndex \in DescIndex
      /\ descBegin \in DescIndex
  BY DEF IInv, TypeOK
<1>3. DescsFilled \in DescIndex
  BY <1>2 DEF DescsFilled
<1>4. \A d \in DescIndex : /\ D(d) \in Nat /\ D(d) < DescCount
                           /\ K(d) \in Nat /\ K(d) < DescCount
                           /\ K(d) = IF D(d) >= D(hwNext) THEN D(d) - D(hwNext) ELSE D(d) - D(hwNext) + DescCount
  BY <1>2, DescDistBound, DescDistBetween DEF D, K
<1>5. hwTail = descEnd /\ D(hwNext) <= D(descEnd) /\ D(descEnd) <= D(DescsFilled)
  <2>1. hwTail = descEnd /\ D(hwNext) <= D(descEnd)
    BY <1>1 DEF IInv, RingOrder, D
  <2>2. pc = "fill" => D(descEnd) <= D(descIndex)
    BY DEF IInv, RingOrder, D
  <2>3. D(descEnd) <= D(DescsFilled)
    BY <1>2, <1>4, <2>2 DEF DescsFilled
  <2> QED BY <2>1, <2>3
<1> DEFINE n == D(hwNext)
           e == D(descEnd)
           f == D(DescsFilled)
<1>6. n \in Nat /\ e \in Nat /\ f \in Nat /\ n <= e /\ e <= f /\ n <= f /\ f < DescCount
  BY <1>2, <1>3, <1>4, <1>5
<1>7. K(DescsFilled) = f - n /\ K(descEnd) = e - n
  <2> HIDE DEF n, e, f
  <2>1. /\ K(DescsFilled) = IF f >= n THEN f - n ELSE f - n + DescCount
        /\ K(descEnd) = IF e >= n THEN e - n ELSE e - n + DescCount
    BY <1>2, <1>3, <1>4 DEF n, e, f
  <2> QED BY <1>6, <2>1
<1>8. ASSUME NEW d \in DescIndex, K(d) < K(DescsFilled)
      PROVE  D(d) < f /\ K(d) = D(d) - n
  <2>1. D(d) \in Nat /\ K(d) = IF D(d) >= n THEN D(d) - n ELSE D(d) - n + DescCount
    BY <1>4
  <2>2. DescCount \in Nat
    BY SizesAssumption
  <2> HIDE DEF n, e, f
  <2> QED BY <1>6, <1>7, <1>8, <2>1, <2>2
<1>9. K(descEnd) <= K(DescsFilled)
  <2> HIDE DEF n, e, f
  <2> QED BY <1>6, <1>7
<1> QED BY <1>1, <1>2, <1>3, <1>4, <1>5, <1>7, <1>8, <1>9

\* What the device will know after a step, and what that means for the packet at d.
MssThen(n, v) == Carried(MssSet', hwMss', hwNext', n, v)
TagThen(n, v) == Carried(TagSet', hwTag', hwNext', n, v)

LEMMA ContextThen ==
  ASSUME hwStart' =>
           /\ lastMss' # NoMss => MssThen(K(DescsFilled)', lastMss')
           /\ lastVlanTag' # 0 => TagThen(K(DescsFilled)', lastVlanTag')
           /\ \A d \in DescIndex :
                K(d)' < K(DescsFilled)' /\ descs'[d].first =>
                  LET p == pkts'[descs'[d].pkt] IN
                  /\ descs'[d].type = "tso" <=> IsGso(p)
                  /\ IsGso(p) => MssThen(K(d)', p.mss)
                  /\ descs'[d].tag = 0 <=> VlanTag(p) = 0
                  /\ VlanTag(p) # 0 => TagThen(K(d)', VlanTag(p))
  PROVE  ContextInv'
<1>1. \A d \in DescIndex :
        AsAsked(d)' <=>
          LET p == pkts'[descs'[d].pkt] IN
          /\ descs'[d].type = "tso" <=> IsGso(p)
          /\ IsGso(p) => MssThen(K(d)', p.mss)
          /\ descs'[d].tag = 0 <=> VlanTag(p) = 0
          /\ VlanTag(p) # 0 => TagThen(K(d)', VlanTag(p))
  BY DEF AsAsked, MssAt, TagAt, MssThen, TagThen, IsGso, VlanTag
<1> QED BY <1>1 DEF ContextInv, MssAt, TagAt, MssThen, TagThen

\* Steps that neither read nor write descriptors ahead of the device, nor change a packet in use.
LEMMA ContextSame ==
  ASSUME IInv, ContextInv, hwStart' => hwStart, DescsFilled' = DescsFilled,
         UNCHANGED <<lastMss, lastVlanTag, hwMss, hwTag, hwNext>>,
         \A d \in DescIndex : /\ descs'[d].type = descs[d].type /\ descs'[d].first = descs[d].first
                              /\ descs'[d].mss = descs[d].mss /\ descs'[d].tag = descs[d].tag
                              /\ descs'[d].pkt = descs[d].pkt,
         \A i \in PktIndex : P(i) < P(pktEnd) => pkts'[i] = pkts[i]
  PROVE  ContextInv'
<1> SUFFICES ASSUME hwStart PROVE ContextInv'
  BY DEF ContextInv
<1>1. MssSet' = MssSet /\ TagSet' = TagSet
  BY DEF MssSet, TagSet
<1>2. /\ \A d : K(d)' = K(d)
      /\ \A n, v : MssThen(n, v) <=> MssAt(n, v)
      /\ \A n, v : TagThen(n, v) <=> TagAt(n, v)
      /\ K(DescsFilled)' = K(DescsFilled)
  BY <1>1 DEF K, MssAt, TagAt, MssThen, TagThen
<1>3. ASSUME NEW d \in DescIndex, K(d) < K(DescsFilled), descs[d].first
      PROVE  AsAsked(d) /\ pkts'[descs'[d].pkt] = pkts[descs[d].pkt]
  <2>1. RingActive /\ D(d) < D(DescsFilled)
    BY <1>3, AheadPlace
  <2>2. P(descs[d].pkt) < P(PktsFilled) /\ P(PktsFilled) <= P(pktEnd)
    BY <2>1 DEF IInv, PacketInv, FilledInv
  <2>3. descs[d].pkt \in PktIndex /\ PktsFilled \in PktIndex /\ pktEnd \in PktIndex
    BY PacketTypes DEF IInv, TypeOK
  <2>4. P(descs[d].pkt) \in Nat /\ P(PktsFilled) \in Nat /\ P(pktEnd) \in Nat
    BY <2>3, Positions DEF IInv
  <2>5. P(descs[d].pkt) < P(pktEnd)
    BY <2>2, <2>4
  <2> QED BY <1>3, <2>3, <2>5 DEF ContextInv
<1>4. ASSUME NEW d \in DescIndex, K(d)' < K(DescsFilled)', descs'[d].first
      PROVE  LET p == pkts'[descs'[d].pkt] IN
             /\ descs'[d].type = "tso" <=> IsGso(p)
             /\ IsGso(p) => MssThen(K(d)', p.mss)
             /\ descs'[d].tag = 0 <=> VlanTag(p) = 0
             /\ VlanTag(p) # 0 => TagThen(K(d)', VlanTag(p))
  <2> DEFINE p == pkts[descs[d].pkt]
  <2>1. AsAsked(d) /\ pkts'[descs'[d].pkt] = p
    BY <1>2, <1>3, <1>4
  <2>2. /\ descs[d].type = "tso" <=> IsGso(p)
        /\ IsGso(p) => MssAt(K(d), p.mss)
        /\ descs[d].tag = 0 <=> VlanTag(p) = 0
        /\ VlanTag(p) # 0 => TagAt(K(d), VlanTag(p))
    BY <2>1 DEF AsAsked
  <2> HIDE DEF p
  <2> QED BY <1>2, <2>1, <2>2
<1>5. /\ lastMss' # NoMss => MssThen(K(DescsFilled)', lastMss')
      /\ lastVlanTag' # 0 => TagThen(K(DescsFilled)', lastVlanTag')
  BY <1>2 DEF ContextInv
<1> QED BY <1>4, <1>5, ContextThen

\* The device reads a descriptor, and remembers what it sets.
LEMMA FetchContext ==
  ASSUME IInv, ContextInv, HwFetch
  PROVE  ContextInv'
<1> SUFFICES ASSUME hwStart PROVE ContextInv'
  BY DEF HwFetch, ContextInv
<1>1. /\ hwNext # hwTail /\ hwNext' = DescFwd(hwNext, 1)
      /\ UNCHANGED <<pc, pkts, descs, descIndex, descEnd, lastMss, lastVlanTag>>
  BY DEF HwFetch, netVars, descVars, locals
<1>2. /\ hwMss' = IF MssSet[hwNext] # 0 THEN MssSet[hwNext] ELSE hwMss
      /\ hwTag' = IF TagSet[hwNext] # 0 THEN TagSet[hwNext] ELSE hwTag
      /\ MssSet' = MssSet /\ TagSet' = TagSet
  <2>1. hwNext \in DescIndex
    BY AheadPlace
  <2> QED BY <2>1 DEF HwFetch, MssSet, TagSet, descVars
<1>3. /\ hwNext \in DescIndex /\ DescsFilled \in DescIndex /\ hwTail = descEnd
      /\ \A d \in DescIndex : K(d) \in Nat /\ K(d) < DescCount
      /\ K(descEnd) <= K(DescsFilled)
  BY AheadPlace
<1>4. K(hwNext) = 0 /\ \A d \in DescIndex : K(d) = 0 <=> d = hwNext
  BY <1>3, DescDistSelf, DescDistInjective DEF K
<1>5. K(DescsFilled) # 0
  BY <1>1, <1>3, <1>4 DEF IInv, TypeOK
<1>6. hwNext' \in DescIndex /\ DescDist(hwNext, hwNext') = 1
  <2>1. DescDist(hwNext, hwNext) + 1 < DescCount
    BY <1>3, DescDistSelf, SizesAssumption
  <2> QED BY <1>1, <1>3, <2>1, DescDistFwd, DescDistSelf
<1>7. \A d \in DescIndex : K(d)' = IF K(d) >= 1 THEN K(d) - 1 ELSE K(d) - 1 + DescCount
  BY <1>3, <1>6, DescDistBetween DEF K
<1>8. DescsFilled' = DescsFilled /\ K(DescsFilled)' = K(DescsFilled) - 1
  <2>1. DescsFilled' = DescsFilled
    BY <1>1 DEF DescsFilled
  <2>2. K(DescsFilled)' = DescDist(hwNext', DescsFilled)
    BY <2>1 DEF K
  <2>3. DescDist(hwNext', DescsFilled) = IF K(DescsFilled) >= 1 THEN K(DescsFilled) - 1
                                         ELSE K(DescsFilled) - 1 + DescCount
    BY <1>3, <1>6, DescDistBetween DEF K
  <2> QED BY <1>3, <1>5, <2>1, <2>2, <2>3
\* What is known n descriptors from where the device was.
<1>9. ASSUME NEW n \in Nat, n # 0, n <= DescCount, NEW v
      PROVE  /\ MssAt(n, v) => MssThen(n - 1, v)
             /\ TagAt(n, v) => TagThen(n - 1, v)
  BY <1>1, <1>2, <1>3, <1>6, <1>9, CarriedFetch DEF MssAt, TagAt, MssThen, TagThen
<1>10. ASSUME NEW d \in DescIndex, K(d)' < K(DescsFilled)', descs'[d].first
       PROVE  LET p == pkts'[descs'[d].pkt] IN
              /\ descs'[d].type = "tso" <=> IsGso(p)
              /\ IsGso(p) => MssThen(K(d)', p.mss)
              /\ descs'[d].tag = 0 <=> VlanTag(p) = 0
              /\ VlanTag(p) # 0 => TagThen(K(d)', VlanTag(p))
  <2>1. /\ K(d) \in Nat /\ K(DescsFilled) \in Nat /\ K(d) < DescCount /\ K(DescsFilled) < DescCount
        /\ DescCount \in Nat
    BY <1>3, SizesAssumption
  <2>2. K(d) # 0 /\ K(d)' = K(d) - 1 /\ K(d) < K(DescsFilled) /\ K(d) <= DescCount
    BY <1>7, <1>8, <1>10, <2>1
  <2>3. AsAsked(d)
    BY <1>1, <1>10, <2>2 DEF ContextInv
  <2> DEFINE p == pkts[descs[d].pkt]
  <2>4. /\ descs[d].type = "tso" <=> IsGso(p)
        /\ IsGso(p) => MssAt(K(d), p.mss)
        /\ descs[d].tag = 0 <=> VlanTag(p) = 0
        /\ VlanTag(p) # 0 => TagAt(K(d), VlanTag(p))
    BY <2>3 DEF AsAsked
  <2>5. pkts'[descs'[d].pkt] = p /\ descs' = descs
    BY <1>1
  <2> HIDE DEF p
  <2> QED BY <1>9, <2>1, <2>2, <2>4, <2>5
<1>11. /\ lastMss' # NoMss => MssThen(K(DescsFilled)', lastMss')
       /\ lastVlanTag' # 0 => TagThen(K(DescsFilled)', lastVlanTag')
  <2>1. K(DescsFilled) \in Nat /\ K(DescsFilled) <= DescCount
    BY <1>3, SizesAssumption
  <2>2. /\ lastMss # NoMss => MssAt(K(DescsFilled), lastMss)
        /\ lastVlanTag # 0 => TagAt(K(DescsFilled), lastVlanTag)
    BY DEF ContextInv
  <2> QED BY <1>1, <1>5, <1>8, <1>9, <2>1, <2>2
<1> QED BY <1>10, <1>11, ContextThen

\* What the descriptors of a packet set: the context descriptor, which comes first if there
\* is one, a new segment size or a new tag, and the others nothing.
LEMMA PacketSets ==
  ASSUME NEW p \in Packets, NEW i, NEW o \in Nat, o < DescriptorsWritten(p)
  PROVE  LET x == DescriptorAt(p, i, o)
             c == Bit(ContextNeeded(p)) IN
         /\ c \in {0, 1} /\ c < DescriptorsWritten(p)
         /\ (IF x.type = "context" THEN x.mss ELSE 0) = IF o < c THEN p.mss ELSE 0
         /\ (IF x.type = "context" THEN x.tag ELSE 0)
              = IF o < c /\ ContextTagNeeded(p) THEN VlanTag(p) ELSE 0
         /\ x.pkt = i
         /\ x.first => /\ o = c
                       /\ x.type = "tso" <=> IsGso(p)
                       /\ x.tag = 0 <=> VlanTag(p) = 0
<1> DEFINE x == DescriptorAt(p, i, o)
           c == Bit(ContextNeeded(p))
           b == Bit(VlanTag(p) # 0)
<1>1. c \in {0, 1} /\ (b = 0 <=> VlanTag(p) = 0)
  BY DEF Bit
<1>2. c < DescriptorsWritten(p)
  <2>1. DataDescriptors(p) \in Nat /\ DataDescriptors(p) >= 1
    BY PacketsAssumption, Zenon
  <2>2. Bit(IsGso(p)) \in {0, 1} /\ DescriptorsWritten(p) = c + Bit(IsGso(p)) + DataDescriptors(p)
    BY DEF Bit, DescriptorsWritten
  <2> HIDE DEF c
  <2> QED BY <1>1, <2>1, <2>2
<1> DEFINE last == o = DescriptorsWritten(p) - 1
           t == IF ContextTagNeeded(p) THEN VlanTag(p) ELSE 0
<1>3. x = IF o < c THEN Descriptor("context", FALSE, FALSE, p.mss, t, i)
          ELSE IF IsGso(p) /\ o = c THEN Descriptor("tso", TRUE, FALSE, 0, b, i)
          ELSE Descriptor("data", ~IsGso(p) /\ o = c, last, 0, b, i)
  BY Zenon DEF DescriptorAt
<1> HIDE DEF x, c, b, last, t
<1>4. /\ (IF x.type = "context" THEN x.mss ELSE 0) = IF o < c THEN p.mss ELSE 0
      /\ (IF x.type = "context" THEN x.tag ELSE 0) = IF o < c THEN t ELSE 0
      /\ x.pkt = i
      /\ x.first => o = c /\ (x.type = "tso" <=> IsGso(p)) /\ x.tag = b
  <2>1. CASE o < c
    <3>1. x = Descriptor("context", FALSE, FALSE, p.mss, t, i)
      BY <1>3, <2>1
    <3> QED BY <2>1, <3>1 DEF Descriptor
  <2>2. CASE ~(o < c) /\ IsGso(p) /\ o = c
    <3>1. x = Descriptor("tso", TRUE, FALSE, 0, b, i)
      BY <1>3, <2>2
    <3> QED BY <2>2, <3>1 DEF Descriptor
  <2>3. CASE ~(o < c) /\ ~(IsGso(p) /\ o = c)
    <3>1. x = Descriptor("data", ~IsGso(p) /\ o = c, last, 0, b, i)
      BY <1>3, <2>3
    <3> QED BY <2>3, <3>1 DEF Descriptor
  <2> QED BY <2>1, <2>2, <2>3
<1>5. (IF o < c /\ ContextTagNeeded(p) THEN VlanTag(p) ELSE 0) = IF o < c THEN t ELSE 0
  BY DEF t
<1> QED BY <1>1, <1>2, <1>4, <1>5 DEF x, c

\* A packet is queued: its context descriptor, or those before it, set what it asks for.
LEMMA QueueContext ==
  ASSUME IInv, ContextInv, QueuePacket
  PROVE  ContextInv'
<1> SUFFICES ASSUME hwStart PROVE ContextInv'
  BY DEF QueuePacket, ContextInv, hwVars
<1> DEFINE p == pkts[pktIndex]
           w == DescriptorsWritten(p)
           c == Bit(ContextNeeded(p))
           k == K(descIndex)
<1>1. /\ pc = "fill" /\ pc' = pc
      /\ UNCHANGED <<pkts, hwNext, hwMss, hwTag>>
      /\ descIndex' = DescFwd(descIndex, w)
      /\ lastMss' = IF IsGso(p) THEN p.mss ELSE lastMss
      /\ lastVlanTag' = IF ContextTagNeeded(p) THEN VlanTag(p) ELSE lastVlanTag
      /\ \A d \in DescIndex : descs'[d] = IF DescDist(descIndex, d) < w
                                            THEN DescriptorAt(p, pktIndex, DescDist(descIndex, d))
                                            ELSE descs[d]
  BY DEF QueuePacket, netVars, hwVars
<1>2. /\ hwNext \in DescIndex /\ descIndex \in DescIndex /\ descBegin \in DescIndex
      /\ p \in Packets /\ pktIndex \in PktIndex
  BY DEF IInv, TypeOK
<1>3. DescsFilled = descIndex /\ DescsFilled' = descIndex'
  BY <1>1 DEF DescsFilled
<1>4. /\ w \in Nat /\ c \in {0, 1} /\ c < w
      /\ p.mss \in Nat /\ p.mss < NoMss /\ VlanTag(p) \in Nat
  <2>1. w \in Nat /\ p.mss \in Nat /\ VlanTag(p) \in Nat
    BY <1>2, PacketFacts
  <2>2. p.mss < NoMss /\ DataDescriptors(p) \in Nat /\ DataDescriptors(p) >= 1
    BY <1>2, PacketsAssumption, Zenon
  <2>3. c \in {0, 1} /\ Bit(IsGso(p)) \in {0, 1} /\ w = c + Bit(IsGso(p)) + DataDescriptors(p)
    BY DEF Bit, DescriptorsWritten
  <2> HIDE DEF c, w
  <2> QED BY <2>1, <2>2, <2>3
\* Where the new descriptors are, as the device will come to them.
<1>5. /\ k \in Nat /\ k + w < DescCount
      /\ k = D(descIndex) - D(hwNext) /\ D(hwNext) \in Nat
      /\ D(descIndex) \in Nat /\ D(descIndex) + w < DescCount
  <2>1. k \in Nat /\ k = D(descIndex) - D(hwNext)
    BY <1>2, <1>3, AheadPlace
  <2>2. D(hwNext) \in Nat /\ D(descIndex) \in Nat
    BY <1>2, DescDistBound DEF D
  <2>3. D(descIndex) + w < DescCount
    <3>1. EmptyDescRemaining(descIndex) = DescCount - 1 - D(descIndex)
      BY <1>2, EmptyDescRemainingValue DEF D
    <3>2. w <= DescriptorsReserved(p) /\ DescriptorsReserved(p) \in Nat
      BY <1>2, PacketFacts
    <3>3. DescriptorsReserved(p) <= EmptyDescRemaining(descIndex)
      BY Zenon DEF QueuePacket, PacketFits
    <3> HIDE DEF w, p
    <3> QED BY <1>4, <2>2, <3>1, <3>2, <3>3, SizesAssumption
  <2> HIDE DEF w, k
  <2> QED BY <1>4, <2>1, <2>2, <2>3, SizesAssumption
<1>6. K(DescsFilled)' = k + w
  <2>1. DescDist(hwNext, DescFwd(descIndex, w)) = k + w
    <3>1. DescDist(hwNext, descIndex) + w < DescCount
      BY <1>5 DEF K
    <3> QED BY <1>2, <1>4, <3>1, DescDistFwd DEF K
  <2> QED BY <1>1, <1>3, <2>1 DEF K
<1>7. \A d \in DescIndex : K(d) \in Nat /\ K(d)' = K(d)
  BY <1>1, AheadPlace DEF K
<1>8. \A d \in DescIndex :
        DescDist(descIndex, d) = IF K(d) >= k THEN K(d) - k ELSE K(d) - k + DescCount
  BY <1>2, DescDistBetween DEF K
<1> HIDE DEF w, c, k
<1>9. ASSUME NEW d \in DescIndex
      PROVE  /\ K(d) < k => descs'[d] = descs[d]
             /\ k <= K(d) /\ K(d) < k + w => descs'[d] = DescriptorAt(p, pktIndex, K(d) - k)
  <2>1. CASE K(d) < k
    <3>1. ~(DescDist(descIndex, d) < w)
      BY <1>4, <1>5, <1>7, <1>8, <2>1, SizesAssumption
    <3> QED BY <1>1, <1>5, <1>7, <2>1, <3>1
  <2>2. CASE k <= K(d) /\ K(d) < k + w
    <3>1. DescDist(descIndex, d) = K(d) - k /\ DescDist(descIndex, d) < w
      BY <1>4, <1>5, <1>7, <1>8, <2>2, SizesAssumption
    <3> QED BY <1>1, <1>5, <1>7, <2>2, <3>1
  <2> QED BY <1>5, <1>7, <2>1, <2>2
<1> DEFINE t == IF ContextTagNeeded(p) THEN VlanTag(p) ELSE 0
<1>10. ASSUME NEW d \in DescIndex
       PROVE  /\ K(d) < k => MssSet'[d] = MssSet[d] /\ TagSet'[d] = TagSet[d]
              /\ k <= K(d) /\ K(d) < k + w =>
                   /\ MssSet'[d] = IF K(d) - k < c THEN p.mss ELSE 0
                   /\ TagSet'[d] = IF K(d) - k < c THEN t ELSE 0
  <2>1. CASE K(d) < k
    BY <1>5, <1>7, <1>9, <2>1 DEF MssSet, TagSet
  <2>2. CASE k <= K(d) /\ K(d) < k + w
    <3>1. K(d) - k \in Nat /\ K(d) - k < w
      BY <1>4, <1>5, <1>7, <2>2
    <3> DEFINE x == DescriptorAt(p, pktIndex, K(d) - k)
    <3>2. /\ (IF x.type = "context" THEN x.mss ELSE 0) = IF K(d) - k < c THEN p.mss ELSE 0
          /\ (IF x.type = "context" THEN x.tag ELSE 0) = IF K(d) - k < c THEN t ELSE 0
      BY <1>2, <3>1, PacketSets DEF w, c
    <3>3. descs'[d] = x
      BY <1>9, <2>2
    <3> HIDE DEF x
    <3>4. /\ MssSet'[d] = IF x.type = "context" THEN x.mss ELSE 0
          /\ TagSet'[d] = IF x.type = "context" THEN x.tag ELSE 0
      BY <3>3 DEF MssSet, TagSet
    <3> QED BY <1>5, <1>7, <2>2, <3>2, <3>4
  <2> QED BY <2>1, <2>2
<1> HIDE DEF t
<1>11. /\ lastMss # NoMss => MssAt(k, lastMss)
       /\ lastVlanTag # 0 => TagAt(k, lastVlanTag)
  BY <1>3 DEF ContextInv, k
\* What is known behind the context descriptor, up to the end of the packet.
<1>12. ASSUME NEW m \in Nat, c <= m, m <= w
       PROVE  /\ IsGso(p) => MssThen(k + m, p.mss)
              /\ ~IsGso(p) /\ lastMss # NoMss => MssThen(k + m, lastMss)
              /\ VlanTag(p) # 0 => TagThen(k + m, VlanTag(p))
              /\ ~ContextTagNeeded(p) /\ lastVlanTag # 0 => TagThen(k + m, lastVlanTag)
  <2>1. k + m \in Nat /\ k <= k + m /\ k + m <= k + w
    BY <1>4, <1>5, <1>12
  \* Either it is known already and what comes does not change it, ...
  <2>2. ASSUME NEW v, MssAt(k, v), p.mss \in {0, v}
        PROVE  MssThen(k + m, v)
    <3>1. \A d \in DescIndex : K(d) < k => MssSet'[d] = MssSet[d]
      BY <1>10
    <3>2. \A d \in DescIndex : k <= K(d) /\ K(d) < k + m => MssSet'[d] \in {0, v}
      BY <1>4, <1>5, <1>7, <1>10, <2>1, <2>2
    <3> QED BY <1>1, <1>2, <1>5, <2>1, <2>2, <3>1, <3>2, CarriedOn DEF MssAt, MssThen, K
  <2>3. ASSUME NEW v, TagAt(k, v), t \in {0, v}
        PROVE  TagThen(k + m, v)
    <3>1. \A d \in DescIndex : K(d) < k => TagSet'[d] = TagSet[d]
      BY <1>10
    <3>2. \A d \in DescIndex : k <= K(d) /\ K(d) < k + m => TagSet'[d] \in {0, v}
      BY <1>4, <1>5, <1>7, <1>10, <2>1, <2>3
    <3> QED BY <1>1, <1>2, <1>5, <2>1, <2>3, <3>1, <3>2, CarriedOn DEF TagAt, TagThen, K
  \* ... or the context descriptor sets it.
  <2>4. ASSUME c = 1
        PROVE  /\ p.mss # 0 => MssThen(k + m, p.mss)
               /\ t # 0 => TagThen(k + m, t)
    <3>1. /\ DescDist(hwNext, descIndex) = k /\ k < k + m
          /\ MssSet'[descIndex] = p.mss /\ TagSet'[descIndex] = t
      <4>1. DescDist(hwNext, descIndex) = k /\ K(descIndex) = k
        BY DEF k, K
      <4>2. k < k + m /\ k <= k /\ k < k + w /\ k - k < c
        BY <1>4, <1>5, <1>12, <2>4
      <4> QED BY <1>2, <1>10, <4>1, <4>2
    <3>2. \A d \in DescIndex : k < DescDist(hwNext, d) /\ DescDist(hwNext, d) < k + m =>
                                 MssSet'[d] = 0 /\ TagSet'[d] = 0
      <4> SUFFICES ASSUME NEW d \in DescIndex, k < K(d), K(d) < k + m
                   PROVE  MssSet'[d] = 0 /\ TagSet'[d] = 0
        BY DEF K
      <4>1. k <= K(d) /\ K(d) < k + w /\ ~(K(d) - k < c)
        BY <1>4, <1>5, <1>7, <2>1, <2>4
      <4> QED BY <1>10, <4>1
    <3> QED BY <1>1, <1>2, <2>1, <3>1, <3>2, CarriedSet DEF MssThen, TagThen
  <2>5. ContextNeeded(p) => c = 1
    BY DEF c, Bit
  <2>6. IsGso(p) => MssThen(k + m, p.mss)
    <3>1. CASE ContextMssNeeded(p)
      BY <2>4, <2>5, <3>1 DEF ContextNeeded, ContextMssNeeded, IsGso
    <3>2. CASE IsGso(p) /\ p.mss = lastMss
      <4>1. lastMss # NoMss
        BY <1>4, <3>2 DEF NoMss
      <4> QED BY <1>11, <2>2, <3>2, <4>1
    <3> QED BY <3>1, <3>2 DEF ContextMssNeeded
  <2>7. ~IsGso(p) /\ lastMss # NoMss => MssThen(k + m, lastMss)
    BY <1>11, <2>2 DEF IsGso
  <2>8. VlanTag(p) # 0 => TagThen(k + m, VlanTag(p))
    <3>1. CASE ContextTagNeeded(p)
      BY <2>4, <2>5, <3>1 DEF ContextNeeded, t
    <3>2. CASE VlanTag(p) # 0 /\ VlanTag(p) = lastVlanTag
      BY <1>11, <2>3, <3>2 DEF ContextTagNeeded, t
    <3> QED BY <3>1, <3>2 DEF ContextTagNeeded
  <2>9. ~ContextTagNeeded(p) /\ lastVlanTag # 0 => TagThen(k + m, lastVlanTag)
    BY <1>11, <2>3 DEF t
  <2> QED BY <2>6, <2>7, <2>8, <2>9
<1>13. /\ lastMss' # NoMss => MssThen(K(DescsFilled)', lastMss')
       /\ lastVlanTag' # 0 => TagThen(K(DescsFilled)', lastVlanTag')
  <2>1. c <= w /\ w <= w
    BY <1>4
  <2>2. /\ IsGso(p) => MssThen(k + w, p.mss)
        /\ ~IsGso(p) /\ lastMss # NoMss => MssThen(k + w, lastMss)
        /\ VlanTag(p) # 0 => TagThen(k + w, VlanTag(p))
        /\ ~ContextTagNeeded(p) /\ lastVlanTag # 0 => TagThen(k + w, lastVlanTag)
    BY <1>4, <1>12, <2>1
  <2> QED BY <1>1, <1>6, <2>2
<1>14. ASSUME NEW d \in DescIndex, K(d)' < K(DescsFilled)', descs'[d].first
       PROVE  LET q == pkts'[descs'[d].pkt] IN
              /\ descs'[d].type = "tso" <=> IsGso(q)
              /\ IsGso(q) => MssThen(K(d)', q.mss)
              /\ descs'[d].tag = 0 <=> VlanTag(q) = 0
              /\ VlanTag(q) # 0 => TagThen(K(d)', VlanTag(q))
  <2>0. K(d)' = K(d) /\ K(d) \in Nat /\ K(d) < k + w
    BY <1>6, <1>7, <1>14
  <2>1. CASE K(d) < k
    <3>1. descs'[d] = descs[d]
      BY <1>9, <2>1
    <3>2. AsAsked(d)
      BY <1>3, <1>14, <2>1, <3>1 DEF ContextInv, k
    <3>3. \A e \in DescIndex : K(e) < K(d) => MssSet'[e] = MssSet[e] /\ TagSet'[e] = TagSet[e]
      BY <1>5, <1>7, <1>10, <2>0, <2>1
    <3>4. \A v : /\ MssAt(K(d), v) => MssThen(K(d), v)
                 /\ TagAt(K(d), v) => TagThen(K(d), v)
      <4>1. \A e \in DescIndex : DescDist(hwNext, e) < K(d) => MssSet'[e] = MssSet[e] /\ TagSet'[e] = TagSet[e]
        BY <3>3 DEF K
      <4> QED BY <1>1, <4>1, CarriedSame DEF MssAt, TagAt, MssThen, TagThen
    <3> DEFINE q == pkts[descs[d].pkt]
    <3>5. /\ descs[d].type = "tso" <=> IsGso(q)
          /\ IsGso(q) => MssAt(K(d), q.mss)
          /\ descs[d].tag = 0 <=> VlanTag(q) = 0
          /\ VlanTag(q) # 0 => TagAt(K(d), VlanTag(q))
      BY <3>2 DEF AsAsked
    <3>6. pkts'[descs'[d].pkt] = q
      BY <1>1, <3>1
    <3> HIDE DEF q
    <3> QED BY <2>0, <3>1, <3>4, <3>5, <3>6
  <2>2. CASE k <= K(d)
    <3> DEFINE o == K(d) - k
               x == DescriptorAt(p, pktIndex, o)
    <3>1. o \in Nat /\ o < w
      BY <1>4, <1>5, <2>0, <2>2
    <3>2. descs'[d] = x
      BY <1>9, <2>0, <2>2
    <3>3. x.pkt = pktIndex /\ o = c /\ (x.type = "tso" <=> IsGso(p)) /\ (x.tag = 0 <=> VlanTag(p) = 0)
      BY <1>2, <1>14, <3>1, <3>2, PacketSets DEF w, c
    <3>4. pkts'[descs'[d].pkt] = p
      BY <1>1, <3>2, <3>3
    <3>5. K(d) = k + c
      BY <1>5, <2>0, <3>3
    <3> HIDE DEF o, x, p
    <3>6. /\ IsGso(p) => MssThen(k + c, p.mss)
          /\ VlanTag(p) # 0 => TagThen(k + c, VlanTag(p))
      BY <1>4, <1>12
    <3> QED BY <2>0, <3>2, <3>3, <3>4, <3>5, <3>6
  <2> QED BY <1>5, <2>0, <2>1, <2>2
<1> QED BY <1>13, <1>14, ContextThen

LEMMA ContextKeeps ==
  ASSUME IInv, ContextInv, [Next]_vars
  PROVE  ContextInv'
<1> USE DEF netVars, ringVars, descVars, locals, hwVars
<1>1. CASE UNCHANGED vars
  <2>1. DescsFilled' = DescsFilled
    BY <1>1 DEF vars, DescsFilled
  <2> QED BY <1>1, <2>1, ContextSame DEF vars
<1>2. CASE TxQueueCreate \/ TxQueueStop \/ TxQueueCleanup \/ TxQueueCancel \/ Cancelling
  <2>1. hwStart' = FALSE
    BY <1>2 DEF TxQueueCreate, TxQueueStop, TxQueueCleanup, TxQueueCancel, Cancelling, CancelDrained,
                CancelTimeout, CancelDiscard, IInv, TypeOK, UseInv, RingOrder
  <2> QED BY <2>1 DEF ContextInv
<1>3. CASE TxQueueStart
  <2>1. lastMss' = NoMss /\ lastVlanTag' = 0 /\ descEnd' = 0 /\ hwNext' = 0 /\ pc' = "idle"
    BY <1>3 DEF TxQueueStart, IInv, RingOrder
  <2>2. K(DescsFilled)' = 0
    <3>1. DescsFilled' = 0
      BY <2>1 DEF DescsFilled
    <3> QED BY <2>1, <3>1, Zeros, DescDistSelf DEF K
  <2>3. \A d \in DescIndex : ~ (K(d)' < K(DescsFilled)')
    <3>1. \A d \in DescIndex : DescDist(0, d) \in Nat
      BY Zeros, DescDistBound
    <3> QED BY <2>1, <2>2, <3>1 DEF K
  <2> QED BY <2>1, <2>3, ContextThen
<1>4. CASE \E p \in Packets : NetAddPacket(p)
  <2>1. DescsFilled' = DescsFilled
    BY <1>4 DEF NetAddPacket, DescsFilled
  <2>2. \A i \in PktIndex : P(i) < P(pktEnd) => pkts'[i] = pkts[i]
    <3>1. P(pktEnd) \in Nat
      BY Positions DEF IInv, TypeOK
    <3>2. \A i \in PktIndex : i # pktEnd => pkts'[i] = pkts[i]
      BY <1>4 DEF NetAddPacket, IInv, TypeOK
    <3> QED BY <3>1, <3>2
  <2> QED BY <1>4, <2>1, <2>2, ContextSame DEF NetAddPacket
<1>5. CASE AdvanceBegin \/ ReapDescriptor \/ ReapDone \/ QueueIgnored \/ AdvanceCommit
  <2>1. DescsFilled' = DescsFilled
    <3>1. CASE AdvanceBegin
      BY <3>1 DEF AdvanceBegin, EnterAdvance, DescsFilled
    <3>2. CASE ReapDescriptor
      BY <3>2 DEF ReapDescriptor, DescsFilled
    <3>3. CASE ReapDone
      BY <3>3 DEF ReapDone, DescsFilled
    <3>4. CASE QueueIgnored
      BY <3>4 DEF QueueIgnored, DescsFilled
    <3>5. CASE AdvanceCommit
      BY <3>5 DEF AdvanceCommit, DescsFilled
    <3> QED BY <1>5, <3>1, <3>2, <3>3, <3>4, <3>5
  <2>2. UNCHANGED <<pkts, descs, lastMss, lastVlanTag, hwStart, hwMss, hwTag, hwNext>>
    BY <1>5 DEF AdvanceBegin, ReapDescriptor, ReapDone, QueueIgnored, AdvanceCommit
  <2> QED BY <2>1, <2>2, ContextSame
<1>6. CASE HwWriteBack
  <2>1. DescsFilled' = DescsFilled
    BY <1>6 DEF HwWriteBack, DescsFilled
  <2>2. \A d \in DescIndex : /\ descs'[d].type = descs[d].type /\ descs'[d].first = descs[d].first
                             /\ descs'[d].mss = descs[d].mss /\ descs'[d].tag = descs[d].tag
                             /\ descs'[d].pkt = descs[d].pkt
    BY <1>6 DEF HwWriteBack, IInv, TypeOK, DescriptorType
  <2> QED BY <1>6, <2>1, <2>2, ContextSame DEF HwWriteBack
<1> QED
  BY <1>1, <1>2, <1>3, <1>4, <1>5, <1>6, FetchContext, QueueContext DEF Next, TxQueueAdvance, Hardware

\* Whatever context descriptors the driver leaves out, every packet is transmitted with the
\* segment size and the tag it asks for, for every size of the ring and every sequence of
\* packets, also after a power-up that leaves the device with values of before: TransmitsAsAsked.
THEOREM PacketsTransmittedAsAsked == Spec => []TransmitsAsAsked
<1>1. Init => ContextInv
  BY DEF Init, ContextInv
<1>2. IInv /\ ContextInv /\ [Next]_vars => ContextInv'
  BY ContextKeeps
<1>3. IInv /\ ContextInv => TransmitsAsAsked
  <2> SUFFICES ASSUME IInv, ContextInv, hwStart, hwNext # hwTail, descs[hwNext].first
               PROVE  LET d == descs[hwNext]
                          p == pkts[d.pkt] IN
                      /\ d.type = "tso" <=> IsGso(p)
                      /\ IsGso(p) => hwMss = p.mss
                      /\ VlanTag(p) = (IF d.tag = 0 THEN 0 ELSE hwTag)
    BY DEF TransmitsAsAsked
  <2>1. /\ hwNext \in DescIndex /\ hwTail = descEnd /\ descEnd \in DescIndex
        /\ K(descEnd) <= K(DescsFilled) /\ K(DescsFilled) \in Nat /\ K(descEnd) \in Nat
    BY AheadPlace DEF IInv, TypeOK
  <2>2. K(hwNext) = 0 /\ K(hwNext) < K(DescsFilled)
    BY <2>1, DescDistSelf, DescDistInjective DEF K
  <2>3. AsAsked(hwNext)
    BY <2>1, <2>2 DEF ContextInv
  <2> DEFINE p == pkts[descs[hwNext].pkt]
  <2>4. /\ descs[hwNext].type = "tso" <=> IsGso(p)
        /\ IsGso(p) => MssAt(0, p.mss)
        /\ descs[hwNext].tag = 0 <=> VlanTag(p) = 0
        /\ VlanTag(p) # 0 => TagAt(0, VlanTag(p))
    BY <2>2, <2>3 DEF AsAsked
  <2> HIDE DEF p
  <2>5. (IsGso(p) => hwMss = p.mss) /\ (VlanTag(p) # 0 => hwTag = VlanTag(p))
    BY <2>1, <2>4, CarriedHere DEF MssAt, TagAt
  <2> QED BY <2>4, <2>5 DEF p
<1> QED BY <1>1, <1>2, <1>3, Inductive, PTL DEF Spec



-----------------------------------------------------------------------------
(* The adapter: types.                                                     *)

Steps == {"added", "resources", "address", "features", "settings", "dma", "offer", "reset", "start",
          "prepared", "working", "failed"}

\* What an address register may hold
RegisterValues == S!Addresses \cup Groups

AdapterTypeOK ==
  /\ step \in Steps /\ regs \in BOOLEAN
  /\ config \in [jumbo : Nat, rxFlow : BOOLEAN, fifo : FifoSizes \cup {0}]
  /\ permanent \in S!Addresses /\ current \in S!Addresses /\ hasAddress \in BOOLEAN
  /\ firmware \in S!FirmwareAddresses
  /\ mac \in [S!Slots -> [addr : RegisterValues, on : BOOLEAN]] /\ mac[0].addr \in S!Addresses
  /\ asked \in Filters \cup {[flags |-> {}, list |-> <<>>]}
  /\ learned \in BOOLEAN /\ spoiled \in BOOLEAN

\* The steps of DevicePrepareHardware behind which something holds
FromAddress  == {"features", "settings", "dma", "offer", "reset", "start", "prepared", "working"}
FromSettings == {"dma", "offer", "reset", "start", "prepared", "working"}
FromOffer    == {"reset", "start", "prepared", "working"}
FromReset    == {"start", "prepared", "working"}

\* Until it is reset for use, and again once it is released, the device has the firmware's
\* address; what was read of it is that address.
AddressInv ==
  /\ step = "address" => regs
  /\ step \in FromAddress => learned /\ regs
  /\ ~spoiled => /\ ~(step \in FromReset \/ (step = "failed" /\ regs)) => mac[0].addr = firmware
                 /\ learned => permanent = firmware

\* From the reset on the registers and the filter are those of the last request; there is
\* none before.
FilterInv ==
  /\ step \notin {"prepared", "working"} => asked.flags = {}
  /\ step \in FromReset /\ ~spoiled => mac[0] = [addr |-> current, on |-> TRUE]
  /\ asked.flags # {} =>
       IF "Promiscuous" \in asked.flags
         THEN filter = [S!NoFilter EXCEPT !.promiscuous = TRUE]
         ELSE /\ filter = [S!NoFilter EXCEPT !.allMulticast = "AllMulticast" \in asked.flags,
                                             !.noBroadcast = "Broadcast" \notin asked.flags]
              /\ mac = S!FilterSlots(asked)

\* The size of a frame keeps its limits from PrepareSettings on, and is what everybody knows.
FrameSizes == S!JumboPacketMin .. S!JumboPacketMax

SizeInv ==
  /\ step \in FromSettings => config.jumbo \in FrameSizes
  /\ step \in FromOffer => /\ told.current = current /\ told.mtu = config.jumbo - 14
                           /\ told.rxBuffer = S!RxBufferSize(config.jumbo)
  /\ step = "working" =>
       /\ mode.giant <=> config.jumbo > S!JumboPacketMin
       /\ mode.jabber <=> config.jumbo <= 2000
       /\ mode.watchdog <=> config.jumbo > 2000
       /\ mode.giantLimit = config.jumbo + 4
       /\ mode.watchdogTimeout = S!WatchdogTimeout(config.jumbo)

AdapterInv == AdapterTypeOK /\ AddressInv /\ FilterInv /\ SizeInv

-----------------------------------------------------------------------------
(* The counters.                                                           *)

Listed == {g_devices[i] : i \in 1 .. Len(g_devices)}

CountersTypeOK ==
  /\ driver \in {"unloaded", "loaded", "unloading"} /\ registered \in SUBSET Sets
  /\ made \in [lock : BOOLEAN, list : BOOLEAN]
  /\ lock \in Sets \cup {"free"} /\ g_devices \in Seq(Devices)
  /\ device \in [Devices -> {"none", "created", "listed", "ready", "cleanup"}]
  /\ callback \in [Sets -> {"idle", "wait", "loop"}]
  /\ index \in [Sets -> Nat] /\ count \in [Sets -> Nat]
  /\ visited \in [Sets -> Devices \cup {"none", "null"}]

\* The list has each device at most once, and only such as have been created.
ListInv ==
  /\ \A i, j \in 1 .. Len(g_devices) : g_devices[i] = g_devices[j] => i = j
  /\ \A d \in Listed : device[d] \in {"listed", "ready", "cleanup"}
  /\ made.list => made.lock
  /\ ~made.list => g_devices = <<>>

\* A callback has the lock from the count on, and is one of a registered set.
CallbackInv ==
  \A s \in Sets :
    /\ callback[s] = "loop" <=> lock = s
    /\ callback[s] = "loop" => count[s] = Len(g_devices) /\ index[s] <= count[s]
    /\ visited[s] # "none" => callback[s] = "loop" /\ visited[s] \in Listed
    /\ callback[s] # "idle" => s \in registered

UnloadInv ==
  /\ driver = "unloaded" => registered = {} /\ ~made.list
  /\ registered # {} => made.list

CountersInv == CountersTypeOK /\ ListInv /\ CallbackInv /\ UnloadInv

-----------------------------------------------------------------------------
(* The adapter: the inductive step.                                        *)

LEMMA Constants == S!AdapterAssumption /\ S!C!CountersAssumption
  BY SetupAssumption

LEMMA Slot0 == 0 \in S!Slots /\ S!Slots \subseteq Nat
  BY Constants DEF S!AdapterAssumption, S!Slots

\* What a reset leaves in the address registers
LEMMA ResetRegisters ==
  ASSUME NEW m \in S!Addresses
  PROVE  /\ S!AfterReset(m) \in [S!Slots -> [addr : RegisterValues, on : BOOLEAN]]
         /\ S!AfterReset(m)[0] = [addr |-> m, on |-> TRUE]
<1>1. "ones" \in RegisterValues /\ m \in RegisterValues
  BY DEF RegisterValues, S!Addresses, S!FirmwareAddresses
<1> QED BY <1>1, Slot0 DEF S!AfterReset

LEMMA AdapterInitHolds == ASSUME S!Init PROVE AdapterInv
<1>1. firmware \in S!Addresses /\ firmware \in S!FirmwareAddresses /\ "zero" \in S!Addresses
  BY DEF S!Init, S!Addresses, S!FirmwareAddresses
<1>2. mac = S!AfterReset(firmware)
  BY DEF S!Init
<1>3. S!AfterReset(firmware) \in [S!Slots -> [addr : RegisterValues, on : BOOLEAN]]
  BY <1>1, ResetRegisters
<1>4. S!AfterReset(firmware)[0] = [addr |-> firmware, on |-> TRUE]
  BY <1>1, ResetRegisters
<1>5. config \in [jumbo : Nat, rxFlow : BOOLEAN, fifo : FifoSizes \cup {0}]
  BY DEF S!Init, S!JumboPacketMin
<1>6. AdapterTypeOK
  <2>1. mac \in [S!Slots -> [addr : RegisterValues, on : BOOLEAN]] /\ mac[0].addr \in S!Addresses
    BY <1>1, <1>2, <1>3, <1>4
  <2>2. /\ asked = [flags |-> {}, list |-> <<>>] /\ step = "added" /\ ~regs /\ ~learned /\ ~spoiled
        /\ permanent = "zero" /\ current = "zero" /\ ~hasAddress
    BY DEF S!Init
  <2>3. regs \in BOOLEAN /\ learned \in BOOLEAN /\ spoiled \in BOOLEAN /\ hasAddress \in BOOLEAN
    BY DEF S!Init
  <2> QED BY <1>1, <1>5, <2>1, <2>2, <2>3 DEF AdapterTypeOK, Steps
<1>7. AddressInv /\ FilterInv /\ SizeInv
  BY <1>2, <1>4 DEF S!Init, AddressInv, FilterInv, SizeInv, FromAddress, FromSettings, FromOffer, FromReset
<1> QED BY <1>6, <1>7 DEF AdapterInv

\* The steps of DevicePrepareHardware but its reset only read the registers of the device.
PrepareStep ==
  \/ S!PrepareConfiguration \/ S!PrepareResources \/ S!PrepareAddress \/ S!PrepareFeatures
  \/ S!PrepareSettings \/ S!PrepareDma \/ S!PrepareOffer

LEMMA PrepareLeaves ==
  ASSUME PrepareStep
  PROVE  /\ step' \in Steps \ FromReset /\ step \notin FromReset \cup {"failed"}
         /\ mac' = mac /\ firmware' = firmware /\ asked' = asked /\ spoiled' = spoiled
  BY DEF PrepareStep, S!PrepareConfiguration, S!PrepareResources, S!PrepareAddress, S!PrepareFeatures,
         S!PrepareSettings, S!PrepareDma, S!PrepareOffer, S!Advance, S!hwVars, S!addressVars, S!historyVars,
         FromReset, Steps

LEMMA PrepareTypes == ASSUME AdapterInv, PrepareStep PROVE AdapterTypeOK'
<1>0. AdapterTypeOK /\ PrepareStep
  BY DEF AdapterInv
<1>1. config' \in [jumbo : Nat, rxFlow : BOOLEAN, fifo : FifoSizes \cup {0}]
  <2>1. CASE S!PrepareConfiguration
    <3>1. PICK jumbo \in Jumbos, rxFlow \in BOOLEAN :
            config' = [config EXCEPT !.jumbo = IF jumbo = 0 THEN S!JumboPacketMin ELSE jumbo, !.rxFlow = rxFlow]
      BY <2>1 DEF S!PrepareConfiguration
    <3>2. (IF jumbo = 0 THEN S!JumboPacketMin ELSE jumbo) \in Nat
      BY Constants DEF S!AdapterAssumption, S!JumboPacketMin
    <3> QED BY <1>0, <3>1, <3>2 DEF AdapterTypeOK
  <2>2. CASE S!PrepareFeatures
    BY <1>0, <2>2 DEF S!PrepareFeatures, AdapterTypeOK
  <2>3. CASE S!PrepareSettings
    BY <1>0, <2>3 DEF S!PrepareSettings, AdapterTypeOK, S!JumboPacketMin, S!JumboPacketMax
  <2>4. CASE config' = config
    BY <1>0, <2>4 DEF AdapterTypeOK
  <2> QED BY <1>0, <2>1, <2>2, <2>3, <2>4
          DEF PrepareStep, S!PrepareResources, S!PrepareAddress, S!PrepareDma, S!PrepareOffer
<1>2. permanent' \in S!Addresses /\ current' \in S!Addresses /\ hasAddress' \in BOOLEAN /\ learned' \in BOOLEAN
  <2>1. CASE S!PrepareConfiguration
    BY <1>0, <2>1 DEF S!PrepareConfiguration, AdapterTypeOK, S!Addresses, S!historyVars
  <2>2. CASE S!PrepareAddress
    <3>1. /\ permanent' = mac[0].addr /\ hasAddress' = hasAddress /\ learned'
          /\ current' \in {current, mac[0].addr, "random", "group0"}
      BY <2>2 DEF S!PrepareAddress
    <3> QED BY <1>0, <3>1 DEF AdapterTypeOK, S!Addresses
  <2>3. CASE UNCHANGED <<permanent, current, hasAddress, learned>>
    BY <1>0, <2>3 DEF AdapterTypeOK
  <2> QED BY <1>0, <2>1, <2>2, <2>3
          DEF PrepareStep, S!PrepareResources, S!PrepareFeatures, S!PrepareSettings, S!PrepareDma,
              S!PrepareOffer, S!addressVars, S!historyVars
<1>3. regs' \in BOOLEAN
  BY <1>0 DEF AdapterTypeOK, PrepareStep, S!PrepareConfiguration, S!PrepareResources, S!PrepareAddress,
              S!PrepareFeatures, S!PrepareSettings, S!PrepareDma, S!PrepareOffer
<1> QED BY <1>0, <1>1, <1>2, <1>3, PrepareLeaves DEF AdapterTypeOK

LEMMA PrepareKeeps == ASSUME AdapterInv, PrepareStep PROVE AdapterInv'
<1>0. AdapterTypeOK /\ AddressInv /\ FilterInv /\ SizeInv
  BY DEF AdapterInv
<1>1. AdapterTypeOK'
  BY PrepareTypes
<1>2. /\ step' \in Steps \ FromReset /\ step \notin FromReset \cup {"failed"}
      /\ mac' = mac /\ firmware' = firmware /\ asked' = asked /\ spoiled' = spoiled
  BY PrepareLeaves
<1>3. FilterInv'
  <2>1. asked.flags = {}
    BY <1>0, <1>2 DEF FilterInv, FromReset
  <2> QED BY <1>2, <2>1 DEF FilterInv
<1>4. AddressInv'
  <2>1. ~spoiled => mac[0].addr = firmware /\ (learned => permanent = firmware)
    BY <1>0, <1>2 DEF AddressInv
  <2>2. CASE S!PrepareAddress
    <3>1. step' = "features" /\ regs' = regs /\ regs /\ learned' = TRUE /\ permanent' = mac[0].addr
      BY <1>0, <2>2 DEF S!PrepareAddress, AddressInv
    <3> QED BY <1>2, <2>1, <3>1 DEF AddressInv, FromAddress
  <2>3. ASSUME UNCHANGED <<learned, permanent>>, step' = "address" => regs',
               step' \in FromAddress => step \in FromAddress /\ regs' = regs
        PROVE  AddressInv'
    <3>1. step' \in FromAddress => learned' /\ regs'
      BY <1>0, <2>3 DEF AddressInv
    <3> QED BY <1>2, <2>1, <2>3, <3>1 DEF AddressInv
  <2>4. CASE S!PrepareConfiguration
    BY <2>3, <2>4 DEF S!PrepareConfiguration, S!Advance, S!historyVars, FromAddress
  <2>5. CASE S!PrepareResources
    BY <2>3, <2>5 DEF S!PrepareResources, S!Advance, S!historyVars, S!addressVars, FromAddress
  <2>6. CASE S!PrepareFeatures \/ S!PrepareDma
    BY <2>3, <2>6 DEF S!PrepareFeatures, S!PrepareDma, S!Advance, S!historyVars, S!addressVars, FromAddress
  <2>7. CASE S!PrepareSettings \/ S!PrepareOffer
    BY <2>3, <2>7 DEF S!PrepareSettings, S!PrepareOffer, S!historyVars, S!addressVars, FromAddress
  <2> QED BY <2>2, <2>4, <2>5, <2>6, <2>7 DEF PrepareStep
<1>5. SizeInv'
  <2>1. CASE S!PrepareSettings
    <3>1. step' = "dma" /\ config' = [config EXCEPT !.jumbo =
             IF @ < S!JumboPacketMin THEN S!JumboPacketMin ELSE IF @ > S!JumboPacketMax THEN S!JumboPacketMax ELSE @]
      BY <2>1 DEF S!PrepareSettings
    <3> DEFINE n == config.jumbo
               m == IF n < S!JumboPacketMin THEN S!JumboPacketMin
                    ELSE IF n > S!JumboPacketMax THEN S!JumboPacketMax ELSE n
    <3>2. config'.jumbo = m /\ n \in Nat
      BY <1>0, <3>1 DEF AdapterTypeOK
    <3> HIDE DEF n
    <3>3. m \in FrameSizes
      BY <3>2 DEF FrameSizes, S!JumboPacketMin, S!JumboPacketMax
    <3> HIDE DEF m
    <3> QED BY <3>1, <3>2, <3>3 DEF SizeInv, FromOffer
  <2>2. CASE S!PrepareDma
    BY <1>0, <2>2 DEF S!PrepareDma, S!Advance, SizeInv, FromSettings, FromOffer
  <2>3. CASE S!PrepareOffer
    BY <1>0, <2>3 DEF S!PrepareOffer, S!addressVars, SizeInv, FromSettings, FromOffer
  <2>4. CASE step' \notin FromSettings
    BY <2>4 DEF SizeInv, FromSettings, FromOffer
  <2> QED BY <2>1, <2>2, <2>3, <2>4
          DEF PrepareStep, S!PrepareConfiguration, S!PrepareResources, S!PrepareAddress, S!PrepareFeatures,
              S!Advance, FromSettings
<1> QED BY <1>1, <1>3, <1>4, <1>5 DEF AdapterInv

\* A reset with the address m: it takes, or the address is spoiled.
LEMMA ResetLeaves ==
  ASSUME AdapterTypeOK, NEW m \in S!Addresses, S!DeviceReset(m)
  PROVE  /\ mac' \in [S!Slots -> [addr : RegisterValues, on : BOOLEAN]] /\ mac'[0].addr \in S!Addresses
         /\ spoiled' \in BOOLEAN /\ (spoiled => spoiled')
         /\ ~spoiled' => mac'[0] = [addr |-> m, on |-> TRUE]
         /\ step = "failed" /\ regs /\ ~learned => spoiled'
<1>1. PICK outcome \in Resets :
        /\ mac' = S!AfterReset(IF outcome = "done" THEN m ELSE "ones")
        /\ spoiled' = (spoiled \/ outcome = "timeout" \/ (step = "failed" /\ regs /\ ~learned))
  BY DEF S!DeviceReset
<1>2. "ones" \in S!Addresses
  BY DEF S!Addresses, S!FirmwareAddresses
<1>3. PICK a \in S!Addresses : mac' = S!AfterReset(a) /\ (outcome = "done" => a = m)
  BY <1>1, <1>2
<1>4. mac' \in [S!Slots -> [addr : RegisterValues, on : BOOLEAN]] /\ mac'[0] = [addr |-> a, on |-> TRUE]
  <2>1. S!AfterReset(a) \in [S!Slots -> [addr : RegisterValues, on : BOOLEAN]]
    BY ResetRegisters
  <2>2. S!AfterReset(a)[0] = [addr |-> a, on |-> TRUE]
    BY ResetRegisters
  <2> QED BY <1>3, <2>1, <2>2
<1>5. outcome = "done" \/ outcome = "timeout"
  BY Constants DEF S!AdapterAssumption
<1>6. spoiled' \in BOOLEAN /\ (spoiled => spoiled') /\ (step = "failed" /\ regs /\ ~learned => spoiled')
  BY <1>1 DEF AdapterTypeOK
<1>7. ~spoiled' => mac'[0] = [addr |-> m, on |-> TRUE]
  BY <1>1, <1>3, <1>4, <1>5
<1> QED BY <1>4, <1>6, <1>7

LEMMA ResetKeeps == ASSUME AdapterInv, S!PrepareReset PROVE AdapterInv'
<1>0. AdapterTypeOK /\ AddressInv /\ FilterInv /\ SizeInv /\ current \in S!Addresses
  BY DEF AdapterInv, AdapterTypeOK
<1>1. /\ step = "reset" /\ step' = "start" /\ S!DeviceReset(current)
      /\ UNCHANGED <<regs, config, permanent, current, hasAddress, firmware, told, asked, learned>>
  BY DEF S!PrepareReset, S!addressVars
<1>2. /\ mac' \in [S!Slots -> [addr : RegisterValues, on : BOOLEAN]] /\ mac'[0].addr \in S!Addresses
      /\ spoiled' \in BOOLEAN /\ (spoiled => spoiled')
      /\ ~spoiled' => mac'[0] = [addr |-> current, on |-> TRUE]
  BY <1>0, <1>1, ResetLeaves
<1>3. AdapterTypeOK'
  BY <1>0, <1>1, <1>2 DEF AdapterTypeOK, Steps
<1>4. AddressInv'
  BY <1>0, <1>1, <1>2 DEF AddressInv, FromAddress, FromReset
<1>5. FilterInv'
  BY <1>0, <1>1, <1>2 DEF FilterInv
<1>6. SizeInv'
  BY <1>0, <1>1 DEF SizeInv, FromSettings, FromOffer
<1> QED BY <1>3, <1>4, <1>5, <1>6 DEF AdapterInv

LEMMA ReleaseKeeps == ASSUME AdapterInv, S!DeviceReleaseHardware PROVE AdapterInv'
<1>0. AdapterTypeOK /\ AddressInv /\ permanent \in S!Addresses
  BY DEF AdapterInv, AdapterTypeOK
<1>1. /\ step \in {"prepared", "failed"} /\ step' = "added" /\ ~regs' /\ regs' \in BOOLEAN
      /\ IF regs THEN S!DeviceReset(permanent) ELSE mac' = mac /\ spoiled' = spoiled
      /\ asked' = [flags |-> {}, list |-> <<>>]
      /\ UNCHANGED <<config, permanent, current, hasAddress, firmware, learned>>
  BY DEF S!DeviceReleaseHardware, S!addressVars, S!hwVars
<1>2. asked'.flags = {}
  BY <1>1
<1>3. /\ mac' \in [S!Slots -> [addr : RegisterValues, on : BOOLEAN]] /\ mac'[0].addr \in S!Addresses
      /\ spoiled' \in BOOLEAN /\ (spoiled => spoiled')
      /\ ~spoiled' => mac'[0].addr = firmware
  <2>1. CASE regs
    <3>1. /\ mac' \in [S!Slots -> [addr : RegisterValues, on : BOOLEAN]] /\ mac'[0].addr \in S!Addresses
          /\ spoiled' \in BOOLEAN /\ (spoiled => spoiled')
          /\ ~spoiled' => mac'[0] = [addr |-> permanent, on |-> TRUE]
          /\ step = "failed" /\ regs /\ ~learned => spoiled'
      BY <1>0, <1>1, <2>1, ResetLeaves
    <3>2. ~spoiled' => learned
      BY <1>0, <1>1, <2>1, <3>1 DEF AddressInv, FromAddress
    <3>3. ~spoiled' => permanent = firmware
      BY <1>0, <3>1, <3>2 DEF AddressInv
    <3> QED BY <3>1, <3>3
  <2>2. CASE ~regs
    BY <1>0, <1>1, <2>2 DEF AddressInv, AdapterTypeOK, FromAddress, FromReset
  <2> QED BY <2>1, <2>2
<1>4. AdapterTypeOK'
  BY <1>0, <1>1, <1>3 DEF AdapterTypeOK, Steps
<1>5. AddressInv'
  BY <1>0, <1>1, <1>3 DEF AddressInv, FromAddress
<1>6. FilterInv' /\ SizeInv'
  BY <1>1, <1>2 DEF FilterInv, SizeInv, FromReset, FromSettings, FromOffer
<1> QED BY <1>4, <1>5, <1>6 DEF AdapterInv

LEMMA AdapterStartKeeps == ASSUME AdapterInv, S!PrepareStart \/ S!DeviceD0Entry \/ S!DeviceD0Exit PROVE AdapterInv'
<1>0. AdapterTypeOK /\ AddressInv /\ FilterInv /\ SizeInv
  BY DEF AdapterInv
<1>1. /\ step \in FromReset /\ step' \in FromReset \cup {"failed"}
      /\ step = "start" => step' \in {"prepared", "failed"}
      /\ step # "start" => step' \in {"prepared", "working"}
      /\ UNCHANGED <<regs, config, permanent, current, hasAddress, firmware, mac, filter, told, asked, learned, spoiled>>
  BY DEF S!PrepareStart, S!DeviceD0Entry, S!DeviceD0Exit, S!Advance, S!addressVars, S!hwVars, S!historyVars,
         FromReset
<1>2. AdapterTypeOK'
  BY <1>0, <1>1 DEF AdapterTypeOK, Steps, FromReset
<1>3. AddressInv'
  BY <1>0, <1>1 DEF AddressInv, FromAddress, FromReset
<1>4. FilterInv'
  <2>1. asked'.flags # {} => step' \in {"prepared", "working"}
    BY <1>0, <1>1 DEF FilterInv, FromReset
  <2>2. S!FilterSlots(asked)' = S!FilterSlots(asked)
    BY <1>1 DEF S!FilterSlots
  <2> QED BY <1>0, <1>1, <2>1, <2>2 DEF FilterInv, FromReset
<1>5. SizeInv'
  <2>1. CASE S!DeviceD0Entry
    <3>1. step = "prepared" /\ config' = config /\ told' = told /\ current' = current
      BY <1>1, <2>1 DEF S!DeviceD0Entry
    <3>2. /\ config.jumbo \in FrameSizes
          /\ told.current = current /\ told.mtu = config.jumbo - 14
          /\ told.rxBuffer = S!RxBufferSize(config.jumbo)
      BY <1>0, <3>1 DEF SizeInv, FromSettings, FromOffer
    <3>3. /\ mode'.giant = (config.jumbo > S!JumboPacketMin)
          /\ mode'.jabber = (config.jumbo <= 2000)
          /\ mode'.watchdog = (config.jumbo > 2000)
          /\ mode'.giantLimit = config.jumbo + 4
          /\ mode'.watchdogTimeout = S!WatchdogTimeout(config.jumbo)
      BY <2>1, ZenonT(30) DEF S!DeviceD0Entry
    <3>4. /\ mode'.giant <=> config'.jumbo > S!JumboPacketMin
          /\ mode'.jabber <=> config'.jumbo <= 2000
          /\ mode'.watchdog <=> config'.jumbo > 2000
          /\ mode'.giantLimit = config'.jumbo + 4
          /\ mode'.watchdogTimeout = S!WatchdogTimeout(config'.jumbo)
      <4>1. mode'.giant <=> config.jumbo > S!JumboPacketMin
        <5>1. mode'.giant = (config.jumbo > S!JumboPacketMin)
          BY <3>3
        <5> QED BY <5>1, Zenon
      <4>2. mode'.jabber <=> config.jumbo <= 2000
        <5> DEFINE limit == 2000
        <5>1. mode'.jabber = (config.jumbo <= limit)
          BY <3>3
        <5> HIDE DEF limit
        <5>2. mode'.jabber <=> config.jumbo <= limit
          BY <5>1, Zenon
        <5> QED BY <5>2 DEF limit
      <4>3. mode'.watchdog <=> config.jumbo > 2000
        <5> DEFINE limit == 2000
        <5>1. mode'.watchdog = (config.jumbo > limit)
          BY <3>3
        <5> HIDE DEF limit
        <5>2. mode'.watchdog <=> config.jumbo > limit
          BY <5>1, Zenon
        <5> QED BY <5>2 DEF limit
      <4> QED BY <3>1, <3>3, <4>1, <4>2, <4>3
    <3>5. /\ config'.jumbo \in FrameSizes
          /\ told'.current = current' /\ told'.mtu = config'.jumbo - 14
          /\ told'.rxBuffer = S!RxBufferSize(config'.jumbo)
      BY <3>1, <3>2
    <3> QED BY <3>4, <3>5 DEF SizeInv
  <2>2. CASE step' # "working"
    BY <1>0, <1>1, <2>2 DEF SizeInv, FromSettings, FromOffer, FromReset
  <2> QED BY <2>1, <2>2 DEF S!PrepareStart, S!DeviceD0Exit, S!Advance
<1> QED BY <1>2, <1>3, <1>4, <1>5 DEF AdapterInv

LEMMA FilterKeeps == ASSUME AdapterInv, S!AdapterSetReceiveFilter PROVE AdapterInv'
<1>0. AdapterTypeOK /\ AddressInv /\ FilterInv /\ SizeInv
  BY DEF AdapterInv
<1>1. /\ step \in {"prepared", "working"}
      /\ UNCHANGED <<step, regs, config, permanent, current, hasAddress, firmware, mode, told, learned, spoiled>>
  BY DEF S!AdapterSetReceiveFilter, S!pnpVars, S!addressVars, S!historyVars
<1>2. PICK f \in Filters :
        /\ asked' = f
        /\ IF "Promiscuous" \in f.flags
           THEN filter' = [S!NoFilter EXCEPT !.promiscuous = TRUE] /\ UNCHANGED mac
           ELSE /\ filter' = [S!NoFilter EXCEPT !.allMulticast = "AllMulticast" \in f.flags,
                                                !.noBroadcast = "Broadcast" \notin f.flags]
                /\ mac' = S!FilterSlots(f)
  BY DEF S!AdapterSetReceiveFilter
<1> DEFINE list == IF "Multicast" \in f.flags THEN f.list ELSE <<>>
<1>3. list \in Seq(Groups)
  <2>1. f.list \in Seq(Groups) /\ <<>> \in Seq(Groups)
    BY Constants DEF S!AdapterAssumption
  <2> QED BY <2>1
<1>4. S!FilterSlots(f) = [s \in S!Slots |-> IF s = 0 THEN [addr |-> current, on |-> TRUE]
                                          ELSE IF s <= Len(list) THEN [addr |-> list[s], on |-> TRUE]
                                          ELSE [addr |-> "zero", on |-> FALSE]]
  BY DEF S!FilterSlots
<1> HIDE DEF list
<1>5. /\ S!FilterSlots(f) \in [S!Slots -> [addr : RegisterValues, on : BOOLEAN]]
      /\ S!FilterSlots(f)[0] = [addr |-> current, on |-> TRUE]
  <2>1. \A s \in S!Slots : s # 0 /\ s <= Len(list) => list[s] \in Groups
    BY <1>3, Slot0
  <2>2. current \in RegisterValues /\ "zero" \in RegisterValues /\ Groups \subseteq RegisterValues
    BY <1>0 DEF AdapterTypeOK, RegisterValues, S!Addresses, S!FirmwareAddresses
  <2> QED BY <1>4, <2>1, <2>2, Slot0
<1>6. /\ mac' \in [S!Slots -> [addr : RegisterValues, on : BOOLEAN]] /\ mac'[0].addr \in S!Addresses
      /\ ~spoiled => mac'[0] = [addr |-> current, on |-> TRUE]
  BY <1>0, <1>1, <1>2, <1>5 DEF AdapterTypeOK, FilterInv, FromReset
<1>7. AdapterTypeOK'
  BY <1>0, <1>1, <1>2, <1>6 DEF AdapterTypeOK
<1>8. AddressInv' /\ SizeInv'
  BY <1>0, <1>1 DEF AddressInv, SizeInv, FromAddress, FromSettings, FromOffer, FromReset
<1>9. FilterInv'
  <2>1. S!FilterSlots(asked)' = S!FilterSlots(f)
    BY <1>1, <1>2 DEF S!FilterSlots
  <2> QED BY <1>1, <1>2, <1>6, <2>1 DEF FilterInv
<1> QED BY <1>7, <1>8, <1>9 DEF AdapterInv

LEMMA AdapterKeeps == ASSUME AdapterInv, [S!Next]_(S!vars) PROVE AdapterInv'
<1>1. CASE UNCHANGED S!vars
  BY <1>1 DEF S!vars, S!pnpVars, S!addressVars, S!hwVars, S!historyVars, AdapterInv, AdapterTypeOK, AddressInv,
              FilterInv, SizeInv, S!FilterSlots
<1> QED BY <1>1, PrepareKeeps, ResetKeeps, ReleaseKeeps, AdapterStartKeeps, FilterKeeps DEF S!Next, PrepareStep

-----------------------------------------------------------------------------
(* The adapter: what follows.                                              *)

LEMMA AddressHolds == ASSUME AdapterInv PROVE S!AddressKept
  BY DEF AdapterInv, AddressInv, S!AddressKept, FromReset

LEMMA LargestFrameHolds == ASSUME AdapterInv PROVE S!LargestFramePasses
<1> SUFFICES ASSUME step = "working" PROVE S!LargestFramePasses
  BY DEF S!LargestFramePasses
<1> DEFINE jumbo == config.jumbo
<1>0. jumbo \in FrameSizes
  BY DEF AdapterInv, SizeInv, FromSettings
<1>2. /\ mode.giant <=> jumbo > 1514
      /\ mode.jabber <=> jumbo <= 2000
      /\ mode.watchdog <=> jumbo > 2000
      /\ mode.giantLimit = jumbo + 4
      /\ mode.watchdogTimeout = (jumbo + 8 + 1023) \div 1024 - 2
      /\ told.mtu = jumbo - 14 /\ told.rxBuffer = ((jumbo + 8 + 7) \div 8) * 8
  BY DEF AdapterInv, SizeInv, FromOffer, S!JumboPacketMin, S!WatchdogTimeout, S!RxBufferSize
<1> HIDE DEF jumbo
<1>1. jumbo \in 1514 .. 9014
  BY <1>0 DEF FrameSizes, S!JumboPacketMin, S!JumboPacketMax
<1>3. jumbo + 4 + 4 <= ((jumbo + 8 + 7) \div 8) * 8 /\ (((jumbo + 8 + 7) \div 8) * 8) % 8 = 0
  BY <1>1
<1>4. jumbo > 2000 => /\ jumbo + 8 <= 2048 + 1024 * ((jumbo + 8 + 1023) \div 1024 - 2)
                      /\ (jumbo + 8 + 1023) \div 1024 - 2 \in 0 .. 14
  BY <1>1
<1>5. jumbo = told.mtu + 14
  BY <1>1, <1>2
<1>6. /\ jumbo + 4 <= (IF mode.giant THEN mode.giantLimit ELSE 1518)
      /\ jumbo + 8 <= (IF mode.watchdog THEN 2048 + 1024 * mode.watchdogTimeout ELSE 2048)
  <2>1. jumbo + 4 <= (IF mode.giant THEN mode.giantLimit ELSE 1518)
    BY <1>1, <1>2
  <2>2. jumbo + 8 <= (IF mode.watchdog THEN 2048 + 1024 * mode.watchdogTimeout ELSE 2048)
    BY <1>1, <1>2, <1>4
  <2> QED BY <2>1, <2>2
<1>7. /\ mode.jabber => jumbo + 8 <= 2048
      /\ mode.watchdog => mode.watchdogTimeout \in 0 .. 14
  BY <1>1, <1>2, <1>4
<1>8. /\ mode.giantLimit + 4 <= told.rxBuffer /\ told.rxBuffer % 8 = 0
      /\ mode.giantLimit < 16384
  BY <1>1, <1>2, <1>3
<1> QED BY <1>5, <1>6, <1>7, <1>8 DEF S!LargestFramePasses

\* What the registers let in, once a filter was asked for.
LEMMA ReceivesHolds == ASSUME AdapterInv PROVE S!ReceivesAsAsked
<1> SUFFICES ASSUME step = "working", ~spoiled
             PROVE  /\ \A f \in S!Frames : S!Wanted(f) => S!Received(f)
                    /\ asked.flags # {} => \A f \in S!Frames : S!Received(f) => S!Wanted(f) \/ f = "adapter"
  BY DEF S!ReceivesAsAsked
<1>0. AdapterTypeOK /\ FilterInv /\ SizeInv
  BY DEF AdapterInv
<1>1. told.current = current /\ mac[0] = [addr |-> current, on |-> TRUE] /\ current \in S!Addresses
  BY <1>0 DEF AdapterTypeOK, FilterInv, SizeInv, FromOffer, FromReset
<1>2. CASE asked.flags = {}
  BY <1>2 DEF S!Wanted
<1>3. CASE "Promiscuous" \in asked.flags
  <2>1. filter.promiscuous
    BY <1>0, <1>3 DEF FilterInv, S!NoFilter
  <2> QED BY <1>3, <2>1 DEF S!Wanted, S!Received
<1>4. CASE asked.flags # {} /\ "Promiscuous" \notin asked.flags
  <2> DEFINE list == IF "Multicast" \in asked.flags THEN asked.list ELSE <<>>
  <2>1. /\ ~filter.promiscuous
        /\ filter.allMulticast <=> "AllMulticast" \in asked.flags
        /\ filter.noBroadcast <=> "Broadcast" \notin asked.flags
    BY <1>0, <1>4 DEF FilterInv, S!NoFilter
  <2>2. \A s \in S!Slots : mac[s] = IF s = 0 THEN [addr |-> current, on |-> TRUE]
                                    ELSE IF s <= Len(list) THEN [addr |-> list[s], on |-> TRUE]
                                    ELSE [addr |-> "zero", on |-> FALSE]
    BY <1>0, <1>4 DEF FilterInv, S!FilterSlots
  <2>3. asked \in Filters
    BY <1>0, <1>4 DEF AdapterTypeOK
  <2>4. list \in Seq(Groups) /\ Len(list) \in Nat /\ Len(list) < MacAddrCount
    <3>1. /\ asked.list \in Seq(Groups) /\ <<>> \in Seq(Groups)
          /\ "Multicast" \in asked.flags => Len(asked.list) < MacAddrCount
          /\ MacAddrCount \in Nat \ {0}
      BY <2>3, Constants DEF S!AdapterAssumption
    <3>2. CASE "Multicast" \in asked.flags
      BY <3>1, <3>2
    <3>3. CASE "Multicast" \notin asked.flags
      BY <3>1, <3>3
    <3> QED BY <3>2, <3>3
  <2>5. \A i \in 1 .. Len(list) : "Multicast" \in asked.flags /\ asked.list[i] = list[i]
    OBVIOUS
  <2>6. "Multicast" \in asked.flags => list = asked.list
    OBVIOUS
  <2> HIDE DEF list
  <2>7. \A s \in 1 .. Len(list) : s \in S!Slots /\ mac[s] = [addr |-> list[s], on |-> TRUE]
    BY <2>2, <2>4, Constants DEF S!Slots, S!AdapterAssumption
  <2>8. \A f \in {"broadcast", "adapter", "other"} \cup S!Addresses : f \notin Groups
    BY Constants DEF S!AdapterAssumption
  <2>9. ASSUME NEW f \in Groups
        PROVE  (\E s \in S!Slots : mac[s] = [addr |-> f, on |-> TRUE])
                 <=> "Multicast" \in asked.flags /\ \E i \in 1 .. Len(asked.list) : asked.list[i] = f
    <3>1. ASSUME NEW s \in S!Slots, mac[s] = [addr |-> f, on |-> TRUE]
          PROVE  s \in 1 .. Len(list) /\ list[s] = f
      <4>0. mac[s].addr = f /\ mac[s].on
        BY <3>1
      <4>1. s # 0
        <5>1. mac[0].addr = current
          BY <1>1
        <5> QED BY <1>1, <2>8, <4>0, <5>1
      <4>2. s <= Len(list)
        <5>1. ~(s <= Len(list)) => mac[s] = [addr |-> "zero", on |-> FALSE]
          BY <2>2, <4>1
        <5> QED BY <4>0, <5>1
      <4>3. list[s] = f
        <5>1. mac[s] = [addr |-> list[s], on |-> TRUE]
          BY <2>2, <4>1, <4>2
        <5> QED BY <4>0, <5>1
      <4> QED BY <2>4, <4>1, <4>2, <4>3, Slot0
    <3>2. ASSUME "Multicast" \in asked.flags, NEW i \in 1 .. Len(asked.list), asked.list[i] = f
          PROVE  i \in S!Slots /\ mac[i] = [addr |-> f, on |-> TRUE]
      BY <2>6, <2>7, <3>2
    <3> QED BY <2>5, <2>6, <3>1, <3>2
  <2>10. ASSUME NEW f \in S!Frames, S!Wanted(f) PROVE S!Received(f)
    <3>1. CASE f \in Groups
      BY <1>4, <2>1, <2>8, <2>9, <2>10, <3>1 DEF S!Wanted, S!Received
    <3>2. CASE f = "adapter"
      BY <1>1, <3>2, Slot0 DEF S!Received
    <3>3. CASE f \in {"broadcast", "other"}
      BY <1>4, <2>1, <2>8, <2>10, <3>3 DEF S!Wanted, S!Received
    <3> QED BY <3>1, <3>2, <3>3 DEF S!Frames
  <2>11. ASSUME NEW f \in S!Frames, S!Received(f), f # "adapter" PROVE S!Wanted(f)
    <3>1. CASE f \in Groups
      BY <2>1, <2>8, <2>9, <2>11, <3>1 DEF S!Wanted, S!Received
    <3>2. CASE f \in {"broadcast", "other"}
      BY <2>1, <2>8, <2>11, <3>2 DEF S!Wanted, S!Received
    <3> QED BY <2>11, <3>1, <3>2 DEF S!Frames
  <2> QED BY <2>10, <2>11
<1> QED BY <1>2, <1>3, <1>4

-----------------------------------------------------------------------------
(* The counters: the inductive step.                                       *)

\* Taking the one occurrence of d from the list leaves the others, each once.
LEMMA Removed ==
  ASSUME NEW seq \in Seq(Devices), \A i, j \in 1 .. Len(seq) : seq[i] = seq[j] => i = j,
         NEW d \in Devices, NEW rest, rest = S!C!RemoveFirst(seq, d)
  PROVE  /\ rest \in Seq(Devices)
         /\ \A i, j \in 1 .. Len(rest) : rest[i] = rest[j] => i = j
         /\ \A i \in 1 .. Len(rest) : rest[i] # d /\ \E j \in 1 .. Len(seq) : rest[i] = seq[j]
<1>1. CASE ~\E i \in 1 .. Len(seq) : seq[i] = d
  BY <1>1 DEF S!C!RemoveFirst
<1>2. CASE \E i \in 1 .. Len(seq) : seq[i] = d
  <2>1. PICK k \in 1 .. Len(seq) : seq[k] = d
    BY <1>2
  <2>2. {i \in 1 .. Len(seq) : seq[i] = d} = {k}
    BY <2>1
  <2>3. S!C!Min({k}) = k
    BY DEF S!C!Min
  <2>4. S!C!SelectInSeq(seq, LAMBDA v : v = d) = k
    BY <2>2, <2>3 DEF S!C!SelectInSeq
  <2>5. S!C!RemoveFirst(seq, d) = SubSeq(seq, 1, k - 1) \o SubSeq(seq, k + 1, Len(seq))
    BY <1>2, <2>4 DEF S!C!RemoveFirst, S!C!RemoveAt
  <2>6. /\ rest \in Seq(Devices) /\ Len(rest) = Len(seq) - 1
        /\ \A i \in 1 .. Len(rest) : rest[i] = seq[IF i < k THEN i ELSE i + 1]
    <3>1. /\ SubSeq(seq, 1, k - 1) \in Seq(Devices) /\ Len(SubSeq(seq, 1, k - 1)) = k - 1
          /\ \A i \in 1 .. k - 1 : SubSeq(seq, 1, k - 1)[i] = seq[i]
      BY <2>1, SubSeqProperties
    <3>2. /\ SubSeq(seq, k + 1, Len(seq)) \in Seq(Devices) /\ Len(SubSeq(seq, k + 1, Len(seq))) = Len(seq) - k
          /\ \A i \in 1 .. Len(seq) - k : SubSeq(seq, k + 1, Len(seq))[i] = seq[i + k]
      BY <2>1, SubSeqProperties
    <3> DEFINE left  == SubSeq(seq, 1, k - 1)
               right == SubSeq(seq, k + 1, Len(seq))
    <3> HIDE DEF left, right
    <3>3. /\ left \in Seq(Devices) /\ Len(left) = k - 1 /\ \A i \in 1 .. k - 1 : left[i] = seq[i]
          /\ right \in Seq(Devices) /\ Len(right) = Len(seq) - k
          /\ \A i \in 1 .. Len(seq) - k : right[i] = seq[i + k]
      BY <3>1, <3>2 DEF left, right
    <3>4. Len(seq) \in Nat /\ k \in 1 .. Len(seq)
      BY <2>1
    <3>5. left \o right \in Seq(Devices) /\ Len(left \o right) = Len(seq) - 1
      BY <3>3, <3>4, ConcatProperties
    <3>6. ASSUME NEW i \in 1 .. Len(seq) - 1
          PROVE  (left \o right)[i] = seq[IF i < k THEN i ELSE i + 1]
      <4>1. CASE i < k
        BY <3>3, <3>4, <4>1, ConcatProperties
      <4>2. CASE ~(i < k)
        <5>1. (left \o right)[i] = right[i - (k - 1)]
          BY <3>3, <3>4, <4>2, ConcatProperties
        <5>2. i - (k - 1) \in 1 .. Len(seq) - k /\ i - (k - 1) + k = i + 1
          BY <3>4, <4>2
        <5> QED BY <3>3, <4>2, <5>1, <5>2
      <4> QED BY <4>1, <4>2
    <3>7. rest = left \o right
      BY <2>5 DEF left, right
    <3> QED BY <3>5, <3>6, <3>7
  <2>7. \A i \in 1 .. Len(rest) : /\ (IF i < k THEN i ELSE i + 1) \in 1 .. Len(seq)
                                  /\ (IF i < k THEN i ELSE i + 1) # k
    BY <2>1, <2>6
  <2>8. \A i, j \in 1 .. Len(rest) : rest[i] = rest[j] => i = j
    BY <2>1, <2>6, <2>7
  <2>9. \A i \in 1 .. Len(rest) : rest[i] # d /\ \E j \in 1 .. Len(seq) : rest[i] = seq[j]
    BY <2>1, <2>6, <2>7
  <2> QED BY <2>6, <2>8, <2>9
<1> QED BY <1>1, <1>2

\* Devices enter the list and leave it when no callback is in it.
LEMMA ListChanges ==
  ASSUME CountersInv, NEW d \in Devices, S!C!DeviceAddToList(d) \/ S!C!DeviceCleanup(d)
  PROVE  CountersInv'
<1>0. CountersTypeOK /\ ListInv /\ CallbackInv /\ UnloadInv
  BY DEF CountersInv
<1>1. /\ made.list => lock = "free"
      /\ UNCHANGED <<driver, registered, made, lock, callback, index, count, visited>>
  BY DEF S!C!DeviceAddToList, S!C!DeviceCleanup, S!C!callbackVars
<1>2. \A s \in Sets : callback[s] # "loop" /\ visited[s] = "none"
  <2>1. ASSUME NEW s \in Sets, callback[s] = "loop" PROVE FALSE
    <3>1. lock = s /\ made.list
      BY <1>0, <2>1 DEF CallbackInv, UnloadInv
    <3> QED BY <1>1, <3>1, Constants DEF S!C!CountersAssumption
  <2> QED BY <1>0, <2>1 DEF CallbackInv
<1>3. CallbackInv' /\ UnloadInv'
  <2>1. CallbackInv'
    BY <1>0, <1>1, <1>2 DEF CallbackInv
  <2> QED BY <1>0, <1>1, <2>1 DEF UnloadInv
<1>4. ASSUME g_devices' \in Seq(Devices), device' \in [Devices -> {"none", "created", "listed", "ready", "cleanup"}]
      PROVE  CountersTypeOK'
  BY <1>0, <1>1, <1>4 DEF CountersTypeOK
<1>5. CASE g_devices' = g_devices
  <2>1. d \notin Listed' \/ device'[d] \in {"listed", "ready", "cleanup"}
    <3>1. CASE S!C!DeviceAddToList(d)
      BY <1>0, <3>1 DEF S!C!DeviceAddToList, CountersTypeOK
    <3>2. CASE S!C!DeviceCleanup(d) /\ made.list
      <4>1. /\ g_devices \in Seq(Devices) /\ g_devices' = S!C!RemoveFirst(g_devices, d)
            /\ \A i, j \in 1 .. Len(g_devices) : g_devices[i] = g_devices[j] => i = j
        BY <1>0, <3>2 DEF S!C!DeviceCleanup, CountersTypeOK, ListInv
      <4>2. \A i \in 1 .. Len(g_devices') : g_devices'[i] # d
        BY <4>1, Removed
      <4> QED BY <1>5, <4>2 DEF Listed
    <3>3. CASE ~made.list
      BY <1>0, <1>5, <3>3 DEF ListInv, Listed
    <3> QED BY <3>1, <3>2, <3>3
  <2>2. \A e \in Devices \ {d} : device'[e] = device[e]
    BY <1>0 DEF S!C!DeviceAddToList, S!C!DeviceCleanup, CountersTypeOK
  <2>3. device' \in [Devices -> {"none", "created", "listed", "ready", "cleanup"}]
    BY <1>0 DEF S!C!DeviceAddToList, S!C!DeviceCleanup, CountersTypeOK
  <2>4. Listed' = Listed /\ Listed \subseteq Devices
    BY <1>0, <1>5 DEF Listed, CountersTypeOK
  <2>5. ListInv'
    BY <1>0, <1>1, <1>5, <2>1, <2>2, <2>4 DEF ListInv
  <2> QED BY <1>0, <1>3, <1>4, <1>5, <2>3, <2>5 DEF CountersInv, CountersTypeOK
<1>6. CASE S!C!DeviceAddToList(d) /\ made.list /\ g_devices' = Append(g_devices, d)
  <2>1. device[d] = "created" /\ device' = [device EXCEPT ![d] = "listed"]
    BY <1>6 DEF S!C!DeviceAddToList
  <2>2. \A i \in 1 .. Len(g_devices) : g_devices[i] # d /\ g_devices[i] \in Devices
    <3>1. \A i \in 1 .. Len(g_devices) : g_devices[i] \in Devices
      BY <1>0 DEF CountersTypeOK
    <3>2. \A i \in 1 .. Len(g_devices) : device[g_devices[i]] # "created"
      BY <1>0 DEF ListInv, Listed
    <3> QED BY <2>1, <3>1, <3>2
  <2>3. /\ g_devices' \in Seq(Devices) /\ Len(g_devices') = Len(g_devices) + 1
        /\ \A i \in 1 .. Len(g_devices) : g_devices'[i] = g_devices[i]
        /\ g_devices'[Len(g_devices) + 1] = d /\ Len(g_devices) \in Nat
    BY <1>0, <1>6 DEF CountersTypeOK
  <2>4. \A i, j \in 1 .. Len(g_devices') : g_devices'[i] = g_devices'[j] => i = j
    BY <1>0, <2>2, <2>3 DEF ListInv
  <2>5. \A i \in 1 .. Len(g_devices') : device'[g_devices'[i]] \in {"listed", "ready", "cleanup"}
    <3>1. device'[d] = "listed" /\ \A e \in Devices \ {d} : device'[e] = device[e]
      BY <1>0, <2>1 DEF CountersTypeOK
    <3>2. \A i \in 1 .. Len(g_devices) : device[g_devices[i]] \in {"listed", "ready", "cleanup"}
      BY <1>0 DEF ListInv, Listed
    <3> QED BY <2>2, <2>3, <3>1, <3>2
  <2>6. ListInv'
    BY <1>0, <1>1, <1>6, <2>4, <2>5 DEF ListInv, Listed
  <2>7. CountersTypeOK'
    BY <1>0, <1>4, <2>1, <2>3 DEF CountersTypeOK
  <2> QED BY <1>3, <2>6, <2>7 DEF CountersInv
<1>7. CASE S!C!DeviceCleanup(d) /\ made.list
  <2>1. g_devices' = S!C!RemoveFirst(g_devices, d) /\ device' = [device EXCEPT ![d] = "none"]
    BY <1>7 DEF S!C!DeviceCleanup
  <2>2. /\ g_devices' \in Seq(Devices)
        /\ \A i, j \in 1 .. Len(g_devices') : g_devices'[i] = g_devices'[j] => i = j
        /\ \A i \in 1 .. Len(g_devices') :
              g_devices'[i] # d /\ \E j \in 1 .. Len(g_devices) : g_devices'[i] = g_devices[j]
    <3>1. /\ g_devices \in Seq(Devices)
          /\ \A i, j \in 1 .. Len(g_devices) : g_devices[i] = g_devices[j] => i = j
      BY <1>0 DEF CountersTypeOK, ListInv
    <3> QED BY <2>1, <3>1, Removed
  <2>3. \A e \in Listed' : e \in Listed /\ e # d /\ e \in Devices
    <3>1. \A j \in 1 .. Len(g_devices) : g_devices[j] \in Listed /\ g_devices[j] \in Devices
      BY <1>0 DEF Listed, CountersTypeOK
    <3>2. Listed' = {g_devices'[i] : i \in 1 .. Len(g_devices')}
      BY DEF Listed
    <3> QED BY <2>2, <3>1, <3>2
  <2>4. \A e \in Listed' : device'[e] \in {"listed", "ready", "cleanup"}
    BY <1>0, <2>1, <2>3 DEF ListInv, CountersTypeOK
  <2>5. ListInv'
    BY <1>0, <1>1, <1>7, <2>2, <2>4 DEF ListInv
  <2>6. CountersTypeOK'
    BY <1>0, <1>4, <2>1, <2>2 DEF CountersTypeOK
  <2> QED BY <1>3, <2>5, <2>6 DEF CountersInv
<1> QED BY <1>5, <1>6, <1>7 DEF S!C!DeviceAddToList, S!C!DeviceCleanup

\* A device outside of the list's lock only gets on with its life.
LEMMA DeviceLives ==
  ASSUME CountersInv, NEW d \in Devices, S!C!DeviceAdd(d) \/ S!C!DeviceAddRest(d) \/ S!C!DeviceDelete(d)
  PROVE  CountersInv'
<1>0. CountersTypeOK /\ ListInv /\ CallbackInv /\ UnloadInv
  BY DEF CountersInv
<1>1. /\ UNCHANGED <<driver, registered, made, lock, g_devices, callback, index, count, visited>>
      /\ device' \in [Devices -> {"none", "created", "listed", "ready", "cleanup"}]
      /\ \A e \in Devices : device[e] \in {"listed", "ready", "cleanup"} =>
                              device'[e] \in {"listed", "ready", "cleanup"}
  BY <1>0 DEF S!C!DeviceAdd, S!C!DeviceAddRest, S!C!DeviceDelete, S!C!callbackVars, CountersTypeOK
<1>2. Listed' = Listed /\ Listed \subseteq Devices
  BY <1>0, <1>1 DEF Listed, CountersTypeOK
<1>3. ListInv'
  BY <1>0, <1>1, <1>2 DEF ListInv
<1>4. CallbackInv' /\ UnloadInv' /\ CountersTypeOK'
  BY <1>0, <1>1, <1>2 DEF CallbackInv, UnloadInv, CountersTypeOK
<1> QED BY <1>3, <1>4 DEF CountersInv

LEMMA CallbackRuns ==
  ASSUME CountersInv, NEW s \in Sets,
         \/ S!C!PerfCallbackStart(s) \/ S!C!PerfCallbackLock(s) \/ S!C!PerfDataInit(s)
         \/ S!C!PerfCallbackEnd(s) \/ S!C!UnregisterSet(s)
  PROVE  CountersInv'
<1>0. CountersTypeOK /\ ListInv /\ CallbackInv /\ UnloadInv /\ s # "free"
  BY Constants DEF CountersInv, S!C!CountersAssumption
<1>1. UNCHANGED <<driver, made, g_devices, device>> /\ registered' \subseteq registered
  BY DEF S!C!PerfCallbackStart, S!C!PerfCallbackLock, S!C!PerfDataInit, S!C!PerfCallbackEnd,
         S!C!UnregisterSet, S!C!deviceVars
<1>2. ListInv' /\ UnloadInv' /\ Listed' = Listed
  BY <1>0, <1>1 DEF ListInv, UnloadInv, Listed
<1>3. CASE S!C!PerfCallbackStart(s)
  <2>1. /\ callback' = [callback EXCEPT ![s] = "wait"] /\ callback[s] = "idle" /\ s \in registered
        /\ UNCHANGED <<registered, lock, index, count, visited>>
    BY <1>3 DEF S!C!PerfCallbackStart
  <2>2. CountersTypeOK'
    BY <1>0, <1>1, <2>1 DEF CountersTypeOK
  <2>3. CallbackInv'
    BY <1>0, <1>1, <1>2, <2>1 DEF CallbackInv, CountersTypeOK
  <2> QED BY <1>2, <2>2, <2>3 DEF CountersInv
<1>4. CASE S!C!PerfCallbackLock(s)
  <2>1. /\ callback' = [callback EXCEPT ![s] = "loop"] /\ callback[s] = "wait" /\ lock = "free" /\ lock' = s
        /\ index' = [index EXCEPT ![s] = 0] /\ count' = [count EXCEPT ![s] = Len(g_devices)]
        /\ UNCHANGED <<registered, visited>>
    BY <1>4 DEF S!C!PerfCallbackLock
  <2>2. Len(g_devices) \in Nat
    BY <1>0 DEF CountersTypeOK
  <2>3. CountersTypeOK'
    BY <1>0, <1>1, <2>1, <2>2 DEF CountersTypeOK
  <2>4. ASSUME NEW t \in Sets
        PROVE  /\ callback'[t] = "loop" <=> lock' = t
               /\ callback'[t] = "loop" => count'[t] = Len(g_devices) /\ index'[t] <= count'[t]
               /\ visited[t] # "none" => callback'[t] = "loop" /\ visited[t] \in Listed
               /\ callback'[t] # "idle" => t \in registered
    <3>1. CASE t = s
      BY <1>0, <2>1, <2>2, <3>1 DEF CallbackInv, CountersTypeOK
    <3>2. CASE t # s
      BY <1>0, <2>1, <3>2, Constants DEF CallbackInv, CountersTypeOK, S!C!CountersAssumption
    <3> QED BY <3>1, <3>2
  <2>5. CallbackInv'
    BY <1>1, <1>2, <2>1, <2>4 DEF CallbackInv
  <2> QED BY <1>2, <2>3, <2>5 DEF CountersInv
<1>5. CASE S!C!PerfDataInit(s)
  <2> DEFINE next == index[s] + 1
  <2>1. /\ callback[s] = "loop" /\ index[s] # count[s] /\ index' = [index EXCEPT ![s] = next]
        /\ visited' = [visited EXCEPT ![s] = IF index'[s] <= Len(g_devices) THEN g_devices[index'[s]] ELSE "null"]
        /\ UNCHANGED <<registered, lock, callback, count>>
    BY <1>5 DEF S!C!PerfDataInit
  <2>2. /\ next \in 1 .. Len(g_devices) /\ next \in Nat /\ count[s] = Len(g_devices)
        /\ g_devices[next] \in Devices /\ g_devices[next] \in Listed
    <3>1. index[s] \in Nat /\ count[s] = Len(g_devices) /\ index[s] <= count[s] /\ Len(g_devices) \in Nat
      BY <1>0, <2>1 DEF CallbackInv, CountersTypeOK
    <3>2. next \in 1 .. Len(g_devices)
      BY <2>1, <3>1
    <3> QED BY <1>0, <3>1, <3>2 DEF Listed, CountersTypeOK
  <2>3. index'[s] = next
    BY <1>0, <2>1 DEF CountersTypeOK
  <2>4. visited' = [visited EXCEPT ![s] = g_devices[next]]
    <3>1. (IF index'[s] <= Len(g_devices) THEN g_devices[index'[s]] ELSE "null") = g_devices[next]
      BY <2>2, <2>3
    <3> QED BY <2>1, <3>1
  <2> HIDE DEF next
  <2>5. CountersTypeOK'
    BY <1>0, <1>1, <2>1, <2>2, <2>4 DEF CountersTypeOK
  <2>6. ASSUME NEW t \in Sets
        PROVE  /\ callback'[t] = "loop" <=> lock' = t
               /\ callback'[t] = "loop" => count'[t] = Len(g_devices) /\ index'[t] <= count'[t]
               /\ visited'[t] # "none" => callback'[t] = "loop" /\ visited'[t] \in Listed
               /\ callback'[t] # "idle" => t \in registered
    <3>1. CASE t = s
      <4>1. visited'[t] = g_devices[next] /\ index'[t] = next
        BY <1>0, <2>3, <2>4, <3>1 DEF CountersTypeOK
      <4> QED BY <1>0, <2>1, <2>2, <3>1, <4>1 DEF CallbackInv
    <3>2. CASE t # s
      BY <1>0, <2>1, <2>4, <3>2 DEF CallbackInv, CountersTypeOK
    <3> QED BY <3>1, <3>2
  <2>7. CallbackInv'
    BY <1>1, <1>2, <2>1, <2>6 DEF CallbackInv
  <2> QED BY <1>2, <2>5, <2>7 DEF CountersInv
<1>6. CASE S!C!PerfCallbackEnd(s)
  <2>1. /\ callback[s] = "loop" /\ lock' = "free" /\ callback' = [callback EXCEPT ![s] = "idle"]
        /\ visited' = [visited EXCEPT ![s] = "none"] /\ UNCHANGED <<registered, index, count>>
    BY <1>6 DEF S!C!PerfCallbackEnd
  <2>2. CountersTypeOK'
    BY <1>0, <1>1, <2>1 DEF CountersTypeOK
  <2>3. lock = s
    BY <1>0, <2>1 DEF CallbackInv
  <2>4. CallbackInv'
    BY <1>0, <1>1, <1>2, <2>1, <2>3, Constants DEF CallbackInv, CountersTypeOK, S!C!CountersAssumption
  <2> QED BY <1>2, <2>2, <2>4 DEF CountersInv
<1>7. CASE S!C!UnregisterSet(s)
  <2>1. callback[s] = "idle" /\ registered' = registered \ {s} /\ UNCHANGED <<lock, callback, index, count, visited>>
    BY <1>7 DEF S!C!UnregisterSet, S!C!callbackVars
  <2>2. CountersTypeOK' /\ CallbackInv'
    BY <1>0, <1>1, <1>2, <2>1 DEF CountersTypeOK, CallbackInv
  <2> QED BY <1>2, <2>2 DEF CountersInv
<1> QED BY <1>3, <1>4, <1>5, <1>6, <1>7

LEMMA DriverComesAndGoes ==
  ASSUME CountersInv, S!C!DevicePerfRegister \/ S!C!DriverUnload \/ S!C!DevicePerfUnregister
  PROVE  CountersInv'
<1>0. CountersTypeOK /\ ListInv /\ CallbackInv /\ UnloadInv
  BY DEF CountersInv
<1>1. UNCHANGED <<lock, device, callback, index, count, visited>>
  BY DEF S!C!DevicePerfRegister, S!C!DriverUnload, S!C!DevicePerfUnregister, S!C!deviceVars, S!C!callbackVars
<1>2. CASE S!C!DriverUnload
  <2>1. driver' = "unloading" /\ UNCHANGED <<registered, made, g_devices>>
    BY <1>2 DEF S!C!DriverUnload, S!C!deviceVars
  <2>2. CountersTypeOK' /\ ListInv' /\ CallbackInv' /\ UnloadInv'
    BY <1>0, <1>1, <2>1 DEF CountersTypeOK, ListInv, CallbackInv, UnloadInv, Listed
  <2> QED BY <2>2 DEF CountersInv
<1>3. CASE S!C!DevicePerfRegister \/ S!C!DevicePerfUnregister
  <2>1. /\ driver' \in {"loaded", "unloaded"} /\ registered' \in SUBSET Sets
        /\ made' \in [lock : BOOLEAN, list : BOOLEAN] /\ (made'.list => made'.lock)
        /\ (registered' # {} => made'.list) /\ (driver' = "unloaded" => registered' = {} /\ ~made'.list)
    <3>1. CASE S!C!DevicePerfRegister
      <4>1. /\ driver' = "loaded"
            /\ \/ made' = [lock |-> FALSE, list |-> FALSE] /\ registered' = {}
               \/ made' = [lock |-> TRUE, list |-> FALSE] /\ registered' = {}
               \/ made' = [lock |-> TRUE, list |-> TRUE] /\ registered' \subseteq Sets
        BY <3>1 DEF S!C!DevicePerfRegister
      <4>2. made' \in [lock : BOOLEAN, list : BOOLEAN] /\ (made'.list => made'.lock)
        <5>1. \A a, b \in BOOLEAN : /\ [lock |-> a, list |-> b] \in [lock : BOOLEAN, list : BOOLEAN]
                                    /\ [lock |-> a, list |-> b].lock = a /\ [lock |-> a, list |-> b].list = b
          OBVIOUS
        <5> QED BY <4>1, <5>1
      <4>3. registered' \subseteq Sets /\ (registered' # {} => made'.list)
        BY <4>1
      <4> QED BY <4>1, <4>2, <4>3
    <3>2. CASE S!C!DevicePerfUnregister
      <4>1. registered' = {} /\ driver' = "unloaded" /\ made' = [lock |-> FALSE, list |-> FALSE]
        BY <3>2 DEF S!C!DevicePerfUnregister
      <4> QED BY <4>1
    <3> QED BY <1>3, <3>1, <3>2
  <2>2. registered = {} /\ g_devices' = <<>>
    BY <1>0, <1>3 DEF S!C!DevicePerfRegister, S!C!DevicePerfUnregister, S!C!deviceVars, UnloadInv, ListInv
  <2>3. \A s \in Sets : callback[s] = "idle" /\ visited[s] = "none" /\ lock # s
    BY <1>0, <2>2 DEF CallbackInv
  <2>4. CountersTypeOK'
    BY <1>0, <1>1, <2>1, <2>2 DEF CountersTypeOK
  <2>5. ListInv' /\ CallbackInv' /\ UnloadInv'
    BY <1>1, <2>1, <2>2, <2>3 DEF ListInv, CallbackInv, UnloadInv, Listed
  <2> QED BY <2>4, <2>5 DEF CountersInv
<1> QED BY <1>2, <1>3

LEMMA CountersKeep == ASSUME CountersInv, [S!C!Next]_(S!countersVars) PROVE CountersInv'
<1>1. CASE UNCHANGED S!countersVars
  BY <1>1 DEF S!countersVars, CountersInv, CountersTypeOK, ListInv, CallbackInv, UnloadInv, Listed
<1> QED BY <1>1, ListChanges, DeviceLives, CallbackRuns, DriverComesAndGoes DEF S!C!Next

LEMMA CountersInitHold == ASSUME S!C!Init PROVE CountersInv
  BY Constants DEF S!C!Init, S!C!CountersAssumption, CountersInv, CountersTypeOK, ListInv, CallbackInv,
                   UnloadInv, Listed

LEMMA CallbackFinds == ASSUME CountersInv PROVE S!C!CallbackFindsDevices
<1> SUFFICES ASSUME NEW s \in Sets
             PROVE  /\ visited[s] # "none" => visited[s] \in Devices /\ device[visited[s]] # "none"
                    /\ callback[s] # "idle" => made.lock /\ made.list
  BY DEF S!C!CallbackFindsDevices
<1>1. CountersTypeOK /\ ListInv /\ CallbackInv /\ UnloadInv
  BY DEF CountersInv
<1>2. Listed \subseteq Devices
  BY <1>1 DEF Listed, CountersTypeOK
<1> QED BY <1>1, <1>2 DEF ListInv, CallbackInv, UnloadInv

-----------------------------------------------------------------------------
(* How an ACPI method lies in memory.                                      *)

\* The arguments of the i-th entry.
Cells(p, i) == S!A!EntryCells(p.entries[i])
\* All arguments of the entries.
AllCells(p) == UNION {Range(Cells(p, i)) : i \in DOMAIN p.entries}

\* An entry is a package with its items, or a single item that is none.
LEMMA CellsAre ==
  ASSUME NEW p \in Methods, NEW i \in DOMAIN p.entries
  PROVE  /\ Cells(p, i) \in Seq(AllCells(p)) /\ Len(Cells(p, i)) \in Nat /\ Len(Cells(p, i)) >= 1
         /\ Len(p.entries[i].items) \in Nat
         /\ p.entries[i].alone => Cells(p, i) = p.entries[i].items /\ Cells(p, i)[1].type # "Package"
         /\ ~p.entries[i].alone =>
              /\ Cells(p, i)[1].type = "Package" /\ Cells(p, i)[1].len = Len(p.entries[i].items)
              /\ Len(Cells(p, i)) = Len(p.entries[i].items) + 1
              /\ \A j \in 1 .. Len(p.entries[i].items) : Cells(p, i)[j + 1] = p.entries[i].items[j]
         /\ \A j \in 1 .. Len(Cells(p, i)) : Cells(p, i)[j].type = "Package" => Cells(p, i)[j].len \in Nat
  <1> DEFINE e == p.entries[i]
             items == e.items
             cells == Cells(p, i)
             head == [type |-> "Package", len |-> Len(items), value |-> "none"]
             X == Range(items) \cup {head}
  <1>1. /\ items \in Seq(Range(items))
        /\ \A j \in DOMAIN items : items[j].type = "Package" => items[j].len \in Nat
        /\ e.alone => items # <<>> /\ items[1].type # "Package"
    BY SetupAssumption DEF S!A!AcpiAssumption, S!A!Range, Range
  <1>2. cells = IF e.alone THEN items ELSE <<head>> \o items
    BY DEF Cells, S!A!EntryCells
  <1>3. Len(items) \in Nat /\ DOMAIN items = 1 .. Len(items) /\ items \in Seq(X) /\ <<head>> \in Seq(X)
    BY <1>1
  <1>4. CASE e.alone
    <2>1. cells = items /\ Len(items) # 0
      BY <1>1, <1>2, <1>4, LenZero
    <2>2. cells \in Seq(Range(cells)) /\ Range(cells) \subseteq AllCells(p)
      BY <1>1, <2>1 DEF AllCells
    <2>3. cells \in Seq(AllCells(p))
      BY <2>2
    <2> HIDE DEF items, cells
    <2>4. QED
      BY <1>1, <1>3, <1>4, <2>1, <2>3 DEF items, cells
  <1>5. CASE ~e.alone
    <2>1. cells = <<head>> \o items
      BY <1>2, <1>5
    <2> HIDE DEF cells, items, head
    <2>2. /\ <<head>> \o items \in Seq(X) /\ Len(<<head>> \o items) = 1 + Len(items)
          /\ (<<head>> \o items)[1] = head
          /\ \A j \in 1 .. Len(items) : (<<head>> \o items)[j + 1] = items[j]
      BY <1>3
    <2>3. cells \in Seq(Range(cells))
      BY <2>1, <2>2, OwnRange
    <2>4. Range(cells) \subseteq AllCells(p)
      BY DEF AllCells, cells
    <2>5. cells \in Seq(AllCells(p))
      BY <2>3, <2>4
    <2>6. head.type = "Package" /\ head.len = Len(items)
      BY DEF head
    <2>7. Len(cells) = Len(items) + 1 /\ cells[1] = head /\ \A j \in 1 .. Len(items) : cells[j + 1] = items[j]
      BY <1>3, <2>1, <2>2
    <2>8. \A j \in 1 .. Len(cells) : cells[j].type = "Package" => cells[j].len \in Nat
      <3>1. \A j \in 1 .. Len(cells) : j = 1 \/ (j - 1 \in 1 .. Len(items) /\ j - 1 + 1 = j)
        BY <1>3, <2>7
      <3>2. ASSUME NEW j \in 1 .. Len(cells), j # 1 PROVE cells[j] = items[j - 1] /\ j - 1 \in DOMAIN items
        <4>1. j - 1 \in 1 .. Len(items) /\ j - 1 + 1 = j
          BY <3>1, <3>2
        <4>2. cells[j - 1 + 1] = items[j - 1]
          BY <2>7, <4>1
        <4>3. QED
          BY <1>3, <4>1, <4>2
      <3>3. cells[1].len \in Nat
        BY <1>3, <2>6, <2>7
      <3>4. \A j \in DOMAIN items : items[j].type = "Package" => items[j].len \in Nat
        BY <1>1 DEF items
      <3>5. QED
        BY <3>2, <3>3, <3>4
    <2>9. QED
      BY <1>3, <1>5, <2>5, <2>6, <2>7, <2>8 DEF items, cells
  <1>6. QED
    BY <1>4, <1>5

\* The method in memory, and where its entries begin in it.
Memory(p) == S!A!MethodOf(p)
Count(p)  == Len(p.entries)
Laid(p, at) ==
  /\ Memory(p) \in Seq(Range(Memory(p))) /\ Len(Memory(p)) \in Nat /\ Len(Memory(p)) >= 2
  /\ Memory(p)[1] = [type |-> "Buffer", len |-> 16, value |-> p.guid]
  /\ Memory(p)[2] = [type |-> "Package", len |-> Len(Memory(p)) - 2, value |-> "none"]
  /\ \A a \in 1 .. Len(Memory(p)) : Memory(p)[a].type = "Package" => Memory(p)[a].len \in Nat
  /\ \A i \in 1 .. Count(p) + 1 : at[i] \in Nat /\ at[i] >= 3
  /\ at[1] = 3 /\ at[Count(p) + 1] = Len(Memory(p)) + 1
  /\ \A i \in 1 .. Count(p) :
       /\ at[i + 1] = at[i] + Len(Cells(p, i)) /\ at[i + 1] <= Len(Memory(p)) + 1
       /\ \A j \in 1 .. Len(Cells(p, i)) : Memory(p)[at[i] + (j - 1)] = Cells(p, i)[j]

LEMMA MemoryLaid ==
  ASSUME NEW p \in Methods
  PROVE  \E at : Laid(p, at)
  <1> DEFINE n == Count(p)
             ss == [i \in 1 .. n |-> Cells(p, i)]
             E == AllCells(p)
             es == FlattenSeq(ss)
             c1 == [type |-> "Buffer", len |-> 16, value |-> p.guid]
             c2 == [type |-> "Package", len |-> Len(es), value |-> "none"]
             m == Memory(p)
  <1>1. n \in Nat /\ DOMAIN p.entries = 1 .. n
    BY SetupAssumption DEF S!A!AcpiAssumption, S!A!Range, Count
  <1>2. m = <<c1, c2>> \o es
    BY DEF Memory, S!A!MethodOf, S!A!Entries, S!A!FlattenSeq, FlattenSeq, Cells, Count
  <1>3. ss \in Seq(Seq(E)) /\ Len(ss) = n /\ \A i \in 1 .. n : ss[i] = Cells(p, i)
    <2>1. \A i \in 1 .. n : Cells(p, i) \in Seq(E)
      BY <1>1, CellsAre
    <2> HIDE DEF n, E
    <2>2. QED
      BY <1>1, <2>1
  <1> HIDE DEF ss, E, n
  <1>4. PICK sums : Flattens(E, ss, sums)
    BY <1>3, FlattenStepwise
  <1>5. /\ \A i \in 0 .. n : sums[i] \in Seq(E) /\ Len(sums[i]) \in Nat
        /\ Len(sums[0]) = 0
        /\ \A i \in 1 .. n :
             /\ Len(sums[i]) = Len(sums[i - 1]) + Len(ss[i]) /\ Len(sums[i]) <= Len(es)
             /\ \A j \in 1 .. Len(ss[i]) : es[Len(sums[i - 1]) + j] = ss[i][j]
    <2>1. Lies(E, ss, sums)
      BY <1>3, <1>4, FlattenPlaces
    <2>2. Len(ss) = n
      BY <1>3
    <2>3. QED
      BY <2>1, <2>2 DEF Lies
  <1>6. es = sums[n] /\ es \in Seq(E) /\ Len(es) \in Nat
    <2>1. es = sums[n] /\ n \in 0 .. n
      BY <1>1, <1>3, <1>4 DEF Flattens
    <2> HIDE DEF es
    <2>2. QED
      BY <1>5, <2>1
  <1> DEFINE at == [i \in 1 .. n + 1 |-> Len(sums[i - 1]) + 3]
             X == E \cup {c1, c2}
  <1>7. /\ m \in Seq(X) /\ Len(m) = Len(es) + 2 /\ m[1] = c1 /\ m[2] = c2
        /\ \A x \in 1 .. Len(es) : m[x + 2] = es[x]
    <2> HIDE DEF m, es, c1, c2
    <2>1. <<c1, c2>> \in Seq(X) /\ es \in Seq(X)
      BY <1>6
    <2> DEFINE pre == <<c1, c2>>
    <2>2. Len(pre) = 2 /\ pre[1] = c1 /\ pre[2] = c2 /\ pre \in Seq(X)
      BY <2>1
    <2> HIDE DEF pre, X
    <2>3. /\ pre \o es \in Seq(X) /\ Len(pre \o es) = Len(pre) + Len(es)
          /\ \A x \in 1 .. Len(pre) + Len(es) :
               (pre \o es)[x] = IF x <= Len(pre) THEN pre[x] ELSE es[x - Len(pre)]
      BY <2>1, <2>2, ConcatProperties
    <2>4. m = pre \o es
      BY <1>2 DEF pre
    <2>5. \A x \in 1 .. 2 + Len(es) : m[x] = IF x <= 2 THEN pre[x] ELSE es[x - 2]
      BY <2>2, <2>3, <2>4
    <2>6. \A x \in 1 .. Len(es) : x + 2 \in 1 .. 2 + Len(es) /\ ~(x + 2 <= 2) /\ x + 2 - 2 = x
      BY <1>6
    <2>7. ASSUME NEW x \in 1 .. Len(es) PROVE m[x + 2] = es[x]
      <3> DEFINE y == x + 2
      <3>1. y \in 1 .. 2 + Len(es) /\ ~(y <= 2) /\ y - 2 = x
        BY <2>6
      <3> HIDE DEF y
      <3>2. m[y] = es[x]
        BY <2>5, <3>1
      <3>3. QED
        BY <3>2 DEF y
    <2>8. 1 \in 1 .. 2 + Len(es) /\ 2 \in 1 .. 2 + Len(es)
      BY <1>6
    <2>9. m[1] = c1 /\ m[2] = c2
      BY <2>2, <2>5, <2>8
    <2>10. Len(m) = Len(es) + 2
      BY <1>6, <2>2, <2>3, <2>4
    <2>11. QED
      BY <2>3, <2>4, <2>7, <2>9, <2>10
  <1>8. \A c \in X : c.type = "Package" => c.len \in Nat
    <2>1. \A c \in E : c.type = "Package" => c.len \in Nat
      <3> SUFFICES ASSUME NEW i \in DOMAIN p.entries, NEW c \in Range(Cells(p, i)), c.type = "Package"
                   PROVE  c.len \in Nat
        BY DEF E, AllCells
      <3>1. PICK j \in DOMAIN Cells(p, i) : c = Cells(p, i)[j]
        BY DEF Range
      <3>2. j \in 1 .. Len(Cells(p, i))
        BY <3>1, CellsAre
      <3>3. QED
        BY <3>1, <3>2, CellsAre
    <2>2. c1.type # "Package" /\ c2.len \in Nat
      BY <1>6
    <2> HIDE DEF c1, c2
    <2>3. QED
      BY <2>1, <2>2
  <1>9. \A a \in 1 .. Len(m) : m[a].type = "Package" => m[a].len \in Nat
    <2> HIDE DEF m, X
    <2>1. \A a \in 1 .. Len(m) : m[a] \in X
      BY <1>7, ElementOfSeq
    <2>2. QED
      BY <1>8, <2>1
  <1>10. m \in Seq(Range(m)) /\ Len(m) \in Nat /\ Len(m) >= 2
    <2>1. m \in Seq(Range(m))
      <3> HIDE DEF m, X
      <3>1. QED
        BY <1>7, OwnRange
    <2>2. Len(m) \in Nat /\ Len(m) >= 2
      <3> HIDE DEF m, es
      <3>1. QED
        BY <1>6, <1>7
    <2>3. QED
      BY <2>1, <2>2
  <1>11. /\ \A i \in 1 .. n + 1 : at[i] \in Nat /\ at[i] >= 3
         /\ at[1] = 3 /\ at[n + 1] = Len(m) + 1
    <2>1. \A i \in 1 .. n + 1 : i - 1 \in 0 .. n
      BY <1>1
    <2>2. 1 \in 1 .. n + 1 /\ n + 1 \in 1 .. n + 1 /\ 1 - 1 = 0 /\ n + 1 - 1 = n
      BY <1>1
    <2>3. at[1] = 3
      BY <1>5, <2>2
    <2>4. at[n + 1] = Len(sums[n]) + 3
      <3>1. \A i \in 1 .. n + 1 : at[i] = Len(sums[i - 1]) + 3
        OBVIOUS
      <3> DEFINE top == n + 1
      <3>2. top \in 1 .. n + 1 /\ top - 1 = n
        BY <1>1
      <3> HIDE DEF at, top
      <3>3. at[top] = Len(sums[n]) + 3
        BY <3>1, <3>2
      <3>4. QED
        BY <3>3 DEF top
    <2>5. \A i \in 1 .. n + 1 : at[i] \in Nat /\ at[i] >= 3
      <3>1. \A i \in 1 .. n + 1 : at[i] = Len(sums[i - 1]) + 3 /\ Len(sums[i - 1]) \in Nat
        BY <1>5, <2>1
      <3> HIDE DEF at
      <3>2. QED
        BY <3>1
    <2> HIDE DEF m, es, at
    <2>6. at[n + 1] = Len(m) + 1
      BY <1>6, <1>7, <2>4
    <2>7. QED
      BY <2>3, <2>5, <2>6
  <1>12. ASSUME NEW i \in 1 .. n
         PROVE  /\ at[i + 1] = at[i] + Len(Cells(p, i)) /\ at[i + 1] <= Len(m) + 1
                /\ \A j \in 1 .. Len(Cells(p, i)) : m[at[i] + (j - 1)] = Cells(p, i)[j]
    <2>1. i \in 1 .. n + 1 /\ i + 1 \in 1 .. n + 1 /\ i + 1 - 1 = i /\ i - 1 \in 0 .. n /\ i \in 0 .. n
      BY <1>1
    <2>2. at[i] = Len(sums[i - 1]) + 3 /\ at[i + 1] = Len(sums[i]) + 3
      <3>1. at[i] = Len(sums[i - 1]) + 3
        BY <2>1
      <3>2. at[i + 1] = Len(sums[i + 1 - 1]) + 3
        BY <2>1
      <3> HIDE DEF at
      <3>3. QED
        BY <2>1, <3>1, <3>2
    <2> HIDE DEF m, es, at
    <2> DEFINE low == Len(sums[i - 1])
               more == Len(Cells(p, i))
    <2>3. low \in Nat /\ Len(sums[i]) = low + more /\ more \in Nat
      <3>1. ss[i] = Cells(p, i) /\ Len(ss[i]) \in Nat
        BY <1>1, <1>3, CellsAre
      <3>2. low \in Nat /\ Len(sums[i]) = low + Len(ss[i])
        BY <1>5, <2>1
      <3>3. QED
        BY <3>1, <3>2
    <2>4. Len(sums[i]) <= Len(es)
      BY <1>5
    <2>5. \A j \in 1 .. more : es[low + j] = Cells(p, i)[j]
      BY <1>3, <1>5
    <2>6. ASSUME NEW j \in 1 .. more PROVE m[at[i] + (j - 1)] = Cells(p, i)[j]
      <3> HIDE DEF low, more
      <3> DEFINE x == low + j
      <3>1. x \in 1 .. Len(es) /\ at[i] + (j - 1) = x + 2
        BY <1>6, <2>2, <2>3, <2>4 DEF low
      <3>2. es[x] = Cells(p, i)[j]
        BY <2>5
      <3> HIDE DEF x
      <3>3. QED
        BY <1>7, <3>1, <3>2
    <2>7. at[i + 1] <= Len(m) + 1
      BY <1>5, <1>6, <1>7, <2>1, <2>2, <2>4
    <2>8. QED
      BY <2>2, <2>3, <2>6, <2>7
  <1>13. Laid(p, at)
    <2>1. m[1] = c1 /\ m[2] = [type |-> "Package", len |-> Len(m) - 2, value |-> "none"]
      <3> HIDE DEF m, es
      <3>1. Len(m) - 2 = Len(es)
        BY <1>6, <1>7
      <3>2. QED
        BY <1>7, <3>1
    <2>2. m = Memory(p) /\ n = Count(p)
      BY DEF n
    <2> HIDE DEF m, at, es, n
    <2>3. QED
      BY <1>9, <1>10, <1>11, <1>12, <2>1, <2>2 DEF Laid
  <1>14. QED
    BY <1>13

\* An entry in memory.
LEMMA EntryInMemory ==
  ASSUME NEW p \in Methods, NEW at, Laid(p, at), NEW i \in 1 .. Count(p)
  PROVE  /\ i \in DOMAIN p.entries /\ Len(p.entries[i].items) \in Nat
         /\ at[i] \in Nat /\ at[i] >= 3 /\ at[i] <= Len(Memory(p))
         /\ p.entries[i].alone => Memory(p)[at[i]].type # "Package"
         /\ ~p.entries[i].alone =>
              /\ Memory(p)[at[i]].type = "Package" /\ Memory(p)[at[i]].len = Len(p.entries[i].items)
              /\ at[i + 1] = at[i] + 1 + Len(p.entries[i].items)
              /\ \A j \in 1 .. Len(p.entries[i].items) : Memory(p)[at[i] + j] = p.entries[i].items[j]
  <1> DEFINE e == p.entries[i]
             m == Memory(p)
             a == at[i]
             more == Len(Cells(p, i))
  <1>1. Count(p) \in Nat /\ i \in DOMAIN p.entries /\ i \in 1 .. Count(p) + 1
    BY SetupAssumption DEF S!A!AcpiAssumption, S!A!Range, Count
  <1>2. /\ a \in Nat /\ a >= 3 /\ at[i + 1] = a + more /\ a + more <= Len(m) + 1 /\ Len(m) \in Nat
        /\ \A j \in 1 .. more : m[a + (j - 1)] = Cells(p, i)[j]
    BY <1>1 DEF Laid
  <1>3. more \in Nat /\ more >= 1 /\ Len(e.items) \in Nat
    BY <1>1, CellsAre
  <1>4. a <= Len(m)
    <2> HIDE DEF a, more, m
    <2>1. QED
      BY <1>2, <1>3
  <1>5. m[a] = Cells(p, i)[1]
    <2>1. 1 \in 1 .. more
      BY <1>3
    <2>2. m[a + (1 - 1)] = Cells(p, i)[1]
      BY <1>2, <2>1
    <2>3. a + (1 - 1) = a
      BY <1>2
    <2>4. QED
      BY <2>2, <2>3
  <1>6. e.alone => m[a].type # "Package"
    BY <1>1, <1>5, CellsAre
  <1>7. ASSUME ~e.alone
        PROVE  /\ m[a].type = "Package" /\ m[a].len = Len(e.items)
               /\ at[i + 1] = a + 1 + Len(e.items)
               /\ \A j \in 1 .. Len(e.items) : m[a + j] = e.items[j]
    <2> DEFINE len == Len(e.items)
    <2>1. /\ Cells(p, i)[1].type = "Package" /\ Cells(p, i)[1].len = len /\ more = len + 1
          /\ \A j \in 1 .. len : Cells(p, i)[j + 1] = e.items[j]
      BY <1>1, <1>7, CellsAre
    <2>2. ASSUME NEW j \in 1 .. len PROVE m[a + j] = e.items[j]
      <3> DEFINE k == j + 1
      <3>1. k \in 1 .. more /\ a + (k - 1) = a + j
        <4>1. len \in Nat /\ a \in Nat /\ more = len + 1
          BY <1>2, <1>3, <2>1
        <4> HIDE DEF len, more, a
        <4>2. QED
          BY <4>1
      <3>2. Cells(p, i)[k] = e.items[j]
        BY <2>1
      <3> HIDE DEF k, a, m, more
      <3>3. m[a + (k - 1)] = Cells(p, i)[k]
        BY <1>2, <3>1
      <3>4. QED
        BY <3>1, <3>2, <3>3
    <2>3. at[i + 1] = a + 1 + len
      <3>1. at[i + 1] = a + more /\ more = len + 1 /\ a \in Nat /\ len \in Nat
        BY <1>2, <1>3, <2>1
      <3> HIDE DEF len, more, a
      <3>2. a + more = a + 1 + len
        BY <3>1
      <3>3. QED
        BY <3>1, <3>2
    <2>4. QED
      BY <1>5, <2>1, <2>2, <2>3
  <1>8. QED
    BY <1>1, <1>2, <1>3, <1>4, <1>6, <1>7

-----------------------------------------------------------------------------
(* How a property is found.                                                *)

\* One turn of the loop of AcpiDevicePropertiesQueryValue: where it goes on from place e, if it does.
Goes(m, props, key, e) ==
  LET entry == S!A!PackageGetNextArgument(m, props, e)
      name  == S!A!PackageGetNextArgument(m, entry, 0)
  IN  /\ entry # 0 /\ m[entry].type = "Package"
      /\ name # 0 /\ m[name].type = "String" /\ m[name].value # key

\* What it returns there, if it does not go on.
Ends(m, props, key, e) ==
  LET Fail(why) == [status |-> why, at |-> 0]
      entry == S!A!PackageGetNextArgument(m, props, e)
      name  == S!A!PackageGetNextArgument(m, entry, 0)
      value == S!A!PackageGetNextArgument(m, entry, name)
  IN  IF entry = 0 THEN Fail("NotFound")
      ELSE IF m[entry].type # "Package" THEN Fail("InvalidArgType")
      ELSE IF name = 0 THEN Fail("IncorrectArgumentCount")
      ELSE IF m[name].type # "String" THEN Fail("InvalidData")
      ELSE IF value = 0 THEN Fail("IncorrectArgumentCount")
      ELSE [status |-> "Success", at |-> value]
Finds(m, props, key, f) ==
  /\ S!A!QueryValue(m, props, key) = f[0]
  /\ \A e \in 0 .. Len(m) :
       f[e] = IF Goes(m, props, key, e) THEN f[S!A!PackageGetNextArgument(m, props, e)]
                                        ELSE Ends(m, props, key, e)

\* The loop comes to an end, because it only moves forward.
LEMMA QueryUnfolds ==
  ASSUME NEW m, NEW props, NEW key, Len(m) \in Nat, m[props].type = "Package",
         \A e \in 0 .. Len(m) : \/ S!A!PackageGetNextArgument(m, props, e) = 0
                                \/ S!A!PackageGetNextArgument(m, props, e) \in e + 1 .. Len(m)
  PROVE  \E f : Finds(m, props, key, f)
  <1> DEFINE n == Len(m)
             Fail(why) == [status |-> why, at |-> 0]
             Body(find) ==
               [e \in 0 .. Len(m) |->
                  LET entry == S!A!PackageGetNextArgument(m, props, e)
                      name  == S!A!PackageGetNextArgument(m, entry, 0)
                      value == S!A!PackageGetNextArgument(m, entry, name)
                  IN IF entry = 0 THEN Fail("NotFound")
                     ELSE IF m[entry].type # "Package" THEN Fail("InvalidArgType")
                     ELSE IF name = 0 THEN Fail("IncorrectArgumentCount")
                     ELSE IF m[name].type # "String" THEN Fail("InvalidData")
                     ELSE IF m[name].value # key THEN find[entry]
                     ELSE IF value = 0 THEN Fail("IncorrectArgumentCount")
                     ELSE [status |-> S!A!Success, at |-> value]]
             flat == CHOOSE find : find = Body(find)
             On == {e \in 0 .. n : Goes(m, props, key, e)}
             g == [e \in 0 .. n |-> S!A!PackageGetNextArgument(m, props, e)]
             h == [e \in 0 .. n |-> Ends(m, props, key, e)]
  <1>1. S!A!QueryValue(m, props, key) = flat[0]
    BY Zenon DEF S!A!QueryValue
  <1>2. ASSUME NEW find, NEW e \in 0 .. n
        PROVE  Body(find)[e] = IF Goes(m, props, key, e) THEN find[S!A!PackageGetNextArgument(m, props, e)]
                                                         ELSE Ends(m, props, key, e)
    BY DEF Goes, Ends, S!A!Success
  <1>3. PICK f : f = [e \in 0 .. n |-> IF e \in On THEN f[g[e]] ELSE h[e]]
    <2>1. LooksAhead(n, On, g)
      BY DEF Goes, LooksAhead
    <2> HIDE DEF n, On, g, h
    <2>2. n \in Nat
      BY DEF n
    <2>3. PICK f : Ahead(n, On, g, h, f)
      BY <2>1, <2>2, Downward
    <2>4. QED
      BY <2>3, Zenon DEF Ahead
  <1>4. f = Body(f)
    <2>1. \A e \in 0 .. n : f[e] = IF e \in On THEN f[g[e]] ELSE h[e]
      <3> HIDE DEF On, g, h, n
      <3>1. QED
        BY <1>3
    <2>2. \A e \in 0 .. n : f[e] = Body(f)[e]
      <3> HIDE DEF Body
      <3>1. QED
        BY <1>2, <2>1
    <2>3. f = [e \in 0 .. n |-> f[e]]
      <3> DEFINE val == [e \in 0 .. n |-> IF e \in On THEN f[g[e]] ELSE h[e]]
      <3>1. val = [e \in 0 .. n |-> val[e]]
        OBVIOUS
      <3> HIDE DEF val
      <3>2. f = val
        BY <1>3 DEF val
      <3>3. QED
        BY <3>1, <3>2
    <2>4. Body(f) = [e \in 0 .. n |-> Body(f)[e]]
      OBVIOUS
    <2> HIDE DEF Body
    <2>5. QED
      BY <2>2, <2>3, <2>4
  <1>5. flat = Body(flat)
    <2> HIDE DEF Body
    <2>1. QED
      BY <1>4
  <1>6. \A e \in 0 .. n : flat[e] = Body(flat)[e]
    <2> HIDE DEF flat, Body
    <2>1. QED
      BY <1>5
  <1> HIDE DEF flat, Body
  <1>7. Finds(m, props, key, flat)
    BY <1>1, <1>2, <1>6 DEF Finds
  <1>8. QED
    BY <1>7

\* Enumerating the entries moves forward, within the memory.
LEMMA MovesForward ==
  ASSUME NEW p \in Methods, NEW at, Laid(p, at), NEW e \in 0 .. Len(Memory(p))
  PROVE  \/ S!A!PackageGetNextArgument(Memory(p), 2, e) = 0
         \/ S!A!PackageGetNextArgument(Memory(p), 2, e) \in e + 1 .. Len(Memory(p))
  <1> DEFINE m == Memory(p)
             n == Len(m)
             next == IF e = 0 THEN 2 + 1 ELSE S!A!NextArgument(m, e)
  <1>1. n \in Nat /\ n >= 2 /\ m[2].len = n - 2 /\ \A a \in 1 .. n : m[a].type = "Package" => m[a].len \in Nat
    BY DEF Laid
  <1>2. S!A!PackageGetNextArgument(m, 2, e) = IF m[2].len = 0 \/ (e # 0 /\ next > 2 + m[2].len) THEN 0 ELSE next
    BY DEF S!A!PackageGetNextArgument
  <1>3. CASE e = 0
    <2>1. next = 3
      BY <1>3
    <2>2. S!A!PackageGetNextArgument(m, 2, e) = IF m[2].len = 0 THEN 0 ELSE 3
      BY <1>2, <1>3, <2>1
    <2> HIDE DEF next, m
    <2>3. m[2].len # 0 => 3 \in 0 + 1 .. n
      <3> HIDE DEF n
      <3>1. QED
        BY <1>1
    <2>4. QED
      BY <1>3, <2>2, <2>3 DEF m, n
  <1>4. CASE e # 0
    <2>1. e \in 1 .. n
      BY <1>1, <1>4
    <2>2. next = e + 1 \/ (m[e].len \in Nat /\ next = e + 1 + m[e].len)
      BY <1>1, <1>4, <2>1 DEF S!A!NextArgument
    <2>3. next \in Nat /\ next >= e + 1
      <3> HIDE DEF next, n, m
      <3>1. QED
        BY <2>1, <2>2
    <2> HIDE DEF next, m
    <2>4. 2 + m[2].len = n
      BY <1>1
    <2> HIDE DEF n
    <2>5. S!A!PackageGetNextArgument(m, 2, e) = 0 \/ S!A!PackageGetNextArgument(m, 2, e) \in e + 1 .. n
      BY <1>1, <1>2, <1>4, <2>1, <2>3, <2>4
    <2>6. QED
      BY <2>5 DEF m, n
  <1>5. QED
    BY <1>3, <1>4

\* The place from which the i-th entry is the next one.
Before(at, i) == IF i = 1 THEN 0 ELSE at[i - 1]

\* The entries come one after the other, each found from the one before.
LEMMA NextEntry ==
  ASSUME NEW p \in Methods, NEW at, Laid(p, at), NEW i \in 1 .. Count(p) + 1, i > 1 => ~p.entries[i - 1].alone
  PROVE  /\ Before(at, i) \in 0 .. Len(Memory(p))
         /\ S!A!PackageGetNextArgument(Memory(p), 2, Before(at, i)) = IF i <= Count(p) THEN at[i] ELSE 0
  <1> DEFINE m == Memory(p)
             n == Len(m)
             c == Count(p)
  <1>1. /\ n \in Nat /\ n >= 2 /\ m[2].len = n - 2 /\ at[1] = 3 /\ at[c + 1] = n + 1 /\ c \in Nat
    BY SetupAssumption DEF Laid, S!A!AcpiAssumption, S!A!Range, Count
  <1>2. i <= c => at[i] \in Nat /\ at[i] <= n /\ at[i] >= 3
    <2>1. i <= c => i \in 1 .. c
      BY <1>1
    <2>2. QED
      BY <2>1, EntryInMemory
  <1>3. i <= c \/ i = c + 1
    BY <1>1
  <1>4. CASE i = 1
    <2>1. S!A!PackageGetNextArgument(m, 2, 0) = IF m[2].len = 0 THEN 0 ELSE 2 + 1
      BY DEF S!A!PackageGetNextArgument
    <2> HIDE DEF m, c
    <2>2. Before(at, i) = 0
      BY <1>4 DEF Before
    <2>3. i <= c => n >= 3 /\ at[i] = 3
      BY <1>1, <1>2, <1>4
    <2>4. ~(i <= c) => n = 2
      <3>1. ~(i <= c) => c + 1 = 1
        BY <1>3, <1>4
      <3>2. ~(i <= c) => 3 = n + 1
        BY <1>1, <3>1
      <3> HIDE DEF n
      <3>3. QED
        BY <1>1, <3>2
    <2> HIDE DEF n
    <2>5. m[2].len = 0 <=> n = 2
      BY <1>1
    <2>6. S!A!PackageGetNextArgument(m, 2, Before(at, i)) = IF i <= c THEN at[i] ELSE 0
      BY <2>1, <2>2, <2>3, <2>4, <2>5
    <2>7. Before(at, i) \in 0 .. n
      BY <1>1, <2>2
    <2>8. QED
      BY <2>6, <2>7 DEF m, n, c
  <1>5. CASE i # 1
    <2> DEFINE q == i - 1
               a == at[q]
    <2>1. q \in 1 .. c /\ q + 1 = i
      BY <1>1, <1>5
    <2>2. Before(at, i) = a /\ ~p.entries[q].alone
      BY <1>1, <1>5 DEF Before
    <2> HIDE DEF q
    <2>3. /\ a \in Nat /\ a >= 3 /\ a <= n /\ m[a].type = "Package" /\ at[q + 1] = a + 1 + m[a].len
      BY <2>1, <2>2, EntryInMemory
    <2>4. S!A!NextArgument(m, a) = a + 1 + m[a].len
      BY <2>3 DEF S!A!NextArgument
    <2>5. S!A!PackageGetNextArgument(m, 2, a) =
            IF m[2].len = 0 \/ S!A!NextArgument(m, a) > 2 + m[2].len THEN 0 ELSE S!A!NextArgument(m, a)
      BY <2>3 DEF S!A!PackageGetNextArgument
    <2>6. S!A!NextArgument(m, a) = at[i]
      BY <2>1, <2>3, <2>4
    <2> HIDE DEF m, a, c
    <2>7. m[2].len # 0 /\ 2 + m[2].len = n
      BY <1>1, <2>3
    <2> HIDE DEF n
    <2>8. i <= c => ~(at[i] > n)
      BY <1>1, <1>2
    <2>9. ~(i <= c) => at[i] > n
      BY <1>1, <1>3
    <2>10. S!A!PackageGetNextArgument(m, 2, a) = IF i <= c THEN at[i] ELSE 0
      BY <2>5, <2>6, <2>7, <2>8, <2>9
    <2>11. a \in 0 .. n
      BY <1>1, <2>3
    <2>12. QED
      BY <2>2, <2>10, <2>11 DEF m, n, c
  <1>6. QED
    BY <1>4, <1>5

\* What the loop does with an entry: it goes on from a pair with another key, returns the value
\* of a pair with this one, and fails at anything else.
LEMMA EntryQueried ==
  ASSUME NEW p \in Methods, NEW at, Laid(p, at), NEW i \in 1 .. Count(p), NEW key, NEW b,
         S!A!PackageGetNextArgument(Memory(p), 2, b) = at[i]
  PROVE  LET e == p.entries[i] IN
         /\ Goes(Memory(p), 2, key, b) <=> S!A!WellFormed(e) /\ e.items[1].value # key
         /\ ~S!A!WellFormed(e) => Ends(Memory(p), 2, key, b).status # "Success"
         /\ S!A!WellFormed(e) /\ Len(e.items) < 2 => Ends(Memory(p), 2, key, b).status # "Success"
         /\ S!A!WellFormed(e) /\ Len(e.items) >= 2 =>
              /\ Ends(Memory(p), 2, key, b) = [status |-> "Success", at |-> at[i] + 2]
              /\ Memory(p)[at[i] + 2] = e.items[2]
  <1> DEFINE e == p.entries[i]
             m == Memory(p)
             a == at[i]
             len == Len(e.items)
             name == S!A!PackageGetNextArgument(m, a, 0)
             value == S!A!PackageGetNextArgument(m, a, name)
  <1>1. /\ i \in DOMAIN p.entries /\ len \in Nat /\ a \in Nat /\ a >= 3
        /\ e.alone => m[a].type # "Package"
        /\ ~e.alone => m[a].type = "Package" /\ m[a].len = len /\ \A j \in 1 .. len : m[a + j] = e.items[j]
    BY EntryInMemory
  <1>2. name = IF m[a].len = 0 THEN 0 ELSE a + 1
    BY DEF S!A!PackageGetNextArgument
  <1>3. value = LET next == IF name = 0 THEN a + 1 ELSE S!A!NextArgument(m, name)
                IN IF m[a].len = 0 \/ (name # 0 /\ next > a + m[a].len) THEN 0 ELSE next
    BY DEF S!A!PackageGetNextArgument
  <1>4. CASE e.alone
    <2>1. m[a].type # "Package" /\ a # 0 /\ ~S!A!WellFormed(e)
      BY <1>1, <1>4 DEF S!A!WellFormed
    <2>2. ~Goes(m, 2, key, b) /\ Ends(m, 2, key, b).status = "InvalidArgType"
      BY <2>1 DEF Goes, Ends
    <2>3. QED
      BY <2>1, <2>2
  <1>5. CASE ~e.alone /\ len = 0
    <2>1. m[a].type = "Package" /\ a # 0 /\ name = 0 /\ ~S!A!WellFormed(e)
      BY <1>1, <1>2, <1>5 DEF S!A!WellFormed
    <2>2. ~Goes(m, 2, key, b) /\ Ends(m, 2, key, b).status = "IncorrectArgumentCount"
      BY <2>1 DEF Goes, Ends
    <2>3. QED
      BY <2>1, <2>2
  <1>6. CASE ~e.alone /\ len # 0
    <2>1. m[a].type = "Package" /\ a # 0 /\ name = a + 1 /\ name # 0 /\ m[a].len = len /\ 1 \in 1 .. len
      BY <1>1, <1>2, <1>6
    <2>2. m[name] = e.items[1]
      BY <1>1, <1>6, <2>1
    <2>3. S!A!WellFormed(e) <=> m[name].type = "String"
      BY <1>1, <1>6, <2>2 DEF S!A!WellFormed
    <2>4. Goes(m, 2, key, b) <=> m[name].type = "String" /\ m[name].value # key
      BY <2>1 DEF Goes
    <2>5. m[name].type # "String" => Ends(m, 2, key, b).status = "InvalidData"
      BY <2>1 DEF Ends
    <2>6. ASSUME m[name].type = "String"
          PROVE  Ends(m, 2, key, b) = IF value = 0 THEN [status |-> "IncorrectArgumentCount", at |-> 0]
                                                   ELSE [status |-> "Success", at |-> value]
      BY <2>1, <2>6 DEF Ends
    <2>7. ASSUME m[name].type = "String" PROVE value = IF len < 2 THEN 0 ELSE a + 2
      <3>1. S!A!NextArgument(m, name) = name + 1
        BY <2>7 DEF S!A!NextArgument
      <3>2. value = IF S!A!NextArgument(m, name) > a + len THEN 0 ELSE S!A!NextArgument(m, name)
        BY <1>3, <1>6, <2>1
      <3>3. S!A!NextArgument(m, name) = a + 2
        BY <1>1, <2>1, <3>1
      <3> HIDE DEF a, m, len, value, name
      <3>4. a + 2 > a + len <=> len < 2
        BY <1>1
      <3>5. QED
        BY <3>2, <3>3, <3>4
    <2>8. len >= 2 => 2 \in 1 .. len /\ m[a + 2] = e.items[2]
      BY <1>1, <1>6
    <2>9. a + 2 # 0 /\ (len >= 2 <=> ~(len < 2))
      BY <1>1
    <2> HIDE DEF a, m, len, value, name
    <2>10. QED
      BY <2>2, <2>3, <2>4, <2>5, <2>6, <2>7, <2>8, <2>9 DEF a, m, len
  <1>7. QED
    BY <1>4, <1>5, <1>6

\* An entry that the loop passes, and the one that it looks for.
Passed(p, key, i) == S!A!WellFormed(p.entries[i]) /\ p.entries[i].items[1].value # key
Match(p, key, i)  == S!A!WellFormed(p.entries[i]) /\ p.entries[i].items[1].value = key

\* The loop passes all entries before the one where it ends.
LEMMA LoopEnds ==
  ASSUME NEW p \in Methods, NEW at, Laid(p, at), NEW key, NEW f, Finds(Memory(p), 2, key, f),
         NEW last \in 1 .. Count(p) + 1, \A j \in 1 .. last - 1 : Passed(p, key, j),
         last = Count(p) + 1 \/ ~Passed(p, key, last)
  PROVE  S!A!QueryValue(Memory(p), 2, key) = Ends(Memory(p), 2, key, Before(at, last))
  <1> DEFINE m == Memory(p)
             c == Count(p)
  <1>1. c \in Nat
    BY SetupAssumption DEF S!A!AcpiAssumption, S!A!Range, Count
  <1>2. ASSUME NEW i \in 1 .. last
        PROVE  /\ Before(at, i) \in 0 .. Len(m) /\ i \in 1 .. c + 1
               /\ S!A!PackageGetNextArgument(m, 2, Before(at, i)) = IF i <= c THEN at[i] ELSE 0
    <2>1. i \in 1 .. c + 1
      BY <1>1
    <2>2. i > 1 => i - 1 \in 1 .. last - 1
      BY <1>1
    <2>3. i > 1 => ~p.entries[i - 1].alone
      BY <2>2 DEF Passed, S!A!WellFormed
    <2>4. QED
      BY <2>1, <2>3, NextEntry
  <1>3. /\ S!A!QueryValue(m, 2, key) = f[0]
        /\ \A e \in 0 .. Len(m) :
             f[e] = IF Goes(m, 2, key, e) THEN f[S!A!PackageGetNextArgument(m, 2, e)] ELSE Ends(m, 2, key, e)
    BY DEF Finds
  <1> DEFINE Shown == {d \in Nat : d + 1 <= last => f[0] = f[Before(at, d + 1)]}
  <1>4. 0 \in Shown
    BY DEF Before
  <1>5. ASSUME NEW d \in Nat, d \in Shown PROVE d + 1 \in Shown
    <2> SUFFICES ASSUME d + 1 + 1 <= last PROVE f[0] = f[Before(at, d + 1 + 1)]
      OBVIOUS
    <2> DEFINE i == d + 1
    <2>1. i \in 1 .. last /\ i \in 1 .. c /\ i \in 1 .. last - 1 /\ i <= c
      BY <1>1
    <2>2. f[0] = f[Before(at, i)]
      BY <1>5, <2>1
    <2>3. Before(at, d + 1 + 1) = at[i]
      BY DEF Before
    <2> HIDE DEF i
    <2>4. S!A!PackageGetNextArgument(m, 2, Before(at, i)) = at[i] /\ Before(at, i) \in 0 .. Len(m)
      BY <1>2, <2>1
    <2>5. Goes(m, 2, key, Before(at, i))
      BY <2>1, <2>4, EntryQueried DEF Passed
    <2>6. f[Before(at, i)] = f[at[i]]
      BY <1>3, <2>4, <2>5
    <2>7. QED
      BY <2>2, <2>3, <2>6
  <1>6. f[0] = f[Before(at, last)]
    <2>1. \A d \in Nat : d \in Shown
      <3> HIDE DEF Shown
      <3>1. QED
        BY <1>4, <1>5, UpFromZero
    <2>2. last - 1 \in Nat /\ last - 1 + 1 = last
      BY <1>1
    <2>3. QED
      BY <2>1, <2>2
  <1>7. ~Goes(m, 2, key, Before(at, last))
    <2>1. last \in 1 .. last
      BY <1>1
    <2>2. CASE last <= c
      <3>1. last \in 1 .. c /\ last # c + 1
        BY <1>1, <2>2
      <3>2. S!A!PackageGetNextArgument(m, 2, Before(at, last)) = at[last]
        BY <1>2, <2>1, <2>2
      <3>3. QED
        BY <3>1, <3>2, EntryQueried DEF Passed
    <2>3. CASE ~(last <= c)
      <3>1. S!A!PackageGetNextArgument(m, 2, Before(at, last)) = 0
        BY <1>2, <2>1, <2>3
      <3>2. QED
        BY <3>1 DEF Goes
    <2>4. QED
      BY <2>2, <2>3
  <1>8. Before(at, last) \in 0 .. Len(m)
    <2>1. last \in 1 .. last
      BY <1>1
    <2>2. QED
      BY <1>2, <2>1
  <1>9. QED
    BY <1>3, <1>6, <1>7, <1>8

\* Reading an integer property gives what the table means.
LEMMA QueryMeans ==
  ASSUME NEW p \in Methods, p.guid = "DevicePropertiesGuid", NEW key
  PROVE  LET got == S!A!QueryIntegerValue(Memory(p), 2, key) IN
         S!A!Meaning(p, key) = IF got.status = "Success" THEN got.value ELSE S!A!Default
  <1> DEFINE m == Memory(p)
             c == Count(p)
             es == p.entries
             hits == {i \in 1 .. c : Match(p, key, i)
                                     /\ \A j \in 1 .. i - 1 : S!A!WellFormed(es[j]) /\ ~Match(p, key, j)}
             found == S!A!QueryValue(m, 2, key)
             got == S!A!QueryIntegerValue(m, 2, key)
  <1>1. PICK at : Laid(p, at)
    BY MemoryLaid
  <1>2. c \in Nat /\ Len(m) \in Nat /\ m[2].type = "Package"
    BY <1>1, SetupAssumption DEF S!A!AcpiAssumption, S!A!Range, Count, Laid
  <1>3. PICK f : Finds(m, 2, key, f)
    <2>1. \A e \in 0 .. Len(m) : \/ S!A!PackageGetNextArgument(m, 2, e) = 0
                                 \/ S!A!PackageGetNextArgument(m, 2, e) \in e + 1 .. Len(m)
      BY <1>1, MovesForward
    <2> HIDE DEF m
    <2>2. QED
      BY <1>2, <2>1, QueryUnfolds
  <1>4. PICK last \in 1 .. c + 1 :
          /\ last = c + 1 \/ ~Passed(p, key, last)
          /\ \A j \in 1 .. last - 1 : j \in 1 .. c /\ Passed(p, key, j)
    <2> DEFINE E == {i \in 1 .. c + 1 : i = c + 1 \/ ~Passed(p, key, i)}
    <2>1. c + 1 \in E /\ E \subseteq Nat
      BY <1>2
    <2>2. PICK x \in E : \A y \in E : x <= y
      <3> HIDE DEF E
      <3>1. QED
        BY <2>1, LeastOf
    <2>3. ASSUME NEW j \in 1 .. x - 1 PROVE j \in 1 .. c /\ Passed(p, key, j)
      <3>1. x \in 1 .. c + 1 /\ j \in 1 .. c /\ j \in 1 .. c + 1 /\ ~(x <= j)
        BY <1>2
      <3>2. j \notin E
        BY <2>2, <3>1
      <3>3. QED
        BY <3>1, <3>2
    <2>4. QED
      BY <2>2, <2>3
  <1>5. found = Ends(m, 2, key, Before(at, last))
    <2>1. \A j \in 1 .. last - 1 : Passed(p, key, j)
      BY <1>4
    <2>2. QED
      BY <1>1, <1>3, <1>4, <2>1, LoopEnds
  <1>6. S!A!PackageGetNextArgument(m, 2, Before(at, last)) = IF last <= c THEN at[last] ELSE 0
    <2>1. last > 1 => last - 1 \in 1 .. last - 1
      BY <1>2
    <2>2. last > 1 => ~es[last - 1].alone
      BY <1>4, <2>1 DEF Passed, S!A!WellFormed
    <2>3. QED
      BY <1>1, <2>2, NextEntry
  <1>7. S!A!Meaning(p, key) =
          IF hits = {} THEN S!A!Default
          ELSE LET e == es[CHOOSE i \in hits : TRUE]
               IN  IF Len(e.items) >= 2 /\ e.items[2].type = "Integer" /\ e.items[2].len = 4
                   THEN e.items[2].value ELSE S!A!Default
    BY DEF S!A!Meaning, Match, Count
  <1>8. got = IF found.status = "Success" THEN S!A!ParseInteger(m, found.at)
                                          ELSE [status |-> found.status, value |-> 0]
    BY DEF S!A!QueryIntegerValue, S!A!Success
  <1>9. \A j : Passed(p, key, j) => S!A!WellFormed(es[j]) /\ ~Match(p, key, j)
    BY DEF Passed, Match
  <1>10. CASE last = c + 1 \/ ~Match(p, key, last)
    <2>1. found.status # "Success"
      <3>1. CASE last = c + 1
        <4>1. ~(last <= c)
          BY <1>2, <3>1
        <4>2. S!A!PackageGetNextArgument(m, 2, Before(at, last)) = 0
          BY <1>6, <4>1
        <4>3. QED
          BY <1>5, <4>2 DEF Ends
      <3>2. CASE last # c + 1
        <4>1. last \in 1 .. c /\ last <= c /\ ~S!A!WellFormed(es[last])
          BY <1>2, <1>4, <1>10, <3>2 DEF Passed, Match
        <4>2. S!A!PackageGetNextArgument(m, 2, Before(at, last)) = at[last]
          BY <1>6, <4>1
        <4>3. QED
          BY <1>1, <1>5, <4>1, <4>2, EntryQueried
      <3>3. QED
        BY <3>1, <3>2
    <2>2. ASSUME NEW i \in hits PROVE FALSE
      <3>1. i \in 1 .. c /\ Match(p, key, i) /\ \A j \in 1 .. i - 1 : S!A!WellFormed(es[j]) /\ ~Match(p, key, j)
        OBVIOUS
      <3>2. ~(i \in 1 .. last - 1)
        BY <1>4, <1>9, <3>1
      <3>3. last \in 1 .. c /\ (last = i \/ last \in 1 .. i - 1)
        BY <1>2, <3>1, <3>2
      <3>4. last # c + 1
        BY <1>2, <3>3
      <3>5. ~Passed(p, key, last) /\ ~Match(p, key, last)
        BY <1>4, <1>10, <3>4
      <3>6. QED
        BY <3>1, <3>3, <3>5 DEF Passed, Match
    <2>3. hits = {}
      BY <2>2
    <2> HIDE DEF hits, found, got
    <2>4. got.status # "Success"
      BY <1>8, <2>1
    <2>5. QED
      BY <1>7, <2>3, <2>4 DEF got
  <1>11. CASE last # c + 1 /\ Match(p, key, last)
    <2> DEFINE e == es[last]
    <2>1. last \in 1 .. c /\ last <= c /\ S!A!WellFormed(e)
      BY <1>2, <1>11 DEF Match
    <2>2. S!A!PackageGetNextArgument(m, 2, Before(at, last)) = at[last]
      BY <1>6, <2>1
    <2>3. /\ Len(e.items) < 2 => found.status # "Success"
          /\ Len(e.items) >= 2 => /\ found = [status |-> "Success", at |-> at[last] + 2]
                                  /\ m[at[last] + 2] = e.items[2]
      BY <1>1, <1>5, <2>1, <2>2, EntryQueried
    <2>4. hits = {last}
      <3>1. last \in hits
        BY <1>4, <1>9, <1>11, <2>1
      <3>2. ASSUME NEW i \in hits PROVE i = last
        <4>1. i \in 1 .. c /\ Match(p, key, i) /\ \A j \in 1 .. i - 1 : S!A!WellFormed(es[j]) /\ ~Match(p, key, j)
          OBVIOUS
        <4>2. ~(i \in 1 .. last - 1)
          BY <1>4, <1>9, <4>1
        <4>3. ~(last \in 1 .. i - 1)
          BY <1>11, <4>1
        <4>4. QED
          BY <2>1, <4>1, <4>2, <4>3
      <3> HIDE DEF hits
      <3>3. QED
        BY <3>1, <3>2
    <2> HIDE DEF hits
    <2>5. (CHOOSE i \in hits : TRUE) = last
      BY <2>4
    <2>6. S!A!Meaning(p, key) = IF Len(e.items) >= 2 /\ e.items[2].type = "Integer" /\ e.items[2].len = 4
                                THEN e.items[2].value ELSE S!A!Default
      BY <1>7, <2>4, <2>5
    <2>7. Len(e.items) \in Nat
      BY <1>1, <2>1, EntryInMemory
    <2> HIDE DEF found, got
    <2>8. CASE Len(e.items) < 2
      <3>1. ~(Len(e.items) >= 2) /\ got.status # "Success"
        BY <1>8, <2>3, <2>7, <2>8
      <3>2. QED
        BY <2>6, <3>1 DEF got
    <2>9. CASE ~(Len(e.items) < 2)
      <3>1. Len(e.items) >= 2
        BY <2>7, <2>9
      <3>2. got = IF e.items[2].type = "Integer" /\ e.items[2].len = 4
                  THEN [status |-> "Success", value |-> e.items[2].value]
                  ELSE [status |-> "InvalidArgType", value |-> 0]
        <4>1. got = S!A!ParseInteger(m, found.at) /\ m[found.at] = e.items[2]
          BY <1>8, <2>3, <3>1
        <4> HIDE DEF m, e
        <4>2. QED
          BY <4>1 DEF S!A!ParseInteger, S!A!Success
      <3>3. QED
        BY <2>6, <3>1, <3>2 DEF got
    <2>10. QED
      BY <2>8, <2>9
  <1>12. QED
    BY <1>10, <1>11

\* AcpiParseDsdAsDeviceProperties looks at the two arguments that every method has.
LEMMA DsdParsed ==
  ASSUME NEW p \in Methods
  PROVE  S!A!ParseDsd(Memory(p), 2) = IF p.guid = "DevicePropertiesGuid" THEN [status |-> "Success", at |-> 2]
                                                                         ELSE [status |-> "InvalidData", at |-> 0]
  <1> DEFINE m == Memory(p)
  <1>1. PICK at : Laid(p, at)
    BY MemoryLaid
  <1>2. /\ Len(m) \in Nat /\ Len(m) >= 2 /\ m[1].type = "Buffer" /\ m[1].len = 16 /\ m[1].value = p.guid
        /\ m[2].type = "Package"
    BY <1>1 DEF Laid
  <1> HIDE DEF m
  <1>3. S!A!NextArgument(m, 1) = 2
    BY <1>2 DEF S!A!NextArgument
  <1>4. S!A!OutputBufferGetNextArgument(m, 0) = 1 /\ S!A!OutputBufferGetNextArgument(m, 1) = 2
    BY <1>2, <1>3 DEF S!A!OutputBufferGetNextArgument
  <1>5. QED
    BY <1>2, <1>4 DEF S!A!ParseDsd, S!A!Success, m

\* AcpiDevicePropertiesQueryIntegerValueArray reads the two integers of a package, and goes on there.
LEMMA PairRead ==
  ASSUME NEW m, NEW after, NEW a \in Nat, a # 0, S!A!PackageGetNextArgument(m, 2, after) = a,
         m[a].type = "Package", m[a].len = 2,
         m[a + 1].type = "Integer", m[a + 1].len = 4, m[a + 2].type = "Integer", m[a + 2].len = 4
  PROVE  LET got == S!A!QueryIntegerValueArray(m, 2, 2, after) IN
         got.values = <<m[a + 1].value, m[a + 2].value>> /\ got.next = a + 2
  <1> DEFINE Fail(why) == [status |-> why, values |-> <<>>, next |-> after]
             entry == S!A!PackageGetNextArgument(m, 2, after)
             Body(rd) ==
               [n \in 0 .. 2 |->
                  IF n = 0 THEN [status |-> S!A!Success, values |-> <<>>, next |-> 0]
                  ELSE LET before == rd[n - 1]
                           b      == S!A!PackageGetNextArgument(m, entry, before.next)
                       IN  IF before.status # S!A!Success THEN before
                           ELSE IF b = 0 THEN Fail("IncorrectArgumentCount")
                           ELSE IF m[b].type # "Integer" THEN Fail("InvalidData")
                           ELSE IF m[b].len # 4 THEN Fail("InvalidArgType")
                           ELSE [status |-> S!A!Success, values |-> Append(before.values, m[b].value), next |-> b]]
             flat == CHOOSE rd : rd = Body(rd)
             r0 == [status |-> "Success", values |-> <<>>, next |-> 0]
             r1 == [status |-> "Success", values |-> <<m[a + 1].value>>, next |-> a + 1]
             r2 == [status |-> "Success", values |-> <<m[a + 1].value, m[a + 2].value>>, next |-> a + 2]
  <1>1. S!A!QueryIntegerValueArray(m, 2, 2, after) = flat[2]
    <2>1. entry # 0 /\ m[entry].type = "Package"
      OBVIOUS
    <2>2. S!A!QueryIntegerValueArray(m, 2, 2, after) =
            IF entry = 0 THEN Fail("NotFound") ELSE IF m[entry].type # "Package" THEN Fail("InvalidArgType") ELSE flat[2]
      BY Zenon DEF S!A!QueryIntegerValueArray
    <2> HIDE DEF flat, entry
    <2>3. QED
      BY <2>1, <2>2
  <1>2. S!A!PackageGetNextArgument(m, a, 0) = a + 1
    BY DEF S!A!PackageGetNextArgument
  <1>3. S!A!PackageGetNextArgument(m, a, a + 1) = a + 2
    <2>1. S!A!NextArgument(m, a + 1) = a + 2
      BY DEF S!A!NextArgument
    <2>2. QED
      BY <2>1 DEF S!A!PackageGetNextArgument
  <1>4. ASSUME NEW rd
        PROVE  /\ Body(rd)[0] = r0
               /\ rd[0] = r0 => Body(rd)[1] = r1
               /\ rd[1] = r1 => Body(rd)[2] = r2
    <2>1. Body(rd)[0] = r0
      BY DEF S!A!Success
    <2>2. ASSUME rd[0] = r0 PROVE Body(rd)[1] = r1
      <3>1. Append(<<>>, m[a + 1].value) = <<m[a + 1].value>>
        OBVIOUS
      <3>2. QED
        BY <1>2, <2>2, <3>1 DEF S!A!Success
    <2>3. ASSUME rd[1] = r1 PROVE Body(rd)[2] = r2
      <3> DEFINE before == rd[1]
                 b == S!A!PackageGetNextArgument(m, entry, before.next)
      <3>1. Append(<<m[a + 1].value>>, m[a + 2].value) = <<m[a + 1].value, m[a + 2].value>>
        BY TwoAppended
      <3>2. before.status = "Success" /\ before.values = <<m[a + 1].value>> /\ before.next = a + 1
        BY <2>3
      <3>3. b = a + 2 /\ b # 0
        BY <1>3, <3>2
      <3>4. Body(rd)[2] =
              IF before.status # S!A!Success THEN before
              ELSE IF b = 0 THEN Fail("IncorrectArgumentCount")
              ELSE IF m[b].type # "Integer" THEN Fail("InvalidData")
              ELSE IF m[b].len # 4 THEN Fail("InvalidArgType")
              ELSE [status |-> S!A!Success, values |-> Append(before.values, m[b].value), next |-> b]
        OBVIOUS
      <3> HIDE DEF b, before, Body, Fail, entry
      <3>5. Body(rd)[2] = [status |-> "Success", values |-> Append(<<m[a + 1].value>>, m[a + 2].value), next |-> a + 2]
        BY <3>2, <3>3, <3>4 DEF S!A!Success
      <3>6. QED
        BY <3>1, <3>5
    <2>4. QED
      BY <2>1, <2>2, <2>3
  <1>5. \E rd : rd = Body(rd)
    <2> DEFINE f == [n \in 0 .. 2 |-> IF n = 0 THEN r0 ELSE IF n = 1 THEN r1 ELSE r2]
               Either(n) == IF n = 0 THEN r0 ELSE IF n = 1 THEN r1 ELSE r2
    <2>1. f[0] = r0 /\ f[1] = r1 /\ f[2] = r2 /\ f = [n \in 0 .. 2 |-> f[n]]
      <3>1. f[0] = r0 /\ f[1] = r1 /\ f[2] = r2
        <4> HIDE DEF r0, r1, r2
        <4>1. QED
          OBVIOUS
      <3>2. f = [n \in 0 .. 2 |-> Either(n)]
        BY Zenon
      <3>3. \A n \in 0 .. 2 : Either(n) = f[n]
        <4> HIDE DEF r0, r1, r2
        <4>1. QED
          OBVIOUS
      <3> HIDE DEF Either, f, r0, r1, r2
      <3>4. QED
        BY <3>1, <3>2, <3>3
    <2>2. Body(f) = [n \in 0 .. 2 |-> Body(f)[n]]
      <3> HIDE DEF f, Either, r0, r1, r2
      <3>1. QED
        OBVIOUS
    <2> HIDE DEF f, Body, r0, r1, r2
    <2>3. Body(f)[0] = r0 /\ Body(f)[1] = r1 /\ Body(f)[2] = r2
      BY <1>4, <2>1
    <2>4. \A n \in 0 .. 2 : f[n] = Body(f)[n]
      <3>1. \A n \in 0 .. 2 : n = 0 \/ n = 1 \/ n = 2
        OBVIOUS
      <3>2. QED
        BY <2>1, <2>3, <3>1
    <2>5. f = Body(f)
      BY <2>1, <2>2, <2>4
    <2>6. QED
      BY <2>5
  <1>6. flat = Body(flat)
    <2> HIDE DEF Body
    <2>1. QED
      BY <1>5
  <1>7. flat[2] = r2
    <2> HIDE DEF flat, Body, r0, r1, r2
    <2>1. QED
      BY <1>4, <1>6
  <1>8. r2.values = <<m[a + 1].value, m[a + 2].value>> /\ r2.next = a + 2
    OBVIOUS
  <1> HIDE DEF flat, r2
  <1>9. QED
    BY <1>1, <1>7, <1>8

\* A list of two pairs of integers is rd pair by pair.
LEMMA PairsRead ==
  ASSUME NEW p \in Methods
  PROVE  S!A!PairsInOrder(p)
  <1> DEFINE m == Memory(p)
             es == p.entries
             first  == S!A!QueryIntegerValueArray(m, 2, 2, 0)
             second == S!A!QueryIntegerValueArray(m, 2, 2, first.next)
  <1> SUFFICES ASSUME Len(es) = 2, S!A!Integers2(es[1]), S!A!Integers2(es[2])
               PROVE  /\ first.values  = <<es[1].items[1].value, es[1].items[2].value>>
                      /\ second.values = <<es[2].items[1].value, es[2].items[2].value>>
    BY DEF S!A!PairsInOrder, Memory
  <1>1. PICK at : Laid(p, at)
    BY MemoryLaid
  <1>2. Count(p) = 2
    BY DEF Count
  <1>3. ASSUME NEW i \in 1 .. 2
        PROVE  /\ at[i] \in Nat /\ at[i] >= 3 /\ at[i] <= Len(m) /\ at[i + 1] = at[i] + 3
               /\ m[at[i]].type = "Package" /\ m[at[i]].len = 2
               /\ m[at[i] + 1] = es[i].items[1] /\ m[at[i] + 2] = es[i].items[2]
               /\ m[at[i] + 1].type = "Integer" /\ m[at[i] + 1].len = 4
               /\ m[at[i] + 2].type = "Integer" /\ m[at[i] + 2].len = 4
    <2>1. /\ ~es[i].alone /\ Len(es[i].items) = 2
          /\ \A j \in 1 .. 2 : es[i].items[j].type = "Integer" /\ es[i].items[j].len = 4
      <3>1. i = 1 \/ i = 2
        OBVIOUS
      <3>2. QED
        BY <3>1 DEF S!A!Integers2
    <2>2. /\ at[i] \in Nat /\ at[i] >= 3 /\ at[i] <= Len(m)
          /\ m[at[i]].type = "Package" /\ m[at[i]].len = 2 /\ at[i + 1] = at[i] + 1 + 2
          /\ \A j \in 1 .. 2 : m[at[i] + j] = es[i].items[j]
      <3>1. i \in 1 .. Count(p)
        BY <1>2
      <3> DEFINE it == es[i].items
      <3>2. /\ at[i] \in Nat /\ at[i] >= 3 /\ at[i] <= Len(m)
            /\ m[at[i]].type = "Package" /\ m[at[i]].len = Len(it) /\ at[i + 1] = at[i] + 1 + Len(it)
            /\ \A j \in 1 .. Len(it) : m[at[i] + j] = it[j]
        <4>1. ~es[i].alone
          BY <2>1
        <4>2. QED
          BY <1>1, <3>1, <4>1, EntryInMemory, Zenon
      <3>3. Len(it) = 2
        BY <2>1
      <3> HIDE DEF m, it
      <3>4. /\ at[i] \in Nat /\ at[i] >= 3 /\ at[i] <= Len(m)
            /\ m[at[i]].type = "Package" /\ m[at[i]].len = 2 /\ at[i + 1] = at[i] + 1 + 2
            /\ \A j \in 1 .. 2 : m[at[i] + j] = it[j]
        BY <3>2, <3>3
      <3>5. QED
        BY <3>4 DEF it
    <2> HIDE DEF m
    <2>3. m[at[i] + 1] = es[i].items[1] /\ m[at[i] + 2] = es[i].items[2]
      BY <2>2
    <2>4. QED
      BY <2>1, <2>2, <2>3
  <1> HIDE DEF m, first, second, es
  <1>4. S!A!PackageGetNextArgument(m, 2, 0) = at[1]
    <2>1. S!A!PackageGetNextArgument(Memory(p), 2, Before(at, 1)) = IF 1 <= Count(p) THEN at[1] ELSE 0
      BY <1>1, <1>2, NextEntry
    <2>2. QED
      BY <1>2, <2>1 DEF Before, m
  <1>5. first.values = <<m[at[1] + 1].value, m[at[1] + 2].value>> /\ first.next = at[1] + 2
    <2>1. at[1] # 0
      BY <1>3
    <2> DEFINE a == at[1]
    <2>2. a \in Nat /\ a # 0 /\ S!A!PackageGetNextArgument(m, 2, 0) = a
      BY <1>3, <1>4, <2>1
    <2>3. /\ m[a].type = "Package" /\ m[a].len = 2 /\ m[a + 1].type = "Integer" /\ m[a + 1].len = 4
          /\ m[a + 2].type = "Integer" /\ m[a + 2].len = 4
      BY <1>3
    <2> HIDE DEF a
    <2>4. first.values = <<m[a + 1].value, m[a + 2].value>> /\ first.next = a + 2
      BY <2>2, <2>3, PairRead DEF first
    <2>5. QED
      BY <2>4 DEF a
  <1>6. S!A!PackageGetNextArgument(m, 2, at[1] + 2) = at[2]
    <2>1. S!A!NextArgument(m, at[1] + 2) = at[1] + 3
      <3> DEFINE a == at[1]
      <3>1. a \in Nat /\ m[a + 2].type = "Integer"
        BY <1>3
      <3> HIDE DEF a
      <3>2. a + 2 + 1 = a + 3
        BY <3>1
      <3>3. S!A!NextArgument(m, a + 2) = a + 2 + 1
        BY <3>1 DEF S!A!NextArgument
      <3>4. QED
        BY <3>2, <3>3 DEF a
    <2>2. at[2] = at[1] + 3 /\ at[2] <= Len(m) /\ at[1] \in Nat
      BY <1>3
    <2>3. m[2].len = Len(m) - 2 /\ Len(m) \in Nat
      BY <1>1 DEF Laid, m
    <2>4. m[2].len # 0 /\ ~(at[1] + 3 > 2 + m[2].len) /\ at[1] + 2 # 0
      <3> DEFINE n == Len(m)
                 a == at[1]
                 len == m[2].len
      <3>1. a \in Nat /\ a >= 3 /\ n \in Nat /\ a + 3 <= n /\ len = n - 2
        BY <1>3, <2>2, <2>3
      <3> HIDE DEF n, a, len
      <3>2. len # 0 /\ ~(a + 3 > 2 + len) /\ a + 2 # 0
        BY <3>1
      <3>3. QED
        BY <3>2 DEF a, len
    <2>5. QED
      BY <2>1, <2>2, <2>4 DEF S!A!PackageGetNextArgument
  <1>7. second.values = <<m[at[2] + 1].value, m[at[2] + 2].value>>
    <2>1. at[2] # 0
      BY <1>3
    <2>2. second = S!A!QueryIntegerValueArray(m, 2, 2, at[1] + 2)
      BY <1>5 DEF second
    <2> DEFINE a == at[2]
               c == at[1] + 2
    <2>3. a \in Nat /\ a # 0 /\ S!A!PackageGetNextArgument(m, 2, c) = a
      BY <1>3, <1>6, <2>1
    <2>4. /\ m[a].type = "Package" /\ m[a].len = 2 /\ m[a + 1].type = "Integer" /\ m[a + 1].len = 4
          /\ m[a + 2].type = "Integer" /\ m[a + 2].len = 4
      BY <1>3
    <2> HIDE DEF a, c
    <2>5. S!A!QueryIntegerValueArray(m, 2, 2, c).values = <<m[a + 1].value, m[a + 2].value>>
      BY <2>3, <2>4, PairRead
    <2>6. QED
      BY <2>2, <2>5 DEF a, c
  <1>8. 1 \in 1 .. 2 /\ 2 \in 1 .. 2
    OBVIOUS
  <1>9. /\ m[at[1] + 1] = es[1].items[1] /\ m[at[1] + 2] = es[1].items[2]
        /\ m[at[2] + 1] = es[2].items[1] /\ m[at[2] + 2] = es[2].items[2]
    BY <1>3, <1>8
  <1>10. QED
    BY <1>5, <1>7, <1>9

-----------------------------------------------------------------------------
(* The evaluation of ACPI methods.                                         *)

\* AcpiReadProperties of both drivers: what they read is what the table says.
LEMMA ReadsMeaning ==
  ASSUME method \in Methods, status = "Success" => content = Memory(method)
  PROVE  \A k \in Keys : S!A!PropertiesRead[k] = IF status # "Success" THEN S!A!Default ELSE S!A!Meaning(method, k)
  <1> SUFFICES ASSUME NEW k \in Keys
               PROVE  S!A!PropertiesRead[k] = IF status # "Success" THEN S!A!Default ELSE S!A!Meaning(method, k)
    OBVIOUS
  <1> DEFINE props == S!A!ParseDsd(content, 2)
             got == S!A!QueryIntegerValue(content, props.at, k)
  <1>1. S!A!PropertiesRead[k] = IF status = "Success" /\ props.status = "Success" /\ got.status = "Success"
                                THEN got.value ELSE S!A!Default
    BY DEF S!A!PropertiesRead, S!A!Failed, S!A!Success
  <1>2. CASE status # "Success"
    BY <1>1, <1>2
  <1>3. CASE status = "Success" /\ method.guid # "DevicePropertiesGuid"
    <2>1. props = [status |-> "InvalidData", at |-> 0]
      BY <1>3, DsdParsed
    <2>2. S!A!Meaning(method, k) = S!A!Default
      BY <1>3 DEF S!A!Meaning
    <2> HIDE DEF got, props
    <2>3. QED
      BY <1>1, <1>3, <2>1, <2>2
  <1>4. CASE status = "Success" /\ method.guid = "DevicePropertiesGuid"
    <2>1. props = [status |-> "Success", at |-> 2]
      BY <1>4, DsdParsed
    <2>2. got = S!A!QueryIntegerValue(Memory(method), 2, k)
      BY <1>4, <2>1
    <2> DEFINE is == S!A!QueryIntegerValue(Memory(method), 2, k)
    <2>3. S!A!Meaning(method, k) = IF is.status = "Success" THEN is.value ELSE S!A!Default
      BY <1>4, QueryMeans
    <2> HIDE DEF got, props, is
    <2>4. got = is
      BY <2>2 DEF is
    <2>5. QED
      BY <1>1, <1>4, <2>1, <2>3, <2>4
  <1>5. QED
    BY <1>2, <1>3, <1>4

\* Which blocks are allocated at each point.
BlocksInv ==
  /\ acpiPc \in {"idle", "format", "evaluate", "send", "sent", "cleanup", "executed", "parse", "again", "release"}
  /\ ~twice /\ (in # 0 => caller = "Dsm")
  /\ acpiPc \in {"idle", "format"} => in = 0 /\ live = {}
  /\ acpiPc \in {"format", "evaluate", "send", "sent", "cleanup"} => given = 0
  /\ acpiPc = "evaluate" => live = {in} \ {0}
  /\ acpiPc \in {"send", "sent"} => out # 0
  /\ acpiPc \in {"send", "sent", "cleanup"} => live = {in, out} \ {0} /\ (out # 0 => out # in)
  /\ acpiPc \in {"format", "executed"} => caller = "Dsm"
  /\ acpiPc = "executed" => live = {in, given} \ {0} /\ (given # 0 => given # in)
  /\ acpiPc \in {"parse", "again"} => caller # "Dsm"
  /\ acpiPc \in {"parse", "again", "release"} => in = 0 /\ live = {given} \ {0}
  /\ acpiPc = "again" => given # 0

\* What lies in the output buffer, and what was read of it.
ContentInv ==
  /\ method \in Methods
  /\ acpiPc \in {"sent", "cleanup"} /\ status = "Success" =>
       out # 0 /\ content = Memory(method) /\ returned = Len(Memory(method))
  /\ acpiPc # "idle" /\ given # 0 => content = Memory(method)
  /\ acpiPc = "parse" /\ status = "Success" => given # 0
  /\ acpiPc = "release" /\ caller # "Dsm" =>
       \A k \in Keys : read[k] = IF status # "Success" THEN S!A!Default ELSE S!A!Meaning(method, k)

AcpiInv == BlocksInv /\ ContentInv

\* There is always another block for the next allocation.
LEMMA AnotherBlock ==
  ASSUME NEW a, live \subseteq {a}
  PROVE  S!A!Unused \notin live /\ S!A!Unused # 0
  <1>1. \E b \in 1 .. 3 : b \notin live
    <2>1. 1 \in 1 .. 3 /\ 2 \in 1 .. 3 /\ 1 # 2
      OBVIOUS
    <2>2. QED
      BY <2>1
  <1>2. S!A!Unused \in 1 .. 3 /\ S!A!Unused \notin live
    BY <1>1 DEF S!A!Unused, S!A!Blocks
  <1>3. QED
    BY <1>2

LEMMA AcpiInitHolds == ASSUME S!A!Init PROVE AcpiInv
  BY DEF S!A!Init, AcpiInv, BlocksInv, ContentInv

\* A buffer for the input of a _DSM, and one for the output.
LEMMA AllocationsKeep ==
  ASSUME AcpiInv, S!A!AcpiQueryDsd \/ S!A!AcpiQueryDsm \/ S!A!AcpiFormatDsmFunctionInputBuffer \/ S!A!AllocateOutput
  PROVE  AcpiInv'
  <1>1. CASE S!A!AcpiQueryDsd \/ S!A!AcpiQueryDsm
    BY <1>1 DEF S!A!AcpiQueryDsd, S!A!AcpiQueryDsm, S!A!poolVars, AcpiInv, BlocksInv, ContentInv
  <1>2. CASE S!A!AcpiFormatDsmFunctionInputBuffer
    <2>1. acpiPc = "format" /\ in = 0 /\ live = {} /\ given = 0 /\ caller = "Dsm" /\ ~twice
      BY <1>2 DEF S!A!AcpiFormatDsmFunctionInputBuffer, AcpiInv, BlocksInv
    <2>2. S!A!Unused # 0
      BY <2>1, AnotherBlock
    <2>3. /\ UNCHANGED <<caller, content, method, given, read, twice>>
          /\ \/ in' = S!A!Unused /\ live' = live \cup {S!A!Unused} /\ acpiPc' = "evaluate"
             \/ in' = 0 /\ acpiPc' = "executed" /\ live' = live
      BY <1>2 DEF S!A!AcpiFormatDsmFunctionInputBuffer
    <2>4. BlocksInv'
      BY <2>1, <2>2, <2>3 DEF BlocksInv
    <2>5. ContentInv'
      BY <2>1, <2>3 DEF AcpiInv, ContentInv
    <2>6. QED
      BY <2>4, <2>5 DEF AcpiInv
  <1>3. CASE S!A!AllocateOutput
    <2>1. acpiPc = "evaluate" /\ live = {in} \ {0} /\ given = 0 /\ ~twice /\ (in # 0 => caller = "Dsm")
      BY <1>3 DEF S!A!AllocateOutput, AcpiInv, BlocksInv
    <2>2. S!A!Unused # 0 /\ S!A!Unused \notin live
      BY <2>1, AnotherBlock
    <2>3. /\ UNCHANGED <<caller, method, in, given, read, twice>>
          /\ \/ out' = S!A!Unused /\ live' = live \cup {S!A!Unused} /\ acpiPc' = "send"
             \/ out' = 0 /\ status' = "NoMemory" /\ acpiPc' = "cleanup" /\ live' = live
      BY <1>3 DEF S!A!AllocateOutput
    <2>4. BlocksInv'
      BY <2>1, <2>2, <2>3 DEF BlocksInv
    <2>5. ContentInv'
      BY <2>1, <2>3 DEF AcpiInv, ContentInv
    <2>6. QED
      BY <2>4, <2>5 DEF AcpiInv
  <1>4. QED
    BY <1>1, <1>2, <1>3

\* One call of the firmware, and what AcpiEvaluateMethod makes of it.
LEMMA EvaluationKeeps ==
  ASSUME AcpiInv, S!A!AcpiSendIoctlSynchronously \/ S!A!LoopTail \/ S!A!EvaluateReturn
  PROVE  AcpiInv'
  <1>1. CASE S!A!AcpiSendIoctlSynchronously
    <2>1. /\ acpiPc = "send" /\ acpiPc' = "sent" /\ method' \in Methods
          /\ status' = "Success" => content' = Memory(method') /\ returned' = Len(Memory(method'))
          /\ UNCHANGED <<caller, in, out, given, read, live, twice>>
      BY <1>1 DEF S!A!AcpiSendIoctlSynchronously, S!A!bufferVars, S!A!poolVars, S!A!Success, Memory
    <2>2. BlocksInv'
      BY <2>1 DEF AcpiInv, BlocksInv
    <2>3. ContentInv'
      BY <2>1 DEF AcpiInv, BlocksInv, ContentInv
    <2>4. QED
      BY <2>2, <2>3 DEF AcpiInv
  <1>2. CASE S!A!LoopTail
    <2>1. /\ acpiPc = "sent" /\ out # 0 /\ out # in /\ live = {in, out} \ {0} /\ given = 0 /\ ~twice
          /\ in # 0 => caller = "Dsm"
      BY <1>2 DEF S!A!LoopTail, AcpiInv, BlocksInv
    <2>2. /\ UNCHANGED <<caller, status, returned, content, method, in, given, read>>
          /\ IF status = "BufferOverflow" THEN out' = 0 /\ S!A!Free(out) ELSE UNCHANGED <<out, live, twice>>
          /\ acpiPc' = "evaluate" \/ acpiPc' = "cleanup"
          /\ acpiPc' = "evaluate" => status = "BufferOverflow"
      BY <1>2 DEF S!A!LoopTail, S!A!poolVars
    <2>3. IF status = "BufferOverflow" THEN out' = 0 /\ live' = {in} \ {0} /\ ~twice' ELSE UNCHANGED <<out, live, twice>>
      BY <2>1, <2>2 DEF S!A!Free
    <2>4. BlocksInv'
      BY <2>1, <2>2, <2>3 DEF BlocksInv
    <2>5. ContentInv'
      BY <2>1, <2>2, <2>3 DEF AcpiInv, ContentInv
    <2>6. QED
      BY <2>4, <2>5 DEF AcpiInv
  <1>3. CASE S!A!EvaluateReturn
    <2>1. /\ acpiPc = "cleanup" /\ (out # 0 => out # in) /\ live = {in, out} \ {0} /\ given = 0 /\ ~twice
          /\ in # 0 => caller = "Dsm"
          /\ status = "Success" => out # 0 /\ content = Memory(method) /\ returned = Len(Memory(method))
          /\ method \in Methods
      BY <1>3 DEF S!A!EvaluateReturn, AcpiInv, BlocksInv, ContentInv
    <2>2. status = "Success" => returned > 0
      <3>1. Len(Memory(method)) \in Nat /\ Len(Memory(method)) >= 2
        BY <2>1, MemoryLaid DEF Laid
      <3> DEFINE n == Len(Memory(method))
      <3> HIDE DEF n
      <3>2. n > 0
        BY <3>1 DEF n
      <3>3. QED
        BY <2>1, <3>2 DEF n
    <2>3. /\ UNCHANGED <<caller, status, returned, content, method, in, out, read>>
          /\ given' = IF status = "Success" THEN out ELSE 0
          /\ acpiPc' = IF caller = "Dsm" THEN "executed" ELSE "parse"
          /\ IF status # "Success" /\ out # 0 THEN S!A!Free(out) ELSE UNCHANGED <<live, twice>>
      BY <1>3, <2>1, <2>2 DEF S!A!EvaluateReturn, S!A!Failed, S!A!Success, S!A!poolVars, S!A!callVars
    <2>4. live' = {in, given'} \ {0} /\ ~twice'
      BY <2>1, <2>3 DEF S!A!Free
    <2>5. BlocksInv'
      BY <2>1, <2>3, <2>4 DEF BlocksInv
    <2>6. ContentInv'
      BY <2>1, <2>3 DEF ContentInv
    <2>7. QED
      BY <2>5, <2>6 DEF AcpiInv
  <1>4. QED
    BY <1>1, <1>2, <1>3

\* The callers read the buffer and free it.
LEMMA CallersKeep ==
  ASSUME AcpiInv,
         \/ S!A!ExecuteReturn \/ S!A!MshcQueryAcpiPlatformCapabilities \/ S!A!EqosReadProperties
         \/ S!A!EvaluateAxic \/ S!A!Release
  PROVE  AcpiInv'
  <1>1. CASE S!A!ExecuteReturn
    <2>1. /\ acpiPc = "executed" /\ live = {in, given} \ {0} /\ (given # 0 => given # in) /\ ~twice /\ caller = "Dsm"
          /\ acpiPc' = "release" /\ in' = 0 /\ UNCHANGED <<caller, status, content, method, out, given, read>>
          /\ IF in # 0 THEN S!A!Free(in) ELSE UNCHANGED <<live, twice>>
      BY <1>1 DEF S!A!ExecuteReturn, S!A!callVars, S!A!poolVars, AcpiInv, BlocksInv
    <2>2. live' = {given} \ {0} /\ ~twice'
      BY <2>1 DEF S!A!Free
    <2>3. BlocksInv'
      BY <2>1, <2>2 DEF BlocksInv
    <2>4. ContentInv'
      BY <2>1 DEF AcpiInv, ContentInv
    <2>5. QED
      BY <2>3, <2>4 DEF AcpiInv
  <1>2. CASE S!A!MshcQueryAcpiPlatformCapabilities \/ S!A!EqosReadProperties
    <2>1. /\ acpiPc = "parse" /\ read' = S!A!PropertiesRead
          /\ UNCHANGED <<caller, status, returned, content, method, in, out, given, live, twice>>
          /\ acpiPc' = "release" \/ (acpiPc' = "again" /\ status = "Success")
      BY <1>2 DEF S!A!MshcQueryAcpiPlatformCapabilities, S!A!EqosReadProperties, S!A!callVars, S!A!bufferVars,
                  S!A!poolVars, S!A!Failed, S!A!Success
    <2>2. method \in Methods /\ (status = "Success" => content = Memory(method) /\ given # 0)
      BY <2>1 DEF AcpiInv, ContentInv
    <2>3. \A k \in Keys : read'[k] = IF status # "Success" THEN S!A!Default ELSE S!A!Meaning(method, k)
      BY <2>1, <2>2, ReadsMeaning
    <2>4. BlocksInv'
      BY <2>1, <2>2 DEF AcpiInv, BlocksInv
    <2>5. ContentInv'
      BY <2>1, <2>2, <2>3 DEF AcpiInv, ContentInv
    <2>6. QED
      BY <2>4, <2>5 DEF AcpiInv
  <1>3. CASE S!A!EvaluateAxic \/ S!A!Release
    <2>1. acpiPc \in {"again", "release"} /\ live = {given} \ {0} /\ in = 0 /\ ~twice /\ method \in Methods
      BY <1>3 DEF S!A!EvaluateAxic, S!A!Release, AcpiInv, BlocksInv, ContentInv
    <2>2. /\ IF given # 0 THEN S!A!Free(given) ELSE UNCHANGED <<live, twice>>
          /\ method' = method /\ in' = in
          /\ \/ acpiPc' = "idle"
             \/ acpiPc' = "evaluate" /\ given' = 0
      BY <1>3 DEF S!A!EvaluateAxic, S!A!Release, S!A!callVars, S!A!bufferVars, S!A!poolVars, AcpiInv, BlocksInv
    <2>3. live' = {} /\ ~twice'
      BY <2>1, <2>2 DEF S!A!Free
    <2>4. QED
      BY <2>1, <2>2, <2>3 DEF AcpiInv, BlocksInv, ContentInv
  <1>4. QED
    BY <1>1, <1>2, <1>3

LEMMA AcpiKeeps == ASSUME AcpiInv, [S!A!Next]_(S!acpiVars) PROVE AcpiInv'
  <1>1. CASE UNCHANGED S!acpiVars
    BY <1>1 DEF S!acpiVars, AcpiInv, BlocksInv, ContentInv
  <1>2. QED
    BY <1>1, AllocationsKeep, EvaluationKeeps, CallersKeep DEF S!A!Next

LEMMA MethodsHold == ASSUME AcpiInv PROVE S!A!EachBufferFreedOnce /\ S!A!ReadsWhatIsThere
  <1>1. S!A!EachBufferFreedOnce
    <2>1. acpiPc # "idle" /\ given # 0 => given \in live
      BY DEF AcpiInv, BlocksInv
    <2>2. QED
      BY <2>1 DEF AcpiInv, BlocksInv, ContentInv, S!A!EachBufferFreedOnce, Memory
  <1>2. S!A!PairsInOrder(method)
    BY PairsRead DEF AcpiInv, ContentInv
  <1>3. QED
    BY <1>1, <1>2 DEF AcpiInv, ContentInv, S!A!ReadsWhatIsThere, S!A!Failed, S!A!Success

-----------------------------------------------------------------------------
(* The parts together.  A part that is not there rests in its initial state. *)

SetupInv == AdapterInv /\ CountersInv /\ AcpiInv

LEMMA SetupInitHolds == MCInit => SetupInv
  BY AdapterInitHolds, CountersInitHold, AcpiInitHolds
     DEF MCInit, S!SetupInit, S!AdapterAtRest, S!AcpiAtRest, SetupInv

LEMMA SetupStep == SetupInv /\ [MCNext]_<<which, vars, setup1, setup2, setup3>> => SetupInv'
<1> SUFFICES ASSUME SetupInv, [MCNext]_<<which, vars, setup1, setup2, setup3>> PROVE SetupInv'
  OBVIOUS
<1>1. [S!Next]_(S!vars)
  BY DEF MCNext, S!SetupNext, setup1, S!vars, S!pnpVars, S!addressVars, S!hwVars, S!historyVars
<1>2. [S!C!Next]_(S!countersVars)
  BY DEF MCNext, S!SetupNext, setup2, S!countersVars
<1>3. [S!A!Next]_(S!acpiVars)
  BY DEF MCNext, S!SetupNext, setup3, S!acpiVars
<1> QED BY <1>1, <1>2, <1>3, AdapterKeeps, CountersKeep, AcpiKeeps DEF SetupInv

LEMMA SetupHolds == MCSpec => []SetupInv
  BY SetupInitHolds, SetupStep, PTL DEF MCSpec

\* Whatever fails, and however often the hardware is prepared and released, the device is
\* left with the address the firmware gave it (DeviceReleaseHardware, DeviceReset).
THEOREM AddressIsKept == MCSpec => []AddressKept
<1>1. SetupInv => AddressKept
  BY AddressHolds DEF SetupInv, AddressKept
<1> QED BY <1>1, SetupHolds, PTL

\* For any filters and any number of address registers the adapter receives what was asked
\* for and nothing else but its own frames (AdapterSetReceiveFilter); for any jumbo packet
\* size the limits that DeviceD0Entry writes let the largest frame pass, whole.
THEOREM AdapterReceivesAsAsked == MCSpec => []ReceivesAsAskedAndWhole
<1>1. SetupInv => ReceivesAsAskedAndWhole
  BY ReceivesHolds, LargestFrameHolds DEF SetupInv, ReceivesAsAskedAndWhole, S!ReceivesAsAskedAndWhole
<1> QED BY <1>1, SetupHolds, PTL

\* For any devices and counter sets PerfCallback finds the list, its lock and the contexts of
\* the devices in it, while DeviceAdd, DeviceCleanup and DriverUnload make and delete them.
THEOREM CountersFindDevices == MCSpec => []CallbackFindsDevices
<1>1. SetupInv => CallbackFindsDevices
  BY CallbackFinds DEF SetupInv, CallbackFindsDevices, S!CallbackFindsDevices
<1> QED BY <1>1, SetupHolds, PTL

\* Whatever fails while AcpiEvaluateMethod and its callers run, each of their buffers is freed
\* exactly once; and for any methods, with any number of entries of any form and length, and
\* any keys, what the drivers read is what the table says (AcpiDevicePropertiesQueryValue).
THEOREM MethodsAlwaysReadAndFreed == MCSpec => []MethodsReadAndFreed
<1>1. SetupInv => MethodsReadAndFreed
  BY MethodsHold DEF SetupInv, MethodsReadAndFreed, S!MethodsReadAndFreed
<1> QED BY <1>1, SetupHolds, PTL
=============================================================================

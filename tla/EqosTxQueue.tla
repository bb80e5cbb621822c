---------------------------- MODULE EqosTxQueue ----------------------------
(***************************************************************************)
(* The transmit queue of the dwc_eqos Ethernet driver                      *)
(* (drivers/net/dwc_eqos/txqueue.cpp).                                     *)
(*                                                                         *)
(* Three parties share two rings.  NetAdapterCx (external) puts packets    *)
(* into the packet ring; the driver turns every packet into descriptors    *)
(* and hands them to the DMA engine by moving the tail pointer; the DMA    *)
(* engine (external) fetches a descriptor, transmits, and gives it back by *)
(* clearing its Own bit.                                                   *)
(*                                                                         *)
(*   packet ring      [pktBegin] old [pktNext] new [pktEnd] NetAdapterCx   *)
(*   descriptor ring  [descBegin] TRANSMITTED TRANSMITTING [descEnd] EMPTY *)
(*                                                                         *)
(* TxQueueAdvance is modelled one loop iteration at a time, so the DMA     *)
(* engine interleaves with it; NetAdapterCx does not, because it never     *)
(* calls two callbacks of one queue at once.                               *)
(***************************************************************************)
EXTENDS Integers, Sequences, FiniteSetsExt

CONSTANTS
  DescCount,      \* descriptors in the ring, a power of 2
  PktCount,       \* elements of the packet ring
  FragCount,      \* elements of the fragment ring
  Packets,        \* the packets NetAdapterCx may send
  LengthMax,      \* QueueDescriptorLengthMax: bytes one descriptor can carry
  HeaderLength,   \* bytes of headers in front of a segmented payload
  VlanId,         \* deviceConfig.vlanId, used when the packet asks for none
  HwTags,         \* VLAN tags and segment sizes the device may remember
  HwSizes         \* from an earlier session

VARIABLES
  queue,          \* lifecycle of the NETPACKETQUEUE
  pc,             \* where the callback in progress is, "idle" if none is
  pktBegin, pktNext, pktEnd, pkts,
  fragBegin, fragEnd, pktFrag,
  descBegin, descEnd, descs, lastMss, lastVlanTag,
  descIndex, pktIndex, pktFragIndex,     \* locals of TxQueueAdvance
  hwStart, hwNext, hwDone, hwTail,       \* next to fetch, next to write back, tail
  hwMss, hwTag, hwMid                    \* device context; within a packet

netVars  == <<pktEnd, pkts, fragEnd, pktFrag>>
ringVars == <<pktBegin, pktNext, fragBegin>>
descVars == <<descBegin, descEnd, descs, lastMss, lastVlanTag>>
locals   == <<descIndex, pktIndex, pktFragIndex>>
hwVars   == <<hwStart, hwNext, hwDone, hwTail, hwMss, hwTag, hwMid>>
vars     == <<queue, pc, netVars, ringVars, descVars, locals, hwVars>>

-----------------------------------------------------------------------------
(* Sizes of packets and of their descriptors.                              *)

NoMss == 65535    \* lastMss = 0xFFFF: no segment size is known to be set

IsGso(p) == p.mss # 0

VlanTag(p) == IF p.vlanRequired THEN p.vlan ELSE VlanId

CeilDiv(n) == (n + LengthMax - 1) \div LengthMax

\* The descriptors TxQueueAdvance reserves for a segmented packet's fragments.
UserDescriptorsNeeded(p) ==
  MapThenSumSet(LAMBDA i : CeilDiv(p.frags[i]), DOMAIN p.frags)

\* The descriptors its loops then write: the first fragment starts after the
\* header, which has a descriptor of its own; without segmentation every
\* fragment has exactly one.
DataDescriptors(p) ==
  IF IsGso(p)
    THEN MapThenSumSet(LAMBDA i : CeilDiv(IF i = 1 THEN p.frags[i] - HeaderLength
                                                   ELSE p.frags[i]),
                       DOMAIN p.frags)
    ELSE Len(p.frags)

(* The constants are those of a driver and of packets its assertions admit: *)
(* queue_common.cpp (a power of two, checked), txqueue.h                    *)
(* (TxMaximumNumberOfFragments = minimum ring size - 3) and the NT_ASSERTs  *)
(* on fragments of TxQueueAdvance.                                          *)
ASSUME SizesAssumption ==
  /\ DescCount \in Nat /\ DescCount > 3
  /\ PktCount \in Nat \ {0, 1}
  /\ FragCount \in Nat \ {0}
  /\ VlanId \in Nat
  /\ HwTags \subseteq Nat /\ HwSizes \subseteq Nat

ASSUME PacketsAssumption ==
  /\ Packets # {}
  /\ \A p \in Packets :
       /\ p.ignore \in BOOLEAN /\ p.vlanRequired \in BOOLEAN
       /\ p.mss \in Nat /\ p.mss < NoMss /\ p.vlan \in Nat
       /\ Len(p.frags) \in 1..(DescCount - 3) /\ Len(p.frags) < FragCount
       /\ UserDescriptorsNeeded(p) \in Nat /\ DataDescriptors(p) \in Nat
       /\ DataDescriptors(p) >= 1
       /\ IsGso(p) => /\ UserDescriptorsNeeded(p) <= DescCount - 3
                      /\ DataDescriptors(p) <= UserDescriptorsNeeded(p)

-----------------------------------------------------------------------------
(* Ring arithmetic: "& descMask" is "% DescCount".                         *)

DescIndex == 0 .. DescCount - 1
PktIndex  == 0 .. PktCount - 1
FragIndex == 0 .. FragCount - 1


DescFwd(i, k) == (i + k) % DescCount
PktFwd(i, k)  == (i + k) % PktCount
FragFwd(i, k) == (i + k) % FragCount

DescDist(a, b) == (b - a) % DescCount      \* steps forward from a to b
PktDist(a, b)  == (b - a) % PktCount
FragDist(a, b) == (b - a) % FragCount

\* EMPTY_DESC_REMAINING: one descriptor always stays empty.
EmptyDescRemaining(i) == (descBegin - 1 - i) % DescCount

\* The packet ring positions between two indexes.
PktsBetween(a, b) == {i \in PktIndex : PktDist(a, i) < PktDist(a, b)}

\* The ring slot of a non-ignored packet at or after i, or pktNext.
SkipIgnorePackets(i) ==
  LET k == Min({d \in 0 .. PktDist(i, pktNext) :
                  d = PktDist(i, pktNext) \/ ~pkts[PktFwd(i, d)].ignore})
  IN  PktFwd(i, k)

\* *pktFragIndex after SkipIgnorePackets(i): changed only if a packet is found.
SkipFragIndex(i, f) ==
  IF SkipIgnorePackets(i) = pktNext THEN f ELSE pktFrag[SkipIgnorePackets(i)]

-----------------------------------------------------------------------------
(* The descriptors of one packet.                                          *)

\* Mutant: the tag is given to the device only once.
ContextTagNeededOnce(p) == VlanTag(p) # 0 /\ lastVlanTag = 0

ContextTagNeeded(p) == VlanTag(p) # 0 /\ VlanTag(p) # lastVlanTag
ContextMssNeeded(p) == IsGso(p) /\ p.mss # lastMss
ContextNeeded(p)    == ContextTagNeeded(p) \/ ContextMssNeeded(p)

Bit(b) == IF b THEN 1 ELSE 0

\* What must be free before the packet is started.
DescriptorsReserved(p) ==
  IF IsGso(p) THEN UserDescriptorsNeeded(p) + Bit(ContextNeeded(p)) + 1
              ELSE Len(p.frags) + Bit(ContextNeeded(p))

\* What is written.
DescriptorsWritten(p) ==
  Bit(ContextNeeded(p)) + Bit(IsGso(p)) + DataDescriptors(p)

Descriptor(type, first, last, mss, tag, pkt) ==
  [own |-> TRUE, type |-> type, first |-> first, last |-> last,
   mss |-> mss, tag |-> tag, pkt |-> pkt]

\* The o-th descriptor (from 0) written for packet p of ring slot i.  A
\* context descriptor's tag is 0 when VlanTagValid is false and its mss is 0
\* when the segment size is not valid; the tag of the others is 1 when they
\* ask for the insertion of the current tag.
DescriptorAt(p, i, o) ==
  LET ctx    == Bit(ContextNeeded(p))
      insert == Bit(VlanTag(p) # 0)
  IN  IF o < ctx
        THEN Descriptor("context", FALSE, FALSE, p.mss,
                        IF ContextTagNeeded(p) THEN VlanTag(p) ELSE 0, i)
      ELSE IF IsGso(p) /\ o = ctx
        THEN Descriptor("tso", TRUE, FALSE, 0, insert, i)
      ELSE Descriptor("data", ~IsGso(p) /\ o = ctx,
                      o = DescriptorsWritten(p) - 1, 0, insert, i)

Empty == [own |-> FALSE, type |-> "data", first |-> FALSE, last |-> FALSE,
          mss |-> 0, tag |-> 0, pkt |-> 0]

-----------------------------------------------------------------------------
(* The life of the queue.                                                  *)

Init ==
  /\ queue = "absent" /\ pc = "idle"
  /\ pktBegin = 0 /\ pktNext = 0 /\ pktEnd = 0
  /\ pkts = [i \in PktIndex |-> CHOOSE p \in Packets : TRUE]
  /\ fragBegin = 0 /\ fragEnd = 0 /\ pktFrag = [i \in PktIndex |-> 0]
  /\ descBegin = 0 /\ descEnd = 0 /\ descs = [i \in DescIndex |-> Empty]
  /\ lastMss = 0 /\ lastVlanTag = 0
  /\ descIndex = 0 /\ pktIndex = 0 /\ pktFragIndex = 0
  /\ hwStart = FALSE /\ hwNext = 0 /\ hwDone = 0 /\ hwTail = 0
  /\ hwMss = 0 /\ hwTag = 0 /\ hwMid = FALSE

\* TxQueueCreate: new rings, a zeroed context and zeroed descriptors.  A queue is
\* created for every power-up (device.cpp: CreateTxQueue after D0Entry, destroyed
\* before D0Exit).
TxQueueCreate ==
  /\ queue = "absent"
  /\ queue' = "created"
  /\ pktBegin' = 0 /\ pktNext' = 0 /\ pktEnd' = 0 /\ fragBegin' = 0 /\ fragEnd' = 0
  /\ descBegin' = 0 /\ descEnd' = 0 /\ descs' = [i \in DescIndex |-> Empty]
  /\ lastMss' = 0 /\ lastVlanTag' = 0
  /\ UNCHANGED <<pc, pkts, pktFrag, locals, hwVars>>

\* TxQueueStart.  The device may have been reset or suspended since the last
\* session, so the segment size and the tag it remembers are arbitrary.
TxQueueStart ==
  /\ queue = "created"
  /\ queue' = "running"
  /\ lastMss' = NoMss /\ lastVlanTag' = 0 /\ descBegin' = 0 /\ descEnd' = 0
  /\ hwStart' = TRUE /\ hwNext' = 0 /\ hwDone' = 0 /\ hwTail' = 0
  /\ hwMss' \in HwSizes /\ hwTag' \in HwTags
  /\ UNCHANGED <<pc, netVars, ringVars, descs, locals, hwMid>>

\* NetAdapterCx puts a packet and its fragments into the rings; both rings keep
\* a hole.
NetAddPacket(p) ==
  /\ queue = "running" /\ pc = "idle"
  /\ PktDist(pktBegin, pktEnd) + 1 < PktCount
  /\ FragDist(fragBegin, fragEnd) + Len(p.frags) < FragCount
  /\ pkts' = [pkts EXCEPT ![pktEnd] = p]
  /\ pktFrag' = [pktFrag EXCEPT ![pktEnd] = fragEnd]
  /\ pktEnd' = PktFwd(pktEnd, 1)
  /\ fragEnd' = FragFwd(fragEnd, Len(p.frags))
  /\ UNCHANGED <<queue, pc, ringVars, descVars, locals, hwVars>>

-----------------------------------------------------------------------------
(* TxQueueAdvance, called by NetAdapterCx or by TxQueueCancel.             *)

EnterAdvance ==
  /\ pc' = "reap"
  /\ descIndex' = descBegin
  /\ pktIndex' = SkipIgnorePackets(pktBegin)
  /\ pktFragIndex' = SkipFragIndex(pktBegin, fragBegin)

AdvanceBegin ==
  /\ queue = "running" /\ pc = "idle"
  /\ EnterAdvance
  /\ UNCHANGED <<queue, netVars, ringVars, descVars, hwVars>>

\* One iteration of the first loop: a descriptor the device gave back.
ReapDescriptor ==
  /\ pc = "reap"
  /\ descIndex # descEnd /\ ~descs[descIndex].own
  /\ descIndex' = DescFwd(descIndex, 1)
  /\ IF descs[descIndex].type # "context" /\ descs[descIndex].last
       THEN LET next == PktFwd(pktIndex, 1)
                frag == FragFwd(pktFrag[pktIndex], Len(pkts[pktIndex].frags))
            IN  /\ pktIndex' = SkipIgnorePackets(next)
                /\ pktFragIndex' = SkipFragIndex(next, frag)
       ELSE UNCHANGED <<pktIndex, pktFragIndex>>
  /\ UNCHANGED <<queue, pc, netVars, ringVars, descVars, hwVars>>


\* Mutant: all fragments go back, not only those of finished packets.
ReapDoneAllFragments ==
  /\ pc = "reap"
  /\ descIndex = descEnd \/ descs[descIndex].own
  /\ pc' = "fill"
  /\ pktBegin' = pktIndex /\ fragBegin' = fragEnd /\ descBegin' = descIndex
  /\ pktIndex' = pktNext /\ descIndex' = descEnd
  /\ UNCHANGED <<queue, pktNext, netVars, descEnd, descs, lastMss, lastVlanTag,
                 pktFragIndex, hwVars>>

\* The end of the first loop: packets and fragments go back to NetAdapterCx.
ReapDone ==
  /\ pc = "reap"
  /\ descIndex = descEnd \/ descs[descIndex].own
  /\ pc' = "fill"
  /\ pktBegin' = pktIndex /\ fragBegin' = pktFragIndex /\ descBegin' = descIndex
  /\ pktIndex' = pktNext /\ descIndex' = descEnd
  /\ UNCHANGED <<queue, pktNext, netVars, descEnd, descs, lastMss, lastVlanTag,
                 pktFragIndex, hwVars>>

MorePackets == EmptyDescRemaining(descIndex) # 0 /\ pktIndex # pktEnd


\* Mutants: the size of the packet is not looked at; one descriptor too many
\* has to be free.
PacketFitsAnyway(p) == EmptyDescRemaining(descIndex) # 0
PacketFitsWithRoom(p) == DescriptorsReserved(p) < EmptyDescRemaining(descIndex)

PacketFits(p) == DescriptorsReserved(p) <= EmptyDescRemaining(descIndex)

\* One iteration of the second loop that writes the descriptors of a packet.
QueuePacket ==
  LET p == pkts[pktIndex] IN
  /\ pc = "fill" /\ MorePackets /\ ~p.ignore /\ PacketFits(p)
  /\ descs' = [d \in DescIndex |->
                 IF DescDist(descIndex, d) < DescriptorsWritten(p)
                   THEN DescriptorAt(p, pktIndex, DescDist(descIndex, d))
                   ELSE descs[d]]
  /\ descIndex' = DescFwd(descIndex, DescriptorsWritten(p))
  /\ lastMss' = IF IsGso(p) THEN p.mss ELSE lastMss
  /\ lastVlanTag' = IF ContextTagNeeded(p) THEN VlanTag(p) ELSE lastVlanTag
  /\ pktIndex' = PktFwd(pktIndex, 1)
  /\ UNCHANGED <<queue, pc, netVars, ringVars, descBegin, descEnd, pktFragIndex, hwVars>>

QueueIgnored ==
  /\ pc = "fill" /\ MorePackets /\ pkts[pktIndex].ignore
  /\ pktIndex' = PktFwd(pktIndex, 1)
  /\ UNCHANGED <<queue, pc, netVars, ringVars, descVars, descIndex, pktFragIndex, hwVars>>


AdvanceCommitTailTooFar ==
  /\ pc = "fill"
  /\ ~MorePackets \/ (~pkts[pktIndex].ignore /\ ~PacketFits(pkts[pktIndex]))
  /\ descEnd' = descIndex
  /\ hwTail' = IF descIndex # descEnd THEN DescFwd(descIndex, 1) ELSE hwTail
  /\ pktNext' = IF descIndex # descEnd THEN pktIndex ELSE pktNext
  /\ pc' = IF queue = "running" THEN "idle" ELSE "discard"
  /\ descIndex' = 0 /\ pktIndex' = 0 /\ pktFragIndex' = 0
  /\ UNCHANGED <<queue, pktBegin, fragBegin, netVars, descBegin, descs, lastMss,
                 lastVlanTag, hwStart, hwNext, hwDone, hwMss, hwTag, hwMid>>

\* The end of the second loop: SetDescEnd and NextIndex, if there is anything
\* new; the locals end with the call.  In TxQueueCancel the rest of it follows.
AdvanceCommit ==
  /\ pc = "fill"
  /\ ~MorePackets \/ (~pkts[pktIndex].ignore /\ ~PacketFits(pkts[pktIndex]))
  /\ descEnd' = descIndex /\ hwTail' = descIndex
  /\ pktNext' = IF descIndex # descEnd THEN pktIndex ELSE pktNext
  /\ pc' = IF queue = "running" THEN "idle" ELSE "discard"
  /\ descIndex' = 0 /\ pktIndex' = 0 /\ pktFragIndex' = 0
  /\ UNCHANGED <<queue, pktBegin, fragBegin, netVars, descBegin, descs, lastMss,
                 lastVlanTag, hwStart, hwNext, hwDone, hwMss, hwTag, hwMid>>

-----------------------------------------------------------------------------
(* TxQueueCancel and TxQueueStop.                                          *)

\* Stop the DMA engine; with an empty ring that is all.
TxQueueCancel ==
  /\ queue = "running" /\ pc = "idle"
  /\ hwStart' = FALSE
  /\ queue' = IF pktBegin = pktEnd THEN "cancelled" ELSE "cancelling"
  /\ pc' = IF pktBegin = pktEnd THEN "idle" ELSE "drain"
  /\ UNCHANGED <<netVars, ringVars, descVars, locals,
                 hwNext, hwDone, hwTail, hwMss, hwTag, hwMid>>


\* Mutant: no wait for the packet in progress.
CancelWithoutWait ==
  /\ pc = "drain"
  /\ EnterAdvance
  /\ UNCHANGED <<queue, netVars, ringVars, descVars, hwVars>>

\* Tx_Debug says that no packet is in progress: report what was sent.
CancelDrained ==
  /\ pc = "drain"
  /\ ~hwMid /\ hwDone = hwNext
  /\ EnterAdvance
  /\ UNCHANGED <<queue, netVars, ringVars, descVars, hwVars>>

\* MaxRetry polls were not enough: flush the queue of the device.
CancelTimeout ==
  /\ pc = "drain"
  /\ pc' = "discard"
  /\ descBegin' = 0 /\ descEnd' = 0
  /\ hwMid' = FALSE /\ hwDone' = hwNext /\ hwTail' = hwNext
  /\ UNCHANGED <<queue, netVars, ringVars, descs, lastMss, lastVlanTag, locals,
                 hwStart, hwNext, hwMss, hwTag>>

\* Discard any packets that are still in the queue.
CancelDiscard ==
  /\ pc = "discard"
  /\ pc' = "idle" /\ queue' = "cancelled"
  /\ pktBegin' = pktEnd /\ fragBegin' = fragEnd
  /\ UNCHANGED <<netVars, pktNext, descVars, locals, hwVars>>

TxQueueStop ==
  /\ queue = "cancelled"
  /\ queue' = "stopped"
  /\ descBegin' = 0 /\ descEnd' = 0
  /\ UNCHANGED <<pc, netVars, ringVars, descs, lastMss, lastVlanTag, locals, hwVars>>

\* The descriptor memory is released with the queue object.
TxQueueCleanup ==
  /\ queue = "stopped"
  /\ queue' = "absent"
  /\ UNCHANGED <<pc, netVars, ringVars, descVars, locals, hwVars>>

-----------------------------------------------------------------------------
(* The DMA engine (external), as the driver relies on it: it reads owned   *)
(* descriptors in ring order up to the tail pointer, finishes a packet it  *)
(* has begun even when stopped, and writes descriptors back in order.      *)

HwFetch ==
  LET d == descs[hwNext] IN
  /\ hwNext # hwTail /\ d.own
  /\ hwStart \/ hwMid
  /\ hwNext' = DescFwd(hwNext, 1)
  /\ hwMss' = IF d.type = "context" /\ d.mss # 0 THEN d.mss ELSE hwMss
  /\ hwTag' = IF d.type = "context" /\ d.tag # 0 THEN d.tag ELSE hwTag
  /\ hwMid' = ((hwMid \/ d.first) /\ ~d.last)
  /\ UNCHANGED <<queue, pc, netVars, ringVars, descVars, locals, hwStart, hwDone, hwTail>>

HwWriteBack ==
  /\ hwDone # hwNext
  /\ descs' = [descs EXCEPT ![hwDone].own = FALSE]
  /\ hwDone' = DescFwd(hwDone, 1)
  /\ UNCHANGED <<queue, pc, netVars, ringVars, descBegin, descEnd, lastMss, lastVlanTag,
                 locals, hwStart, hwNext, hwTail, hwMss, hwTag, hwMid>>

-----------------------------------------------------------------------------
TxQueueAdvance ==
  AdvanceBegin \/ ReapDescriptor \/ ReapDone \/ QueuePacket \/ QueueIgnored \/ AdvanceCommit

Cancelling == CancelDrained \/ CancelTimeout \/ CancelDiscard

Hardware == HwFetch \/ HwWriteBack

Next ==
  \/ TxQueueCreate \/ TxQueueStart \/ TxQueueCancel \/ TxQueueStop \/ TxQueueCleanup
  \/ \E p \in Packets : NetAddPacket(p)
  \/ TxQueueAdvance
  \/ Cancelling
  \/ Hardware

Spec == Init /\ [][Next]_vars

\* NetAdapterCx keeps calling the advance callback, a callback runs to its end,
\* and the device keeps working.
Fairness ==
  /\ WF_vars(TxQueueAdvance) /\ WF_vars(Cancelling)
  /\ WF_vars(HwFetch) /\ WF_vars(HwWriteBack)

FairSpec == Spec /\ Fairness

-----------------------------------------------------------------------------
(* Properties.                                                             *)

DescriptorType == [own : BOOLEAN, type : {"context", "tso", "data"}, first : BOOLEAN,
                   last : BOOLEAN, mss : Nat, tag : Nat, pkt : PktIndex]

TypeOK ==
  /\ queue \in {"absent", "created", "running", "cancelling", "cancelled", "stopped"}
  /\ pc \in {"idle", "reap", "fill", "drain", "discard"}
  /\ pktBegin \in PktIndex /\ pktNext \in PktIndex /\ pktEnd \in PktIndex
  /\ pkts \in [PktIndex -> Packets]
  /\ fragBegin \in FragIndex /\ fragEnd \in FragIndex /\ pktFrag \in [PktIndex -> FragIndex]
  /\ descBegin \in DescIndex /\ descEnd \in DescIndex
  /\ descs \in [DescIndex -> DescriptorType]
  /\ lastMss \in Nat /\ lastVlanTag \in Nat
  /\ descIndex \in DescIndex /\ pktIndex \in PktIndex /\ pktFragIndex \in FragIndex
  /\ hwStart \in BOOLEAN /\ hwMid \in BOOLEAN /\ hwMss \in Nat /\ hwTag \in Nat
  /\ hwNext \in DescIndex /\ hwDone \in DescIndex /\ hwTail \in DescIndex

\* The descriptors between two indexes, and those the device may still use: a
\* stopped device finishes what it has begun.
DescsBetween(a, b) == {d \in DescIndex : DescDist(a, d) < DescDist(a, b)}
DeviceOwned == DescsBetween(hwDone, IF hwStart \/ hwMid THEN hwTail ELSE hwNext)

\* NT_ASSERT(pktIndex != NextIndex) and NT_ASSERT(PacketIndex == pktIndex) of
\* TxQueueAdvance: the descriptors it finds completed belong, in order, to the
\* packets it returns, whatever packets were ignored in between.
DescriptorsFollowPackets ==
  pc = "reap" /\ descIndex # descEnd =>
    /\ pktIndex # pktNext
    /\ ~descs[descIndex].own => descs[descIndex].pkt = pktIndex

\* While the queue is in use the device finds every descriptor up to the tail
\* pointer complete and owned by it, although the driver fills and reaps the
\* same ring meanwhile.
DeviceFindsOwnDescriptors ==
  queue \in {"running", "cancelling"} => \A d \in DeviceOwned : descs[d].own

\* The invariant behind it, in positions counted from descBegin: what the device
\* has written back, what it has fetched, what it may fetch and what the driver
\* is filling follow one another around the ring.
RingActive == queue = "running" \/ (queue = "cancelling" /\ pc # "discard")

OwnedUpTo(end) ==
  \A d \in DescIndex :
    /\ DescDist(descBegin, hwDone) <= DescDist(descBegin, d)
    /\ DescDist(descBegin, d) < DescDist(descBegin, end)
    => descs[d].own

RingOrder ==
  /\ queue = "running" => pc \in {"idle", "reap", "fill"}
  /\ queue = "cancelling" => pc # "idle"
  /\ queue \notin {"running", "cancelling"} => pc = "idle"
  /\ RingActive =>
       /\ hwTail = descEnd
       /\ DescDist(descBegin, hwDone) <= DescDist(descBegin, hwNext)
       /\ DescDist(descBegin, hwNext) <= DescDist(descBegin, descEnd)
       /\ OwnedUpTo(descEnd)
  /\ pc = "reap" => DescDist(descBegin, descIndex) <= DescDist(descBegin, hwDone)
  /\ pc = "fill" => /\ DescDist(descBegin, descEnd) <= DescDist(descBegin, descIndex)
                    /\ OwnedUpTo(descIndex)
  /\ queue = "cancelling" => ~hwStart /\ (pc # "drain" => ~hwMid /\ hwDone = hwNext)

\* No step of the driver changes a descriptor the device may still use; only the
\* device's write-back does (and TxQueueCreate, which has new memory).
LeavesDeviceDescriptors ==
  \A d \in DeviceOwned : descs'[d] # descs[d] => HwWriteBack \/ TxQueueCreate

DriverLeavesDeviceDescriptors == [][LeavesDeviceDescriptors]_vars

\* Every packet goes out with the segment size and the tag it asked for: the
\* context descriptors left out because lastMss and lastVlanTag say that the
\* device knows the value are really superfluous, also after a power-up.
TransmitsAsAsked ==
  LET d == descs[hwNext]
      p == pkts[d.pkt]
  IN  hwNext # hwTail /\ hwStart /\ d.first =>
        /\ d.type = "tso" <=> IsGso(p)
        /\ IsGso(p) => hwMss = p.mss
        /\ VlanTag(p) = (IF d.tag = 0 THEN 0 ELSE hwTag)

\* While the device may read a packet, the packet and its fragments stay with
\* the driver: NetAdapterCx cannot reuse their memory.
FragsOf(i) == {FragFwd(pktFrag[i], k) : k \in 0 .. Len(pkts[i].frags) - 1}
FragsBetween(a, b) == {f \in FragIndex : FragDist(a, f) < FragDist(a, b)}

NoReturnWhileInUse ==
  \A d \in DeviceOwned :
    /\ descs[d].pkt \in PktsBetween(pktBegin, pktEnd)
    /\ ~pkts[descs[d].pkt].ignore
    /\ FragsOf(descs[d].pkt) \subseteq FragsBetween(fragBegin, fragEnd)

\* A packet that needs all descriptors of the ring but the hole is sent like any
\* other: every packet that is not to be ignored goes back to NetAdapterCx.
EveryPacketReturned ==
  \A i \in PktIndex :
    (i \in PktsBetween(pktBegin, pktEnd) /\ ~pkts[i].ignore)
      ~> i \notin PktsBetween(pktBegin, pktEnd)

\* NT_ASSERT(context->descBegin == context->descEnd) of TxQueueCancel.
CancelLeavesNoDescriptors == pc = "discard" => descBegin = descEnd

=============================================================================

---------------------------- MODULE EqosRxQueue ----------------------------
(***************************************************************************)
(* The receive queue of the dwc_eqos Ethernet driver                       *)
(* (drivers/net/dwc_eqos/rxqueue.cpp).                                     *)
(*                                                                         *)
(* NetAdapterCx (external) posts fragments, the buffers, and packets, the  *)
(* records that will describe what was received.  The driver hands every   *)
(* fragment to the DMA engine in a descriptor; the engine (external)       *)
(* writes a frame and gives the descriptor back; the driver then fills in  *)
(* a packet and returns it, with its one fragment.                         *)
(*                                                                         *)
(*   fragments    [fragBegin] old [fragNext] new [fragEnd] NetAdapterCx    *)
(*   descriptors  [descBegin] RECEIVED [descNext] RECEIVING [descEnd] EMPTY*)
(*                                                                         *)
(* RxQueueAdvance takes one step per loop iteration; the device            *)
(* interleaves, NetAdapterCx calls one callback at a time.                 *)
(***************************************************************************)
EXTENDS Integers, FiniteSets

CONSTANTS
  DescCount,          \* descriptors in the ring, a power of 2
  PktCount,           \* elements of the packet ring
  FragCount           \* elements of the fragment ring

ASSUME RxSizesAssumption ==
  /\ DescCount \in Nat /\ DescCount > 1
  /\ PktCount \in Nat /\ PktCount > 1
  /\ FragCount \in Nat /\ FragCount > 1

VARIABLES
  queue,              \* lifecycle of the NETPACKETQUEUE
  pc,                 \* where RxQueueAdvance is, "idle" if not running
  running,
  pktBegin, pktEnd, pkts,
  fragBegin, fragNext, fragEnd,
  descBegin, descEnd, descs,
  descIndex, descNext, pktIndex, fragIndex,   \* locals of RxQueueAdvance
  hwStart, hwNext, hwDone, hwTail, hwStalled,
  wrote               \* what the device has put into each fragment since posted

netVars  == <<pktEnd, fragEnd>>
ringVars == <<pktBegin, pkts, fragBegin, fragNext>>
descVars == <<running, descBegin, descEnd, descs>>
locals   == <<descIndex, descNext, pktIndex, fragIndex>>
hwVars   == <<hwStart, hwNext, hwDone, hwTail, hwStalled, wrote>>
vars     == <<queue, pc, netVars, ringVars, descVars, locals, hwVars>>

-----------------------------------------------------------------------------
(* Ring arithmetic: "& descMask" is "% DescCount".                         *)

DescIndex == 0 .. DescCount - 1
PktIndex  == 0 .. PktCount - 1
FragIndex == 0 .. FragCount - 1

DescFwd(i) == (i + 1) % DescCount
PktFwd(i)  == (i + 1) % PktCount
FragFwd(i) == (i + 1) % FragCount

DescDist(a, b) == (b - a) % DescCount      \* steps forward from a to b
PktDist(a, b)  == (b - a) % PktCount
FragDist(a, b) == (b - a) % FragCount

DescFull == (descBegin - 1) % DescCount

-----------------------------------------------------------------------------
(* The life of the queue.                                                  *)

Empty == [own |-> FALSE, frag |-> 0, good |-> FALSE]

Init ==
  /\ queue = "absent" /\ pc = "idle" /\ running = FALSE
  /\ pktBegin = 0 /\ pktEnd = 0 /\ pkts = [i \in PktIndex |-> [frag |-> 0, ignore |-> FALSE]]
  /\ fragBegin = 0 /\ fragNext = 0 /\ fragEnd = 0
  /\ descBegin = 0 /\ descEnd = 0 /\ descs = [i \in DescIndex |-> Empty]
  /\ descIndex = 0 /\ descNext = 0 /\ pktIndex = 0 /\ fragIndex = 0
  /\ hwStart = FALSE /\ hwNext = 0 /\ hwDone = 0 /\ hwTail = 0 /\ hwStalled = FALSE
  /\ wrote = [f \in FragIndex |-> "none"]

\* RxQueueCreate: new rings, zeroed context and descriptors.
RxQueueCreate ==
  /\ queue = "absent"
  /\ queue' = "created"
  /\ pktBegin' = 0 /\ pktEnd' = 0 /\ fragBegin' = 0 /\ fragNext' = 0 /\ fragEnd' = 0
  /\ running' = FALSE /\ descBegin' = 0 /\ descEnd' = 0
  /\ descs' = [i \in DescIndex |-> Empty]
  /\ pkts' = [i \in PktIndex |-> [frag |-> 0, ignore |-> FALSE]]
  /\ wrote' = [f \in FragIndex |-> "none"]
  /\ UNCHANGED <<pc, locals, hwStart, hwNext, hwDone, hwTail, hwStalled>>

RxQueueStart ==
  /\ queue = "created"
  /\ queue' = "running"
  /\ running' = TRUE /\ descBegin' = 0 /\ descEnd' = 0
  /\ hwStart' = TRUE /\ hwNext' = 0 /\ hwDone' = 0 /\ hwTail' = 0 /\ hwStalled' = FALSE
  /\ UNCHANGED <<pc, netVars, ringVars, descs, locals, wrote>>

\* NetAdapterCx posts a clean packet; the ring keeps a hole.
NetPostPacket ==
  /\ queue = "running" /\ pc = "idle"
  /\ PktFwd(pktEnd) # pktBegin
  /\ pkts' = [pkts EXCEPT ![pktEnd] = [frag |-> 0, ignore |-> FALSE]]
  /\ pktEnd' = PktFwd(pktEnd)
  /\ UNCHANGED <<queue, pc, pktBegin, fragBegin, fragNext, fragEnd, descVars, locals, hwVars>>

\* NetAdapterCx posts a fragment.
NetPostFragment ==
  /\ queue = "running" /\ pc = "idle"
  /\ FragFwd(fragEnd) # fragBegin
  /\ wrote' = [wrote EXCEPT ![fragEnd] = "none"]
  /\ fragEnd' = FragFwd(fragEnd)
  /\ UNCHANGED <<queue, pc, pktEnd, ringVars, descVars, locals,
                 hwStart, hwNext, hwDone, hwTail, hwStalled>>

-----------------------------------------------------------------------------
(* RxQueueAdvance.                                                         *)

\* The position of the device is read once.
AdvanceBegin ==
  /\ queue \in {"running", "cancelled"} /\ pc = "idle"
  /\ pc' = "reap"
  /\ descIndex' = descBegin /\ descNext' = hwNext
  /\ pktIndex' = pktBegin /\ fragIndex' = fragBegin
  /\ UNCHANGED <<queue, netVars, ringVars, descVars, hwVars>>

MoreReceived ==
  /\ descIndex # descNext /\ pktIndex # pktEnd /\ fragIndex # fragEnd
  /\ ~descs[descIndex].own

\* Mutant: errors are not looked at.
ReapDescriptorTrusting ==
  /\ pc = "reap" /\ MoreReceived
  /\ pkts' = [pkts EXCEPT ![pktIndex].frag = fragIndex]
  /\ pktIndex' = PktFwd(pktIndex) /\ fragIndex' = FragFwd(fragIndex)
  /\ descIndex' = DescFwd(descIndex)
  /\ UNCHANGED <<queue, pc, netVars, pktBegin, fragBegin, fragNext, descVars, descNext, hwVars>>

\* One iteration of the first loop.  An error, or a frame in several
\* descriptors, gives a packet to be ignored.
ReapDescriptor ==
  /\ pc = "reap" /\ MoreReceived
  /\ pkts' = [pkts EXCEPT ![pktIndex] =
                [frag |-> fragIndex, ignore |-> @.ignore \/ ~descs[descIndex].good]]
  /\ pktIndex' = PktFwd(pktIndex) /\ fragIndex' = FragFwd(fragIndex)
  /\ descIndex' = DescFwd(descIndex)
  /\ UNCHANGED <<queue, pc, netVars, pktBegin, fragBegin, fragNext, descVars, descNext, hwVars>>

\* After the loop, while running: return what was received, go on to refill.
ReapDone ==
  /\ pc = "reap" /\ ~MoreReceived /\ running
  /\ pc' = "fill"
  /\ descBegin' = descIndex /\ pktBegin' = pktIndex /\ fragBegin' = fragIndex
  /\ fragIndex' = fragNext /\ descIndex' = descEnd
  /\ UNCHANGED <<queue, netVars, pkts, fragNext, running, descEnd, descs,
                 descNext, pktIndex, hwVars>>

\* Mutant: everything goes back at once.
ReapCancelledAtOnce ==
  /\ pc = "reap" /\ ~MoreReceived /\ ~running
  /\ pc' = "idle"
  /\ descBegin' = descIndex /\ pktBegin' = pktEnd /\ fragBegin' = fragEnd
  /\ descIndex' = 0 /\ descNext' = 0 /\ pktIndex' = 0 /\ fragIndex' = 0
  /\ UNCHANGED <<queue, netVars, pkts, fragNext, running, descEnd, descs, hwVars>>

\* After the loop, when cancelled: everything goes back once the device has no
\* descriptor left that it has taken.
ReapCancelled ==
  /\ pc = "reap" /\ ~MoreReceived /\ ~running
  /\ pc' = "idle"
  /\ descBegin' = descIndex
  /\ IF descIndex = descNext
       THEN /\ pktBegin' = pktEnd /\ fragBegin' = fragEnd
            /\ pkts' = [i \in PktIndex |->
                          IF PktDist(pktIndex, i) < PktDist(pktIndex, pktEnd)
                            THEN [pkts[i] EXCEPT !.ignore = TRUE] ELSE pkts[i]]
       ELSE pktBegin' = pktIndex /\ fragBegin' = fragIndex /\ UNCHANGED pkts
  /\ descIndex' = 0 /\ descNext' = 0 /\ pktIndex' = 0 /\ fragIndex' = 0
  /\ UNCHANGED <<queue, netVars, fragNext, running, descEnd, descs, hwVars>>

\* One iteration of the second loop.
FillDescriptor ==
  /\ pc = "fill" /\ descIndex # DescFull /\ fragIndex # fragEnd
  /\ descs' = [descs EXCEPT ![descIndex] = [own |-> TRUE, frag |-> fragIndex, good |-> FALSE]]
  /\ descIndex' = DescFwd(descIndex) /\ fragIndex' = FragFwd(fragIndex)
  /\ UNCHANGED <<queue, pc, netVars, ringVars, running, descBegin, descEnd,
                 descNext, pktIndex, hwVars>>

\* Mutant: the tail pointer is written only when something is new.
TailWriteNeededIfNew == descIndex # descEnd

TailWriteNeeded == descIndex # descNext

\* The end: SetDescEnd, which also restarts a stalled device.
AdvanceCommit ==
  /\ pc = "fill" /\ (descIndex = DescFull \/ fragIndex = fragEnd)
  /\ pc' = "idle"
  /\ IF TailWriteNeeded
       THEN descEnd' = descIndex /\ hwTail' = descIndex /\ fragNext' = fragIndex /\ hwStalled' = FALSE
       ELSE UNCHANGED <<descEnd, hwTail, fragNext, hwStalled>>
  /\ descIndex' = 0 /\ descNext' = 0 /\ pktIndex' = 0 /\ fragIndex' = 0
  /\ UNCHANGED <<queue, netVars, pktBegin, pkts, fragBegin, running, descBegin, descs,
                 hwStart, hwNext, hwDone, wrote>>

-----------------------------------------------------------------------------
RxQueueCancel ==
  /\ queue = "running" /\ pc = "idle"
  /\ queue' = "cancelled" /\ running' = FALSE /\ hwStart' = FALSE
  /\ UNCHANGED <<pc, netVars, ringVars, descBegin, descEnd, descs, locals,
                 hwNext, hwDone, hwTail, hwStalled, wrote>>

\* NetAdapterCx stops a cancelled queue when it has everything back.
RxQueueStop ==
  /\ queue = "cancelled" /\ pc = "idle" /\ pktBegin = pktEnd /\ fragBegin = fragEnd
  /\ queue' = "stopped"
  /\ UNCHANGED <<pc, netVars, ringVars, descVars, locals, hwVars>>

RxQueueCleanup ==
  /\ queue = "stopped"
  /\ queue' = "absent"
  /\ UNCHANGED <<pc, netVars, ringVars, descVars, locals, hwVars>>

-----------------------------------------------------------------------------
(* The DMA engine (external).  Current_App_RxDesc moves when the engine    *)
(* takes a descriptor; its Own bit is cleared later, when the frame is in  *)
(* memory.  A stopped engine takes no more.                                *)

HwTake ==
  /\ hwStart /\ ~hwStalled /\ hwNext # hwTail /\ descs[hwNext].own
  /\ hwNext' = DescFwd(hwNext)
  /\ UNCHANGED <<queue, pc, netVars, ringVars, descVars, locals,
                 hwStart, hwDone, hwTail, hwStalled, wrote>>

HwWriteBack ==
  /\ hwDone # hwNext
  /\ \E good \in BOOLEAN :
       /\ descs' = [descs EXCEPT ![hwDone].own = FALSE, ![hwDone].good = good]
       /\ wrote' = [wrote EXCEPT ![descs[hwDone].frag] = IF good THEN "good" ELSE "bad"]
  /\ hwDone' = DescFwd(hwDone)
  /\ UNCHANGED <<queue, pc, netVars, ringVars, running, descBegin, descEnd, locals,
                 hwStart, hwNext, hwTail, hwStalled>>

\* "In some error cases, the device may stall until we write to the tail
\* pointer again."
HwStall ==
  /\ hwStart /\ ~hwStalled
  /\ hwStalled' = TRUE
  /\ UNCHANGED <<queue, pc, netVars, ringVars, descVars, locals,
                 hwStart, hwNext, hwDone, hwTail, wrote>>

-----------------------------------------------------------------------------
RxQueueAdvance ==
  \/ AdvanceBegin \/ ReapDescriptor \/ ReapDone \/ ReapCancelled
  \/ FillDescriptor \/ AdvanceCommit

Next ==
  \/ RxQueueCreate \/ RxQueueStart \/ RxQueueCancel \/ RxQueueStop \/ RxQueueCleanup
  \/ NetPostPacket \/ NetPostFragment
  \/ RxQueueAdvance
  \/ HwTake \/ HwWriteBack \/ HwStall

Spec == Init /\ [][Next]_vars

\* NetAdapterCx keeps calling the advance callback (while running, and when
\* cancelled until it has everything back), a callback runs to its end, and the
\* device finishes the frame it is writing.  New frames need not come.
Fairness == WF_vars(RxQueueAdvance) /\ WF_vars(HwWriteBack)

FairSpec == Spec /\ Fairness

-----------------------------------------------------------------------------
(* Properties.                                                             *)

DescsBetween(a, b) == {d \in DescIndex : DescDist(a, d) < DescDist(a, b)}
FragsBetween(a, b) == {f \in FragIndex : FragDist(a, f) < FragDist(a, b)}

\* The descriptors the device may still write through.
DeviceOwned == DescsBetween(hwDone, IF hwStart THEN hwTail ELSE hwNext)

\* The device has no buffer that NetAdapterCx may reuse, and no buffer twice.
NoBufferReturnedWhileInUse ==
  /\ \A d \in DeviceOwned :
       descs[d].own /\ descs[d].frag \in FragsBetween(fragBegin, fragEnd)
  /\ Cardinality({descs[d].frag : d \in DeviceOwned}) = Cardinality(DeviceOwned)

\* A packet that goes back to NetAdapterCx and is not to be ignored describes a
\* fragment that holds a good frame.
GoodFrames ==
  \A i \in PktIndex :
    /\ PktDist(pktBegin, i) < PktDist(pktBegin, pktBegin')
    /\ queue = queue'
    => pkts'[i].ignore \/ wrote[pkts'[i].frag] = "good"
OnlyGoodFrames == [][GoodFrames]_vars

\* A stalled device that has descriptors is restarted by the next call, although
\* there may be nothing new to hand over.
StallEnds ==
  (hwStalled /\ hwNext # hwTail /\ running) ~> (~hwStalled \/ ~running)

\* After RxQueueCancel every packet goes back, and every fragment does too, unless the
\* packets ran out before the frames that had been received did: then no descriptor is
\* looked at any more, descIndex stays behind descNext, and the rest of the fragments stays
\* with the queue.
LeftBehind == pktBegin = pktEnd /\ descBegin # hwNext
CancelReturnsAll ==
  (queue = "cancelled") ~> (pktBegin = pktEnd /\ (fragBegin = fragEnd \/ LeftBehind))

=============================================================================

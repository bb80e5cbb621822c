----------------------------- MODULE MCEqosRings -----------------------------
(* Small rings for TLC, one queue at a time: the receive queue, and the     *)
(* transmit queue with packets that need almost the whole ring.  Variables  *)
(* the queues name alike are shared.                                        *)
EXTENDS EqosRxQueue

CONSTANTS TxDescCount, TxPktCount, LengthMax, HeaderLength, VlanId, HwTags, HwSizes, Packets

VARIABLES
  part,  \* "rx" or "tx"
  pktNext, pktFrag, lastMss, lastVlanTag, pktFragIndex, hwMss, hwTag, hwMid

T == INSTANCE EqosTxQueue WITH DescCount <- TxDescCount, PktCount <- TxPktCount

rxOnly == <<running, fragNext, descNext, fragIndex, hwStalled, wrote>>
txOnly == <<pktNext, pktFrag, lastMss, lastVlanTag, pktFragIndex, hwMss, hwTag, hwMid>>

MCInit ==
  \/ /\ part = "rx" /\ Init
     /\ pktNext = 0 /\ pktFrag = <<>> /\ lastMss = 0 /\ lastVlanTag = 0 /\ pktFragIndex = 0
     /\ hwMss = 0 /\ hwTag = 0 /\ hwMid = FALSE
  \/ /\ part = "tx" /\ T!Init
     /\ running = FALSE /\ fragNext = 0 /\ descNext = 0 /\ fragIndex = 0 /\ hwStalled = FALSE
     /\ wrote = <<>>

Rx(A) == part = "rx" /\ A /\ UNCHANGED txOnly
Tx(A) == part = "tx" /\ A /\ UNCHANGED rxOnly

MCNext ==
  /\ UNCHANGED part
  /\ \/ part = "rx" /\ Next /\ UNCHANGED txOnly
     \/ part = "tx" /\ T!Next /\ UNCHANGED rxOnly

\* The fairness of the queue that is there: the advance callback and the device go on.
allVars == <<vars, txOnly>>
MCFairness ==
  /\ WF_allVars(Rx(RxQueueAdvance) \/ Tx(T!TxQueueAdvance))
  /\ WF_allVars(Rx(HwWriteBack) \/ Tx(T!HwWriteBack))
  /\ WF_allVars(Tx(T!Cancelling)) /\ WF_allVars(Tx(T!HwFetch))

MCSpec == MCInit /\ [][MCNext]_<<part, allVars>> /\ MCFairness

\* With eight descriptors, a packet that takes all but the hole: three for its first
\* fragment, two for its second, one for the headers and, when the segment size is
\* new, one for the context; and one to be ignored.
Pkt(ignore, frags, mss) ==
  [ignore |-> ignore, frags |-> frags, mss |-> mss, vlanRequired |-> FALSE, vlan |-> 0]
RingPackets == {Pkt(TRUE, <<3>>, 0), Pkt(FALSE, <<12, 8>>, 7)}

-----------------------------------------------------------------------------
(* Those of EqosRxQueue, and of EqosTxQueue, while the queue is there.     *)

\* RxQueueAdvance returns no buffer the device may still write to, nor gives it one twice.
RxKeepsBuffersInUse == part = "rx" => NoBufferReturnedWhileInUse

\* A packet that RxQueueAdvance returns and does not set Ignore of holds a good frame.
RxOnlyGoodFrames == [][part = "rx" => GoodFrames]_vars

\* A stalled device is restarted by the next call of RxQueueAdvance.  After RxQueueCancel
\* every packet goes back, and every fragment, unless the packets ran out first.
RxGoesOn ==
  /\ (part = "rx" /\ hwStalled /\ hwNext # hwTail /\ running) ~> (~hwStalled \/ ~running)
  /\ (part = "rx" /\ queue = "cancelled") ~>
       (pktBegin = pktEnd /\ (fragBegin = fragEnd \/ LeftBehind))

\* TxQueueAdvance sends every packet there can be, however little room the ring has, and
\* returns it: as long as a packet is waiting, packets go back again and again, and they go
\* back in order.
PacketWaits == part = "tx" /\ \E i \in T!PktsBetween(pktBegin, pktEnd) : ~pkts[i].ignore
EveryPacketReturned == []<>~PacketWaits \/ []<><<pktBegin' # pktBegin>>_pktBegin
=============================================================================

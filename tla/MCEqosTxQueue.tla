--------------------------- MODULE MCEqosTxQueue ---------------------------
(* Small instances of EqosTxQueue for TLC.                                 *)
EXTENDS EqosTxQueue

\* A packet: an ignored one needs no more than its place in the ring.
Pkt(ignore, frags, mss, vlan) ==
  [ignore |-> ignore, frags |-> frags, mss |-> mss, vlanRequired |-> vlan # 0, vlan |-> vlan]

\* One-fragment packets that differ in segment size, tag and Ignore.
ContextPackets ==
  {Pkt(FALSE, <<3>>, 7, 0), Pkt(FALSE, <<3>>, 9, 5), Pkt(FALSE, <<3>>, 0, 6),
   Pkt(TRUE, <<3>>, 0, 0)}
=============================================================================

------------------------------ MODULE MCSdHosts ------------------------------
(* The smallest instances of the SD hosts for TLC: one programmed read of  *)
(* either.                                                                 *)
EXTENDS SdHosts

OneRead == {[method |-> "Pio", write |-> FALSE, r1b |-> FALSE, blocks |-> 1]}
OneMshcRead == {[method |-> "Pio", write |-> FALSE, r1b |-> FALSE, chunks |-> 1]}
=============================================================================

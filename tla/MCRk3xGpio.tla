---------------------------- MODULE MCRk3xGpio ----------------------------
(* Small instances of Rk3xGpio for TLC, with the stray edges.              *)
EXTENDS Rk3xGpio

VARIABLE stray           \* latched edges that nobody asked for

Config(e, h, b) == [as |-> "irq", edge |-> e, high |-> h, both |-> b]

\* A level and an emulated pair of edges on one line, single edges on the other.
MCConfigs ==
  [p \in Pins |-> IF p = "lower" THEN {Config(FALSE, TRUE, FALSE), Config(TRUE, TRUE, TRUE)}
                                 ELSE {Config(TRUE, TRUE, FALSE)}]

\* One line with single edges.
OneConfig == [p \in Pins |-> {Config(TRUE, TRUE, FALSE)}]

MCInit == Init /\ stray = {}
MCNext ==
  /\ Next
  /\ stray' = {p \in latched' : p \in stray \/ (p \notin latched /\ Stray(p, p \in line'))}
MCSpec == MCInit /\ [][MCNext]_<<vars, stray>>

-----------------------------------------------------------------------------
\* No interrupt is taken for an edge of the wrong polarity, which the controller detects
\* while the bank is being restored: "Take care to restore the mask register only after
\* restoring the mode and polarity registers. Otherwise, ... (and could cause a spurious
\* interrupt)" (rk3xgpio.c:2466-2470).
NoStrayInterrupt == power = "on" /\ lock = "free" => IntStatus \cap stray = {}
=============================================================================

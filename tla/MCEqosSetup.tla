----------------------------- MODULE MCEqosSetup -----------------------------
(* Small instances of the Ethernet driver's setup for TLC. *)
EXTENDS EqosSetup, MCEqosInputs
=============================================================================

----------------------------- MODULE MCLowSpeed -----------------------------
(* Small instances for TLC of the low-speed peripherals, one at a time: the *)
(* I2C controller, the codec driver and a bank of GPIO lines.  What is not *)
(* there keeps its initial state.                                          *)
EXTENDS I2cDevices

CONSTANTS Pins, UpperPins, Configs

VARIABLES
  bankPower, type, reg, latched, line, bankSaved, lock, call, use, driven, masked, pending

G == INSTANCE Rk3xGpio WITH power <- bankPower, saved <- bankSaved, Overlap <- FALSE
ASSUME BankAssumption == G!GpioAssumption

-----------------------------------------------------------------------------
(* Requests of one and two transfers, shorter and longer than the buffer.  *)

R(n) == [read |-> TRUE, len |-> n]
W(n) == [read |-> FALSE, len |-> n]
MCRequests ==
  {[speed |-> 100, transfers |-> <<W(1), R(4)>>], [speed |-> 400, transfers |-> <<W(3)>>],
   [speed |-> 1000, transfers |-> <<W(0), R(2)>>]}
MCBaseClocks == {24000, 200000}
MCGarbage == {{}, 0 .. 7}

Config(e, h, b) == [as |-> "irq", edge |-> e, high |-> h, both |-> b]

\* A level and an emulated pair of edges on one line, single edges on the other.
MCConfigs ==
  [p \in Pins |-> IF p = "lower" THEN {Config(FALSE, TRUE, FALSE), Config(TRUE, TRUE, TRUE)}
                                 ELSE {Config(TRUE, TRUE, FALSE)}]

-----------------------------------------------------------------------------
gpioVars ==
  <<bankPower, type, reg, latched, line, bankSaved, lock, call, use, driven, masked, pending>>
NoBank ==
  /\ bankPower = 0 /\ type = 0 /\ reg = 0 /\ latched = 0 /\ line = 0 /\ bankSaved = 0 /\ lock = 0
  /\ call = 0 /\ use = 0 /\ driven = 0 /\ masked = 0 /\ pending = 0

\* The I2C controller and the codec driver when there is only the bank.
I2cAtRest == Init /\ CodecAtRest /\ \A b \in BaseClocks : baseClock <= b

MCInit ==
  \/ I2cInit /\ NoBank
  \/ part = "rk3xgpio" /\ I2cAtRest /\ G!Init
MCNext ==
  \/ I2cNext /\ UNCHANGED gpioVars
  \/ part = "rk3xgpio" /\ G!Next /\ UNCHANGED i2cVars
MCSpec == MCInit /\ [][MCNext]_<<i2cVars, gpioVars>>

-----------------------------------------------------------------------------
(* Those of Rk3xGpio, while there is the bank.                             *)

\* Every line that no callback works on is set up as GpioClx asked, after power changes
\* (SaveBankHardwareContext, RestoreBankHardwareContext) and next to changes of other lines.
ConfiguredAsAsked == part = "rk3xgpio" => G!ConfiguredAsAsked

\* No pin drives a level that was not asked for, in the middle of a restore either.
NoGlitch == part = "rk3xgpio" => G!NoGlitch

\* An edge stays latched until it is served (ClearActiveInterrupts clears no other), and
\* no interrupt is taken for an edge that came before the line was asked for.  (An edge may be
\* one that a restore lets in by writing the type before the polarity.)
EdgesServedOnce == part = "rk3xgpio" => G!NoEdgeLost /\ G!NoSpuriousInterrupt

\* Every boot whose transfers succeed leaves the same registers in the codec.  No transfer uses
\* an object of SPB_CONTEXT that is gone and no release leaves one behind, whichever
\* preparations have failed; as long as none has, none is deleted twice.
CodecComesBack == BootIsReproducible /\ ObjectsInTime
=============================================================================

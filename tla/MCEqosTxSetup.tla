---------------------------- MODULE MCEqosTxSetup ----------------------------
(* Small instances for TLC of the transmit queue and of the setup of the   *)
(* Ethernet driver, one at a time; the other one keeps its initial state.  *)
EXTENDS MCEqosTxQueue, MCEqosInputs

CONSTANTS
  MacAddrCount, Groups, Filters, Jumbos, FifoSizes, Resets, Devices, Sets, Methods, Keys

VARIABLES
  \* "tx", or "none" when the setup is there; the part of EqosSetup
  which, part,
  step, regs, interrupt, config, permanent, current, hasAddress, firmware, mac, filter, mode,
  told, asked, learned, spoiled,
  driver, registered, made, lock, g_devices, device, callback, index, count, visited,
  acpiPc, caller, retries, size, in, out, status, returned, content, method, given, read, live, twice

S == INSTANCE EqosSetup WITH pc <- acpiPc
ASSUME SetupAssumption == S!AdapterAssumption /\ S!C!CountersAssumption /\ S!A!AcpiAssumption

setup1 == <<part, step, regs, interrupt, config, permanent, current, hasAddress, firmware, mac,
            filter, mode, told, asked, learned, spoiled>>
setup2 == <<driver, registered, made, lock, g_devices, device, callback, index, count, visited>>
setup3 == <<acpiPc, caller, retries, size, in, out, status, returned, content, method, given,
            read, live, twice>>

MCInit ==
  /\ Init
  /\ \/ which = "tx" /\ part = "none" /\ S!AdapterAtRest /\ S!C!Init /\ S!AcpiAtRest
     \/ which = "none" /\ S!SetupInit

MCNext ==
  /\ UNCHANGED which
  /\ \/ which = "tx" /\ Next /\ UNCHANGED <<setup1, setup2, setup3>>
     \/ which = "none" /\ S!SetupNext /\ UNCHANGED vars

MCSpec == MCInit /\ [][MCNext]_<<which, vars, setup1, setup2, setup3>>

-----------------------------------------------------------------------------
(* Those of EqosSetup.                                                     *)

\* DeviceReleaseHardware leaves the address that the firmware has set, unless a prepare
\* failed before it was read.
AddressKept == S!AddressKept

\* What DeviceSetReceiveFilter has written lets in what was asked for, and the limits of
\* DeviceD0Entry let the largest frames pass whole.
ReceivesAsAskedAndWhole == S!ReceivesAsAskedAndWhole

\* PerfCallback finds the list, its lock and the contexts of its devices.
CallbackFindsDevices == S!CallbackFindsDevices

\* AcpiEvaluateMethod and its callers free each buffer once and read what the table says.
MethodsReadAndFreed == S!MethodsReadAndFreed
=============================================================================

------------------------------ MODULE EqosSetup ------------------------------
(***************************************************************************)
(* What surrounds the queues of the Ethernet driver: the setup of its      *)
(* adapter, its performance counters, or how it (and the SD host driver)   *)
(* reads its properties from ACPI.  The parts share no state, and the      *)
(* variables of those that are not there keep still.                       *)
(***************************************************************************)
EXTENDS EqosAdapter

CONSTANTS Devices, Sets, Methods, Keys

VARIABLES
  part,  \* "adapter", "counters" or "acpi"
  driver, registered, made, lock, g_devices, device, callback, index, count, visited,
  pc, caller, retries, size, in, out, status, returned, content, method, given, read, live, twice

C == INSTANCE EqosCounters
A == INSTANCE AcpiEvaluate

countersVars == <<driver, registered, made, lock, g_devices, device, callback, index, count, visited>>
acpiVars == <<pc, caller, retries, size, in, out, status, returned, content, method, given, read, live, twice>>
setupVars == <<part, vars, countersVars, acpiVars>>

\* Each part as long as nothing has begun.
AdapterAtRest == Init /\ firmware = "own"
AcpiAtRest    == A!Init /\ method = CHOOSE m \in Methods : TRUE

SetupInit ==
  \/ part = "adapter"  /\ Init /\ C!Init /\ AcpiAtRest
  \/ part = "counters" /\ AdapterAtRest /\ C!Init /\ AcpiAtRest
  \/ part = "acpi"     /\ AdapterAtRest /\ C!Init /\ A!Init

SetupNext ==
  /\ UNCHANGED part
  /\ \/ part = "adapter"  /\ Next /\ UNCHANGED <<countersVars, acpiVars>>
     \/ part = "counters" /\ C!Next /\ UNCHANGED <<vars, acpiVars>>
     \/ part = "acpi"     /\ A!Next /\ UNCHANGED <<vars, countersVars>>

SetupSpec == SetupInit /\ [][SetupNext]_setupVars

-----------------------------------------------------------------------------
\* A counter callback that holds a device holds one whose context exists, and the list and
\* its lock are there while a callback uses them, as devices and the driver come and go.
CallbackFindsDevices == part = "counters" => C!CallbackFindsDevices

\* The receive filter lets in what was asked for, and frames of the largest size whole.
ReceivesAsAskedAndWhole == part = "adapter" => ReceivesAsAsked /\ LargestFramePasses

\* Whatever fails while an ACPI method is evaluated, each buffer is freed exactly once, and
\* what a driver reads of its device properties is what the ACPI table says.
MethodsReadAndFreed == part = "acpi" => A!EachBufferFreedOnce /\ A!ReadsWhatIsThere
=============================================================================

------------------------------- MODULE SdBuses -------------------------------
(***************************************************************************)
(* The bus operations of either SD host controller driver, or the          *)
(* descriptor tables of both.  The parts share no state: where they name a *)
(* piece of it alike it is one variable here, and those of the parts that  *)
(* are not there keep still.                                               *)
(***************************************************************************)
EXTENDS DwcMshcBus

CONSTANTS Parent400M, Parent24M, DllFrom, SdhcFrequencies, UhsModes, Widths, Voltages,
  Lists, MaxLength, Slots

VARIABLES
  part,  \* "dwcsdhc", "dwcmshc" or "tables"
  arg, mapped, internal, enable, intclk, programmed, uhs, flags, width, high, power,
  kind, step, list, elem, next, remaining, table, count, pos, moved, interrupts

S == INSTANCE DwcSdhcBus WITH Frequencies <- SdhcFrequencies
T == INSTANCE SdTables

mshcOnly == <<asked, clkena, clkdiv, on, div, speed, phases, tuned, crcErrors, good, tuning>>
sdhcOnly == <<arg, mapped, internal, enable, intclk, programmed, uhs, flags, width, high, power>>
both     == <<op, cru, busKhz, volt18>>
tables   == <<kind, step, list, elem, next, remaining, table, count, pos, moved, interrupts>>
busVars  == <<part, mshcOnly, sdhcOnly, both, tables>>

NoMshc ==
  /\ asked = 0 /\ clkena = FALSE /\ clkdiv = 0 /\ on = FALSE /\ div = 0 /\ speed = "Normal"
  /\ sample = 0 /\ drive = 0 /\ tuned = FALSE /\ crcErrors = 0
  /\ good = {} /\ index = 0 /\ ranges = <<>> /\ ok = FALSE /\ firstOk = FALSE
NoSdhc ==
  /\ arg = 0 /\ mapped = FALSE /\ internal = FALSE /\ enable = FALSE /\ intclk = FALSE
  /\ programmed = 0 /\ uhs = 0 /\ flags = {} /\ width = 0 /\ high = FALSE /\ power = 0
NoTables ==
  /\ kind = "none" /\ step = "idle" /\ list = <<>> /\ elem = 0 /\ next = 0 /\ remaining = 0
  /\ table = <<>> /\ count = 0 /\ pos = 0 /\ moved = <<>> /\ interrupts = 0

BusInit ==
  \/ part = "dwcmshc" /\ Init /\ NoSdhc /\ NoTables
  \/ part = "dwcsdhc" /\ S!Init /\ NoMshc /\ NoTables
  \/ /\ part = "tables" /\ T!Init /\ NoMshc /\ NoSdhc
     /\ op = "none" /\ cru = 0 /\ busKhz = 0 /\ volt18 = FALSE

BusNext ==
  /\ UNCHANGED part
  /\ \/ part = "dwcmshc" /\ Next /\ UNCHANGED <<sdhcOnly, tables>>
     \/ part = "dwcsdhc" /\ S!Next /\ UNCHANGED <<mshcOnly, tables>>
     \/ part = "tables" /\ T!Next /\ UNCHANGED <<mshcOnly, sdhcOnly, both>>

BusSpec == BusInit /\ [][BusNext]_busVars

-----------------------------------------------------------------------------
\* On the eMMC a card clocked while the SoC's divider, the UHS mode or the signaling
\* change, and on the SD card while parent or dividers do, would miss or invent edges:
\* it never is, whatever failed before.
BusChangesGated ==
  [][/\ part = "dwcmshc" => (<<cru, div>>' # <<cru, div>> => ~on \/ ~on')
     /\ part = "dwcsdhc" => (<<cru, uhs, volt18>>' # <<cru, uhs, volt18>> => ~S!Clocked \/ ~S!Clocked')]_busVars

\* Neither card is ever clocked faster than was asked for.
NeitherTooFast ==
  /\ part = "dwcmshc" => ClockAsAsked
  /\ part = "dwcsdhc" => S!NotTooFast

\* The engine moves what the scatter/gather list says, byte by byte and in its order,
\* never goes on into what an earlier request has left behind, and in the end says so once.
EngineFollowsList == part = "tables" => T!EngineFollowsList
=============================================================================

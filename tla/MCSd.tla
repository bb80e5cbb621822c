-------------------------------- MODULE MCSd --------------------------------
(* Small instances of both SD hosts for TLC: either their requests or      *)
(* their bus operations and tables; the other half keeps its initial state *)
(* or has none.  The rates are those of the RK3576, the phases 6 instead   *)
(* of 360.                                                                 *)
EXTENDS SdHosts

CONSTANTS
  ParentHz, DivMax, Frequencies, MaxFrequency, NumPhases, BadPhasesToSkip, SamplePhaseDefault,
  Threshold, Parent400M, Parent24M, DllFrom, SdhcFrequencies, UhsModes, Widths, Voltages,
  Lists, MaxLength, Slots

VARIABLES
  part,  \* "none" when the requests are there, or that of SdBuses
  op, asked, clkena, clkdiv, on, div, cru, busKhz, volt18, speed, sample, drive, tuned,
  crcErrors, good, index, ranges, ok, firstOk,
  arg, mapped, internal, enable, intclk, programmed, uhs, flags, width, high, cardPower,
  kind, step, list, elem, next, bytesLeft, table, count, pos, moved, interrupts

B == INSTANCE SdBuses WITH remaining <- bytesLeft, power <- cardPower
ASSUME ListsAssumption == B!T!TableAssumption

Sdhc(m, w, b, n) == [method |-> m, write |-> w, r1b |-> b, blocks |-> n]
Mshc(m, w, b, n) == [method |-> m, write |-> w, r1b |-> b, chunks |-> n]

\* Commands with and without a busy signal, transfers of one part and of several.
MCRequests ==
  {Sdhc("Undefined", FALSE, FALSE, 0), Sdhc("Undefined", FALSE, TRUE, 0),
   Sdhc("SgDma", FALSE, FALSE, 2), Sdhc("SgDma", TRUE, FALSE, 1),
   Sdhc("Pio", FALSE, FALSE, 1), Sdhc("Pio", FALSE, FALSE, 3), Sdhc("Pio", TRUE, FALSE, 2)}
MCMshcRequests ==
  {Mshc("Undefined", FALSE, FALSE, 0), Mshc("Undefined", FALSE, TRUE, 0),
   Mshc("SgDma", FALSE, FALSE, 2), Mshc("SgDma", TRUE, FALSE, 1),
   Mshc("Pio", FALSE, FALSE, 1), Mshc("Pio", TRUE, FALSE, 2)}

MCParentHz        == <<1188000000, 1000000000, 24000000>>
MCFrequencies     == {400, 50000, 208000}
MCSdhcFrequencies == {400, 23000, 52000, 200000}
MCUhsModes        == {0, 4}
MCWidths          == {1, 8}
MCVoltages        == {"3.3", "Off"}
\* One to three elements, each of up to two descriptors and a bit.
MCLists == UNION {[1 .. n -> [addr : {10, 50}, len : {1, 3, 5}]] : n \in 1 .. 2}
             \cup {<<[addr |-> 70, len |-> 3], [addr |-> 10, len |-> 5], [addr |-> 50, len |-> 1]>>}

-----------------------------------------------------------------------------
bus1 == <<op, asked, clkena, clkdiv, on, div, cru, busKhz, volt18, speed, sample, drive, tuned,
          crcErrors, good, index, ranges, ok, firstOk>>
bus2 == <<arg, mapped, internal, enable, intclk, programmed, uhs, flags, width, high, cardPower>>
bus3 == <<kind, step, list, elem, next, bytesLeft, table, count, pos, moved, interrupts>>

\* Neither bus operations nor tables.
SdAtRest ==
  /\ HostInit /\ B!NoMshc /\ B!NoSdhc /\ B!NoTables
  /\ op = "none" /\ cru = 0 /\ busKhz = 0 /\ volt18 = FALSE

MCInit ==
  \/ part = "none" /\ SdAtRest
  \/ B!BusInit /\ HostInit /\ host = "dwcsdhc"

MCNext ==
  \/ part = "none" /\ HostNext /\ UNCHANGED <<part, bus1, bus2, bus3>>
  \/ part # "none" /\ B!BusNext /\ UNCHANGED hostVars

MCSpec == MCInit /\ [][MCNext]_<<hostVars, part, bus1, bus2, bus3>>

-----------------------------------------------------------------------------
(* Those of SdBuses.                                                       *)

\* On the eMMC the SoC's divider, the UHS mode and the signaling, on the SD card parent and
\* dividers change only while the card is not clocked, whichever step of SdSetClock,
\* SetSignaling or reset has failed before.  Nothing is said of the speed mode and the
\* voltage of dwcmshc nor of SdhcSetHighSpeed, which change under a running clock.
BusChangesGated == B!BusChangesGated

\* Neither card is ever clocked faster than sdport has asked for.
NeitherTooFast == B!NeitherTooFast

\* ExecuteTuning leaves the sample phase in the middle of the widest range of good phases.
TunedInTheMiddle == B!TunedInTheMiddle

\* The engine moves what SdhcCreateAdmaDescriptorTable or MshcCreateIdmacDescriptorTable was
\* given, in order and no more.
EngineFollowsList == B!EngineFollowsList
=============================================================================

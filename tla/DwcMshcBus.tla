----------------------------- MODULE DwcMshcBus -----------------------------
(***************************************************************************)
(* The bus operations of the SD host controller driver (drivers/sd/dwcmshc:*)
(* dwcmshc.cpp, rockchip_ops.cpp): card clock, signaling voltage, speed,   *)
(* host reset and the tuning of the sample phase.                          *)
(*                                                                         *)
(* The controller takes over CLKENA and CLKDIV only with a command of its  *)
(* own (MshcCiuUpdateClock), which may time out; the divider of the SoC    *)
(* (CRU) works at once.  Tuning tries the phases one after another, after  *)
(* a bad one some further on, and takes the middle of the longest range    *)
(* of good ones.                                                           *)
(***************************************************************************)
EXTENDS Integers, Sequences

CONSTANTS
  ParentHz,      \* Rk3576SdmmcParentHz, from 1
  DivMax,        \* RK3576_SDMMC_DIV_MAX
  Frequencies,   \* the frequencies sdport asks for, in kHz
  MaxFrequency,  \* what the firmware publishes as "max-frequency", in kHz
  NumPhases, BadPhasesToSkip, SamplePhaseDefault,
  Threshold      \* MSHC_DCRC_ERROR_RETUNING_THRESHOLD

VARIABLES
  op,               \* the step of the bus operation that runs
  asked,            \* the last SdSetClock that has stopped the clock
  clkena, clkdiv,   \* CLKENA and CLKDIV
  on, div,          \* what the controller has taken over of them
  cru,              \* the parent and the divider of the SoC
  busKhz,           \* BusFrequencyKhz
  volt18,           \* the VOLT_REG bit of UHS_REG
  speed,            \* BusSpeed
  sample, drive,    \* the phases, as the raw values written
  tuned, crcErrors, \* TuningPerformed and DataCrcErrorsSinceLastTuning
  good,             \* the phases at which the card is read without error, while tuning
  index, ranges,    \* of the tuning: Index, Ranges
  ok, firstOk       \* PreviousTuneCmdOk, FirstTuneCmdOk

clock  == <<clkena, clkdiv, on, div, cru, busKhz>>
phases == <<sample, drive>>
tuning == <<index, ranges, ok, firstOk>>
vars == <<op, asked, clock, volt18, speed, phases, tuned, crcErrors, good, tuning>>

CeilDiv(a, b) == (a + b - 1) \div b

-----------------------------------------------------------------------------
(* Clock and phases as numbers.                                            *)

\* RkCardClockHz: the SoC divides once more by CRU_SD_CLKGEN_DIV.
CardHz(c) == (ParentHz[c.mux] \div c.div) \div 2

\* MshcRk3576SetPhase: quarters of a period and delay elements of 60 ps.
RawPhase(c, degrees) ==
  LET denominator == (CardHz(c) \div 1000) * 36 * 6
      delay == (10000000 * (degrees % 90) + denominator \div 2) \div denominator
  IN [quarter |-> (degrees % 360) \div 90, delay |-> IF delay > 255 THEN 255 ELSE delay]

Degrees(i) == CeilDiv(i * 360, NumPhases)

\* The settings of the SoC for a parent and a target, the divider rounded up.
Divided(mux, target) ==
  LET d == CeilDiv(ParentHz[mux], target)
  IN [mux |-> mux, div |-> IF d > DivMax THEN DivMax ELSE d]

\* MshcRockchipSetClock: the fastest of them that is not too fast, the first of equals;
\* without one the slowest.
ChosenClock(khz) ==
  LET target  == khz * 1000 * 2
      Hz(m)   == ParentHz[m] \div Divided(m, target).div
      fitting == {m \in DOMAIN ParentHz : Hz(m) <= target}
      best    == {m \in fitting : \A n \in fitting : Hz(m) > Hz(n) \/ (Hz(m) = Hz(n) /\ m <= n)}
  IN IF fitting = {} THEN [mux |-> Len(ParentHz), div |-> DivMax]
     ELSE Divided(CHOOSE m \in best : TRUE, target)

\* After MshcSlotInitialize and its reset; the firmware has left the CRU as it was.
Init ==
  /\ op = "idle" /\ asked = 0
  /\ clkena = FALSE /\ clkdiv = 0 /\ on = FALSE /\ div = 0
  /\ cru = [mux |-> Len(ParentHz), div |-> DivMax] /\ busKhz = 0
  /\ volt18 = FALSE /\ speed = "Normal"
  /\ sample = [quarter |-> 0, delay |-> 0] /\ drive = [quarter |-> 1, delay |-> 0]
  /\ tuned = FALSE /\ crcErrors = 0
  /\ good = {} /\ index = 0 /\ ranges = <<>> /\ ok = FALSE /\ firstOk = FALSE

-----------------------------------------------------------------------------
(* SdSetClock.                                                             *)

\* MshcCiuUpdateClock, which times out if ~done.
MshcCiuUpdateClock(done) ==
  IF done THEN on' = clkena' /\ div' = clkdiv' ELSE UNCHANGED <<on, div>>

\* Mutant: the first part does not touch the clock.
GateNothing(khz, done) ==
  /\ asked' = IF done THEN khz ELSE asked
  /\ busKhz' = IF done /\ khz = 0 THEN 0 ELSE busKhz
  /\ op' = IF done /\ khz > 0 THEN "program" ELSE "idle"
  /\ UNCHANGED <<clkena, clkdiv, on, div, cru>>

\* The first part of MshcSetClock(khz) stops the clock.
GateClock(khz, done) ==
  /\ asked' = IF done THEN khz ELSE asked
  /\ clkena' = FALSE /\ clkdiv' = 0
  /\ MshcCiuUpdateClock(done)
  /\ busKhz' = IF done /\ khz = 0 THEN 0 ELSE busKhz
  /\ op' = IF done /\ khz > 0 THEN "program" ELSE "idle"
  /\ UNCHANGED cru

MshcSetClock ==
  /\ op = "idle"
  /\ \E khz \in Frequencies \cup {0}, done \in BOOLEAN : GateClock(khz, done)
  /\ UNCHANGED <<volt18, speed, phases, tuned, crcErrors, good, tuning>>

Capped(khz) == IF MaxFrequency # 0 /\ MaxFrequency < khz THEN MaxFrequency ELSE khz

\* MshcRockchipSetClock sets BaseClockFrequencyKhz to what is asked, so that the divider of
\* the controller is not used.  The CRU may not be mapped.
ProgramClock ==
  /\ op = "program"
  /\ \/ op' = "idle" /\ UNCHANGED <<clkdiv, on, div, cru, phases>>
     \/ /\ cru' = ChosenClock(Capped(asked))
        /\ sample' = IF Capped(asked) <= 400 THEN RawPhase(cru', SamplePhaseDefault) ELSE sample
        /\ drive' = RawPhase(cru', IF Capped(asked) >= 100000 THEN 180 ELSE 90)
        /\ clkdiv' = 0
        /\ \E done \in BOOLEAN : /\ IF done THEN on' = clkena /\ div' = clkdiv' ELSE UNCHANGED <<on, div>>
                                 /\ op' = IF done THEN "enable" ELSE "idle"
  /\ UNCHANGED <<asked, clkena, busKhz, volt18, speed, tuned, crcErrors, good, tuning>>

EnableClock ==
  /\ op = "enable"
  /\ clkena' = TRUE /\ UNCHANGED clkdiv
  /\ \E done \in BOOLEAN : /\ MshcCiuUpdateClock(done)
                           /\ busKhz' = IF done THEN Capped(asked) ELSE busKhz
  /\ op' = "idle"
  /\ UNCHANGED <<asked, cru, volt18, speed, phases, tuned, crcErrors, good, tuning>>

-----------------------------------------------------------------------------
(* SdSetSignalingVoltage, SdSetBusSpeed, SdResetHost.                      *)

\* 1.8 V stops the clock, whatever the update says, and is refused by the platform, which
\* leaves the clock stopped and VOLT_REG set.
MshcSetSignalingVoltage ==
  /\ op = "idle"
  /\ \/ volt18' = FALSE /\ UNCHANGED <<clkena, clkdiv, on, div>>
     \/ /\ volt18' = TRUE /\ clkena' = FALSE /\ UNCHANGED clkdiv
        /\ \E done \in BOOLEAN : MshcCiuUpdateClock(done)
  /\ UNCHANGED <<op, asked, cru, busKhz, speed, phases, tuned, crcErrors, good, tuning>>

MshcSetBusSpeed ==
  /\ op = "idle"
  /\ speed' \in {"Normal", "SDR104"}
  /\ UNCHANGED <<op, asked, clock, volt18, phases, tuned, crcErrors, good, tuning>>

\* The tail of MshcResetWait's callers: the controller takes over CLKENA and CLKDIV once
\* more; SdResetTypeAll goes on with MshcSetSignalingVoltage(33) and MshcSetClock(0).
MshcResetHost ==
  /\ op = "idle"
  /\ \/ /\ UNCHANGED <<op, asked, clkena, clkdiv, cru, busKhz, volt18>>
        /\ \E done \in BOOLEAN : MshcCiuUpdateClock(done)
     \/ /\ \E done \in BOOLEAN : GateClock(0, done)
        /\ volt18' = FALSE
  /\ UNCHANGED <<speed, phases, tuned, crcErrors, good, tuning>>

-----------------------------------------------------------------------------
(* Tuning.                                                                 *)

\* A block of data is bad although the phase has been tuned.
DataCrcError ==
  /\ op = "idle" /\ tuned /\ crcErrors < Threshold
  /\ crcErrors' = crcErrors + 1
  /\ UNCHANGED <<op, asked, clock, volt18, speed, phases, tuned, good, tuning>>

\* The phases that are good depend on card, board and temperature.
StartTuning(phs) ==
  /\ op' = "tune" /\ tuned' = FALSE /\ crcErrors' = 0
  /\ good' = phs
  /\ index' = 0 /\ ranges' = <<>> /\ ok' = FALSE /\ firstOk' = FALSE

\* From sdport, or by MshcResetHost(SdResetTypeDat) after too many errors.
MshcExecuteTuning ==
  /\ op = "idle"
  /\ \E phs \in SUBSET (0 .. NumPhases - 1) : StartTuning(phs)
  /\ UNCHANGED <<asked, clock, volt18, speed, phases>>

MshcResetHostDat ==
  /\ op = "idle"
  /\ tuned /\ crcErrors >= Threshold
  /\ \E phs \in SUBSET (0 .. NumPhases - 1) : StartTuning(phs)
  /\ UNCHANGED <<asked, clock, volt18, speed, phases>>

\* MshcSendTuningCommand knows a block to ask for in the modes that are tuned only; without
\* a clock no answer comes.
TuneCmdOk == on /\ speed = "SDR104" /\ index \in good

\* Some phases after a bad one are not tried, but the last one is.
NextPhase ==
  IF TuneCmdOk \/ index = NumPhases - 1 THEN index + 1
  ELSE IF index + BadPhasesToSkip >= NumPhases THEN NumPhases - 1
  ELSE index + BadPhasesToSkip

\* Mutant: a range goes on over the bad phases.
ExtendedOverGaps ==
  IF ~TuneCmdOk THEN ranges
  ELSE IF ranges # <<>> THEN [ranges EXCEPT ![Len(ranges)].end = index]
  ELSE Append(ranges, [start |-> index, end |-> index])

\* The ranges with the phase of this step.
Extended ==
  IF ~TuneCmdOk THEN ranges
  ELSE IF ok THEN [ranges EXCEPT ![Len(ranges)].end = index]
  ELSE Append(ranges, [start |-> index, end |-> index])

\* One round of the loop of MshcRockchipExecuteTuning.
TryPhase ==
  /\ op = "tune" /\ index < NumPhases
  /\ sample' = RawPhase(cru, Degrees(index))
  /\ ranges' = Extended /\ index' = NextPhase /\ ok' = TuneCmdOk
  /\ firstOk' = IF index = 0 THEN TuneCmdOk ELSE firstOk
  /\ UNCHANGED <<op, asked, clock, volt18, speed, drive, tuned, crcErrors, good>>

\* The last range goes on at the first one.
Merged ==
  IF Len(ranges) > 1 /\ firstOk /\ ok
  THEN SubSeq([ranges EXCEPT ![1].start = ranges[Len(ranges)].start], 1, Len(ranges) - 1)
  ELSE ranges

Length(r) == LET l == r.end - r.start + 1 IN IF l < 0 THEN l + NumPhases ELSE l

\* The middle of the longest range, the first of equals.
MiddlePhase ==
  LET longest == CHOOSE i \in DOMAIN Merged :
                   \A j \in DOMAIN Merged : \/ Length(Merged[i]) > Length(Merged[j])
                                            \/ Length(Merged[i]) = Length(Merged[j]) /\ i <= j
  IN (Merged[longest].start + Length(Merged[longest]) \div 2) % NumPhases

ChosenPhase ==
  IF Merged[1] = [start |-> 0, end |-> NumPhases - 1] THEN SamplePhaseDefault ELSE MiddlePhase

EndTuning ==
  /\ op = "tune" /\ index >= NumPhases
  /\ op' = "idle"
  /\ tuned' = (ranges # <<>>)
  /\ sample' = IF ranges = <<>> THEN sample ELSE RawPhase(cru, Degrees(ChosenPhase))
  /\ good' = {} /\ index' = 0 /\ ranges' = <<>> /\ ok' = FALSE /\ firstOk' = FALSE
  /\ UNCHANGED <<asked, clock, volt18, speed, drive, crcErrors>>

-----------------------------------------------------------------------------
Next ==
  \/ MshcSetClock \/ ProgramClock \/ EnableClock
  \/ MshcSetSignalingVoltage \/ MshcSetBusSpeed \/ MshcResetHost
  \/ DataCrcError \/ MshcExecuteTuning \/ MshcResetHostDat \/ TryPhase \/ EndTuning

Spec == Init /\ [][Next]_vars

-----------------------------------------------------------------------------
(* Properties.                                                             *)

\* The card never sees its clock change from one rate to another: every change, the
\* failed ones included, happens while it is stopped.
ClockChangesGated == [][<<cru, div>>' # <<cru, div>> => ~on \/ ~on']_vars

\* The card's clock is not faster than khz, and no setting of parent and divider comes
\* closer from below.
Fits(khz) ==
  /\ CardHz(cru) <= khz * 1000
  /\ \A m \in DOMAIN ParentHz, d \in 1 .. DivMax :
       ParentHz[m] \div d <= khz * 2000 => ParentHz[m] \div d <= ParentHz[cru.mux] \div cru.div

\* While the card sees a clock it is right for the last SdSetClock that succeeded or, if
\* that failed at its end and a reset has completed it, for the one that failed.
ClockAsAsked == on /\ op = "idle" => Fits(busKhz) \/ Fits(Capped(asked))

\* How many phases on both sides of phase p are good, too.
Margin(p) ==
  CHOOSE m \in 0 .. NumPhases :
    /\ \A i \in 0 .. m : {(p + i) % NumPhases, (p - i) % NumPhases} \subseteq good
    /\ m < NumPhases => ~({(p + m + 1) % NumPhases, (p - m - 1) % NumPhases} \subseteq good)

\* Tuning ends in a good phase, which is no closer to a bad one than the phases it has
\* not tried account for.
TunedInTheMiddle ==
  [][op = "tune" /\ tuned' /\ ~tuned =>
    \E c \in good : /\ sample' = RawPhase(cru, Degrees(c))
                    /\ \A p \in good : Margin(p) <= Margin(c) + BadPhasesToSkip \div 2]_vars
=============================================================================

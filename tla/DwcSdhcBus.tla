----------------------------- MODULE DwcSdhcBus -----------------------------
(***************************************************************************)
(* The bus operations of the eMMC host controller driver (drivers/sd/      *)
(* dwcsdhc/dwcsdhc.cpp): reset, card clock, bus power, speed mode,         *)
(* signaling voltage and the host control registers around them.           *)
(*                                                                         *)
(* The divider of the controller is not used: the rate is set in the SoC   *)
(* (CRU), and what can be set in the DLL of the controller limits it.  The *)
(* controller feeds the card while the clock of its own runs (CLOCK        *)
(* CONTROL) and a vendor register keeps it running (MISC_CON).             *)
(***************************************************************************)
EXTENDS Integers

CONSTANTS
  Parent400M, Parent24M,  \* RK3576_CRU_EMMC_PARENT_400M and _24M, in kHz
  DllFrom,                \* what DwcSdhcRkConfigurePhy refuses, in kHz
  Frequencies,            \* the frequencies sdport asks for, in kHz
  UhsModes,               \* what SdhcGetHwUhsMode returns
  Widths, Voltages

VARIABLES
  op, arg,          \* the step of the bus operation that runs, and its parameter
  mapped,           \* s_CruClkSel is mapped: not in a crash dump
  internal, enable, \* SDHC_CC_INTERNAL_CLOCK_ENABLE, SDHC_CC_CLOCK_ENABLE
  intclk,           \* DWCMSHC_MISC_INTCLK_EN
  cru,              \* parent and divider of the SoC
  programmed,       \* the last frequency that got as far as the CRU
  busKhz,           \* the last one SdhcSetClock succeeded with
  uhs, volt18, flags, \* SDHC_HOST_CONTROL2: mode, signaling, the bits that are just kept
  width, high,      \* SDHC_HOST_CONTROL
  power             \* SDHC_POWER_CONTROL: voltage, and bus power

clock == <<internal, enable, intclk, cru, programmed, busKhz>>
hc2   == <<uhs, volt18, flags>>
others == <<mapped, width, high, power>>
vars == <<op, arg, clock, hc2, others>>

Step(o, a) == op' = o /\ arg' = a
End == Step("idle", 0)

\* The card is clocked.
Clocked == internal /\ enable /\ intclk

Clamp(d) == IF d < 1 THEN 1 ELSE IF d > 64 THEN 64 ELSE d

\* Mutant: the divider is rounded down.
RkClockDown(khz) ==
  LET parent == IF khz >= Parent24M THEN Parent400M ELSE Parent24M
  IN [parent |-> parent, div |-> Clamp(parent \div khz)]

\* What DwcSdhcRkSetClock writes to the CRU: the divider is rounded up.
RkClock(khz) ==
  LET parent == IF khz >= Parent24M THEN Parent400M ELSE Parent24M
  IN [parent |-> parent, div |-> Clamp((parent + khz - 1) \div khz)]

\* After the reset sdport starts with.  The firmware has left some clock in the CRU.
Init ==
  /\ op = "idle" /\ arg = 0 /\ mapped \in BOOLEAN
  /\ internal = FALSE /\ enable = FALSE /\ intclk = TRUE
  /\ cru = [parent |-> Parent400M, div |-> 2] /\ programmed = 0 /\ busKhz = 0
  /\ uhs = 0 /\ volt18 = FALSE /\ flags = {}
  /\ width = 1 /\ high = FALSE /\ power = [volt |-> "Off", bus |-> FALSE]

-----------------------------------------------------------------------------
(* SdSetClock.                                                             *)

StopClock(khz) ==
  /\ Step("rk", khz)
  /\ enable' = FALSE /\ internal' = FALSE

SdhcSetClock ==
  /\ op = "idle"
  /\ \E khz \in Frequencies \cup {0} : StopClock(khz)
  /\ UNCHANGED <<intclk, cru, programmed, busKhz, hc2, others>>

\* DwcSdhcRkSetClock writes the CRU before DwcSdhcRkConfigurePhy may refuse.
DwcSdhcRkSetClock ==
  /\ op = "rk"
  /\ IF arg = 0
     THEN End /\ UNCHANGED <<cru, programmed, internal>>
     ELSE /\ cru' = IF mapped THEN RkClock(arg) ELSE cru
          /\ programmed' = arg
          /\ internal' = (arg < DllFrom)
          /\ IF arg < DllFrom THEN Step("stable", arg) ELSE End
  /\ UNCHANGED <<enable, intclk, busKhz, hc2, others>>

\* SDHC_CC_CLOCK_STABLE comes, or a hundred reads go by.
WaitStable ==
  /\ op = "stable"
  /\ End
  /\ \/ intclk /\ enable' = TRUE /\ busKhz' = arg
     \/ UNCHANGED <<enable, busKhz>>
  /\ UNCHANGED <<internal, intclk, cru, programmed, hc2, others>>

-----------------------------------------------------------------------------
(* SdSetBusSpeed and SdSetSignalingVoltage stop the clock on their own.    *)

SdhcSetHighSpeed ==
  /\ op = "idle"
  /\ high' \in BOOLEAN
  /\ UNCHANGED <<op, arg, clock, hc2, mapped, width, power>>

SdhcSetUhsMode ==
  /\ op = "idle"
  /\ \E mode \in UhsModes \ {uhs} : Step("uhs", mode)
  /\ enable' = FALSE
  /\ UNCHANGED <<internal, intclk, cru, programmed, busKhz, hc2, others>>

WriteUhsMode ==
  /\ op = "uhs"
  /\ uhs' = arg /\ enable' = TRUE /\ End
  /\ UNCHANGED <<internal, intclk, cru, programmed, busKhz, volt18, flags, others>>

SdhcSetSignaling ==
  /\ op = "idle"
  /\ \E on \in BOOLEAN : Step("signaling", on)
  /\ enable' = FALSE
  /\ UNCHANGED <<internal, intclk, cru, programmed, busKhz, hc2, others>>

\* DAT[3:0] are not zero; the bit does not latch; it does, and the clock comes back
\* whatever DAT[3:0] say then.
SwitchSignaling ==
  /\ op = "signaling"
  /\ End
  /\ \/ UNCHANGED <<volt18, enable>>
     \/ volt18' = arg /\ enable' = TRUE
  /\ UNCHANGED <<internal, intclk, cru, programmed, busKhz, uhs, flags, others>>

-----------------------------------------------------------------------------
(* The other operations.                                                   *)

SdhcSetBusWidth ==
  /\ op = "idle"
  /\ width' \in Widths
  /\ UNCHANGED <<op, arg, clock, hc2, mapped, high, power>>

\* First the voltage without bus power, then with it, each until it reads back.  "Off"
\* is a voltage like the others: bus power stays on.
SdhcSetVoltage ==
  /\ op = "idle"
  /\ \/ UNCHANGED power
     \/ \E v \in Voltages, bus \in BOOLEAN : power' = [volt |-> v, bus |-> bus]
  /\ UNCHANGED <<op, arg, clock, hc2, mapped, width, high>>

\* Read, changed and written in SDHC_HOST_CONTROL2: the tuning bit, which nothing clears
\* but a reset, and the preset bit.
SdhcExecuteTuning ==
  /\ op = "idle"
  /\ flags' = flags \cup {"EXECUTE_TUNING"}
  /\ UNCHANGED <<op, arg, clock, uhs, volt18, others>>

SdhcSetPresetValue ==
  /\ op = "idle"
  /\ \E on \in BOOLEAN : flags' = (flags \ {"ENABLE_PRESET_VALUE"}) \cup
                                   (IF on THEN {"ENABLE_PRESET_VALUE"} ELSE {})
  /\ UNCHANGED <<op, arg, clock, uhs, volt18, others>>

\* SdhcResetHost takes the vendor bit along and writes it again if the reset ends in
\* time; SdResetTypeAll takes more along.
SdhcResetHostAll ==
  /\ op = "idle"
  /\ intclk' \in BOOLEAN
  /\ internal' = FALSE /\ enable' = FALSE
  /\ uhs' = 0 /\ volt18' = FALSE /\ flags' = {}
  /\ width' = 1 /\ high' = FALSE /\ power' = [volt |-> "Off", bus |-> FALSE]
  /\ UNCHANGED <<op, arg, mapped, cru, programmed, busKhz>>

SdhcResetHost ==
  /\ op = "idle"
  /\ intclk' \in BOOLEAN
  /\ UNCHANGED <<op, arg, internal, enable, cru, programmed, busKhz, hc2, others>>

Next ==
  \/ SdhcSetClock \/ DwcSdhcRkSetClock \/ WaitStable
  \/ SdhcSetHighSpeed \/ SdhcSetUhsMode \/ WriteUhsMode \/ SdhcSetSignaling \/ SwitchSignaling
  \/ SdhcSetBusWidth \/ SdhcSetVoltage \/ SdhcExecuteTuning \/ SdhcSetPresetValue
  \/ SdhcResetHostAll \/ SdhcResetHost

Spec == Init /\ [][Next]_vars

-----------------------------------------------------------------------------
(* Properties.                                                             *)

\* The card never sees its clock, the speed mode or the signaling change while it is
\* clocked, whatever failed before.
ChangesGated == [][<<cru, uhs, volt18>>' # <<cru, uhs, volt18>> => ~Clocked \/ ~Clocked']_vars

Rate == cru.parent \div cru.div

\* The card is clocked no faster than the last SdSetClock that succeeded or, if the last
\* one failed on the way and a later operation switched the clock on, than that one.
NotTooFast ==
  Clocked /\ op = "idle" /\ mapped => Rate <= busKhz \/ Rate <= programmed
=============================================================================

----------------------------- MODULE Rk3xGpio -----------------------------
(* One bank of the GPIO controller (drivers/gpio/rk3xgpio/rk3xgpio.c).     *)
(*                                                                         *)
(* GpioClx calls the driver from two sides: connecting, enabling, writing  *)
(* and power calls, which it serialises ("io"), and the interrupt callbacks*)
(* at DIRQL, which hold the interrupt lock ("isr").  A callback is the     *)
(* sequence of its register accesses; the two sides interleave between     *)
(* accesses, except where the callback takes the lock.  A version 2 bank   *)
(* has a register in two halves, written one after the other.              *)
(*                                                                         *)
(* A register is the set of lines whose bit is set.                        *)
EXTENDS Integers, Sequences, FiniteSets

CONSTANTS Pins,          \* the lines of the bank
          UpperPins,     \* those of the second half of each register
          Configs,       \* per line: the interrupt configurations asked for, uses
                         \* [as, edge, high, both]
          Overlap        \* may an interrupt be reconfigured during a call of "io"?

GpioAssumption ==
  /\ UpperPins \subseteq Pins
  /\ Configs \in [Pins -> SUBSET [as : {"irq"}, edge : BOOLEAN, high : BOOLEAN, both : BOOLEAN]]
  /\ Overlap \in BOOLEAN

VARIABLES
  power,     \* "absent", "prepared", "starting", "on", "stopping", "D3", "F1"
  type,      \* GpioType: "V1" or "V2"
  reg,       \* the registers
  latched,   \* edges the controller has detected and not cleared
  line,      \* the levels at the pins
  saved,     \* SavedContext
  lock,      \* the holder of the interrupt lock, or "free"
  call,      \* per side: the callback that runs and its lines, and what is left of it
  use,       \* per line: what GpioClx asked for last
  driven,    \* the outputs it asked to be high
  masked,    \* lines it has masked while an interrupt is served
  pending    \* lines with an edge, asked for or stray, that has not been served

hardware == <<reg, latched, line>>
asked    == <<use, driven, masked, pending>>
vars     == <<power, type, hardware, saved, lock, call, asked>>

Sides == {"io", "isr"}
Registers == {"PortDR", "PortDDR", "IntEn", "IntMask", "IntType", "IntPolarity"}
SavedRegisters == Registers \ {"IntEn"}

-----------------------------------------------------------------------------
(* Register accesses.  A callback loads registers into locals, changes     *)
(* them and stores them; Put writes a value that was never read.           *)

Load(r)              == [do |-> "load", reg |-> r]
Store(r, set, clear) == [do |-> "store", reg |-> r, set |-> set, clear |-> clear, rest |-> FALSE]
Put(r, v)            == Store(r, v, Pins)
Change(r, set, clear) == <<Load(r), Store(r, set, clear)>>
Assign(r, pins, on) == Change(r, IF on THEN pins ELSE {}, pins)
Acquire == [do |-> "acquire"]
Release == [do |-> "release"]

\* What the bits of a register become.
Updated(old, a) == (old \ a.clear) \cup a.set

Idle == [name |-> "none", pins |-> {}, todo |-> <<>>, val |-> [r \in {} |-> {}]]
Callback(name, pins, todo) == [name |-> name, pins |-> pins, todo |-> todo,
                               val |-> [r \in {} |-> {}]]

-----------------------------------------------------------------------------
(* The callbacks.                                                          *)

\* Configures a line; EnableInterrupt and ReconfigureInterrupt have it in common.
SetMode(p, c) ==
  Assign("PortDDR", {p}, FALSE) \o Assign("IntType", {p}, c.edge)
    \o Assign("IntPolarity", {p}, c.high)

\* Mutant: a stale edge is cleared before the line is configured, not after.
EnableInterruptEarlyClear(p, c) ==
  <<Acquire, Put("PortEOI", {p})>> \o SetMode(p, c)
    \o Assign("IntMask", {p}, FALSE) \o <<Release>>

RockchipGpioEnableInterrupt(p, c) ==
  <<Acquire>> \o SetMode(p, c) \o <<Put("PortEOI", {p})>>
    \o Assign("IntMask", {p}, FALSE) \o <<Release>>

RockchipGpioDisableInterrupt(p) ==
  <<Acquire>> \o Assign("IntMask", {p}, TRUE) \o <<Release>>

RockchipGpioMaskInterrupts(pins)  == Assign("IntMask", pins, TRUE)
RockchipGpioUnmaskInterrupt(p)    == Assign("IntMask", {p}, FALSE)

\* Mutant: every edge is cleared, not only those that will be served.
ClearAllInterrupts(pins) == <<Put("PortEOI", Pins)>>

RockchipGpioClearActiveInterrupts(pins) == <<Put("PortEOI", pins)>>

RockchipGpioReconfigureInterrupt(p, c) == <<Put("PortEOI", {p})>> \o SetMode(p, c)

RockchipGpioConnectIoPins(pins, output) == Assign("PortDDR", pins, output)

\* Pins go back to their default mode, which is output.
RockchipGpioDisconnectIoPins(pins) ==
  <<Load("PortDDR"), Load("PortDR"), Store("PortDR", {}, pins), Store("PortDDR", pins, {})>>

RockchipGpioWriteGpioPins(set, clear) == Change("PortDR", set \ clear, clear)

\* Mutant: the mode of the interrupts is not saved with the rest.
SaveWithoutType ==
  <<Load("PortDR"), Load("PortDDR"), Load("IntMask"), Load("IntPolarity")>>

RockchipGpioSaveBankHardwareContext ==
  <<Load("PortDR"), Load("PortDDR"), Load("IntMask"), Load("IntType"), Load("IntPolarity")>>

\* Mutant: directions before levels.
RestoreDirectionFirst ==
  <<Put("PortDDR", saved["PortDDR"]), Put("PortDR", saved["PortDR"]),
    Put("IntType", saved["IntType"]), Put("IntPolarity", saved["IntPolarity"]),
    Put("IntMask", saved["IntMask"])>>

\* Mutant: the mask is restored before the modes.
RestoreMaskFirst ==
  <<Put("PortDR", saved["PortDR"]), Put("IntMask", saved["IntMask"]),
    Put("IntType", saved["IntType"]), Put("IntPolarity", saved["IntPolarity"]),
    Put("PortDDR", saved["PortDDR"])>>

\* Levels before directions, modes before the mask.
RockchipGpioRestoreBankHardwareContext ==
  <<Put("PortDR", saved["PortDR"]), Put("IntType", saved["IntType"]),
    Put("IntPolarity", saved["IntPolarity"]), Put("PortDDR", saved["PortDDR"]),
    Put("IntMask", saved["IntMask"])>>

RockchipGpioStartController(restore) ==
  <<Put("IntMask", Pins), Put("PortEOI", Pins), Put("IntEn", Pins)>>
    \o (IF restore THEN RockchipGpioRestoreBankHardwareContext ELSE <<>>)

-----------------------------------------------------------------------------
(* The controller.                                                         *)

\* The event a line is configured to detect; the interrupts it raises.
Detects(p, rises) == p \in reg["IntType"] /\ (rises <=> p \in reg["IntPolarity"])
IntStatus ==
  {p \in reg["IntEn"] \ reg["IntMask"] :
     IF p \in reg["IntType"] THEN p \in latched
     ELSE p \notin reg["PortDDR"] /\ (p \in line <=> p \in reg["IntPolarity"])}

\* What the level at an output pin is.
Driven(p) == p \in reg["PortDR"]

As(what) == [as |-> what, edge |-> FALSE, high |-> FALSE, both |-> FALSE]

NothingSaved == [r \in SavedRegisters |-> {}]

Init ==
  /\ power = "absent" /\ type = "V1"
  /\ reg = [r \in Registers |-> {}] /\ latched = {} /\ line = {}
  /\ saved = NothingSaved
  /\ lock = "free" /\ call = [s \in Sides |-> Idle]
  /\ use = [p \in Pins |-> As("none")] /\ driven = {} /\ masked = {} /\ pending = {}

IsIrq(p) == use[p].as = "irq"

\* An edge that matters: one of the kind asked for; while the configuration is being
\* restored, as soon as the controller detects it.
Detected(p, rises) == Detects(p, rises) /\ p \in reg["IntEn"]
Asks(p, rises) ==
  /\ IsIrq(p) /\ use[p].edge /\ (use[p].both \/ (rises <=> use[p].high))
  /\ power = "starting" => Detected(p, rises)

\* An edge nobody asked for, which the controller detects because the type of the
\* interrupt has been restored and its polarity has not.
Stray(p, rises) ==
  /\ power = "starting" /\ Detected(p, rises)
  /\ ~(p \in reg["IntPolarity"] <=> p \in saved["IntPolarity"])

\* A device changes the level of a pin that may interrupt.
LineChanges(p) ==
  /\ power \in {"starting", "on", "stopping"}
  /\ IsIrq(p) /\ p \notin reg["PortDDR"]
  /\ line' = IF p \in line THEN line \ {p} ELSE line \cup {p}
  /\ latched' = IF Detected(p, p \notin line) THEN latched \cup {p} ELSE latched
  /\ pending' = IF Asks(p, p \notin line) \/ Stray(p, p \notin line) THEN pending \cup {p} ELSE pending
  /\ UNCHANGED <<power, type, reg, saved, lock, call, use, driven, masked>>

-----------------------------------------------------------------------------
(* Steps of a callback.                                                    *)

Todo(s) == call[s].todo
Next1(s, kind) == Todo(s) # <<>> /\ Head(Todo(s)).do = kind
Drop(s) == call' = [call EXCEPT ![s].todo = Tail(@)]

AcquireInterruptLock(s) ==
  /\ Next1(s, "acquire") /\ lock = "free"
  /\ lock' = s /\ Drop(s)
  /\ UNCHANGED <<power, type, hardware, saved, asked>>

ReleaseInterruptLock(s) ==
  /\ Next1(s, "release")
  /\ lock' = "free" /\ Drop(s)
  /\ UNCHANGED <<power, type, hardware, saved, asked>>

gpio_read32(s) ==
  /\ Next1(s, "load")
  /\ LET r == Head(Todo(s)).reg
     IN  call' = [call EXCEPT ![s].todo = Tail(@),
                              ![s].val = [q \in DOMAIN @ \cup {r} |->
                                            IF q = r THEN reg[r] ELSE @[q]]]
  /\ UNCHANGED <<power, type, hardware, saved, lock, asked>>

\* A local is dead once it has been stored.
Without(val, r) == [q \in DOMAIN val \ {r} |-> val[q]]

\* The bits one write reaches: the lower half first, then the upper half.
Half(a) == IF type = "V1" THEN Pins ELSE IF a.rest THEN UpperPins ELSE Pins \ UpperPins
LastHalf(a) == type = "V1" \/ a.rest

\* gpio_write32: EOI clears edges; every other register takes the value.  The edges
\* of the lines a callback is about are served next, or belong to nobody; a start
\* forgets those of before.
gpio_write32(s) ==
  /\ Next1(s, "store")
  /\ LET a == Head(Todo(s))
         h == Half(a)
         old == IF a.reg \in DOMAIN call[s].val THEN call[s].val[a.reg] ELSE {}
     IN  /\ IF a.reg = "PortEOI"
              THEN /\ latched' = latched \ (a.set \cap h)
                   /\ pending' = pending \ (h \cap IF power = "starting" THEN Pins ELSE call[s].pins)
                   /\ UNCHANGED reg
              ELSE /\ reg' = [reg EXCEPT ![a.reg] = (@ \ h) \cup (Updated(old, a) \cap h)]
                   /\ UNCHANGED <<latched, pending>>
         /\ call' = IF LastHalf(a)
                      THEN [call EXCEPT ![s].todo = Tail(@), ![s].val = Without(@, a.reg)]
                      ELSE [call EXCEPT ![s].todo = <<[a EXCEPT !.rest = TRUE]>> \o Tail(@)]
  /\ UNCHANGED <<power, type, line, saved, lock, use, driven, masked>>

Finished(s, name) == call[s].name = name /\ Todo(s) = <<>>
Return(s) == call' = [call EXCEPT ![s] = Idle]
Call(s, name, pins, todo) ==
  call[s] = Idle /\ call' = [call EXCEPT ![s] = Callback(name, pins, todo)]

-----------------------------------------------------------------------------
(* Power.                                                                  *)

\* RockchipGpioPrepareController: an unknown version is taken for version 1.  What
\* firmware left in the registers is anything.
RockchipGpioPrepareController ==
  /\ power = "absent"
  /\ power' = "prepared" /\ type' \in {"V1", "V2"}
  /\ \E mask, en, left \in SUBSET Pins :
       /\ reg' = [[r \in Registers |-> {}] EXCEPT !["IntMask"] = mask, !["IntEn"] = en]
       /\ latched' = left
  /\ saved' = NothingSaved
  /\ UNCHANGED <<line, lock, call, asked>>

RockchipGpioReleaseController ==
  /\ power = "prepared" /\ call["io"] = Idle
  /\ power' = "absent"
  /\ UNCHANGED <<type, hardware, saved, lock, call, asked>>

StartController ==
  /\ power \in {"prepared", "D3"}
  /\ Call("io", "start", {}, RockchipGpioStartController(power = "D3"))
  /\ power' = "starting"
  /\ UNCHANGED <<type, hardware, saved, lock, asked>>

\* RockchipGpioRestoreBankHardwareContext, called by GpioClx after F1.
RestoreBank ==
  /\ power = "F1"
  /\ Call("io", "start", {}, RockchipGpioRestoreBankHardwareContext)
  /\ power' = "starting"
  /\ UNCHANGED <<type, hardware, saved, lock, asked>>

\* What was saved is dead now.
Started ==
  /\ Finished("io", "start") /\ Return("io")
  /\ power' = "on" /\ saved' = NothingSaved
  /\ UNCHANGED <<type, hardware, lock, asked>>

\* RockchipGpioStopController(SaveContext) and the F1 transition of a bank.  The
\* interrupt is disconnected or the bank idle by then.
SaveContext(target) ==
  /\ power = "on" /\ call["isr"] = Idle
  /\ Call("io", target, {}, RockchipGpioSaveBankHardwareContext)
  /\ power' = "stopping"
  /\ UNCHANGED <<type, hardware, saved, lock, asked>>

\* D3 may lose the registers; a bank in F1 keeps them.
Stopped(target) ==
  /\ Finished("io", target) /\ Return("io")
  /\ power' = target
  /\ saved' = [r \in SavedRegisters |->
                 IF r \in DOMAIN call["io"].val THEN call["io"].val[r] ELSE saved[r]]
  /\ \/ UNCHANGED <<reg, latched, pending>>
     \/ /\ target = "D3"
        /\ reg' = [r \in Registers |-> {}] /\ latched' = {} /\ pending' = {}
  /\ UNCHANGED <<type, line, lock, use, driven, masked>>

\* RockchipGpioStopController without SaveContext: the controller is removed.
StopForRemoval ==
  /\ power = "on" /\ \A s \in Sides : call[s] = Idle
  /\ \A p \in Pins : use[p].as = "none"
  /\ power' = "prepared" /\ pending' = {}
  /\ UNCHANGED <<type, hardware, saved, lock, call, use, driven, masked>>

-----------------------------------------------------------------------------
(* The serialised side.                                                    *)

Undisturbed == Overlap \/ call["isr"].name # "reconfigure"

ConnectIoPins(pins, output) ==
  /\ power = "on" /\ Undisturbed
  /\ pins # {} /\ \A p \in pins : use[p].as = "none"
  /\ Call("io", "connect", pins, RockchipGpioConnectIoPins(pins, output))
  /\ use' = [p \in Pins |-> IF p \in pins THEN As(IF output THEN "out" ELSE "in") ELSE use[p]]
  /\ driven' = IF output THEN (driven \ pins) \cup (pins \cap reg["PortDR"]) ELSE driven
  /\ UNCHANGED <<power, type, hardware, saved, lock, masked, pending>>

DisconnectIoPins(pins) ==
  /\ power = "on" /\ Undisturbed
  /\ pins # {} /\ \A p \in pins : use[p].as \in {"in", "out"}
  /\ Call("io", "disconnect", pins, RockchipGpioDisconnectIoPins(pins))
  /\ use' = [p \in Pins |-> IF p \in pins THEN As("none") ELSE use[p]]
  /\ driven' = driven \ pins
  /\ UNCHANGED <<power, type, hardware, saved, lock, masked, pending>>

\* With PreserveConfiguration the driver does nothing.
DisconnectPreserving(pins) ==
  /\ power = "on" /\ call["io"] = Idle
  /\ pins # {} /\ \A p \in pins : use[p].as \in {"in", "out"}
  /\ use' = [p \in Pins |-> IF p \in pins THEN As("none") ELSE use[p]]
  /\ driven' = driven \ pins
  /\ UNCHANGED <<power, type, hardware, saved, lock, call, masked, pending>>

WriteGpioPins(set, clear) ==
  /\ power = "on" /\ set \cup clear # {} /\ set \cap clear = {}
  /\ \A p \in set \cup clear : use[p].as = "out"
  /\ Call("io", "write", set \cup clear, RockchipGpioWriteGpioPins(set, clear))
  /\ driven' = (driven \ clear) \cup set
  /\ UNCHANGED <<power, type, hardware, saved, lock, use, masked, pending>>

\* Polarities other than high and low are refused; GpioClx emulates both edges.
EnableInterrupt(p, c) ==
  /\ power = "on" /\ use[p].as = "none"
  /\ Call("io", "enable", {p}, RockchipGpioEnableInterrupt(p, c))
  /\ use' = [use EXCEPT ![p] = c]
  /\ UNCHANGED <<power, type, hardware, saved, lock, driven, masked, pending>>

DisableInterrupt(p) ==
  /\ power = "on" /\ IsIrq(p)
  /\ Call("io", "disable", {p}, RockchipGpioDisableInterrupt(p))
  /\ UNCHANGED <<power, type, hardware, saved, lock, asked>>

IoReturns ==
  /\ \E name \in {"connect", "disconnect", "write", "enable", "disable"} : Finished("io", name)
  /\ Return("io")
  /\ IF call["io"].name = "disable"
       THEN /\ use' = [p \in Pins |-> IF p \in call["io"].pins THEN As("none") ELSE use[p]]
            /\ masked' = masked \ call["io"].pins /\ pending' = pending \ call["io"].pins
       ELSE UNCHANGED <<use, masked, pending>>
  /\ UNCHANGED <<power, type, hardware, saved, lock, driven>>

-----------------------------------------------------------------------------
(* The interrupt side: every callback holds the lock.                      *)

Level(pins) == {p \in pins : p \notin reg["IntType"]}
Lock == lock = "free" /\ lock' = "isr"

\* GpioClx queries the active interrupts, masks the level-sensitive ones and
\* clears all of them before it has them served.
QueryActiveInterrupts ==
  /\ power = "on" /\ Lock /\ IntStatus # {}
  /\ Call("isr", "active", IntStatus,
          RockchipGpioMaskInterrupts(Level(IntStatus))
            \o RockchipGpioClearActiveInterrupts(IntStatus))
  /\ UNCHANGED <<power, type, hardware, saved, asked>>

UnmaskInterrupt(p) ==
  /\ power = "on" /\ Lock /\ p \in masked \ call["io"].pins
  /\ Call("isr", "unmask", {p}, RockchipGpioUnmaskInterrupt(p))
  /\ UNCHANGED <<power, type, hardware, saved, asked>>

\* To emulate both edges GpioClx turns the polarity round after each edge.
ReconfigureInterrupt(p) ==
  /\ power = "on" /\ Lock /\ IsIrq(p) /\ p \notin call["io"].pins /\ use[p].both
  /\ Overlap \/ call["io"].name \notin {"connect", "disconnect"}
  /\ LET c == [use[p] EXCEPT !.high = ~@]
     IN  /\ Call("isr", "reconfigure", {p}, RockchipGpioReconfigureInterrupt(p, c))
         /\ use' = [use EXCEPT ![p] = c]
  /\ UNCHANGED <<power, type, hardware, saved, driven, masked, pending>>

IsrReturns ==
  /\ call["isr"] # Idle /\ Todo("isr") = <<>> /\ Return("isr")
  /\ lock' = "free"
  /\ LET pins == call["isr"].pins IN
     CASE call["isr"].name = "active" ->
            masked' = masked \cup {p \in Level(pins) : IsIrq(p)}
       [] call["isr"].name = "unmask" -> masked' = masked \ pins
       [] OTHER -> UNCHANGED masked
  /\ UNCHANGED <<power, type, hardware, saved, use, driven, pending>>

-----------------------------------------------------------------------------
Access(s) ==
  gpio_read32(s) \/ gpio_write32(s) \/ AcquireInterruptLock(s) \/ ReleaseInterruptLock(s)

Power ==
  \/ RockchipGpioPrepareController \/ RockchipGpioReleaseController
  \/ StartController \/ RestoreBank \/ Started \/ StopForRemoval
  \/ \E target \in {"D3", "F1"} : SaveContext(target) \/ Stopped(target)

Io ==
  \/ \E pins \in SUBSET Pins :
       \/ \E output \in BOOLEAN : ConnectIoPins(pins, output)
       \/ DisconnectIoPins(pins) \/ DisconnectPreserving(pins)
       \/ \E clear \in SUBSET Pins : WriteGpioPins(pins, clear)
  \/ \E p \in Pins : DisableInterrupt(p) \/ \E c \in Configs[p] : EnableInterrupt(p, c)
  \/ IoReturns

Isr ==
  \/ QueryActiveInterrupts \/ IsrReturns
  \/ \E p \in Pins : UnmaskInterrupt(p) \/ ReconfigureInterrupt(p)

Next == Power \/ Io \/ Isr \/ (\E s \in Sides : Access(s)) \/ (\E p \in Pins : LineChanges(p))

Spec == Init /\ [][Next]_vars

-----------------------------------------------------------------------------
(* Properties.                                                             *)

Busy == UNION {call[s].pins : s \in Sides}

\* Whenever the bank is on, every line that no callback is working on is set up as
\* GpioClx asked: the read-modify-write cycles of both sides, and saving and
\* restoring, disturb no other line (rk3xgpio.c:1268-1324, 2380-2476).
ConfiguredAsAsked ==
  power = "on" => \A p \in Pins \ Busy :
    CASE use[p].as = "none" -> p \in reg["IntMask"]
      [] use[p].as = "in"   -> p \notin reg["PortDDR"] /\ p \in reg["IntMask"]
      [] use[p].as = "out"  -> p \in reg["PortDDR"] /\ p \in reg["IntMask"]
      [] OTHER -> /\ p \notin reg["PortDDR"]
                  /\ p \in reg["IntType"] <=> use[p].edge
                  /\ p \in reg["IntPolarity"] <=> use[p].high
                  /\ p \in reg["IntMask"] <=> p \in masked

\* At no time, not in the middle of a restore either, does a pin drive a level that
\* was not asked for (the order of PortDR and PortDDR, rk3xgpio.c:2446-2464).
NoGlitch ==
  \A p \in Pins \ Busy :
    use[p].as = "out" /\ p \in reg["PortDDR"] => (Driven(p) <=> p \in driven)

\* An edge of the kind asked for stays latched until it is served (the masks of
\* rk3xgpio.c:1821 and the clearing in EnableInterrupt and StartController).  Lines
\* with an emulated second edge are looked at again by GpioClx.
NoEdgeLost ==
  power = "on" => \A p \in pending \ Busy : ~use[p].both => p \in latched

\* Whenever an interrupt can be taken, its line is one in use, and an edge-triggered one
\* has had an edge: nothing is left of an earlier use of the line or of firmware
\* (rk3xgpio.c:1073, 1309), and no line is unmasked, in a restore either, that is not
\* yet edge-triggered again (rk3xgpio.c:2446-2475).  The edge may be a stray one.
NoSpuriousInterrupt ==
  lock = "free" =>
    \A p \in IntStatus :
      /\ power = "on" => IsIrq(p)
      /\ power \in {"on", "starting"} /\ IsIrq(p) /\ use[p].edge => p \in pending
=============================================================================

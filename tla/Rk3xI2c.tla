------------------------------ MODULE Rk3xI2c ------------------------------
(***************************************************************************)
(* The I2C controller driver (drivers/i2c/rk3xi2c: rk3xi2c.c,              *)
(* rockchipi2c.c, clocks.c).                                               *)
(*                                                                         *)
(* SpbCx hands over one request at a time, of one or more transfers.       *)
(* i2c_xfer_single starts a transfer and waits; the interrupt routine      *)
(* feeds the controller buffer by buffer, asks for the STOP and queues the *)
(* DPC that ends the wait.  The wait may also time out, whatever the       *)
(* interrupt routine and the DPC are about to do.                          *)
(***************************************************************************)
EXTENDS Integers, Sequences, FiniteSets, SequencesExt

CONSTANTS
  Requests,   \* sets of [speed, transfers]: a sequence of [read, len]
  BaseClocks, \* what the firmware publishes as "rockchip,bclk", in kHz
  Buffer,     \* bytes in the controller's buffers: 32
  MaxLate     \* bound: requests after one that has timed out and before a power cycle

\* A transfer that writes may be the address alone.  A read has a byte: the controller would
\* raise no interrupt for none, and the driver would wait until the time limit.
ASSUME I2cAssumption ==
  /\ Buffer \in Nat /\ Buffer > 1 /\ MaxLate \in Nat
  /\ BaseClocks \subseteq Nat \ {0}
  /\ \A r \in Requests : /\ r.speed \in Nat \ {0}
                         /\ r.transfers \in Seq({t \in [read : BOOLEAN, len : Nat] : t.read => t.len # 0})
                         /\ r.transfers # <<>>

VARIABLES
  pc,         \* i2c_xfer: "idle", "clear", "start", "wait" or "timeout"
  request, index,           \* the request and the transfer of it that runs
  baseClock, timing,        \* baseClock; what rk3x_i2c_adapt_div has set
  event, dpc,               \* waitEvent is set; the DPC is queued
  state, descriptor, processed, isLastMsg, ok,  \* ok: transactionStatus is a success
  isr,        \* the interrupt routine, if it runs: the pending bits it has read, and its state
  con,        \* bits of REG_CON: subset of {"EN", "START", "STOP", "LASTACK", "RX"}, a
              \* condition's bit only until the controller has generated the condition
  ien, ipd,   \* REG_IEN, REG_IPD
  tx, rx,     \* what waits in the transmit buffer; REG_MRXCNT, what waits to be received
  got,        \* what the receive buffer holds
  wire,       \* what has been on the bus since the request came
  mdl,        \* what has been stored for the transfer that reads
  late,       \* 0, or one more than the requests since one timed out
  result      \* of the last request: "none", "success", "error" or "timeout"

driver == <<state, descriptor, processed, isLastMsg, ok>>
regs   == <<con, ien, ipd, tx, rx, got>>
xfer   == <<request, index, baseClock, timing>>
vars == <<pc, xfer, event, dpc, driver, isr, regs, wire, mdl, late, result>>

NoTransfer == [read |-> FALSE, len |-> 0]
NoRequest  == [speed |-> 0, transfers |-> <<>>]
NoTiming   == [low |-> 0, high |-> 0, sda |-> 0, sta |-> 0, sto |-> 0]
NoIsr      == [on |-> FALSE, ipd |-> {}, state |-> "IDLE"]

\* On the bus: a START condition, a STOP condition, the address, and bytes by their index.
START   == -1
STOP    == -2
Address == 0
Junk    == -3

-----------------------------------------------------------------------------
(* The timings.                                                            *)

CeilDiv(a, b) == (a + b - 1) \div b
Clamp(v, lo, hi) == IF v < lo THEN lo ELSE IF v > hi THEN hi ELSE v

\* rk3x_i2c_get_spec and updateClockSettings, in ns.
SpecOf(speed) ==
  CASE speed <= 100 -> [low |-> 4700, high |-> 4000, start |-> 4700, stop |-> 4000,
                        hold |-> 3450, setup |-> 250, rise |-> 1000, fall |-> 300]
    [] speed > 100 /\ speed <= 400 ->
                       [low |-> 1300, high |-> 600, start |-> 600, stop |-> 600,
                        hold |-> 900, setup |-> 100, rise |-> 300, fall |-> 300]
    [] OTHER        -> [low |-> 500, high |-> 260, start |-> 260, stop |-> 260,
                        hold |-> 400, setup |-> 50, rise |-> 120, fall |-> 120]

\* Of what is left over to slow the bus down, the low half gets its share rounded up.
ExtraLow(low, high, extra) == CeilDiv(low * extra, low + high)

\* Data may change so long after the falling edge and must so long before the rising one.
DataHold(clk, low, cfg)  == CeilDiv((cfg * low + 1) * 1000000, clk)
DataSetup(clk, low, cfg) == CeilDiv(((8 - cfg) * low + 1) * 1000000, clk)

\* Mutant: the low time is stretched by rounding down.
CalcTimingsFast(clk, freq) ==
  LET speed == Clamp(freq, 1, 1000)
      s     == SpecOf(speed)
      high  == CeilDiv(clk * (s.rise + s.high), 8000000)
      low   == (clk * (s.fall + s.low)) \div 8000000
  IN [low |-> low, high |-> high, sda |-> 3, sta |-> 1, sto |-> 1]

\* rk3x_i2c_v1_calc_timings, clk and freq in kHz.  The registers hold each value less one.
CalcTimings(clk, freq) ==
  LET speed == Clamp(freq, 1, 1000)
      s     == SpecOf(speed)
      total == CeilDiv(clk, speed * 8)
      high  == CeilDiv(clk * (s.rise + s.high), 8000000)
      low   == CeilDiv(clk * (s.fall + s.low), 8000000)
      extra == total - (low + high)
      l == IF extra <= 0 THEN low ELSE low + ExtraLow(low, high, extra)
      h == IF extra <= 0 THEN high ELSE high + extra - ExtraLow(low, high, extra)
      fit == {c \in 1 .. 3 : DataHold(clk, l, c) < s.hold /\ DataSetup(clk, l, c) > s.setup}
  IN [low  |-> l, high |-> h,
      sda  |-> IF fit = {} THEN 0 ELSE CHOOSE c \in fit : \A d \in fit : d <= c,
      sta  |-> CeilDiv(clk * (s.rise + s.start) - 1000000, 8000000 * h),
      sto  |-> CeilDiv(clk * (s.rise + s.stop) - 1000000, 8000000 * h)]

-----------------------------------------------------------------------------
Init ==
  /\ pc = "idle" /\ request = NoRequest /\ index = 1
  /\ baseClock \in BaseClocks /\ timing = NoTiming
  /\ event = FALSE /\ dpc = FALSE
  /\ state = "IDLE" /\ descriptor = NoTransfer /\ processed = 0 /\ isLastMsg = FALSE /\ ok = TRUE
  /\ isr = NoIsr
  /\ con = {} /\ ien = {} /\ ipd = {} /\ tx = <<>> /\ rx = 0 /\ got = <<>>
  /\ wire = <<>> /\ mdl = <<>> /\ late = 0 /\ result = "none"

-----------------------------------------------------------------------------
(* i2c_xfer and i2c_xfer_single.                                           *)

\* rk3x_i2c_adapt_div disables the interrupt, which waits for its routine to end.
Submit ==
  /\ pc = "idle" /\ ~isr.on /\ late <= MaxLate
  /\ late' = IF late = 0 THEN 0 ELSE late + 1
  /\ request' \in Requests /\ index' = 1
  /\ timing' = CalcTimings(baseClock, request'.speed)
  /\ wire' = <<>> /\ mdl' = <<>> /\ result' = "none"
  /\ pc' = "clear"
  /\ UNCHANGED <<baseClock, event, dpc, driver, isr, regs>>

ClearEvent ==
  /\ pc = "clear"
  /\ event' = FALSE /\ pc' = "start"
  /\ UNCHANGED <<xfer, dpc, driver, isr, regs, wire, mdl, late, result>>

\* The transfer is set up, and rk3x_i2c_start asks for the START condition.  What an
\* earlier transfer has left in REG_IPD stays.
StartTransfer ==
  /\ pc = "start"
  /\ descriptor' = request.transfers[index]
  /\ isLastMsg' = FALSE /\ state' = "START" /\ processed' = 0 /\ ok' = TRUE
  /\ ien' = {"START"} /\ con' = {"EN", "START"}
  /\ tx' = <<>> /\ rx' = 0 /\ mdl' = <<>>
  /\ pc' = "wait"
  /\ UNCHANGED <<xfer, event, dpc, isr, ipd, got, wire, late, result>>

\* The wait ends well: on to the next transfer, if this one has succeeded.
WaitEnds ==
  /\ pc = "wait" /\ event
  /\ IF ok /\ index < Len(request.transfers)
     THEN pc' = "clear" /\ index' = index + 1 /\ UNCHANGED result
     ELSE pc' = "idle" /\ result' = (IF ok THEN "success" ELSE "error") /\ UNCHANGED index
  /\ UNCHANGED <<request, baseClock, timing, event, dpc, driver, isr, regs, wire, mdl, late>>

\* The wait times out: a STOP condition without an interrupt, and the rest of the request
\* is dropped.
TimeOut ==
  /\ pc = "wait" /\ ~event
  /\ late' = IF late = 0 THEN 1 ELSE late
  /\ ien' = {} /\ con' = {"EN", "STOP"}
  /\ pc' = "timeout"
  /\ UNCHANGED <<xfer, event, dpc, driver, isr, ipd, tx, rx, got, wire, mdl, result>>

EndTimeOut ==
  /\ pc = "timeout"
  /\ state' = "IDLE" /\ pc' = "idle" /\ result' = "timeout"
  /\ UNCHANGED <<xfer, event, dpc, descriptor, processed, isLastMsg, ok, isr, regs, wire, mdl, late>>

\* rk3x_i2c_dpc.
Dpc ==
  /\ dpc
  /\ dpc' = FALSE /\ event' = TRUE
  /\ UNCHANGED <<pc, xfer, driver, isr, regs, wire, mdl, late, result>>

\* Down to D3 and back between two requests: the framework has the interrupt disconnected and
\* no DPC left, the controller loses its registers, and the driver restores none of them.
PowerCycle ==
  /\ pc = "idle" /\ ~isr.on /\ ~dpc
  /\ con' = {} /\ ien' = {} /\ ipd' = {} /\ tx' = <<>> /\ rx' = 0 /\ got' = <<>> /\ timing' = NoTiming
  /\ late' = 0 /\ result' = "none" /\ wire' = <<>> /\ mdl' = <<>>
  /\ UNCHANGED <<pc, request, index, baseClock, event, dpc, driver, isr>>

-----------------------------------------------------------------------------
(* The interrupt routine rk3x_i2c_irq.                                     *)

\* It reads REG_IPD and the state.
IsrEnters ==
  /\ ipd \cap ien # {} /\ ~isr.on
  /\ IF state = "IDLE"
     THEN ipd' = {} /\ UNCHANGED isr
     ELSE isr' = [on |-> TRUE, ipd |-> ipd, state |-> state] /\ UNCHANGED ipd
  /\ UNCHANGED <<pc, xfer, event, dpc, driver, con, ien, tx, rx, got, wire, mdl, late, result>>

\* rk3x_i2c_stop: a STOP condition after the last message, the end of the transfer
\* otherwise.
Stop(last, good) ==
  /\ processed' = 0 /\ descriptor' = NoTransfer /\ ok' = good /\ isLastMsg' = last
  /\ IF last
     THEN /\ ien' = {"STOP"} /\ state' = "STOP" /\ con' = con \cup {"STOP"}
          /\ UNCHANGED <<dpc, tx, rx>>
     ELSE /\ state' = "IDLE" /\ con' = {} /\ tx' = <<>> /\ rx' = 0
          /\ dpc' = TRUE /\ UNCHANGED ien

\* rk3x_i2c_fill_transmit_buf: the address goes ahead of the first bytes.  With nothing left
\* to send it fills the buffer from beyond the memory of the transfer, which fails.
FillTransmitBuf(done, len) ==
  LET room == IF done = 0 THEN Buffer - 1 ELSE Buffer
      beyond == done >= len /\ done # 0
      n    == IF beyond \/ len - done > room THEN room ELSE len - done
      bytes == [i \in 1 .. n |-> IF done + i <= len THEN done + i ELSE Junk]
  IN /\ tx' = IF done = 0 THEN <<Address>> \o bytes ELSE bytes
     /\ processed' = done + n /\ ok' = (ok /\ ~beyond)

\* rk3x_i2c_prepare_read: the byte after which the controller answers NACK is the last.
\* The length is unsigned.
PrepareRead(done, len) ==
  LET more == len - done > Buffer \/ len < done IN
  /\ rx' = IF more THEN Buffer ELSE len - done
  /\ con' = ((con \ {"START", "LASTACK"}) \cup (IF more THEN {} ELSE {"LASTACK"}))
              \cup (IF done # 0 THEN {"RX"} ELSE {})

\* The end of the interrupt routine, with what it has acknowledged.
IsrEnds(acked) == isr' = NoIsr /\ ipd' = ipd \ acked

\* Mutant: a device that does not answer is not noticed.
ReadInterruptsNoNak == {"MBRF"}

\* The interrupts of a transfer that reads.
ReadInterrupts == {"MBRF", "NAKRCV"}

HandleStart ==
  /\ isr.on /\ isr.state = "START" /\ "START" \in isr.ipd
  /\ IsrEnds({"START"})
  /\ IF descriptor.read
     THEN /\ state' = "READ" /\ ien' = ReadInterrupts
          /\ PrepareRead(processed, descriptor.len)
          /\ UNCHANGED <<tx, processed, ok>>
     ELSE /\ state' = "WRITE" /\ ien' = {"MBTF", "NAKRCV"} /\ con' = con \ {"START"}
          /\ FillTransmitBuf(processed, descriptor.len)
          /\ UNCHANGED rx
  /\ UNCHANGED <<pc, xfer, event, dpc, descriptor, isLastMsg, got, wire, mdl, late, result>>

\* The message is through.
Finished == processed >= descriptor.len

HandleWrite ==
  /\ isr.on /\ isr.state = "WRITE" /\ "MBTF" \in isr.ipd /\ "NAKRCV" \notin isr.ipd
  /\ IsrEnds({"MBTF"})
  /\ IF Finished
     THEN Stop(TRUE, ok)
     ELSE /\ FillTransmitBuf(processed, descriptor.len)
          /\ UNCHANGED <<dpc, state, descriptor, isLastMsg, con, ien, rx>>
  /\ UNCHANGED <<pc, xfer, event, got, wire, mdl, late, result>>

HandleRead ==
  /\ isr.on /\ isr.state = "READ" /\ "MBRF" \in isr.ipd /\ "NAKRCV" \notin isr.ipd
  /\ IsrEnds({"MBRF", "START"})
  /\ LET left == descriptor.len - processed
         n == IF left > Buffer THEN Buffer ELSE IF left < 0 THEN 0 ELSE left
     IN
     /\ mdl' = mdl \o [i \in 1 .. n |-> IF i \in DOMAIN got THEN got[i] ELSE Junk]
     /\ IF left <= Buffer
        THEN Stop(TRUE, ok /\ left >= 0)
        ELSE /\ processed' = processed + n /\ PrepareRead(processed + n, descriptor.len)
             /\ UNCHANGED <<dpc, state, descriptor, isLastMsg, ok, ien, tx>>
  /\ UNCHANGED <<pc, xfer, event, got, wire, late, result>>

HandleStop ==
  /\ isr.on /\ isr.state = "STOP" /\ "STOP" \in isr.ipd /\ "NAKRCV" \notin isr.ipd
  /\ IsrEnds({"STOP"})
  /\ con' = con \ {"STOP"} /\ state' = "IDLE" /\ dpc' = TRUE
  /\ UNCHANGED <<pc, xfer, event, descriptor, processed, isLastMsg, ok, ien, tx, rx, got, wire, mdl,
                 late, result>>

\* Mutant: a message that is not acknowledged counts as sent.
HandleNakIgnored ==
  /\ isr.on /\ "NAKRCV" \in isr.ipd /\ ~isLastMsg
  /\ IsrEnds({"NAKRCV"}) /\ Stop(FALSE, ok)
  /\ UNCHANGED <<pc, xfer, event, got, wire, mdl, late, result>>

\* The device does not answer: the message ends without a STOP condition, unless that is
\* what it was waiting for.
HandleNak ==
  /\ isr.on /\ "NAKRCV" \in isr.ipd
  /\ IF isLastMsg /\ "STOP" \in isr.ipd
     THEN /\ IsrEnds({"NAKRCV", "STOP"})
          /\ processed' = 0 /\ descriptor' = NoTransfer /\ ok' = FALSE
          /\ ien' = {"STOP"} /\ con' = con \ {"STOP"} /\ state' = "IDLE" /\ dpc' = TRUE
          /\ UNCHANGED <<isLastMsg, tx, rx>>
     ELSE /\ IsrEnds(IF isLastMsg /\ isr.ipd # {"NAKRCV"} THEN ipd ELSE {"NAKRCV"})
          /\ Stop(isLastMsg, FALSE)
  /\ UNCHANGED <<pc, xfer, event, got, wire, mdl, late, result>>

\* An interrupt the state does not expect is an error, and everything pending is
\* acknowledged.
HandleUnexpected ==
  /\ isr.on /\ "NAKRCV" \notin isr.ipd
  /\ isr.state \in {"START", "WRITE", "STOP"}
  /\ [START |-> "START", WRITE |-> "MBTF", STOP |-> "STOP"][isr.state] \notin isr.ipd
  /\ isr' = NoIsr /\ ipd' = {}
  /\ Stop(isLastMsg, FALSE)
  /\ UNCHANGED <<pc, xfer, event, got, wire, mdl, late, result>>

\* The transfer has timed out since the routine was entered.
HandleNothing ==
  /\ isr.on /\ state = "IDLE" /\ "NAKRCV" \notin isr.ipd
  /\ isr' = NoIsr
  /\ UNCHANGED <<pc, xfer, event, dpc, driver, regs, wire, mdl, late, result>>

-----------------------------------------------------------------------------
(* The controller and the device on the bus.                               *)

Hw == UNCHANGED <<pc, xfer, event, dpc, driver, isr, ien, late, result>>

BusStart ==
  /\ {"EN", "START"} \subseteq con
  /\ con' = con \ {"START"} /\ ipd' = ipd \cup {"START"} /\ wire' = Append(wire, START)
  /\ UNCHANGED <<tx, rx, got, mdl>> /\ Hw

\* The transmit buffer goes out, or the device answers NACK to a byte of it.
BusSends ==
  /\ tx # <<>> /\ "EN" \in con
  /\ \/ wire' = wire \o tx /\ ipd' = ipd \cup {"MBTF"}
     \/ /\ \E n \in 1 .. Len(tx) : wire' = wire \o SubSeq(tx, 1, n)
        /\ ipd' = ipd \cup {"NAKRCV"}
  /\ tx' = <<>>
  /\ UNCHANGED <<con, rx, got, mdl>> /\ Hw

\* The receive buffer fills up, or the device does not answer.  Before the first bytes the
\* address goes out.  A spurious START comes along.
BusReceives ==
  /\ rx > 0 /\ "EN" \in con
  /\ LET out == IF "RX" \in con THEN wire ELSE Append(wire, Address)
         sent == IF out = <<>> THEN 0 ELSE Last(out)
     IN
     \/ /\ got' = [i \in 1 .. rx |-> sent + i]
        /\ wire' = out \o got' /\ ipd' = ipd \cup {"MBRF", "START"}
     \/ /\ "RX" \notin con
        /\ wire' = out /\ ipd' = ipd \cup {"NAKRCV"} /\ UNCHANGED got
  /\ rx' = 0
  /\ UNCHANGED <<con, tx, mdl>> /\ Hw

BusStops ==
  /\ {"EN", "STOP"} \subseteq con
  /\ con' = con \ {"STOP"} /\ ipd' = ipd \cup {"STOP"} /\ wire' = Append(wire, STOP)
  /\ UNCHANGED <<tx, rx, got, mdl>> /\ Hw

Next ==
  \/ Submit \/ ClearEvent \/ StartTransfer \/ WaitEnds \/ TimeOut \/ EndTimeOut \/ Dpc \/ PowerCycle
  \/ IsrEnters \/ HandleStart \/ HandleWrite \/ HandleRead \/ HandleStop \/ HandleNak \/ HandleUnexpected
  \/ HandleNothing
  \/ BusStart \/ BusSends \/ BusReceives \/ BusStops

Spec == Init /\ [][Next]_vars

-----------------------------------------------------------------------------
(* Properties.                                                             *)

\* What a transfer looks like on the bus: each has a STOP condition of its own.
OnTheWire(t) == <<START, Address>> \o [i \in 1 .. t.len |-> i] \o <<STOP>>

\* A request that ends well has put on the bus what its transfers say, byte by byte.
TransferredAsAsked ==
  result = "success" =>
    /\ wire = FlattenSeq([i \in DOMAIN request.transfers |-> OnTheWire(request.transfers[i])])
    /\ Last(request.transfers).read => mdl = [i \in 1 .. Last(request.transfers).len |-> i]

\* As long as no wait has timed out since the controller came to power that holds: interrupt
\* routine, DPC and thread never take the event of one transfer for that of another.
TransfersAsAskedInTime == late = 0 => TransferredAsAsked

\* Nor does a wait go on in vain then: something is still to come from the controller, from
\* the interrupt routine or from the DPC, unless the device hangs the bus.
WaitIsServed ==
  pc = "wait" /\ late = 0 =>
    event \/ dpc \/ isr.on \/ ipd \cap ien # {}
      \/ {"EN", "START"} \subseteq con \/ {"EN", "STOP"} \subseteq con \/ tx # <<>> \/ rx > 0

\* The SCL times of the transfer that runs are those of its target: not faster than the
\* target allows, and every time of the I2C specification is kept.
TimingsMeetSpec ==
  pc = "wait" =>
    LET s == SpecOf(request.speed)
        AtLeast(cycles, ns) == cycles * 1000 >= ns * (baseClock \div 1000)
    IN /\ AtLeast(8 * timing.low, s.low + s.fall) /\ AtLeast(8 * timing.high, s.high + s.rise)
       /\ 8 * (timing.low + timing.high) * request.speed >= baseClock
       /\ timing.sda \in 1 .. 3 /\ timing.sta \in 1 .. 4 /\ timing.sto \in 1 .. 4
       /\ ~AtLeast(timing.low * timing.sda + 1, s.hold)
       /\ AtLeast((8 - timing.sda) * timing.low + 1, s.setup)
       /\ AtLeast(8 * timing.high * timing.sta + 1, s.start)
       /\ AtLeast(8 * timing.high * timing.sto + 1, s.stop)
=============================================================================

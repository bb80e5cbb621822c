------------------------------- MODULE Rk3xSpi -------------------------------
(***************************************************************************)
(* The SPI controller driver (drivers/spi/rk3xspi: spb.c, hw.c).           *)
(*                                                                         *)
(* SpbCx hands over one request at a time: a read, a write, a sequence of  *)
(* segments or a full-duplex exchange with a target.  Rk3xSpiTransfer      *)
(* runs it on the controller, which shifts bytes between two FIFOs while   *)
(* the driver polls them; each byte sent makes one byte arrive.            *)
(*                                                                         *)
(* Byte j of segment i of a request is <<i, j>>.  The device answers the   *)
(* n-th frame of a transfer with the number n.                             *)
(***************************************************************************)
EXTENDS Integers, Sequences, SequencesExt

CONSTANTS
  Descriptors,  \* what ACPI says of a target: [bits, speed, mode]
  Requests,     \* [kind, segs], segs a sequence of [write, len]
  FIFO_DEPTH,   \* RKSPI_FIFO_DEPTH: how far sending may be ahead of receiving
  HwDepth,      \* the depth of the FIFOs of the controller
  MAX_FRAMES,   \* RKSPI_MAX_FRAMES
  InputClock, DefaultSpeed, BAUDR_MIN, BAUDR_MAX

SpiAssumption ==
  /\ FIFO_DEPTH \in Nat \ {0} /\ HwDepth \in Nat /\ FIFO_DEPTH <= HwDepth
  /\ MAX_FRAMES \in Nat \ {0} /\ InputClock \in Nat \ {0} /\ DefaultSpeed \in Nat \ {0}
  /\ BAUDR_MIN \in Nat \ {0} /\ BAUDR_MAX \in Nat \ {0} /\ BAUDR_MAX % 2 = 0
  /\ \A d \in Descriptors : d.bits \in Nat /\ d.speed \in Nat
  /\ \A r \in Requests :
       /\ r.segs \in Seq([write : BOOLEAN, len : Nat])
       /\ \/ r.kind = "Read" /\ Len(r.segs) = 1 /\ ~r.segs[1].write
          \/ r.kind = "Write" /\ Len(r.segs) = 1 /\ r.segs[1].write
          \/ r.kind = "Sequence"
          \/ r.kind = "FullDuplex" /\ Len(r.segs) = 2 /\ r.segs[1].write /\ ~r.segs[2].write

None == "None"
Zero == <<0, 0>>

VARIABLES
  target,                \* the context of the target, NoTarget before it connects
  req, status,           \* the request that is served, what it will be completed with
  pool,                  \* the buffers of a sequence
  tx, rx,                \* Tx and Rx of Rk3xSpiTransfer
  done, chunk, txi, rxi, \* its local variables
  pc,
  enabled, ser, config,  \* SSIENR, SER; CTRLR0 and BAUDR
  txFifo, shift, rxFifo, \* the FIFOs, the byte being shifted, if any
  settling,              \* SR_BUSY is still set after a frame
  wire,                  \* the bytes sent to the device in this transfer
  result                 \* what the last request returned, until the next comes
request == <<req, status, pool, tx>>
loop == <<rx, done, chunk, txi, rxi>>
regs == <<enabled, ser, config>>
hw == <<txFifo, shift, rxFifo, settling>>
fifos == <<hw, wire>>
vars == <<target, request, loop, pc, regs, fifos, result>>

NoTarget  == [speed |-> 0, mode |-> 0, baudr |-> 0]
NoRequest == [kind |-> None, segs |-> <<>>]
NoResult  == [req |-> NoRequest, status |-> None, information |-> 0, segs |-> <<>>, wire |-> <<>>]

\* After Rk3xSpiHwInit.
Init ==
  /\ target = NoTarget /\ req = NoRequest /\ status = None /\ pool = {} /\ tx = <<>> /\ rx = <<>>
  /\ done = 0 /\ chunk = 0 /\ txi = 0 /\ rxi = 0 /\ pc = "idle"
  /\ enabled = FALSE /\ ser = FALSE /\ config = [mode |-> 0, baudr |-> 0]
  /\ txFifo = <<>> /\ shift = <<>> /\ rxFifo = <<>> /\ settling = FALSE
  /\ wire = <<>> /\ result = NoResult

-----------------------------------------------------------------------------
(* Connecting a target.                                                    *)

Rk3xSpiComputeBaudr(speed) ==
  LET up    == (InputClock + speed - 1) \div speed
      least == IF up < BAUDR_MIN THEN BAUDR_MIN ELSE up
      even  == ((least + 1) \div 2) * 2
  IN IF even > BAUDR_MAX THEN BAUDR_MAX ELSE even

\* Rk3xSpiEvtTargetConnect; a descriptor with other than 8 bits is refused.
TargetConnect(d) ==
  LET speed == IF d.speed = 0 THEN DefaultSpeed ELSE d.speed
  IN /\ pc = "idle" /\ d.bits = 8
     /\ target' = [speed |-> speed, mode |-> d.mode, baudr |-> Rk3xSpiComputeBaudr(speed)]
     /\ UNCHANGED <<request, loop, pc, regs, fifos, result>>

-----------------------------------------------------------------------------
(* The callbacks of SpbCx up to Rk3xSpiTransfer.                           *)

Data(r, i)   == [j \in 1 .. r.segs[i].len |-> <<i, j>>]
Zeros(n)     == [j \in 1 .. n |-> Zero]
Gather(r)    == FlattenSeq([i \in 1 .. Len(r.segs) |->
                             IF r.segs[i].write THEN Data(r, i) ELSE Zeros(r.segs[i].len)])
Total(segs)  ==
  LET total[i \in 0 .. Len(segs)] == IF i = 0 THEN 0 ELSE total[i - 1] + segs[i].len
  IN total[Len(segs)]
Offset(r, i) == Total(SubSeq(r.segs, 1, i - 1))

\* What is sent: nothing stands for zeros.
TxOf(r) ==
  CASE r.kind = "Read" -> Zeros(r.segs[1].len)
    [] r.kind = "Sequence" -> Gather(r)
    [] OTHER -> Data(r, 1)

\* Is there something to transfer, or does the callback complete the request itself?
Acceptable(r) ==
  CASE r.kind = "Sequence" -> Total(r.segs) # 0
    [] r.kind = "FullDuplex" -> r.segs[1].len = r.segs[2].len
    [] OTHER -> TRUE

\* A callback begins.  Memory may be short: the buffer cannot be mapped, or one of the
\* buffers of a sequence not be had.
Begin(r) ==
  /\ pc = "idle" /\ target # NoTarget
  /\ req' = r /\ tx' = TxOf(r)
  /\ \E short \in BOOLEAN, got \in SUBSET {"tx", "rx"} :
       /\ pool' = IF r.kind = "Sequence" /\ Acceptable(r) THEN got ELSE {}
       /\ LET failed == short \/ (r.kind = "Sequence" /\ got # {"tx", "rx"})
          IN /\ status' = IF ~Acceptable(r) THEN "InvalidParameter"
                          ELSE IF ~failed THEN "Success"
                          ELSE IF r.kind = "FullDuplex" THEN "InvalidParameter"
                          ELSE "InsufficientResources"
             /\ pc' = IF status' = "Success" THEN "transfer" ELSE "complete"
  /\ rx' = <<>> /\ done' = 0 /\ chunk' = 0 /\ txi' = 0 /\ rxi' = 0 /\ wire' = <<>>
  /\ result' = NoResult
  /\ UNCHANGED <<target, regs, hw>>

-----------------------------------------------------------------------------
(* Rk3xSpiTransfer.                                                        *)

\* SSIENR = 0 halts the controller and empties its FIFOs.
Disable ==
  enabled' = FALSE /\ txFifo' = <<>> /\ shift' = <<>> /\ settling' = FALSE /\ rxFifo' = <<>>

Busy == txFifo # <<>> \/ shift # <<>> \/ settling

Configure ==
  /\ pc = "transfer"
  /\ IF tx = <<>>
       THEN pc' = "complete" /\ UNCHANGED <<regs, hw>>
       ELSE /\ Disable
            /\ config' = [mode |-> target.mode, baudr |-> target.baudr]
            /\ pc' = "chunk" /\ UNCHANGED ser
  /\ UNCHANGED <<target, request, loop, wire, result>>

\* The outer loop: the controller is disabled to set the number of frames.
ChunkDisable ==
  /\ pc = "chunk" /\ done < Len(tx)
  /\ chunk' = IF Len(tx) - done > MAX_FRAMES THEN MAX_FRAMES ELSE Len(tx) - done
  /\ txi' = 0 /\ rxi' = 0
  /\ Disable
  /\ pc' = "enable"
  /\ UNCHANGED <<target, request, rx, done, ser, config, wire, result>>

ChunkEnable ==
  /\ pc = "enable"
  /\ enabled' = TRUE /\ ser' = TRUE
  /\ pc' = "push"
  /\ UNCHANGED <<target, request, loop, config, fifos, result>>

MayPush == txi < chunk /\ txi - rxi < FIFO_DEPTH /\ Len(txFifo) < HwDepth

Push ==
  /\ pc = "push" /\ MayPush
  /\ txFifo' = Append(txFifo, tx[done + txi + 1])
  /\ txi' = txi + 1
  /\ UNCHANGED <<target, request, rx, done, chunk, rxi, pc, regs, shift, rxFifo, settling, wire, result>>

PushEnd ==
  /\ pc = "push" /\ ~MayPush
  /\ pc' = "drain"
  /\ UNCHANGED <<target, request, loop, regs, fifos, result>>

Drain ==
  /\ pc = "drain" /\ rxi < chunk /\ rxFifo # <<>>
  /\ rx' = Append(rx, Head(rxFifo)) /\ rxFifo' = Tail(rxFifo)
  /\ rxi' = rxi + 1
  /\ UNCHANGED <<target, request, done, chunk, txi, pc, regs, txFifo, shift, settling, wire, result>>

\* The receive FIFO is empty or the chunk complete; time is not up.
DrainEnd ==
  /\ pc = "drain" /\ ~(rxi < chunk /\ rxFifo # <<>>)
  /\ pc' = IF rxi < chunk THEN "push" ELSE "busy"
  /\ UNCHANGED <<target, request, loop, regs, fifos, result>>

\* SR_BUSY has cleared.
ChunkDone ==
  /\ pc = "busy" /\ ~Busy
  /\ done' = done + chunk
  /\ pc' = IF done' < Len(tx) THEN "chunk" ELSE "done"
  /\ UNCHANGED <<target, request, rx, chunk, txi, rxi, regs, fifos, result>>

\* Mutant: the wait for the shift engine has no limit.
TimedOutReceiving ==
  /\ pc = "drain" /\ ~(rxi < chunk /\ rxFifo # <<>>)
  /\ status' = "IoTimeout" /\ pc' = "done"
  /\ UNCHANGED <<target, req, pool, tx, loop, regs, fifos, result>>

\* A second has passed since the transfer began.
TimedOut ==
  /\ \/ pc = "drain" /\ ~(rxi < chunk /\ rxFifo # <<>>)
     \/ pc = "busy" /\ Busy
  /\ status' = "IoTimeout" /\ pc' = "done"
  /\ UNCHANGED <<target, req, pool, tx, loop, regs, fifos, result>>

\* Done: SER = 0, SSIENR = 0
TransferEnd ==
  /\ pc = "done"
  /\ ser' = FALSE /\ Disable
  /\ pc' = "complete"
  /\ UNCHANGED <<target, request, loop, config, wire, result>>

-----------------------------------------------------------------------------
(* The callbacks of SpbCx after Rk3xSpiTransfer.                           *)

\* Mutant: write segments are not counted when received bytes are scattered.
ScatterReadsOnly(r, bytes) ==
  [i \in 1 .. Len(r.segs) |->
     LET before == Total(SelectSeq(SubSeq(r.segs, 1, i - 1), LAMBDA s : ~s.write))
     IN IF r.segs[i].write THEN <<>> ELSE SubSeq(bytes, before + 1, before + r.segs[i].len)]

\* The received bytes of a sequence go to its read segments.
Scatter(r, bytes) ==
  [i \in 1 .. Len(r.segs) |->
     IF r.segs[i].write THEN <<>>
     ELSE SubSeq(bytes, Offset(r, i) + 1, Offset(r, i) + r.segs[i].len)]

\* Where the bytes end up.
Received(r, bytes) ==
  CASE r.kind = "Read" -> <<bytes>>
    [] r.kind = "Write" -> << <<>> >>
    [] r.kind = "Sequence" -> Scatter(r, bytes)
    [] r.kind = "FullDuplex" -> << <<>>, bytes >>

\* The request is completed, the buffers are freed.
Complete ==
  /\ pc = "complete"
  /\ result' = [req |-> req, status |-> status,
                information |-> IF status = "Success" THEN Len(tx) ELSE 0,
                segs |-> IF status = "Success" THEN Received(req, rx) ELSE <<>>,
                wire |-> wire]
  /\ pool' = {}
  /\ req' = NoRequest /\ pc' = "idle"
  /\ UNCHANGED <<target, status, tx, loop, regs, fifos>>

-----------------------------------------------------------------------------
(* The controller and the device (external).                               *)

HwShift ==
  /\ enabled /\ ser /\ txFifo # <<>> /\ shift = <<>>
  /\ shift' = <<Head(txFifo)>> /\ txFifo' = Tail(txFifo) /\ settling' = FALSE
  /\ UNCHANGED <<target, request, loop, pc, regs, rxFifo, wire, result>>

\* The byte is out, the answer is in.
HwShifted ==
  /\ shift # <<>>
  /\ wire' = wire \o shift /\ shift' = <<>> /\ settling' = TRUE
  /\ rxFifo' = Append(rxFifo, Len(wire'))
  /\ UNCHANGED <<target, request, loop, pc, regs, txFifo, result>>

HwSettled ==
  /\ settling /\ settling' = FALSE
  /\ UNCHANGED <<target, request, loop, pc, regs, txFifo, shift, rxFifo, wire, result>>

-----------------------------------------------------------------------------
Callbacks == (\E d \in Descriptors : TargetConnect(d)) \/ (\E r \in Requests : Begin(r))

Serve ==
  \/ Configure \/ ChunkDisable \/ ChunkEnable \/ Push \/ PushEnd \/ Drain \/ DrainEnd
  \/ ChunkDone \/ TransferEnd \/ Complete

Next == Callbacks \/ Serve \/ TimedOut \/ HwShift \/ HwShifted \/ HwSettled

Spec == Init /\ [][Next]_vars

\* The thread of the request runs and time passes; the controller may hang.
FairSpec == Spec /\ WF_vars(Serve) /\ SF_vars(TimedOut)

-----------------------------------------------------------------------------
(* Properties.                                                             *)

TypeOK ==
  /\ target.baudr \in 0 .. BAUDR_MAX
  /\ pool \subseteq {"tx", "rx"}
  /\ done \in 0 .. Len(tx) /\ chunk \in 0 .. MAX_FRAMES /\ rxi \in 0 .. chunk /\ txi \in 0 .. chunk
  /\ enabled \in BOOLEAN /\ ser \in BOOLEAN
  /\ status \in {None, "Success", "InvalidParameter", "InsufficientResources", "IoTimeout"}
  /\ pc \in {"idle", "transfer", "chunk", "enable", "push", "drain", "busy", "done", "complete"}

\* The gap between txi and rxi keeps the receive FIFO from overflowing, whatever the
\* controller has shifted between two looks at it.
NoOverflow == Len(rxFifo) <= HwDepth

\* The bytes of the receive FIFO are the answers to the bytes of this chunk: none is
\* left over from a transfer that timed out.
FifoIsOurs ==
  pc \in {"push", "drain"} =>
    Len(txFifo) + Len(shift) + Len(rxFifo) = txi - rxi

\* While the controller shifts, it is set up for the target of the request, no faster
\* than the target allows where the divider reaches that far, and with an even divider.
SetUpForTarget ==
  shift # <<>> =>
    /\ config = [mode |-> target.mode, baudr |-> target.baudr]
    /\ config.baudr % 2 = 0
    /\ target.speed * BAUDR_MAX >= InputClock => config.baudr * target.speed >= InputClock

\* Byte i, in the order in which the bytes of a request are clocked, is byte j of
\* segment s.
ClockedAt(r, s, j) == IF r.kind = "FullDuplex" THEN j ELSE Offset(r, s) + j

\* A request that succeeds has sent every byte of its write segments and has in its
\* read segments the answers to the frames at their place; one that fails reports no
\* bytes.
TransfersAsAsked ==
  LET r == result.req
  IN IF result.status = "Success"
       THEN /\ result.information = Len(result.wire)
            /\ \A s \in 1 .. Len(r.segs) :
                 /\ r.segs[s].write => \A j \in 1 .. r.segs[s].len :
                      result.wire[ClockedAt(r, s, j)] = <<s, j>>
                 /\ ~r.segs[s].write => result.segs[s] =
                      [j \in 1 .. r.segs[s].len |-> ClockedAt(r, s, j)]
       ELSE result.information = 0

\* Between requests the controller is disabled, no target is selected and no buffer of
\* a sequence is left behind.
IdleBetweenRequests == pc = "idle" => ~enabled /\ ~ser /\ pool = {}

\* Every request is completed, even if the controller hangs: the timeout ends it.
RequestsComplete == []<>(pc = "idle")

=============================================================================

------------------------------ MODULE MCDmaSpi ------------------------------
(* Small instances for TLC, one of them at a time: the channels of the DMA *)
(* controller with a playing and a recording stream, the microcode one of  *)
(* them executes, and the SPI controller; what is not there keeps its initial  *)
(* state or has none.                                                      *)
EXTENDS Pl330Channel, Integers, Sequences

CONSTANTS
  DmaRequests,
  Descriptors, SpiRequests, FIFO_DEPTH, HwDepth, MAX_FRAMES, InputClock, DefaultSpeed,
  BAUDR_MIN, BAUDR_MAX

VARIABLES
  part,  \* "channels", "program" or "spi"
  req,   \* of the program or of the SPI controller
  insnAt, spiAt,  \* pc of Pl330Program, of Rk3xSpi
  code, lc, ccrLen, period, moved, events,
  target, spiStatus, pool, tx, rx, done, chunk, txi, rxi, spiEnabled, ser, config,
  txFifo, shift, rxFifo, settling, wire, result

P == INSTANCE Pl330Program WITH Requests <- DmaRequests, pc <- insnAt
S == INSTANCE Rk3xSpi WITH Requests <- SpiRequests, pc <- spiAt,
                           status <- spiStatus, enabled <- spiEnabled

ASSUME InstanceAssumption == P!RequestsAssumption /\ S!SpiAssumption

-----------------------------------------------------------------------------
(* The requests.                                                           *)

Req(periods, periodLen, fromDevice) ==
  [len |-> periods * periodLen, periodLen |-> periodLen, fromDevice |-> fromDevice]

\* Periods of 1, 256, 257 and 515 bursts, with and without words and half words left over,
\* and numbers of periods on both sides of 256.  A buffer has two periods in the audio driver.
Boundaries ==
  {Req(2, 32 * b + w, FALSE) : b \in {1, 256, 257, 515}, w \in {0, 30}}
    \cup {Req(2, 32 * b + 2, TRUE) : b \in {1, 257}}
    \cup {Req(n, 36, FALSE) : n \in {1, 257, 515}}

Desc(bits, speed, mode) == [bits |-> bits, speed |-> speed, mode |-> mode]
Write(n) == [write |-> TRUE, len |-> n]
Read(n) == [write |-> FALSE, len |-> n]
Request(kind, segs) == [kind |-> kind, segs |-> segs]

\* An input clock of 100: targets slower and faster than it, one the divider does not
\* divide, one without a speed, one that is too slow, one with wide frames.
Targets ==
  {Desc(8, 200, 0), Desc(8, 22, 3), Desc(8, 0, 1), Desc(8, 4, 0), Desc(16, 22, 0)}

\* Requests of up to six bytes, in chunks of up to four.
Transfers ==
  {Request("Read", <<Read(5)>>), Request("Write", <<Write(6)>>), Request("Write", <<Write(0)>>),
   Request("Sequence", <<Write(1), Read(2)>>),
   Request("Sequence", <<Read(1), Write(2), Read(2)>>),
   Request("Sequence", <<Write(0), Read(0)>>),
   Request("FullDuplex", <<Write(3), Read(3)>>), Request("FullDuplex", <<Write(1), Read(2)>>)}

-----------------------------------------------------------------------------
programOnly == <<insnAt, code, lc, ccrLen, period, moved, events>>
spiOnly == <<spiAt, target, spiStatus, pool, tx, rx, done, chunk, txi, rxi, spiEnabled, ser, config,
             txFifo, shift, rxFifo, settling, wire, result>>

NoProgram ==
  insnAt = 0 /\ code = 0 /\ lc = 0 /\ ccrLen = 0 /\ period = 0 /\ moved = 0 /\ events = 0
NoSpi ==
  /\ spiAt = 0 /\ target = 0 /\ spiStatus = 0 /\ pool = 0 /\ tx = 0 /\ rx = 0 /\ done = 0 /\ chunk = 0
  /\ txi = 0 /\ rxi = 0 /\ spiEnabled = 0 /\ ser = 0 /\ config = 0 /\ txFifo = 0 /\ shift = 0
  /\ rxFifo = 0 /\ settling = 0 /\ wire = 0 /\ result = 0

MCInit ==
  /\ Init
  /\ \/ part = "channels" /\ req = 0 /\ NoProgram /\ NoSpi
     \/ part = "program" /\ P!Init /\ NoSpi
     \/ part = "spi" /\ S!Init /\ NoProgram

MCNext ==
  /\ UNCHANGED part
  /\ \/ part = "channels" /\ Next /\ UNCHANGED <<req, programOnly, spiOnly>>
     \/ part = "program" /\ P!Next /\ UNCHANGED <<vars, spiOnly>>
     \/ part = "spi" /\ S!Next /\ UNCHANGED <<vars, programOnly>>

\* That of Pl330Channel and that of Rk3xSpi.
spiVars == S!vars
ChannelsFairness ==
  /\ WF_vars(part = "channels" /\ HwDebug)
  /\ \A s \in Streams :
       /\ WF_vars(part = "channels" /\ Step(s)) /\ WF_vars(part = "channels" /\ HwKilled(s))
       /\ WF_vars(part = "channels" /\ HwFaulted(s))
MCFairness ==
  /\ ChannelsFairness
  /\ WF_spiVars(part = "spi" /\ S!Serve) /\ SF_spiVars(part = "spi" /\ S!TimedOut)

MCSpec == MCInit /\ [][MCNext]_<<part, vars, req, programOnly, spiOnly>> /\ MCFairness

-----------------------------------------------------------------------------
(* Those of Pl330Program and Rk3xSpi, while they are there.                *)

\* The microcode that SubmitAudioDMA writes moves exactly the words of a period before each of
\* its events, those of all periods before it starts over, and nothing beyond the buffer; its
\* jumps land on instructions and it fits into its buffer.
PeriodsMoved ==
  part = "program" => P!JumpsLand /\ P!EventPerPeriod /\ P!BufferCovered /\ P!ProgramFits

\* A request to the SPI controller is served as asked, with the settings of its target,
\* without a byte lost or left over from another request, and leaves nothing behind.
SpiTransfersAsAsked ==
  part = "spi" =>
    /\ S!NoOverflow /\ S!FifoIsOurs /\ S!SetUpForTarget /\ S!IdleBetweenRequests
    /\ S!TransfersAsAsked

\* Every request to the SPI controller is completed, even if the controller hangs, and every
\* call of rk3x_program_dma and rk3x_stop, one at a time, returns.
WaitsEnd == []<>(NoCall /\ (part = "spi" => spiAt = "idle"))
=============================================================================

------------------------------- MODULE DwcSdhc -------------------------------
(***************************************************************************)
(* The request engine of the eMMC host controller driver (drivers/sd/      *)
(* dwcsdhc: dwcsdhc.cpp), for a controller with the SD Host Controller     *)
(* Interface.                                                              *)
(*                                                                         *)
(* sdport hands over one request at a time and calls the DPC of the driver *)
(* with the events and errors the ISR has read.  A request is complete when*)
(* none of its required events is missing, or when there is any error.  A  *)
(* data request has a command phase and a transfer phase, the latter once  *)
(* per block if the processor moves the data.  The controller reports the  *)
(* end of the busy signal as the end of a transfer.                        *)
(***************************************************************************)
EXTENDS Integers, FiniteSets

CONSTANTS
  Requests,    \* [method, write, r1b, blocks]
  FifoBlocks   \* how many blocks the buffer of the controller holds

ASSUME SdhcAssumption ==
  /\ FifoBlocks \in Nat \ {0}
  /\ \A r \in Requests : /\ r.method \in {"Undefined", "Pio", "SgDma"}
                         /\ r.write \in BOOLEAN /\ r.r1b \in BOOLEAN /\ r.blocks \in Nat
                         /\ r.blocks = 0 <=> r.method = "Undefined"
                         /\ r.r1b => r.method = "Undefined"

VARIABLES
  port,                \* what sdport does with its request
  req, type,           \* the request of sdport, its Type
  portEvents,          \* what the ISR has returned to sdport since its last DPC
  outstanding,         \* OutstandingRequest designates the request
  required, status,    \* RequiredEvents, Status and BlockCount of the request
  blockCount,
  currentEvents,       \* CurrentEvents
  ints, errs,          \* INTERRUPT_STATUS without its error bit, ERROR_STATUS
  enabled,             \* sdport has enabled its events
  cmd,                 \* a command is on its way
  data, left, buffer,  \* the data transfer, the blocks to come or go, those in the buffer
  busy, hung,          \* the card holds DAT0; it does nothing any more
  bad,                 \* the command or its data ended with an error
  fault                \* what no caller may do and one has done

portVars == <<port, req, type, portEvents>>
request  == <<outstanding, required, status, blockCount, currentEvents>>
bus      == <<cmd, data, left, buffer, busy, hung, bad>>
vars == <<portVars, request, ints, errs, enabled, bus, fault>>

NormalEvents == {"CMD_COMPLETE", "TRANSFER_COMPLETE", "BUFFER_READ_READY", "BUFFER_WRITE_READY"}
ErrorEvents  == {"CMD_TIMEOUT", "CMD_CRC", "DATA_TIMEOUT", "DATA_CRC"}

NoRequest == [method |-> "Undefined", write |-> FALSE, r1b |-> FALSE, blocks |-> 0]
IsData    == req.method # "Undefined"

\* After SdhcSlotInitialize and a reset.
Init ==
  /\ port = "idle" /\ req = NoRequest /\ type = "CommandNoTransfer" /\ portEvents = {}
  /\ outstanding = FALSE /\ required = {} /\ status = "SUCCESS" /\ blockCount = 0
  /\ currentEvents = {} /\ ints = {} /\ errs = {} /\ enabled = FALSE
  /\ cmd = FALSE /\ data = "none" /\ left = 0 /\ buffer = 0
  /\ busy = FALSE /\ hung = FALSE /\ bad = FALSE /\ fault = "None"

-----------------------------------------------------------------------------
(* Completing a request.                                                   *)

\* What sdport does next with a request it is told of with status s.
AfterCompletion(s) ==
  CASE s = "Failed" -> "failed"
    [] s = "MORE_PROCESSING" \/ (s = "SUCCESS" /\ type' = "CommandWithTransfer") -> "transfer"
    [] OTHER -> "idle"

\* The fault of a DPC that comes while sdport has yet to go on with the request.
Between == "completed between two phases"

\* A data request stays outstanding until all of its blocks are counted, which those
\* of a DMA transfer never are.  p is where sdport stands, held whether the request
\* is outstanding.
SdhcCompleteRequest(s, p, held) ==
  LET over == ~IsData \/ blockCount' = 0
  IN
  /\ outstanding' = (held /\ ~over)
  /\ port' = IF p = "wait" THEN AfterCompletion(s) ELSE p
  /\ fault' = IF over /\ ~held THEN "request mismatch"
              ELSE IF p # "wait" THEN Between ELSE fault

-----------------------------------------------------------------------------
(* Interrupts and the DPC.                                                 *)

\* All that has been read is acknowledged, and all errors.
SdhcSlotInterrupt ==
  /\ enabled /\ ints \cup errs # {}
  /\ portEvents' = portEvents \cup ints \cup errs
  /\ ints' = {} /\ errs' = {}
  /\ UNCHANGED <<port, req, type, request, enabled, bus, fault>>

SdhcRequestDpc(events, errors) ==
  /\ UNCHANGED blockCount
  /\ CASE ~outstanding ->
            /\ currentEvents' = currentEvents \cup events
            /\ UNCHANGED <<port, outstanding, required, status, fault>>
       [] outstanding /\ errors # {} ->
            /\ currentEvents' = {} /\ required' = {} /\ status' = "Failed"
            /\ SdhcCompleteRequest("Failed", port, outstanding)
       [] OTHER ->
            /\ currentEvents' = currentEvents \cup events
            /\ required' = required \ events
            /\ IF required' = {}
               THEN /\ status' = IF status = "MORE_PROCESSING" THEN status ELSE "SUCCESS"
                    /\ SdhcCompleteRequest(status', port, outstanding)
               ELSE UNCHANGED <<port, outstanding, status, fault>>

\* The DPC of sdport.  "SDPORT does not maintain a request state": it may come while
\* sdport has yet to go on with the request.  One that has ended, or that it has given up
\* and is resetting, gets no more events.
PortDpc ==
  /\ portEvents # {}
  /\ portEvents' = {}
  /\ UNCHANGED <<req, type, ints, errs, enabled, bus>>
  /\ IF port \in {"wait", "transfer"}
     THEN SdhcRequestDpc(portEvents \cap NormalEvents, portEvents \cap ErrorEvents)
     ELSE UNCHANGED <<port, request, fault>>

-----------------------------------------------------------------------------
(* Issuing requests.                                                       *)

\* The event that paces a programmed transfer.
Paced(r) == IF r.write THEN "BUFFER_WRITE_READY" ELSE "BUFFER_READ_READY"

\* Mutant: the end of the busy signal is not awaited.
AwaitedButBusy(r) ==
  {"CMD_COMPLETE"} \cup CASE r.method = "SgDma" -> {"TRANSFER_COMPLETE"}
                          [] r.method = "Pio"   -> {Paced(r)}
                          [] OTHER              -> {}

\* The RequiredEvents of a command.
Awaited(r) ==
  {"CMD_COMPLETE"} \cup (IF r.r1b \/ r.method = "SgDma" THEN {"TRANSFER_COMPLETE"} ELSE {})
                   \cup (IF r.method = "Pio" THEN {Paced(r)} ELSE {})

\* SdhcSetTransferMode and the write of SDHC_COMMAND.
StartCommand(r) == cmd' = TRUE /\ left' = r.blocks /\ bad' = FALSE

\* SdhcSlotIssueRequest with a command: SdhcSendCommand.  sdport issues one request at
\* a time, when it has seen all events of the last one.
SdhcSlotIssueRequest(r) ==
  /\ port = "idle" /\ portEvents = {} /\ enabled
  /\ port' = "wait" /\ req' = r
  /\ type' = IF r.method = "Undefined" THEN "CommandNoTransfer" ELSE "CommandWithTransfer"
  /\ outstanding' = TRUE /\ required' = Awaited(r) /\ status' = "SUCCESS"
  /\ blockCount' = r.blocks /\ currentEvents' = {}
  /\ StartCommand(r)
  /\ UNCHANGED <<portEvents, ints, errs, enabled, data, buffer, busy, hung, fault>>

\* A DMA transfer was over when its command phase was.
SdhcStartAdmaTransfer ==
  /\ port = "transfer" /\ req.method = "SgDma"
  /\ type' = "StartTransfer" /\ status' = "SUCCESS"
  /\ UNCHANGED <<req, portEvents, required, blockCount, currentEvents, ints, errs, enabled, bus>>
  /\ SdhcCompleteRequest("SUCCESS", "wait", TRUE)

\* The controller asks for a block when there is one to read, or room and need for one
\* to write: n are in the buffer, l have yet to cross the bus.
Ready(n, l) == IF req.write THEN n < FifoBlocks /\ n < l ELSE n > 0

\* The buffer when SdhcReadDataPort or SdhcWriteDataPort has moved a block.
BlockMoved == IF req.write THEN buffer + 1 ELSE IF buffer > 0 THEN buffer - 1 ELSE 0

\* Moves one block; the last one is followed by the wait for the end of the transfer,
\* unless that has been seen.
SdhcStartPioTransfer ==
  /\ port = "transfer" /\ req.method = "Pio"
  /\ type' = "StartTransfer"
  /\ currentEvents' = {}
  /\ buffer' = BlockMoved
  /\ ints' = IF data = "active" /\ Ready(BlockMoved, left) THEN ints \cup {Paced(req)} ELSE ints
  /\ blockCount' = blockCount - 1
  /\ status' = IF blockCount > 1 THEN "MORE_PROCESSING" ELSE "SUCCESS"
  /\ UNCHANGED <<req, portEvents, errs, enabled, cmd, data, left, busy, hung, bad>>
  /\ IF blockCount = 1 /\ "TRANSFER_COMPLETE" \in currentEvents
     THEN /\ SdhcCompleteRequest("SUCCESS", "wait", TRUE)
          /\ UNCHANGED required
     ELSE /\ required' = required \cup {IF blockCount > 1 THEN Paced(req) ELSE "TRANSFER_COMPLETE"}
          /\ outstanding' = TRUE /\ port' = "wait"
          /\ UNCHANGED fault

SdhcStartTransfer == SdhcStartAdmaTransfer \/ SdhcStartPioTransfer

-----------------------------------------------------------------------------
(* Timeouts, resets and the events of sdport.                              *)

CanMove ==
  /\ ~hung
  /\ \/ cmd \/ busy
     \/ /\ data = "active"
        /\ \/ req.method = "SgDma"
           \/ req.write /\ (left = 0 \/ buffer > 0)
           \/ ~req.write /\ IF left = 0 THEN buffer = 0 \/ req.blocks = 1 ELSE buffer < FifoBlocks

\* Timeouts are longer than anything that is still going to happen.
Quiet == ints \cup errs = {} /\ portEvents = {} /\ ~CanMove

SdportTimeout ==
  /\ port = "wait" /\ Quiet
  /\ port' = "failed"
  /\ UNCHANGED <<req, type, portEvents, request, ints, errs, enabled, bus, fault>>

\* Every reset ends by clearing INTERRUPT_STATUS, whose error bit follows ERROR_STATUS.
AcknowledgeAll == ints' = {}

\* SdResetTypeCmd.  sdport goes on with SdResetTypeDat if the request uses the DAT lines.
SdhcResetHostCmd ==
  /\ port = "failed"
  /\ outstanding' = FALSE
  /\ cmd' = FALSE
  /\ AcknowledgeAll
  /\ port' = IF IsData \/ req.r1b THEN "resetDat" ELSE "idle"
  /\ hung' = (hung /\ port' # "idle")
  /\ UNCHANGED <<req, type, portEvents, required, status, blockCount, currentEvents, errs, enabled,
                 data, left, buffer, busy, bad, fault>>

\* SdResetTypeDat; after it the card answers again.
SdhcResetHostDat ==
  /\ port = "resetDat"
  /\ outstanding' = FALSE
  /\ data' = "none" /\ left' = 0 /\ buffer' = 0 /\ busy' = FALSE /\ hung' = FALSE
  /\ AcknowledgeAll
  /\ port' = "idle"
  /\ UNCHANGED <<req, type, portEvents, required, status, blockCount, currentEvents, errs, enabled,
                 cmd, bad, fault>>

\* Either kind returns STATUS_IO_TIMEOUT if the controller does not end it.
SdhcResetHostTimeout ==
  /\ port \in {"failed", "resetDat"}
  /\ outstanding' = FALSE
  /\ UNCHANGED <<portVars, required, status, blockCount, currentEvents, ints, errs, enabled, bus, fault>>

SdhcEnableInterrupt  == ~enabled /\ enabled' = TRUE
SdhcDisableInterrupt == enabled /\ enabled' = FALSE

\* sdport toggles all of its events between requests.
SdhcSlotToggleEvents ==
  /\ port = "idle" /\ portEvents = {}
  /\ SdhcEnableInterrupt \/ SdhcDisableInterrupt
  /\ UNCHANGED <<portVars, request, ints, errs, bus, fault>>

-----------------------------------------------------------------------------
(* The controller and the card (external).                                 *)

driver == <<portVars, request, enabled, fault>>

Raise(events, errors) == ints' = ints \cup events /\ errs' = errs \cup errors

\* The response comes, or an error in its place or about it.
Respond ==
  /\ cmd /\ ~hung
  /\ cmd' = FALSE
  /\ \/ /\ busy' = req.r1b
        /\ data' = IF IsData THEN "active" ELSE data
        /\ Raise({"CMD_COMPLETE"} \cup (IF IsData /\ req.write /\ req.method = "Pio" THEN {Paced(req)}
                                        ELSE {}), {})
        /\ UNCHANGED bad
     \/ /\ \E e \in {"CMD_TIMEOUT", "CMD_CRC"}, c \in {{}, {"CMD_COMPLETE"}} :
             /\ Raise(c, {e})
             /\ busy' \in IF req.r1b /\ e = "CMD_CRC" THEN BOOLEAN ELSE {FALSE}
        /\ bad' = TRUE
        /\ UNCHANGED data
  /\ UNCHANGED <<driver, left, buffer, hung>>

MoveBlock ==
  /\ data = "active" /\ left > 0 /\ ~hung
  /\ left' = left - 1
  /\ IF req.method = "SgDma" THEN UNCHANGED buffer
     ELSE IF req.write THEN buffer > 0 /\ buffer' = buffer - 1
     ELSE buffer < FifoBlocks /\ buffer' = buffer + 1
  /\ Raise(IF req.method = "Pio" /\ Ready(buffer', left') /\ ~Ready(buffer, left) THEN {Paced(req)}
           ELSE {}, {})
  /\ UNCHANGED <<driver, cmd, data, busy, hung, bad>>

\* A block is bad or late; the transfer may stop at it.
BadBlock ==
  /\ data = "active" /\ ~hung
  /\ data' \in {"active", "none"}
  /\ \E e \in {"DATA_TIMEOUT", "DATA_CRC"}, c \in {{}, {"TRANSFER_COMPLETE"}} :
       Raise(IF data' = "none" THEN c ELSE {}, {e})
  /\ bad' = TRUE
  /\ UNCHANGED <<driver, cmd, left, buffer, busy, hung>>

\* The transfer is over, for a write when the card is no longer busy, for a read when
\* the buffer has been read or, if it is short, before that.
DataOver ==
  /\ data = "active" /\ left = 0 /\ ~hung
  /\ req.method = "Pio" /\ ~req.write => buffer = 0 \/ req.blocks = 1
  /\ data' = "none"
  /\ busy' = req.write
  /\ Raise(IF req.write THEN {} ELSE {"TRANSFER_COMPLETE"}, {})
  /\ UNCHANGED <<driver, cmd, left, buffer, hung, bad>>

CardIdle ==
  /\ busy /\ ~hung
  /\ busy' = FALSE
  /\ Raise({"TRANSFER_COMPLETE"}, {})
  /\ UNCHANGED <<driver, cmd, data, left, buffer, hung, bad>>

Hang ==
  /\ ~hung /\ (cmd \/ data # "none" \/ busy)
  /\ hung' = TRUE
  /\ UNCHANGED <<driver, ints, errs, cmd, data, left, buffer, busy, bad>>

Controller == Respond \/ MoveBlock \/ BadBlock \/ DataOver \/ CardIdle \/ Hang

-----------------------------------------------------------------------------
\* What sdport does when it has been told of something it does not wait for is not known:
\* the model ends there.
Next ==
  \/ /\ fault = "None"
     /\ \/ \E r \in Requests : SdhcSlotIssueRequest(r)
        \/ SdhcStartTransfer
        \/ SdhcSlotInterrupt \/ PortDpc
        \/ SdportTimeout \/ SdhcResetHostCmd \/ SdhcResetHostDat \/ SdhcResetHostTimeout
        \/ SdhcSlotToggleEvents
        \/ Controller
  \/ fault # "None" /\ UNCHANGED vars

Spec == Init /\ [][Next]_vars

-----------------------------------------------------------------------------
(* What sdport sees of it, in the terms of SdRequest.                      *)

\* A request that has not ended once, on whatever side the fault, is none of SdRequest's
\* but that of a DPC between two phases, which is left to CompletedOnce.
Turn ==
  IF fault \notin {"None", Between} THEN "broken"
  ELSE CASE port = "wait" -> "host" [] port = "transfer" -> "port"
         [] port \in {"failed", "resetDat"} -> "failed" [] OTHER -> port

\* sdport hands over a DMA transfer as a whole.
PartsLeft ==
  IF Turn \in {"host", "port"}
  THEN CASE req.method = "Pio"   -> blockCount
         [] req.method = "SgDma" -> IF type = "StartTransfer" THEN 0 ELSE 1
         [] OTHER                -> 0
  ELSE 0

BusState ==
  IF bad /\ port # "idle" THEN "bad"
  ELSE IF cmd \/ data # "none" \/ left > 0 \/ busy \/ (port = "idle" /\ buffer > 0) THEN "used"
  ELSE "free"

-----------------------------------------------------------------------------
(* Properties.                                                             *)

\* Events that come between the phases of a request are saved for the next one: sdport is
\* told of the end of a request, or of a phase of it, once and while it waits for it, and
\* NT_ASSERT(FALSE) of SdhcCompleteRequest is not reached.
CompletedOnce == fault = "None"

\* SdhcStartPioTransfer finds a block in the buffer, or room for one, if no error has
\* ended the transfer.
PioFindsBlock ==
  port = "transfer" /\ req.method = "Pio" /\ ~bad => IF req.write THEN buffer < FifoBlocks ELSE buffer > 0

\* A request is waited for in vain only if the card hangs: what comes early is kept in
\* CurrentEvents or comes again.
EventsComeOnce == Quiet /\ port = "wait" => hung
=============================================================================

------------------------------- MODULE DwcMshc -------------------------------
(***************************************************************************)
(* The request engine of the SD host controller driver (drivers/sd/dwcmshc:*)
(* dwcmshc.cpp).                                                           *)
(*                                                                         *)
(* sdport, the port driver of Windows, hands over one request at a time.   *)
(* The ISR turns interrupts into events, which sdport gives to RequestDpc; *)
(* a request is complete when none of its required events is missing.  A   *)
(* data request has two phases, the command and the transfer.  When one    *)
(* fails, sdport resets the host, and the driver issues a Stop command of  *)
(* its own (a local request), whose events it takes for itself.            *)
(***************************************************************************)
EXTENDS Integers, FiniteSets

CONSTANTS
  Requests,    \* [method, write, r1b, chunks], a chunk being FifoThreshold words; the
               \* method is "Undefined" and chunks 0, or it is "Pio" or "SgDma"
  FifoChunks,  \* how many chunks the FIFO holds
  Removable    \* whether the card may be found missing when a request completes

None == "None"
NoRequest == [method |-> "Undefined", write |-> FALSE, r1b |-> FALSE, chunks |-> 0]
Stop      == [method |-> "Undefined", write |-> FALSE, r1b |-> TRUE, chunks |-> 0]

VARIABLES
  port,                        \* what sdport does with its request
  req, type,                   \* the request of sdport, its Type
  portEvents,                  \* what the ISR has returned to sdport since its last DPC
  outstanding,                 \* OutstandingRequest: "port", "stop" or None
  required, status,            \* RequiredEvents and Status of the two requests
  currentEvents, currentErrors,
  remaining,                   \* CurrentTransferRemainingLength, in chunks
  localPending, localDpc,      \* LocalRequestPending; LocalRequestDpc is queued
  worker,                      \* how often CompleteRequestBusyWorkItem is queued
  stop,                        \* how far MshcSendStopCommand is
  rint, mask,                  \* RINTSTS and IDSTS, INTMASK and IDINTEN
  cmd, data, left, fifo,       \* the command and the data transfer on the bus
  idmac,                       \* the DMA controller has a descriptor to close
  busy, hung,                  \* the card holds DAT0; it does nothing any more
  bad,                         \* the command or its data ended with an error
  fault                        \* what no caller may do and one has done

portVars == <<port, req, type, portEvents>>
requests == <<outstanding, required, status>>
current  == <<currentEvents, currentErrors>>
local    == <<localPending, localDpc, stop>>
regs     == <<rint, mask>>
bus      == <<cmd, data, left, fifo, idmac, busy, hung, bad>>
vars == <<portVars, requests, current, remaining, local, worker, regs, bus, fault>>

DataRequests == {"RXDR", "TXDR"}
Bits   == {"CMD", "DTO", "RTO", "RCRC", "DRTO", "DCRC", "HTO", "TI_RI"} \cup DataRequests
EventOf == [CMD |-> "RESPONSE", DTO |-> "RW_END", TXDR |-> "BUFFER_EMPTY", RXDR |-> "BUFFER_FULL",
            TI_RI |-> "DMA_COMPLETE"]
ErrorOf == [RTO |-> "CMD_TIMEOUT", RCRC |-> "CMD_CRC", DRTO |-> "DATA_TIMEOUT", DCRC |-> "DATA_CRC"]

\* MshcConvertIntStatusToStandardEvents.
Events(ints) == {EventOf[b] : b \in ints \cap DOMAIN EventOf}
Errors(ints) == {ErrorOf[b] : b \in ints \cap DOMAIN ErrorOf}

Command(q) == IF q = "port" THEN req ELSE Stop
IsData(r)  == r.method # "Undefined"

\* RXDR and TXDR stand, and come back when they are acknowledged, as long as
\* there is a chunk to read or room and need for one.
DataRequest(n, d, l) ==
  IF req.method # "Pio" THEN {}
  ELSE IF req.write THEN IF d = "active" /\ n < FifoChunks /\ n < l THEN {"TXDR"} ELSE {}
  ELSE IF n > 0 THEN {"RXDR"} ELSE {}

\* After MshcSlotInitialize, with the events of sdport enabled.
Init ==
  /\ port = "idle" /\ req = NoRequest /\ type = "CommandNoTransfer" /\ portEvents = {}
  /\ outstanding = None /\ required = [q \in {"port", "stop"} |-> {}]
  /\ status = [q \in {"port", "stop"} |-> "SUCCESS"]
  /\ currentEvents = {} /\ currentErrors = {} /\ remaining = 0
  /\ localPending = FALSE /\ localDpc = FALSE /\ stop = "none" /\ worker = 0
  /\ rint = {} /\ mask = Bits
  /\ cmd = None /\ data = "none" /\ left = 0 /\ fifo = 0 /\ idmac = FALSE
  /\ busy = FALSE /\ hung = FALSE
  /\ bad = FALSE /\ fault = None

-----------------------------------------------------------------------------
(* Completing a request.                                                   *)

\* What sdport does next with a request it is told of with status s.
AfterCompletion(s) ==
  CASE s = "Failed" -> "failed"
    [] s = "MORE_PROCESSING" \/ (s = "SUCCESS" /\ type' = "CommandWithTransfer") -> "transfer"
    [] OTHER -> "idle"

\* The end of MshcCompleteRequest: p is where sdport stands, held what
\* OutstandingRequest is.
FinishRequest(q, s, p, held) ==
  LET ok == s \in {"SUCCESS", "MORE_PROCESSING"}
  IN
  /\ outstanding' = IF ok THEN None ELSE held
  /\ localPending' = FALSE
  /\ \E inserted \in IF Removable THEN BOOLEAN ELSE {TRUE} :
       LET t == IF inserted THEN s ELSE "Failed" IN
       /\ status' = [status EXCEPT ![q] = t]
       /\ port' = IF localPending \/ p # "wait" THEN p ELSE AfterCompletion(t)
  /\ fault' = IF ok /\ held # q THEN "request mismatch"
              ELSE IF ~localPending /\ p # "wait" THEN "completed twice" ELSE fault

\* Completes request q, which then requires r[q], with status s.
MshcCompleteRequest(q, r, s, p, held) ==
  /\ required' = r
  /\ IF s = "SUCCESS" /\ r[q] = {} /\ (Command(q).r1b \/ Command(q).write) /\ busy
     THEN /\ status' = [status EXCEPT ![q] = s]
          /\ worker' = worker + 1
          /\ fault' = IF worker = 0 THEN fault ELSE "work item queued twice"
          /\ outstanding' = held /\ port' = p
          /\ UNCHANGED localPending
     ELSE FinishRequest(q, s, p, held) /\ UNCHANGED worker

\* MshcCompleteRequestBusyWorker, when the card is idle or after 100 ms.
MshcCompleteRequestBusyWorker ==
  /\ worker > 0 /\ (busy => hung)
  /\ worker' = worker - 1
  /\ UNCHANGED <<req, type, portEvents, required, current, remaining, localDpc, stop, regs, bus>>
  /\ IF outstanding = None
     THEN fault' = "no request" /\ UNCHANGED <<port, outstanding, status, localPending>>
     ELSE FinishRequest(outstanding, IF busy THEN "Failed" ELSE "SUCCESS", port, outstanding)

-----------------------------------------------------------------------------
(* Interrupts and DPCs.                                                    *)

\* The ISR clears what it has read, RXDR and TXDR if they do not stand.
MshcSlotInterrupt ==
  LET ev == Events(rint)
      er == Errors(rint)
  IN
  /\ rint \cap mask # {}
  /\ rint' = DataRequest(fifo, data, left)
  /\ mask' = IF rint \cap DataRequests # {} THEN mask \ DataRequests ELSE mask
  /\ IF localPending /\ ev \cup er # {}
     THEN /\ currentEvents' = currentEvents \cup ev /\ currentErrors' = currentErrors \cup er
          /\ localDpc' = TRUE
          /\ UNCHANGED portEvents
     ELSE /\ portEvents' = portEvents \cup ev \cup er
          /\ UNCHANGED <<current, localDpc>>
  /\ UNCHANGED <<port, req, type, requests, remaining, localPending, stop, worker, bus, fault>>

\* Mutant: each timeout waits for the interrupt of the other one.
TimeoutNotOverSwapped(events, errors) ==
  \/ "CMD_TIMEOUT" \in errors /\ "RW_END" \notin events
  \/ "DATA_TIMEOUT" \in errors /\ "RESPONSE" \notin events

\* CMD and DTO still come after a timeout.
TimeoutNotOver(events, errors) ==
  \/ "CMD_TIMEOUT" \in errors /\ "RESPONSE" \notin events
  \/ "DATA_TIMEOUT" \in errors /\ "RW_END" \notin events

\* MshcRequestDpc from where it saves the events.
TakeEvents(q, events, errors) ==
  LET r  == IF outstanding = None THEN required ELSE [required EXCEPT ![q] = @ \ events]
      ev == currentEvents \cup events
      er == currentErrors \cup errors
      fails    == er # {} /\ ~TimeoutNotOver(events, er)
      succeeds == er = {} /\ r[q] = {}
  IN
  \/ /\ outstanding # None /\ fails
     /\ currentEvents' = {} /\ currentErrors' = {}
     /\ MshcCompleteRequest(q, [r EXCEPT ![q] = {}], "Failed", port, outstanding)
  \/ /\ outstanding # None /\ succeeds
     /\ currentEvents' = ev /\ currentErrors' = er
     /\ MshcCompleteRequest(q, r, IF status[q] = "MORE_PROCESSING" THEN status[q] ELSE "SUCCESS",
                            port, outstanding)
  \/ /\ outstanding = None \/ (~fails /\ ~succeeds)
     /\ currentEvents' = ev /\ currentErrors' = er /\ required' = r
     /\ UNCHANGED <<port, outstanding, status, localPending, worker, fault>>

\* Mutant: a request of which nothing is required is looked at all the same.
MshcRequestDpcAnyway(q, events, errors) ==
  IF events \cup errors = {}
  THEN UNCHANGED <<port, requests, current, localPending, worker, fault>>
  ELSE TakeEvents(q, events, errors)

MshcRequestDpc(q, events, errors) ==
  IF events \cup errors = {} \/ required[q] = {}
  THEN UNCHANGED <<port, requests, current, localPending, worker, fault>>
  ELSE TakeEvents(q, events, errors)

\* The DPC of sdport.  It has no state of the request, and may come while sdport has yet
\* to go on with it; a request that has ended, or that it has given up and is resetting,
\* gets no more events.
PortDpc ==
  /\ portEvents # {}
  /\ portEvents' = {}
  /\ UNCHANGED <<req, type, remaining, localDpc, stop, regs, bus>>
  /\ IF port \in {"wait", "transfer"}
     THEN MshcRequestDpc("port", portEvents \cap Events(Bits), portEvents \cap Errors(Bits))
     ELSE UNCHANGED <<port, requests, current, localPending, worker, fault>>

MshcLocalRequestDpc ==
  /\ localDpc
  /\ localDpc' = FALSE
  /\ UNCHANGED <<req, type, portEvents, remaining, stop, regs, bus>>
  /\ IF outstanding # None
     THEN MshcRequestDpc(outstanding, currentEvents, currentErrors)
     ELSE UNCHANGED <<port, requests, current, localPending, worker, fault>>

-----------------------------------------------------------------------------
(* Issuing requests.                                                       *)

\* The data request that paces a programmed transfer.
Paced(r) == IF r.write THEN "BUFFER_EMPTY" ELSE "BUFFER_FULL"

AwaitedButData(r) == {"RESPONSE"} \cup IF r.method = "SgDma" THEN {"RW_END"} ELSE {}

\* The RequiredEvents of a command.
Awaited(r) ==
  {"RESPONSE"} \cup CASE r.method = "Undefined" -> {}
                      [] r.method = "SgDma"     -> {"RW_END"}
                      [] r.method = "Pio"       -> {Paced(r)}

\* What MshcSendCommand and MshcBuildTransfer do with request q: r is its command.
MshcSendCommand(q, r) ==
  /\ outstanding' = q
  /\ required' = [required EXCEPT ![q] = Awaited(r)]
  /\ currentEvents' = {} /\ currentErrors' = {}
  /\ remaining' = IF IsData(r) THEN r.chunks ELSE remaining
  /\ mask' = IF r.method = "Pio" THEN mask \cup DataRequests ELSE mask
  /\ cmd' = q /\ bad' = FALSE

\* sdport issues one request at a time, when it has seen all events of the last one.
MshcSlotIssueRequest(r) ==
  /\ port = "idle" /\ portEvents = {}
  /\ req' = r /\ type' = IF IsData(r) THEN "CommandWithTransfer" ELSE "CommandNoTransfer"
  /\ MshcSendCommand("port", r)
  /\ left' = r.chunks /\ port' = "wait"
  /\ status' = [status EXCEPT !["port"] = "SUCCESS"]
  /\ UNCHANGED <<portEvents, local, worker, rint, data, fifo, idmac, busy, hung, fault>>

\* The second phase of a DMA request has nothing left to do.
MshcStartDmaTransfer ==
  /\ port = "transfer" /\ req.method = "SgDma"
  /\ type' = "StartTransfer"
  /\ remaining' = 0
  /\ MshcCompleteRequest("port", required, "SUCCESS", "wait", "port")
  /\ UNCHANGED <<req, portEvents, current, localDpc, stop, regs, bus>>

MshcStartPioTransfer ==
  LET n == IF req.write THEN fifo + 1 ELSE IF fifo > 0 THEN fifo - 1 ELSE 0
  IN
  /\ port = "transfer" /\ req.method = "Pio"
  /\ type' = "StartTransfer"
  /\ currentEvents' = {}
  /\ fifo' = n
  /\ rint' = (rint \ DataRequests) \cup DataRequest(n, data, left)
  /\ remaining' = remaining - 1
  /\ IF remaining > 1
     THEN /\ outstanding' = "port" /\ port' = "wait"
          /\ required' = [required EXCEPT !["port"] = @ \cup {Paced(req)}]
          /\ status' = [status EXCEPT !["port"] = "MORE_PROCESSING"]
          /\ mask' = mask \cup DataRequests
          /\ UNCHANGED <<localPending, worker, fault>>
     ELSE /\ mask' = mask
          /\ IF "RW_END" \in currentEvents
             THEN MshcCompleteRequest("port", required, "SUCCESS", "wait", "port")
             ELSE /\ outstanding' = "port" /\ port' = "wait"
                  /\ required' = [required EXCEPT !["port"] = @ \cup {"RW_END"}]
                  /\ status' = [status EXCEPT !["port"] = "SUCCESS"]
                  /\ UNCHANGED <<localPending, worker, fault>>
  /\ UNCHANGED <<req, portEvents, currentErrors, localDpc, stop, cmd, data, left, idmac,
                 busy, hung, bad>>

-----------------------------------------------------------------------------
(* Timeouts and resets.                                                    *)

CanMove ==
  /\ ~hung
  /\ \/ cmd # None \/ busy \/ idmac \/ data = "dead"
     \/ /\ data = "active"
        /\ left = 0 \/ req.method = "SgDma" \/ IF req.write THEN fifo > 0 ELSE fifo < FifoChunks

\* Timeouts are longer than anything that is still going to happen.
Quiet ==
  /\ rint \cap mask = {} /\ portEvents = {} /\ ~localDpc /\ worker = 0
  /\ ~CanMove

SdportTimeout ==
  /\ port = "wait" /\ Quiet
  /\ port' = "failed"
  /\ UNCHANGED <<req, type, portEvents, requests, current, remaining, local, worker, regs, bus, fault>>

\* MshcResetWait and the acknowledgement of all interrupts; the card lets go of
\* DAT0 and answers again.
ResetController ==
  /\ rint' = {} /\ cmd' = None /\ data' = "none" /\ left' = 0 /\ fifo' = 0
  /\ idmac' = FALSE /\ busy' = FALSE /\ hung' = FALSE

\* SdResetTypeCmd, between masking and unmasking: it waits for SdResetTypeDat if
\* the request that failed has data.
MshcResetHostCmd ==
  /\ port = "failed"
  /\ port' = IF IsData(req) THEN "resetDat" ELSE "idle"
  /\ outstanding' = None
  /\ mask' = Bits
  /\ IF outstanding # None /\ IsData(Command(outstanding))
     THEN UNCHANGED <<rint, cmd, data, left, fifo, idmac, busy, hung>>
     ELSE ResetController
  /\ UNCHANGED <<req, type, portEvents, required, status, current, remaining, local, worker, bad, fault>>

\* SdResetTypeDat: MshcSendStopCommand, up to LocalRequestPending.
MshcResetHostDat ==
  /\ port = "resetDat" /\ stop = "none"
  /\ stop' = "issue"
  /\ outstanding' = None /\ localPending' = TRUE
  /\ required' = [required EXCEPT !["stop"] = {}]
  /\ status' = [status EXCEPT !["stop"] = "SUCCESS"]
  /\ UNCHANGED <<portVars, current, remaining, localDpc, worker, regs, bus, fault>>

IssueStop ==
  /\ stop = "issue"
  /\ stop' = "wait"
  /\ MshcSendCommand("stop", Stop)
  /\ UNCHANGED <<portVars, status, localPending, localDpc, worker, rint, data, left, fifo, idmac,
                 busy, hung, fault>>

\* MshcIssueRequestSynchronously sees the end of the command or times out; the
\* rest of MshcResetHost.
StopReturns ==
  /\ stop = "wait" /\ (localPending => Quiet)
  /\ stop' = "none" /\ localPending' = FALSE
  /\ port' = "idle"
  /\ ResetController
  /\ UNCHANGED <<req, type, portEvents, requests, current, remaining, localDpc, worker, mask, bad, fault>>

-----------------------------------------------------------------------------
(* The controller and the card (external).                                 *)

driver == <<portVars, requests, current, remaining, local, worker, mask, fault>>

\* The response comes, with or without an error, or CMD comes after RTO.  A Stop
\* ends the data transfer.
Respond ==
  /\ cmd # None /\ ~hung
  /\ cmd' = None
  /\ \E e \in IF bad THEN {{}} ELSE {{}, {"RCRC"}, {"RTO"}} :
       LET answered == e = {} /\ ~bad IN
       /\ bad' = ~answered
       /\ data' = IF cmd = "stop" THEN "none" ELSE IF answered /\ IsData(req) THEN "active" ELSE data
       /\ busy' \in IF answered /\ Command(cmd).r1b THEN BOOLEAN ELSE {busy}
       /\ rint' = rint \cup {"CMD"} \cup e \cup DataRequest(fifo, data', left)
                       \cup (IF cmd = "stop" /\ data # "none" THEN {"DTO"} ELSE {})
  /\ UNCHANGED <<driver, left, fifo, idmac, hung>>

RespondTimeout ==
  /\ cmd # None /\ ~hung /\ ~bad
  /\ rint' = rint \cup {"RTO"} /\ bad' = TRUE
  /\ UNCHANGED <<driver, cmd, data, left, fifo, idmac, busy, hung>>

MoveChunk ==
  /\ data = "active" /\ left > 0 /\ ~hung
  /\ IF req.method = "SgDma" THEN fifo' = fifo
     ELSE IF req.write THEN fifo > 0 /\ fifo' = fifo - 1
     ELSE fifo < FifoChunks /\ fifo' = fifo + 1
  /\ left' = left - 1 /\ idmac' = (idmac \/ (req.method = "SgDma" /\ left = 1))
  /\ rint' = rint \cup DataRequest(fifo', data, left')
  /\ UNCHANGED <<driver, cmd, data, busy, hung, bad>>

\* The host has not emptied or filled the FIFO in time; the bus waits.
Starve ==
  /\ data = "active" /\ left > 0 /\ ~hung
  /\ req.method = "Pio" /\ fifo = IF req.write THEN 0 ELSE FifoChunks
  /\ rint' = rint \cup {"HTO"}
  /\ UNCHANGED <<driver, bus>>

\* DTO, with a bad checksum perhaps.
DataOver ==
  /\ data = "active" /\ left = 0 /\ ~hung
  /\ data' = "none"
  /\ busy' \in IF req.write THEN BOOLEAN ELSE {busy}
  /\ \E e \in {{}, {"DCRC"}} : rint' = rint \cup {"DTO"} \cup e /\ bad' = (e # {} \/ bad)
  /\ UNCHANGED <<driver, cmd, left, fifo, idmac, hung>>

\* The IDMAC closes its last descriptor, before DTO or after it.
DmaComplete ==
  /\ idmac /\ ~hung
  /\ idmac' = FALSE
  /\ rint' = rint \cup {"TI_RI"}
  /\ UNCHANGED <<driver, cmd, data, left, fifo, busy, hung, bad>>

\* The checksum of a block of a DMA transfer is bad.
BadBlock ==
  /\ data = "active" /\ req.method = "SgDma" /\ ~hung
  /\ rint' = rint \cup {"DCRC"} /\ bad' = TRUE
  /\ UNCHANGED <<driver, cmd, data, left, fifo, idmac, busy, hung>>

\* The data to read do not come; DTO comes with DRTO or later.
DataTimeout ==
  /\ \/ data = "active" /\ ~req.write /\ left > 0 /\ data' \in {"dead", "none"}
     \/ data = "dead" /\ data' = "none"
  /\ ~hung
  /\ rint' = rint \cup (IF data = "active" THEN {"DRTO"} ELSE {})
                   \cup (IF data' = "none" THEN {"DTO"} ELSE {})
  /\ bad' = TRUE
  /\ UNCHANGED <<driver, cmd, left, fifo, idmac, busy, hung>>

CardIdle ==
  /\ busy /\ ~hung
  /\ busy' = FALSE
  /\ UNCHANGED <<driver, rint, cmd, data, left, fifo, idmac, hung, bad>>

Hang ==
  /\ ~hung /\ (cmd # None \/ data # "none" \/ busy)
  /\ hung' = TRUE
  /\ UNCHANGED <<driver, rint, cmd, data, left, fifo, idmac, busy, bad>>

Controller ==
  \/ Respond \/ RespondTimeout \/ MoveChunk \/ Starve \/ DataOver \/ DmaComplete \/ BadBlock \/ DataTimeout
  \/ CardIdle \/ Hang

-----------------------------------------------------------------------------
Next ==
  \/ \E r \in Requests : MshcSlotIssueRequest(r)
  \/ MshcStartDmaTransfer \/ MshcStartPioTransfer
  \/ MshcSlotInterrupt \/ PortDpc \/ MshcLocalRequestDpc \/ MshcCompleteRequestBusyWorker
  \/ SdportTimeout \/ MshcResetHostCmd \/ MshcResetHostDat \/ IssueStop \/ StopReturns
  \/ Controller

Spec == Init /\ [][Next]_vars

-----------------------------------------------------------------------------
(* What sdport sees of it, in the terms of SdRequest.                      *)

\* A request that has not ended once is none of SdRequest's.
Turn ==
  IF fault # None THEN "broken"
  ELSE CASE port = "wait" -> "host" [] port = "transfer" -> "port"
         [] port \in {"failed", "resetDat"} -> "failed" [] OTHER -> port

\* sdport hands over a DMA transfer as a whole.
PartsLeft ==
  IF Turn \in {"host", "port"}
  THEN CASE req.method = "Pio"   -> remaining
         [] req.method = "SgDma" -> IF type = "StartTransfer" THEN 0 ELSE 1
         [] OTHER                -> 0
  ELSE 0

BusState ==
  IF bad /\ port # "idle" THEN "bad"
  ELSE IF cmd # None \/ data # "none" \/ left > 0 \/ busy \/ (port = "idle" /\ fifo > 0) THEN "used"
  ELSE "free"

-----------------------------------------------------------------------------
(* Properties.                                                             *)

\* sdport is told once of the end of a request it waits for, the work item is
\* queued once for it, and NT_ASSERTMSG("Request mismatch") holds: late events do
\* not complete a request whose completion the busy signal delays.
CompletedOnce == fault = None

\* MshcStartPioTransfer finds a chunk in the FIFO, or room for one, if no error has
\* ended the transfer: no data request is taken for two.
PioFindsChunk ==
  port = "transfer" /\ req.method = "Pio" /\ ~bad => IF req.write THEN fifo < FifoChunks ELSE fifo > 0

\* A request without programmed I/O, and a Stop, are waited for in vain only if the
\* card hangs.
EventsComeOnce ==
  Quiet => /\ port = "wait" /\ req.method # "Pio" => hung
           /\ stop = "wait" /\ localPending => hung

\* "Save current events, since we may not be waiting for them at this stage": no
\* request times out because its events came too early.
EarlyEventsKept == Quiet /\ port = "wait" => hung
=============================================================================

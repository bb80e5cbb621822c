---------------------------- MODULE SdHostsProofs ----------------------------
(***************************************************************************)
(* Proofs about the SD hosts.  For every set of requests and every depth   *)
(* of the buffer the request engine of dwcsdhc implements SdRequest, what  *)
(* sdport relies on; dwcmshc does for every set of requests that it is     *)
(* given as it asks for them, and every depth of its FIFO; and so do both  *)
(* hosts together.  What they wait for comes.  The bus operations of both  *)
(* change nothing while the card is clocked, and the descriptor tables of  *)
(* both make the engine move what the scatter/gather list says.            *)
(***************************************************************************)
EXTENDS MCSd, RecursionLemmas

-----------------------------------------------------------------------------
(* dwcsdhc: the mapping to SdRequest.                                      *)

Blocks == {r.blocks : r \in Requests}

AsRequest == INSTANCE SdRequest WITH
  turn <- Turn, parts <- PartsLeft, bus <- BusState, Parts <- {0, 1} \cup Blocks

-----------------------------------------------------------------------------
(* The inductive invariant.                                                *)

TypeOK ==
  /\ port \in {"idle", "wait", "transfer", "failed", "resetDat"}
  /\ req \in Requests \cup {NoRequest}
  /\ type \in {"CommandNoTransfer", "CommandWithTransfer", "StartTransfer"}
  /\ portEvents \subseteq NormalEvents \cup ErrorEvents
  /\ outstanding \in BOOLEAN /\ required \subseteq NormalEvents
  /\ status \in {"SUCCESS", "MORE_PROCESSING", "Failed"} /\ blockCount \in Int
  /\ currentEvents \subseteq NormalEvents
  /\ ints \subseteq NormalEvents /\ errs \subseteq ErrorEvents /\ enabled \in BOOLEAN
  /\ cmd \in BOOLEAN /\ data \in {"none", "active"} /\ left \in Nat /\ buffer \in Nat
  /\ busy \in BOOLEAN /\ hung \in BOOLEAN /\ bad \in BOOLEAN
  /\ fault = "None"

CMD == "CMD_COMPLETE"
TC  == "TRANSFER_COMPLETE"

\* sdport waits for the request or has it go on.
Waiting == port \in {"wait", "transfer"}

\* The command and its data are one after the other, and only what the request has.
BusInv ==
  /\ cmd => data = "none" /\ buffer = 0
  /\ cmd \/ data = "active" => ~busy
  /\ busy => left = 0
  /\ ~IsData => data = "none" /\ left = 0 /\ (~req.r1b => ~busy)
  /\ req.method # "Pio" => buffer = 0
  /\ ints \subseteq {CMD, TC} \cup IF req.method = "Pio" THEN {Paced(req)} ELSE {}
  /\ ~IsData /\ ~req.r1b => TC \notin ints
  /\ port = "resetDat" => ~cmd
  /\ port = "idle" => ~cmd /\ data = "none" /\ left = 0 /\ ~busy /\ buffer = 0 /\ ints = {}

\* What the driver still requires in each phase of a request.
PhaseInv ==
  /\ type = "CommandNoTransfer" <=> ~IsData
  /\ Waiting => outstanding
  /\ Waiting /\ type # "StartTransfer" =>
       /\ required \subseteq Awaited(req) /\ Awaited(req) \subseteq required \cup currentEvents
       /\ status = "SUCCESS" /\ blockCount = req.blocks
  /\ port = "wait" /\ type = "CommandWithTransfer" /\ req.method = "Pio" => Paced(req) \in required
  /\ Waiting /\ type = "StartTransfer" => req.method = "Pio"
  /\ port = "wait" /\ type = "StartTransfer" =>
       \/ blockCount > 0 /\ status = "MORE_PROCESSING" /\ required = {Paced(req)}
       \/ blockCount = 0 /\ status = "SUCCESS" /\ required = {TC}
  /\ port = "transfer" =>
       /\ IsData /\ required = {}
       /\ req.method = "Pio" => blockCount > 0

\* An event is on its way to the driver, or has got there, and no error with it.
Seen(e) ==
  \/ e \in currentEvents
  \/ /\ portEvents \cap ErrorEvents = {}
     /\ e \in portEvents \/ (e \in ints /\ errs = {})

Done == ~cmd /\ data = "none" /\ left = 0 /\ ~busy /\ ~bad

\* An error is not passed by an event, and an event tells the truth.
SeenInv ==
  Waiting =>
    /\ bad => errs \cup (portEvents \cap ErrorEvents) # {}
    /\ Seen(CMD) /\ ~IsData => ~bad
    /\ Seen(TC) => Done

\* Each event is in one place, and no data request overtakes the response.
OnceInv ==
  Waiting =>
    /\ CMD \in required => CMD \notin currentEvents
    /\ cmd => CMD \in required /\ CMD \notin ints \cup portEvents
    /\ CMD \in ints => CMD \in required /\ CMD \notin portEvents
    /\ CMD \in portEvents => CMD \in required
    /\ cmd \/ data = "active" \/ busy => TC \notin ints \cup portEvents \cup currentEvents
    /\ TC \in ints => TC \notin portEvents \cup currentEvents
    /\ TC \in portEvents => TC \notin currentEvents
    /\ data = "active" \/ (req.method = "Pio" /\ Paced(req) \in ints) =>
         (CMD \in required => CMD \in ints \cup portEvents)
    /\ req.method = "Pio" /\ Paced(req) \in portEvents => (CMD \in required => CMD \in portEvents)

\* The blocks of a programmed transfer are in the buffer, or yet to come or go, and a data
\* request is there only for a block or room for one.
PacedInv ==
  Waiting /\ req.method = "Pio" /\ ~bad =>
    /\ IF req.write THEN buffer + blockCount = left ELSE buffer + left = blockCount
    /\ Paced(req) \in ints \cup portEvents =>
         /\ Ready(buffer, left) /\ port = "wait"
         /\ Paced(req) \notin ints \cap portEvents
    /\ port = "transfer" => Ready(buffer, left)
    /\ ~req.write /\ req.blocks > 1 /\ data = "none" /\ ~cmd => buffer = 0

IInv == TypeOK /\ BusInv /\ PhaseInv /\ SeenInv /\ OnceInv /\ PacedInv

-----------------------------------------------------------------------------
(* Facts about the request.                                                *)

LEMMA RequestFacts ==
  ASSUME TypeOK
  PROVE  /\ req.method \in {"Undefined", "Pio", "SgDma"}
         /\ req.write \in BOOLEAN /\ req.r1b \in BOOLEAN /\ req.blocks \in Nat
         /\ req.blocks = 0 <=> ~IsData
         /\ req.r1b => ~IsData
<1>1. CASE req \in Requests
  BY <1>1, SdhcAssumption DEF IsData
<1>2. CASE req = NoRequest
  BY <1>2 DEF NoRequest, IsData
<1> QED BY <1>1, <1>2 DEF TypeOK

LEMMA InterruptKeeps ==
  ASSUME IInv, SdhcSlotInterrupt
  PROVE  IInv'
<1>0. UNCHANGED <<port, req, type, outstanding, required, status, blockCount, currentEvents, enabled,
                  cmd, data, left, buffer, busy, hung, bad, fault>>
  BY DEF SdhcSlotInterrupt, request, bus
<1>1. /\ portEvents' = portEvents \cup ints \cup errs
      /\ ints' = {} /\ errs' = {}
  BY DEF SdhcSlotInterrupt
<1>2. TypeOK'
  BY <1>0, <1>1 DEF IInv, TypeOK
<1>3. BusInv'
  BY <1>0, <1>1 DEF IInv, BusInv, IsData, Paced
<1>4. PhaseInv'
  BY <1>0, <1>1 DEF IInv, PhaseInv, IsData, Waiting, Awaited, Paced
<1>5. SeenInv'
  BY <1>0, <1>1 DEF IInv, TypeOK, SeenInv, IsData, Waiting, Seen, Done, CMD, TC, NormalEvents, ErrorEvents
<1>6. OnceInv'
  BY <1>0, <1>1 DEF IInv, TypeOK, OnceInv, Waiting, Paced, CMD, TC, NormalEvents, ErrorEvents
<1>7. PacedInv'
  BY <1>0, <1>1 DEF IInv, TypeOK, PacedInv, Waiting, Paced, Ready, CMD, TC, NormalEvents, ErrorEvents
<1> QED BY <1>2, <1>3, <1>4, <1>5, <1>6, <1>7 DEF IInv

\* Nothing need be known of the events of a request that sdport does not wait for.
LEMMA NotWaiting ==
  ASSUME ~Waiting'
  PROVE  SeenInv' /\ OnceInv' /\ PacedInv'
  BY DEF SeenInv, OnceInv, PacedInv

\* After a timeout or an error sdport resets the host, if need be twice.
LEMMA ResetKeeps ==
  ASSUME IInv, SdportTimeout \/ SdhcResetHostCmd \/ SdhcResetHostDat \/ SdhcResetHostTimeout
  PROVE  IInv'
<1>0. ~Waiting'
  BY DEF SdportTimeout, SdhcResetHostCmd, SdhcResetHostDat, SdhcResetHostTimeout, Waiting, portVars
<1>1. UNCHANGED <<req, type, status, blockCount, required, currentEvents, errs, enabled, bad, fault>>
  BY DEF SdportTimeout, SdhcResetHostCmd, SdhcResetHostDat, SdhcResetHostTimeout, portVars, request, bus
<1>2. TypeOK' /\ BusInv'
  <2>1. CASE SdportTimeout
    BY <1>1, <2>1 DEF SdportTimeout, request, bus, IInv, TypeOK, BusInv, IsData, Paced
  <2>2. CASE SdhcResetHostCmd
    BY <1>1, <2>2 DEF SdhcResetHostCmd, AcknowledgeAll, IInv, TypeOK, BusInv, IsData, Paced
  <2>3. CASE SdhcResetHostDat
    BY <1>1, <2>3 DEF SdhcResetHostDat, AcknowledgeAll, IInv, TypeOK, BusInv, IsData, Paced
  <2>4. CASE SdhcResetHostTimeout
    <3>1. TypeOK'
      BY <1>1, <2>4 DEF SdhcResetHostTimeout, portVars, bus, IInv, TypeOK
    <3>2. BusInv'
      BY <1>1, <2>4 DEF SdhcResetHostTimeout, portVars, bus, IInv, BusInv, IsData, Paced
    <3> QED BY <3>1, <3>2
  <2> QED BY <2>1, <2>2, <2>3, <2>4
<1>3. PhaseInv'
  BY <1>0, <1>1 DEF IInv, PhaseInv, IsData, Waiting
<1> QED BY <1>0, <1>2, <1>3, NotWaiting DEF IInv

LEMMA ToggleKeeps ==
  ASSUME IInv, SdhcSlotToggleEvents
  PROVE  IInv'
<1>0. /\ UNCHANGED <<port, req, type, portEvents, request, ints, errs, bus, fault>>
      /\ enabled' \in BOOLEAN /\ ~Waiting'
  BY DEF SdhcSlotToggleEvents, SdhcEnableInterrupt, SdhcDisableInterrupt, portVars, Waiting
<1>1. TypeOK' /\ BusInv' /\ PhaseInv'
  BY <1>0 DEF IInv, TypeOK, BusInv, PhaseInv, IsData, Paced, Waiting, request, bus
<1> QED BY <1>0, <1>1, NotWaiting DEF IInv

LEMMA IssueKeeps ==
  ASSUME IInv, NEW r \in Requests, SdhcSlotIssueRequest(r)
  PROVE  IInv'
<1>0. /\ port = "idle" /\ portEvents = {} /\ port' = "wait" /\ req' = r
      /\ type' = IF r.method = "Undefined" THEN "CommandNoTransfer" ELSE "CommandWithTransfer"
      /\ outstanding' = TRUE /\ required' = Awaited(r) /\ status' = "SUCCESS"
      /\ blockCount' = r.blocks /\ currentEvents' = {}
      /\ cmd' = TRUE /\ left' = r.blocks /\ bad' = FALSE
      /\ UNCHANGED <<portEvents, ints, errs, enabled, data, buffer, busy, hung, fault>>
  BY DEF SdhcSlotIssueRequest, StartCommand
<1>1. /\ r.method \in {"Undefined", "Pio", "SgDma"} /\ r.write \in BOOLEAN /\ r.r1b \in BOOLEAN
      /\ r.blocks \in Nat /\ (r.blocks = 0 <=> r.method = "Undefined")
      /\ (r.r1b => r.method = "Undefined")
  BY SdhcAssumption
<1>2. ints = {} /\ data = "none" /\ left = 0 /\ ~busy /\ buffer = 0
  BY <1>0 DEF IInv, BusInv
<1>3. TypeOK'
  <2>1. Awaited(r) \subseteq NormalEvents
    BY <1>1 DEF Awaited, Paced, NormalEvents
  <2>2. type' \in {"CommandNoTransfer", "CommandWithTransfer", "StartTransfer"}
    BY <1>0
  <2>3. req' \in Requests \cup {NoRequest}
    BY <1>0
  <2>4. left' \in Nat /\ blockCount' \in Int
    BY <1>0, <1>1
  <2>6. required' \subseteq NormalEvents /\ currentEvents' \subseteq NormalEvents
    BY <1>0, <2>1
  <2>7. cmd' \in BOOLEAN /\ bad' \in BOOLEAN /\ outstanding' \in BOOLEAN
    BY <1>0
  <2>5. UNCHANGED <<portEvents, ints, errs, enabled, data, buffer, busy, hung, fault>> /\ status' = "SUCCESS" /\ port' = "wait"
    BY <1>0
  <2> QED BY <2>2, <2>3, <2>4, <2>5, <2>6, <2>7 DEF IInv, TypeOK
<1>4. BusInv'
  BY <1>0, <1>1, <1>2 DEF BusInv, IsData, Paced
<1>5. PhaseInv'
  BY <1>0, <1>1, <1>2 DEF PhaseInv, IsData, Waiting, Awaited, Paced, TypeOK
<1>6. SeenInv'
  BY <1>0, <1>1, <1>2 DEF SeenInv, IsData, Waiting, Seen, Done
<1>7. OnceInv'
  BY <1>0, <1>1, <1>2 DEF OnceInv, Waiting, CMD, TC, Awaited
<1>8. PacedInv'
  BY <1>0, <1>1, <1>2 DEF PacedInv, Waiting, Paced, CMD
<1> QED BY <1>3, <1>4, <1>5, <1>6, <1>7, <1>8 DEF IInv

-----------------------------------------------------------------------------
(* The controller and the card.                                            *)

LEMMA RespondKeeps ==
  ASSUME IInv, Respond
  PROVE  IInv'
<1>0. /\ cmd /\ cmd' = FALSE
      /\ UNCHANGED <<port, req, type, portEvents, request, enabled, fault, left, buffer, hung>>
  BY DEF Respond, driver, portVars
<1>1. \/ /\ busy' = req.r1b /\ data' = IF IsData THEN "active" ELSE data
         /\ ints' = ints \cup {CMD} \cup IF req.write /\ req.method = "Pio" THEN {Paced(req)} ELSE {}
         /\ errs' = errs /\ bad' = bad
      \/ \E e \in {"CMD_TIMEOUT", "CMD_CRC"}, c \in {{}, {CMD}} :
           /\ ints' = ints \cup c /\ errs' = errs \cup {e}
           /\ busy' \in BOOLEAN /\ (busy' => req.r1b)
           /\ bad' = TRUE /\ data' = data
  BY DEF Respond, Raise, CMD, IsData
<1>2. CASE busy' = req.r1b /\ bad' = bad /\ errs' = errs
           /\ data' = (IF IsData THEN "active" ELSE data)
           /\ ints' = ints \cup {CMD} \cup (IF req.write /\ req.method = "Pio" THEN {Paced(req)} ELSE {})
  <2>1. TypeOK'
    <3>1. ints' \subseteq NormalEvents /\ data' \in {"none", "active"} /\ busy' \in BOOLEAN
      BY <1>2, RequestFacts DEF IInv, TypeOK, Paced, CMD, NormalEvents
    <3> QED BY <1>0, <1>2, <3>1 DEF IInv, TypeOK, request
  <2>2. BusInv'
    BY <1>0, <1>2, RequestFacts DEF IInv, TypeOK, BusInv, IsData, Paced, CMD, TC
  <2>3. PhaseInv'
    BY <1>0 DEF IInv, PhaseInv, IsData, Waiting, Awaited, Paced, request
  <2>4. SeenInv'
    BY <1>0, <1>2, RequestFacts DEF IInv, TypeOK, SeenInv, OnceInv, IsData, Waiting, Seen, Done, CMD, TC,
      Paced, request
  <2>5. OnceInv'
    BY <1>0, <1>2, RequestFacts DEF IInv, TypeOK, OnceInv, Waiting, CMD, TC, Paced, request
  <2>6. PacedInv'
    BY <1>0, <1>2, RequestFacts, SdhcAssumption DEF IInv, TypeOK, BusInv, PhaseInv, OnceInv, PacedInv, Waiting,
      Paced, Ready, CMD, TC, request, IsData
  <2> QED BY <2>1, <2>2, <2>3, <2>4, <2>5, <2>6 DEF IInv
<1>3. CASE \E e \in {"CMD_TIMEOUT", "CMD_CRC"}, c \in {{}, {CMD}} :
             /\ ints' = ints \cup c /\ errs' = errs \cup {e}
             /\ busy' \in BOOLEAN /\ (busy' => req.r1b)
             /\ bad' = TRUE /\ data' = data
  <2>0. PICK e \in {"CMD_TIMEOUT", "CMD_CRC"}, c \in {{}, {CMD}} :
             /\ ints' = ints \cup c /\ errs' = errs \cup {e}
             /\ busy' \in BOOLEAN /\ (busy' => req.r1b)
             /\ bad' = TRUE /\ data' = data
    BY <1>3
  <2>1. TypeOK'
    <3>1. ints' \subseteq NormalEvents /\ errs' \subseteq ErrorEvents /\ busy' \in BOOLEAN
      BY <2>0 DEF IInv, TypeOK, CMD, NormalEvents, ErrorEvents
    <3> QED BY <1>0, <2>0, <3>1 DEF IInv, TypeOK, request
  <2>2. BusInv'
    BY <1>0, <2>0, RequestFacts DEF IInv, TypeOK, BusInv, IsData, Paced, CMD, TC
  <2>3. PhaseInv'
    BY <1>0 DEF IInv, PhaseInv, IsData, Waiting, Awaited, Paced, request
  <2>4. SeenInv'
    BY <1>0, <2>0, RequestFacts DEF IInv, TypeOK, SeenInv, OnceInv, IsData, Waiting, Seen, Done, CMD, TC, request
  <2>5. OnceInv'
    BY <1>0, <2>0, RequestFacts DEF IInv, TypeOK, OnceInv, Waiting, CMD, TC, request
  <2>6. PacedInv'
    BY <2>0 DEF PacedInv
  <2> QED BY <2>1, <2>2, <2>3, <2>4, <2>5, <2>6 DEF IInv
<1> QED BY <1>1, <1>2, <1>3

LEMMA MoveBlockKeeps ==
  ASSUME IInv, MoveBlock
  PROVE  IInv'
<1>0. /\ data = "active" /\ left > 0 /\ left' = left - 1
      /\ UNCHANGED <<port, req, type, portEvents, request, enabled, fault, cmd, data, busy, hung, bad>>
      /\ errs' = errs
      /\ ints' = ints \cup IF req.method = "Pio" /\ Ready(buffer', left') /\ ~Ready(buffer, left)
                           THEN {Paced(req)} ELSE {}
      /\ IF req.method = "SgDma" THEN buffer' = buffer
         ELSE IF req.write THEN buffer > 0 /\ buffer' = buffer - 1
         ELSE buffer < FifoBlocks /\ buffer' = buffer + 1
  BY DEF MoveBlock, driver, portVars, Raise
<1>1. TypeOK'
  <2>1. ints' \subseteq NormalEvents /\ left' \in Nat /\ buffer' \in Nat
    BY <1>0, RequestFacts DEF IInv, TypeOK, Paced, NormalEvents
  <2> QED BY <1>0, <2>1 DEF IInv, TypeOK, request
<1>2. BusInv'
  BY <1>0, RequestFacts DEF IInv, TypeOK, BusInv, IsData, Paced, CMD, TC
<1>3. PhaseInv'
  BY <1>0 DEF IInv, PhaseInv, IsData, Waiting, Awaited, Paced, request
<1>4. SeenInv'
  BY <1>0 DEF IInv, TypeOK, SeenInv, IsData, Waiting, Seen, Done, CMD, TC, Paced, request
<1>5. OnceInv'
  BY <1>0 DEF IInv, TypeOK, OnceInv, Waiting, CMD, TC, Paced, request
<1>6. PacedInv'
  BY <1>0, RequestFacts, SdhcAssumption DEF IInv, TypeOK, BusInv, OnceInv, PacedInv, Waiting, Paced, Ready, CMD, request, IsData
<1> QED BY <1>1, <1>2, <1>3, <1>4, <1>5, <1>6 DEF IInv

LEMMA BadBlockKeeps ==
  ASSUME IInv, BadBlock
  PROVE  IInv'
<1>0. /\ data = "active" /\ data' \in {"active", "none"} /\ bad' = TRUE
      /\ UNCHANGED <<port, req, type, portEvents, request, enabled, fault, cmd, left, buffer, busy, hung>>
  BY DEF BadBlock, driver, portVars
<1>1. PICK e \in {"DATA_TIMEOUT", "DATA_CRC"} :
        /\ errs' = errs \cup {e}
        /\ ints' = ints \/ (data' = "none" /\ ints' = ints \cup {TC})
  BY DEF BadBlock, Raise, TC
<1>2. TypeOK'
  <2>1. ints' \subseteq NormalEvents /\ errs' \subseteq ErrorEvents
    BY <1>1 DEF IInv, TypeOK, TC, NormalEvents, ErrorEvents
  <2> QED BY <1>0, <2>1 DEF IInv, TypeOK, request
<1>3. BusInv'
  BY <1>0, <1>1 DEF IInv, TypeOK, BusInv, IsData, Paced, CMD, TC
<1>4. PhaseInv'
  BY <1>0 DEF IInv, PhaseInv, IsData, Waiting, Awaited, Paced, request
<1>5. SeenInv'
  BY <1>0, <1>1 DEF IInv, TypeOK, SeenInv, OnceInv, BusInv, IsData, Waiting, Seen, Done, CMD, TC, request
<1>6. OnceInv'
  BY <1>0, <1>1 DEF IInv, TypeOK, BusInv, OnceInv, Waiting, CMD, TC, request
<1>7. PacedInv'
  BY <1>0 DEF PacedInv
<1> QED BY <1>2, <1>3, <1>4, <1>5, <1>6, <1>7 DEF IInv

LEMMA DataOverKeeps ==
  ASSUME IInv, DataOver
  PROVE  IInv'
<1>0. /\ data = "active" /\ left = 0 /\ data' = "none" /\ busy' = req.write /\ errs' = errs
      /\ req.method = "Pio" /\ ~req.write => buffer = 0 \/ req.blocks = 1
      /\ ints' = ints \cup IF req.write THEN {} ELSE {TC}
      /\ UNCHANGED <<port, req, type, portEvents, request, enabled, fault, cmd, left, buffer, hung, bad>>
  BY DEF DataOver, driver, portVars, Raise, TC
<1>1. TypeOK'
  <2>1. ints' \subseteq NormalEvents /\ busy' \in BOOLEAN /\ data' = "none" /\ errs' = errs
    BY <1>0, RequestFacts DEF IInv, TypeOK, TC, NormalEvents
  <2>2. UNCHANGED <<port, req, type, portEvents, request, enabled, fault, cmd, left, buffer, hung, bad>>
    BY <1>0
  <2>3. TypeOK
    BY DEF IInv
  <2> QED BY <2>1, <2>2, <2>3 DEF TypeOK, request
<1>2. BusInv'
  BY <1>0, RequestFacts DEF IInv, TypeOK, BusInv, IsData, Paced, CMD, TC
<1>3. PhaseInv'
  BY <1>0 DEF IInv, PhaseInv, IsData, Waiting, Awaited, Paced, request
<1>4. SeenInv'
  BY <1>0 DEF IInv, TypeOK, SeenInv, OnceInv, BusInv, IsData, Waiting, Seen, Done, CMD, TC, request
<1>5. OnceInv'
  BY <1>0, RequestFacts DEF IInv, TypeOK, BusInv, OnceInv, Waiting, CMD, TC, request
<1>6. PacedInv'
  BY <1>0, RequestFacts DEF IInv, TypeOK, BusInv, PacedInv, Waiting, Paced, Ready, CMD, TC, request
<1> QED BY <1>1, <1>2, <1>3, <1>4, <1>5, <1>6 DEF IInv

LEMMA CardIdleKeeps ==
  ASSUME IInv, CardIdle
  PROVE  IInv'
<1>0. /\ busy /\ busy' = FALSE /\ errs' = errs /\ ints' = ints \cup {TC}
      /\ UNCHANGED <<port, req, type, portEvents, request, enabled, fault, cmd, data, left, buffer, hung, bad>>
  BY DEF CardIdle, driver, portVars, Raise, TC
<1>1. TypeOK'
  <2>1. ints' \subseteq NormalEvents /\ busy' \in BOOLEAN /\ errs' = errs
    BY <1>0 DEF IInv, TypeOK, TC, NormalEvents
  <2>2. UNCHANGED <<port, req, type, portEvents, request, enabled, fault, cmd, data, left, buffer, hung, bad>>
    BY <1>0
  <2>3. TypeOK
    BY DEF IInv
  <2> QED BY <2>1, <2>2, <2>3 DEF TypeOK, request
<1>2. BusInv'
  BY <1>0 DEF IInv, TypeOK, BusInv, IsData, Paced, CMD, TC
<1>3. PhaseInv'
  BY <1>0 DEF IInv, PhaseInv, IsData, Waiting, Awaited, Paced, request
<1>4. SeenInv'
  BY <1>0 DEF IInv, TypeOK, SeenInv, OnceInv, BusInv, IsData, Waiting, Seen, Done, CMD, TC, request
<1>5. OnceInv'
  BY <1>0 DEF IInv, TypeOK, BusInv, OnceInv, Waiting, Paced, CMD, TC, request
<1>6. PacedInv'
  BY <1>0 DEF IInv, TypeOK, BusInv, PacedInv, Waiting, Paced, Ready, CMD, TC, request
<1> QED BY <1>1, <1>2, <1>3, <1>4, <1>5, <1>6 DEF IInv

LEMMA HangKeeps ==
  ASSUME IInv, Hang
  PROVE  IInv'
<1>0. /\ hung' \in BOOLEAN
      /\ UNCHANGED <<port, req, type, portEvents, request, enabled, fault, ints, errs, cmd, data, left, buffer,
                     busy, bad>>
  BY DEF Hang, driver, portVars
<1> QED BY <1>0 DEF IInv, TypeOK, BusInv, PhaseInv, SeenInv, OnceInv, PacedInv, IsData, Waiting, Awaited,
  Paced, Seen, Done, Ready, request

-----------------------------------------------------------------------------
(* Transfers.                                                              *)

\* A DMA transfer is over when its second phase begins.
LEMMA AdmaDone ==
  ASSUME IInv, SdhcStartAdmaTransfer
  PROVE  Done /\ buffer = 0
<1>1. port = "transfer" /\ req.method = "SgDma"
  BY DEF SdhcStartAdmaTransfer
<1>2. TC \in currentEvents
  BY <1>1 DEF IInv, PhaseInv, Waiting, Awaited, TC
<1> QED BY <1>1, <1>2 DEF IInv, SeenInv, BusInv, Waiting, Seen

\* Then nothing of it is left.
LEMMA NothingLeft ==
  ASSUME IInv, Waiting, Done, req.method # "Pio", CMD \notin required,
         IsData \/ req.r1b => TC \in portEvents \cup currentEvents
  PROVE  ints = {}
  BY RequestFacts DEF IInv, OnceInv, BusInv, Waiting, Done, TC, CMD

LEMMA AdmaKeeps ==
  ASSUME IInv, SdhcStartAdmaTransfer
  PROVE  IInv'
<1>1. /\ port = "transfer" /\ req.method = "SgDma" /\ type' = "StartTransfer" /\ status' = "SUCCESS"
      /\ UNCHANGED <<req, portEvents, required, blockCount, currentEvents, ints, errs, enabled, bus>>
      /\ SdhcCompleteRequest("SUCCESS", "wait", TRUE)
  BY DEF SdhcStartAdmaTransfer
<1>2. /\ outstanding' \in BOOLEAN /\ port' = "idle" /\ fault' = fault
  BY <1>1 DEF SdhcCompleteRequest, AfterCompletion
<1>3. TypeOK'
  BY <1>1, <1>2 DEF IInv, TypeOK, bus
<1>4. ints = {}
  <2>1. CMD \notin required /\ TC \in currentEvents
    BY <1>1 DEF IInv, PhaseInv, Waiting, Awaited, TC
  <2> QED BY <1>1, <2>1, AdmaDone, NothingLeft DEF Waiting
<1>5. BusInv'
  BY <1>1, <1>2, <1>4, AdmaDone DEF BusInv, IInv, IsData, Paced, bus, Done
<1>6. PhaseInv'
  BY <1>1, <1>2 DEF PhaseInv, IInv, IsData, Waiting
<1> QED BY <1>2, <1>3, <1>5, <1>6, NotWaiting DEF IInv, Waiting

LEMMA PioKeeps ==
  ASSUME IInv, SdhcStartPioTransfer
  PROVE  IInv'
<1>1. /\ port = "transfer" /\ req.method = "Pio" /\ type' = "StartTransfer" /\ currentEvents' = {}
      /\ buffer' = BlockMoved
      /\ ints' = IF data = "active" /\ Ready(BlockMoved, left) THEN ints \cup {Paced(req)} ELSE ints
      /\ blockCount' = blockCount - 1
      /\ status' = IF blockCount > 1 THEN "MORE_PROCESSING" ELSE "SUCCESS"
      /\ UNCHANGED <<req, portEvents, errs, enabled, cmd, data, left, busy, hung, bad>>
  BY DEF SdhcStartPioTransfer
<1>2. /\ IsData /\ required = {} /\ blockCount \in Nat /\ blockCount > 0 /\ ~cmd
      /\ req.write \in BOOLEAN /\ req.blocks \in Nat /\ FifoBlocks \in Nat
  BY <1>1, RequestFacts, SdhcAssumption DEF IInv, TypeOK, PhaseInv, OnceInv, Waiting
<1>3. CASE blockCount = 1 /\ TC \in currentEvents
  <2>1. /\ outstanding' = FALSE /\ port' = "idle" /\ fault' = fault /\ required' = required
    BY <1>1, <1>2, <1>3 DEF SdhcStartPioTransfer, SdhcCompleteRequest, AfterCompletion, TC, IInv, TypeOK
  <2>2. Done /\ ints = {}
    BY <1>1, <1>2, <1>3 DEF IInv, TypeOK, BusInv, SeenInv, OnceInv, PacedInv, Waiting, Seen, Done, TC, CMD
  <2>3. buffer' = 0
    BY <1>1, <1>2, <1>3, <2>2 DEF IInv, TypeOK, PacedInv, Waiting, Done, BlockMoved, Ready
  <2>4. ints' = {}
    BY <1>1, <2>2 DEF Done
  <2>5. TypeOK'
    <3>1. blockCount' \in Int /\ status' = "SUCCESS"
      BY <1>1, <1>2, <1>3
    <3>2. /\ type' = "StartTransfer" /\ currentEvents' = {}
          /\ UNCHANGED <<req, portEvents, errs, enabled, cmd, data, left, busy, hung, bad>>
      BY <1>1
    <3> QED BY <2>1, <2>3, <2>4, <3>1, <3>2 DEF IInv, TypeOK
  <2>6. BusInv' /\ PhaseInv'
    BY <1>1, <1>2, <2>1, <2>2, <2>3, <2>4 DEF IInv, BusInv, PhaseInv, Done, IsData, Waiting
  <2> QED BY <2>1, <2>5, <2>6, NotWaiting DEF IInv, Waiting
<1>4. CASE ~(blockCount = 1 /\ TC \in currentEvents)
  <2>1. /\ required' = {IF blockCount > 1 THEN Paced(req) ELSE TC}
        /\ outstanding' = TRUE /\ port' = "wait" /\ fault' = fault
    BY <1>2, <1>4 DEF SdhcStartPioTransfer, TC
  <2>2. Paced(req) \in NormalEvents /\ Paced(req) # CMD /\ Paced(req) # TC
    BY <1>2 DEF Paced, NormalEvents, CMD, TC
  <2>3. TypeOK'
    <3>1. buffer' \in Nat
      BY <1>1, <1>2 DEF IInv, TypeOK, BlockMoved
    <3>2. ints' \subseteq NormalEvents /\ required' \subseteq NormalEvents
      BY <1>1, <2>1, <2>2 DEF IInv, TypeOK, TC, NormalEvents
    <3> QED BY <1>1, <1>2, <2>1, <3>1, <3>2 DEF IInv, TypeOK
  <2>4. BusInv'
    BY <1>1, <1>2, <2>1 DEF IInv, TypeOK, BusInv, IsData, Paced, BlockMoved, CMD, TC
  <2>5. PhaseInv'
    BY <1>1, <1>2, <2>1 DEF IInv, TypeOK, PhaseInv, IsData, Waiting, Paced
  <2>6. SeenInv'
    BY <1>1, <1>2, <2>1, <2>2 DEF IInv, TypeOK, SeenInv, IsData, Waiting, Seen, Done, CMD, TC
  <2>7. OnceInv'
    BY <1>1, <1>2, <2>1, <2>2 DEF IInv, TypeOK, OnceInv, Waiting, CMD, TC
  <2>8. PacedInv'
    <3> SUFFICES ASSUME ~bad PROVE PacedInv'
      BY <1>1 DEF PacedInv
    <3>1. /\ IF req.write THEN buffer + blockCount = left ELSE buffer + left = blockCount
          /\ Ready(buffer, left) /\ Paced(req) \notin ints \cup portEvents
          /\ ~req.write /\ req.blocks > 1 /\ data = "none" /\ ~cmd => buffer = 0
      BY <1>1 DEF IInv, PacedInv, Waiting
    <3>2. buffer' = IF req.write THEN buffer + 1 ELSE buffer - 1
      BY <1>1, <1>2, <3>1 DEF BlockMoved, Ready
    <3>3. Paced(req)' = Paced(req) /\ Ready(buffer, left)' = Ready(BlockMoved, left)
      BY <1>1 DEF Paced, Ready
    <3> QED BY <1>1, <1>2, <2>1, <2>2, <3>1, <3>2, <3>3 DEF IInv, TypeOK, PacedInv, Waiting, Ready
  <2> QED BY <2>3, <2>4, <2>5, <2>6, <2>7, <2>8 DEF IInv
<1> QED BY <1>3, <1>4

-----------------------------------------------------------------------------
(* The DPC.                                                                *)

\* When the last required event has come, all of the request is over.
LEMMA AllCame ==
  ASSUME IInv, port = "wait", portEvents \cap ErrorEvents = {},
         required \ (portEvents \cap NormalEvents) = {},
         type = "CommandNoTransfer" \/ (type = "StartTransfer" /\ blockCount = 0)
  PROVE  Done /\ buffer = 0 /\ ints = {}
<1>1. /\ IsData => req.method = "Pio" /\ blockCount = 0 /\ required = {TC}
      /\ ~IsData => Awaited(req) \subseteq portEvents \cup currentEvents
  BY RequestFacts DEF IInv, PhaseInv, Waiting, IsData
<1>2. CASE IsData
  <2>1. TC \in portEvents /\ Done
    BY <1>1, <1>2 DEF IInv, SeenInv, Seen, Waiting
  <2>2. buffer = 0
    BY <1>1, <1>2, <2>1 DEF IInv, TypeOK, PacedInv, Waiting, Done
  <2>3. Paced(req) \notin ints
    BY <1>1, <1>2, <2>1, <2>2 DEF IInv, TypeOK, PacedInv, Waiting, Done, Ready
  <2> QED BY <1>1, <1>2, <2>1, <2>2, <2>3 DEF IInv, BusInv, OnceInv, Waiting, CMD, TC
<1>3. CASE ~IsData
  <2>1. CMD \in portEvents \cup currentEvents /\ (req.r1b => TC \in portEvents \cup currentEvents)
    BY <1>1, <1>3 DEF Awaited, CMD, TC
  <2>2. ~bad /\ ~cmd
    BY <1>3, <2>1 DEF IInv, SeenInv, OnceInv, Seen, Waiting
  <2>3. Done
    BY <1>3, <2>1, <2>2 DEF IInv, SeenInv, Seen, Waiting, BusInv, Done
  <2>4. CMD \notin ints /\ TC \notin ints
    BY <1>3, <2>1, RequestFacts DEF IInv, BusInv, OnceInv, Waiting
  <2> QED BY <1>3, <2>3, <2>4 DEF IInv, BusInv, IsData
<1> QED BY <1>2, <1>3

\* The DPC that comes while sdport has yet to go on with its request.
LateDpc == port = "transfer" /\ PortDpc

LEMMA DpcKeeps ==
  ASSUME ~LateDpc, IInv, PortDpc
  PROVE  IInv'
<1>1. /\ portEvents' = {} /\ port # "transfer"
      /\ UNCHANGED <<req, type, ints, errs, enabled, bus>>
  BY DEF PortDpc, LateDpc
<1>2. CASE port # "wait"
  <2>1. UNCHANGED <<port, request, fault>> /\ ~Waiting'
    BY <1>1, <1>2 DEF PortDpc, Waiting
  <2>2. TypeOK' /\ BusInv' /\ PhaseInv'
    BY <1>1, <2>1 DEF IInv, TypeOK, BusInv, PhaseInv, IsData, Paced, Waiting, request, bus
  <2> QED BY <2>1, <2>2, NotWaiting DEF IInv
<1>3. CASE port = "wait"
  <2> DEFINE events == portEvents \cap NormalEvents
             errors == portEvents \cap ErrorEvents
  <2>1. outstanding /\ blockCount' = blockCount /\ SdhcRequestDpc(events, errors)
    BY <1>3 DEF PortDpc, IInv, PhaseInv, Waiting, SdhcRequestDpc
  <2>2. CASE errors # {}
    <3>1. /\ currentEvents' = {} /\ required' = {} /\ status' = "Failed"
          /\ SdhcCompleteRequest("Failed", port, outstanding)
      BY <2>1, <2>2 DEF SdhcRequestDpc
    <3>2. outstanding' \in BOOLEAN /\ port' = "failed" /\ fault' = fault
      BY <1>3, <2>1, <3>1 DEF SdhcCompleteRequest, AfterCompletion, IInv, TypeOK
    <3>3. TypeOK' /\ BusInv' /\ PhaseInv'
      BY <1>1, <2>1, <3>1, <3>2 DEF IInv, TypeOK, BusInv, PhaseInv, IsData, Paced, Waiting, bus
    <3> QED BY <3>2, <3>3, NotWaiting DEF IInv, Waiting
  <2>3. CASE errors = {} /\ required \ events # {}
    <3>1. /\ currentEvents' = currentEvents \cup events /\ required' = required \ events
          /\ UNCHANGED <<port, outstanding, status, fault>>
      BY <2>1, <2>3 DEF SdhcRequestDpc
    <3>2. TypeOK'
      BY <1>1, <2>1, <3>1 DEF IInv, TypeOK, bus
    <3>3. BusInv'
      BY <1>1, <3>1 DEF IInv, BusInv, IsData, Paced, bus
    <3>4. PhaseInv'
      <4>1. type # "StartTransfer" => Awaited(req) \subseteq required' \cup currentEvents'
        BY <1>3, <3>1 DEF IInv, TypeOK, PhaseInv, Waiting
      <4>2. type = "CommandWithTransfer" /\ req.method = "Pio" => Paced(req) \in required'
        <5> SUFFICES ASSUME type = "CommandWithTransfer", req.method = "Pio", Paced(req) \in events
                     PROVE  FALSE
          BY <1>3, <3>1 DEF IInv, PhaseInv
        <5>1. required \subseteq {CMD, Paced(req)}
          BY <1>3, RequestFacts DEF IInv, PhaseInv, Waiting, Awaited, CMD, IsData
        <5> QED BY <1>3, <2>3, <5>1 DEF IInv, OnceInv, Waiting, CMD, NormalEvents
      <4>3. type = "StartTransfer" => required' = required
        BY <1>3, <2>3, <3>1 DEF IInv, PhaseInv
      <4> QED BY <1>1, <1>3, <2>1, <3>1, <4>1, <4>2, <4>3 DEF IInv, PhaseInv, IsData, Waiting, Awaited, Paced
    <3>5. SeenInv'
      BY <1>1, <2>3, <3>1 DEF IInv, TypeOK, SeenInv, IsData, Waiting, Seen, Done, bus, CMD, TC, NormalEvents, ErrorEvents
    <3>6. OnceInv'
      BY <1>1, <2>3, <3>1 DEF IInv, TypeOK, OnceInv, Waiting, bus, CMD, TC, NormalEvents
    <3>7. PacedInv'
      BY <1>1, <1>3, <2>1, <2>3, <3>1, RequestFacts DEF IInv, TypeOK, PacedInv, OnceInv, Waiting, Paced, Ready, bus, CMD, NormalEvents, IsData
    <3> QED BY <3>2, <3>3, <3>4, <3>5, <3>6, <3>7 DEF IInv
  <2>4. CASE errors = {} /\ required \ events = {}
    <3> DEFINE s == IF status = "MORE_PROCESSING" THEN status ELSE "SUCCESS"
    <3>1. /\ currentEvents' = currentEvents \cup events /\ required' = {}
          /\ status' = s /\ SdhcCompleteRequest(s, port, outstanding)
      BY <2>1, <2>4 DEF SdhcRequestDpc
    <3>2. outstanding' = (IsData /\ blockCount # 0) /\ port' = AfterCompletion(s) /\ fault' = fault
      BY <1>1, <1>3, <2>1, <3>1 DEF SdhcCompleteRequest, IsData
    <3>3. CASE type = "CommandNoTransfer" \/ (type = "StartTransfer" /\ blockCount = 0)
      <4>1. s = "SUCCESS" /\ port' = "idle"
        BY <1>1, <1>3, <3>2, <3>3 DEF IInv, PhaseInv, Waiting, AfterCompletion
      <4>3. Done /\ buffer = 0 /\ ints = {}
        BY <1>3, <2>4, <3>3, AllCame
      <4>4. TypeOK'
        BY <1>1, <2>1, <3>1, <3>2, <4>1 DEF IInv, TypeOK, bus
      <4>5. BusInv' /\ PhaseInv'
        BY <1>1, <2>1, <3>1, <3>2, <4>1, <4>3 DEF IInv, BusInv, PhaseInv, Done, IsData, Waiting, bus
      <4> QED BY <4>1, <4>4, <4>5, NotWaiting DEF IInv, Waiting
    <3>4. CASE type = "CommandWithTransfer" \/ (type = "StartTransfer" /\ blockCount > 0)
      <4>1. port' = "transfer" /\ IsData
        BY <1>1, <1>3, <3>2, <3>4 DEF IInv, PhaseInv, Waiting, AfterCompletion
      <4>2. blockCount > 0 /\ outstanding' = TRUE
        <5>1. blockCount > 0
          BY <1>3, <3>4, <4>1, RequestFacts DEF IInv, TypeOK, PhaseInv, Waiting
        <5>2. IsData /\ blockCount # 0
          BY <4>1, <5>1 DEF IInv, TypeOK
        <5> QED BY <3>2, <5>1, <5>2
      <4>3. TypeOK'
        BY <1>1, <2>1, <3>1, <3>2, <4>1, <4>2 DEF IInv, TypeOK, bus
      <4>4. BusInv'
        BY <1>1, <4>1 DEF IInv, BusInv, IsData, Paced, bus
      <4>5. PhaseInv'
        BY <1>1, <1>3, <2>1, <2>4, <3>1, <3>4, <4>1, <4>2 DEF IInv, PhaseInv, IsData, Waiting, Awaited, Paced
      <4>6. SeenInv'
        BY <1>1, <1>3, <2>4, <3>1, <4>1 DEF IInv, TypeOK, SeenInv, IsData, Waiting, Seen, Done, bus, CMD, TC,
          NormalEvents, ErrorEvents
      <4>7. OnceInv'
        BY <1>1, <1>3, <2>4, <3>1, <4>1 DEF IInv, TypeOK, OnceInv, Waiting, Paced, bus, CMD, TC, NormalEvents
      <4>8. PacedInv'
        <5> SUFFICES ASSUME req.method = "Pio", ~bad PROVE PacedInv'
          BY <1>1 DEF PacedInv, bus
        <5>1. Paced(req) \in events
          BY <1>3, <2>4, <3>4 DEF IInv, PhaseInv
        <5> QED BY <1>1, <1>3, <2>1, <4>1, <5>1 DEF IInv, PacedInv, Waiting, Paced, Ready, bus
      <4> QED BY <4>3, <4>4, <4>5, <4>6, <4>7, <4>8 DEF IInv
    <3> QED BY <1>3, <3>3, <3>4 DEF IInv, TypeOK, PhaseInv
  <2> QED BY <2>2, <2>3, <2>4
<1> QED BY <1>2, <1>3

-----------------------------------------------------------------------------
LEMMA InitHolds ==
  ASSUME Init
  PROVE  IInv
<1>1. TypeOK
  <2>1. req \in Requests \cup {NoRequest} /\ left \in Nat /\ buffer \in Nat /\ blockCount \in Int
    BY DEF Init
  <2> QED BY <2>1 DEF Init, TypeOK
<1>2. BusInv /\ PhaseInv
  BY DEF Init, BusInv, PhaseInv, Waiting, NoRequest, IsData
<1>3. SeenInv /\ OnceInv /\ PacedInv
  BY DEF Init, SeenInv, OnceInv, PacedInv, Waiting
<1> QED BY <1>1, <1>2, <1>3 DEF IInv

LEMMA StutterKeeps ==
  ASSUME IInv, UNCHANGED vars
  PROVE  IInv'
  BY DEF vars, portVars, request, bus, IInv, TypeOK, BusInv, PhaseInv, SeenInv, OnceInv, PacedInv, IsData,
    Waiting, Awaited, Paced, Seen, Done, Ready

LEMMA NextKeeps ==
  ASSUME ~LateDpc, IInv, [Next]_vars
  PROVE  IInv'
  BY InterruptKeeps, ResetKeeps, ToggleKeeps, IssueKeeps, RespondKeeps, MoveBlockKeeps, BadBlockKeeps,
    DataOverKeeps, CardIdleKeeps, HangKeeps, AdmaKeeps, PioKeeps, DpcKeeps, StutterKeeps
  DEF Next, Controller, SdhcStartTransfer

-----------------------------------------------------------------------------
(* What a request waits for comes.                                         *)

\* Nothing is required of the controller that is not on its way, yet to be done, or a data
\* request for which there is no block or room now.
ComingInv ==
  /\ port = "wait" => required # {}
  /\ Waiting /\ req.method = "Pio" => blockCount <= req.blocks
  /\ Waiting /\ ~bad =>
       /\ CMD \in required => cmd \/ CMD \in ints \cup portEvents
       /\ TC \in required => TC \notin currentEvents
       /\ (IsData \/ req.r1b) /\ TC \notin currentEvents =>
            cmd \/ data = "active" \/ busy \/ TC \in ints \cup portEvents
       /\ IsData /\ left > 0 /\ ~cmd => data = "active"
       /\ port = "wait" /\ req.method = "Pio" /\ ~cmd /\ Paced(req) \in required /\ Ready(buffer, left) =>
            Paced(req) \in ints \cup portEvents

LEMMA ComingWhenNotWaiting ==
  ASSUME ~Waiting'
  PROVE  ComingInv'
  BY DEF ComingInv, Waiting

LEMMA IssueKeepsComing ==
  ASSUME IInv, NEW r \in Requests, SdhcSlotIssueRequest(r)
  PROVE  ComingInv'
<1>0. /\ req' = r /\ required' = Awaited(r) /\ blockCount' = r.blocks /\ currentEvents' = {} /\ cmd' = TRUE
  BY DEF SdhcSlotIssueRequest, StartCommand
<1>1. r.blocks \in Nat
  BY SdhcAssumption
<1>2. required' # {} /\ blockCount' <= req'.blocks
  BY <1>0, <1>1 DEF Awaited
<1> QED BY <1>0, <1>2 DEF ComingInv

LEMMA RespondKeepsComing ==
  ASSUME IInv, ComingInv, Respond
  PROVE  ComingInv'
<1>0. UNCHANGED <<port, req, type, portEvents, request, left, buffer>> /\ cmd
  BY DEF Respond, driver, portVars
<1>1. CASE bad'
  BY <1>0, <1>1 DEF ComingInv, Waiting, request
<1>2. CASE ~bad'
  <2>1. /\ busy' = req.r1b /\ data' = IF IsData THEN "active" ELSE data
        /\ ints' = ints \cup {CMD} \cup IF req.write /\ req.method = "Pio" THEN {Paced(req)} ELSE {}
        /\ bad' = bad
    BY <1>2 DEF Respond, Raise, CMD, IsData
  <2>2. ~req.write => ~Ready(buffer, left)
    BY <1>0 DEF IInv, TypeOK, BusInv, Ready
  <2> QED BY <1>0, <1>2, <2>1, <2>2, RequestFacts DEF IInv, ComingInv, Waiting, Ready, request, IsData
<1> QED BY <1>1, <1>2

LEMMA ControllerKeepsComing ==
  ASSUME IInv, IInv', ComingInv, Controller
  PROVE  ComingInv'
<1>0. UNCHANGED <<port, req, type, portEvents, request>>
  BY DEF Controller, Respond, MoveBlock, BadBlock, DataOver, CardIdle, Hang, driver, portVars
<1>1. CASE MoveBlock
  <2>1. /\ data = "active" /\ left > 0 /\ left' = left - 1 /\ UNCHANGED <<cmd, data, busy, bad>>
        /\ ints' = ints \cup IF req.method = "Pio" /\ Ready(buffer', left') /\ ~Ready(buffer, left)
                             THEN {Paced(req)} ELSE {}
    BY <1>1 DEF MoveBlock, Raise
  <2>2. IsData /\ left' > 0 => left > 0
    BY <2>1
  <2>3. req.method = "Pio" /\ Ready(buffer', left') /\ ~Ready(buffer, left) => Paced(req) \in ints'
    BY <2>1
  <2>4. ints \subseteq ints'
    BY <2>1
  <2>5. Ready(buffer, left)' <=> Ready(buffer', left')
    BY <1>0 DEF Ready
  <2> QED BY <1>0, <2>1, <2>2, <2>3, <2>4, <2>5 DEF ComingInv, Waiting, request, IsData
<1>2. CASE BadBlock
  <2>1. bad'
    BY <1>2 DEF BadBlock
  <2> QED BY <1>0, <2>1 DEF ComingInv, Waiting, request
<1>3. CASE DataOver
  <2>1. /\ left = 0 /\ busy' = req.write /\ UNCHANGED <<cmd, left, buffer, bad>>
        /\ ints' = ints \cup IF req.write THEN {} ELSE {TC}
    BY <1>3 DEF DataOver, Raise, TC
  <2> QED BY <1>0, <2>1, RequestFacts DEF IInv, ComingInv, Waiting, Ready, request, IsData
<1>4. CASE CardIdle
  <2>1. ints' = ints \cup {TC} /\ UNCHANGED <<cmd, data, left, buffer, bad>>
    BY <1>4 DEF CardIdle, Raise, TC
  <2> QED BY <1>0, <2>1 DEF ComingInv, Waiting, Ready, request, IsData
<1>5. CASE Hang
  <2>1. UNCHANGED <<ints, cmd, data, left, buffer, busy, bad>>
    BY <1>5 DEF Hang
  <2> QED BY <1>0, <2>1 DEF ComingInv, Waiting, Ready, request, IsData
<1> QED BY <1>1, <1>2, <1>3, <1>4, <1>5, RespondKeepsComing DEF Controller

\* A block moved by hand is asked for again at once if there is another one or more room.
LEMMA TransferKeepsComing ==
  ASSUME IInv, IInv', ComingInv, SdhcStartTransfer
  PROVE  ComingInv'
<1>1. CASE SdhcStartAdmaTransfer \/ port' # "wait"
  <2>1. port' = "idle"
    BY <1>1 DEF SdhcStartTransfer, SdhcStartAdmaTransfer, SdhcStartPioTransfer, SdhcCompleteRequest,
      AfterCompletion
  <2> QED BY <2>1, ComingWhenNotWaiting DEF Waiting
<1>2. CASE SdhcStartPioTransfer /\ port' = "wait"
  <2>1. /\ port = "transfer" /\ req.method = "Pio" /\ currentEvents' = {} /\ buffer' = BlockMoved
        /\ ints' = IF data = "active" /\ Ready(BlockMoved, left) THEN ints \cup {Paced(req)} ELSE ints
        /\ blockCount' = blockCount - 1
        /\ required' = required \cup {IF blockCount > 1 THEN Paced(req) ELSE TC}
        /\ UNCHANGED <<req, portEvents, cmd, data, left, busy, bad>>
        /\ ~(blockCount = 1 /\ TC \in currentEvents)
    BY <1>2 DEF SdhcStartPioTransfer, SdhcCompleteRequest, AfterCompletion, TC
  <2>2. /\ required = {} /\ blockCount > 0 /\ blockCount \in Int /\ IsData /\ ~cmd
        /\ req.blocks \in Nat /\ blockCount <= req.blocks /\ left \in Nat /\ buffer \in Nat
    BY <2>1, RequestFacts DEF IInv, TypeOK, PhaseInv, OnceInv, ComingInv, Waiting, IsData
  <2>3. required' # {} /\ blockCount' <= req'.blocks
    BY <2>1, <2>2
  <2>4. SUFFICES ASSUME ~bad
                 PROVE  ComingInv'
    BY <2>1, <2>3 DEF ComingInv
  <2>5. /\ IF req.write THEN buffer + blockCount = left ELSE buffer + left = blockCount
        /\ ~req.write /\ req.blocks > 1 /\ data = "none" => buffer = 0
    BY <2>1, <2>2, <2>4 DEF IInv, PacedInv, Waiting
  <2>6. TC \notin currentEvents
    <3> SUFFICES ASSUME TC \in currentEvents
                 PROVE  FALSE
      OBVIOUS
    <3>1. left = 0 /\ data = "none"
      BY <2>1 DEF IInv, SeenInv, Seen, Waiting, Done
    <3>2. blockCount # 1
      BY <2>1
    <3> QED BY <2>2, <2>5, <3>1, <3>2
  <2>7. data = "active" \/ busy \/ TC \in ints \cup portEvents
    BY <2>1, <2>2, <2>4, <2>6 DEF ComingInv, Waiting
  <2>8. left > 0 => data = "active"
    BY <2>1, <2>2, <2>4 DEF ComingInv, Waiting
  <2>9. Ready(BlockMoved, left) => Paced(req) \in ints'
    <3>1. Ready(BlockMoved, left) => data = "active"
      <4>1. CASE req.write
        BY <2>2, <2>5, <2>8, <4>1
      <4>2. CASE ~req.write
        <5>1. Ready(BlockMoved, left) => buffer > 1
          BY <2>2, <4>2 DEF Ready, BlockMoved
        <5>2. buffer > 1 => req.blocks > 1
          BY <2>2, <2>5, <4>2
        <5>3. data \in {"none", "active"}
          BY DEF IInv, TypeOK
        <5> QED BY <2>2, <2>5, <4>2, <5>1, <5>2, <5>3
      <4> QED BY <4>1, <4>2
    <3> QED BY <2>1, <3>1
  <2>10. Ready(buffer, left)' <=> Ready(BlockMoved, left)
    BY <2>1 DEF Ready
  <2>11. ints \subseteq ints' /\ CMD \notin required' /\ IsData'
    BY <2>1, <2>2 DEF CMD, TC, Paced, IsData
  <2> QED BY <2>1, <2>2, <2>3, <2>7, <2>8, <2>9, <2>10, <2>11 DEF ComingInv, Waiting
<1> QED BY <1>1, <1>2 DEF SdhcStartTransfer

LEMMA DpcKeepsComing ==
  ASSUME ~LateDpc, IInv, IInv', ComingInv, PortDpc
  PROVE  ComingInv'
<1> DEFINE events == portEvents \cap NormalEvents
           errors == portEvents \cap ErrorEvents
<1>1. CASE port # "wait"
  <2>1. port' = port /\ port # "transfer"
    BY <1>1 DEF PortDpc, LateDpc
  <2> QED BY <1>1, <2>1, ComingWhenNotWaiting DEF Waiting
<1>2. CASE port = "wait"
  <2>1. /\ portEvents' = {} /\ outstanding /\ SdhcRequestDpc(events, errors)
        /\ UNCHANGED <<req, type, blockCount, ints, cmd, data, left, buffer, busy, bad>>
    BY <1>2 DEF PortDpc, SdhcRequestDpc, IInv, PhaseInv, Waiting, bus
  <2>2. CASE errors # {}
    <3>1. port' = "failed"
      BY <1>2, <2>1, <2>2 DEF SdhcRequestDpc, SdhcCompleteRequest, AfterCompletion
    <3> QED BY <3>1, ComingWhenNotWaiting DEF Waiting
  <2>3. CASE errors = {}
    <3>1. /\ currentEvents' = currentEvents \cup events /\ required' = required \ events
          /\ required' = {} => port' # "wait"
          /\ required' # {} => port' = "wait"
      BY <1>2, <2>1, <2>3 DEF SdhcRequestDpc, SdhcCompleteRequest, AfterCompletion, IInv, TypeOK
    <3>2. events \subseteq portEvents /\ required \subseteq NormalEvents
      BY DEF IInv, TypeOK
    <3>3. required' = required \ portEvents /\ (TC \in portEvents => TC \in currentEvents')
      BY <3>1, <3>2 DEF TC, NormalEvents
    <3>4. Waiting' => Waiting
      BY <1>2 DEF Waiting
    <3> QED BY <1>2, <2>1, <3>1, <3>3, <3>4 DEF ComingInv, Ready, IsData
  <2> QED BY <2>2, <2>3
<1> QED BY <1>1, <1>2

LEMMA NextKeepsComing ==
  ASSUME ~LateDpc, IInv, IInv', ComingInv, [Next]_vars
  PROVE  ComingInv'
<1>1. CASE SdhcSlotInterrupt
  <2>1. /\ portEvents' = portEvents \cup ints \cup errs
        /\ UNCHANGED <<port, req, type, request, bus>>
    BY <1>1 DEF SdhcSlotInterrupt
  <2> QED BY <2>1 DEF ComingInv, Waiting, Ready, IsData, request, bus
<1>2. CASE SdportTimeout \/ SdhcResetHostCmd \/ SdhcResetHostDat \/ SdhcResetHostTimeout \/ SdhcSlotToggleEvents
  <2>1. ~Waiting'
    BY <1>2 DEF SdportTimeout, SdhcResetHostCmd, SdhcResetHostDat, SdhcResetHostTimeout, SdhcSlotToggleEvents,
      portVars, Waiting
  <2> QED BY <2>1, ComingWhenNotWaiting
<1>3. CASE UNCHANGED vars
  BY <1>3 DEF ComingInv, Waiting, Ready, IsData, vars, portVars, request, bus
<1> QED BY <1>1, <1>2, <1>3, IssueKeepsComing, ControllerKeepsComing, TransferKeepsComing, DpcKeepsComing DEF Next

\* While a request waits and nothing is under way, the controller or the card has still
\* something to do.
LEMMA ComingMoves ==
  ASSUME IInv, ComingInv, Quiet, port = "wait"
  PROVE  hung
<1> SUFFICES ASSUME ~hung
             PROVE  FALSE
  BY DEF IInv, TypeOK
<1>1. ints = {} /\ errs = {} /\ portEvents = {} /\ ~CanMove
  BY DEF Quiet
<1>2. ~bad /\ ~cmd /\ ~busy
  BY <1>1 DEF IInv, SeenInv, Waiting, CanMove
<1>3. PICK e \in required : TRUE
  BY DEF ComingInv
<1>4. e # CMD
  BY <1>1, <1>2, <1>3 DEF ComingInv, Waiting
<1>5. /\ left \in Nat /\ buffer \in Nat /\ blockCount \in Int /\ req.blocks \in Nat
      /\ req.method \in {"Undefined", "Pio", "SgDma"}
  BY RequestFacts DEF IInv, TypeOK
<1>6. req.method = "Pio" => IF req.write THEN buffer + blockCount = left ELSE buffer + left = blockCount
  BY <1>2 DEF IInv, PacedInv, Waiting
<1>7. CASE e = TC
  <2>1. IsData \/ req.r1b
    BY <1>3, <1>7, RequestFacts DEF IInv, TypeOK, PhaseInv, Waiting, Awaited, Paced, IsData, CMD, TC
  <2>2. data = "active"
    BY <1>1, <1>2, <1>3, <1>7, <2>1 DEF ComingInv, Waiting
  <2>3. req.method = "Pio"
    BY <1>1, <2>2, <1>5 DEF CanMove, IInv, BusInv, IsData
  <2>4. blockCount = 0
    BY <1>3, <1>7, <2>3, RequestFacts DEF IInv, TypeOK, PhaseInv, Waiting, Awaited, Paced, CMD, TC, IsData
  <2> QED BY <1>1, <1>5, <1>6, <2>2, <2>3, <2>4 DEF CanMove
<1>8. CASE e # TC
  <2>1. req.method = "Pio" /\ e = Paced(req) /\ blockCount > 0
    BY <1>3, <1>4, <1>5, <1>8, RequestFacts DEF IInv, TypeOK, PhaseInv, Waiting, Awaited, Paced, CMD, TC, IsData
  <2>2. ~Ready(buffer, left)
    BY <1>1, <1>2, <1>3, <2>1 DEF ComingInv, Waiting
  <2>3. left > 0 /\ IF req.write THEN buffer >= FifoBlocks ELSE buffer = 0
    BY <1>5, <1>6, <2>1, <2>2, SdhcAssumption DEF Ready
  <2>4. data = "active"
    BY <1>2, <2>1, <2>3 DEF ComingInv, Waiting, IsData
  <2> QED BY <1>1, <1>5, <2>1, <2>3, <2>4, SdhcAssumption DEF CanMove
<1> QED BY <1>7, <1>8

-----------------------------------------------------------------------------
(* Every step is a step of the abstract request, or none.                  *)

Step == [AsRequest!Next]_(AsRequest!vars)

\* Whose turn it is, of a request that ends once.
Going == CASE port = "wait" -> "host" [] port = "transfer" -> "port"
           [] port \in {"failed", "resetDat"} -> "failed" [] OTHER -> port

LEMMA TurnOf ==
  ASSUME IInv
  PROVE  Turn = Going
  BY DEF IInv, TypeOK, Turn, Going

LEMMA TurnOfNext ==
  ASSUME IInv'
  PROVE  Turn' = Going'
  BY DEF IInv, TypeOK, Turn, Going

LEMMA IdleBusFree ==
  ASSUME IInv, port = "idle"
  PROVE  BusState = "free" /\ Turn = "idle" /\ PartsLeft = 0
  BY TurnOf, TurnOfNext DEF IInv, BusInv, BusState, PartsLeft, Going

LEMMA IdleBusFreeNext ==
  ASSUME IInv', port' = "idle"
  PROVE  BusState' = "free" /\ Turn' = "idle" /\ PartsLeft' = 0
  BY TurnOf, TurnOfNext DEF IInv, BusInv, BusState, PartsLeft, Going

\* What leaves the request alone moves the bus.
LEMMA BusStep ==
  ASSUME IInv, IInv', UNCHANGED <<req, type, blockCount>>, Turn' = Turn,
         bad /\ Turn # "failed" => bad', port = "idle" <=> port' = "idle"
  PROVE  Step
<1>1. PartsLeft' = PartsLeft
  BY DEF PartsLeft, IsData
<1>2. CASE port = "idle"
  BY <1>2, IdleBusFree, IdleBusFreeNext DEF Step, AsRequest!vars
<1>3. CASE port # "idle"
  <2>1. Turn # "idle"
    BY <1>3, TurnOf, TurnOfNext DEF IInv, TypeOK, Going
  <2>2. BusState' \in {"free", "used", "bad"} /\ (bad' => BusState' = "bad")
    BY <1>3 DEF BusState
  <2>3. BusState = "bad" => bad
    BY DEF BusState
  <2> QED BY <1>1, <2>1, <2>2, <2>3 DEF Step, AsRequest!Next, AsRequest!Bus
<1> QED BY <1>2, <1>3

LEMMA ControllerStep ==
  ASSUME IInv, IInv', Controller
  PROVE  Step
<1>1. UNCHANGED <<port, req, type, blockCount>>
  BY DEF Controller, Respond, MoveBlock, BadBlock, DataOver, CardIdle, Hang, driver, portVars, request
<1>2. bad => bad'
  <2>1. bad' = TRUE \/ bad' = bad
    BY DEF Controller, Respond, MoveBlock, BadBlock, DataOver, CardIdle, Hang, driver
  <2> QED BY <2>1
<1>3. Turn' = Turn
  BY <1>1, TurnOf, TurnOfNext DEF Going
<1> QED BY <1>1, <1>2, <1>3, BusStep

LEMMA IssueStep ==
  ASSUME IInv, IInv', NEW r \in Requests, SdhcSlotIssueRequest(r)
  PROVE  Step
<1>1. /\ port = "idle" /\ port' = "wait" /\ req' = r /\ blockCount' = r.blocks
      /\ type' # "StartTransfer" /\ cmd' = TRUE /\ bad' = FALSE
  BY DEF SdhcSlotIssueRequest, StartCommand
<1>2. BusState' = "used" /\ Turn' = "host"
  BY <1>1, TurnOf, TurnOfNext DEF BusState, Going
<1>3. PartsLeft' \in {0, 1} \cup Blocks
  BY <1>1, <1>2 DEF PartsLeft, Blocks
<1> QED BY <1>1, <1>2, <1>3, IdleBusFree DEF Step, AsRequest!Next, AsRequest!Issue

LEMMA TransferStep ==
  ASSUME IInv, IInv', SdhcStartTransfer
  PROVE  Step
<1>0. port = "transfer" /\ Turn = "port" /\ req' = req /\ type' = "StartTransfer"
  BY TurnOf, TurnOfNext DEF SdhcStartTransfer, SdhcStartAdmaTransfer, SdhcStartPioTransfer, Going
<1>1. CASE SdhcStartAdmaTransfer
  <2>1. /\ req.method = "SgDma" /\ port' = "idle"
    BY <1>1 DEF SdhcStartAdmaTransfer, SdhcCompleteRequest, AfterCompletion
  <2>2. BusState = "free"
    BY <1>0, <1>1, AdmaDone DEF Done, BusState
  <2>3. PartsLeft = 1
    BY <1>0, <2>1 DEF PartsLeft, IInv, PhaseInv, Waiting
  <2> QED BY <1>0, <2>1, <2>2, <2>3, IdleBusFreeNext DEF Step, AsRequest!Next, AsRequest!Succeed
<1>2. CASE SdhcStartPioTransfer
  <2>1. /\ req.method = "Pio" /\ blockCount' = blockCount - 1 /\ PartsLeft = blockCount
        /\ UNCHANGED <<cmd, data, left, busy, bad>> /\ port' \in {"wait", "idle"}
    BY <1>0, <1>2 DEF SdhcStartPioTransfer, SdhcCompleteRequest, AfterCompletion, PartsLeft
  <2>2. CASE port' = "wait"
    <3>1. Turn' = "host" /\ PartsLeft' = blockCount - 1 /\ BusState' = BusState
      BY <1>0, <2>1, <2>2, TurnOf, TurnOfNext DEF PartsLeft, BusState, Going
    <3> QED BY <1>0, <2>1, <3>1 DEF Step, AsRequest!Next, AsRequest!HandOver
  <2>3. CASE port' = "idle"
    <3>1. blockCount = 1 /\ TC \in currentEvents
      BY <1>2, <2>3 DEF SdhcStartPioTransfer, TC
    <3>2. BusState = "free"
      BY <1>0, <3>1 DEF IInv, SeenInv, Seen, Waiting, Done, BusState
    <3> QED BY <1>0, <2>1, <2>3, <3>1, <3>2, IdleBusFreeNext DEF Step, AsRequest!Next, AsRequest!Succeed
  <2> QED BY <2>1, <2>2, <2>3
<1> QED BY <1>1, <1>2 DEF SdhcStartTransfer

LEMMA DpcStep ==
  ASSUME ~LateDpc, IInv, IInv', PortDpc
  PROVE  Step
<1>1. port # "transfer" /\ UNCHANGED <<req, type, blockCount, cmd, data, left, buffer, busy, bad>>
  BY DEF PortDpc, LateDpc, SdhcRequestDpc, request, bus
<1>2. CASE port' = port
  <2>1. Turn' = Turn
    BY <1>2, TurnOf, TurnOfNext DEF Going
  <2> QED BY <1>1, <1>2, <2>1, BusStep
<1>3. CASE port' # port
  <2>1. port = "wait" /\ Turn = "host" /\ port' \in {"failed", "transfer", "idle"}
    BY <1>1, <1>3, TurnOf, TurnOfNext DEF PortDpc, SdhcRequestDpc, SdhcCompleteRequest, AfterCompletion, request, Going
  <2>2. CASE port' = "failed"
    <3>1. Turn' = "failed" /\ PartsLeft' = 0 /\ BusState' = BusState
      BY <1>1, <2>1, <2>2, TurnOf, TurnOfNext DEF PartsLeft, BusState, Going
    <3> QED BY <2>1, <3>1 DEF Step, AsRequest!Next, AsRequest!Fail
  <2>3. CASE port' = "transfer"
    <3>1. Turn' = "port" /\ PartsLeft' = PartsLeft /\ BusState' = BusState
      BY <1>1, <2>1, <2>3, TurnOf, TurnOfNext DEF PartsLeft, BusState, Going
    <3>2. PartsLeft' > 0
      <4>1. /\ IsData /\ (req.method = "Pio" => blockCount > 0)
            /\ type = "StartTransfer" => req.method = "Pio"
        BY <1>1, <2>1, <2>3 DEF IInv, PhaseInv, IsData, Waiting
      <4>2. PartsLeft > 0
        BY <2>1, <4>1, RequestFacts DEF IInv, PartsLeft, IsData
      <4> QED BY <3>1, <4>2
    <3> QED BY <2>1, <3>1, <3>2 DEF Step, AsRequest!Next, AsRequest!Ask
  <2>4. CASE port' = "idle"
    <3>1. /\ portEvents \cap ErrorEvents = {} /\ required \ (portEvents \cap NormalEvents) = {}
          /\ status # "MORE_PROCESSING" /\ type # "CommandWithTransfer"
      BY <2>1, <2>4 DEF PortDpc, SdhcRequestDpc, SdhcCompleteRequest, AfterCompletion, IInv, TypeOK, PhaseInv,
        Waiting
    <3>2. type = "CommandNoTransfer" \/ (type = "StartTransfer" /\ blockCount = 0)
      BY <2>1, <3>1 DEF IInv, TypeOK, PhaseInv, Waiting
    <3>3. BusState = "free"
      BY <2>1, <3>1, <3>2, AllCame DEF Done, BusState
    <3>4. PartsLeft = 0
      BY <2>1, <3>2, RequestFacts DEF PartsLeft, IInv, PhaseInv, Waiting, IsData
    <3>5. Turn' = "idle" /\ PartsLeft' = 0 /\ BusState' = "free"
      BY <2>4, IdleBusFreeNext
    <3> QED BY <2>1, <3>3, <3>4, <3>5 DEF Step, AsRequest!Next, AsRequest!Succeed
  <2> QED BY <2>1, <2>2, <2>3, <2>4
<1> QED BY <1>2, <1>3

LEMMA ResetStep ==
  ASSUME IInv, IInv', SdportTimeout \/ SdhcResetHostCmd \/ SdhcResetHostDat \/ SdhcResetHostTimeout
  PROVE  Step
<1>1. CASE SdportTimeout
  <2>1. /\ port = "wait" /\ port' = "failed" /\ UNCHANGED <<cmd, data, left, buffer, busy, bad>>
    BY <1>1 DEF SdportTimeout, bus
  <2>2. Turn = "host" /\ Turn' = "failed"
    BY <2>1, TurnOf, TurnOfNext DEF Going
  <2>3. PartsLeft' = 0
    BY <2>2 DEF PartsLeft
  <2>4. BusState' = BusState
    BY <2>1 DEF BusState
  <2> QED BY <2>2, <2>3, <2>4 DEF Step, AsRequest!Next, AsRequest!Fail
<1>2. CASE ~SdportTimeout
  <2>1. /\ port \in {"failed", "resetDat"} /\ port' \in {"failed", "resetDat", "idle"}
        /\ UNCHANGED <<req, type, blockCount>>
    BY <1>2 DEF SdhcResetHostCmd, SdhcResetHostDat, SdhcResetHostTimeout, portVars
  <2>2. CASE port' = "idle"
    <3>1. Turn = "failed"
      BY <2>1, TurnOf, TurnOfNext DEF Going
    <3>2. PartsLeft = 0
      BY <3>1 DEF PartsLeft
    <3>3. Turn' = "idle" /\ PartsLeft' = 0 /\ BusState' = "free"
      BY <2>2, IdleBusFreeNext
    <3> QED BY <3>1, <3>2, <3>3 DEF Step, AsRequest!Next, AsRequest!Recover
  <2>3. CASE port' # "idle"
    <3>1. Turn = "failed" /\ Turn' = "failed"
      BY <2>1, <2>3, TurnOf, TurnOfNext DEF Going
    <3> QED BY <2>1, <2>3, <3>1, BusStep
  <2> QED BY <2>2, <2>3
<1> QED BY <1>1, <1>2

LEMMA NextStep ==
  ASSUME ~LateDpc, IInv, IInv', [Next]_vars
  PROVE  Step
<1>1. CASE \/ SdhcSlotInterrupt \/ SdhcSlotToggleEvents \/ UNCHANGED vars
  <2>1. UNCHANGED <<port, req, type, blockCount, bad>>
    BY <1>1 DEF SdhcSlotInterrupt, SdhcSlotToggleEvents, vars, portVars, request, bus
  <2>2. Turn' = Turn
    BY <2>1, TurnOf, TurnOfNext DEF Going
  <2> QED BY <2>1, <2>2, BusStep
<1> QED BY <1>1, ControllerStep, IssueStep, TransferStep, DpcStep, ResetStep DEF Next

LEMMA InitStep ==
  ASSUME Init
  PROVE  AsRequest!Init
<1>1. Turn = "idle"
  BY DEF Init, Turn
<1>2. PartsLeft = 0
  BY <1>1 DEF PartsLeft
<1>3. BusState = "free"
  BY DEF Init, BusState
<1> QED BY <1>1, <1>2, <1>3 DEF AsRequest!Init

-----------------------------------------------------------------------------
(* The DPC between two phases of a request.                                *)

\* A DPC has come between two phases of a request, and the model has ended.
Stopped == fault = Between /\ port = "transfer" /\ PioFindsBlock

SdhcInv == IInv \/ Stopped

\* The DPC finds a request of which nothing is required any more and completes it again.
LEMMA LateStops ==
  ASSUME IInv, LateDpc
  PROVE  Stopped' /\ Step
<1>1. /\ port = "transfer" /\ UNCHANGED <<req, type, cmd, data, left, buffer, busy, bad>>
      /\ SdhcRequestDpc(portEvents \cap NormalEvents, portEvents \cap ErrorEvents)
  BY DEF LateDpc, PortDpc, bus
<1>2. /\ outstanding /\ required = {} /\ IsData /\ fault = "None"
      /\ type = "StartTransfer" => req.method = "Pio"
      /\ req.method = "Pio" => blockCount > 0
      /\ type # "StartTransfer" => blockCount = req.blocks
  BY <1>1 DEF IInv, TypeOK, PhaseInv, Waiting
<1>3. blockCount # 0 /\ blockCount' = blockCount /\ IsData' = IsData
  <2>1. blockCount # 0
    BY <1>2, RequestFacts DEF IInv, TypeOK
  <2> QED BY <1>1, <2>1 DEF SdhcRequestDpc, IsData
<1>4. \E s \in {"SUCCESS", "MORE_PROCESSING", "Failed"} : SdhcCompleteRequest(s, port, outstanding)
  BY <1>1, <1>2 DEF SdhcRequestDpc, IInv, TypeOK
<1>5. port' = "transfer" /\ fault' = Between
  BY <1>1, <1>2, <1>3, <1>4 DEF SdhcCompleteRequest
<1>6. Stopped'
  BY <1>1, <1>5 DEF Stopped, PioFindsBlock, IInv, PacedInv, Ready, Waiting
<1>7. Turn = "port" /\ Turn' = "port"
  BY <1>1, <1>2, <1>5 DEF Turn
<1>8. PartsLeft' = PartsLeft /\ BusState' = BusState
  BY <1>1, <1>3, <1>5, <1>7 DEF PartsLeft, BusState
<1> QED BY <1>6, <1>7, <1>8 DEF Step, AsRequest!vars

LEMMA StoppedStays ==
  ASSUME Stopped, [Next]_vars
  PROVE  Stopped' /\ Step
<1>1. UNCHANGED vars
  BY DEF Stopped, Between, Next
<1>2. UNCHANGED <<port, req, type, blockCount, cmd, data, left, buffer, busy, bad, fault>>
  BY <1>1 DEF vars, portVars, request, bus
<1>3. Stopped'
  BY <1>2 DEF Stopped, PioFindsBlock
<1>4. Turn' = Turn /\ BusState' = BusState
  BY <1>2 DEF Turn, BusState
<1>5. PartsLeft' = PartsLeft
  BY <1>2, <1>4 DEF PartsLeft
<1> QED BY <1>3, <1>4, <1>5 DEF Step, AsRequest!vars

LEMMA SdhcKeeps ==
  ASSUME SdhcInv, [Next]_vars
  PROVE  SdhcInv' /\ Step
  BY NextKeeps, NextStep, LateStops, StoppedStays DEF SdhcInv

\* Only a DPC that comes between two phases completes a request once more.
LEMMA OnlyLateCompletesTwice ==
  ASSUME SdhcInv, CompletedOnce, [Next]_vars
  PROVE  CompletedOnce' \/ LateDpc
<1>1. IInv
  BY DEF SdhcInv, Stopped, Between, CompletedOnce
<1> QED BY <1>1, NextKeeps DEF IInv, TypeOK, CompletedOnce

LEMMA SdhcKeepsComing ==
  ASSUME SdhcInv, IInv => ComingInv, [Next]_vars, IInv'
  PROVE  ComingInv'
<1>1. fault' = "None" /\ "None" # Between
  BY DEF IInv, TypeOK, Between
<1>2. IInv /\ ~LateDpc
  BY <1>1, LateStops, StoppedStays DEF SdhcInv, Stopped
<1> QED BY <1>2, NextKeepsComing

-----------------------------------------------------------------------------
(* Theorems.                                                               *)

LEMMA Inductive == Spec => []SdhcInv
<1>1. Init => SdhcInv
  BY InitHolds DEF SdhcInv
<1> QED BY <1>1, SdhcKeeps, PTL DEF Spec

\* To sdport the driver is what SdRequest says, for every set of requests and every depth
\* of the buffer: a request goes on block by block, ends once, and well only if the bus has
\* done all of it without an error; whatever became of it, the next one finds the bus free.
\* A request that ends twice is none of SdRequest's; a DPC that comes between two phases of
\* one ends the model (RequestsCompleteOnce).
THEOREM ImplementsSdRequest == Spec => AsRequest!Spec
<1>1. SdhcInv /\ [Next]_vars => [AsRequest!Next]_(AsRequest!vars)
  BY SdhcKeeps DEF Step
<1> QED BY <1>1, InitStep, Inductive, PTL DEF Spec, AsRequest!Spec

\* A request is completed twice, or completed without being outstanding
\* (NT_ASSERT(FALSE) of SdhcCompleteRequest), by nothing but a DPC that comes while sdport
\* has yet to go on with the request: no late event, retry or reset does it.
THEOREM RequestsCompleteOnce ==
  Spec => CompletedOnce /\ [][CompletedOnce => CompletedOnce' \/ (port = "transfer" /\ PortDpc)]_vars
<1>1. Init => CompletedOnce
  BY DEF Init, CompletedOnce
<1>2. SdhcInv /\ [Next]_vars => [CompletedOnce => CompletedOnce' \/ (port = "transfer" /\ PortDpc)]_vars
  BY OnlyLateCompletesTwice DEF LateDpc
<1> QED BY <1>1, <1>2, Inductive, PTL DEF Spec

\* SdhcStartPioTransfer finds a block in the buffer, or room for one, however the ISR, the
\* DPC and the data requests of the controller interleave.
THEOREM PioAlwaysFindsBlock == Spec => []PioFindsBlock
<1>1. SdhcInv => PioFindsBlock
  BY DEF SdhcInv, Stopped, IInv, PacedInv, PioFindsBlock, Ready, Waiting
<1> QED BY <1>1, Inductive, PTL

\* A request is waited for in vain only if the card hangs, however early its events come:
\* CurrentEvents keeps what has come, and no data request is lost.
THEOREM EventsAlwaysComeOnce == Spec => []EventsComeOnce
<1> DEFINE Coming == IInv => ComingInv
<1>1. Init => Coming
  BY DEF Init, ComingInv, Waiting
<1>2. SdhcInv /\ Coming /\ [Next]_vars => Coming'
  BY SdhcKeepsComing
<1>3. SdhcInv /\ Coming => EventsComeOnce
  BY ComingMoves DEF SdhcInv, Stopped, EventsComeOnce
<1> HIDE DEF Coming
<1> QED BY <1>1, <1>2, <1>3, Inductive, PTL DEF Spec

-----------------------------------------------------------------------------
(* The inductive invariant of dwcmshc.                                     *)

EventSet  == {"RESPONSE", "RW_END", "BUFFER_EMPTY", "BUFFER_FULL", "DMA_COMPLETE"}
ErrorSet  == {"CMD_TIMEOUT", "CMD_CRC", "DATA_TIMEOUT", "DATA_CRC"}
ErrorBits == {"RTO", "RCRC", "DRTO", "DCRC"}

MshcTypeOK ==
  /\ port \in {"idle", "wait", "transfer", "failed", "resetDat"}
  /\ req \in MshcRequests \cup {M!NoRequest}
  /\ type \in {"CommandNoTransfer", "CommandWithTransfer", "StartTransfer"}
  /\ portEvents \subseteq EventSet \cup ErrorSet
  /\ outstanding \in {"port", "stop", "None"}
  /\ required \in [{"port", "stop"} -> SUBSET EventSet]
  /\ status \in [{"port", "stop"} -> {"SUCCESS", "MORE_PROCESSING", "Failed"}]
  /\ currentEvents \subseteq EventSet /\ currentErrors \subseteq ErrorSet
  /\ remaining \in Int
  /\ localPending \in BOOLEAN /\ localDpc \in BOOLEAN /\ stop \in {"none", "issue", "wait"}
  /\ worker \in {0, 1}
  /\ rint \subseteq M!Bits /\ mask \subseteq M!Bits
  /\ cmd \in {"port", "stop", "None"} /\ data \in {"none", "active", "dead"}
  /\ left \in Nat /\ fifo \in Nat
  /\ idmac \in BOOLEAN /\ busy \in BOOLEAN /\ hung \in BOOLEAN /\ bad \in BOOLEAN
  /\ fault = "None"

\* Who has the driver: sdport with its request, or the Stop command of a reset.
OwnerInv ==
  /\ stop # "none" => port = "resetDat"
  /\ localPending => stop # "none"
  /\ stop = "issue" => localPending /\ outstanding = "None"
  /\ port = "wait" => outstanding = "port"
  /\ port = "transfer" => outstanding = "None" /\ required["port"] = {} /\ worker = 0
  /\ port = "failed" => /\ outstanding # "stop"
                        /\ outstanding = "port" => required["port"] = {} \/ ~localDpc
  /\ port \in {"idle", "resetDat"} =>
       /\ outstanding # "port"
       /\ ~localPending /\ outstanding = "stop" => required["stop"] = {} \/ ~localDpc
  /\ port = "resetDat" /\ outstanding = "stop" => stop = "wait"
  /\ worker = 1 => \/ port = "wait" /\ required["port"] = {}
                   \/ stop = "wait" /\ localPending /\ outstanding = "stop" /\ required["stop"] = {}

MshcDone == cmd = "None" /\ data = "none" /\ left = 0 /\ ~bad

MPaced   == M!Paced(req)
PacedBit == IF req.write THEN "TXDR" ELSE "RXDR"
Pio      == req.method = "Pio"
HasData  == M!IsData(req)

IdleInv ==
  port = "idle" => /\ cmd = "None" /\ data = "none" /\ left = 0 /\ ~busy /\ fifo = 0
                   /\ rint \subseteq {"TI_RI", "HTO"}

\* The command and its data are one after the other, and only what the request has.
WireInv ==
  Waiting =>
    /\ cmd # "stop"
    /\ cmd # "None" => data = "none" /\ fifo = 0 /\ left = req.chunks
    /\ cmd # "None" \/ data # "none" => ~busy
    /\ data # "none" => HasData
    /\ busy => left = 0 /\ (req.r1b \/ req.write)
    /\ ~HasData => left = 0 /\ "DTO" \notin rint /\ "RW_END" \notin portEvents
    /\ ~Pio => fifo = 0
    /\ rint \cap M!DataRequests \subseteq IF Pio THEN {PacedBit} ELSE {}
    /\ data = "dead" => ~req.write /\ left > 0 /\ bad

\* What the driver still requires in each phase of a request.
MshcPhaseInv ==
  Waiting =>
    /\ type = "CommandNoTransfer" <=> ~HasData
    /\ port = "wait" /\ type # "StartTransfer" =>
         /\ required["port"] \subseteq M!Awaited(req)
         /\ currentErrors = {} => M!Awaited(req) \subseteq required["port"] \cup currentEvents
         /\ status["port"] = "SUCCESS" /\ (HasData => remaining = req.chunks)
    /\ port = "wait" /\ type = "StartTransfer" =>
         /\ Pio
         /\ \/ remaining > 0 /\ status["port"] = "MORE_PROCESSING" /\ required["port"] \subseteq {MPaced}
            \/ /\ remaining = 0 /\ status["port"] = "SUCCESS" /\ required["port"] \subseteq {"RW_END"}
               /\ currentErrors = {} => "RW_END" \in required["port"] \cup currentEvents
    /\ port = "wait" /\ Pio /\ remaining > 0 /\ currentErrors = {} => MPaced \in required["port"]
    /\ port = "transfer" =>
         /\ HasData /\ currentErrors = {}
         /\ type = "StartTransfer" => Pio
         /\ Pio => remaining > 0
         /\ ~Pio => MshcDone /\ ~busy /\ "RW_END" \in currentEvents

\* The work item is left with the busy signal alone.
WorkerInv ==
  Waiting /\ worker = 1 =>
    /\ MshcDone /\ currentErrors = {} /\ status["port"] = "SUCCESS"
    /\ HasData => "RW_END" \in currentEvents
    /\ type = "CommandWithTransfer" => ~Pio
    /\ Pio => remaining = 0

\* An event is on its way to the driver, or has got there, and no error with it.
Came(e, b) ==
  /\ currentErrors = {}
  /\ \/ e \in currentEvents
     \/ /\ portEvents \cap ErrorSet = {}
        /\ e \in portEvents \/ (b \in rint /\ rint \cap ErrorBits = {})

SomeError == rint \cap ErrorBits # {} \/ portEvents \cap ErrorSet # {} \/ currentErrors # {}

\* An error is not passed by an event, and an event tells the truth.
TruthInv ==
  Waiting =>
    /\ bad /\ (cmd # "None" \/ data # "none" \/ ~HasData) => SomeError
    /\ rint \cap ErrorBits # {} => bad
    /\ Pio /\ bad => data # "active"
    /\ Pio /\ "DTO" \in rint => (req.write => left = 0) /\ (bad /\ left = 0 => rint \cap ErrorBits # {})
    /\ Came("RESPONSE", "CMD") /\ ~HasData => ~bad
    /\ Came("RW_END", "DTO") => MshcDone

\* Each event is in one place, and no data request overtakes the response.
PlaceInv ==
  Waiting =>
    /\ required["port"] \cap currentEvents = {}
    /\ cmd # "None" => "RESPONSE" \in required["port"] /\ "CMD" \notin rint /\ "RESPONSE" \notin portEvents
    /\ "CMD" \in rint => "RESPONSE" \in required["port"] /\ "RESPONSE" \notin portEvents
    /\ "RESPONSE" \in portEvents => "RESPONSE" \in required["port"]
    /\ cmd # "None" \/ data # "none" => "DTO" \notin rint /\ "RW_END" \notin portEvents \cup currentEvents
    /\ "DTO" \in rint => "RW_END" \notin portEvents \cup currentEvents
    /\ "RW_END" \in portEvents => "RW_END" \notin currentEvents
    /\ data # "none" \/ fifo > 0 \/ PacedBit \in rint =>
         ("RESPONSE" \in required["port"] => "CMD" \in rint \/ "RESPONSE" \in portEvents)
    /\ Pio /\ MPaced \in portEvents => ("RESPONSE" \in required["port"] => "RESPONSE" \in portEvents)

\* The chunks of a programmed transfer are in the FIFO, or yet to come or go.
FifoInv ==
  Waiting /\ Pio =>
    /\ remaining >= 0 /\ left <= req.chunks
    /\ IF req.write THEN fifo + remaining = left ELSE fifo + left = remaining /\ remaining <= 1
    /\ PacedBit \in rint => IF req.write THEN fifo < left ELSE fifo > 0
    /\ ~req.write /\ remaining > 0 /\ (MPaced \in portEvents \/ port = "transfer") => fifo > 0

MshcInv ==
  /\ MshcTypeOK /\ OwnerInv /\ IdleInv
  /\ WireInv /\ MshcPhaseInv /\ WorkerInv /\ TruthInv /\ PlaceInv /\ FifoInv

-----------------------------------------------------------------------------
(* Facts about requests, events and data requests.                         *)

LEMMA MshcRequestFacts ==
  ASSUME MshcTypeOK
  PROVE  /\ req.method \in {"Undefined", "Pio", "SgDma"}
         /\ req.write \in BOOLEAN /\ req.r1b \in BOOLEAN /\ req.chunks \in Nat
         /\ req.chunks = 0 <=> ~HasData
         /\ req.r1b => ~HasData
         /\ Pio => req.chunks <= IF req.write THEN FifoChunks ELSE 1
<1>1. CASE req \in MshcRequests
  BY <1>1, MshcAssumption DEF HasData, M!IsData, Pio
<1>2. CASE req = M!NoRequest
  BY <1>2 DEF M!NoRequest, HasData, M!IsData, Pio
<1> QED BY <1>1, <1>2 DEF MshcTypeOK

LEMMA EventFacts ==
  ASSUME NEW s \in SUBSET M!Bits
  PROVE  /\ M!Events(s) \subseteq EventSet /\ M!Errors(s) \subseteq ErrorSet
         /\ "RESPONSE" \in M!Events(s) <=> "CMD" \in s
         /\ "RW_END" \in M!Events(s) <=> "DTO" \in s
         /\ "BUFFER_EMPTY" \in M!Events(s) <=> "TXDR" \in s
         /\ "BUFFER_FULL" \in M!Events(s) <=> "RXDR" \in s
         /\ M!Errors(s) = {} <=> s \cap ErrorBits = {}
<1>1. M!Events(s) = {M!EventOf[b] : b \in s \cap {"CMD", "DTO", "TXDR", "RXDR", "TI_RI"}}
  BY DEF M!Events, M!EventOf
<1>2. M!Errors(s) = {M!ErrorOf[b] : b \in s \cap {"RTO", "RCRC", "DRTO", "DCRC"}}
  BY DEF M!Errors, M!ErrorOf
<1>3. /\ M!EventOf["CMD"] = "RESPONSE" /\ M!EventOf["DTO"] = "RW_END" /\ M!EventOf["TXDR"] = "BUFFER_EMPTY"
      /\ M!EventOf["RXDR"] = "BUFFER_FULL" /\ M!EventOf["TI_RI"] = "DMA_COMPLETE"
  BY DEF M!EventOf
<1>4. /\ M!ErrorOf["RTO"] = "CMD_TIMEOUT" /\ M!ErrorOf["RCRC"] = "CMD_CRC"
      /\ M!ErrorOf["DRTO"] = "DATA_TIMEOUT" /\ M!ErrorOf["DCRC"] = "DATA_CRC"
  BY DEF M!ErrorOf
<1>5. M!Events(s) \subseteq EventSet
  BY <1>1, <1>3 DEF EventSet
<1>6. /\ "RESPONSE" \in M!Events(s) <=> "CMD" \in s
      /\ "RW_END" \in M!Events(s) <=> "DTO" \in s
      /\ "BUFFER_EMPTY" \in M!Events(s) <=> "TXDR" \in s
      /\ "BUFFER_FULL" \in M!Events(s) <=> "RXDR" \in s
  BY <1>1, <1>3
<1>7. M!Errors(s) \subseteq ErrorSet
  BY <1>2, <1>4 DEF ErrorSet
<1>8. M!Errors(s) = {} <=> s \cap ErrorBits = {}
  BY <1>2 DEF ErrorBits
<1> QED BY <1>5, <1>6, <1>7, <1>8

LEMMA AllEvents ==
  M!Events(M!Bits) = EventSet /\ M!Errors(M!Bits) = ErrorSet
<1>1. "TI_RI" \in M!Bits
  BY DEF M!Bits, M!DataRequests
<1>2. M!Events(M!Bits) = {M!EventOf[b] : b \in {"CMD", "DTO", "TXDR", "RXDR", "TI_RI"}}
  BY DEF M!Events, M!EventOf, M!Bits, M!DataRequests
<1>3. M!Errors(M!Bits) = {M!ErrorOf[b] : b \in {"RTO", "RCRC", "DRTO", "DCRC"}}
  BY DEF M!Errors, M!ErrorOf, M!Bits, M!DataRequests
<1> QED BY <1>2, <1>3 DEF M!EventOf, M!ErrorOf, EventSet, ErrorSet

\* The controller asks for a chunk of a programmed transfer only, and only for one that
\* is there or that there is room and need for.
LEMMA DataRequestFacts ==
  ASSUME MshcTypeOK, NEW n \in Nat, NEW d, NEW l \in Nat
  PROVE  /\ M!DataRequest(n, d, l) \subseteq IF Pio THEN {PacedBit} ELSE {}
         /\ M!DataRequest(n, d, l) # {} => IF req.write THEN d = "active" /\ n < l ELSE n > 0
         /\ M!DataRequest(n, d, l) \subseteq M!DataRequests /\ M!DataRequest(n, d, l) \subseteq M!Bits
  BY MshcRequestFacts DEF M!DataRequest, M!DataRequests, M!Bits, Pio, PacedBit

LEMMA MshcNotWaiting ==
  ASSUME ~Waiting'
  PROVE  WireInv' /\ MshcPhaseInv' /\ WorkerInv' /\ TruthInv' /\ PlaceInv' /\ FifoInv'
  BY DEF WireInv, MshcPhaseInv, WorkerInv, TruthInv, PlaceInv, FifoInv

-----------------------------------------------------------------------------
(* The controller and the card.                                            *)

MshcDriver == <<portVars, outstanding, required, status, currentEvents, currentErrors, remaining,
                localPending, localDpc, stop, worker, mask, fault>>

\* What they do leaves the driver and sdport alone.
LEMMA MshcControllerLeaves ==
  ASSUME M!Controller
  PROVE  UNCHANGED MshcDriver
  BY DEF M!Controller, M!Respond, M!RespondTimeout, M!MoveChunk, M!Starve, M!DataOver, M!DmaComplete,
    M!BadBlock, M!DataTimeout, M!CardIdle, M!Hang, M!driver, M!portVars, M!requests, M!current, M!local,
    MshcDriver, portVars

LEMMA MshcControllerOwner ==
  ASSUME MshcInv, M!Controller
  PROVE  OwnerInv'
<1>1. UNCHANGED <<port, outstanding, required, localPending, localDpc, stop, worker>>
  BY MshcControllerLeaves DEF MshcDriver, portVars
<1> QED BY <1>1 DEF MshcInv, OwnerInv

LEMMA MshcControllerTypes ==
  ASSUME MshcInv, UNCHANGED MshcDriver, rint' \subseteq M!Bits, cmd' \in {cmd, "None"},
         data' \in {"none", "active", "dead"}, left' \in Nat, fifo' \in Nat, idmac' \in BOOLEAN,
         busy' \in BOOLEAN, hung' \in BOOLEAN, bad' \in BOOLEAN
  PROVE  MshcTypeOK'
  BY DEF MshcInv, MshcTypeOK, MshcDriver, portVars

LEMMA RespondFacts ==
  ASSUME MshcInv, M!Respond
  PROVE  \E e \in {{}, {"RCRC"}, {"RTO"}} :
          /\ cmd # "None" /\ cmd' = "None" /\ UNCHANGED <<left, fifo, idmac, hung>>
          /\ bad => e = {}
          /\ bad' = (bad \/ e # {})
          /\ data' = IF cmd = "stop" THEN "none" ELSE IF ~bad' /\ HasData THEN "active" ELSE data
          /\ busy' = busy \/ (busy' \in BOOLEAN /\ ~bad' /\ M!Command(cmd).r1b)
          /\ rint' = rint \cup {"CMD"} \cup e \cup M!DataRequest(fifo, data', left)
                          \cup (IF cmd = "stop" /\ data # "none" THEN {"DTO"} ELSE {})
<1>1. bad \in BOOLEAN
  BY DEF MshcInv, MshcTypeOK
<1> QED BY <1>1 DEF M!Respond, M!None, HasData

LEMMA MshcRespondKeeps ==
  ASSUME MshcInv, M!Respond
  PROVE  MshcInv'
<1>0. M!Controller /\ UNCHANGED MshcDriver
  BY MshcControllerLeaves DEF M!Controller
<1>1. PICK e \in {{}, {"RCRC"}, {"RTO"}} :
        /\ cmd # "None" /\ cmd' = "None" /\ UNCHANGED <<left, fifo, idmac, hung>>
        /\ bad => e = {}
        /\ bad' = (bad \/ e # {})
        /\ data' = IF cmd = "stop" THEN "none" ELSE IF ~bad' /\ HasData THEN "active" ELSE data
        /\ busy' = busy \/ (busy' \in BOOLEAN /\ ~bad' /\ M!Command(cmd).r1b)
        /\ rint' = rint \cup {"CMD"} \cup e \cup M!DataRequest(fifo, data', left)
                        \cup (IF cmd = "stop" /\ data # "none" THEN {"DTO"} ELSE {})
  BY RespondFacts
<1>2. /\ M!DataRequest(fifo, data', left) \subseteq IF Pio THEN {PacedBit} ELSE {}
      /\ M!DataRequest(fifo, data', left) # {} => IF req.write THEN data' = "active" /\ fifo < left ELSE fifo > 0
      /\ M!DataRequest(fifo, data', left) \subseteq M!Bits
  BY DataRequestFacts DEF MshcInv, MshcTypeOK
<1>3. MshcTypeOK'
  <2>1. rint' \subseteq M!Bits
    BY <1>1, <1>2 DEF MshcInv, MshcTypeOK, M!Bits
  <2>2. data' \in {"none", "active", "dead"} /\ busy' \in BOOLEAN /\ bad' \in BOOLEAN
    BY <1>1 DEF MshcInv, MshcTypeOK
  <2> QED BY <1>0, <1>1, <2>1, <2>2, MshcControllerTypes DEF MshcInv, MshcTypeOK
<1>4. UNCHANGED <<port, req, type, portEvents, required, status, currentEvents, currentErrors, remaining, worker>>
  BY <1>0 DEF MshcDriver, portVars
<1>5. OwnerInv' /\ IdleInv'
  BY <1>0, <1>1, <1>4, MshcControllerOwner DEF MshcInv, IdleInv
<1>6. CASE ~Waiting
  BY <1>3, <1>4, <1>5, <1>6, MshcNotWaiting DEF MshcInv, Waiting
<1>7. CASE Waiting
  <2>0. /\ cmd = "port" /\ M!Command(cmd) = req /\ data = "none" /\ fifo = 0 /\ left = req.chunks /\ ~busy
        /\ "RESPONSE" \in required["port"] /\ "CMD" \notin rint /\ "RESPONSE" \notin portEvents
        /\ "DTO" \notin rint /\ "RW_END" \notin portEvents \cup currentEvents
    BY <1>1, <1>7 DEF MshcInv, MshcTypeOK, WireInv, PlaceInv, M!Command
  <2>1. WireInv'
    BY <1>1, <1>2, <1>4, <1>7, <2>0, MshcRequestFacts DEF MshcInv, WireInv, Waiting, HasData, Pio, PacedBit, M!DataRequests, M!IsData
  <2>2. MshcPhaseInv'
    <3>1. port = "wait"
      BY <1>7, <2>0 DEF MshcInv, OwnerInv, Waiting
    <3> QED BY <1>4, <3>1 DEF MshcInv, MshcPhaseInv, Waiting, HasData, Pio, MPaced, M!IsData
  <2>3. WorkerInv'
    <3>1. worker # 1
      BY <1>7, <2>0 DEF MshcInv, WorkerInv, MshcDone
    <3> QED BY <1>4, <3>1 DEF WorkerInv
  <2>4. TruthInv'
    BY <1>1, <1>2, <1>4, <1>7, <2>0 DEF MshcInv, TruthInv, PlaceInv, SomeError, Came, MshcDone, Waiting, HasData, Pio, PacedBit, ErrorBits, M!IsData
  <2>5. PlaceInv'
    BY <1>1, <1>2, <1>4, <1>7, <2>0 DEF MshcInv, PlaceInv, Waiting, Pio, PacedBit, MPaced
  <2>6. FifoInv'
    BY <1>1, <1>2, <1>4, <1>7, <2>0, MshcRequestFacts DEF MshcInv, FifoInv, MshcTypeOK, Waiting, Pio, PacedBit, MPaced
  <2> QED BY <1>3, <1>5, <2>1, <2>2, <2>3, <2>4, <2>5, <2>6 DEF MshcInv
<1> QED BY <1>6, <1>7

LEMMA MshcRespondTimeoutKeeps ==
  ASSUME MshcInv, M!RespondTimeout
  PROVE  MshcInv'
<1>0. M!Controller /\ UNCHANGED MshcDriver
  BY MshcControllerLeaves DEF M!Controller
<1>1. /\ cmd # "None" /\ ~bad /\ bad' = TRUE /\ rint' = rint \cup {"RTO"}
      /\ UNCHANGED <<cmd, data, left, fifo, idmac, busy, hung>>
  BY DEF M!RespondTimeout, M!None
<1>2. MshcTypeOK'
  BY <1>0, <1>1, MshcControllerTypes DEF MshcInv, MshcTypeOK, M!Bits
<1>3. UNCHANGED <<port, req, type, portEvents, required, status, currentEvents, currentErrors, remaining, worker>>
  BY <1>0 DEF MshcDriver, portVars
<1>4. OwnerInv' /\ IdleInv'
  BY <1>0, <1>1, <1>3, MshcControllerOwner DEF MshcInv, IdleInv
<1>5. WireInv' /\ MshcPhaseInv'
  BY <1>1, <1>3 DEF MshcInv, WireInv, MshcPhaseInv, Waiting, HasData, Pio, PacedBit, MPaced, MshcDone,
    M!DataRequests, M!IsData
<1>6. WorkerInv' /\ TruthInv'
  BY <1>1, <1>3 DEF MshcInv, WorkerInv, TruthInv, WireInv, PlaceInv, SomeError, Came, MshcDone, Waiting, HasData,
    Pio, ErrorBits, M!IsData
<1>7. PlaceInv' /\ FifoInv'
  BY <1>1, <1>3 DEF MshcInv, PlaceInv, FifoInv, Waiting, Pio, PacedBit, MPaced
<1> QED BY <1>2, <1>4, <1>5, <1>6, <1>7 DEF MshcInv

LEMMA MoveChunkKeeps ==
  ASSUME MshcInv, M!MoveChunk
  PROVE  MshcInv'
<1>0. M!Controller /\ UNCHANGED MshcDriver
  BY MshcControllerLeaves DEF M!Controller
<1>1. /\ data = "active" /\ left > 0 /\ left' = left - 1 /\ idmac' \in BOOLEAN
      /\ IF req.method = "SgDma" THEN fifo' = fifo
         ELSE IF req.write THEN fifo > 0 /\ fifo' = fifo - 1
         ELSE fifo' = fifo + 1
      /\ rint' = rint \cup M!DataRequest(fifo', data, left')
      /\ UNCHANGED <<cmd, data, busy, hung, bad>>
  BY DEF M!MoveChunk, MshcInv, MshcTypeOK
<1>2. left' \in Nat /\ fifo' \in Nat
  BY <1>1 DEF MshcInv, MshcTypeOK
<1>3. /\ M!DataRequest(fifo', data, left') \subseteq IF Pio THEN {PacedBit} ELSE {}
      /\ M!DataRequest(fifo', data, left') # {} => IF req.write THEN fifo' < left' ELSE fifo' > 0
      /\ M!DataRequest(fifo', data, left') \subseteq M!Bits
  BY <1>2, DataRequestFacts DEF MshcInv
<1>4. MshcTypeOK'
  BY <1>0, <1>1, <1>2, <1>3, MshcControllerTypes DEF MshcInv, MshcTypeOK
<1>5. UNCHANGED <<port, req, type, portEvents, required, status, currentEvents, currentErrors, remaining, worker>>
  BY <1>0 DEF MshcDriver, portVars
<1>6. OwnerInv' /\ IdleInv'
  BY <1>0, <1>1, <1>5, MshcControllerOwner DEF MshcInv, IdleInv
<1>7. WireInv' /\ MshcPhaseInv'
  BY <1>1, <1>2, <1>3, <1>5, MshcRequestFacts DEF MshcInv, WireInv, MshcPhaseInv, Waiting, HasData, Pio, PacedBit, MPaced,
    MshcDone, M!DataRequests, M!IsData
<1>8. WorkerInv' /\ TruthInv'
  <2> QED BY <1>1, <1>3, <1>5 DEF MshcInv, WorkerInv, TruthInv, WireInv, PlaceInv, SomeError, Came, MshcDone,
    Waiting, HasData, Pio, PacedBit, ErrorBits, M!IsData
<1>9. PlaceInv'
  BY <1>1, <1>3, <1>5 DEF MshcInv, PlaceInv, Waiting, Pio, PacedBit, MPaced
<1>10. FifoInv'
  <2> SUFFICES ASSUME Waiting, Pio PROVE FifoInv'
    BY <1>5 DEF FifoInv, Waiting, Pio
  <2>1. fifo \in Nat /\ left \in Nat /\ req.chunks \in Nat /\ remaining \in Int /\ req.write \in BOOLEAN
    BY MshcRequestFacts DEF MshcInv, MshcTypeOK
  <2>2. IF req.write THEN fifo > 0 /\ fifo' = fifo - 1 ELSE fifo' = fifo + 1
    BY <1>1 DEF Pio
  <2>3. PacedBit \in rint' => IF req.write THEN fifo' < left' ELSE fifo' > 0
    <3>1. PacedBit \in rint => IF req.write THEN fifo < left ELSE fifo > 0
      BY DEF MshcInv, FifoInv
    <3> QED BY <1>1, <1>3, <2>1, <2>2, <3>1
  <2>4. /\ remaining >= 0 /\ left' <= req.chunks
        /\ IF req.write THEN fifo' + remaining = left' ELSE fifo' + left' = remaining /\ remaining <= 1
    BY <1>1, <2>1, <2>2 DEF MshcInv, FifoInv
  <2>5. ~req.write => fifo' > 0
    BY <2>1, <2>2
  <2> QED BY <1>5, <2>3, <2>4, <2>5 DEF FifoInv, Waiting, Pio, PacedBit, MPaced
<1> QED BY <1>4, <1>6, <1>7, <1>8, <1>9, <1>10 DEF MshcInv

\* Nothing follows from the FIFO being left alone, nor from the DMA controller's own event.
LEMMA StarveKeeps ==
  ASSUME MshcInv, M!Starve \/ M!DmaComplete
  PROVE  MshcInv'
<1>0. M!Controller /\ UNCHANGED MshcDriver
  BY MshcControllerLeaves DEF M!Controller
<1>1. PICK b \in {"HTO", "TI_RI"} :
        /\ rint' = rint \cup {b} /\ idmac' \in BOOLEAN
        /\ UNCHANGED <<cmd, data, left, fifo, busy, hung, bad>>
  BY DEF M!Starve, M!DmaComplete, M!bus, MshcInv, MshcTypeOK
<1>2. MshcTypeOK'
  BY <1>0, <1>1, MshcControllerTypes DEF MshcInv, MshcTypeOK, M!Bits
<1>3. UNCHANGED <<port, req, type, portEvents, required, status, currentEvents, currentErrors, remaining, worker>>
  BY <1>0 DEF MshcDriver, portVars
<1>4. OwnerInv' /\ IdleInv'
  BY <1>0, <1>1, <1>3, MshcControllerOwner DEF MshcInv, IdleInv
<1>5. WireInv' /\ MshcPhaseInv'
  BY <1>1, <1>3 DEF MshcInv, WireInv, MshcPhaseInv, Waiting, HasData, Pio, PacedBit, MPaced, MshcDone,
    M!DataRequests, M!IsData
<1>6. WorkerInv' /\ TruthInv'
  BY <1>1, <1>3 DEF MshcInv, WorkerInv, TruthInv, SomeError, Came, MshcDone, Waiting, HasData, Pio, ErrorBits,
    M!IsData
<1>7. PlaceInv' /\ FifoInv'
  BY <1>1, <1>3 DEF MshcInv, PlaceInv, FifoInv, Waiting, Pio, PacedBit, MPaced
<1> QED BY <1>2, <1>4, <1>5, <1>6, <1>7 DEF MshcInv

LEMMA MshcDataOverKeeps ==
  ASSUME MshcInv, M!DataOver
  PROVE  MshcInv'
<1>0. M!Controller /\ UNCHANGED MshcDriver
  BY MshcControllerLeaves DEF M!Controller
<1>1. PICK e \in {{}, {"DCRC"}} :
        /\ data = "active" /\ left = 0 /\ data' = "none"
        /\ busy' = busy \/ (busy' \in BOOLEAN /\ req.write)
        /\ rint' = rint \cup {"DTO"} \cup e /\ bad' = (e # {} \/ bad)
        /\ UNCHANGED <<cmd, left, fifo, idmac, hung>>
  BY DEF M!DataOver
<1>2. MshcTypeOK'
  <2>1. busy' \in BOOLEAN /\ bad' \in BOOLEAN /\ rint' \subseteq M!Bits
    BY <1>1 DEF MshcInv, MshcTypeOK, M!Bits
  <2> QED BY <1>0, <1>1, <2>1, MshcControllerTypes DEF MshcInv, MshcTypeOK
<1>3. UNCHANGED <<port, req, type, portEvents, required, status, currentEvents, currentErrors, remaining, worker>>
  BY <1>0 DEF MshcDriver, portVars
<1>4. OwnerInv' /\ IdleInv'
  BY <1>0, <1>1, <1>3, MshcControllerOwner DEF MshcInv, IdleInv
<1>5. WireInv' /\ MshcPhaseInv'
  BY <1>1, <1>3 DEF MshcInv, WireInv, MshcPhaseInv, Waiting, HasData, Pio, PacedBit, MPaced, MshcDone,
    M!DataRequests, M!IsData
<1>6. WorkerInv' /\ TruthInv'
  BY <1>1, <1>3 DEF MshcInv, WorkerInv, TruthInv, WireInv, PlaceInv, SomeError, Came, MshcDone, Waiting, HasData,
    Pio, ErrorBits, M!IsData
<1>7. PlaceInv' /\ FifoInv'
  BY <1>1, <1>3 DEF MshcInv, PlaceInv, FifoInv, Waiting, Pio, PacedBit, MPaced
<1> QED BY <1>2, <1>4, <1>5, <1>6, <1>7 DEF MshcInv

LEMMA MshcDataFailsKeeps ==
  ASSUME MshcInv, M!BadBlock \/ M!DataTimeout
  PROVE  MshcInv'
<1>0. M!Controller /\ UNCHANGED MshcDriver
  BY MshcControllerLeaves DEF M!Controller
<1>1. PICK e \in {{}, {"DCRC"}, {"DRTO"}}, o \in {{}, {"DTO"}} :
        /\ data \in {"active", "dead"} /\ bad' = TRUE /\ rint' = rint \cup e \cup o
        /\ data = "active" => e # {}
        /\ data' \in {"active", "dead", "none"} /\ (data' = "none" <=> o = {"DTO"})
        /\ data' = "dead" => ~req.write
        /\ Pio => data' # "active"
        /\ data = "active" /\ (Pio \/ data' = "dead") => left > 0
        /\ Pio /\ data = "active" => ~req.write
        /\ UNCHANGED <<cmd, left, fifo, idmac, busy, hung>>
  <2>1. CASE M!BadBlock
    <3>1. /\ data = "active" /\ bad' = TRUE /\ rint' = rint \cup {"DCRC"} \cup {} /\ req.method = "SgDma"
          /\ UNCHANGED <<cmd, data, left, fifo, idmac, busy, hung>>
      BY <2>1 DEF M!BadBlock
    <3>2. ~Pio
      BY <3>1 DEF Pio
    <3>3. {"DCRC"} # {} /\ {} # {"DTO"}
      OBVIOUS
    <3> QED BY <3>1, <3>2, <3>3
  <2>2. CASE M!DataTimeout
    <3> DEFINE e == IF data = "active" THEN {"DRTO"} ELSE {}
               o == IF data' = "none" THEN {"DTO"} ELSE {}
    <3>1. /\ data \in {"active", "dead"} /\ data' \in {"dead", "none"} /\ (Pio => data' # "active") /\ bad' = TRUE /\ rint' = rint \cup e \cup o
          /\ data = "active" => ~req.write /\ left > 0
          /\ data' = "dead" => ~req.write
          /\ UNCHANGED <<cmd, left, fifo, idmac, busy, hung>>
      BY <2>2 DEF M!DataTimeout
    <3>2. e \in {{}, {"DCRC"}, {"DRTO"}} /\ o \in {{}, {"DTO"}} /\ (data = "active" => e # {})
          /\ (data' = "none" <=> o = {"DTO"})
      OBVIOUS
    <3> HIDE DEF e, o
    <3> QED BY <3>1, <3>2
  <2> QED BY <2>1, <2>2
<1>2. MshcTypeOK'
  <2>1. rint' \subseteq M!Bits
    BY <1>1 DEF MshcInv, MshcTypeOK, M!Bits
  <2> QED BY <1>0, <1>1, <2>1, MshcControllerTypes DEF MshcInv, MshcTypeOK
<1>3. UNCHANGED <<port, req, type, portEvents, required, status, currentEvents, currentErrors, remaining, worker>>
  BY <1>0 DEF MshcDriver, portVars
<1>4. OwnerInv' /\ IdleInv'
  BY <1>0, <1>1, <1>3, MshcControllerOwner DEF MshcInv, IdleInv
<1>5. WireInv' /\ MshcPhaseInv'
  BY <1>1, <1>3 DEF MshcInv, WireInv, MshcPhaseInv, Waiting, HasData, Pio, PacedBit, MPaced, MshcDone,
    M!DataRequests, M!IsData
<1>6. WorkerInv' /\ TruthInv'
  <2>1. Waiting => HasData /\ cmd = "None"
    BY <1>1 DEF MshcInv, WireInv
  <2>2. WorkerInv'
    BY <1>1, <1>3 DEF MshcInv, WorkerInv, MshcDone, Waiting
  <2>3. Waiting => SomeError'
    <3>1. CASE data = "active"
      BY <1>1, <3>1 DEF SomeError, ErrorBits
    <3>2. CASE data = "dead"
      <4>1. Waiting => SomeError
        BY <3>2 DEF MshcInv, WireInv, TruthInv
      <4> QED BY <1>1, <1>3, <4>1 DEF SomeError
    <3> QED BY <1>1, <3>1, <3>2
  <2>4. Waiting => ~Came("RW_END", "DTO")'
    <3>1. Waiting => "RW_END" \notin portEvents \cup currentEvents
      BY <1>1 DEF MshcInv, PlaceInv
    <3> QED BY <1>3, <2>3, <3>1 DEF Came, SomeError
  <2>5. Waiting /\ Pio => data' # "active"
    BY <1>1 DEF MshcInv, TruthInv, MshcTypeOK
  <2>6. Waiting /\ Pio => ~req.write /\ left > 0
    BY <1>1 DEF MshcInv, WireInv
  <2> QED BY <1>1, <1>3, <2>1, <2>2, <2>3, <2>4, <2>5, <2>6 DEF TruthInv, MshcInv, MshcTypeOK, Waiting, HasData, Pio,
    M!IsData
<1>7. PlaceInv' /\ FifoInv'
  BY <1>1, <1>3 DEF MshcInv, PlaceInv, FifoInv, Waiting, Pio, PacedBit, MPaced
<1> QED BY <1>2, <1>4, <1>5, <1>6, <1>7 DEF MshcInv

LEMMA MshcCardKeeps ==
  ASSUME MshcInv, M!CardIdle \/ M!Hang
  PROVE  MshcInv'
<1>0. M!Controller /\ UNCHANGED MshcDriver
  BY MshcControllerLeaves DEF M!Controller
<1>1. /\ busy' \in BOOLEAN /\ (busy' => busy) /\ hung' \in BOOLEAN
      /\ UNCHANGED <<rint, cmd, data, left, fifo, idmac, bad>>
  <2>1. busy \in BOOLEAN /\ hung \in BOOLEAN
    BY DEF MshcInv, MshcTypeOK
  <2>2. CASE M!CardIdle
    BY <2>1, <2>2 DEF M!CardIdle
  <2>3. CASE M!Hang
    BY <2>1, <2>3 DEF M!Hang
  <2> QED BY <2>2, <2>3
<1>2. MshcTypeOK'
  BY <1>0, <1>1, MshcControllerTypes DEF MshcInv, MshcTypeOK
<1>3. UNCHANGED <<port, req, type, portEvents, required, status, currentEvents, currentErrors, remaining, worker>>
  BY <1>0 DEF MshcDriver, portVars
<1>4. OwnerInv' /\ IdleInv'
  BY <1>0, <1>1, <1>3, MshcControllerOwner DEF MshcInv, IdleInv
<1>5. WireInv' /\ MshcPhaseInv'
  BY <1>1, <1>3 DEF MshcInv, WireInv, MshcPhaseInv, Waiting, HasData, Pio, PacedBit, MPaced, MshcDone,
    M!DataRequests, M!IsData
<1>6. WorkerInv' /\ TruthInv'
  BY <1>1, <1>3 DEF MshcInv, WorkerInv, TruthInv, SomeError, Came, MshcDone, Waiting, HasData, Pio, ErrorBits,
    M!IsData
<1>7. PlaceInv' /\ FifoInv'
  BY <1>1, <1>3 DEF MshcInv, PlaceInv, FifoInv, Waiting, Pio, PacedBit, MPaced
<1> QED BY <1>2, <1>4, <1>5, <1>6, <1>7 DEF MshcInv

-----------------------------------------------------------------------------
(* The ISR.                                                                *)

LEMMA MshcInterruptKeeps ==
  ASSUME MshcInv, M!MshcSlotInterrupt
  PROVE  MshcInv'
<1> DEFINE ev == M!Events(rint)
           er == M!Errors(rint)
<1>1. /\ rint' = M!DataRequest(fifo, data, left)
      /\ mask' = (IF rint \cap M!DataRequests # {} THEN mask \ M!DataRequests ELSE mask)
      /\ IF localPending /\ ev \cup er # {}
         THEN /\ currentEvents' = currentEvents \cup ev /\ currentErrors' = currentErrors \cup er
              /\ localDpc' = TRUE
              /\ UNCHANGED portEvents
         ELSE /\ portEvents' = portEvents \cup ev \cup er
              /\ UNCHANGED <<currentEvents, currentErrors, localDpc>>
      /\ UNCHANGED <<port, req, type, outstanding, required, status, remaining, localPending, stop, worker,
                     cmd, data, left, fifo, idmac, busy, hung, bad, fault>>
  BY DEF M!MshcSlotInterrupt, M!requests, M!bus, M!current
<1>2. rint \subseteq M!Bits
  BY DEF MshcInv, MshcTypeOK
<1>3. /\ ev \subseteq EventSet /\ er \subseteq ErrorSet
      /\ "RESPONSE" \in ev <=> "CMD" \in rint
      /\ "RW_END" \in ev <=> "DTO" \in rint
      /\ "BUFFER_EMPTY" \in ev <=> "TXDR" \in rint
      /\ "BUFFER_FULL" \in ev <=> "RXDR" \in rint
      /\ er = {} <=> rint \cap ErrorBits = {}
  BY <1>2, EventFacts
<1>4. /\ rint' \subseteq IF Pio THEN {PacedBit} ELSE {}
      /\ rint' # {} => IF req.write THEN data = "active" /\ fifo < left ELSE fifo > 0
      /\ rint' \subseteq M!DataRequests /\ rint' \subseteq M!Bits
  BY <1>1, DataRequestFacts DEF MshcInv, MshcTypeOK
<1> HIDE DEF ev, er
<1>5. MshcTypeOK'
  <2>1. mask' \subseteq M!Bits
    BY <1>1 DEF MshcInv, MshcTypeOK
  <2>2. /\ portEvents' \subseteq EventSet \cup ErrorSet /\ localDpc' \in BOOLEAN
        /\ currentEvents' \subseteq EventSet /\ currentErrors' \subseteq ErrorSet
    BY <1>1, <1>3 DEF MshcInv, MshcTypeOK
  <2> QED BY <1>1, <1>4, <2>1, <2>2 DEF MshcInv, MshcTypeOK
<1>6. OwnerInv'
  BY <1>1 DEF MshcInv, OwnerInv
<1>7. IdleInv'
  <2>1. rint' # {} => fifo > 0 \/ data = "active"
    BY <1>4, MshcRequestFacts DEF MshcInv
  <2> QED BY <1>1, <2>1 DEF MshcInv, IdleInv
<1>8. ASSUME Waiting PROVE ~localPending
  BY <1>8 DEF MshcInv, OwnerInv, Waiting
<1>9. CASE Waiting
  <2>1. /\ portEvents' = portEvents \cup ev \cup er /\ UNCHANGED <<currentEvents, currentErrors>>
        /\ "CMD" \notin rint' /\ "DTO" \notin rint' /\ rint' \cap ErrorBits = {}
    <3>1. {"CMD", "DTO"} \cap M!DataRequests = {} /\ ErrorBits \cap M!DataRequests = {}
      BY DEF M!DataRequests, ErrorBits
    <3> QED BY <1>1, <1>4, <1>8, <1>9, <3>1
  <2>2. ErrorSet \cap EventSet = {}
    BY DEF ErrorSet, EventSet
  <2>3. /\ "RESPONSE" \in portEvents' <=> "RESPONSE" \in portEvents \/ "CMD" \in rint
        /\ "RW_END" \in portEvents' <=> "RW_END" \in portEvents \/ "DTO" \in rint
        /\ Pio => (MPaced \in portEvents' <=> MPaced \in portEvents \/ PacedBit \in rint)
        /\ portEvents' \cap ErrorSet = {} <=> portEvents \cap ErrorSet = {} /\ rint \cap ErrorBits = {}
    <3>1. {"RESPONSE", "RW_END", MPaced} \cap er = {}
      BY <1>3 DEF MPaced, M!Paced, ErrorSet
    <3>2. MPaced \in ev <=> PacedBit \in rint
      BY <1>3 DEF MPaced, M!Paced, PacedBit
    <3>3. portEvents' \cap ErrorSet = (portEvents \cap ErrorSet) \cup er
      BY <1>3, <2>1, <2>2
    <3> QED BY <1>3, <2>1, <3>1, <3>2, <3>3
  <2>4. WireInv'
    BY <1>1, <1>4, <2>1, <2>3 DEF MshcInv, WireInv, Waiting, HasData, Pio, PacedBit, M!IsData
  <2>5. MshcPhaseInv'
    BY <1>1, <2>1 DEF MshcInv, MshcPhaseInv, Waiting, HasData, Pio, MPaced, MshcDone, M!IsData
  <2>6. WorkerInv'
    BY <1>1, <2>1 DEF MshcInv, WorkerInv, Waiting, HasData, Pio, MshcDone, M!IsData
  <2>7. TruthInv'
    BY <1>1, <1>4, <2>1, <2>3 DEF MshcInv, TruthInv, SomeError, Came, MshcDone, Waiting, HasData, Pio, M!IsData
  <2>8. PlaceInv'
    <3>1. PacedBit \in rint' => data # "none" \/ fifo > 0
      BY <1>4, MshcRequestFacts DEF MshcInv
    <3>2. "CMD" \notin rint' /\ "DTO" \notin rint'
      BY <2>1
    <3>3. cmd # "None" => "RESPONSE" \notin portEvents'
      BY <1>9, <2>3 DEF MshcInv, PlaceInv
    <3>4. /\ cmd # "None" \/ data # "none" => "RW_END" \notin portEvents' \cup currentEvents
          /\ "RW_END" \in portEvents' => "RW_END" \notin currentEvents
      BY <1>9, <2>3 DEF MshcInv, PlaceInv
    <3>5. "RESPONSE" \in portEvents' => "RESPONSE" \in required["port"]
      BY <1>9, <2>3 DEF MshcInv, PlaceInv
    <3>6. data # "none" \/ fifo > 0 \/ PacedBit \in rint' => ("RESPONSE" \in required["port"] => "RESPONSE" \in portEvents')
      BY <1>9, <2>3, <3>1 DEF MshcInv, PlaceInv, WireInv
    <3>7. Pio /\ MPaced \in portEvents' => ("RESPONSE" \in required["port"] => "RESPONSE" \in portEvents')
      BY <1>9, <2>3 DEF MshcInv, PlaceInv
    <3> QED BY <1>1, <2>1, <3>2, <3>3, <3>4, <3>5, <3>6, <3>7 DEF MshcInv, PlaceInv, Waiting, Pio, PacedBit, MPaced
  <2>9. FifoInv'
    BY <1>1, <1>4, <2>1, <2>3 DEF MshcInv, FifoInv, Waiting, Pio, PacedBit, MPaced
  <2> QED BY <1>5, <1>6, <1>7, <2>4, <2>5, <2>6, <2>7, <2>8, <2>9 DEF MshcInv
<1>10. CASE ~Waiting
  BY <1>1, <1>5, <1>6, <1>7, <1>10, MshcNotWaiting DEF MshcInv, Waiting
<1> QED BY <1>9, <1>10

-----------------------------------------------------------------------------
(* Completing a request.                                                   *)

Named    == {"port", "stop"}
Statuses == {"SUCCESS", "MORE_PROCESSING", "Failed"}

\* What becomes of request q when it ends with status s while sdport stands at p.
Finished(q, s, p) ==
  /\ localPending' = FALSE /\ fault' = "None"
  /\ outstanding' = IF s = "Failed" THEN q ELSE "None"
  /\ status' \in [Named -> Statuses]
  /\ \E t \in {s, "Failed"} :
       /\ status'["port"] = IF q = "port" THEN t ELSE status["port"]
       /\ port' = IF localPending THEN p ELSE M!AfterCompletion(t)

LEMMA FinishFacts ==
  ASSUME MshcTypeOK, NEW q \in Named, NEW s \in Statuses, NEW p, M!FinishRequest(q, s, p, q),
         localPending \/ p = "wait"
  PROVE  Finished(q, s, p)
<1>1. /\ outstanding' = (IF s \in {"SUCCESS", "MORE_PROCESSING"} THEN "None" ELSE q)
      /\ localPending' = FALSE /\ fault' = fault
  BY DEF M!FinishRequest, M!None
<1>2. PICK t \in {s, "Failed"} :
        /\ status' = [status EXCEPT ![q] = t]
        /\ port' = IF localPending THEN p ELSE M!AfterCompletion(t)
  <2>1. PICK i \in BOOLEAN :
          /\ status' = [status EXCEPT ![q] = IF i THEN s ELSE "Failed"]
          /\ port' = IF localPending \/ p # "wait" THEN p ELSE M!AfterCompletion(IF i THEN s ELSE "Failed")
    <3>1. (IF Removable THEN BOOLEAN ELSE {TRUE}) \subseteq BOOLEAN
      OBVIOUS
    <3> QED BY <3>1 DEF M!FinishRequest
  <2>2. CASE i
    BY <2>1, <2>2
  <2>3. CASE ~i
    BY <2>1, <2>3
  <2> QED BY <2>2, <2>3
<1>3. status \in [Named -> Statuses] /\ t \in Statuses
  BY DEF MshcTypeOK, Named, Statuses
<1>4. status' \in [Named -> Statuses] /\ status'["port"] = IF q = "port" THEN t ELSE status["port"]
  BY <1>2, <1>3 DEF Named
<1> QED BY <1>1, <1>2, <1>4 DEF Finished, MshcTypeOK, Statuses

\* A request without errors waits for the busy signal first.
LEMMA MshcCompleteFacts ==
  ASSUME MshcTypeOK, NEW q \in Named, NEW r \in [Named -> SUBSET EventSet], NEW s \in Statuses, NEW p,
         M!MshcCompleteRequest(q, r, s, p, q), localPending \/ p = "wait", worker = 0
  PROVE  /\ required' = r
         /\ \/ /\ s = "SUCCESS" /\ r[q] = {} /\ busy /\ (M!Command(q).r1b \/ M!Command(q).write)
               /\ worker' = 1 /\ outstanding' = q /\ port' = p /\ status' \in [Named -> Statuses]
               /\ status'["port"] = IF q = "port" THEN "SUCCESS" ELSE status["port"]
               /\ UNCHANGED <<localPending, fault>>
            \/ /\ Finished(q, s, p) /\ worker' = 0
               /\ ~(s = "SUCCESS" /\ r[q] = {} /\ busy /\ (M!Command(q).r1b \/ M!Command(q).write))
<1>0. required' = r
  BY DEF M!MshcCompleteRequest
<1>1. CASE s = "SUCCESS" /\ r[q] = {} /\ (M!Command(q).r1b \/ M!Command(q).write) /\ busy
  <2>1. /\ status' = [status EXCEPT ![q] = "SUCCESS"] /\ worker' = worker + 1 /\ outstanding' = q /\ port' = p
        /\ UNCHANGED <<localPending, fault>>
    BY <1>1 DEF M!MshcCompleteRequest
  <2>2. status \in [Named -> Statuses]
    BY DEF MshcTypeOK, Named, Statuses
  <2>3. status' \in [Named -> Statuses] /\ status'["port"] = IF q = "port" THEN "SUCCESS" ELSE status["port"]
    BY <2>1, <2>2 DEF Named, Statuses
  <2> QED BY <1>0, <1>1, <2>1, <2>3
<1>2. CASE ~(s = "SUCCESS" /\ r[q] = {} /\ (M!Command(q).r1b \/ M!Command(q).write) /\ busy)
  <2>1. M!FinishRequest(q, s, p, q) /\ worker' = worker
    BY <1>2 DEF M!MshcCompleteRequest
  <2> QED BY <1>0, <1>2, <2>1, FinishFacts
<1> QED BY <1>1, <1>2

LEMMA FailedKeeps ==
  ASSUME MshcTypeOK', port' = "failed", stop' = "none", localPending' = FALSE, worker' = 0, outstanding' # "stop",
         outstanding' = "port" => required'["port"] = {}
  PROVE  MshcInv'
<1>1. OwnerInv' /\ IdleInv'
  BY DEF OwnerInv, IdleInv
<1>2. ~Waiting'
  BY DEF Waiting
<1> QED BY <1>1, <1>2, MshcNotWaiting DEF MshcInv

LEMMA IdleKeeps ==
  ASSUME MshcTypeOK', port' = "idle", stop' = "none", localPending' = FALSE, worker' = 0, outstanding' = "None",
         MshcDone', ~busy', fifo' = 0, rint' \subseteq {"TI_RI", "HTO"}
  PROVE  MshcInv'
<1>1. OwnerInv' /\ IdleInv'
  BY DEF OwnerInv, IdleInv, MshcDone
<1>2. ~Waiting'
  BY DEF Waiting
<1> QED BY <1>1, <1>2, MshcNotWaiting DEF MshcInv

\* The controller has nothing left of a request whose end has been seen.
LEMMA DoneRests ==
  ASSUME MshcInv, Waiting, MshcDone, required["port"] \subseteq portEvents,
         HasData => "RW_END" \in portEvents \cup currentEvents, Pio => remaining = 0
  PROVE  fifo = 0 /\ rint \subseteq {"TI_RI", "HTO"}
<1>1. fifo = 0
  <2>1. CASE Pio
    BY <2>1 DEF MshcInv, MshcTypeOK, FifoInv, MshcDone
  <2> QED BY <2>1 DEF MshcInv, WireInv
<1>2. "CMD" \notin rint /\ "DTO" \notin rint
  BY DEF MshcInv, PlaceInv, WireInv
<1>3. rint \cap ErrorBits = {}
  BY DEF MshcInv, TruthInv, MshcDone
<1>4. rint \cap M!DataRequests = {}
  <2>1. Pio => PacedBit \notin rint
    BY <1>1 DEF MshcInv, MshcTypeOK, FifoInv, MshcDone
  <2> QED BY <2>1 DEF MshcInv, WireInv
<1>5. rint \subseteq M!Bits
  BY DEF MshcInv, MshcTypeOK
<1> QED BY <1>1, <1>2, <1>3, <1>4, <1>5 DEF M!Bits, ErrorBits

\* sdport's DPC calls for nothing when no event is missing: what it drops is not waited for.
LEMMA DpcDropsKeeps ==
  ASSUME MshcInv, portEvents' = {}, ~Waiting \/ required["port"] = {},
         UNCHANGED <<port, req, type, outstanding, required, status, currentEvents, currentErrors, remaining,
                     localPending, localDpc, stop, worker, rint, mask, M!bus, fault>>
  PROVE  MshcInv'
<1>0. UNCHANGED <<cmd, data, left, fifo, idmac, busy, hung, bad>>
  BY DEF M!bus
<1>1. MshcTypeOK' /\ OwnerInv' /\ IdleInv'
  BY <1>0 DEF MshcInv, MshcTypeOK, OwnerInv, IdleInv
<1>2. CASE ~Waiting
  BY <1>1, <1>2, MshcNotWaiting DEF MshcInv, Waiting
<1>3. CASE Waiting
  <2>0. required["port"] = {}
    BY <1>3
  <2>1. /\ currentErrors = {} /\ ~HasData => "RESPONSE" \in currentEvents
        /\ currentErrors = {} /\ HasData => "RW_END" \in currentEvents \/ (port = "transfer" /\ Pio)
    <3>1. CASE port = "transfer"
      BY <2>0, <3>1, <1>3 DEF MshcInv, MshcPhaseInv
    <3>2. CASE port = "wait" /\ type = "StartTransfer"
      BY <2>0, <3>2, <1>3 DEF MshcInv, MshcPhaseInv, MshcTypeOK
    <3>3. CASE port = "wait" /\ type # "StartTransfer"
      <4>1. currentErrors = {} => M!Awaited(req) \subseteq currentEvents
        BY <2>0, <3>3, <1>3 DEF MshcInv, MshcPhaseInv
      <4>2. currentErrors = {} => ~Pio
        <5>1. Pio => remaining > 0
          BY <1>3, <3>3, MshcRequestFacts DEF MshcInv, MshcPhaseInv, Pio, HasData, M!IsData
        <5> QED BY <2>0, <1>3, <3>3, <5>1 DEF MshcInv, MshcPhaseInv
      <4> QED BY <4>1, <4>2, MshcRequestFacts DEF MshcInv, M!Awaited, HasData, M!IsData, Pio
    <3> QED BY <1>3, <3>1, <3>2, <3>3 DEF Waiting
  <2>2. CASE port = "transfer" /\ Pio
    <3>1. remaining > 0 /\ (~req.write => fifo > 0)
      BY <1>3, <2>2 DEF MshcInv, MshcPhaseInv, FifoInv
    <3>2. fifo \in Nat /\ left \in Nat /\ remaining \in Int
      BY DEF MshcInv, MshcTypeOK
    <3>3. IF req.write THEN left > 0 ELSE left = 0
      <4>1. IF req.write THEN fifo + remaining = left ELSE fifo + left = remaining /\ remaining <= 1
        BY <1>3, <2>2 DEF MshcInv, FifoInv
      <4> QED BY <3>1, <3>2, <4>1
    <3>4. data # "none" => ~bad
      <4>1. data # "dead"
        BY <1>3, <3>3 DEF MshcInv, WireInv
      <4> QED BY <4>1, <1>3, <2>2 DEF MshcInv, TruthInv, MshcTypeOK
    <3>5. cmd = "None"
      BY <1>3, <2>0 DEF MshcInv, PlaceInv
    <3>6. "DTO" \in rint /\ rint \cap ErrorBits = {} => MshcDone
      BY <1>3, <2>2, <3>3, <3>5 DEF MshcInv, TruthInv, PlaceInv, MshcDone
    <3>7. HasData
      BY <2>2 DEF Pio, HasData, M!IsData
    <3>8. TruthInv'
      <4>1. Came("RW_END", "DTO")' => MshcDone
        BY <1>0, <1>3, <3>6 DEF MshcInv, TruthInv, Came
      <4> QED BY <1>0, <1>3, <3>4, <3>5, <3>7, <4>1 DEF MshcInv, TruthInv, MshcDone, HasData, Pio, M!IsData, Waiting
    <3> QED BY <1>0, <1>1, <1>3, <2>0, <3>8 DEF MshcInv, WireInv, MshcPhaseInv, WorkerInv, PlaceInv, FifoInv, MshcDone,
      Waiting, HasData, Pio, M!IsData, PacedBit, MPaced
  <2>3. CASE currentErrors = {} /\ ~HasData
    <3>1. ~bad
      BY <1>3, <2>1, <2>3 DEF MshcInv, TruthInv, Came
    <3>2. TruthInv'
      BY <1>0, <1>3, <2>3, <3>1 DEF MshcInv, TruthInv, WireInv, Came, MshcDone, HasData, Pio, M!IsData, Waiting
    <3> QED BY <1>0, <1>1, <1>3, <2>0, <3>2 DEF MshcInv, WireInv, MshcPhaseInv, WorkerInv, PlaceInv, FifoInv, MshcDone,
      Waiting, HasData, Pio, M!IsData, PacedBit, MPaced
  <2>4. CASE "RW_END" \in currentEvents /\ currentErrors = {} /\ HasData
    <3>1. MshcDone
      BY <1>3, <2>4 DEF MshcInv, TruthInv, Came
    <3>2. TruthInv'
      BY <1>0, <1>3, <2>4, <3>1 DEF MshcInv, TruthInv, Came, MshcDone, HasData, Pio, M!IsData, Waiting
    <3> QED BY <1>0, <1>1, <1>3, <2>0, <3>2 DEF MshcInv, WireInv, MshcPhaseInv, WorkerInv, PlaceInv, FifoInv, MshcDone,
      Waiting, HasData, Pio, M!IsData, PacedBit, MPaced
  <2>5. CASE currentErrors # {}
    <3>2. TruthInv'
      BY <1>0, <1>3, <2>5 DEF MshcInv, TruthInv, SomeError, Came, HasData, Pio, M!IsData, Waiting
    <3> QED BY <1>0, <1>1, <1>3, <2>0, <3>2 DEF MshcInv, WireInv, MshcPhaseInv, WorkerInv, PlaceInv, FifoInv, MshcDone,
      Waiting, HasData, Pio, M!IsData, PacedBit, MPaced
  <2> QED BY <2>1, <2>2, <2>3, <2>4, <2>5
<1> QED BY <1>2, <1>3

\* sdport's request goes on, or has ended, and well only if all of it is done.
Goes ==
  port' # port => /\ port = "wait" /\ port' \in {"failed", "transfer", "idle"}
                  /\ port' = "idle" => MshcDone /\ ~busy /\ (HasData => Pio /\ remaining = 0)

\* Everything that sdport's request waits for comes with this DPC, and no error.
LEMMA DpcSucceedsKeeps ==
  ASSUME MshcInv, MshcTypeOK', port = "wait", required["port"] # {}, currentErrors = {}, portEvents \cap ErrorSet = {},
         required["port"] \subseteq portEvents, portEvents' = {}, currentErrors' = {},
         currentEvents' = currentEvents \cup (portEvents \cap EventSet), required'["port"] = {},
         M!MshcCompleteRequest("port", required', status["port"], "wait", "port"),
         UNCHANGED <<req, type, remaining, localDpc, stop, rint, mask, M!bus>>
  PROVE  MshcInv' /\ Goes
<1>0. UNCHANGED <<cmd, data, left, fifo, idmac, busy, hung, bad>>
  BY DEF M!bus
<1>1. /\ outstanding = "port" /\ ~localPending /\ worker = 0 /\ stop = "none" /\ Waiting
      /\ status["port"] \in {"SUCCESS", "MORE_PROCESSING"}
  <2>1. stop = "none"
    BY DEF MshcInv, OwnerInv
  <2>2. Waiting
    BY DEF Waiting
  <2>3. status["port"] \in {"SUCCESS", "MORE_PROCESSING"}
    BY <2>2 DEF MshcInv, MshcPhaseInv
  <2> QED BY <2>1, <2>2, <2>3 DEF MshcInv, MshcTypeOK, OwnerInv
<1>2. cmd = "None" /\ "CMD" \notin rint
  BY <1>1 DEF MshcInv, PlaceInv
<1>3. ASSUME ~HasData PROVE MshcDone /\ "RESPONSE" \in currentEvents'
  <2>1. "RESPONSE" \in currentEvents'
    BY <1>1, <1>3 DEF MshcInv, MshcTypeOK, MshcPhaseInv, M!Awaited, EventSet
  <2>2. ~bad
    BY <1>1, <1>3, <2>1 DEF MshcInv, TruthInv, Came
  <2> QED BY <1>1, <1>2, <1>3, <2>1, <2>2 DEF MshcInv, WireInv, MshcDone
<1>4. ASSUME HasData, Pio => type = "StartTransfer" /\ remaining = 0
      PROVE  MshcDone /\ "RW_END" \in currentEvents'
  <2>1. "RW_END" \in currentEvents'
    <3>1. CASE Pio
      BY <1>1, <1>4, <3>1 DEF MshcInv, MshcTypeOK, MshcPhaseInv, EventSet
    <3>2. CASE ~Pio
      <4>1. type # "StartTransfer" /\ req.method = "SgDma"
        BY <1>1, <1>4, <3>2, MshcRequestFacts DEF MshcInv, MshcPhaseInv, HasData, M!IsData, Pio
      <4> QED BY <1>1, <4>1 DEF MshcInv, MshcTypeOK, MshcPhaseInv, M!Awaited, EventSet
    <3> QED BY <3>1, <3>2
  <2> QED BY <1>1, <2>1 DEF MshcInv, TruthInv, Came
<1>5. ASSUME Pio, remaining > 0 PROVE MPaced \in portEvents /\ ~busy
  <2>1. MPaced \in portEvents
    BY <1>1, <1>5 DEF MshcInv, MshcPhaseInv
  <2>2. ~busy
    <3>1. busy => req.write /\ left = 0
      BY <1>1, <1>5, MshcRequestFacts DEF MshcInv, WireInv, Pio, HasData, M!IsData
    <3> QED BY <1>1, <1>5, <3>1 DEF MshcInv, MshcTypeOK, FifoInv
  <2> QED BY <2>1, <2>2
<1>6. type = "StartTransfer" => Pio /\ (IF remaining > 0 THEN status["port"] = "MORE_PROCESSING"
                                        ELSE remaining = 0 /\ status["port"] = "SUCCESS")
  BY <1>1 DEF MshcInv, MshcPhaseInv
<1>7. type # "StartTransfer" => status["port"] = "SUCCESS" /\ (HasData => remaining > 0)
  BY <1>1, MshcRequestFacts DEF MshcInv, MshcPhaseInv
<1>8. /\ required' \in [Named -> SUBSET EventSet] /\ status["port"] \in Statuses /\ M!Command("port") = req
      /\ "port" \in Named
  BY <1>1 DEF MshcTypeOK, Named, Statuses, M!Command
<1>9. \/ /\ status["port"] = "SUCCESS" /\ busy /\ worker' = 1 /\ outstanding' = "port" /\ port' = "wait"
         /\ status'["port"] = "SUCCESS" /\ UNCHANGED <<localPending, fault>>
      \/ /\ Finished("port", status["port"], "wait") /\ worker' = 0
         /\ status["port"] = "SUCCESS" => ~(busy /\ (req.r1b \/ req.write))
  <2>1. localPending \/ "wait" = "wait"
    OBVIOUS
  <2>2. MshcTypeOK
    BY DEF MshcInv
  <2> QED BY <1>1, <1>8, <2>1, <2>2, MshcCompleteFacts
<1>10. CASE worker' = 1
  <2>0. worker' # 0
    BY <1>10
  <2>1. /\ status["port"] = "SUCCESS" /\ busy /\ outstanding' = "port" /\ port' = "wait" /\ ~localPending'
        /\ status'["port"] = "SUCCESS"
    BY <1>1, <1>9, <2>0
  <2>2. ~(Pio /\ remaining > 0)
    BY <1>5, <2>1
  <2>3. HasData => MshcDone /\ "RW_END" \in currentEvents'
    <3>1. Pio => remaining >= 0 /\ remaining \in Int
      BY <1>1 DEF MshcInv, MshcTypeOK, FifoInv
    <3>2. Pio => remaining = 0
      BY <2>2, <3>1
    <3>3. Pio => type = "StartTransfer"
      BY <1>7, <2>2 DEF Pio, HasData, M!IsData
    <3> QED BY <1>4, <3>2, <3>3
  <2>4. MshcDone
    BY <1>3, <2>3
  <2>5. Waiting'
    BY <2>1 DEF Waiting
  <2>6. OwnerInv' /\ IdleInv'
    BY <1>1, <1>10, <2>1 DEF MshcInv, OwnerInv, IdleInv
  <2>7. WireInv'
    BY <1>0, <1>1 DEF MshcInv, WireInv, HasData, Pio, PacedBit, M!IsData
  <2>8. MshcPhaseInv'
    <3>1. type # "StartTransfer" => M!Awaited(req) \subseteq currentEvents'
      <4>1. M!Awaited(req) \subseteq EventSet
        BY MshcRequestFacts DEF MshcInv, M!Awaited, M!Paced, EventSet
      <4> QED BY <1>1, <4>1 DEF MshcInv, MshcPhaseInv
    <3>2. type = "StartTransfer" => Pio /\ remaining = 0 /\ "RW_END" \in currentEvents'
      BY <1>6, <2>1, <2>3 DEF Pio, HasData, M!IsData
    <3>3. type = "CommandNoTransfer" <=> ~HasData
      BY <1>1 DEF MshcInv, MshcPhaseInv
    <3> QED BY <1>0, <1>1, <1>7, <2>1, <2>2, <3>1, <3>2, <3>3 DEF MshcInv, MshcPhaseInv, HasData, Pio, MPaced, MshcDone, M!IsData
  <2>9. WorkerInv'
    BY <1>0, <1>7, <2>1, <2>2, <2>3, <2>4, <1>1 DEF MshcInv, MshcTypeOK, FifoInv, WorkerInv, MshcDone, HasData, Pio, M!IsData
  <2>10. TruthInv'
    BY <1>0, <1>1, <2>4 DEF MshcInv, TruthInv, WireInv, Came, MshcDone, HasData, Pio, M!IsData
  <2>11. PlaceInv'
    BY <1>0, <1>1, <1>2, <2>3, <2>4 DEF MshcInv, PlaceInv, WireInv, MshcDone, HasData, Pio, PacedBit, MPaced, M!IsData
  <2>12. FifoInv'
    BY <1>0, <1>1, <2>1 DEF MshcInv, FifoInv, HasData, Pio, PacedBit, MPaced
  <2> QED BY <2>1, <2>6, <2>7, <2>8, <2>9, <2>10, <2>11, <2>12 DEF MshcInv, Goes
<1>11. CASE worker' = 0
  <2>0. worker' # 1
    BY <1>11
  <2>1. /\ Finished("port", status["port"], "wait")
        /\ status["port"] = "SUCCESS" => ~(busy /\ (req.r1b \/ req.write))
    BY <1>9, <2>0
  <2>2. outstanding' = "None" /\ localPending' = FALSE
    BY <1>1, <2>1 DEF Finished
  <2>3. PICK t \in {status["port"], "Failed"} : port' = M!AfterCompletion(t)
    BY <1>1, <2>1 DEF Finished
  <2>4. status["port"] = "SUCCESS" => ~busy
    BY <1>1, <2>1 DEF MshcInv, WireInv
  <2>5. CASE port' = "failed"
    BY <1>1, <1>11, <2>2, <2>5, FailedKeeps DEF Goes
  <2>6. CASE port' # "failed" /\ status["port"] = "SUCCESS" /\ type # "CommandWithTransfer"
    <3>1. port' = "idle"
      BY <2>3, <2>6 DEF M!AfterCompletion
    <3>2. HasData => Pio /\ type = "StartTransfer" /\ remaining = 0
      BY <1>1, <1>6, <2>6 DEF MshcInv, MshcTypeOK, MshcPhaseInv
    <3>3. MshcDone /\ (HasData => "RW_END" \in currentEvents')
      BY <1>3, <1>4, <3>2
    <3>4. (HasData => "RW_END" \in portEvents \cup currentEvents) /\ (Pio => remaining = 0)
      BY <3>2, <3>3 DEF Pio, HasData, M!IsData
    <3>5. fifo = 0 /\ rint \subseteq {"TI_RI", "HTO"}
      BY <1>1, <3>3, <3>4, DoneRests
    <3>6. MshcDone' /\ ~busy'
      BY <1>0, <2>4, <2>6, <3>3 DEF MshcDone
    <3>7. Goes
      BY <2>4, <2>6, <3>1, <3>2, <3>3 DEF Goes
    <3> QED BY <1>0, <1>1, <1>11, <2>2, <3>1, <3>5, <3>6, <3>7, IdleKeeps
  <2>7. CASE port' # "failed" /\ (status["port"] = "MORE_PROCESSING" \/ type = "CommandWithTransfer")
    <3>1. port' = "transfer"
      BY <1>1, <2>3, <2>7 DEF M!AfterCompletion
    <3>2. HasData
      <4>1. type = "CommandNoTransfer" => status["port"] = "SUCCESS"
        BY <1>1 DEF MshcInv, MshcPhaseInv
      <4> QED BY <1>1, <2>7, <4>1 DEF MshcInv, MshcPhaseInv
    <3>3. Pio => remaining > 0 /\ (~req.write => fifo > 0)
      <4>1. Pio => remaining > 0
        <5>1. CASE type = "StartTransfer"
          BY <1>6, <2>7, <5>1
        <5> QED BY <1>7, <3>2, <5>1
      <4>2. Pio => MPaced \in portEvents
        BY <1>5, <4>1
      <4> QED BY <1>1, <4>1, <4>2 DEF MshcInv, FifoInv
    <3>4. ~Pio => MshcDone /\ ~busy /\ "RW_END" \in currentEvents' /\ type # "StartTransfer"
      BY <1>4, <1>6, <1>7, <2>4, <3>2
    <3>5. OwnerInv' /\ IdleInv' /\ WorkerInv' /\ Waiting'
      BY <1>1, <1>11, <2>2, <3>1 DEF OwnerInv, IdleInv, WorkerInv, Waiting
    <3>6. WireInv'
      BY <1>0, <1>1 DEF MshcInv, WireInv, HasData, Pio, PacedBit, M!IsData
    <3>7. MshcPhaseInv'
      <4>1. type = "CommandNoTransfer" <=> ~HasData
        BY <1>1 DEF MshcInv, MshcPhaseInv
      <4> QED BY <1>0, <3>1, <3>2, <3>3, <3>4, <4>1 DEF MshcPhaseInv, HasData, Pio, MPaced, MshcDone, M!IsData
    <3>8. TruthInv'
      <4>1. bad /\ data # "none" => rint \cap ErrorBits # {}
        BY <1>1 DEF MshcInv, TruthInv, SomeError
      <4>2. Came("RW_END", "DTO")' => Came("RW_END", "DTO")
        BY <1>0 DEF Came
      <4> QED BY <1>0, <1>1, <1>2, <3>2, <4>1, <4>2 DEF MshcInv, TruthInv, SomeError, MshcDone, HasData, Pio, M!IsData
    <3>9. PlaceInv'
      <4>1. cmd # "None" \/ data # "none" => "RW_END" \notin currentEvents'
        BY <1>1 DEF MshcInv, PlaceInv
      <4>2. "DTO" \in rint => "RW_END" \notin currentEvents'
        BY <1>1 DEF MshcInv, PlaceInv
      <4> QED BY <1>0, <1>1, <1>2, <4>1, <4>2 DEF MshcInv, PlaceInv, Pio, PacedBit, MPaced
    <3>10. FifoInv'
      BY <1>0, <1>1, <3>3 DEF MshcInv, FifoInv, Pio, PacedBit, MPaced
    <3> QED BY <3>1, <3>5, <3>6, <3>7, <3>8, <3>9, <3>10 DEF MshcInv, Goes
  <2> QED BY <1>1, <2>5, <2>6, <2>7
<1> QED BY <1>9, <1>10, <1>11

\* Some event is still missing, or an error is not over: both are kept.
LEMMA DpcWaitsKeeps ==
  ASSUME MshcInv, port = "wait", required["port"] # {}, portEvents' = {},
         currentEvents' = currentEvents \cup (portEvents \cap EventSet),
         currentErrors' = currentErrors \cup (portEvents \cap ErrorSet),
         required' = [required EXCEPT !["port"] = @ \ (portEvents \cap EventSet)],
         currentErrors' = {} => required'["port"] # {},
         UNCHANGED <<port, outstanding, status, localPending, worker, fault,
                     req, type, remaining, localDpc, stop, rint, mask, M!bus>>
  PROVE  MshcInv'
<1>0. UNCHANGED <<cmd, data, left, fifo, idmac, busy, hung, bad>>
  BY DEF M!bus
<1>1. /\ Waiting /\ Waiting' /\ worker = 0
      /\ required'["port"] = required["port"] \ portEvents
      /\ required' \in [{"port", "stop"} -> SUBSET EventSet]
  BY DEF MshcInv, MshcTypeOK, OwnerInv, Waiting
<1>2. MshcTypeOK'
  BY <1>0, <1>1 DEF MshcInv, MshcTypeOK
<1>3. OwnerInv' /\ IdleInv' /\ WorkerInv'
  BY <1>1 DEF MshcInv, OwnerInv, IdleInv, WorkerInv
<1>4. WireInv'
  BY <1>0, <1>1 DEF MshcInv, WireInv, HasData, Pio, PacedBit, M!IsData
<1>5. currentErrors' = {} => currentErrors = {} /\ portEvents \cap ErrorSet = {}
  OBVIOUS
<1>6. MshcPhaseInv'
  <2>1. /\ M!Awaited(req) \subseteq EventSet
        /\ "RW_END" \in EventSet /\ (MPaced \in EventSet)
    BY MshcRequestFacts DEF MshcInv, M!Awaited, M!Paced, MPaced, EventSet
  <2>2. Pio /\ remaining > 0 /\ currentErrors' = {} => MPaced \in required'["port"]
    <3>1. Pio /\ remaining > 0 /\ currentErrors' = {} => MPaced \in required["port"]
      BY <1>1, <1>5 DEF MshcInv, MshcPhaseInv
    <3>2. ASSUME Pio, remaining > 0, currentErrors' = {}, MPaced \in portEvents PROVE FALSE
      <4>1. "RESPONSE" \notin required'["port"]
        BY <1>1, <3>2 DEF MshcInv, PlaceInv
      <4>2. required["port"] \subseteq {"RESPONSE", MPaced}
        BY <1>1, <3>2 DEF MshcInv, MshcPhaseInv, M!Awaited, MPaced, Pio
      <4> QED BY <1>1, <3>2, <4>1, <4>2
    <3> QED BY <1>1, <3>1, <3>2
  <2>3. type # "StartTransfer" =>
          /\ required'["port"] \subseteq M!Awaited(req)
          /\ currentErrors' = {} => M!Awaited(req) \subseteq required'["port"] \cup currentEvents'
          /\ status["port"] = "SUCCESS" /\ (HasData => remaining = req.chunks)
    BY <1>1, <1>5, <2>1 DEF MshcInv, MshcPhaseInv
  <2>4. type = "StartTransfer" =>
         /\ Pio
         /\ \/ remaining > 0 /\ status["port"] = "MORE_PROCESSING" /\ required'["port"] \subseteq {MPaced}
            \/ /\ remaining = 0 /\ status["port"] = "SUCCESS" /\ required'["port"] \subseteq {"RW_END"}
               /\ currentErrors' = {} => "RW_END" \in required'["port"] \cup currentEvents'
    BY <1>1, <1>5, <2>1 DEF MshcInv, MshcPhaseInv
  <2>5. type = "CommandNoTransfer" <=> ~HasData
    BY <1>1 DEF MshcInv, MshcPhaseInv
  <2> QED BY <1>0, <2>2, <2>3, <2>4, <2>5 DEF MshcPhaseInv, HasData, Pio, MPaced, MshcDone, M!IsData
<1>7. TruthInv'
  <2>1. SomeError => SomeError'
    BY <1>0 DEF SomeError
  <2>2. /\ Came("RW_END", "DTO")' => Came("RW_END", "DTO")
        /\ Came("RESPONSE", "CMD")' => Came("RESPONSE", "CMD")
    BY <1>0, <1>5 DEF Came
  <2> QED BY <1>0, <1>1, <2>1, <2>2 DEF MshcInv, TruthInv, MshcDone, HasData, Pio, M!IsData
<1>8. PlaceInv'
  <2>1. required'["port"] \cap currentEvents' = {}
    BY <1>1 DEF MshcInv, MshcTypeOK, PlaceInv
  <2>2. /\ cmd # "None" => "RESPONSE" \in required'["port"] /\ "CMD" \notin rint
        /\ "CMD" \in rint => "RESPONSE" \in required'["port"]
    BY <1>1 DEF MshcInv, PlaceInv
  <2>3. /\ cmd # "None" \/ data # "none" => "DTO" \notin rint /\ "RW_END" \notin currentEvents'
        /\ "DTO" \in rint => "RW_END" \notin currentEvents'
    BY <1>1 DEF MshcInv, PlaceInv
  <2>4. data # "none" \/ fifo > 0 \/ PacedBit \in rint =>
          ("RESPONSE" \in required'["port"] => "CMD" \in rint)
    BY <1>1 DEF MshcInv, PlaceInv
  <2> QED BY <1>0, <2>1, <2>2, <2>3, <2>4 DEF PlaceInv, Pio, PacedBit, MPaced
<1>9. FifoInv'
  BY <1>0, <1>1 DEF MshcInv, FifoInv, Pio, PacedBit, MPaced
<1> QED BY <1>2, <1>3, <1>4, <1>6, <1>7, <1>8, <1>9 DEF MshcInv

LEMMA PortDpcTakes ==
  ASSUME MshcInv, M!PortDpc, port = "wait", required["port"] # {}
  PROVE  M!TakeEvents("port", portEvents \cap EventSet, portEvents \cap ErrorSet)
<1>1. portEvents # {} /\ portEvents \subseteq EventSet \cup ErrorSet
  BY DEF M!PortDpc, MshcInv, MshcTypeOK
<1>2. M!MshcRequestDpc("port", portEvents \cap EventSet, portEvents \cap ErrorSet)
  BY AllEvents DEF M!PortDpc
<1> QED BY <1>1, <1>2 DEF M!MshcRequestDpc

LEMMA MshcPortDpcKeeps ==
  ASSUME MshcInv, M!PortDpc
  PROVE  MshcInv' /\ Goes
<1>0. /\ portEvents' = {}
      /\ UNCHANGED <<req, type, remaining, localDpc, stop, rint, mask, M!bus>>
      /\ UNCHANGED <<cmd, data, left, fifo, idmac, busy, hung, bad>>
  BY DEF M!PortDpc, M!regs, M!bus
<1>1. CASE ~(port = "wait" /\ required["port"] # {})
  <2>1. UNCHANGED <<port, outstanding, required, status, currentEvents, currentErrors, localPending, worker, fault>>
    <3>1. CASE port \in {"wait", "transfer"}
      <4>1. required["port"] = {}
        BY <1>1, <3>1 DEF MshcInv, OwnerInv
      <4> QED BY <3>1, <4>1 DEF M!PortDpc, M!MshcRequestDpc, M!requests, M!current
    <3>2. CASE port \notin {"wait", "transfer"}
      BY <3>2 DEF M!PortDpc, M!requests, M!current
    <3> QED BY <3>1, <3>2
  <2>2. ~Waiting \/ required["port"] = {}
    BY <1>1 DEF Waiting, MshcInv, OwnerInv
  <2> QED BY <1>0, <2>1, <2>2, DpcDropsKeeps DEF Goes
<1>2. CASE port = "wait" /\ required["port"] # {}
  <2> DEFINE ev == portEvents \cap EventSet
             er == currentErrors \cup (portEvents \cap ErrorSet)
             r  == [required EXCEPT !["port"] = @ \ ev]
  <2>1. M!TakeEvents("port", ev, portEvents \cap ErrorSet)
    BY <1>2, PortDpcTakes
  <2>2. outstanding = "port" /\ ~localPending /\ worker = 0 /\ stop = "none"
    BY <1>2 DEF MshcInv, MshcTypeOK, OwnerInv
  <2>3. /\ r \in [Named -> SUBSET EventSet] /\ r["port"] = required["port"] \ ev
        /\ [r EXCEPT !["port"] = {}] \in [Named -> SUBSET EventSet] /\ [r EXCEPT !["port"] = {}]["port"] = {}
    BY DEF MshcInv, MshcTypeOK, Named
  <2>4. currentEvents \cup ev \subseteq EventSet /\ er \subseteq ErrorSet
    BY DEF MshcInv, MshcTypeOK
  <2>5. status["port"] \in {"SUCCESS", "MORE_PROCESSING"}
    BY <1>2 DEF MshcInv, MshcPhaseInv, Waiting
  <2>6. \/ /\ currentEvents' = {} /\ currentErrors' = {}
           /\ M!MshcCompleteRequest("port", [r EXCEPT !["port"] = {}], "Failed", "wait", "port")
        \/ /\ er = {} /\ r["port"] = {} /\ currentEvents' = currentEvents \cup ev /\ currentErrors' = er
           /\ M!MshcCompleteRequest("port", r, status["port"], "wait", "port")
        \/ /\ er = {} => r["port"] # {}
           /\ currentEvents' = currentEvents \cup ev /\ currentErrors' = er /\ required' = r
           /\ UNCHANGED <<port, outstanding, status, localPending, worker, fault>>
    BY <1>2, <2>1, <2>2, <2>5 DEF M!TakeEvents, M!None
  <2> HIDE DEF ev, er, r
  <2>7. CASE /\ currentEvents' = {} /\ currentErrors' = {}
             /\ M!MshcCompleteRequest("port", [r EXCEPT !["port"] = {}], "Failed", "wait", "port")
    <3>0. MshcTypeOK /\ "port" \in Named /\ "Failed" \in Statuses /\ (localPending \/ "wait" = "wait")
      BY DEF MshcInv, Named, Statuses
    <3>1. Finished("port", "Failed", "wait") /\ worker' = 0 /\ required' = [r EXCEPT !["port"] = {}]
      BY <2>2, <2>3, <2>7, <3>0, MshcCompleteFacts
    <3>2. port' = "failed" /\ outstanding' = "port" /\ localPending' = FALSE /\ fault' = "None"
          /\ status' \in [Named -> Statuses]
      BY <2>2, <3>1 DEF Finished, M!AfterCompletion
    <3>3. MshcTypeOK'
      <4>1. required' \in [{"port", "stop"} -> SUBSET EventSet] /\ status' \in [{"port", "stop"} -> Statuses]
        BY <2>3, <3>1, <3>2 DEF Named
      <4>2. port' \in {"idle", "wait", "transfer", "failed", "resetDat"} /\ outstanding' \in {"port", "stop", "None"}
            /\ localPending' \in BOOLEAN /\ worker' \in {0, 1}
        BY <3>1, <3>2
      <4>3. currentEvents' \subseteq EventSet /\ currentErrors' \subseteq ErrorSet
        BY <2>7
      <4> QED BY <1>0, <3>2, <4>1, <4>2, <4>3 DEF MshcInv, MshcTypeOK, Statuses
    <3> QED BY <1>0, <1>2, <2>2, <2>3, <3>1, <3>2, <3>3, FailedKeeps DEF Goes
  <2>8. CASE /\ er = {} /\ r["port"] = {} /\ currentEvents' = currentEvents \cup ev /\ currentErrors' = er
             /\ M!MshcCompleteRequest("port", r, status["port"], "wait", "port")
    <3>0. /\ MshcTypeOK /\ "port" \in Named /\ status["port"] \in Statuses /\ (localPending \/ "wait" = "wait")
          /\ M!AfterCompletion("Failed") \in {"failed", "transfer", "idle"}
          /\ M!AfterCompletion(status["port"]) \in {"failed", "transfer", "idle"}
      BY <2>5 DEF MshcInv, Named, Statuses, M!AfterCompletion
    <3>1. /\ required' = r /\ worker' \in {0, 1} /\ outstanding' \in {"port", "None"} /\ localPending' \in BOOLEAN
          /\ fault' = "None" /\ port' \in {"wait", "failed", "transfer", "idle"} /\ status' \in [Named -> Statuses]
      <4>1. /\ required' = r
            /\ \/ /\ worker' = 1 /\ outstanding' = "port" /\ port' = "wait" /\ status' \in [Named -> Statuses]
                  /\ UNCHANGED <<localPending, fault>>
               \/ Finished("port", status["port"], "wait") /\ worker' = 0
        BY <2>2, <2>3, <2>8, <3>0, MshcCompleteFacts
      <4>2. CASE Finished("port", status["port"], "wait") /\ worker' = 0
        BY <2>2, <2>5, <3>0, <4>1, <4>2 DEF Finished
      <4>3. CASE worker' = 1 /\ outstanding' = "port" /\ port' = "wait" /\ status' \in [Named -> Statuses]
                 /\ UNCHANGED <<localPending, fault>>
        BY <2>2, <4>1, <4>3 DEF MshcInv, MshcTypeOK
      <4> QED BY <4>1, <4>2, <4>3
    <3>2. MshcTypeOK'
      BY <1>0, <2>3, <2>4, <2>8, <3>1 DEF MshcInv, MshcTypeOK, Named, Statuses
    <3>3. currentErrors = {} /\ portEvents \cap ErrorSet = {} /\ required["port"] \subseteq portEvents
      BY <2>3, <2>8 DEF er, ev
    <3> QED BY <1>0, <1>2, <2>8, <3>1, <3>2, <3>3, DpcSucceedsKeeps DEF ev
  <2>9. CASE /\ er = {} => r["port"] # {}
             /\ currentEvents' = currentEvents \cup ev /\ currentErrors' = er /\ required' = r
             /\ UNCHANGED <<port, outstanding, status, localPending, worker, fault>>
    <3>1. /\ currentErrors' = currentErrors \cup (portEvents \cap ErrorSet)
          /\ required' = [required EXCEPT !["port"] = @ \ (portEvents \cap EventSet)]
      BY <2>9 DEF er, r, ev
    <3> QED BY <1>0, <1>2, <2>9, <3>1, DpcWaitsKeeps DEF ev, Goes
  <2> QED BY <2>6, <2>7, <2>8, <2>9
<1> QED BY <1>1, <1>2

-----------------------------------------------------------------------------
(* The DPC of a Stop command, and the work item.                           *)

\* A late LocalRequestDpc finds that sdport's request has had its events.
LEMMA MshcLocalDpcKeeps ==
  ASSUME MshcInv, M!MshcLocalRequestDpc
  PROVE  MshcInv' /\ Goes
<1>0. /\ localDpc /\ localDpc' = FALSE
      /\ UNCHANGED <<req, type, portEvents, remaining, stop, rint, mask>>
      /\ UNCHANGED <<cmd, data, left, fifo, idmac, busy, hung, bad>>
  BY DEF M!MshcLocalRequestDpc, M!regs, M!bus
<1>01. /\ localDpc' \in BOOLEAN
       /\ UNCHANGED <<req, type, portEvents, remaining, stop, rint, mask>>
       /\ UNCHANGED <<cmd, data, left, fifo, idmac, busy, hung, bad>>
  BY <1>0
<1> DEFINE r  == [required EXCEPT ![outstanding] = @ \ currentEvents]
           r0 == [r EXCEPT ![outstanding] = {}]
           s  == IF status[outstanding] = "MORE_PROCESSING" THEN status[outstanding] ELSE "SUCCESS"
<1>1. \/ UNCHANGED <<port, outstanding, required, status, currentEvents, currentErrors, localPending, worker, fault>>
      \/ outstanding # "None" /\ required[outstanding] # {} /\ M!TakeEvents(outstanding, currentEvents, currentErrors)
  BY DEF M!MshcLocalRequestDpc, M!MshcRequestDpc, M!requests, M!current, M!None
<1>2. CASE UNCHANGED <<port, outstanding, required, status, currentEvents, currentErrors, localPending, worker, fault>>
  <2>1. MshcTypeOK' /\ OwnerInv' /\ IdleInv'
    <3>1. MshcTypeOK'
      BY <1>01, <1>2 DEF MshcInv, MshcTypeOK
    <3>2. OwnerInv' /\ IdleInv'
      BY <1>0, <1>2 DEF MshcInv, OwnerInv, IdleInv
    <3> QED BY <3>1, <3>2
  <2>2. WireInv' /\ MshcPhaseInv' /\ WorkerInv'
    BY <1>0, <1>2 DEF MshcInv, WireInv, MshcPhaseInv, WorkerInv, Waiting, HasData, Pio, PacedBit, MPaced, MshcDone, M!IsData
  <2>3. TruthInv' /\ PlaceInv' /\ FifoInv'
    BY <1>0, <1>2 DEF MshcInv, TruthInv, PlaceInv, FifoInv, SomeError, Came, MshcDone, Waiting, HasData, Pio, PacedBit,
      MPaced, M!IsData
  <2> QED BY <1>2, <2>1, <2>2, <2>3 DEF MshcInv, Goes
<1>3. CASE outstanding # "None" /\ required[outstanding] # {} /\ M!TakeEvents(outstanding, currentEvents, currentErrors)
  <2>0. /\ outstanding \in Named
        /\ r \in [Named -> SUBSET EventSet] /\ r[outstanding] = required[outstanding] \ currentEvents
        /\ r0 \in [Named -> SUBSET EventSet] /\ r0[outstanding] = {}
        /\ s \in Statuses
    BY <1>3 DEF MshcInv, MshcTypeOK, Named, Statuses
  <2>1. \/ /\ currentErrors # {} /\ currentEvents' = {} /\ currentErrors' = {}
           /\ M!MshcCompleteRequest(outstanding, r0, "Failed", port, outstanding)
        \/ /\ currentErrors = {} /\ r[outstanding] = {} /\ UNCHANGED <<currentEvents, currentErrors>>
           /\ M!MshcCompleteRequest(outstanding, r, s, port, outstanding)
        \/ /\ required' = r /\ UNCHANGED <<currentEvents, currentErrors>>
           /\ UNCHANGED <<port, outstanding, status, localPending, worker, fault>>
    <3>1. /\ currentEvents \cup currentEvents = currentEvents /\ currentErrors \cup currentErrors = currentErrors
          /\ outstanding # M!None
      BY <1>3 DEF M!None
    <3> QED BY <1>3, <3>1 DEF M!TakeEvents
  <2> HIDE DEF r, r0, s
  <2>2. CASE outstanding = "port"
    <3>1. port = "wait" /\ Waiting /\ ~localPending /\ worker = 0 /\ stop = "none"
      BY <1>0, <1>3, <2>2 DEF MshcInv, MshcTypeOK, OwnerInv, Waiting
    <3>2. r = required
      <4>1. required["port"] \ currentEvents = required["port"]
        BY <3>1 DEF MshcInv, PlaceInv
      <4> QED BY <2>2, <4>1 DEF r, MshcInv, MshcTypeOK
    <3>3. CASE /\ currentErrors # {} /\ currentEvents' = {} /\ currentErrors' = {}
               /\ M!MshcCompleteRequest(outstanding, r0, "Failed", port, outstanding)
      <4>0. MshcTypeOK /\ "Failed" \in Statuses /\ (localPending \/ "wait" = "wait")
        BY DEF MshcInv, Statuses
      <4>1. Finished("port", "Failed", "wait") /\ worker' = 0 /\ required' = r0
        BY <2>0, <2>2, <3>1, <3>3, <4>0, MshcCompleteFacts
      <4>2. port' = "failed" /\ outstanding' = "port" /\ localPending' = FALSE /\ fault' = "None"
            /\ status' \in [Named -> Statuses]
        BY <3>1, <4>1 DEF Finished, M!AfterCompletion
      <4>3. MshcTypeOK'
        <5>1. required' \in [{"port", "stop"} -> SUBSET EventSet] /\ status' \in [{"port", "stop"} -> Statuses]
          BY <2>0, <4>1, <4>2 DEF Named
        <5> QED BY <1>0, <3>1, <3>3, <4>1, <4>2, <5>1 DEF MshcInv, MshcTypeOK, Statuses
      <4> QED BY <1>0, <2>0, <2>2, <3>1, <4>1, <4>2, <4>3, FailedKeeps DEF Goes
    <3>4. CASE /\ required' = r /\ UNCHANGED <<currentEvents, currentErrors>>
               /\ UNCHANGED <<port, outstanding, status, localPending, worker, fault>>
      BY <1>2, <3>2, <3>4
    <3> QED BY <1>3, <2>1, <2>2, <3>2, <3>3, <3>4
  <2>3. CASE outstanding = "stop"
    <3>1. port = "resetDat" /\ localPending /\ stop = "wait" /\ worker = 0
      BY <1>0, <1>3, <2>3 DEF MshcInv, MshcTypeOK, OwnerInv
    <3>2. /\ MshcTypeOK /\ "Failed" \in Statuses /\ (localPending \/ port = "wait")
      BY <3>1 DEF MshcInv, Statuses
    <3>3. /\ port' = "resetDat" /\ outstanding' \in {"stop", "None"} /\ localPending' \in BOOLEAN
          /\ required' \in [{"port", "stop"} -> SUBSET EventSet] /\ status' \in [{"port", "stop"} -> Statuses]
          /\ worker' \in {0, 1} /\ fault' = "None"
          /\ currentEvents' \in {currentEvents, {}} /\ currentErrors' \in {currentErrors, {}}
          /\ worker' = 1 => localPending' /\ outstanding' = "stop" /\ required'["stop"] = {}
      <4>1. CASE /\ currentErrors # {} /\ currentEvents' = {} /\ currentErrors' = {}
                 /\ M!MshcCompleteRequest(outstanding, r0, "Failed", port, outstanding)
        <5>1. Finished("stop", "Failed", port) /\ worker' = 0 /\ required' = r0
          BY <2>0, <2>3, <3>1, <3>2, <4>1, MshcCompleteFacts
        <5>2. /\ port' = "resetDat" /\ outstanding' = "stop" /\ localPending' = FALSE /\ fault' = "None"
              /\ status' \in [Named -> Statuses]
          BY <3>1, <5>1 DEF Finished
        <5>3. /\ required' \in [{"port", "stop"} -> SUBSET EventSet] /\ status' \in [{"port", "stop"} -> Statuses]
          BY <2>0, <5>1, <5>2 DEF Named
        <5>4. localPending' \in BOOLEAN
          BY <5>2
        <5>5. worker' = 0
          BY <5>1
        <5>6. worker' # 1 /\ worker' \in {0, 1}
          BY <5>5
        <5> QED BY <4>1, <5>2, <5>3, <5>4, <5>6
      <4>2. CASE /\ currentErrors = {} /\ r[outstanding] = {} /\ UNCHANGED <<currentEvents, currentErrors>>
                 /\ M!MshcCompleteRequest(outstanding, r, s, port, outstanding)
        <5>1. /\ required' = r
              /\ \/ /\ worker' = 1 /\ outstanding' = "stop" /\ port' = port /\ status' \in [Named -> Statuses]
                    /\ UNCHANGED <<localPending, fault>>
                 \/ Finished("stop", s, port) /\ worker' = 0
          BY <2>0, <2>3, <3>1, <3>2, <4>2, MshcCompleteFacts
        <5>2. CASE /\ worker' = 1 /\ outstanding' = "stop" /\ port' = port /\ status' \in [Named -> Statuses]
                   /\ UNCHANGED <<localPending, fault>>
          BY <2>0, <2>3, <3>1, <4>2, <5>1, <5>2 DEF Named, MshcInv, MshcTypeOK
        <5>3. CASE Finished("stop", s, port) /\ worker' = 0
          <6>1. /\ port' = "resetDat" /\ outstanding' \in {"stop", "None"} /\ localPending' = FALSE /\ fault' = "None"
                /\ status' \in [Named -> Statuses]
            BY <3>1, <5>3 DEF Finished
          <6>2. /\ required' \in [{"port", "stop"} -> SUBSET EventSet] /\ status' \in [{"port", "stop"} -> Statuses]
            BY <2>0, <5>1, <6>1 DEF Named
          <6>3. localPending' \in BOOLEAN
            BY <6>1
          <6>4. worker' = 0
            BY <5>3
          <6>5. worker' # 1 /\ worker' \in {0, 1}
            BY <6>4
          <6> QED BY <4>2, <6>1, <6>2, <6>3, <6>5
        <5> QED BY <5>1, <5>2, <5>3
      <4>3. CASE /\ required' = r /\ UNCHANGED <<currentEvents, currentErrors>>
                 /\ UNCHANGED <<port, outstanding, status, localPending, worker, fault>>
        <5>1. status \in [Named -> Statuses] /\ fault = "None" /\ localPending \in BOOLEAN
          BY DEF MshcInv, MshcTypeOK, Named, Statuses
        <5> QED BY <2>0, <2>3, <3>1, <4>3, <5>1 DEF Named
      <4> QED BY <2>1, <4>1, <4>2, <4>3
    <3>4. MshcTypeOK'
      <4>1. currentEvents' \subseteq EventSet /\ currentErrors' \subseteq ErrorSet
        BY <3>3 DEF MshcInv, MshcTypeOK
      <4> QED BY <1>01, <3>1, <3>3, <4>1 DEF MshcInv, MshcTypeOK, Statuses
    <3>5. OwnerInv' /\ IdleInv' /\ ~Waiting'
      BY <1>0, <3>1, <3>3 DEF MshcInv, MshcTypeOK, OwnerInv, IdleInv, Waiting
    <3> QED BY <3>1, <3>3, <3>4, <3>5, MshcNotWaiting DEF MshcInv, Goes
  <2> QED BY <2>0, <2>2, <2>3 DEF Named
<1> QED BY <1>1, <1>2, <1>3

LEMMA MshcWorkerKeeps ==
  ASSUME MshcInv, M!MshcCompleteRequestBusyWorker
  PROVE  MshcInv' /\ Goes
<1>0. /\ worker = 1 /\ worker' = 0
      /\ UNCHANGED <<req, type, portEvents, required, currentEvents, currentErrors, remaining, localDpc, stop, rint, mask>>
      /\ UNCHANGED <<cmd, data, left, fifo, idmac, busy, hung, bad>>
  <2>1. worker > 0 /\ worker' = worker - 1 /\ worker \in {0, 1}
    BY DEF M!MshcCompleteRequestBusyWorker, MshcInv, MshcTypeOK
  <2>2. worker = 1 /\ worker' = 0
    BY <2>1
  <2> QED BY <2>2 DEF M!MshcCompleteRequestBusyWorker, M!current, M!regs, M!bus
<1>1. /\ outstanding \in Named /\ required[outstanding] = {}
      /\ \/ outstanding = "port" /\ port = "wait" /\ stop = "none" /\ ~localPending
         \/ outstanding = "stop" /\ port = "resetDat" /\ stop = "wait" /\ localPending
  BY <1>0 DEF MshcInv, MshcTypeOK, OwnerInv, Named
<1> DEFINE s == IF busy THEN "Failed" ELSE "SUCCESS"
<1>2. M!FinishRequest(outstanding, s, port, outstanding)
  BY <1>1 DEF M!MshcCompleteRequestBusyWorker, M!None, Named
<1>3. Finished(outstanding, s, port)
  <2>1. MshcTypeOK /\ s \in Statuses /\ (localPending \/ port = "wait")
    BY <1>1 DEF MshcInv, Statuses
  <2> QED BY <1>1, <1>2, <2>1, FinishFacts
<1>4. MshcTypeOK'
  <2>1. /\ port' \in {"idle", "transfer", "failed", "resetDat"} /\ outstanding' \in {"port", "stop", "None"}
        /\ status' \in [{"port", "stop"} -> Statuses] /\ localPending' = FALSE /\ fault' = "None"
    BY <1>1, <1>3 DEF Finished, M!AfterCompletion, Named
  <2>2. localPending' \in BOOLEAN
    BY <2>1
  <2> QED BY <1>0, <2>1, <2>2 DEF MshcInv, MshcTypeOK, Statuses
<1>5. CASE outstanding = "stop"
  <2>1. /\ port' = "resetDat" /\ outstanding' \in {"stop", "None"} /\ localPending' = FALSE
    BY <1>1, <1>3, <1>5 DEF Finished
  <2>2. OwnerInv' /\ IdleInv' /\ ~Waiting'
    BY <1>0, <1>1, <1>5, <2>1 DEF OwnerInv, IdleInv, Waiting
  <2> QED BY <1>1, <1>4, <1>5, <2>1, <2>2, MshcNotWaiting DEF MshcInv, Goes
<1>6. CASE outstanding = "port"
  <2>1. /\ port = "wait" /\ stop = "none" /\ ~localPending /\ Waiting /\ required["port"] = {}
    BY <1>1, <1>6 DEF Waiting
  <2>2. PICK t \in {s, "Failed"} : port' = M!AfterCompletion(t)
    BY <1>3, <1>6, <2>1 DEF Finished
  <2>3. outstanding' = (IF s = "Failed" THEN "port" ELSE "None") /\ localPending' = FALSE
    BY <1>3, <1>6 DEF Finished
  <2>4. /\ MshcDone /\ currentErrors = {} /\ (HasData => "RW_END" \in currentEvents)
        /\ type = "CommandWithTransfer" => ~Pio
        /\ Pio => remaining = 0
        /\ type = "CommandNoTransfer" <=> ~HasData
    BY <1>0, <2>1 DEF MshcInv, WorkerInv, MshcPhaseInv
  <2>5. CASE port' = "failed"
    BY <1>0, <1>4, <2>1, <2>3, <2>5, FailedKeeps DEF Goes
  <2>6. CASE port' # "failed"
    <3>1. t = "SUCCESS" /\ s = "SUCCESS" /\ ~busy /\ outstanding' = "None"
      BY <2>2, <2>3, <2>6 DEF M!AfterCompletion
    <3>2. CASE type # "CommandWithTransfer"
      <4>1. port' = "idle"
        BY <1>0, <2>2, <3>1, <3>2 DEF M!AfterCompletion
      <4>2. fifo = 0 /\ rint \subseteq {"TI_RI", "HTO"}
        BY <2>1, <2>4, DoneRests
      <4>3. MshcDone' /\ ~busy'
        BY <1>0, <2>4, <3>1 DEF MshcDone
      <4>4. HasData => Pio /\ remaining = 0
        BY <2>1, <2>4, <3>2 DEF MshcInv, MshcTypeOK, MshcPhaseInv
      <4>5. Goes
        BY <2>1, <2>4, <3>1, <4>1, <4>4 DEF Goes
      <4> QED BY <1>0, <1>4, <2>1, <2>3, <3>1, <4>1, <4>2, <4>3, <4>5, IdleKeeps
    <3>3. CASE type = "CommandWithTransfer"
      <4>1. port' = "transfer" /\ HasData /\ ~Pio
        BY <1>0, <2>2, <2>4, <3>1, <3>3 DEF M!AfterCompletion
      <4>2. OwnerInv' /\ IdleInv' /\ WorkerInv'
        BY <1>0, <2>1, <2>3, <3>1, <4>1 DEF OwnerInv, IdleInv, WorkerInv
      <4>3. WireInv'
        BY <1>0, <2>1 DEF MshcInv, WireInv, HasData, Pio, PacedBit, M!IsData
      <4>4. MshcPhaseInv'
        BY <1>0, <2>4, <3>1, <3>3, <4>1 DEF MshcPhaseInv, MshcDone, HasData, Pio, MPaced, M!IsData
      <4>5. TruthInv'
        BY <1>0, <2>1 DEF MshcInv, TruthInv, SomeError, Came, MshcDone, HasData, Pio, M!IsData
      <4>6. PlaceInv' /\ FifoInv'
        BY <1>0, <2>1, <4>1 DEF MshcInv, PlaceInv, FifoInv, Pio, PacedBit, MPaced
      <4> QED BY <1>4, <2>1, <4>1, <4>2, <4>3, <4>4, <4>5, <4>6 DEF MshcInv, Goes
    <3> QED BY <3>2, <3>3
  <2> QED BY <2>5, <2>6
<1> QED BY <1>1, <1>5, <1>6 DEF Named

-----------------------------------------------------------------------------
(* Issuing requests.                                                       *)

LEMMA MshcIssueKeeps ==
  ASSUME MshcInv, NEW r \in MshcRequests, M!MshcSlotIssueRequest(r)
  PROVE  MshcInv'
<1>1. /\ port = "idle" /\ portEvents = {} /\ req' = r /\ port' = "wait" /\ left' = r.chunks
      /\ type' = (IF M!IsData(r) THEN "CommandWithTransfer" ELSE "CommandNoTransfer")
      /\ status' = [status EXCEPT !["port"] = "SUCCESS"]
      /\ outstanding' = "port" /\ required' = [required EXCEPT !["port"] = M!Awaited(r)]
      /\ currentEvents' = {} /\ currentErrors' = {}
      /\ remaining' = (IF M!IsData(r) THEN r.chunks ELSE remaining)
      /\ mask' = (IF r.method = "Pio" THEN mask \cup M!DataRequests ELSE mask)
      /\ cmd' = "port" /\ bad' = FALSE
      /\ UNCHANGED <<portEvents, localPending, localDpc, stop, worker, rint, data, fifo, idmac, busy, hung, fault>>
  BY DEF M!MshcSlotIssueRequest, M!MshcSendCommand, M!local
<1>2. /\ r.method \in {"Undefined", "Pio", "SgDma"} /\ r.write \in BOOLEAN /\ r.r1b \in BOOLEAN /\ r.chunks \in Nat
      /\ r.chunks = 0 <=> ~M!IsData(r)
      /\ r.r1b => ~M!IsData(r)
      /\ r.method = "Pio" => r.chunks <= IF r.write THEN FifoChunks ELSE 1
  BY MshcAssumption DEF M!IsData
<1>3. M!Awaited(r) \subseteq EventSet /\ "RESPONSE" \in M!Awaited(r)
  BY <1>2 DEF M!Awaited, M!Paced, EventSet
<1>4. /\ required'["port"] = M!Awaited(r) /\ required' \in [{"port", "stop"} -> SUBSET EventSet]
      /\ status'["port"] = "SUCCESS" /\ status' \in [{"port", "stop"} -> Statuses]
  BY <1>1, <1>3 DEF MshcInv, MshcTypeOK, Statuses
<1>5. /\ stop = "none" /\ ~localPending /\ worker = 0 /\ data = "none" /\ ~busy /\ fifo = 0
      /\ rint \subseteq {"TI_RI", "HTO"}
  BY <1>1 DEF MshcInv, MshcTypeOK, OwnerInv, IdleInv
<1>6. MshcTypeOK'
  <2>1. mask' \subseteq M!Bits
    BY <1>1 DEF MshcInv, MshcTypeOK, M!Bits
  <2>2. remaining' \in Int /\ left' \in Nat
    <3>1. remaining \in Int /\ r.chunks \in Int
      BY <1>2 DEF MshcInv, MshcTypeOK
    <3> QED BY <1>1, <1>2, <3>1
  <2>3. bad' \in BOOLEAN
    BY <1>1
  <2> QED BY <1>1, <1>4, <2>1, <2>2, <2>3 DEF MshcInv, MshcTypeOK, Statuses
<1>7. OwnerInv' /\ IdleInv' /\ Waiting'
  BY <1>1, <1>5 DEF OwnerInv, IdleInv, Waiting
<1>8. WireInv'
  BY <1>1, <1>2, <1>5 DEF WireInv, HasData, Pio, PacedBit, M!DataRequests
<1>9. MshcPhaseInv' /\ WorkerInv'
  <2>1. Pio' => MPaced' \in required'["port"] /\ HasData'
    BY <1>1, <1>4 DEF Pio, MPaced, M!Awaited, HasData, M!IsData
  <2> QED BY <1>1, <1>2, <1>4, <1>5, <2>1 DEF MshcPhaseInv, WorkerInv, HasData
<1>10. TruthInv' /\ PlaceInv'
  <2>1. PacedBit' \notin rint'
    BY <1>1, <1>5 DEF PacedBit
  <2> QED BY <1>1, <1>3, <1>4, <1>5, <2>1 DEF TruthInv, PlaceInv, Came, HasData, Pio, ErrorBits
<1>11. FifoInv'
  <2>1. ASSUME Pio' PROVE remaining' = r.chunks /\ left' = r.chunks /\ fifo' = 0 /\ PacedBit' \notin rint'
    BY <1>1, <1>5, <2>1 DEF Pio, PacedBit, M!IsData
  <2> QED BY <1>1, <1>2, <2>1 DEF FifoInv, Pio
<1> QED BY <1>6, <1>7, <1>8, <1>9, <1>10, <1>11 DEF MshcInv

LEMMA MshcDmaKeeps ==
  ASSUME MshcInv, M!MshcStartDmaTransfer
  PROVE  /\ MshcInv' /\ port' \in {"idle", "failed"} /\ type' = "StartTransfer" /\ MshcDone /\ ~busy
         /\ UNCHANGED <<req, cmd, data, left, busy, bad>>
<1>0. /\ port = "transfer" /\ req.method = "SgDma" /\ type' = "StartTransfer" /\ remaining' = 0
      /\ M!MshcCompleteRequest("port", required, "SUCCESS", "wait", "port")
      /\ UNCHANGED <<req, portEvents, currentEvents, currentErrors, localDpc, stop, rint, mask>>
      /\ UNCHANGED <<cmd, data, left, fifo, idmac, busy, hung, bad>>
  BY DEF M!MshcStartDmaTransfer, M!current, M!regs, M!bus
<1>1. /\ Waiting /\ ~Pio /\ worker = 0 /\ stop = "none" /\ ~localPending /\ required["port"] = {}
      /\ MshcDone /\ ~busy /\ "RW_END" \in currentEvents
  BY <1>0 DEF MshcInv, MshcTypeOK, OwnerInv, MshcPhaseInv, Waiting, Pio
<1>2. Finished("port", "SUCCESS", "wait") /\ worker' = 0 /\ required' = required
  <2>1. /\ MshcTypeOK /\ "port" \in Named /\ "SUCCESS" \in Statuses /\ required \in [Named -> SUBSET EventSet]
        /\ (localPending \/ "wait" = "wait")
    BY DEF MshcInv, MshcTypeOK, Named, Statuses
  <2> QED BY <1>0, <1>1, <2>1, MshcCompleteFacts
<1>3. /\ port' \in {"idle", "failed"} /\ outstanding' = "None" /\ localPending' = FALSE
      /\ status' \in [{"port", "stop"} -> Statuses] /\ fault' = "None"
  BY <1>0, <1>1, <1>2 DEF Finished, M!AfterCompletion, Named
<1>4. MshcTypeOK'
  <2>1. localPending' \in BOOLEAN
    BY <1>3
  <2> QED BY <1>0, <1>2, <1>3, <2>1 DEF MshcInv, MshcTypeOK, Statuses
<1>5. fifo' = 0 /\ rint' \subseteq {"TI_RI", "HTO"}
  BY <1>0, <1>1, DoneRests
<1>6. MshcDone' /\ ~busy'
  BY <1>0, <1>1 DEF MshcDone
<1>7. MshcInv'
  <2>1. stop' = "none"
    BY <1>0, <1>1
  <2> QED BY <1>2, <1>3, <1>4, <1>5, <1>6, <2>1, FailedKeeps, IdleKeeps
<1> QED BY <1>0, <1>1, <1>3, <1>7

LEMMA MshcPioKeeps ==
  ASSUME MshcInv, M!MshcStartPioTransfer
  PROVE  /\ MshcInv' /\ port' \in {"wait", "idle", "failed"} /\ type' = "StartTransfer" /\ remaining' = remaining - 1
         /\ port' = "idle" => remaining = 1 /\ MshcDone /\ ~busy
         /\ UNCHANGED <<req, cmd, data, left, busy, bad>>
<1> DEFINE n == IF req.write THEN fifo + 1 ELSE IF fifo > 0 THEN fifo - 1 ELSE 0
<1>0. /\ port = "transfer" /\ req.method = "Pio" /\ type' = "StartTransfer" /\ currentEvents' = {}
      /\ fifo' = n
      /\ rint' = (rint \ M!DataRequests) \cup M!DataRequest(n, data, left)
      /\ remaining' = remaining - 1
      /\ UNCHANGED <<req, portEvents, currentErrors, localDpc, stop, cmd, data, left, idmac, busy, hung, bad>>
      /\ mask' \in {mask, mask \cup M!DataRequests}
  BY DEF M!MshcStartPioTransfer
<1>1. /\ Waiting /\ Pio /\ HasData /\ worker = 0 /\ stop = "none" /\ ~localPending /\ required["port"] = {}
      /\ remaining > 0 /\ currentErrors = {} /\ (~req.write => fifo > 0) /\ cmd = "None"
  <2>1. Waiting /\ Pio /\ HasData
    BY <1>0 DEF Waiting, Pio, HasData, M!IsData
  <2>2. worker = 0 /\ stop = "none" /\ required["port"] = {} /\ ~localPending
    BY <1>0 DEF MshcInv, OwnerInv
  <2>3. remaining > 0 /\ currentErrors = {}
    BY <1>0, <2>1 DEF MshcInv, MshcPhaseInv
  <2>4. ~req.write => fifo > 0
    BY <1>0, <2>1, <2>3 DEF MshcInv, FifoInv
  <2>5. cmd = "None"
    BY <2>1, <2>2 DEF MshcInv, PlaceInv
  <2> QED BY <2>1, <2>2, <2>3, <2>4, <2>5
<1>2. /\ fifo \in Nat /\ left \in Nat /\ remaining \in Int /\ req.chunks \in Nat /\ req.write \in BOOLEAN
      /\ left <= req.chunks
      /\ IF req.write THEN fifo + remaining = left ELSE fifo + left = remaining /\ remaining <= 1
  BY <1>1, MshcRequestFacts DEF MshcInv, MshcTypeOK, FifoInv
<1>3. /\ n \in Nat
      /\ IF req.write THEN n = fifo + 1 ELSE fifo = 1 /\ n = 0 /\ left = 0 /\ remaining = 1
  BY <1>1, <1>2
<1>4. /\ M!DataRequest(n, data, left) \subseteq {PacedBit}
      /\ M!DataRequest(n, data, left) # {} => IF req.write THEN data = "active" /\ n < left ELSE n > 0
      /\ M!DataRequest(n, data, left) \subseteq M!DataRequests /\ M!DataRequest(n, data, left) \subseteq M!Bits
  <2>1. MshcTypeOK
    BY DEF MshcInv
  <2> QED BY <1>1, <1>2, <1>3, <2>1, DataRequestFacts
<1> HIDE DEF n
<1>5. /\ rint' \subseteq M!Bits
      /\ "CMD" \notin rint' /\ ("DTO" \in rint' <=> "DTO" \in rint) /\ rint' \cap ErrorBits = rint \cap ErrorBits
      /\ rint' \cap M!DataRequests \subseteq {PacedBit}
      /\ PacedBit \in rint' => IF req.write THEN data = "active" /\ n < left ELSE n > 0
  <2>1. "CMD" \notin rint
    BY <1>1 DEF MshcInv, PlaceInv
  <2>2. /\ PacedBit \in M!DataRequests
        /\ {"CMD", "DTO"} \cap M!DataRequests = {} /\ ErrorBits \cap M!DataRequests = {}
    BY DEF M!DataRequests, ErrorBits, PacedBit
  <2>3. rint \subseteq M!Bits
    BY DEF MshcInv, MshcTypeOK
  <2> QED BY <1>0, <1>4, <2>1, <2>2, <2>3
<1>6. "RW_END" \in currentEvents => ~req.write /\ MshcDone /\ remaining = 1 /\ n = 0
                                    /\ "DTO" \notin rint /\ rint \cap ErrorBits = {}
  <2>1. "RW_END" \in currentEvents => MshcDone
    BY <1>1 DEF MshcInv, TruthInv, Came
  <2>2. "RW_END" \in currentEvents => ~req.write
    BY <1>1, <1>2, <2>1 DEF MshcDone
  <2> QED BY <1>1, <1>3, <2>1, <2>2 DEF MshcInv, TruthInv, PlaceInv, MshcDone
<1>7. CASE remaining = 1 /\ "RW_END" \in currentEvents
  <2>1. M!MshcCompleteRequest("port", required, "SUCCESS", "wait", "port") /\ mask' = mask
    BY <1>2, <1>7 DEF M!MshcStartPioTransfer
  <2>2. ~busy
    BY <1>1, <1>6, <1>7, MshcRequestFacts DEF MshcInv, WireInv
  <2>3. Finished("port", "SUCCESS", "wait") /\ worker' = 0 /\ required' = required
    <3>1. /\ MshcTypeOK /\ "port" \in Named /\ "SUCCESS" \in Statuses /\ required \in [Named -> SUBSET EventSet]
          /\ (localPending \/ "wait" = "wait")
      BY DEF MshcInv, MshcTypeOK, Named, Statuses
    <3> QED BY <1>1, <2>1, <2>2, <3>1, MshcCompleteFacts
  <2>4. /\ port' \in {"idle", "failed"} /\ outstanding' = "None" /\ localPending' = FALSE
        /\ status' \in [{"port", "stop"} -> Statuses] /\ fault' = "None"
    BY <1>0, <1>1, <2>3 DEF Finished, M!AfterCompletion, Named
  <2>5. MshcTypeOK'
    <3>1. localPending' \in BOOLEAN
      BY <2>4
    <3>2. remaining' \in Int /\ fifo' \in Nat
      BY <1>0, <1>2, <1>3
    <3> QED BY <1>0, <1>5, <2>1, <2>3, <2>4, <3>1, <3>2 DEF MshcInv, MshcTypeOK, Statuses
  <2>6. fifo' = 0 /\ rint' \subseteq {"TI_RI", "HTO"}
    <3>1. "DTO" \notin rint' /\ rint' \cap ErrorBits = {} /\ PacedBit \notin rint' /\ fifo' = 0
      BY <1>0, <1>2, <1>3, <1>5, <1>6, <1>7
    <3> QED BY <1>5, <3>1 DEF M!Bits, ErrorBits
  <2>7. MshcDone' /\ ~busy'
    BY <1>0, <1>6, <1>7, <2>2 DEF MshcDone
  <2>8. MshcInv'
    <3>1. stop' = "none"
      BY <1>0, <1>1
    <3> QED BY <2>3, <2>4, <2>5, <2>6, <2>7, <3>1, FailedKeeps, IdleKeeps
  <2> QED BY <1>0, <1>6, <1>7, <2>2, <2>4, <2>8
<1>8. CASE remaining > 1 \/ "RW_END" \notin currentEvents
  <2> DEFINE e == IF remaining > 1 THEN MPaced ELSE "RW_END"
             s == IF remaining > 1 THEN "MORE_PROCESSING" ELSE "SUCCESS"
  <2>1. /\ outstanding' = "port" /\ port' = "wait"
        /\ required' = [required EXCEPT !["port"] = @ \cup {e}]
        /\ status' = [status EXCEPT !["port"] = s]
        /\ UNCHANGED <<localPending, worker, fault>>
    BY <1>8 DEF M!MshcStartPioTransfer, MPaced
  <2>2. /\ required'["port"] = {e} /\ required' \in [{"port", "stop"} -> SUBSET EventSet]
        /\ status'["port"] = s /\ status' \in [{"port", "stop"} -> Statuses]
    <3>1. e \in EventSet /\ s \in Statuses
      BY DEF EventSet, MPaced, M!Paced, Statuses
    <3> QED BY <1>1, <2>1, <3>1 DEF MshcInv, MshcTypeOK, Statuses
  <2>3. MshcTypeOK'
    <3>1. remaining' \in Int /\ fifo' \in Nat
      BY <1>0, <1>2, <1>3
    <3>2. mask' \subseteq M!Bits
      BY <1>0 DEF MshcInv, MshcTypeOK, M!Bits
    <3> QED BY <1>0, <1>5, <2>1, <2>2, <3>1, <3>2 DEF MshcInv, MshcTypeOK, Statuses
  <2>4. OwnerInv' /\ IdleInv' /\ Waiting' /\ WorkerInv'
    BY <1>0, <1>1, <2>1 DEF OwnerInv, IdleInv, Waiting, WorkerInv
  <2>5. WireInv'
    BY <1>0, <1>1, <1>5, <2>1 DEF MshcInv, WireInv, HasData, Pio, PacedBit, M!IsData
  <2>6. MshcPhaseInv'
    <3>1. type' # "CommandNoTransfer" /\ HasData' /\ Pio' /\ MPaced' = MPaced
      BY <1>0, <1>1 DEF HasData, Pio, MPaced, M!IsData
    <3>2. CASE remaining > 1
      <4>1. remaining' > 0
        BY <1>0, <1>2, <3>2
      <4> QED BY <1>0, <2>1, <2>2, <3>1, <3>2, <4>1 DEF MshcPhaseInv
    <3>3. CASE ~(remaining > 1)
      <4>1. remaining' = 0
        BY <1>0, <1>1, <1>2, <3>3
      <4>2. required'["port"] = {"RW_END"} /\ status'["port"] = "SUCCESS"
        BY <2>2, <3>3
      <4>3. ~(remaining' > 0)
        BY <4>1
      <4> QED BY <1>0, <2>1, <3>1, <4>1, <4>2, <4>3 DEF MshcPhaseInv
    <3> QED BY <3>2, <3>3
  <2>7. TruthInv'
    <3>1. SomeError => SomeError'
      BY <1>0, <1>5 DEF SomeError
    <3>2. Came("RW_END", "DTO")' => Came("RW_END", "DTO")
      BY <1>0, <1>5 DEF Came
    <3> QED BY <1>0, <1>1, <1>5, <3>1, <3>2 DEF MshcInv, TruthInv, MshcDone, HasData, Pio, M!IsData
  <2>8. PlaceInv'
    <3>1. "RESPONSE" \notin required'["port"]
      BY <2>2 DEF MPaced, M!Paced
    <3>2. "RESPONSE" \notin portEvents
      BY <1>1 DEF MshcInv, PlaceInv
    <3> QED BY <1>0, <1>1, <1>5, <3>1, <3>2 DEF MshcInv, PlaceInv, Pio, PacedBit, MPaced
  <2>9. FifoInv'
    <3>1. fifo' = n /\ remaining' = remaining - 1 /\ left' = left /\ req' = req /\ fifo' \in Nat
      BY <1>0, <1>3
    <3>2. IF req.write THEN fifo' + remaining' = left ELSE fifo' + left = remaining' /\ remaining' <= 1
      BY <1>2, <1>3, <3>1
    <3>3. remaining' >= 0 /\ (~req.write => remaining' = 0)
      BY <1>1, <1>2, <1>3, <3>1
    <3> QED BY <1>2, <1>5, <3>1, <3>2, <3>3 DEF FifoInv, Pio, PacedBit, MPaced
  <2>10. MshcInv'
    BY <2>3, <2>4, <2>5, <2>6, <2>7, <2>8, <2>9 DEF MshcInv
  <2>11. port' = "wait" /\ port' # "idle"
    BY <2>1
  <2> QED BY <1>0, <2>10, <2>11
<1> QED BY <1>1, <1>2, <1>7, <1>8

-----------------------------------------------------------------------------
(* Timeouts and resets.                                                    *)

LEMMA MshcResetKeeps ==
  ASSUME MshcInv, M!SdportTimeout \/ M!MshcResetHostCmd \/ M!MshcResetHostDat
  PROVE  MshcInv'
<1>1. CASE M!SdportTimeout
  <2>1. /\ port = "wait" /\ port' = "failed" /\ ~localDpc
        /\ UNCHANGED <<req, type, portEvents, outstanding, required, status, currentEvents, currentErrors, remaining>>
        /\ UNCHANGED <<localPending, localDpc, stop, worker, rint, mask, fault>>
        /\ UNCHANGED <<cmd, data, left, fifo, idmac, busy, hung, bad>>
    BY <1>1 DEF M!SdportTimeout, M!Quiet, M!requests, M!current, M!local, M!regs, M!bus
  <2>2. worker = 0
    BY <1>1 DEF M!SdportTimeout, M!Quiet
  <2>3. MshcTypeOK' /\ OwnerInv' /\ IdleInv' /\ ~Waiting'
    <3>1. MshcTypeOK'
      BY <2>1 DEF MshcInv, MshcTypeOK
    <3>2. OwnerInv' /\ IdleInv' /\ ~Waiting'
      BY <2>1, <2>2 DEF MshcInv, OwnerInv, IdleInv, Waiting
    <3> QED BY <3>1, <3>2
  <2> QED BY <2>3, MshcNotWaiting DEF MshcInv
<1>2. CASE M!MshcResetHostCmd
  <2>1. /\ port = "failed" /\ port' = (IF HasData THEN "resetDat" ELSE "idle") /\ outstanding' = "None"
        /\ mask' = M!Bits
        /\ UNCHANGED <<req, type, portEvents, required, status, currentEvents, currentErrors, remaining>>
        /\ UNCHANGED <<localPending, localDpc, stop, worker, bad, fault>>
    BY <1>2 DEF M!MshcResetHostCmd, M!None, M!requests, M!current, M!local, HasData
  <2>2. \/ UNCHANGED <<rint, cmd, data, left, fifo, idmac, busy, hung>> /\ HasData
        \/ M!ResetController
    <3>1. outstanding \in {"port", "None"}
      BY <2>1 DEF MshcInv, MshcTypeOK, OwnerInv
    <3> QED BY <1>2, <3>1 DEF M!MshcResetHostCmd, M!None, M!Command, HasData
  <2>3. /\ rint' \subseteq M!Bits /\ cmd' \in {cmd, "None"} /\ data' \in {data, "none"} /\ left' \in Nat /\ fifo' \in Nat
        /\ idmac' \in BOOLEAN /\ busy' \in BOOLEAN /\ hung' \in BOOLEAN
        /\ ~HasData => cmd' = "None" /\ data' = "none" /\ left' = 0 /\ ~busy' /\ fifo' = 0 /\ rint' = {}
    <3>1. CASE UNCHANGED <<rint, cmd, data, left, fifo, idmac, busy, hung>> /\ HasData
      BY <3>1 DEF MshcInv, MshcTypeOK
    <3>2. CASE M!ResetController
      BY <2>1, <3>2 DEF M!ResetController, M!None, MshcInv, MshcTypeOK
    <3> QED BY <2>2, <3>1, <3>2
  <2>4. MshcTypeOK'
    BY <2>1, <2>3 DEF MshcInv, MshcTypeOK
  <2>5. stop = "none" /\ worker = 0
    BY <2>1 DEF MshcInv, MshcTypeOK, OwnerInv
  <2>6. OwnerInv' /\ IdleInv' /\ ~Waiting'
    BY <2>1, <2>3, <2>5 DEF MshcInv, OwnerInv, IdleInv, Waiting
  <2> QED BY <2>4, <2>6, MshcNotWaiting DEF MshcInv
<1>3. CASE M!MshcResetHostDat
  <2>1. /\ port = "resetDat" /\ stop = "none" /\ stop' = "issue" /\ outstanding' = "None" /\ localPending' = TRUE
        /\ required' = [required EXCEPT !["stop"] = {}] /\ status' = [status EXCEPT !["stop"] = "SUCCESS"]
        /\ UNCHANGED <<port, req, type, portEvents, currentEvents, currentErrors, remaining, localDpc, worker, rint, mask, fault>>
        /\ UNCHANGED <<cmd, data, left, fifo, idmac, busy, hung, bad>>
    BY <1>3 DEF M!MshcResetHostDat, M!None, M!portVars, M!current, M!regs, M!bus
  <2>2. MshcTypeOK'
    <3>1. required' \in [{"port", "stop"} -> SUBSET EventSet] /\ status' \in [{"port", "stop"} -> Statuses]
      BY <2>1 DEF MshcInv, MshcTypeOK, Statuses
    <3>2. localPending' \in BOOLEAN
      BY <2>1
    <3> QED BY <2>1, <3>1, <3>2 DEF MshcInv, MshcTypeOK, Statuses
  <2>3. worker = 0
    BY <2>1 DEF MshcInv, MshcTypeOK, OwnerInv
  <2>4. OwnerInv' /\ IdleInv' /\ ~Waiting'
    BY <2>1, <2>3 DEF OwnerInv, IdleInv, Waiting
  <2> QED BY <2>2, <2>4, MshcNotWaiting DEF MshcInv
<1> QED BY <1>1, <1>2, <1>3

LEMMA MshcStopKeeps ==
  ASSUME MshcInv, M!IssueStop \/ M!StopReturns
  PROVE  MshcInv'
<1>1. CASE M!IssueStop
  <2>1. /\ stop = "issue" /\ stop' = "wait" /\ outstanding' = "stop"
        /\ required' = [required EXCEPT !["stop"] = M!Awaited(M!Stop)]
        /\ currentEvents' = {} /\ currentErrors' = {} /\ remaining' = remaining /\ mask' = mask
        /\ cmd' = "stop" /\ bad' = FALSE
        /\ UNCHANGED <<port, req, type, portEvents, status, localPending, localDpc, worker, rint, data, left, fifo>>
        /\ UNCHANGED <<idmac, busy, hung, fault>>
    BY <1>1 DEF M!IssueStop, M!MshcSendCommand, M!Stop, M!IsData, M!portVars
  <2>2. M!Awaited(M!Stop) = {"RESPONSE"}
    BY DEF M!Awaited, M!Stop
  <2>3. MshcTypeOK'
    <3>1. required' \in [{"port", "stop"} -> SUBSET EventSet]
      BY <2>1, <2>2 DEF MshcInv, MshcTypeOK, EventSet
    <3>2. bad' \in BOOLEAN
      BY <2>1
    <3> QED BY <2>1, <3>1, <3>2 DEF MshcInv, MshcTypeOK
  <2>4. port = "resetDat" /\ localPending /\ worker = 0
    BY <2>1 DEF MshcInv, MshcTypeOK, OwnerInv
  <2>5. OwnerInv' /\ IdleInv' /\ ~Waiting'
    BY <2>1, <2>4 DEF OwnerInv, IdleInv, Waiting
  <2> QED BY <2>3, <2>5, MshcNotWaiting DEF MshcInv
<1>2. CASE M!StopReturns
  <2>1. /\ stop = "wait" /\ stop' = "none" /\ localPending' = FALSE /\ port' = "idle"
        /\ rint' = {} /\ cmd' = "None" /\ data' = "none" /\ left' = 0 /\ fifo' = 0
        /\ idmac' = FALSE /\ busy' = FALSE /\ hung' = FALSE
        /\ UNCHANGED <<req, type, portEvents, outstanding, required, status, currentEvents, currentErrors, remaining>>
        /\ UNCHANGED <<localDpc, worker, mask, bad, fault>>
    BY <1>2 DEF M!StopReturns, M!ResetController, M!None, M!requests, M!current
  <2>2. localPending => ~localDpc /\ worker = 0
    BY <1>2 DEF M!StopReturns, M!Quiet
  <2>3. MshcTypeOK'
    <3>1. /\ rint' \subseteq M!Bits /\ left' \in Nat /\ fifo' \in Nat /\ idmac' \in BOOLEAN /\ busy' \in BOOLEAN
          /\ hung' \in BOOLEAN /\ localPending' \in BOOLEAN
      BY <2>1
    <3> QED BY <2>1, <3>1 DEF MshcInv, MshcTypeOK
  <2>4. port = "resetDat" /\ worker = 0
    BY <2>1, <2>2 DEF MshcInv, MshcTypeOK, OwnerInv
  <2>5. outstanding # "port" /\ (outstanding = "stop" => required["stop"] = {} \/ ~localDpc)
    BY <2>2, <2>4 DEF MshcInv, OwnerInv
  <2>6. OwnerInv' /\ IdleInv' /\ ~Waiting'
    BY <2>1, <2>4, <2>5 DEF OwnerInv, IdleInv, Waiting
  <2> QED BY <2>3, <2>6, MshcNotWaiting DEF MshcInv
<1> QED BY <1>1, <1>2

-----------------------------------------------------------------------------
LEMMA MshcInitHolds ==
  ASSUME M!Init
  PROVE  MshcInv
<1>1. MshcTypeOK
  <2>1. remaining \in Int /\ left \in Nat /\ fifo \in Nat /\ worker \in {0, 1} /\ mask \subseteq M!Bits
    BY DEF M!Init
  <2>2. /\ required \in [{"port", "stop"} -> SUBSET EventSet]
        /\ status \in [{"port", "stop"} -> {"SUCCESS", "MORE_PROCESSING", "Failed"}]
    BY DEF M!Init
  <2>3. /\ localPending \in BOOLEAN /\ localDpc \in BOOLEAN /\ idmac \in BOOLEAN /\ busy \in BOOLEAN /\ hung \in BOOLEAN
        /\ bad \in BOOLEAN
    BY DEF M!Init
  <2> QED BY <2>1, <2>2, <2>3 DEF M!Init, M!None, MshcTypeOK
<1>2. OwnerInv /\ IdleInv /\ ~Waiting
  <2>1. worker # 1 /\ ~localPending /\ ~busy
    BY DEF M!Init
  <2> QED BY <2>1 DEF M!Init, M!None, OwnerInv, IdleInv, Waiting
<1> QED BY <1>1, <1>2 DEF MshcInv, WireInv, MshcPhaseInv, WorkerInv, TruthInv, PlaceInv, FifoInv

LEMMA MshcStutterKeeps ==
  ASSUME MshcInv, UNCHANGED M!vars
  PROVE  MshcInv'
<1>1. /\ UNCHANGED <<port, req, type, portEvents, outstanding, required, status, currentEvents, currentErrors>>
      /\ UNCHANGED <<remaining, localPending, localDpc, stop, worker, rint, mask, fault>>
      /\ UNCHANGED <<cmd, data, left, fifo, idmac, busy, hung, bad>>
  BY DEF M!vars, M!portVars, M!requests, M!current, M!local, M!regs, M!bus
<1>2. MshcTypeOK'
  BY <1>1 DEF MshcInv, MshcTypeOK
<1>3. OwnerInv' /\ IdleInv' /\ WireInv' /\ MshcPhaseInv' /\ WorkerInv'
  BY <1>1 DEF MshcInv, OwnerInv, IdleInv, WireInv, MshcPhaseInv, WorkerInv, Waiting, HasData, Pio, PacedBit, MPaced,
    MshcDone, M!IsData
<1>4. TruthInv' /\ PlaceInv' /\ FifoInv'
  BY <1>1 DEF MshcInv, TruthInv, PlaceInv, FifoInv, SomeError, Came, MshcDone, Waiting, HasData, Pio, PacedBit, MPaced,
    M!IsData
<1> QED BY <1>2, <1>3, <1>4 DEF MshcInv

LEMMA MshcNextKeeps ==
  ASSUME MshcInv, [M!Next]_(M!vars)
  PROVE  MshcInv'
<1>1. CASE M!Controller
  BY <1>1, MshcRespondKeeps, MshcRespondTimeoutKeeps, MoveChunkKeeps, StarveKeeps, MshcDataOverKeeps,
    MshcDataFailsKeeps, MshcCardKeeps DEF M!Controller
<1>2. CASE \E r \in MshcRequests : M!MshcSlotIssueRequest(r)
  BY <1>2, MshcIssueKeeps
<1> QED BY <1>1, <1>2, MshcDmaKeeps, MshcPioKeeps, MshcInterruptKeeps, MshcPortDpcKeeps, MshcLocalDpcKeeps,
      MshcWorkerKeeps, MshcResetKeeps, MshcStopKeeps, MshcStutterKeeps DEF M!Next

-----------------------------------------------------------------------------
(* What a request of dwcmshc waits for comes.                              *)

OtherBits   == ErrorBits \ {"RTO"}
OtherErrors == ErrorSet \ {"CMD_TIMEOUT"}

\* The driver masks data requests only.
MaskInv == M!Bits \ M!DataRequests \subseteq mask

\* After a data timeout DTO is yet to come, or here.
OverInv == "DRTO" \in rint => data # "none" \/ "DTO" \in rint

\* No error but a timeout of the command itself overtakes the response.
BehindInv ==
  Waiting =>
    /\ rint \cap OtherBits # {} =>
         ("RESPONSE" \in required["port"] => "CMD" \in rint \/ "RESPONSE" \in portEvents)
    /\ portEvents \cap OtherErrors # {} => ("RESPONSE" \in required["port"] => "RESPONSE" \in portEvents)
    /\ currentErrors \cap OtherErrors # {} => "RESPONSE" \notin required["port"]
    /\ "RTO" \in rint => cmd # "None" \/ "CMD" \in rint

\* Both timeouts leave the event that ends them to be required, and what a request without
\* programmed I/O requires is on its way or yet to be done.
HeldInv ==
  port = "wait" /\ ~Pio =>
    /\ worker = 0 => required["port"] # {}
    /\ "RTO" \in rint \/ "CMD_TIMEOUT" \in portEvents \cup currentErrors =>
         /\ "RESPONSE" \in required["port"] /\ data = "none" /\ bad
         /\ "DRTO" \notin rint /\ "DATA_TIMEOUT" \notin portEvents \cup currentErrors
    /\ "DRTO" \in rint \/ "DATA_TIMEOUT" \in portEvents \cup currentErrors =>
         "RW_END" \in required["port"] /\ (data # "none" \/ "DTO" \in rint \/ "RW_END" \in portEvents)
    /\ HasData /\ (cmd # "None" \/ data # "none" \/ "DTO" \in rint \/ "RW_END" \in portEvents) =>
         "RW_END" \in required["port"]
    /\ "RESPONSE" \in required["port"] => cmd # "None" \/ "CMD" \in rint \/ "RESPONSE" \in portEvents
    /\ "RW_END" \in required["port"] =>
         \/ cmd # "None" \/ data # "none" \/ "DTO" \in rint \/ "RW_END" \in portEvents
         \/ rint \cap ErrorBits # {} \/ portEvents \cap ErrorSet # {} \/ "CMD_TIMEOUT" \in currentErrors

\* The response to a request that has failed is not taken for that to the Stop.
FailedInv == port \in {"failed", "resetDat"} /\ stop # "wait" => "CMD" \notin rint /\ (hung \/ cmd = "None")

\* The Stop requires its response, which is on its way or has a DPC to take it; then the data
\* transfer is over.
StopInv ==
  stop = "wait" /\ localPending =>
    /\ outstanding = "stop" /\ cmd # "port"
    /\ worker = 0 => /\ required["stop"] = {"RESPONSE"}
                     /\ cmd = "stop" \/ "CMD" \in rint \/ ("RESPONSE" \in currentEvents /\ localDpc)
    /\ "CMD" \in rint \/ "RESPONSE" \in currentEvents => cmd = "None" /\ data = "none"
    /\ "RESPONSE" \in currentEvents => "DTO" \notin rint
    /\ "DATA_TIMEOUT" \in currentErrors => data # "none" \/ "DTO" \in rint \/ "RW_END" \in currentEvents

MshcComingInv == MaskInv /\ OverInv /\ BehindInv /\ HeldInv /\ FailedInv /\ StopInv

LEMMA ErrorFacts ==
  ASSUME NEW s \in SUBSET M!Bits
  PROVE  /\ "CMD_TIMEOUT" \in M!Errors(s) <=> "RTO" \in s
         /\ "DATA_TIMEOUT" \in M!Errors(s) <=> "DRTO" \in s
         /\ M!Errors(s) \cap OtherErrors # {} => s \cap OtherBits # {}
<1>1. M!Errors(s) = {M!ErrorOf[b] : b \in s \cap {"RTO", "RCRC", "DRTO", "DCRC"}}
  BY DEF M!Errors, M!ErrorOf
<1>2. /\ M!ErrorOf["RTO"] = "CMD_TIMEOUT" /\ M!ErrorOf["RCRC"] = "CMD_CRC"
      /\ M!ErrorOf["DRTO"] = "DATA_TIMEOUT" /\ M!ErrorOf["DCRC"] = "DATA_CRC"
  BY DEF M!ErrorOf
<1> QED BY <1>1, <1>2 DEF OtherErrors, OtherBits, ErrorSet, ErrorBits

LEMMA DriverLeft ==
  ASSUME UNCHANGED MshcDriver
  PROVE  /\ UNCHANGED <<port, req, portEvents, outstanding, required, currentEvents, currentErrors>>
         /\ UNCHANGED <<localPending, localDpc, stop, worker, mask, Waiting, Pio, HasData>>
  BY DEF MshcDriver, portVars, Waiting, Pio, HasData, M!IsData

LEMMA RespondKeepsMshcComing ==
  ASSUME MshcInv, MshcComingInv, M!Respond
  PROVE  MshcComingInv'
<1>0. UNCHANGED MshcDriver /\ ~hung
  BY MshcControllerLeaves DEF M!Controller, M!Respond
<1>1. PICK e \in {{}, {"RCRC"}, {"RTO"}} :
        /\ cmd # "None" /\ cmd' = "None" /\ UNCHANGED <<left, fifo, idmac, hung>>
        /\ bad => e = {}
        /\ bad' = (bad \/ e # {})
        /\ data' = IF cmd = "stop" THEN "none" ELSE IF ~bad' /\ HasData THEN "active" ELSE data
        /\ busy' = busy \/ (busy' \in BOOLEAN /\ ~bad' /\ M!Command(cmd).r1b)
        /\ rint' = rint \cup {"CMD"} \cup e \cup M!DataRequest(fifo, data', left)
                        \cup (IF cmd = "stop" /\ data # "none" THEN {"DTO"} ELSE {})
  BY RespondFacts
<1>2. M!DataRequest(fifo, data', left) \subseteq {"RXDR", "TXDR"}
  BY DataRequestFacts DEF MshcInv, MshcTypeOK, M!DataRequests
<1>3. /\ rint \subseteq rint' /\ "CMD" \in rint'
      /\ "DRTO" \in rint' => "DRTO" \in rint
      /\ "RTO" \in rint' => "RTO" \in rint \/ e = {"RTO"}
      /\ "DTO" \in rint' <=> "DTO" \in rint \/ (cmd = "stop" /\ data # "none")
      /\ e # {} => rint' \cap ErrorBits # {}
  BY <1>1, <1>2 DEF ErrorBits
<1>4. MaskInv' /\ OverInv'
  <2>1. data' # "none" \/ data = "none" \/ "DTO" \in rint'
    BY <1>1, <1>3
  <2> QED BY <1>0, <1>3, <2>1, DriverLeft DEF MshcComingInv, MaskInv, OverInv
<1>5. BehindInv'
  BY <1>0, <1>3, DriverLeft DEF MshcComingInv, BehindInv
<1>6. HeldInv'
  <2> SUFFICES ASSUME port = "wait", ~Pio
               PROVE  HeldInv'
    BY <1>0, DriverLeft DEF HeldInv
  <2>1. /\ Waiting /\ cmd = "port" /\ "RESPONSE" \in required["port"] /\ data = "none"
        /\ "DTO" \notin rint /\ "RW_END" \notin portEvents
    BY <1>1 DEF MshcInv, MshcTypeOK, WireInv, PlaceInv, Waiting
  <2>2. "DRTO" \notin rint /\ "DATA_TIMEOUT" \notin portEvents \cup currentErrors
    BY <2>1 DEF MshcComingInv, HeldInv
  <2>3. "RW_END" \in required["port"] <=> HasData
    <3>1. "RW_END" \in required["port"] => HasData
      BY <2>1 DEF MshcInv, MshcPhaseInv, M!Awaited, HasData, M!IsData, Pio
    <3> QED BY <1>1, <3>1 DEF MshcComingInv, HeldInv
  <2>4. "RTO" \in rint' \/ "CMD_TIMEOUT" \in portEvents \cup currentErrors => bad' /\ data' = "none"
    BY <1>1, <1>3, <2>1 DEF MshcComingInv, HeldInv
  <2>5. ASSUME bad', e = {}
        PROVE  rint' \cap ErrorBits # {} \/ portEvents \cap ErrorSet # {} \/ "CMD_TIMEOUT" \in currentErrors
    <3>1. rint \cap ErrorBits # {} \/ portEvents \cap ErrorSet # {} \/ currentErrors # {}
      BY <1>1, <2>1, <2>5 DEF MshcInv, TruthInv, SomeError
    <3>2. currentErrors # {} => "CMD_TIMEOUT" \in currentErrors
      BY <2>1 DEF MshcInv, MshcTypeOK, MshcComingInv, BehindInv, OtherErrors
    <3> QED BY <1>3, <3>1, <3>2
  <2>6. HasData => \/ data' # "none" \/ rint' \cap ErrorBits # {} \/ portEvents \cap ErrorSet # {}
                   \/ "CMD_TIMEOUT" \in currentErrors
    BY <1>1, <1>3, <2>1, <2>5
  <2>7. worker = 0 => required["port"] # {}
    BY DEF MshcComingInv, HeldInv
  <2> QED BY <1>0, <1>3, <2>1, <2>2, <2>3, <2>4, <2>6, <2>7, DriverLeft DEF HeldInv
<1>7. FailedInv'
  BY <1>0, <1>1, DriverLeft DEF MshcComingInv, FailedInv
<1>8. StopInv'
  <2> SUFFICES ASSUME stop = "wait", localPending
               PROVE  StopInv'
    BY <1>0, DriverLeft DEF StopInv
  <2>1. cmd = "stop" /\ "RESPONSE" \notin currentEvents
    BY <1>1 DEF MshcComingInv, StopInv, MshcInv, MshcTypeOK
  <2>2. data' = "none" /\ (data # "none" => "DTO" \in rint') /\ cmd' = "None"
    BY <1>1, <1>3, <2>1
  <2> QED BY <1>0, <1>3, <2>1, <2>2, DriverLeft DEF MshcComingInv, StopInv
<1> QED BY <1>4, <1>5, <1>6, <1>7, <1>8 DEF MshcComingInv

LEMMA RespondTimeoutKeepsComing ==
  ASSUME MshcInv, MshcComingInv, M!RespondTimeout
  PROVE  MshcComingInv'
<1>0. UNCHANGED MshcDriver
  BY MshcControllerLeaves DEF M!Controller
<1>1. /\ cmd # "None" /\ ~hung /\ bad' = TRUE /\ rint' = rint \cup {"RTO"}
      /\ UNCHANGED <<cmd, data, hung>>
  BY DEF M!RespondTimeout, M!None
<1>2. MaskInv' /\ OverInv' /\ FailedInv' /\ StopInv'
  BY <1>0, <1>1, DriverLeft DEF MshcComingInv, MaskInv, OverInv, FailedInv, StopInv
<1>3. BehindInv'
  BY <1>0, <1>1, DriverLeft DEF MshcComingInv, BehindInv, OtherBits
<1>4. HeldInv'
  <2> SUFFICES ASSUME port = "wait", ~Pio
               PROVE  HeldInv'
    BY <1>0, DriverLeft DEF HeldInv
  <2>1. /\ "RESPONSE" \in required["port"] /\ data = "none" /\ "DTO" \notin rint /\ "RW_END" \notin portEvents
    BY <1>1 DEF MshcInv, WireInv, PlaceInv, Waiting
  <2>2. "DRTO" \notin rint /\ "DATA_TIMEOUT" \notin portEvents \cup currentErrors
    BY <2>1 DEF MshcComingInv, HeldInv
  <2> QED BY <1>0, <1>1, <2>1, <2>2, DriverLeft DEF MshcComingInv, HeldInv
<1> QED BY <1>2, <1>3, <1>4 DEF MshcComingInv

\* What says nothing of the command or of the end of the data changes nothing.
LEMMA OthersKeepComing ==
  ASSUME MshcInv, MshcComingInv, M!MoveChunk \/ M!Starve \/ M!DmaComplete \/ M!CardIdle \/ M!Hang
  PROVE  MshcComingInv'
<1>0. UNCHANGED MshcDriver
  BY MshcControllerLeaves DEF M!Controller
<1>1. /\ UNCHANGED <<cmd, data, bad>> /\ (hung' \/ hung' = hung)
      /\ rint \subseteq rint' /\ rint' \subseteq rint \cup {"HTO", "TI_RI", "RXDR", "TXDR"}
  <2>1. CASE M!MoveChunk
    <3>1. /\ UNCHANGED <<cmd, data, bad, hung>> /\ rint' = rint \cup M!DataRequest(fifo', data, left')
      BY <2>1 DEF M!MoveChunk
    <3>2. M!DataRequest(fifo', data, left') \subseteq {"HTO", "TI_RI", "RXDR", "TXDR"}
      BY DEF M!DataRequest
    <3> QED BY <3>1, <3>2
  <2>2. CASE M!Starve
    BY <2>2 DEF M!Starve, M!bus
  <2>3. CASE M!DmaComplete
    BY <2>3 DEF M!DmaComplete
  <2>4. CASE M!CardIdle \/ M!Hang
    BY <2>4 DEF M!CardIdle, M!Hang
  <2> QED BY <2>1, <2>2, <2>3, <2>4
<1>2. /\ rint' \cap OtherBits = rint \cap OtherBits /\ rint' \cap ErrorBits = rint \cap ErrorBits
      /\ "CMD" \in rint' <=> "CMD" \in rint
      /\ "DTO" \in rint' <=> "DTO" \in rint
      /\ "RTO" \in rint' <=> "RTO" \in rint
      /\ "DRTO" \in rint' <=> "DRTO" \in rint
  BY <1>1 DEF OtherBits, ErrorBits
<1>3. MaskInv' /\ OverInv' /\ FailedInv' /\ StopInv'
  BY <1>0, <1>1, <1>2, DriverLeft DEF MshcComingInv, MaskInv, OverInv, FailedInv, StopInv
<1>4. BehindInv' /\ HeldInv'
  BY <1>0, <1>1, <1>2, DriverLeft DEF MshcComingInv, BehindInv, HeldInv
<1> QED BY <1>3, <1>4 DEF MshcComingInv

LEMMA DataEndsKeepComing ==
  ASSUME MshcInv, MshcComingInv, M!DataOver \/ M!BadBlock \/ M!DataTimeout
  PROVE  MshcComingInv'
<1>0. UNCHANGED MshcDriver
  BY MshcControllerLeaves DEF M!Controller
<1>1. /\ data # "none" /\ UNCHANGED <<cmd, hung>>
      /\ \E e \in {{}, {"DCRC"}, {"DRTO"}}, o \in {{}, {"DTO"}} :
           rint' = rint \cup e \cup o /\ (data' = "none" => o = {"DTO"})
  <2>1. CASE M!DataOver
    BY <2>1 DEF M!DataOver
  <2>2. CASE M!BadBlock
    <3>1. data = "active" /\ UNCHANGED <<cmd, hung, data>> /\ rint' = rint \cup {"DCRC"} \cup {}
      BY <2>2 DEF M!BadBlock
    <3> QED BY <3>1
  <2>3. CASE M!DataTimeout
    <3>1. /\ data # "none" /\ UNCHANGED <<cmd, hung>>
          /\ rint' = rint \cup (IF data = "active" THEN {"DRTO"} ELSE {})
                          \cup (IF data' = "none" THEN {"DTO"} ELSE {})
      BY <2>3 DEF M!DataTimeout
    <3> QED BY <3>1
  <2> QED BY <2>1, <2>2, <2>3
<1>2. /\ rint \subseteq rint' /\ (data' # "none" \/ "DTO" \in rint')
      /\ "CMD" \in rint' <=> "CMD" \in rint
      /\ "RTO" \in rint' <=> "RTO" \in rint
  BY <1>1
<1>3. MaskInv' /\ OverInv' /\ FailedInv'
  BY <1>0, <1>1, <1>2, DriverLeft DEF MshcComingInv, MaskInv, OverInv, FailedInv
<1>4. BehindInv'
  <2>1. Waiting => ("RESPONSE" \in required["port"] => "CMD" \in rint \/ "RESPONSE" \in portEvents)
    BY <1>1 DEF MshcInv, PlaceInv
  <2> QED BY <1>0, <1>1, <1>2, <2>1, DriverLeft DEF MshcComingInv, BehindInv
<1>5. HeldInv'
  <2> SUFFICES ASSUME port = "wait", ~Pio
               PROVE  HeldInv'
    BY <1>0, DriverLeft DEF HeldInv
  <2>1. HasData /\ "RW_END" \in required["port"]
    BY <1>1 DEF MshcInv, WireInv, Waiting, MshcComingInv, HeldInv
  <2>2. "RTO" \notin rint /\ "CMD_TIMEOUT" \notin portEvents \cup currentErrors
    BY <1>1 DEF MshcComingInv, HeldInv
  <2> QED BY <1>0, <1>1, <1>2, <2>1, <2>2, DriverLeft DEF MshcComingInv, HeldInv
<1>6. StopInv'
  BY <1>0, <1>1, <1>2, DriverLeft DEF MshcComingInv, StopInv
<1> QED BY <1>3, <1>4, <1>5, <1>6 DEF MshcComingInv

-----------------------------------------------------------------------------
(* The driver takes it.                                                    *)

LEMMA InterruptKeepsMshcComing ==
  ASSUME MshcInv, MshcComingInv, M!MshcSlotInterrupt
  PROVE  MshcComingInv'
<1> DEFINE ev == M!Events(rint)
           er == M!Errors(rint)
<1>1. /\ rint' = M!DataRequest(fifo, data, left)
      /\ mask' = (IF rint \cap M!DataRequests # {} THEN mask \ M!DataRequests ELSE mask)
      /\ IF localPending /\ ev \cup er # {}
         THEN /\ currentEvents' = currentEvents \cup ev /\ currentErrors' = currentErrors \cup er
              /\ localDpc' = TRUE
              /\ UNCHANGED portEvents
         ELSE /\ portEvents' = portEvents \cup ev \cup er
              /\ UNCHANGED <<currentEvents, currentErrors, localDpc>>
      /\ UNCHANGED <<port, req, type, outstanding, required, remaining, localPending, stop, worker,
                     cmd, data, hung, bad>>
  BY DEF M!MshcSlotInterrupt, M!requests, M!bus, M!current
<1>2. rint \subseteq M!Bits
  BY DEF MshcInv, MshcTypeOK
<1>3. /\ ev \subseteq EventSet /\ er \subseteq ErrorSet
      /\ "RESPONSE" \in ev <=> "CMD" \in rint
      /\ "RW_END" \in ev <=> "DTO" \in rint
      /\ "CMD_TIMEOUT" \in er <=> "RTO" \in rint
      /\ "DATA_TIMEOUT" \in er <=> "DRTO" \in rint
      /\ er = {} <=> rint \cap ErrorBits = {}
      /\ er \cap OtherErrors # {} => rint \cap OtherBits # {}
  BY <1>2, EventFacts, ErrorFacts
<1>4. rint' \cap (ErrorBits \cup {"CMD", "DTO"}) = {} /\ rint' \cap OtherBits = {}
  BY <1>1 DEF M!DataRequest, ErrorBits, OtherBits
<1>5. "RTO" \notin rint' /\ "DRTO" \notin rint' /\ "CMD" \notin rint' /\ "DTO" \notin rint'
  BY <1>4 DEF ErrorBits
<1> HIDE DEF ev, er
<1>6. MaskInv' /\ OverInv' /\ FailedInv'
  BY <1>1, <1>5 DEF MshcComingInv, MaskInv, OverInv, FailedInv
<1>7. ASSUME Waiting PROVE BehindInv' /\ HeldInv'
  <2>1. /\ portEvents' = portEvents \cup ev \cup er /\ UNCHANGED <<currentEvents, currentErrors>>
    BY <1>1, <1>7 DEF MshcInv, OwnerInv, Waiting
  <2>2. /\ "RESPONSE" \in portEvents' <=> "RESPONSE" \in portEvents \/ "CMD" \in rint
        /\ "RW_END" \in portEvents' <=> "RW_END" \in portEvents \/ "DTO" \in rint
        /\ "CMD_TIMEOUT" \in portEvents' <=> "CMD_TIMEOUT" \in portEvents \/ "RTO" \in rint
        /\ "DATA_TIMEOUT" \in portEvents' <=> "DATA_TIMEOUT" \in portEvents \/ "DRTO" \in rint
        /\ portEvents' \cap ErrorSet = {} <=> portEvents \cap ErrorSet = {} /\ rint \cap ErrorBits = {}
        /\ portEvents' \cap OtherErrors # {} => portEvents \cap OtherErrors # {} \/ rint \cap OtherBits # {}
    <3>1. /\ {"RESPONSE", "RW_END"} \cap er = {} /\ {"CMD_TIMEOUT", "DATA_TIMEOUT"} \cap ev = {}
          /\ ev \cap ErrorSet = {} /\ ev \cap OtherErrors = {}
      BY <1>3 DEF ErrorSet, EventSet, OtherErrors
    <3> QED BY <1>3, <2>1, <3>1
  <2>3. BehindInv'
    BY <1>1, <1>4, <1>5, <2>1, <2>2 DEF MshcComingInv, BehindInv, Waiting
  <2>4. HeldInv'
    <3> SUFFICES ASSUME port = "wait", ~Pio
                 PROVE  HeldInv'
      BY <1>1 DEF HeldInv, Pio
    <3> QED BY <1>1, <1>4, <1>5, <2>1, <2>2 DEF MshcComingInv, HeldInv, Pio, HasData, M!IsData
  <2> QED BY <2>3, <2>4
<1>8. CASE ~Waiting
  <2>1. ~Waiting' /\ port' # "wait"
    BY <1>1, <1>8 DEF Waiting
  <2>2. BehindInv' /\ HeldInv'
    BY <2>1 DEF BehindInv, HeldInv
  <2>3. StopInv'
    <3> SUFFICES ASSUME stop = "wait", localPending
                 PROVE  StopInv'
      BY <1>1 DEF StopInv
    <3>1. /\ "RESPONSE" \in currentEvents' <=> "RESPONSE" \in currentEvents \/ "CMD" \in rint
          /\ "RW_END" \in currentEvents' <=> "RW_END" \in currentEvents \/ "DTO" \in rint
          /\ "DATA_TIMEOUT" \in currentErrors' <=> "DATA_TIMEOUT" \in currentErrors \/ "DRTO" \in rint
          /\ localDpc \/ "CMD" \in rint => localDpc'
      BY <1>1, <1>3
    <3> QED BY <1>1, <1>5, <3>1 DEF MshcComingInv, OverInv, StopInv
  <2> QED BY <1>6, <2>2, <2>3 DEF MshcComingInv
<1>9. CASE Waiting
  <2>1. StopInv'
    BY <1>1, <1>9 DEF StopInv, MshcInv, OwnerInv, Waiting
  <2> QED BY <1>6, <1>7, <1>9, <2>1 DEF MshcComingInv
<1> QED BY <1>8, <1>9

\* What sdport's DPC does with the events of a request that waits for some.
LEMMA PortDpcCases ==
  ASSUME MshcInv, M!PortDpc, port = "wait", required["port"] # {}
  PROVE  LET ev == portEvents \cap EventSet
             er == currentErrors \cup (portEvents \cap ErrorSet)
         IN
         \/ /\ er # {} /\ ~M!TimeoutNotOver(ev, er)
            /\ port' = "failed"
         \/ /\ er = {} /\ required["port"] \subseteq portEvents
            /\ currentErrors' = {} /\ required'["port"] = {}
            /\ worker' = 1 \/ port' # "wait"
         \/ /\ er = {} \/ M!TimeoutNotOver(ev, er)
            /\ port' = "wait" /\ currentErrors' = er /\ required'["port"] = required["port"] \ portEvents
            /\ er = {} => required'["port"] # {}
            /\ worker' = worker
<1> DEFINE ev == portEvents \cap EventSet
           er == currentErrors \cup (portEvents \cap ErrorSet)
           r  == [required EXCEPT !["port"] = @ \ ev]
<1>1. M!TakeEvents("port", ev, portEvents \cap ErrorSet)
  BY PortDpcTakes
<1>2. outstanding = "port" /\ ~localPending /\ worker = 0
  BY DEF MshcInv, MshcTypeOK, OwnerInv
<1>3. /\ r \in [Named -> SUBSET EventSet] /\ r["port"] = required["port"] \ portEvents
      /\ [r EXCEPT !["port"] = {}] \in [Named -> SUBSET EventSet]
  BY DEF MshcInv, MshcTypeOK, Named
<1>4. status["port"] \in {"SUCCESS", "MORE_PROCESSING"}
  BY DEF MshcInv, MshcPhaseInv, Waiting
<1>5. /\ MshcTypeOK /\ "port" \in Named /\ "Failed" \in Statuses /\ status["port"] \in Statuses
      /\ (localPending \/ "wait" = "wait")
  BY <1>4 DEF MshcInv, Named, Statuses
<1>6. \/ /\ er # {} /\ ~M!TimeoutNotOver(ev, er)
         /\ M!MshcCompleteRequest("port", [r EXCEPT !["port"] = {}], "Failed", "wait", "port")
      \/ /\ er = {} /\ r["port"] = {} /\ currentErrors' = er
         /\ M!MshcCompleteRequest("port", r, status["port"], "wait", "port")
      \/ /\ er = {} \/ M!TimeoutNotOver(ev, er)
         /\ er = {} => r["port"] # {}
         /\ currentErrors' = er /\ required' = r
         /\ UNCHANGED <<port, worker>>
  BY <1>1, <1>2, <1>4 DEF M!TakeEvents, M!None
<1> HIDE DEF ev, er, r
<1>7. CASE /\ er # {} /\ ~M!TimeoutNotOver(ev, er)
           /\ M!MshcCompleteRequest("port", [r EXCEPT !["port"] = {}], "Failed", "wait", "port")
  <2>1. Finished("port", "Failed", "wait")
    BY <1>2, <1>3, <1>5, <1>7, MshcCompleteFacts
  <2>2. port' = "failed"
    BY <1>2, <2>1 DEF Finished, M!AfterCompletion
  <2> QED BY <1>7, <2>2 DEF er, ev
<1>8. CASE /\ er = {} /\ r["port"] = {} /\ currentErrors' = er
           /\ M!MshcCompleteRequest("port", r, status["port"], "wait", "port")
  <2>1. required' = r /\ (worker' = 1 \/ Finished("port", status["port"], "wait"))
    BY <1>2, <1>3, <1>5, <1>8, MshcCompleteFacts
  <2>2. Finished("port", status["port"], "wait") => port' # "wait"
    BY <1>2 DEF Finished, M!AfterCompletion
  <2>3. required["port"] \subseteq portEvents
    BY <1>3, <1>8
  <2> QED BY <1>8, <2>1, <2>2, <2>3 DEF er
<1>9. CASE /\ er = {} \/ M!TimeoutNotOver(ev, er)
           /\ er = {} => r["port"] # {}
           /\ currentErrors' = er /\ required' = r
           /\ UNCHANGED <<port, worker>>
  BY <1>3, <1>9 DEF er, ev
<1> QED BY <1>6, <1>7, <1>8, <1>9

\* A request fails or succeeds only when its response has been read.
LEMMA PortDpcKeepsMshcComing ==
  ASSUME MshcInv, MshcInv', MshcComingInv, M!PortDpc
  PROVE  MshcComingInv'
<1>0. /\ portEvents' = {}
      /\ UNCHANGED <<req, type, localDpc, stop, rint, mask, cmd, data, hung, bad, Pio, HasData>>
  BY DEF M!PortDpc, M!regs, M!bus, Pio, HasData, M!IsData
<1>1. MaskInv' /\ OverInv'
  BY <1>0 DEF MshcComingInv, MaskInv, OverInv
<1>2. CASE ~(port = "wait" /\ required["port"] # {})
  <2>1. UNCHANGED <<port, outstanding, required, currentEvents, currentErrors, localPending, worker>>
    <3>1. CASE port \in {"wait", "transfer"}
      <4>1. required["port"] = {}
        BY <1>2, <3>1 DEF MshcInv, OwnerInv
      <4> QED BY <3>1, <4>1 DEF M!PortDpc, M!MshcRequestDpc, M!requests, M!current
    <3>2. CASE port \notin {"wait", "transfer"}
      BY <3>2 DEF M!PortDpc, M!requests, M!current
    <3> QED BY <3>1, <3>2
  <2>2. BehindInv'
    BY <1>0, <2>1, <1>2 DEF MshcComingInv, BehindInv, Waiting, MshcInv, OwnerInv
  <2>3. HeldInv'
    BY <1>0, <2>1, <1>2 DEF MshcComingInv, HeldInv
  <2>4. FailedInv' /\ StopInv'
    BY <1>0, <2>1 DEF MshcComingInv, FailedInv, StopInv
  <2> QED BY <1>1, <2>2, <2>3, <2>4 DEF MshcComingInv
<1>3. CASE port = "wait" /\ required["port"] # {}
  <2> DEFINE ev == portEvents \cap EventSet
             er == currentErrors \cup (portEvents \cap ErrorSet)
  <2>0. /\ ErrorSet \cap EventSet = {} /\ "RESPONSE" \in EventSet /\ "RW_END" \in EventSet
        /\ {"CMD_TIMEOUT", "DATA_TIMEOUT"} \subseteq ErrorSet
    BY DEF ErrorSet, EventSet
  <2>1. Waiting /\ stop = "none" /\ stop' = "none"
    BY <1>0, <1>3 DEF Waiting, MshcInv, OwnerInv
  <2>2. StopInv'
    BY <2>1 DEF StopInv
  <2>3. "RESPONSE" \in portEvents \/ "RESPONSE" \notin required["port"] => cmd = "None" /\ "CMD" \notin rint
    BY <2>1 DEF MshcInv, PlaceInv
  <2>4. "RW_END" \in portEvents => cmd = "None" /\ data = "none" /\ "DTO" \notin rint
    BY <2>1 DEF MshcInv, PlaceInv
  <2>5. CASE er # {} /\ ~M!TimeoutNotOver(ev, er) /\ port' = "failed"
    <3>1. "RESPONSE" \in portEvents \/ "RESPONSE" \notin required["port"]
      <4>1. CASE "CMD_TIMEOUT" \in er
        BY <2>5, <4>1 DEF M!TimeoutNotOver
      <4>2. CASE "CMD_TIMEOUT" \notin er
        <5>1. er \cap OtherErrors # {}
          BY <2>5, <4>2 DEF OtherErrors, MshcInv, MshcTypeOK
        <5> QED BY <2>1, <5>1 DEF MshcComingInv, BehindInv
      <4> QED BY <4>1, <4>2
    <3>2. FailedInv' /\ BehindInv' /\ HeldInv'
      BY <1>0, <2>3, <2>5, <3>1 DEF FailedInv, BehindInv, HeldInv, Waiting
    <3> QED BY <1>1, <2>2, <3>2 DEF MshcComingInv
  <2>6. CASE /\ er = {} /\ required["port"] \subseteq portEvents
             /\ currentErrors' = {} /\ required'["port"] = {}
             /\ worker' = 1 \/ port' # "wait"
    <3>1. cmd = "None" /\ "CMD" \notin rint
      BY <2>3, <2>6
    <3>2. FailedInv'
      BY <1>0, <3>1 DEF FailedInv
    <3>3. BehindInv'
      BY <1>0, <2>1, <2>6 DEF MshcComingInv, BehindInv
    <3>4. HeldInv'
      <4> SUFFICES ASSUME ~Pio, worker' = 1
                   PROVE  HeldInv'
        BY <1>0, <2>6 DEF HeldInv
      <4>1. "RTO" \notin rint
        BY <2>1, <3>1 DEF MshcComingInv, BehindInv
      <4>2. "DRTO" \notin rint
        BY <1>3, <2>4, <2>6 DEF MshcComingInv, HeldInv, OverInv
      <4>3. HasData => data = "none" /\ "DTO" \notin rint
        BY <1>3, <2>4, <2>6 DEF MshcComingInv, HeldInv
      <4>4. worker' # 0
        OBVIOUS
      <4> QED BY <1>0, <2>6, <3>1, <4>1, <4>2, <4>3, <4>4 DEF HeldInv
    <3> QED BY <1>1, <2>2, <3>2, <3>3, <3>4 DEF MshcComingInv
  <2>7. CASE /\ er = {} \/ M!TimeoutNotOver(ev, er)
             /\ port' = "wait" /\ currentErrors' = er /\ required'["port"] = required["port"] \ portEvents
             /\ er = {} => required'["port"] # {}
             /\ worker' = worker
    <3>1. FailedInv'
      BY <2>7 DEF FailedInv
    <3>2. BehindInv'
      <4>1. er \cap OtherErrors # {} => "RESPONSE" \notin required'["port"]
        BY <2>1, <2>7 DEF MshcComingInv, BehindInv
      <4> QED BY <1>0, <2>1, <2>7, <4>1 DEF MshcComingInv, BehindInv
    <3>3. HeldInv'
      <4> SUFFICES ASSUME ~Pio
                   PROVE  HeldInv'
        BY <1>0 DEF HeldInv
      <4>1. /\ "CMD_TIMEOUT" \in er <=> "CMD_TIMEOUT" \in portEvents \cup currentErrors
            /\ "DATA_TIMEOUT" \in er <=> "DATA_TIMEOUT" \in portEvents \cup currentErrors
        BY <2>0
      <4>2. "CMD_TIMEOUT" \in er => "RESPONSE" \notin portEvents /\ "DATA_TIMEOUT" \notin er
        BY <1>3, <2>0, <2>7, <4>1 DEF MshcComingInv, HeldInv, M!TimeoutNotOver
      <4>3. "DATA_TIMEOUT" \in er => "RW_END" \notin portEvents
        BY <2>0, <2>7, <4>2 DEF M!TimeoutNotOver
      <4>4. "RTO" \in rint => "RESPONSE" \notin portEvents
        BY <2>1, <2>3 DEF MshcComingInv, BehindInv
      <4>5. "DRTO" \in rint => "RW_END" \notin portEvents
        BY <2>4 DEF MshcComingInv, OverInv
      <4>6. er # {} => "CMD_TIMEOUT" \in er \/ "DATA_TIMEOUT" \in er
        BY <2>7 DEF M!TimeoutNotOver
      <4>7. "RTO" \in rint' \/ "CMD_TIMEOUT" \in portEvents' \cup currentErrors' =>
              /\ "RESPONSE" \in required'["port"] /\ data' = "none" /\ bad'
              /\ "DRTO" \notin rint' /\ "DATA_TIMEOUT" \notin portEvents' \cup currentErrors'
        BY <1>0, <1>3, <2>7, <4>1, <4>2, <4>4 DEF MshcComingInv, HeldInv
      <4>8. "DRTO" \in rint' \/ "DATA_TIMEOUT" \in portEvents' \cup currentErrors' =>
              "RW_END" \in required'["port"] /\ (data' # "none" \/ "DTO" \in rint')
        BY <1>0, <1>3, <2>7, <4>1, <4>3, <4>5 DEF MshcComingInv, HeldInv
      <4>9. required'["port"] # {}
        BY <1>0, <2>7, <4>6, <4>7, <4>8
      <4>10. HasData /\ (cmd # "None" \/ data # "none" \/ "DTO" \in rint) => "RW_END" \in required'["port"]
        BY <1>3, <2>4, <2>7 DEF MshcComingInv, HeldInv
      <4>11. "RESPONSE" \in required'["port"] => cmd # "None" \/ "CMD" \in rint
        BY <1>3, <2>7 DEF MshcComingInv, HeldInv
      <4>12. "RW_END" \in required'["port"] =>
               \/ cmd # "None" \/ data # "none" \/ "DTO" \in rint
               \/ rint \cap ErrorBits # {} \/ "CMD_TIMEOUT" \in er
        <5>1. "DATA_TIMEOUT" \in er => data # "none" \/ "DTO" \in rint
          BY <1>0, <2>7, <4>8
        <5>2. portEvents \cap ErrorSet # {} => er # {}
          OBVIOUS
        <5> QED BY <1>3, <2>7, <4>6, <5>1, <5>2 DEF MshcComingInv, HeldInv
      <4> QED BY <1>0, <2>7, <4>7, <4>8, <4>9, <4>10, <4>11, <4>12 DEF HeldInv
    <3> QED BY <1>1, <2>2, <3>1, <3>2, <3>3 DEF MshcComingInv
  <2> QED BY <1>3, <2>5, <2>6, <2>7, PortDpcCases
<1> QED BY <1>2, <1>3

\* What the DPC of a Stop does: nothing, or it fails sdport's request with the errors that came
\* for a Stop before, or it takes the events of the Stop it is for.
LEMMA LocalDpcCases ==
  ASSUME MshcInv, M!MshcLocalRequestDpc
  PROVE  \/ /\ UNCHANGED <<port, outstanding, required, currentEvents, currentErrors, localPending, worker>>
            /\ outstanding = "stop" /\ required["stop"] # {} => currentEvents = {}
         \/ /\ Waiting /\ stop = "none" /\ port' = "failed"
            /\ currentErrors # {} /\ ~M!TimeoutNotOver(currentEvents, currentErrors)
         \/ /\ port = "resetDat" /\ port' = "resetDat" /\ outstanding = "stop" /\ localPending
            /\ \/ localPending' = FALSE
               \/ outstanding' = "stop" /\ worker' = 1 /\ UNCHANGED <<currentEvents, currentErrors>>
               \/ /\ UNCHANGED <<outstanding, currentEvents, currentErrors, worker>>
                  /\ required'["stop"] = required["stop"] \ currentEvents
                  /\ IF currentErrors = {} THEN required'["stop"] # {}
                     ELSE M!TimeoutNotOver(currentEvents, currentErrors)
<1> DEFINE r  == [required EXCEPT ![outstanding] = @ \ currentEvents]
           r0 == [r EXCEPT ![outstanding] = {}]
           s  == IF status[outstanding] = "MORE_PROCESSING" THEN status[outstanding] ELSE "SUCCESS"
<1>0. localDpc
  BY DEF M!MshcLocalRequestDpc
<1>1. \/ /\ UNCHANGED <<port, outstanding, required, currentEvents, currentErrors, localPending, worker>>
         /\ outstanding = "stop" /\ required["stop"] # {} => currentEvents = {}
      \/ outstanding # "None" /\ required[outstanding] # {} /\ M!TakeEvents(outstanding, currentEvents, currentErrors)
  BY DEF M!MshcLocalRequestDpc, M!MshcRequestDpc, M!requests, M!current, M!None
<1>2. CASE outstanding # "None" /\ required[outstanding] # {} /\ M!TakeEvents(outstanding, currentEvents, currentErrors)
  <2>0. /\ outstanding \in Named
        /\ r \in [Named -> SUBSET EventSet] /\ r[outstanding] = required[outstanding] \ currentEvents
        /\ r0 \in [Named -> SUBSET EventSet] /\ s \in Statuses /\ "Failed" \in Statuses /\ MshcTypeOK
    BY <1>2 DEF MshcInv, MshcTypeOK, Named, Statuses
  <2>1. \/ /\ currentErrors # {} /\ ~M!TimeoutNotOver(currentEvents, currentErrors)
           /\ M!MshcCompleteRequest(outstanding, r0, "Failed", port, outstanding)
        \/ /\ currentErrors = {} /\ r[outstanding] = {} /\ UNCHANGED <<currentEvents, currentErrors>>
           /\ M!MshcCompleteRequest(outstanding, r, s, port, outstanding)
        \/ /\ required' = r /\ UNCHANGED <<currentEvents, currentErrors>>
           /\ UNCHANGED <<port, outstanding, localPending, worker>>
           /\ IF currentErrors = {} THEN r[outstanding] # {} ELSE M!TimeoutNotOver(currentEvents, currentErrors)
    <3>1. /\ currentEvents \cup currentEvents = currentEvents /\ currentErrors \cup currentErrors = currentErrors
          /\ outstanding # M!None
      BY <1>2 DEF M!None
    <3> QED BY <1>2, <3>1 DEF M!TakeEvents
  <2> HIDE DEF r, r0, s
  <2>2. CASE outstanding = "port"
    <3>1. port = "wait" /\ Waiting /\ ~localPending /\ worker = 0 /\ stop = "none"
      BY <1>0, <1>2, <2>2 DEF MshcInv, MshcTypeOK, OwnerInv, Waiting
    <3>2. r = required
      <4>1. required["port"] \ currentEvents = required["port"]
        BY <3>1 DEF MshcInv, PlaceInv
      <4> QED BY <2>2, <4>1 DEF r, MshcInv, MshcTypeOK
    <3>3. CASE /\ currentErrors # {} /\ ~M!TimeoutNotOver(currentEvents, currentErrors)
               /\ M!MshcCompleteRequest(outstanding, r0, "Failed", port, outstanding)
      <4>1. Finished("port", "Failed", "wait")
        <5>1. "port" \in Named /\ (localPending \/ "wait" = "wait")
          BY DEF Named
        <5> QED BY <2>0, <2>2, <3>1, <3>3, <5>1, MshcCompleteFacts
      <4>2. port' = "failed"
        BY <3>1, <4>1 DEF Finished, M!AfterCompletion
      <4> QED BY <3>1, <3>3, <4>2
    <3> QED BY <1>2, <2>1, <2>2, <3>2, <3>3
  <2>3. CASE outstanding = "stop"
    <3>1. port = "resetDat" /\ localPending /\ worker = 0
      BY <1>0, <1>2, <2>3 DEF MshcInv, MshcTypeOK, OwnerInv
    <3>2. ASSUME NEW t \in Statuses, Finished("stop", t, port)
          PROVE  port' = "resetDat" /\ localPending' = FALSE
      BY <3>1, <3>2 DEF Finished
    <3>3. CASE M!MshcCompleteRequest(outstanding, r0, "Failed", port, outstanding)
      <4>1. Finished("stop", "Failed", port)
        BY <2>0, <2>3, <3>1, <3>3, MshcCompleteFacts
      <4> QED BY <2>0, <2>3, <3>1, <3>2, <4>1
    <3>4. CASE /\ UNCHANGED <<currentEvents, currentErrors>>
               /\ M!MshcCompleteRequest(outstanding, r, s, port, outstanding)
      <4>1. Finished("stop", s, port) \/ (worker' = 1 /\ outstanding' = "stop" /\ port' = port)
        BY <2>0, <2>3, <3>1, <3>4, MshcCompleteFacts
      <4> QED BY <2>0, <2>3, <3>1, <3>2, <3>4, <4>1
    <3>5. CASE /\ required' = r /\ UNCHANGED <<currentEvents, currentErrors>>
               /\ UNCHANGED <<port, outstanding, localPending, worker>>
               /\ IF currentErrors = {} THEN r[outstanding] # {} ELSE M!TimeoutNotOver(currentEvents, currentErrors)
      BY <2>0, <2>3, <3>1, <3>5
    <3> QED BY <2>1, <3>3, <3>4, <3>5
  <2> QED BY <2>0, <2>2, <2>3 DEF Named
<1> QED BY <1>1, <1>2

\* The response to the Stop ends it: no timeout is waited for any more.
LEMMA LocalDpcKeepsMshcComing ==
  ASSUME MshcInv, MshcComingInv, M!MshcLocalRequestDpc
  PROVE  MshcComingInv'
<1>0. UNCHANGED <<req, type, portEvents, stop, rint, mask, cmd, data, hung, bad, Pio, HasData>>
  BY DEF M!MshcLocalRequestDpc, M!regs, M!bus, Pio, HasData, M!IsData
<1>1. MaskInv' /\ OverInv'
  BY <1>0 DEF MshcComingInv, MaskInv, OverInv
<1>2. CASE /\ UNCHANGED <<port, outstanding, required, currentEvents, currentErrors, localPending, worker>>
           /\ outstanding = "stop" /\ required["stop"] # {} => currentEvents = {}
  <2>1. BehindInv' /\ HeldInv' /\ FailedInv'
    BY <1>0, <1>2 DEF MshcComingInv, BehindInv, HeldInv, FailedInv, Waiting
  <2>2. StopInv'
    BY <1>0, <1>2 DEF MshcComingInv, StopInv
  <2> QED BY <1>1, <2>1, <2>2 DEF MshcComingInv
<1>3. CASE /\ Waiting /\ stop = "none" /\ port' = "failed"
           /\ currentErrors # {} /\ ~M!TimeoutNotOver(currentEvents, currentErrors)
  <2>1. "RESPONSE" \notin required["port"]
    <3>1. CASE "CMD_TIMEOUT" \in currentErrors
      BY <1>3, <3>1 DEF M!TimeoutNotOver, MshcInv, PlaceInv
    <3>2. CASE "CMD_TIMEOUT" \notin currentErrors
      <4>1. currentErrors \cap OtherErrors # {}
        BY <1>3, <3>2 DEF OtherErrors, MshcInv, MshcTypeOK
      <4> QED BY <1>3, <4>1 DEF MshcComingInv, BehindInv
    <3> QED BY <3>1, <3>2
  <2>2. cmd = "None" /\ "CMD" \notin rint
    BY <1>3, <2>1 DEF MshcInv, PlaceInv
  <2> QED BY <1>0, <1>1, <1>3, <2>2 DEF MshcComingInv, BehindInv, HeldInv, FailedInv, StopInv, Waiting
<1>4. CASE /\ port = "resetDat" /\ port' = "resetDat" /\ outstanding = "stop" /\ localPending
           /\ \/ localPending' = FALSE
              \/ outstanding' = "stop" /\ worker' = 1 /\ UNCHANGED <<currentEvents, currentErrors>>
              \/ /\ UNCHANGED <<outstanding, currentEvents, currentErrors, worker>>
                 /\ required'["stop"] = required["stop"] \ currentEvents
                 /\ IF currentErrors = {} THEN required'["stop"] # {}
                    ELSE M!TimeoutNotOver(currentEvents, currentErrors)
  <2>1. BehindInv' /\ HeldInv' /\ FailedInv'
    BY <1>0, <1>4 DEF MshcComingInv, BehindInv, HeldInv, FailedInv, Waiting
  <2>2. StopInv'
    <3> SUFFICES ASSUME stop = "wait", localPending'
                 PROVE  StopInv'
      BY <1>0 DEF StopInv
    <3>1. localPending
      BY <1>4
    <3>2. CASE outstanding' = "stop" /\ worker' = 1 /\ UNCHANGED <<currentEvents, currentErrors>>
      BY <1>0, <3>1, <3>2 DEF MshcComingInv, StopInv
    <3>3. CASE /\ UNCHANGED <<outstanding, currentEvents, currentErrors, worker>>
               /\ required'["stop"] = required["stop"] \ currentEvents
               /\ IF currentErrors = {} THEN required'["stop"] # {}
                  ELSE M!TimeoutNotOver(currentEvents, currentErrors)
      BY <1>0, <3>1, <3>3 DEF MshcComingInv, StopInv, M!TimeoutNotOver
    <3> QED BY <1>4, <3>2, <3>3
  <2> QED BY <1>1, <2>1, <2>2 DEF MshcComingInv
<1> QED BY <1>2, <1>3, <1>4, LocalDpcCases

LEMMA WorkerKeepsMshcComing ==
  ASSUME MshcInv, MshcComingInv, M!MshcCompleteRequestBusyWorker
  PROVE  MshcComingInv'
<1>0. /\ worker = 1
      /\ UNCHANGED <<req, type, portEvents, required, currentEvents, currentErrors, stop, rint, mask, cmd, data, hung, bad>>
      /\ UNCHANGED <<Pio, HasData>>
  <2>1. worker > 0 /\ worker \in {0, 1}
    BY DEF M!MshcCompleteRequestBusyWorker, MshcInv, MshcTypeOK
  <2>2. worker = 1
    BY <2>1
  <2> QED BY <2>2 DEF M!MshcCompleteRequestBusyWorker, M!current, M!regs, M!bus, Pio, HasData, M!IsData
<1>1. /\ outstanding \in Named /\ required[outstanding] = {}
      /\ \/ outstanding = "port" /\ port = "wait" /\ stop = "none" /\ ~localPending
         \/ outstanding = "stop" /\ port = "resetDat" /\ stop = "wait" /\ localPending
  BY <1>0 DEF MshcInv, MshcTypeOK, OwnerInv, Named
<1> DEFINE s == IF busy THEN "Failed" ELSE "SUCCESS"
<1>2. Finished(outstanding, s, port)
  <2>1. MshcTypeOK /\ s \in Statuses /\ (localPending \/ port = "wait")
    BY <1>1 DEF MshcInv, Statuses
  <2>2. M!FinishRequest(outstanding, s, port, outstanding)
    BY <1>1 DEF M!MshcCompleteRequestBusyWorker, M!None, Named
  <2> QED BY <1>1, <2>1, <2>2, FinishFacts
<1>3. MaskInv' /\ OverInv'
  BY <1>0 DEF MshcComingInv, MaskInv, OverInv
<1>4. CASE outstanding = "port" /\ port = "wait" /\ stop = "none" /\ ~localPending
  <2>1. port' \in {"idle", "transfer", "failed"}
    BY <1>2, <1>4 DEF Finished, M!AfterCompletion
  <2>2. cmd = "None" /\ "CMD" \notin rint
    BY <1>1, <1>4 DEF MshcInv, PlaceInv, Waiting
  <2>3. BehindInv'
    BY <1>0, <1>4 DEF MshcComingInv, BehindInv, Waiting
  <2>4. HeldInv' /\ FailedInv' /\ StopInv'
    BY <1>0, <1>4, <2>1, <2>2 DEF HeldInv, FailedInv, StopInv
  <2> QED BY <1>3, <2>3, <2>4 DEF MshcComingInv
<1>5. CASE outstanding = "stop" /\ port = "resetDat" /\ stop = "wait" /\ localPending
  <2>1. port' = "resetDat" /\ localPending' = FALSE
    BY <1>2, <1>5 DEF Finished
  <2>2. BehindInv' /\ HeldInv' /\ FailedInv' /\ StopInv'
    BY <1>0, <1>5, <2>1 DEF BehindInv, HeldInv, FailedInv, StopInv, Waiting
  <2> QED BY <1>3, <2>2 DEF MshcComingInv
<1> QED BY <1>1, <1>4, <1>5

-----------------------------------------------------------------------------
(* Requests are issued and handed over.                                    *)

LEMMA IssueKeepsMshcComing ==
  ASSUME MshcInv, MshcComingInv, NEW r \in MshcRequests, M!MshcSlotIssueRequest(r)
  PROVE  MshcComingInv'
<1>1. /\ port = "idle" /\ portEvents' = {} /\ req' = r /\ port' = "wait"
      /\ required' = [required EXCEPT !["port"] = M!Awaited(r)] /\ currentErrors' = {}
      /\ mask \subseteq mask' /\ cmd' = "port"
      /\ UNCHANGED <<stop, worker, rint, data>>
  BY DEF M!MshcSlotIssueRequest, M!MshcSendCommand, M!local
<1>2. stop = "none" /\ data = "none" /\ rint \subseteq {"TI_RI", "HTO"}
  BY <1>1 DEF MshcInv, OwnerInv, IdleInv
<1>3. /\ r.method \in {"Undefined", "Pio", "SgDma"}
      /\ required'["port"] = M!Awaited(r) /\ "RESPONSE" \in M!Awaited(r)
  BY <1>1, MshcAssumption DEF MshcInv, MshcTypeOK, M!Awaited
<1>4. HasData' /\ ~Pio' => "RW_END" \in required'["port"]
  BY <1>1, <1>3 DEF HasData, Pio, M!IsData, M!Awaited
<1>5. MaskInv' /\ OverInv' /\ FailedInv' /\ StopInv'
  BY <1>1, <1>2 DEF MshcComingInv, MaskInv, OverInv, FailedInv, StopInv
<1>6. BehindInv' /\ HeldInv'
  BY <1>1, <1>2, <1>3, <1>4 DEF BehindInv, HeldInv, OtherBits, ErrorBits
<1> QED BY <1>5, <1>6 DEF MshcComingInv

LEMMA DmaKeepsMshcComing ==
  ASSUME MshcInv, MshcComingInv, M!MshcStartDmaTransfer
  PROVE  MshcComingInv'
<1>1. port = "transfer" /\ UNCHANGED <<stop, rint, mask, cmd, data, hung>>
  BY DEF M!MshcStartDmaTransfer, M!regs, M!bus
<1>2. port' \in {"idle", "failed"}
  BY MshcDmaKeeps
<1>3. stop = "none" /\ cmd = "None" /\ "CMD" \notin rint
  BY <1>1 DEF MshcInv, OwnerInv, PlaceInv, Waiting
<1>4. MaskInv' /\ OverInv' /\ BehindInv' /\ HeldInv' /\ FailedInv' /\ StopInv'
  BY <1>1, <1>2, <1>3 DEF MshcComingInv, MaskInv, OverInv, BehindInv, HeldInv, FailedInv, StopInv, Waiting
<1> QED BY <1>4 DEF MshcComingInv

LEMMA PioKeepsMshcComing ==
  ASSUME MshcInv, MshcComingInv, M!MshcStartPioTransfer
  PROVE  MshcComingInv'
<1>1. /\ port = "transfer" /\ type' = "StartTransfer" /\ mask \subseteq mask' /\ Pio /\ Pio'
      /\ \E n : rint' = (rint \ M!DataRequests) \cup M!DataRequest(n, data, left)
      /\ UNCHANGED <<portEvents, currentErrors, stop, cmd, data, hung>>
  BY DEF M!MshcStartPioTransfer, Pio
<1>2. /\ rint' \cap OtherBits = rint \cap OtherBits
      /\ "CMD" \in rint' <=> "CMD" \in rint
      /\ "DTO" \in rint' <=> "DTO" \in rint
      /\ "RTO" \in rint' <=> "RTO" \in rint
      /\ "DRTO" \in rint' <=> "DRTO" \in rint
  <2>1. \A n : M!DataRequest(n, data, left) \subseteq {"RXDR", "TXDR"}
    BY DEF M!DataRequest
  <2> QED BY <1>1, <2>1 DEF OtherBits, ErrorBits, M!DataRequests
<1>3. Waiting /\ stop = "none" /\ cmd = "None" /\ "CMD" \notin rint /\ "RTO" \notin rint
  <2>1. Waiting /\ stop = "none" /\ cmd = "None" /\ "CMD" \notin rint
    BY <1>1 DEF MshcInv, OwnerInv, PlaceInv, Waiting
  <2> QED BY <2>1 DEF MshcComingInv, BehindInv
<1>4. port' \in {"wait", "idle", "failed"} /\ MshcInv'
  BY MshcPioKeeps
<1>5. "RESPONSE" \notin required'["port"] \/ port' # "wait"
  <2>1. MPaced' # "RESPONSE"
    BY DEF MPaced, M!Paced
  <2> QED BY <1>1, <1>4, <2>1 DEF MshcInv, MshcPhaseInv, Waiting
<1>6. MaskInv' /\ OverInv' /\ HeldInv' /\ FailedInv' /\ StopInv'
  BY <1>1, <1>2, <1>3 DEF MshcComingInv, MaskInv, OverInv, HeldInv, FailedInv, StopInv
<1>7. BehindInv'
  BY <1>1, <1>2, <1>3, <1>4, <1>5 DEF BehindInv, Waiting
<1> QED BY <1>6, <1>7 DEF MshcComingInv

-----------------------------------------------------------------------------
(* Timeouts and resets, and the Stop.                                      *)

LEMMA QuietFacts ==
  ASSUME MaskInv, M!Quiet
  PROVE  /\ "CMD" \notin rint /\ "DTO" \notin rint /\ rint \cap ErrorBits = {}
         /\ portEvents = {} /\ ~localDpc /\ worker = 0
         /\ ~hung => cmd = "None" /\ data # "dead" /\ (data = "active" => req.method # "SgDma")
<1>1. {"CMD", "DTO", "RTO", "RCRC", "DRTO", "DCRC"} \subseteq mask
  BY DEF MaskInv, M!Bits, M!DataRequests
<1>2. rint \cap mask = {} /\ portEvents = {} /\ ~localDpc /\ worker = 0
  BY DEF M!Quiet
<1>3. ~hung => cmd = "None" /\ data # "dead" /\ (data = "active" => req.method # "SgDma")
  BY DEF M!Quiet, M!CanMove, M!None
<1>4. "CMD" \notin rint /\ "DTO" \notin rint /\ rint \cap ErrorBits = {}
  BY <1>1, <1>2 DEF ErrorBits
<1> QED BY <1>2, <1>3, <1>4

LEMMA ResetKeepsMshcComing ==
  ASSUME MshcInv, MshcComingInv, M!SdportTimeout \/ M!MshcResetHostCmd \/ M!MshcResetHostDat
  PROVE  MshcComingInv'
<1>1. CASE M!SdportTimeout
  <2>1. /\ port = "wait" /\ port' = "failed" /\ M!Quiet
        /\ UNCHANGED <<stop, rint, mask, cmd, data, hung>>
    BY <1>1 DEF M!SdportTimeout, M!regs, M!bus, M!local
  <2>2. "CMD" \notin rint /\ (hung \/ cmd = "None")
    BY <2>1, QuietFacts DEF MshcComingInv
  <2>3. stop = "none"
    BY <2>1 DEF MshcInv, OwnerInv
  <2>4. MaskInv' /\ OverInv' /\ BehindInv' /\ HeldInv' /\ FailedInv' /\ StopInv'
    BY <2>1, <2>2, <2>3 DEF MshcComingInv, MaskInv, OverInv, BehindInv, HeldInv, FailedInv, StopInv, Waiting
  <2> QED BY <2>4 DEF MshcComingInv
<1>2. CASE M!MshcResetHostCmd
  <2>1. /\ port = "failed" /\ port' \in {"resetDat", "idle"} /\ mask' = M!Bits /\ stop' = stop
        /\ \/ UNCHANGED <<rint, cmd, data, hung>>
           \/ rint' = {} /\ cmd' = "None"
    BY <1>2 DEF M!MshcResetHostCmd, M!ResetController, M!None, M!local
  <2>2. stop = "none"
    BY <2>1 DEF MshcInv, OwnerInv
  <2>3. OverInv' /\ FailedInv'
    BY <2>1, <2>2 DEF MshcComingInv, OverInv, FailedInv
  <2>4. MaskInv' /\ BehindInv' /\ HeldInv' /\ StopInv'
    BY <2>1, <2>2 DEF MaskInv, BehindInv, HeldInv, StopInv, Waiting
  <2> QED BY <2>3, <2>4 DEF MshcComingInv
<1>3. CASE M!MshcResetHostDat
  <2>1. /\ port = "resetDat" /\ stop = "none" /\ stop' = "issue" /\ UNCHANGED <<port, rint, mask, cmd, data, hung>>
    BY <1>3 DEF M!MshcResetHostDat, M!portVars, M!regs, M!bus
  <2>2. MaskInv' /\ OverInv' /\ BehindInv' /\ HeldInv' /\ FailedInv' /\ StopInv'
    BY <2>1 DEF MshcComingInv, MaskInv, OverInv, BehindInv, HeldInv, FailedInv, StopInv, Waiting
  <2> QED BY <2>2 DEF MshcComingInv
<1> QED BY <1>1, <1>2, <1>3

LEMMA StopKeepsMshcComing ==
  ASSUME MshcInv, MshcComingInv, M!IssueStop \/ M!StopReturns
  PROVE  MshcComingInv'
<1>1. CASE M!IssueStop
  <2>1. /\ stop = "issue" /\ stop' = "wait" /\ outstanding' = "stop"
        /\ required' = [required EXCEPT !["stop"] = {"RESPONSE"}]
        /\ currentEvents' = {} /\ currentErrors' = {} /\ mask' = mask /\ cmd' = "stop"
        /\ UNCHANGED <<port, rint, data, hung>>
    BY <1>1 DEF M!IssueStop, M!MshcSendCommand, M!Awaited, M!Stop, M!IsData, M!portVars
  <2>2. port = "resetDat" /\ "CMD" \notin rint /\ required'["stop"] = {"RESPONSE"}
    BY <2>1 DEF MshcInv, MshcTypeOK, OwnerInv, MshcComingInv, FailedInv
  <2>3. MaskInv' /\ OverInv' /\ BehindInv' /\ HeldInv' /\ FailedInv'
    BY <2>1, <2>2 DEF MshcComingInv, MaskInv, OverInv, BehindInv, HeldInv, FailedInv, Waiting
  <2>4. StopInv'
    BY <2>1, <2>2 DEF StopInv
  <2> QED BY <2>3, <2>4 DEF MshcComingInv
<1>2. CASE M!StopReturns
  <2>1. port' = "idle" /\ stop' = "none" /\ rint' = {} /\ mask' = mask
    BY <1>2 DEF M!StopReturns, M!ResetController
  <2>2. MaskInv' /\ OverInv' /\ BehindInv' /\ HeldInv' /\ FailedInv' /\ StopInv'
    BY <2>1 DEF MshcComingInv, MaskInv, OverInv, BehindInv, HeldInv, FailedInv, StopInv, Waiting
  <2> QED BY <2>2 DEF MshcComingInv
<1> QED BY <1>1, <1>2

LEMMA MshcComingInit ==
  ASSUME M!Init
  PROVE  MshcComingInv
<1>1. port = "idle" /\ stop = "none" /\ rint = {} /\ mask = M!Bits
  BY DEF M!Init
<1> QED BY <1>1 DEF MshcComingInv, MaskInv, OverInv, BehindInv, HeldInv, FailedInv, StopInv, Waiting

LEMMA MshcNextKeepsComing ==
  ASSUME MshcInv, MshcComingInv, [M!Next]_(M!vars)
  PROVE  MshcComingInv'
<1>1. CASE M!Controller
  BY <1>1, RespondKeepsMshcComing, RespondTimeoutKeepsComing, OthersKeepComing, DataEndsKeepComing DEF M!Controller
<1>2. CASE \E r \in MshcRequests : M!MshcSlotIssueRequest(r)
  BY <1>2, IssueKeepsMshcComing
<1>3. CASE M!PortDpc
  <2>1. MshcInv'
    BY <1>3, MshcPortDpcKeeps
  <2> QED BY <1>3, <2>1, PortDpcKeepsMshcComing
<1>4. CASE UNCHANGED M!vars
  <2>1. /\ UNCHANGED <<port, req, portEvents, outstanding, required, currentEvents, currentErrors>>
        /\ UNCHANGED <<localPending, localDpc, stop, worker, rint, mask, cmd, data, hung, bad, Pio, HasData>>
    BY <1>4 DEF M!vars, M!portVars, M!requests, M!current, M!local, M!regs, M!bus, Pio, HasData, M!IsData
  <2>2. MaskInv' /\ OverInv' /\ BehindInv' /\ HeldInv' /\ FailedInv' /\ StopInv'
    BY <2>1 DEF MshcComingInv, MaskInv, OverInv, BehindInv, HeldInv, FailedInv, StopInv, Waiting
  <2> QED BY <2>2 DEF MshcComingInv
<1> QED BY <1>1, <1>2, <1>3, <1>4, DmaKeepsMshcComing, PioKeepsMshcComing, InterruptKeepsMshcComing,
      LocalDpcKeepsMshcComing, WorkerKeepsMshcComing, ResetKeepsMshcComing, StopKeepsMshcComing DEF M!Next

\* When nothing moves any more, nothing is waited for.
LEMMA MshcComes ==
  ASSUME MshcInv, MshcComingInv
  PROVE  M!EventsComeOnce
<1> SUFFICES ASSUME M!Quiet, ~hung
             PROVE  ~(port = "wait" /\ ~Pio) /\ ~(stop = "wait" /\ localPending)
  BY DEF M!EventsComeOnce, Pio
<1>1. /\ "CMD" \notin rint /\ "DTO" \notin rint /\ rint \cap ErrorBits = {} /\ portEvents = {} /\ ~localDpc
      /\ worker = 0 /\ cmd = "None" /\ data # "dead" /\ (data = "active" => req.method # "SgDma")
  BY QuietFacts DEF MshcComingInv
<1>2. ASSUME port = "wait", ~Pio
      PROVE  FALSE
  <2>1. data = "none"
    BY <1>1, <1>2, MshcRequestFacts DEF MshcInv, MshcTypeOK, WireInv, Waiting, HasData, M!IsData, Pio
  <2>2. required["port"] # {} /\ required["port"] \subseteq {"RESPONSE", "RW_END"}
    <3>1. required["port"] \subseteq M!Awaited(req)
      BY <1>2 DEF MshcInv, MshcPhaseInv, Waiting
    <3>2. M!Awaited(req) \subseteq {"RESPONSE", "RW_END"}
      BY <1>2, MshcRequestFacts DEF MshcInv, M!Awaited, Pio
    <3> QED BY <1>1, <1>2, <3>1, <3>2 DEF MshcComingInv, HeldInv
  <2>3. "RESPONSE" \notin required["port"]
    BY <1>1, <1>2 DEF MshcComingInv, HeldInv
  <2>4. "RW_END" \notin required["port"]
    BY <1>1, <1>2, <2>1, <2>3 DEF MshcComingInv, HeldInv
  <2> QED BY <2>2, <2>3, <2>4
<1>3. ASSUME stop = "wait", localPending
      PROVE  FALSE
  BY <1>1, <1>3 DEF MshcComingInv, StopInv
<1> QED BY <1>2, <1>3

-----------------------------------------------------------------------------
(* Every step of dwcmshc is a step of the abstract request, or none.       *)

MshcRequest == INSTANCE SdRequest WITH
  turn <- Turn, parts <- M!PartsLeft, bus <- M!BusState, Parts <- {0, 1} \cup {r.chunks : r \in MshcRequests}

MshcStep == [MshcRequest!Next]_(MshcRequest!vars)

LEMMA MshcTurnOf ==
  ASSUME MshcInv
  PROVE  Turn = Going /\ M!Turn = Going
  BY DEF MshcInv, MshcTypeOK, Turn, M!Turn, M!None, Going

LEMMA MshcTurnOfNext ==
  ASSUME MshcInv'
  PROVE  Turn' = Going' /\ M!Turn' = Going'
  BY DEF MshcInv, MshcTypeOK, Turn, M!Turn, M!None, Going

LEMMA MshcIdleFree ==
  ASSUME MshcInv, IdleInv, port = "idle"
  PROVE  M!BusState = "free" /\ Turn = "idle" /\ M!PartsLeft = 0
<1>1. Turn = "idle" /\ M!Turn = "idle"
  BY MshcTurnOf, MshcTurnOfNext DEF Going
<1>2. M!BusState = "free"
  <2>1. ~(fifo > 0) /\ ~(left > 0)
    BY DEF IdleInv
  <2> QED BY <2>1 DEF IdleInv, M!BusState, M!None
<1> QED BY <1>1, <1>2 DEF M!PartsLeft

LEMMA MshcIdleFreeNext ==
  ASSUME MshcInv', IdleInv', port' = "idle"
  PROVE  M!BusState' = "free" /\ Turn' = "idle" /\ M!PartsLeft' = 0
<1>1. Turn' = "idle" /\ M!Turn' = "idle"
  BY MshcTurnOf, MshcTurnOfNext DEF Going
<1>2. M!BusState' = "free"
  <2>1. ~(fifo' > 0) /\ ~(left' > 0)
    BY DEF IdleInv
  <2> QED BY <2>1 DEF IdleInv, M!BusState, M!None
<1> QED BY <1>1, <1>2 DEF M!PartsLeft

\* The bus is free when all is done.
LEMMA MshcDoneFree ==
  ASSUME MshcTypeOK, MshcDone, ~busy, port # "idle"
  PROVE  M!BusState = "free"
<1>1. ~(left > 0)
  BY DEF MshcDone
<1> QED BY <1>1 DEF MshcDone, M!BusState, M!None

\* What leaves the request alone moves the bus.
LEMMA MshcBusStep ==
  ASSUME MshcInv, MshcInv', UNCHANGED <<req, type, remaining>>, Turn' = Turn,
         bad /\ Turn # "failed" => bad', port = "idle" <=> port' = "idle"
  PROVE  MshcStep
<1>1. M!PartsLeft' = M!PartsLeft
  BY MshcTurnOf, MshcTurnOfNext DEF M!PartsLeft
<1>2. CASE port = "idle"
  <2>1. IdleInv /\ IdleInv'
    BY DEF MshcInv
  <2> QED BY <1>2, <2>1, MshcIdleFree, MshcIdleFreeNext DEF MshcStep, MshcRequest!vars
<1>3. CASE port # "idle"
  <2>1. Turn # "idle"
    BY <1>3, MshcTurnOf, MshcTurnOfNext DEF MshcInv, MshcTypeOK, Going
  <2>2. M!BusState' \in {"free", "used", "bad"} /\ (bad' => M!BusState' = "bad")
    BY <1>3 DEF M!BusState
  <2>3. M!BusState = "bad" => bad
    BY DEF M!BusState
  <2> QED BY <1>1, <2>1, <2>2, <2>3 DEF MshcStep, MshcRequest!Next, MshcRequest!Bus
<1> QED BY <1>2, <1>3

LEMMA MshcControllerStep ==
  ASSUME MshcInv, MshcInv', M!Controller
  PROVE  MshcStep
<1>1. UNCHANGED <<port, req, type, remaining>>
  BY MshcControllerLeaves DEF MshcDriver, portVars
<1>2. bad => bad'
  <2>1. bad \in BOOLEAN
    BY DEF MshcInv, MshcTypeOK
  <2> QED BY <2>1 DEF M!Controller, M!Respond, M!RespondTimeout, M!MoveChunk, M!Starve, M!DataOver, M!DmaComplete,
        M!BadBlock, M!DataTimeout, M!CardIdle, M!Hang, M!bus
<1>3. Turn' = Turn
  BY <1>1, MshcTurnOf, MshcTurnOfNext DEF Going
<1> QED BY <1>1, <1>2, <1>3, MshcBusStep

LEMMA MshcIssueStep ==
  ASSUME MshcInv, MshcInv', NEW r \in MshcRequests, M!MshcSlotIssueRequest(r)
  PROVE  MshcStep
<1>1. /\ port = "idle" /\ port' = "wait" /\ req' = r /\ type' # "StartTransfer" /\ cmd' = "port" /\ bad' = FALSE
      /\ remaining' = IF M!IsData(r) THEN r.chunks ELSE remaining
  BY DEF M!MshcSlotIssueRequest, M!MshcSendCommand
<1>2. M!BusState' = "used" /\ Turn' = "host" /\ M!Turn' = "host"
  BY <1>1, MshcTurnOf, MshcTurnOfNext DEF M!BusState, M!None, Going
<1>3. M!PartsLeft' \in {0, 1} \cup {q.chunks : q \in MshcRequests}
  BY <1>1, <1>2 DEF M!PartsLeft, M!IsData
<1>4. IdleInv
  BY DEF MshcInv
<1> QED BY <1>1, <1>2, <1>3, <1>4, MshcIdleFree DEF MshcStep, MshcRequest!Next, MshcRequest!Issue

LEMMA MshcTransferStep ==
  ASSUME MshcInv, MshcInv', M!MshcStartDmaTransfer \/ M!MshcStartPioTransfer
  PROVE  MshcStep
<1>1. CASE M!MshcStartDmaTransfer
  <2>1. port = "transfer" /\ Turn = "port" /\ M!Turn = "port" /\ req.method = "SgDma"
    BY <1>1, MshcTurnOf, MshcTurnOfNext DEF M!MshcStartDmaTransfer, Going
  <2>2. /\ port' \in {"idle", "failed"} /\ MshcDone /\ ~busy /\ UNCHANGED <<req, cmd, data, left, busy, bad>>
    BY <1>1, MshcDmaKeeps
  <2>3. M!PartsLeft = 1
    BY <2>1 DEF M!PartsLeft, MshcInv, MshcPhaseInv, Waiting, Pio
  <2>4. M!BusState = "free"
    BY <2>1, <2>2, MshcDoneFree DEF MshcInv
  <2>5. CASE port' = "idle"
    <3>1. IdleInv'
      BY DEF MshcInv
    <3> QED BY <2>1, <2>3, <2>4, <2>5, <3>1, MshcIdleFreeNext DEF MshcStep, MshcRequest!Next, MshcRequest!Succeed
  <2>6. CASE port' = "failed"
    <3>1. Turn' = "failed" /\ M!PartsLeft' = 0
      BY <2>6, MshcTurnOf, MshcTurnOfNext DEF M!PartsLeft, Going
    <3>2. M!BusState' = M!BusState
      BY <2>1, <2>2, <2>6 DEF M!BusState
    <3> QED BY <2>1, <3>1, <3>2 DEF MshcStep, MshcRequest!Next, MshcRequest!Fail
  <2> QED BY <2>2, <2>5, <2>6
<1>2. CASE M!MshcStartPioTransfer
  <2>1. port = "transfer" /\ Turn = "port" /\ M!Turn = "port" /\ req.method = "Pio"
    BY <1>2, MshcTurnOf, MshcTurnOfNext DEF M!MshcStartPioTransfer, Going
  <2>2. /\ port' \in {"wait", "idle", "failed"} /\ type' = "StartTransfer" /\ remaining' = remaining - 1
        /\ port' = "idle" => remaining = 1 /\ MshcDone /\ ~busy
        /\ UNCHANGED <<req, cmd, data, left, busy, bad>>
    BY <1>2, MshcPioKeeps
  <2>3. M!PartsLeft = remaining
    BY <2>1 DEF M!PartsLeft
  <2>4. port' # "idle" => M!BusState' = M!BusState
    BY <2>1, <2>2 DEF M!BusState
  <2>5. CASE port' = "wait"
    <3>1. Turn' = "host" /\ M!PartsLeft' = remaining - 1
      BY <2>1, <2>2, <2>5, MshcTurnOf, MshcTurnOfNext DEF M!PartsLeft, Going
    <3>2. M!BusState' = M!BusState
      BY <2>4, <2>5
    <3> QED BY <2>1, <2>3, <3>1, <3>2 DEF MshcStep, MshcRequest!Next, MshcRequest!HandOver
  <2>6. CASE port' = "idle"
    <3>1. IdleInv'
      BY DEF MshcInv
    <3>2. M!BusState = "free" /\ M!PartsLeft = 1
      BY <2>1, <2>2, <2>3, <2>6, MshcDoneFree DEF MshcInv
    <3> QED BY <2>1, <2>6, <3>1, <3>2, MshcIdleFreeNext DEF MshcStep, MshcRequest!Next, MshcRequest!Succeed
  <2>7. CASE port' = "failed"
    <3>1. Turn' = "failed" /\ M!PartsLeft' = 0
      BY <2>7, MshcTurnOf, MshcTurnOfNext DEF M!PartsLeft, Going
    <3>2. M!BusState' = M!BusState
      BY <2>4, <2>7
    <3> QED BY <2>1, <3>1, <3>2 DEF MshcStep, MshcRequest!Next, MshcRequest!Fail
  <2> QED BY <2>2, <2>5, <2>6, <2>7
<1> QED BY <1>1, <1>2

\* The DPCs and the work item leave the bus alone.
LEMMA MshcDpcStep ==
  ASSUME MshcInv, MshcInv', Goes, UNCHANGED <<req, type, remaining, cmd, data, left, busy, bad>>
  PROVE  MshcStep
<1>1. CASE port' = port
  <2>1. Turn' = Turn
    BY <1>1, MshcTurnOf, MshcTurnOfNext DEF Going
  <2> QED BY <1>1, <2>1, MshcBusStep
<1>2. CASE port' # port
  <2>1. port = "wait" /\ Turn = "host" /\ M!Turn = "host" /\ port' \in {"failed", "transfer", "idle"}
    BY <1>2, MshcTurnOf, MshcTurnOfNext DEF Goes, Going
  <2>2. port' # "idle" => M!BusState' = M!BusState
    BY <2>1 DEF M!BusState
  <2>3. CASE port' = "failed"
    <3>1. Turn' = "failed" /\ M!PartsLeft' = 0
      BY <2>3, MshcTurnOf, MshcTurnOfNext DEF M!PartsLeft, Going
    <3>2. M!BusState' = M!BusState
      BY <2>2, <2>3
    <3> QED BY <2>1, <3>1, <3>2 DEF MshcStep, MshcRequest!Next, MshcRequest!Fail
  <2>4. CASE port' = "transfer"
    <3>1. Turn' = "port" /\ M!Turn' = "port" /\ M!BusState' = M!BusState
      BY <2>2, <2>4, MshcTurnOf, MshcTurnOfNext DEF Going
    <3>2. M!PartsLeft' = M!PartsLeft
      BY <2>1, <3>1 DEF M!PartsLeft
    <3>3. M!PartsLeft > 0
      <4>1. HasData /\ (type = "StartTransfer" => Pio) /\ (Pio => remaining > 0)
        BY <2>4 DEF MshcInv, MshcPhaseInv, Waiting, HasData, Pio, M!IsData
      <4>2. MshcTypeOK
        BY DEF MshcInv
      <4>3. CASE Pio
        BY <2>1, <4>1, <4>3 DEF M!PartsLeft, Pio
      <4>4. CASE ~Pio
        <5>1. req.method = "SgDma" /\ type # "StartTransfer"
          BY <4>1, <4>2, <4>4, MshcRequestFacts DEF HasData, M!IsData, Pio
        <5>2. M!PartsLeft = 1
          BY <2>1, <5>1 DEF M!PartsLeft
        <5> QED BY <5>2
      <4> QED BY <4>3, <4>4
    <3> QED BY <2>1, <3>1, <3>2, <3>3 DEF MshcStep, MshcRequest!Next, MshcRequest!Ask
  <2>5. CASE port' = "idle"
    <3>1. IdleInv'
      BY DEF MshcInv
    <3>2. MshcDone /\ ~busy /\ (HasData => Pio /\ remaining = 0)
      BY <1>2, <2>5 DEF Goes
    <3>3. M!BusState = "free"
      BY <2>1, <3>2, MshcDoneFree DEF MshcInv
    <3>4. M!PartsLeft = 0
      BY <3>2 DEF M!PartsLeft, HasData, Pio, M!IsData
    <3> QED BY <2>1, <2>5, <3>1, <3>3, <3>4, MshcIdleFreeNext DEF MshcStep, MshcRequest!Next, MshcRequest!Succeed
  <2> QED BY <2>1, <2>3, <2>4, <2>5
<1> QED BY <1>1, <1>2

LEMMA MshcResetStep ==
  ASSUME MshcInv, MshcInv',
         M!SdportTimeout \/ M!MshcResetHostCmd \/ M!MshcResetHostDat \/ M!IssueStop \/ M!StopReturns
  PROVE  MshcStep
<1>1. CASE M!SdportTimeout
  <2>1. /\ port = "wait" /\ port' = "failed" /\ UNCHANGED <<cmd, data, left, fifo, busy, bad>>
    BY <1>1 DEF M!SdportTimeout, M!bus
  <2>2. Turn = "host" /\ Turn' = "failed" /\ M!PartsLeft' = 0
    BY <2>1, MshcTurnOf, MshcTurnOfNext DEF M!PartsLeft, Going
  <2>3. M!BusState' = M!BusState
    BY <2>1 DEF M!BusState
  <2> QED BY <2>2, <2>3 DEF MshcStep, MshcRequest!Next, MshcRequest!Fail
<1>2. CASE ~M!SdportTimeout
  <2>1. port \in {"failed", "resetDat"} /\ port' \in {"failed", "resetDat", "idle"} /\ UNCHANGED <<req, type, remaining>>
    <3>1. stop # "none" => port = "resetDat"
      BY DEF MshcInv, OwnerInv
    <3> QED BY <1>2, <3>1 DEF M!MshcResetHostCmd, M!MshcResetHostDat, M!IssueStop, M!StopReturns, M!MshcSendCommand,
          M!IsData, M!Stop, M!portVars
  <2>2. Turn = "failed" /\ M!PartsLeft = 0
    BY <2>1, MshcTurnOf, MshcTurnOfNext DEF M!PartsLeft, Going
  <2>3. CASE port' = "idle"
    <3>1. IdleInv'
      BY DEF MshcInv
    <3> QED BY <2>2, <2>3, <3>1, MshcIdleFreeNext DEF MshcStep, MshcRequest!Next, MshcRequest!Recover
  <2>4. CASE port' # "idle"
    <3>1. Turn' = "failed"
      BY <2>1, <2>4, MshcTurnOf, MshcTurnOfNext DEF Going
    <3> QED BY <2>1, <2>2, <2>4, <3>1, MshcBusStep
  <2> QED BY <2>3, <2>4
<1> QED BY <1>1, <1>2

LEMMA MshcNextStep ==
  ASSUME MshcInv, MshcInv', [M!Next]_(M!vars)
  PROVE  MshcStep
<1>1. CASE M!PortDpc \/ M!MshcLocalRequestDpc \/ M!MshcCompleteRequestBusyWorker
  <2>1. Goes
    BY <1>1, MshcPortDpcKeeps, MshcLocalDpcKeeps, MshcWorkerKeeps
  <2>2. UNCHANGED <<req, type, remaining, cmd, data, left, busy, bad>>
    BY <1>1 DEF M!PortDpc, M!MshcLocalRequestDpc, M!MshcCompleteRequestBusyWorker, M!bus
  <2> QED BY <2>1, <2>2, MshcDpcStep
<1>2. CASE M!MshcSlotInterrupt \/ UNCHANGED M!vars
  <2>1. UNCHANGED <<port, req, type, remaining, bad>>
    BY <1>2 DEF M!MshcSlotInterrupt, M!vars, M!portVars, M!bus
  <2>2. Turn' = Turn
    BY <2>1, MshcTurnOf, MshcTurnOfNext DEF Going
  <2> QED BY <2>1, <2>2, MshcBusStep
<1>3. CASE \E r \in MshcRequests : M!MshcSlotIssueRequest(r)
  BY <1>3, MshcIssueStep
<1> QED BY <1>1, <1>2, <1>3, MshcControllerStep, MshcTransferStep, MshcResetStep DEF M!Next

-----------------------------------------------------------------------------
(* The two hosts together.                                                 *)

HostInv ==
  /\ host \in {"dwcsdhc", "dwcmshc"}
  /\ host = "dwcsdhc" => SdhcInv
  /\ host = "dwcmshc" => MshcInv

HostStep == [Abstract!Next]_(Abstract!vars)

LEMMA HostInitHolds ==
  ASSUME HostInit
  PROVE  HostInv /\ Abstract!Init
<1>1. CASE host = "dwcsdhc" /\ Init
  <2>1. AsRequest!Init
    BY <1>1, InitStep
  <2> QED BY <1>1, <2>1, InitHolds DEF HostInv, SdhcInv, AsRequest!Init, Abstract!Init
<1>2. CASE host = "dwcmshc" /\ M!Init
  <2>1. MshcInv /\ IdleInv /\ port = "idle"
    BY <1>2, MshcInitHolds DEF MshcInv, M!Init
  <2> QED BY <1>2, <2>1, MshcIdleFree DEF HostInv, Abstract!Init
<1> QED BY <1>1, <1>2 DEF HostInit

\* Either host keeps its own invariant, and the other one keeps still.
LEMMA HostNextKeeps ==
  ASSUME HostInv, [HostNext]_hostVars
  PROVE  HostInv' /\ HostStep
<1>1. host' = host
  BY DEF HostNext, hostVars
<1>2. CASE host = "dwcsdhc"
  <2>1. [Next]_vars
    BY <1>2 DEF HostNext, hostVars
  <2>2. SdhcInv' /\ Step
    BY <1>2, <2>1, SdhcKeeps DEF HostInv
  <2>4. HostStep
    <3>1. {0, 1} \cup Blocks \subseteq {0, 1} \cup {r.blocks : r \in Requests} \cup {r.chunks : r \in MshcRequests}
      BY DEF Blocks
    <3> QED BY <1>1, <1>2, <2>2, <3>1 DEF HostStep, Step, Abstract!vars, AsRequest!vars, Abstract!Next, AsRequest!Next,
          Abstract!Issue, AsRequest!Issue, Abstract!Bus, AsRequest!Bus, Abstract!Ask, AsRequest!Ask,
          Abstract!HandOver, AsRequest!HandOver, Abstract!Succeed, AsRequest!Succeed, Abstract!Fail, AsRequest!Fail,
          Abstract!Recover, AsRequest!Recover
  <2> QED BY <1>1, <1>2, <2>2, <2>4 DEF HostInv
<1>3. CASE host = "dwcmshc"
  <2>1. [M!Next]_(M!vars)
    BY <1>3 DEF HostNext, hostVars, mshcOnly, vars, portVars, request, bus, M!vars, M!portVars, M!requests, M!current,
      M!local, M!regs, M!bus
  <2>2. MshcInv /\ MshcInv'
    BY <1>3, <2>1, MshcNextKeeps DEF HostInv
  <2>3. MshcStep
    BY <2>1, <2>2, MshcNextStep
  <2>4. HostStep
    BY <1>1, <1>3, <2>3 DEF HostStep, MshcStep, Abstract!vars, MshcRequest!vars, Abstract!Next, MshcRequest!Next,
      Abstract!Issue, MshcRequest!Issue, Abstract!Bus, MshcRequest!Bus, Abstract!Ask, MshcRequest!Ask,
      Abstract!HandOver, MshcRequest!HandOver, Abstract!Succeed, MshcRequest!Succeed, Abstract!Fail, MshcRequest!Fail,
      Abstract!Recover, MshcRequest!Recover
  <2> QED BY <1>1, <1>3, <2>2, <2>4 DEF HostInv
<1> QED BY <1>2, <1>3 DEF HostInv

-----------------------------------------------------------------------------
(* Theorems.                                                               *)

LEMMA HostInductive == HostSpec => []HostInv
  BY HostInitHolds, HostNextKeeps, PTL DEF HostSpec

\* To sdport either host is what SdRequest says, whatever the requests and the depth of the
\* FIFO: a request goes on part by part and ends once, and well only if the bus has done all
\* of it without an error; whatever became of it, the next one finds the bus free and the
\* FIFO empty.  Of dwcsdhc this says nothing from a DPC on that comes between two phases of
\* a request.
THEOREM HostsImplement == HostSpec => HostsImplementSdRequest
  BY HostInitHolds, HostInductive, HostNextKeeps, PTL DEF HostSpec, HostsImplementSdRequest, Abstract!Spec, HostStep

\* Whenever sdport hands over a part of a programmed transfer and no error has ended it,
\* the FIFO has a chunk of data or room for one: no data request, acknowledged or still
\* standing, is taken for two by SdhcStartPioTransfer or MshcStartPioTransfer.
THEOREM PioAlwaysFindsPart == HostSpec => []PioFindsPart
<1>1. SdhcInv => PioFindsBlock
  BY DEF SdhcInv, Stopped, IInv, PacedInv, PioFindsBlock, Ready, Waiting
<1>2. MshcInv => M!PioFindsChunk
  <2> SUFFICES ASSUME MshcInv, port = "transfer", Pio
               PROVE  IF req.write THEN fifo < FifoChunks ELSE fifo > 0
    BY DEF M!PioFindsChunk, Pio
  <2>1. remaining > 0
    BY DEF MshcInv, MshcPhaseInv, Waiting
  <2>2. /\ left <= req.chunks /\ (req.write => fifo + remaining = left) /\ (~req.write => fifo > 0)
    BY <2>1 DEF MshcInv, FifoInv, Waiting
  <2>3. req.write => req.chunks <= FifoChunks
    BY MshcRequestFacts DEF MshcInv
  <2>4. fifo \in Nat /\ left \in Nat /\ remaining \in Int /\ req.chunks \in Nat /\ FifoChunks \in Nat
    BY MshcRequestFacts, MshcAssumption DEF MshcInv, MshcTypeOK
  <2> QED BY <2>1, <2>2, <2>3, <2>4
<1>3. HostInv => PioFindsPart
  BY <1>1, <1>2 DEF HostInv, PioFindsPart
<1> QED BY <1>3, HostInductive, PTL

\* dwcmshc tells sdport once of the end of a request or of a phase of it, no matter which
\* late events come while the card is still busy with it, and does not queue the work item
\* that waits for the busy signal twice; dwcsdhc does unless its DPC comes between two phases.
THEOREM HostsCompleteOnce ==
  HostSpec => /\ CompletedOnce
              /\ [][CompletedOnce => CompletedOnce' \/ (host = "dwcsdhc" /\ port = "transfer" /\ PortDpc)]_hostVars
<1>1. HostInit => CompletedOnce
  BY DEF HostInit, Init, M!Init, M!None, CompletedOnce
<1>2. HostInv /\ HostInv' /\ [HostNext]_hostVars =>
        [CompletedOnce => CompletedOnce' \/ (host = "dwcsdhc" /\ port = "transfer" /\ PortDpc)]_hostVars
  <2> SUFFICES ASSUME HostInv, HostInv', [HostNext]_hostVars, CompletedOnce
               PROVE  CompletedOnce' \/ (host = "dwcsdhc" /\ port = "transfer" /\ PortDpc)
    OBVIOUS
  <2>1. CASE host = "dwcsdhc"
    <3>1. [Next]_vars
      BY <2>1 DEF HostNext, hostVars
    <3> QED BY <2>1, <3>1, OnlyLateCompletesTwice DEF HostInv, LateDpc
  <2>2. CASE host = "dwcmshc"
    <3>1. host' = host
      BY DEF HostNext, hostVars
    <3> QED BY <2>2, <3>1 DEF HostInv, MshcInv, MshcTypeOK, M!None, CompletedOnce
  <2> QED BY <2>1, <2>2 DEF HostInv
<1> QED BY <1>1, <1>2, HostInductive, PTL DEF HostSpec

\* With dwcsdhc any request, and with dwcmshc one that it does not pace by hand, or its Stop,
\* is waited for in vain only if the card hangs: no event is lost because it comes too early,
\* after a timeout or with an error, and no late response is taken for that to the Stop.
THEOREM EventsAlwaysComeOnEither == HostSpec => []EventsComeOnceOnEither
<1> DEFINE Coming == /\ host = "dwcsdhc" => (IInv => ComingInv)
                     /\ host = "dwcmshc" => MshcComingInv
<1>1. HostInit => Coming
  <2>1. Init => ComingInv
    BY DEF Init, ComingInv, Waiting
  <2> QED BY <2>1, MshcComingInit DEF HostInit
<1>2. HostInv /\ HostInv' /\ Coming /\ [HostNext]_hostVars => Coming'
  <2> SUFFICES ASSUME HostInv, HostInv', Coming, [HostNext]_hostVars
               PROVE  Coming'
    OBVIOUS
  <2>1. host' = host
    BY DEF HostNext, hostVars
  <2>2. CASE host = "dwcsdhc"
    <3>1. [Next]_vars
      BY <2>2 DEF HostNext, hostVars
    <3> QED BY <2>1, <2>2, <3>1, SdhcKeepsComing DEF HostInv
  <2>3. CASE host = "dwcmshc"
    <3>1. [M!Next]_(M!vars)
      BY <2>3 DEF HostNext, hostVars, mshcOnly, vars, portVars, request, bus, M!vars, M!portVars, M!requests, M!current,
        M!local, M!regs, M!bus
    <3> QED BY <2>1, <2>3, <3>1, MshcNextKeepsComing DEF HostInv
  <2> QED BY <2>1, <2>2, <2>3 DEF HostInv
<1>3. HostInv /\ Coming => EventsComeOnceOnEither
  BY ComingMoves, MshcComes DEF HostInv, SdhcInv, Stopped, EventsComeOnceOnEither, EventsComeOnce
<1> HIDE DEF Coming
<1>4. HostSpec => []Coming
  BY <1>1, <1>2, HostInductive, PTL DEF HostSpec
<1> QED BY <1>3, <1>4, HostInductive, PTL

-----------------------------------------------------------------------------
(* The bus operations.                                                     *)

\* In the middle of an operation that changes what the card is clocked with, it is not.
GatedInv ==
  /\ part = "dwcmshc" => /\ op \in {"program", "enable"} => ~on /\ ~clkena
                         /\ on \in BOOLEAN /\ clkena \in BOOLEAN /\ div = 0 /\ clkdiv = 0
  /\ part = "dwcsdhc" => (op \in {"rk", "uhs", "signaling"} => ~enable)

\* It holds at first, and no step of either driver breaks it or changes a clocked bus.
LEMMA GatedInit == MCInit => GatedInv
  BY DEF MCInit, SdAtRest, B!BusInit, B!Init, B!S!Init, GatedInv, B!NoMshc, B!NoSdhc, B!NoTables, B!T!Init

LEMMA MshcGated ==
  ASSUME part = "dwcmshc", part' = part, GatedInv, B!Next
  PROVE  GatedInv' /\ (<<cru, div>>' # <<cru, div>> => ~on \/ ~on')
<1> USE DEF GatedInv, B!MshcCiuUpdateClock
<1>1. CASE B!MshcSetClock
  BY <1>1 DEF B!MshcSetClock, B!GateClock
<1>2. CASE B!ProgramClock
  BY <1>2 DEF B!ProgramClock
<1>3. CASE B!EnableClock
  BY <1>3 DEF B!EnableClock
<1>4. CASE B!MshcSetSignalingVoltage
  BY <1>4 DEF B!MshcSetSignalingVoltage
<1>5. CASE B!MshcResetHost
  BY <1>5 DEF B!MshcResetHost, B!GateClock
<1>6. CASE B!MshcSetBusSpeed \/ B!DataCrcError
  BY <1>6 DEF B!MshcSetBusSpeed, B!DataCrcError, B!clock
<1>7. CASE B!MshcExecuteTuning \/ B!MshcResetHostDat
  BY <1>7 DEF B!MshcExecuteTuning, B!MshcResetHostDat, B!StartTuning, B!clock
<1>8. CASE B!TryPhase \/ B!EndTuning
  BY <1>8 DEF B!TryPhase, B!EndTuning, B!clock
<1> QED BY <1>1, <1>2, <1>3, <1>4, <1>5, <1>6, <1>7, <1>8 DEF B!Next

LEMMA SdhcGated ==
  ASSUME part = "dwcsdhc", part' = part, GatedInv, B!S!Next
  PROVE  GatedInv' /\ (<<cru, uhs, volt18>>' # <<cru, uhs, volt18>> => ~B!S!Clocked \/ ~B!S!Clocked')
<1> USE DEF GatedInv, B!S!Clocked, B!S!Step, B!S!End, B!S!clock, B!S!hc2, B!S!others
<1>1. CASE B!S!SdhcSetClock \/ B!S!DwcSdhcRkSetClock \/ B!S!WaitStable
  BY <1>1 DEF B!S!SdhcSetClock, B!S!StopClock, B!S!DwcSdhcRkSetClock, B!S!WaitStable
<1>2. CASE B!S!SdhcSetUhsMode \/ B!S!WriteUhsMode
  BY <1>2 DEF B!S!SdhcSetUhsMode, B!S!WriteUhsMode
<1>3. CASE B!S!SdhcSetSignaling \/ B!S!SwitchSignaling
  BY <1>3 DEF B!S!SdhcSetSignaling, B!S!SwitchSignaling
<1>4. CASE B!S!SdhcSetHighSpeed \/ B!S!SdhcSetBusWidth \/ B!S!SdhcSetVoltage
  BY <1>4 DEF B!S!SdhcSetHighSpeed, B!S!SdhcSetBusWidth, B!S!SdhcSetVoltage
<1>5. CASE B!S!SdhcExecuteTuning \/ B!S!SdhcSetPresetValue
  BY <1>5 DEF B!S!SdhcExecuteTuning, B!S!SdhcSetPresetValue
<1>6. CASE B!S!SdhcResetHostAll \/ B!S!SdhcResetHost
  BY <1>6 DEF B!S!SdhcResetHostAll, B!S!SdhcResetHost
<1> QED BY <1>1, <1>2, <1>3, <1>4, <1>5, <1>6 DEF B!S!Next

Gated ==
  /\ part = "dwcmshc" => (<<cru, div>>' # <<cru, div>> => ~on \/ ~on')
  /\ part = "dwcsdhc" => (<<cru, uhs, volt18>>' # <<cru, uhs, volt18>> => ~B!S!Clocked \/ ~B!S!Clocked')

LEMMA GatedNext ==
  ASSUME GatedInv, [MCNext]_<<hostVars, part, bus1, bus2, bus3>>
  PROVE  GatedInv' /\ [Gated]_(B!busVars)
<1>1. CASE part = "dwcmshc" /\ B!Next /\ part' = part
  BY <1>1, MshcGated DEF Gated
<1>2. CASE part = "dwcsdhc" /\ B!S!Next /\ part' = part
  BY <1>2, SdhcGated DEF Gated
<1>3. CASE part \notin {"dwcmshc", "dwcsdhc"} /\ part' = part
  BY <1>3 DEF GatedInv, Gated
<1>4. CASE UNCHANGED <<part, bus1, bus2, bus3>>
  <2>1. UNCHANGED <<part, op, on, clkena, div, clkdiv, enable, internal, intclk, cru, uhs, volt18>>
    BY <1>4 DEF bus1, bus2, bus3
  <2>2. GatedInv'
    BY <2>1 DEF GatedInv
  <2>3. Gated
    BY <2>1 DEF Gated
  <2> QED BY <2>2, <2>3
<1> QED BY <1>1, <1>2, <1>3, <1>4 DEF MCNext, B!BusNext

\* On the eMMC the SoC's divider, the UHS mode and the signaling, on the SD card parent and
\* dividers change only while the card is not clocked, whichever step of SdSetClock,
\* SetSignaling or reset has failed before.  Nothing is said of the speed mode and the
\* voltage of dwcmshc nor of SdhcSetHighSpeed, which change under a running clock.
THEOREM ChangesGated == MCSpec => BusChangesGated
  BY GatedInit, GatedNext, PTL DEF MCSpec, BusChangesGated, B!BusChangesGated, Gated

-----------------------------------------------------------------------------
(* The descriptor tables.                                                  *)

Elements    == [addr : Int, len : Nat \ {0}]
Descriptors == [addr : Int, len : Nat, valid : BOOLEAN, last : BOOLEAN, quiet : BOOLEAN]

\* The bytes of a piece of memory, those of the elements of a list and of the first of them.
Bytes(addr, len) == [j \in 1 .. len |-> addr + j - 1]
Pieces(l) == [i \in DOMAIN l |-> Bytes(l[i].addr, l[i].len)]
First(l)  == CHOOSE F : Flattens(Int, Pieces(l), F)

\* The bytes of the first k descriptors of a table are G[k].
Piled(G, tab, n) ==
  /\ G \in [0 .. n -> Seq(Int)] /\ G[0] = <<>>
  /\ \A k \in 1 .. n : G[k] = G[k - 1] \o Bytes(tab[k].addr, tab[k].len)

\* There is room for n[i] descriptors of the first i elements.
Room(n, l) ==
  /\ n \in [0 .. Len(l) -> 0 .. Slots]
  /\ \A i \in 1 .. Len(l) : (n[i] - n[i - 1]) * MaxLength >= l[i].len

\* Joining bytes is associative.
LEMMA JoinedThrice ==
  ASSUME NEW s \in Seq(Int), NEW t \in Seq(Int), NEW u \in Seq(Int)
  PROVE  (s \o t) \o u = s \o (t \o u)
  BY ConcatAssociative

\* A piece of memory is its first part and the rest.
LEMMA PieceSplit ==
  ASSUME NEW a \in Int, NEW m \in Nat, NEW n \in Nat
  PROVE  /\ Bytes(a, m) \in Seq(Int) /\ Len(Bytes(a, m)) = m
         /\ Bytes(a, 0) = <<>>
         /\ Bytes(a, m + n) = Bytes(a, m) \o Bytes(a + m, n)
<1>1. \A b \in Int, k \in Nat : /\ Bytes(b, k) \in Seq(Int) /\ Len(Bytes(b, k)) = k
                                /\ \A j \in 1 .. k : Bytes(b, k)[j] = b + j - 1
  BY DEF Bytes
<1>2. Bytes(a, 0) = <<>>
  BY <1>1, LenZero
<1>3. Bytes(a, m + n) = Bytes(a, m) \o Bytes(a + m, n)
  <2> DEFINE s == Bytes(a, m)
             t == Bytes(a + m, n)
             u == Bytes(a, m + n)
  <2>1. /\ s \in Seq(Int) /\ t \in Seq(Int) /\ u \in Seq(Int)
        /\ Len(s) = m /\ Len(t) = n /\ Len(u) = m + n
        /\ \A j \in 1 .. m : s[j] = a + j - 1
        /\ \A j \in 1 .. n : t[j] = a + m + j - 1
        /\ \A j \in 1 .. m + n : u[j] = a + j - 1
    BY <1>1
  <2> HIDE DEF s, t, u
  <2>2. /\ s \o t \in Seq(Int) /\ Len(s \o t) = m + n
        /\ \A j \in 1 .. m + n : (s \o t)[j] = IF j <= m THEN s[j] ELSE t[j - m]
    BY <2>1, ConcatProperties
  <2>3. ASSUME NEW j \in 1 .. m + n PROVE (s \o t)[j] = u[j]
    <3>1. CASE j <= m
      BY <2>1, <2>2, <3>1
    <3>2. CASE ~(j <= m)
      <4>1. j - m \in 1 .. n
        BY <3>2
      <4> QED BY <2>1, <2>2, <3>2, <4>1
    <3> QED BY <3>1, <3>2
  <2>4. s \o t = u
    BY <2>1, <2>2, <2>3, SeqEqual
  <2> QED BY <2>4 DEF s, t, u
<1> QED BY <1>1, <1>2, <1>3

\* What is known of a list.
LEMMA ListFacts ==
  ASSUME NEW l \in Lists
  PROVE  /\ Len(l) \in Nat \ {0} /\ \A i \in 1 .. Len(l) : l[i].addr \in Int /\ l[i].len \in Nat \ {0}
         /\ \E n : Room(n, l)
         /\ First(l) \in [0 .. Len(l) -> Seq(Int)] /\ First(l)[0] = <<>>
         /\ \A i \in 1 .. Len(l) : First(l)[i] = First(l)[i - 1] \o Bytes(l[i].addr, l[i].len)
         /\ First(l)[Len(l)] = FlattenSeq(Pieces(l))
<1>1. l \in Seq(Elements) /\ l # <<>> /\ \E n : Room(n, l)
  BY ListsAssumption DEF B!T!TableAssumption, Elements, Room
<1>2. Len(l) \in Nat \ {0} /\ DOMAIN l = 1 .. Len(l)
  BY <1>1, LenZero
<1>3. \A i \in 1 .. Len(l) : l[i] \in Elements
  BY <1>1
<1>4. \A i \in 1 .. Len(l) : l[i].addr \in Int /\ l[i].len \in Nat \ {0}
  BY <1>3 DEF Elements
<1>5. Pieces(l) \in Seq(Seq(Int)) /\ Len(Pieces(l)) = Len(l)
  <2>1. \A i \in 1 .. Len(l) : Bytes(l[i].addr, l[i].len) \in Seq(Int)
    BY <1>4, PieceSplit
  <2>2. Pieces(l) = [i \in 1 .. Len(l) |-> Bytes(l[i].addr, l[i].len)]
    BY <1>2 DEF Pieces
  <2> QED BY <1>2, <2>1, <2>2
<1>6. Flattens(Int, Pieces(l), First(l))
  BY <1>5, FlattenStepwise DEF First
<1>7. \A i \in 1 .. Len(l) : Pieces(l)[i] = Bytes(l[i].addr, l[i].len)
  BY <1>2 DEF Pieces
<1> QED BY <1>1, <1>2, <1>4, <1>5, <1>6, <1>7 DEF Flattens

\* What the list describes.
LEMMA IsDescribed == \A l \in Lists : list = l => B!T!Described = First(l)[Len(l)]
<1> TAKE l \in Lists
<1> HAVE list = l
<1>1. B!T!Described = FlattenSeq(Pieces(l))
  BY DEF B!T!Described, B!T!FlattenSeq, FlattenSeq, Pieces, Bytes
<1> QED BY <1>1, ListFacts

\* A prefix stays one when something is appended.
LEMMA PrefixGrows ==
  ASSUME NEW r \in Seq(Int), NEW s \in Seq(Int), NEW t \in Seq(Int), IsPrefix(r, s)
  PROVE  IsPrefix(r, s \o t)
<1>1. /\ Len(r) \in Nat /\ Len(s) \in Nat /\ Len(t) \in Nat /\ Len(r) <= Len(s)
      /\ s \o t \in Seq(Int) /\ Len(s \o t) = Len(s) + Len(t)
      /\ \A i \in 1 .. Len(s) : (s \o t)[i] = s[i]
  BY ConcatProperties, LenProperties DEF IsPrefix
<1>2. SubSeq(r, 1, Len(r)) = SubSeq(s, 1, Len(r))
  BY DEF IsPrefix
<1>3. SubSeq(s, 1, Len(r)) = SubSeq(s \o t, 1, Len(r))
  <2>1. \A i \in 1 .. Len(r) : (s \o t)[i] = s[i]
    BY <1>1
  <2> QED BY <1>1, <2>1, SubSeqProperties
<1> QED BY <1>1, <1>2, <1>3 DEF IsPrefix

\* The bytes of fewer descriptors come first in those of more.
LEMMA PileIsPrefix ==
  ASSUME NEW G, NEW tab, NEW n \in Nat, Piled(G, tab, n),
         \A k \in 1 .. n : tab[k] \in Descriptors
  PROVE  \A a \in 0 .. n : \A b \in a .. n : IsPrefix(G[a], G[b])
<1> SUFFICES ASSUME NEW a \in 0 .. n PROVE \A b \in a .. n : IsPrefix(G[a], G[b])
  OBVIOUS
<1>0. \A k \in 0 .. n : G[k] \in Seq(Int)
  BY DEF Piled
<1> DEFINE Shown == {m \in Nat : a + m <= n => IsPrefix(G[a], G[a + m])}
<1>1. 0 \in Shown
  <2>1. IsPrefix(G[a], G[a])
    BY <1>0, LenProperties DEF IsPrefix
  <2> QED BY <2>1
<1>2. ASSUME NEW m \in Nat, m \in Shown PROVE m + 1 \in Shown
  <2> SUFFICES ASSUME a + (m + 1) <= n PROVE IsPrefix(G[a], G[a + (m + 1)])
    OBVIOUS
  <2> DEFINE k == a + (m + 1)
             t == Bytes(tab[k].addr, tab[k].len)
  <2>1. k \in 1 .. n /\ k - 1 = a + m /\ k - 1 \in 0 .. n
    OBVIOUS
  <2>2. IsPrefix(G[a], G[k - 1])
    BY <1>2, <2>1
  <2>3. G[k] = G[k - 1] \o t /\ t \in Seq(Int)
    BY <2>1, PieceSplit DEF Piled, Descriptors
  <2> HIDE DEF k, t
  <2>4. IsPrefix(G[a], G[k])
    BY <1>0, <2>1, <2>2, <2>3, PrefixGrows
  <2> QED BY <2>4 DEF k
<1>3. \A m \in Nat : m \in Shown
  <2> HIDE DEF Shown
  <2> QED BY <1>1, <1>2, UpFromZero
<1>4. ASSUME NEW b \in a .. n PROVE IsPrefix(G[a], G[b])
  <2>1. b - a \in Nat /\ a + (b - a) = b /\ b <= n
    OBVIOUS
  <2> QED BY <1>3, <2>1
<1> QED BY <1>4

-----------------------------------------------------------------------------
\* While the table is built: what is in it and what is left of the element are the bytes of
\* the elements so far, and there is room for the rest.
BuildInv ==
  /\ list \in Lists /\ elem \in 1 .. Len(list) /\ next \in Int /\ bytesLeft \in Nat
  /\ count \in 0 .. Slots /\ (count = 0 => bytesLeft > 0)
  /\ \E n : Room(n, list) /\ count <= n[elem] /\ (n[elem] - count) * MaxLength >= bytesLeft
  /\ \E G : Piled(G, table, count) /\ G[count] \o Bytes(next, bytesLeft) = First(list)[elem]
  /\ \A k \in 1 .. count : table[k].valid /\ ~table[k].last /\ (table[k].quiet <=> kind = "idmac")
  /\ pos = 1 /\ moved = <<>> /\ interrupts = 0

\* While the engine reads it: it has moved the descriptors before its own, and only the last
\* one says so and speaks up.
EngineInv ==
  /\ list \in Lists /\ count \in 1 .. Slots /\ pos \in 1 .. count /\ interrupts = 0
  /\ \E G : /\ Piled(G, table, count) /\ G[count] = First(list)[Len(list)]
            /\ moved = G[pos - 1]
  /\ \A k \in 1 .. count : (table[k].last <=> k = count) /\ (table[k].quiet <=> kind = "idmac" /\ k # count)

\* Afterwards.
ServedInv ==
  \/ list = <<>> /\ moved = <<>>
  \/ list \in Lists /\ moved = First(list)[Len(list)] /\ interrupts = 1

TableInv ==
  part = "tables" =>
    /\ kind \in {"adma", "idmac"} /\ step \in {"idle", "build", "engine"}
    /\ table \in [1 .. Slots -> Descriptors]
    /\ step = "build" => BuildInv
    /\ step = "engine" => EngineInv
    /\ step = "idle" => ServedInv

\* What is assumed of the constants.
LEMMA Limits == MaxLength \in Nat \ {0} /\ Slots \in Nat
  BY ListsAssumption DEF B!T!TableAssumption

\* The invariant holds at first, and each step keeps it.
LEMMA TableInit == MCInit => TableInv
<1> SUFFICES ASSUME B!T!Init, part = "tables" PROVE TableInv
  BY DEF MCInit, SdAtRest, B!BusInit, TableInv
<1>1. B!T!Empty \in Descriptors
  BY DEF B!T!Empty, Descriptors
<1> QED BY <1>1 DEF B!T!Init, TableInv, ServedInv

LEMMA BuildKeeps ==
  ASSUME TableInv, part = "tables", part' = part, B!T!Build
  PROVE  TableInv'
<1> USE DEF B!T!Build
<1>0. PICK l \in Lists : list' = l
  OBVIOUS
<1>1. /\ Len(l) \in Nat \ {0} /\ \A i \in 1 .. Len(l) : l[i].addr \in Int /\ l[i].len \in Nat \ {0}
      /\ First(l) \in [0 .. Len(l) -> Seq(Int)] /\ First(l)[0] = <<>>
      /\ \A i \in 1 .. Len(l) : First(l)[i] = First(l)[i - 1] \o Bytes(l[i].addr, l[i].len)
  BY ListFacts
<1>2. PICK n : Room(n, l)
  BY ListFacts
<1>3. 1 \in 1 .. Len(l) /\ 0 \in 0 .. Len(l) /\ 1 - 1 = 0
  BY <1>1
<1>4. First(l)[1] = <<>> \o Bytes(l[1].addr, l[1].len) /\ l[1].addr \in Int /\ l[1].len \in Nat \ {0}
  BY <1>1, <1>3
<1>5. n[1] \in Nat /\ n[0] \in Nat /\ (n[1] - n[0]) * MaxLength >= l[1].len
  BY <1>1, <1>2, <1>3 DEF Room
<1>6. 0 <= n[1] /\ (n[1] - 0) * MaxLength >= l[1].len
  <2> DEFINE x == n[1]
             y == n[0]
  <2>1. x \in Nat /\ y \in Nat /\ (x - y) * MaxLength >= l[1].len /\ l[1].len \in Nat /\ MaxLength \in Nat
    BY <1>4, <1>5, Limits
  <2> HIDE DEF x, y
  <2>2. y * MaxLength >= 0
    BY <2>1
  <2>3. (x - 0) * MaxLength = (x - y) * MaxLength + y * MaxLength
    BY <2>1
  <2>4. (x - y) * MaxLength \in Int /\ y * MaxLength \in Int
    BY <2>1
  <2>5. (x - 0) * MaxLength >= l[1].len
    BY <2>1, <2>2, <2>3, <2>4
  <2> QED BY <2>1, <2>5 DEF x
<1> DEFINE G == [k \in 0 .. 0 |-> <<>>]
<1>7. Piled(G, table, 0) /\ G[0] = <<>>
  BY DEF Piled
<1> HIDE DEF G
<1>8. /\ table' = table /\ kind' = kind /\ step' = "build" /\ elem' = 1 /\ next' = l[1].addr /\ bytesLeft' = l[1].len
      /\ count' = 0 /\ pos' = 1 /\ moved' = <<>> /\ interrupts' = 0
  BY <1>0
<1>9. /\ \E m : Room(m, list') /\ count' <= m[elem'] /\ (m[elem'] - count') * MaxLength >= bytesLeft'
      /\ \E H : Piled(H, table', count') /\ H[count'] \o Bytes(next', bytesLeft') = First(list')[elem']
  BY <1>0, <1>2, <1>4, <1>6, <1>7, <1>8
<1>10. BuildInv'
  <2>1. list' \in Lists /\ elem' \in 1 .. Len(list') /\ next' \in Int /\ bytesLeft' \in Nat
    BY <1>0, <1>1, <1>3, <1>4, <1>8
  <2>2. count' \in 0 .. Slots /\ (count' = 0 => bytesLeft' > 0) /\ 1 .. count' = {}
    BY <1>4, <1>8, Limits
  <2> QED BY <1>8, <1>9, <2>1, <2>2 DEF BuildInv
<1> QED BY <1>8, <1>10 DEF TableInv

LEMMA AddKeeps ==
  ASSUME TableInv, part = "tables", part' = part, B!T!AddDescriptor
  PROVE  TableInv'
<1> USE DEF B!T!AddDescriptor
<1>0. BuildInv /\ step' = "build" /\ kind' = kind /\ kind \in {"adma", "idmac"} /\ table \in [1 .. Slots -> Descriptors]
  BY DEF TableInv
<1> DEFINE L == B!T!NextLength
           d == B!T!NewDescriptor(table[count + 1])
           c == count + 1
<1>1. L \in Nat \ {0} /\ L <= bytesLeft /\ L <= MaxLength /\ (bytesLeft > MaxLength => L = MaxLength)
      /\ (bytesLeft <= MaxLength => L = bytesLeft)
  BY <1>0, Limits DEF BuildInv, B!T!NextLength
<1>2. PICK n : Room(n, list) /\ count <= n[elem] /\ (n[elem] - count) * MaxLength >= bytesLeft
  BY <1>0 DEF BuildInv
<1>3. elem \in 0 .. Len(list) /\ n[elem] \in 0 .. Slots /\ count \in Nat /\ bytesLeft \in Nat /\ bytesLeft > 0
      /\ elem \in 1 .. Len(list) /\ Len(list) \in Nat
  <2>1. list \in Lists /\ elem \in 1 .. Len(list) /\ count \in 0 .. Slots /\ bytesLeft \in Nat
    BY <1>0 DEF BuildInv
  <2>2. Len(list) \in Nat
    BY <2>1, ListFacts
  <2>3. elem \in 0 .. Len(list)
    BY <2>1, <2>2
  <2>4. n[elem] \in 0 .. Slots
    BY <1>2, <2>3 DEF Room
  <2>5. count \in Nat
    BY <2>1, Limits
  <2>6. bytesLeft > 0
    OBVIOUS
  <2> QED BY <2>1, <2>2, <2>3, <2>4, <2>5, <2>6
<1>4. c <= n[elem] /\ (n[elem] - c) * MaxLength >= bytesLeft - L
  <2> DEFINE x == n[elem] - count
  <2>1. x \in Nat /\ x * MaxLength >= bytesLeft
    BY <1>2, <1>3
  <2>2. x # 0
    BY <2>1, <1>3, Limits
  <2>3. (x - 1) * MaxLength = x * MaxLength - MaxLength /\ (x - 1) * MaxLength >= 0
    BY <2>1, <2>2, Limits
  <2>4. x - 1 = n[elem] - c /\ c <= n[elem]
    BY <1>3, <2>1, <2>2
  <2> HIDE DEF x, c
  <2>5. (x - 1) * MaxLength >= bytesLeft - L
    <3> DEFINE y == (x - 1) * MaxLength
               z == x * MaxLength
    <3>1. y \in Int /\ z \in Int
      BY <2>1, Limits
    <3> HIDE DEF y, z, L
    <3>2. y = z - MaxLength /\ y >= 0 /\ z >= bytesLeft
      BY <2>1, <2>3 DEF y, z
    <3>3. y >= bytesLeft - L
      BY <1>1, <1>3, <3>1, <3>2, Limits
    <3> QED BY <3>3 DEF y
  <2> QED BY <2>4, <2>5
<1>5. c \in 1 .. Slots
  BY <1>3, <1>4, Limits
<1>6. d \in Descriptors /\ d.addr = next /\ d.len = L /\ d.valid /\ ~d.last /\ (d.quiet <=> kind = "idmac")
  BY <1>0, <1>1 DEF B!T!NewDescriptor, Descriptors, BuildInv
<1> HIDE DEF L, d, c
<1>7. /\ table' = [table EXCEPT ![c] = d] /\ count' = c
      /\ next' = next + L /\ bytesLeft' = bytesLeft - L
      /\ UNCHANGED <<kind, step, list, elem, pos, moved, interrupts>>
  BY DEF L, d, c
<1>8. /\ table' \in [1 .. Slots -> Descriptors] /\ table'[c] = d
      /\ \A k \in 1 .. Slots : k # c => table'[k] = table[k]
  BY <1>0, <1>5, <1>6, <1>7
<1>9. PICK G : Piled(G, table, count) /\ G[count] \o Bytes(next, bytesLeft) = First(list)[elem]
  BY <1>0 DEF BuildInv
<1>10. next \in Int /\ c = count + 1
  BY <1>0 DEF BuildInv, c
<1> DEFINE H == [k \in 0 .. c |-> IF k = c THEN G[count] \o Bytes(next, L) ELSE G[k]]
<1>11. G[count] \in Seq(Int) /\ Bytes(next, L) \in Seq(Int) /\ G[count] \o Bytes(next, L) \in Seq(Int)
  <2>1. count \in 0 .. count
    BY <1>3
  <2> QED BY <1>1, <1>9, <1>10, <2>1, PieceSplit, ConcatProperties DEF Piled
<1>12. Piled(H, table', c) /\ H[c] = G[count] \o Bytes(next, L)
  <2>1. H \in [0 .. c -> Seq(Int)]
    <3>1. \A k \in 0 .. c : k # c => k \in 0 .. count
      BY <1>3, <1>10
    <3> QED BY <1>9, <1>11, <3>1 DEF Piled
  <2>2. H[0] = <<>> /\ 0 # c /\ 0 \in 0 .. c /\ c \in 0 .. c
    BY <1>3, <1>9, <1>10 DEF Piled
  <2>3. ASSUME NEW k \in 1 .. c PROVE H[k] = H[k - 1] \o Bytes(table'[k].addr, table'[k].len)
    <3>1. k \in 0 .. c /\ k - 1 \in 0 .. c /\ k - 1 # c /\ k \in 1 .. Slots
      BY <1>3, <1>5, <1>10, Limits
    <3>2. CASE k = c
      <4>1. k - 1 = count
        BY <1>3, <1>10, <3>2
      <4>2. H[k] = G[count] \o Bytes(next, L) /\ H[k - 1] = G[count]
        BY <3>1, <3>2, <4>1
      <4> HIDE DEF H
      <4> QED BY <1>6, <1>8, <3>2, <4>2
    <3>3. CASE k # c
      <4>1. k \in 1 .. count
        BY <1>3, <1>10, <3>3
      <4>2. H[k] = G[k] /\ H[k - 1] = G[k - 1]
        BY <3>1, <3>3
      <4> HIDE DEF H
      <4>3. table'[k] = table[k]
        BY <1>8, <3>1, <3>3
      <4> QED BY <1>9, <4>1, <4>2, <4>3 DEF Piled
    <3> QED BY <3>2, <3>3
  <2>4. H[c] = G[count] \o Bytes(next, L)
    BY <2>2
  <2> HIDE DEF H
  <2> QED BY <2>1, <2>2, <2>3, <2>4 DEF Piled
<1>13. H[c] \o Bytes(next + L, bytesLeft - L) = First(list)[elem]
  <2> HIDE DEF H
  <2>1. bytesLeft - L \in Nat /\ L + (bytesLeft - L) = bytesLeft /\ next + L \in Int /\ L \in Nat
    BY <1>1, <1>3, <1>10
  <2> DEFINE r == bytesLeft - L
  <2>2. Bytes(next, bytesLeft) = Bytes(next, L) \o Bytes(next + L, r) /\ Bytes(next + L, r) \in Seq(Int)
    <3>1. Bytes(next, L + r) = Bytes(next, L) \o Bytes(next + L, r)
      <4> HIDE DEF r
      <4> QED BY <1>10, <2>1, PieceSplit DEF r
    <3>2. Bytes(next + L, r) \in Seq(Int)
      BY <2>1, PieceSplit
    <3> QED BY <2>1, <3>1, <3>2
  <2>3. (G[count] \o Bytes(next, L)) \o Bytes(next + L, r) = G[count] \o (Bytes(next, L) \o Bytes(next + L, r))
    <3> DEFINE g  == G[count]
               b1 == Bytes(next, L)
               b2 == Bytes(next + L, r)
    <3>1. g \in Seq(Int) /\ b1 \in Seq(Int) /\ b2 \in Seq(Int)
      BY <1>11, <2>2
    <3> HIDE DEF g, b1, b2
    <3>2. (g \o b1) \o b2 = g \o (b1 \o b2)
      BY <3>1, JoinedThrice, Zenon
    <3> QED BY <3>2 DEF g, b1, b2
  <2> HIDE DEF r
  <2>4. H[c] \o Bytes(next + L, r) = First(list)[elem]
    BY <1>9, <1>12, <2>2, <2>3
  <2> QED BY <2>4 DEF r
<1> HIDE DEF H
<1>14. /\ \E m : Room(m, list') /\ count' <= m[elem'] /\ (m[elem'] - count') * MaxLength >= bytesLeft'
       /\ \E H0 : Piled(H0, table', count') /\ H0[count'] \o Bytes(next', bytesLeft') = First(list')[elem']
  BY <1>2, <1>4, <1>7, <1>12, <1>13
<1>15. \A k \in 1 .. c : table'[k].valid /\ ~table'[k].last /\ (table'[k].quiet <=> kind = "idmac")
  <2> TAKE k \in 1 .. c
  <2>1. CASE k = c
    BY <1>6, <1>8, <2>1
  <2>2. CASE k # c
    <3>1. k \in 1 .. count /\ k \in 1 .. Slots
      BY <1>3, <1>5, <1>10, <2>2, Limits
    <3> QED BY <1>0, <1>8, <2>2, <3>1 DEF BuildInv
  <2> QED BY <2>1, <2>2
<1>16. list \in Lists /\ pos = 1 /\ moved = <<>> /\ interrupts = 0
  BY <1>0 DEF BuildInv
<1>17. next + L \in Int /\ bytesLeft - L \in Nat /\ c \in 0 .. Slots /\ c # 0
  BY <1>1, <1>3, <1>5, <1>10
<1>18. BuildInv'
  BY <1>3, <1>7, <1>14, <1>15, <1>16, <1>17 DEF BuildInv
<1> QED BY <1>0, <1>7, <1>8, <1>18 DEF TableInv

\* Where the bytes lie is all that counts.
LEMMA SamePile ==
  ASSUME NEW G, NEW tab, NEW other, NEW n, Piled(G, tab, n),
         \A k \in 1 .. n : other[k].addr = tab[k].addr /\ other[k].len = tab[k].len
  PROVE  Piled(G, other, n)
  BY DEF Piled

LEMMA ElementKeeps ==
  ASSUME TableInv, part = "tables", part' = part, B!T!NextElement
  PROVE  TableInv'
<1> USE DEF B!T!NextElement
<1>0. BuildInv /\ kind' = kind /\ kind \in {"adma", "idmac"} /\ table \in [1 .. Slots -> Descriptors]
  BY DEF TableInv
<1>1. /\ Len(list) \in Nat \ {0} /\ \A i \in 1 .. Len(list) : list[i].addr \in Int /\ list[i].len \in Nat \ {0}
      /\ First(list) \in [0 .. Len(list) -> Seq(Int)]
      /\ \A i \in 1 .. Len(list) : First(list)[i] = First(list)[i - 1] \o Bytes(list[i].addr, list[i].len)
  BY <1>0, ListFacts DEF BuildInv
<1>2. /\ bytesLeft = 0 /\ count \in 1 .. Slots /\ elem \in 1 .. Len(list) /\ next \in Int /\ list \in Lists
      /\ pos = 1 /\ moved = <<>> /\ interrupts = 0
      /\ \A k \in 1 .. count : table[k].valid /\ ~table[k].last /\ (table[k].quiet <=> kind = "idmac")
      /\ UNCHANGED <<kind, list, count, pos, moved, interrupts>>
  BY <1>0, Limits DEF BuildInv
<1>3. PICK G : Piled(G, table, count) /\ G[count] \o Bytes(next, bytesLeft) = First(list)[elem]
  BY <1>0 DEF BuildInv
<1>4. G[count] = First(list)[elem]
  <2>1. G[count] \in Seq(Int) /\ Bytes(next, 0) = <<>>
    <3>1. count \in 0 .. count
      BY <1>2, Limits
    <3> QED BY <1>2, <1>3, <3>1, PieceSplit DEF Piled
  <2> QED BY <1>2, <1>3, <2>1, ConcatEmptySeq
<1>5. CASE elem < Len(list)
  <2> DEFINE e == elem + 1
  <2>1. e \in 1 .. Len(list) /\ e - 1 = elem /\ e \in 0 .. Len(list) /\ elem \in 0 .. Len(list)
    BY <1>1, <1>2, <1>5
  <2>2. /\ elem' = e /\ next' = list[e].addr /\ bytesLeft' = list[e].len /\ step' = "build" /\ table' = table
    BY <1>0, <1>5 DEF TableInv
  <2>3. list[e].addr \in Int /\ list[e].len \in Nat \ {0}
    BY <1>1, <2>1
  <2> HIDE DEF e
  <2>4. G[count] \o Bytes(list[e].addr, list[e].len) = First(list)[e]
    BY <1>1, <1>4, <2>1
  <2>5. PICK n : Room(n, list) /\ count <= n[elem] /\ (n[elem] - count) * MaxLength >= bytesLeft
    BY <1>0 DEF BuildInv
  <2>6. n[elem] \in Nat /\ n[e] \in Nat /\ (n[e] - n[elem]) * MaxLength >= list[e].len /\ count \in Nat
    BY <1>2, <2>1, <2>5, Limits DEF Room
  <2>7. count <= n[e] /\ (n[e] - count) * MaxLength >= list[e].len
    <3> DEFINE x == n[e]
               y == n[elem]
               z == list[e].len
               c == count
    <3>1. /\ x \in Nat /\ y \in Nat /\ c \in Nat /\ c <= y /\ z \in Nat /\ z > 0 /\ (x - y) * MaxLength >= z
          /\ MaxLength \in Nat /\ MaxLength > 0
      BY <2>3, <2>5, <2>6, Limits
    <3> HIDE DEF x, y, z, c
    <3>2. (y - c) * MaxLength >= 0
      BY <3>1
    <3>3. (x - c) * MaxLength = (x - y) * MaxLength + (y - c) * MaxLength
      BY <3>1
    <3>4. (x - y) * MaxLength \in Int /\ (y - c) * MaxLength \in Int
      BY <3>1
    <3>5. (x - c) * MaxLength >= z
      BY <3>1, <3>2, <3>3, <3>4
    <3>6. ~(x - y < 0)
      <4> SUFFICES ASSUME x - y < 0 PROVE FALSE
        OBVIOUS
      <4> DEFINE w == y - x
      <4>1. w \in Nat /\ x - y = 0 - w
        BY <3>1
      <4> HIDE DEF w
      <4>2. (0 - w) * MaxLength = 0 - w * MaxLength /\ w * MaxLength >= 0 /\ w * MaxLength \in Int
        BY <3>1, <4>1
      <4> QED BY <3>1, <4>1, <4>2
    <3>7. c <= x
      BY <3>1, <3>6
    <3> QED BY <3>5, <3>7 DEF x, y, z, c
  <2>8. /\ \E m : Room(m, list') /\ count' <= m[elem'] /\ (m[elem'] - count') * MaxLength >= bytesLeft'
        /\ \E H : Piled(H, table', count') /\ H[count'] \o Bytes(next', bytesLeft') = First(list')[elem']
    BY <1>2, <1>3, <2>2, <2>4, <2>5, <2>7
  <2>9. count \in 0 .. Slots /\ count # 0
    BY <1>2
  <2>10. /\ list' \in Lists /\ elem' \in 1 .. Len(list') /\ next' \in Int /\ bytesLeft' \in Nat
         /\ count' \in 0 .. Slots /\ count' # 0 /\ pos' = 1 /\ moved' = <<>> /\ interrupts' = 0
    BY <1>2, <2>1, <2>2, <2>3, <2>9
  <2>11. \A k \in 1 .. count' : table'[k].valid /\ ~table'[k].last /\ (table'[k].quiet <=> kind' = "idmac")
    BY <1>2, <2>2
  <2>12. BuildInv'
    BY <2>8, <2>10, <2>11 DEF BuildInv
  <2> QED BY <1>0, <2>2, <2>12 DEF TableInv
<1>6. CASE ~(elem < Len(list))
  <2>1. elem = Len(list) /\ step' = "engine" /\ table' = [table EXCEPT ![count].last = TRUE, ![count].quiet = FALSE]
    <3>1. elem = Len(list)
      BY <1>1, <1>2, <1>6
    <3>2. step' = "engine" /\ table' = [table EXCEPT ![count].last = TRUE, ![count].quiet = FALSE]
      BY <1>6
    <3> QED BY <3>1, <3>2
  <2>2. table[count] \in Descriptors
    BY <1>0, <1>2
  <2>3. /\ table' \in [1 .. Slots -> Descriptors]
        /\ table'[count].last /\ ~table'[count].quiet
        /\ table'[count].addr = table[count].addr /\ table'[count].len = table[count].len
        /\ \A k \in 1 .. Slots : k # count => table'[k] = table[k]
    BY <1>0, <1>2, <2>1, <2>2 DEF Descriptors
  <2>4. \A k \in 1 .. count : k \in 1 .. Slots
    BY <1>2, Limits
  <2>5. Piled(G, table', count)
    BY <1>3, <2>3, <2>4, SamePile
  <2>6. \A k \in 1 .. count : (table'[k].last <=> k = count) /\ (table'[k].quiet <=> kind = "idmac" /\ k # count)
    BY <1>2, <2>3, <2>4
  <2>7. pos \in 1 .. count /\ G[pos - 1] = moved
    BY <1>2, <1>3, Limits DEF Piled
  <2>8. \E H : /\ Piled(H, table', count') /\ H[count'] = First(list')[Len(list')] /\ moved' = H[pos' - 1]
    BY <1>2, <1>4, <2>1, <2>5, <2>7
  <2>9. EngineInv'
    BY <1>2, <2>6, <2>7, <2>8 DEF EngineInv
  <2> QED BY <1>0, <2>1, <2>3, <2>9 DEF TableInv
<1> QED BY <1>5, <1>6

LEMMA EngineKeeps ==
  ASSUME TableInv, part = "tables", part' = part, B!T!Engine
  PROVE  TableInv'
<1> USE DEF B!T!Engine
<1>0. EngineInv /\ kind' = kind /\ kind \in {"adma", "idmac"} /\ table \in [1 .. Slots -> Descriptors]
  BY DEF TableInv
<1>1. PICK G : Piled(G, table, count) /\ G[count] = First(list)[Len(list)] /\ moved = G[pos - 1]
  BY <1>0 DEF EngineInv
<1>2. /\ count \in 1 .. Slots /\ pos \in 1 .. count /\ list \in Lists /\ interrupts = 0
      /\ \A k \in 1 .. count : (table[k].last <=> k = count) /\ (table[k].quiet <=> kind = "idmac" /\ k # count)
      /\ UNCHANGED <<kind, list, count>> /\ pos' = pos + 1
      /\ step' = (IF table[pos].last THEN "idle" ELSE "engine")
      /\ interrupts' = (IF table[pos].last /\ ~table[pos].quiet THEN interrupts + 1 ELSE interrupts)
  BY <1>0 DEF EngineInv
<1>3. moved' = G[pos]
  <2>1. moved' = G[pos - 1] \o Bytes(table[pos].addr, table[pos].len)
    BY <1>1 DEF Bytes
  <2> QED BY <1>1, <1>2, <2>1 DEF Piled
<1>4. /\ table' \in [1 .. Slots -> Descriptors]
      /\ \A k \in 1 .. Slots : /\ table'[k].addr = table[k].addr /\ table'[k].len = table[k].len
                              /\ table'[k].last = table[k].last /\ table'[k].quiet = table[k].quiet
  <2>1. CASE table' = table
    BY <1>0, <2>1
  <2>2. CASE table' = [table EXCEPT ![pos].valid = FALSE]
    <3>1. \A k \in 1 .. Slots : table[k] \in Descriptors
      BY <1>0
    <3>2. table' = [k \in 1 .. Slots |-> IF k = pos THEN [table[k] EXCEPT !.valid = FALSE] ELSE table[k]]
      BY <1>0, <2>2
    <3>3. ASSUME NEW k \in 1 .. Slots
          PROVE  /\ table'[k] \in Descriptors
                 /\ table'[k].addr = table[k].addr /\ table'[k].len = table[k].len
                 /\ table'[k].last = table[k].last /\ table'[k].quiet = table[k].quiet
      <4>1. table[k] \in Descriptors
        BY <3>1
      <4>2. table'[k] = table[k] \/ table'[k] = [table[k] EXCEPT !.valid = FALSE]
        BY <3>2
      <4> DEFINE t == table[k]
                 u == table'[k]
      <4> HIDE DEF t, u
      <4>3. /\ u \in Descriptors /\ u.addr = t.addr /\ u.len = t.len
            /\ u.last = t.last /\ u.quiet = t.quiet
        <5>1. t \in Descriptors /\ (u = t \/ u = [t EXCEPT !.valid = FALSE])
          BY <4>1, <4>2 DEF t, u
        <5>2. CASE u = t
          BY <5>1, <5>2
        <5>3. CASE u = [t EXCEPT !.valid = FALSE]
          BY <5>1, <5>3 DEF Descriptors
        <5> QED BY <5>1, <5>2, <5>3
      <4> QED BY <4>3 DEF t, u
    <3>4. table' \in [1 .. Slots -> Descriptors]
      BY <3>2, <3>3
    <3> QED BY <3>3, <3>4
  <2> QED BY <2>1, <2>2
<1>5. \A k \in 1 .. count : k \in 1 .. Slots
  BY <1>2, Limits
<1>6. Piled(G, table', count)
  <2> DEFINE tab == table'
  <2>1. \A k \in 1 .. count : tab[k].addr = table[k].addr /\ tab[k].len = table[k].len
    BY <1>4, <1>5
  <2> HIDE DEF tab
  <2>2. Piled(G, tab, count)
    BY <1>1, <2>1, SamePile
  <2> QED BY <2>2 DEF tab
<1>7. CASE pos = count
  <2>1. table[pos].last /\ ~table[pos].quiet
    BY <1>2, <1>7
  <2>2. step' = "idle" /\ interrupts' = 1 /\ moved' = First(list)[Len(list)]
    <3>1. step' = "idle" /\ interrupts' = 0 + 1
      BY <1>2, <2>1
    <3>2. moved' = G[count]
      BY <1>3, <1>7
    <3>3. moved' = First(list)[Len(list)]
      BY <1>1, <3>2, Zenon
    <3>4. interrupts' = 1
      BY <3>1
    <3> QED BY <3>1, <3>3, <3>4
  <2>3. ServedInv'
    BY <1>2, <2>2 DEF ServedInv
  <2> QED BY <1>0, <1>4, <2>2, <2>3 DEF TableInv
<1>8. CASE pos # count
  <2>1. ~table[pos].last /\ pos + 1 \in 1 .. count /\ (pos + 1) - 1 = pos
    BY <1>2, <1>8, Limits
  <2>2. step' = "engine" /\ interrupts' = 0
    BY <1>2, <2>1
  <2>3. \E H : Piled(H, table', count') /\ H[count'] = First(list')[Len(list')] /\ moved' = H[pos' - 1]
    BY <1>1, <1>2, <1>3, <1>6, <2>1
  <2>4. \A k \in 1 .. count : (table'[k].last <=> k = count) /\ (table'[k].quiet <=> kind = "idmac" /\ k # count)
    BY <1>2, <1>4, <1>5
  <2>5. EngineInv'
    BY <1>2, <2>1, <2>2, <2>3, <2>4 DEF EngineInv
  <2> QED BY <1>0, <1>4, <2>2, <2>5 DEF TableInv
<1> QED BY <1>7, <1>8

LEMMA TableNext ==
  ASSUME TableInv, [MCNext]_<<hostVars, part, bus1, bus2, bus3>>
  PROVE  TableInv'
<1>1. CASE part = "tables" /\ part' = part /\ B!T!Next
  BY <1>1, BuildKeeps, AddKeeps, ElementKeeps, EngineKeeps DEF B!T!Next
<1>2. CASE part # "tables" /\ part' = part
  BY <1>2 DEF TableInv
<1>3. CASE UNCHANGED <<part, bus1, bus2, bus3>>
  <2>1. UNCHANGED <<part, kind, step, list, elem, next, bytesLeft, table, count, pos, moved, interrupts>>
    BY <1>3 DEF bus3
  <2> QED BY <2>1 DEF TableInv, BuildInv, EngineInv, ServedInv
<1> QED BY <1>1, <1>2, <1>3 DEF MCNext, B!BusNext

\* The engine moves what SdhcCreateAdmaDescriptorTable or MshcCreateIdmacDescriptorTable was
\* given, in order and no more.
THEOREM EngineAlwaysFollowsList == MCSpec => []EngineFollowsList
<1>1. TableInv => EngineFollowsList
  <2> SUFFICES ASSUME TableInv, part = "tables"
               PROVE  /\ IsPrefix(moved, B!T!Described)
                      /\ step = "idle" /\ list # <<>> => moved = B!T!Described /\ interrupts = 1
    BY DEF EngineFollowsList, B!EngineFollowsList, B!T!EngineFollowsList, B!T!IsPrefix, IsPrefix
  <2>0. \A s \in Seq(Int) : IsPrefix(<<>>, s) /\ IsPrefix(s, s)
    <3> TAKE s \in Seq(Int)
    <3>1. IsPrefix(<<>>, <<>>) /\ <<>> \in Seq(Int)
      BY EmptyOnce DEF IsPrefix
    <3>2. IsPrefix(<<>>, <<>> \o s) /\ <<>> \o s = s
      BY <3>1, PrefixGrows, ConcatEmptySeq
    <3> QED BY <3>2, LenProperties DEF IsPrefix
  <2>1. list \in Lists => /\ B!T!Described = First(list)[Len(list)] /\ First(list)[Len(list)] \in Seq(Int)
    <3> SUFFICES ASSUME list \in Lists PROVE First(list)[Len(list)] \in Seq(Int)
      BY IsDescribed
    <3>1. Len(list) \in 0 .. Len(list)
      BY ListFacts
    <3> QED BY <3>1, ListFacts
  <2>2. CASE step = "idle"
    <3>1. CASE list = <<>> /\ moved = <<>>
      <4>1. B!T!Described = <<>>
        BY <3>1 DEF B!T!Described, B!T!FlattenSeq
      <4> QED BY <2>2, <3>1, <4>1, <2>0, EmptyOnce
    <3>2. CASE list \in Lists /\ moved = First(list)[Len(list)] /\ interrupts = 1
      BY <2>0, <2>1, <3>2
    <3> QED BY <2>2, <3>1, <3>2 DEF TableInv, ServedInv
  <2>3. CASE step = "build"
    BY <2>0, <2>1, <2>3 DEF TableInv, BuildInv
  <2>4. CASE step = "engine"
    <3>1. EngineInv /\ table \in [1 .. Slots -> Descriptors]
      BY <2>4 DEF TableInv
    <3>2. PICK G : Piled(G, table, count) /\ G[count] = First(list)[Len(list)] /\ moved = G[pos - 1]
      BY <3>1 DEF EngineInv
    <3>3. count \in 1 .. Slots /\ pos - 1 \in 0 .. count /\ count \in pos - 1 .. count /\ list \in Lists
          /\ \A k \in 1 .. count : table[k] \in Descriptors
      BY <3>1, Limits DEF EngineInv
    <3>4. IsPrefix(moved, G[count])
      BY <3>2, <3>3, PileIsPrefix
    <3> QED BY <2>1, <2>4, <3>2, <3>3, <3>4
  <2> QED BY <2>2, <2>3, <2>4 DEF TableInv
<1> QED BY <1>1, TableInit, TableNext, PTL DEF MCSpec
=============================================================================

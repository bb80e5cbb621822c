---------------------------- MODULE Pl330Channel ----------------------------
(***************************************************************************)
(* Starting and stopping the channels of the pl330dma driver               *)
(* (drivers/dma/pl330dma/dmacontroller.c, threads.c), driven by the        *)
(* streams of the audio driver (rk3x_program_dma, rk3x_play and rk3x_stop  *)
(* of csaudiork3x/Source/Utilities/hw.cpp).  Each stream has a channel of  *)
(* its own.                                                                *)
(*                                                                         *)
(* The driver orders the controller about through the debug registers: it  *)
(* writes an instruction, and the controller executes it in its own time.  *)
(* There is no lock around them.                                           *)
(***************************************************************************)
EXTENDS Naturals

CONSTANTS
  Streams,
  Overlap,   \* the state changes of two streams may overlap
  DmacSlow   \* the controller may take longer over a debug instruction than
             \* UntilDmacIdle waits, or than the next request takes to come

ASSUME FlagsAssumption == Overlap \in BOOLEAN /\ DmacSlow \in BOOLEAN

None == "None"
ASSUME NoneAssumption == None \notin Streams

VARIABLES
  hw,              \* channel status of the controller (CSR)
  inten,           \* INTEN
  inst0, inst1,    \* DBGINST0, DBGINST1
  busy,            \* DBGSTATUS: a debug instruction has yet to be executed
  free, running,   \* Free and ReqRunning of the channels
  dmaThread, isActive,  \* fields of the streams: dmaThread is set, isActive
  pc,              \* where the thread of the stream is
  insn, ret,       \* the instruction it emits, where it returns to
  seen             \* INTEN as it has read it
controller == <<hw, inten, inst0, inst1, busy>>
driver == <<free, running, dmaThread, isActive>>
thread == <<pc, insn, ret, seen>>
vars == <<controller, driver, thread>>

Hw == {"Stopped", "Executing", "FaultCompleting", "Faulting", "Killing"}
Pc == {"idle", "start", "startUntilFault", "startUntilKilled", "startUntilStopped",
       "trigger", "enable", "stop", "stopUntilFault", "stopCheck",
       "dbgIdle", "dbg0", "dbg1", "dbgCmd", "dbgDone", "free", "release", "play"}

\* AllocThreads; rk_stream is zeroed.
Init ==
  /\ hw = [s \in Streams |-> "Stopped"] /\ inten = {}
  /\ inst0 = [op |-> None, chan |-> None] /\ inst1 = None /\ busy = FALSE
  /\ free = [s \in Streams |-> TRUE] /\ running = [s \in Streams |-> FALSE]
  /\ dmaThread = [s \in Streams |-> FALSE] /\ isActive = [s \in Streams |-> FALSE]
  /\ pc = [s \in Streams |-> "idle"] /\ seen = [s \in Streams |-> {}]
  /\ insn = [s \in Streams |-> None] /\ ret = [s \in Streams |-> "idle"]

Goto(s, l) == pc' = [pc EXCEPT ![s] = l]

\* A request of the audio stack comes.
MayCall(s) ==
  /\ pc[s] = "idle"
  /\ Overlap \/ \A t \in Streams : pc[t] = "idle"
  /\ DmacSlow \/ ~busy

-----------------------------------------------------------------------------
(* KSSTATE_RUN: rk3x_program_dma, rk3x_play.                               *)

\* The stream has a channel already: rk3x_program_dma returns at once.
RunAgain(s) ==
  /\ MayCall(s) /\ dmaThread[s]
  /\ Goto(s, "play")
  /\ UNCHANGED <<controller, driver, insn, ret, seen>>

\* GetHandle, then SubmitAudioDMA writes the microcode and calls _start.
Run(s) ==
  /\ MayCall(s) /\ ~dmaThread[s] /\ free[s]
  /\ free' = [free EXCEPT ![s] = FALSE]
  /\ dmaThread' = [dmaThread EXCEPT ![s] = TRUE]
  /\ Goto(s, "start")
  /\ UNCHANGED <<controller, running, isActive, insn, ret, seen>>

\* Mutant: a channel that is being killed is taken to run.
StartKillingRuns(s) ==
  /\ pc[s] = "start"
  /\ LET to == [FaultCompleting |-> "startUntilFault", Faulting |-> "stop",
                Killing |-> "play", Stopped |-> "trigger", Executing |-> "play"]
     IN Goto(s, to[hw[s]])
  /\ ret' = [ret EXCEPT ![s] = "startUntilStopped"]
  /\ UNCHANGED <<controller, driver, insn, seen>>

\* The switch of _start.  In every other state the channel is taken to run already.
Start(s) ==
  /\ pc[s] = "start"
  /\ LET to == [FaultCompleting |-> "startUntilFault", Faulting |-> "stop",
                Killing |-> "startUntilStopped", Stopped |-> "trigger", Executing |-> "play"]
     IN Goto(s, to[hw[s]])
  /\ ret' = [ret EXCEPT ![s] = "startUntilStopped"]
  /\ UNCHANGED <<controller, driver, insn, seen>>

\* Mutant: _stop goes on waiting when the channel is faulting.
WaitsForKill ==
  [startUntilFault   |-> [Faulting |-> "stop", Killing |-> "startUntilKilled"],
   startUntilKilled  |-> [Stopped |-> "stop"],
   startUntilStopped |-> [Stopped |-> "trigger"],
   stopUntilFault    |-> [Faulting |-> "stopUntilFault", Killing |-> "stopCheck"]]

\* The UNTIL loops of _start and _stop: for which states each waits, and what follows.
Waits ==
  [startUntilFault   |-> [Faulting |-> "stop", Killing |-> "startUntilKilled"],
   startUntilKilled  |-> [Stopped |-> "stop"],
   startUntilStopped |-> [Stopped |-> "trigger"],
   stopUntilFault    |-> [Faulting |-> "stopCheck", Killing |-> "stopCheck"]]

Until(s) ==
  /\ pc[s] \in DOMAIN Waits /\ hw[s] \in DOMAIN Waits[pc[s]]
  /\ Goto(s, Waits[pc[s]][hw[s]])
  /\ UNCHANGED <<controller, driver, insn, ret, seen>>

\* _trigger up to the read of INTEN
Trigger(s) ==
  /\ pc[s] = "trigger"
  /\ IF hw[s] = "Stopped" /\ ~running[s]
       THEN /\ Goto(s, "enable")
            /\ seen' = [seen EXCEPT ![s] = inten]
       ELSE Goto(s, "play") /\ UNCHANGED seen
  /\ UNCHANGED <<controller, driver, insn, ret>>

\* The write of INTEN, and the call of _execute_DBGINSN
TriggerEnable(s) ==
  /\ pc[s] = "enable"
  /\ inten' = seen[s] \cup {s}
  /\ insn' = [insn EXCEPT ![s] = "GO"]
  /\ Goto(s, "dbgIdle")
  /\ UNCHANGED <<hw, inst0, inst1, busy, driver, ret, seen>>

\* rk3x_play
Play(s) ==
  /\ pc[s] = "play"
  /\ isActive' = [isActive EXCEPT ![s] = TRUE]
  /\ Goto(s, "idle")
  /\ UNCHANGED <<controller, free, running, dmaThread, insn, ret, seen>>

-----------------------------------------------------------------------------
(* _execute_DBGINSN                                                        *)

\* UntilDmacIdle.  After 5 ms the instruction is dropped; the caller is not told.
DbgIdle(s) ==
  /\ pc[s] = "dbgIdle" /\ (busy => DmacSlow)
  /\ Goto(s, IF busy THEN "dbgDone" ELSE "dbg0")
  /\ UNCHANGED <<controller, driver, insn, ret, seen>>

\* The operation and the channel
DbgInst0(s) ==
  /\ pc[s] = "dbg0"
  /\ inst0' = [op |-> insn[s], chan |-> s]
  /\ Goto(s, "dbg1")
  /\ UNCHANGED <<hw, inten, inst1, busy, driver, insn, ret, seen>>

\* The address: the microcode of the stream for GO
DbgInst1(s) ==
  /\ pc[s] = "dbg1"
  /\ inst1' = IF insn[s] = "GO" THEN s ELSE None
  /\ Goto(s, "dbgCmd")
  /\ UNCHANGED <<hw, inten, inst0, busy, driver, insn, ret, seen>>

DbgCmd(s) ==
  /\ pc[s] = "dbgCmd"
  /\ busy' = TRUE
  /\ Goto(s, "dbgDone")
  /\ UNCHANGED <<hw, inten, inst0, inst1, driver, insn, ret, seen>>

\* The end of _trigger
TriggerDone(s) ==
  /\ pc[s] = "dbgDone" /\ insn[s] = "GO"
  /\ running' = [running EXCEPT ![s] = TRUE]
  /\ Goto(s, "play")
  /\ UNCHANGED <<controller, free, dmaThread, isActive, insn, ret, seen>>

\* Mutant: the end of _stop without its last line.
StopDoneStillRunning(s) ==
  /\ pc[s] = "dbgDone" /\ insn[s] = "KILL"
  /\ inten' = seen[s] \ {s}
  /\ Goto(s, ret[s])
  /\ UNCHANGED <<hw, inst0, inst1, busy, driver, insn, ret, seen>>

\* The end of _stop
StopDone(s) ==
  /\ pc[s] = "dbgDone" /\ insn[s] = "KILL"
  /\ inten' = seen[s] \ {s}
  /\ running' = [running EXCEPT ![s] = FALSE]
  /\ Goto(s, ret[s])
  /\ UNCHANGED <<hw, inst0, inst1, busy, free, dmaThread, isActive, insn, ret, seen>>

-----------------------------------------------------------------------------
(* KSSTATE_PAUSE, KSSTATE_STOP: rk3x_stop.                                 *)

\* rk3x_stop up to the call of StopDMA
Stop(s) ==
  /\ MayCall(s) /\ isActive[s] /\ dmaThread[s]
  /\ ret' = [ret EXCEPT ![s] = "free"]
  /\ Goto(s, "stop")
  /\ UNCHANGED <<controller, driver, insn, seen>>

\* _stop reads INTEN, then looks at the channel.
StopBegin(s) ==
  /\ pc[s] = "stop"
  /\ seen' = [seen EXCEPT ![s] = inten]
  /\ Goto(s, IF hw[s] = "FaultCompleting" THEN "stopUntilFault" ELSE "stopCheck")
  /\ UNCHANGED <<controller, driver, insn, ret>>

\* Return if nothing needs to be done.
StopCheck(s) ==
  /\ pc[s] = "stopCheck"
  /\ IF hw[s] \in {"Killing", "Stopped"}
       THEN Goto(s, ret[s]) /\ UNCHANGED insn
       ELSE Goto(s, "dbgIdle") /\ insn' = [insn EXCEPT ![s] = "KILL"]
  /\ UNCHANGED <<controller, driver, ret, seen>>

\* FreeHandle: a channel that runs a request is not freed.  rk3x_stop ignores that.
FreeHandle(s) ==
  /\ pc[s] = "free"
  /\ free' = [free EXCEPT ![s] = @ \/ ~running[s]]
  /\ Goto(s, "release")
  /\ UNCHANGED <<controller, running, dmaThread, isActive, insn, ret, seen>>

\* The end of rk3x_stop
Release(s) ==
  /\ pc[s] = "release"
  /\ dmaThread' = [dmaThread EXCEPT ![s] = FALSE]
  /\ isActive' = [isActive EXCEPT ![s] = FALSE]
  /\ Goto(s, "idle")
  /\ UNCHANGED <<controller, free, running, insn, ret, seen>>

-----------------------------------------------------------------------------
(* The controller (external).                                              *)

\* It executes what the debug registers hold.
HwDebug ==
  /\ busy /\ busy' = FALSE
  /\ LET c == inst0.chan
     IN hw' = CASE inst0.op = "GO" /\ hw[c] = "Stopped" -> [hw EXCEPT ![c] = "Executing"]
                [] inst0.op = "KILL" /\ hw[c] \in {"Executing", "FaultCompleting", "Faulting"}
                     -> [hw EXCEPT ![c] = "Killing"]
                [] OTHER -> hw
  /\ UNCHANGED <<inten, inst0, inst1, driver, thread>>

HwKilled(s) ==
  /\ hw[s] = "Killing" /\ hw' = [hw EXCEPT ![s] = "Stopped"]
  /\ UNCHANGED <<inten, inst0, inst1, busy, driver, thread>>

HwFault(s) ==
  /\ hw[s] = "Executing" /\ hw' = [hw EXCEPT ![s] = "FaultCompleting"]
  /\ UNCHANGED <<inten, inst0, inst1, busy, driver, thread>>

HwFaulted(s) ==
  /\ hw[s] = "FaultCompleting" /\ hw' = [hw EXCEPT ![s] = "Faulting"]
  /\ UNCHANGED <<inten, inst0, inst1, busy, driver, thread>>

-----------------------------------------------------------------------------
Call(s) == RunAgain(s) \/ Run(s) \/ Stop(s)

Step(s) ==
  \/ Start(s) \/ Until(s) \/ Trigger(s) \/ TriggerEnable(s) \/ TriggerDone(s) \/ Play(s)
  \/ DbgIdle(s) \/ DbgInst0(s) \/ DbgInst1(s) \/ DbgCmd(s)
  \/ StopBegin(s) \/ StopCheck(s) \/ StopDone(s)
  \/ FreeHandle(s) \/ Release(s)

Next ==
  \/ \E s \in Streams : Call(s) \/ Step(s) \/ HwKilled(s) \/ HwFault(s) \/ HwFaulted(s)
  \/ HwDebug

Spec == Init /\ [][Next]_vars

\* Threads are scheduled, and the controller makes progress.
FairSpec ==
  /\ Spec /\ WF_vars(HwDebug)
  /\ \A s \in Streams : WF_vars(Step(s)) /\ WF_vars(HwKilled(s)) /\ WF_vars(HwFaulted(s))

-----------------------------------------------------------------------------
(* Properties.                                                             *)

TypeOK ==
  /\ hw \in [Streams -> Hw] /\ inten \subseteq Streams /\ busy \in BOOLEAN
  /\ inst0 \in [op : {None, "GO", "KILL"}, chan : Streams \cup {None}]
  /\ inst1 \in Streams \cup {None}
  /\ free \in [Streams -> BOOLEAN] /\ running \in [Streams -> BOOLEAN]
  /\ dmaThread \in [Streams -> BOOLEAN] /\ isActive \in [Streams -> BOOLEAN]
  /\ pc \in [Streams -> Pc] /\ seen \in [Streams -> SUBSET Streams]
  /\ insn \in [Streams -> {None, "GO", "KILL"}]
  /\ ret \in [Streams -> {"idle", "startUntilStopped", "free"}]

\* Once rk3x_stop has returned the channel can be had again: GetHandle finds it free,
\* and no request is taken to run on it ("Index of last submitted request (or -1 if
\* stopped)"), so that _trigger will start the next one.
NoChannelLeaked ==
  \A s \in Streams : pc[s] = "idle" /\ ~dmaThread[s] => free[s] /\ ~running[s]

\* A stream that rk3x_play has made active has a channel that executes its program,
\* or has failed doing so.
ActiveExecutes ==
  \A s \in Streams : pc[s] = "idle" /\ isActive[s] /\ ~busy =>
    hw[s] \in {"Executing", "FaultCompleting", "Faulting"}

\* SubmitAudioDMA writes the microcode of a channel only when the channel executes
\* none.
MicrocodeAtRest ==
  \A s \in Streams : pc[s] = "start" =>
    /\ hw[s] \in {"Stopped", "Killing"}
    /\ ~(busy /\ inst0 = [op |-> "GO", chan |-> s])

\* "Set to generate interrupts for SEV": the events of an active stream interrupt.
ActiveInterrupts ==
  \A s \in Streams : pc[s] = "idle" /\ isActive[s] => s \in inten

\* Every call of rk3x_program_dma and of rk3x_stop returns, when they come one at a time: no
\* wait of _start or _stop lasts for ever.
NoCall == \A s \in Streams : pc[s] = "idle"
CallsReturn == []<>NoCall

=============================================================================

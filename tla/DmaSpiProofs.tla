---------------------------- MODULE DmaSpiProofs ----------------------------
(***************************************************************************)
(* Proofs about the channels of the DMA controller, for any number of      *)
(* streams, when their calls do not overlap and the controller is prompt;  *)
(* about the SPI controller, for any requests, chunks and FIFOs; and about *)
(* the microcode of the DMA controller, for buffers of any size.           *)
(***************************************************************************)
EXTENDS MCDmaSpi, RecursionLemmas

-----------------------------------------------------------------------------
(* The inductive invariant: what is true of a stream at each place of its  *)
(* thread.                                                                 *)

Quiet == {"start", "startUntilStopped", "trigger", "enable", "stop", "stopUntilFault",
          "stopCheck", "dbgIdle", "dbg0", "dbg1", "dbgCmd"}

Pending(s, op) == busy /\ inst0 = [op |-> op, chan |-> s]

Runs(s) == hw[s] \in {"Executing", "FaultCompleting", "Faulting"}
Ends(s) == hw[s] \in {"Killing", "Stopped"}

\* The channel executes, or will when the controller gets to it.
Started(s) == (Runs(s) /\ ~Pending(s, "KILL")) \/ (hw[s] = "Stopped" /\ Pending(s, "GO"))

\* The channel is at rest, or will be.
Halted(s) == (Ends(s) /\ ~Pending(s, "GO")) \/ Pending(s, "KILL")

\* What the stream holds: nothing, a channel, a channel with a request.
Unowned(s)  == free[s] /\ ~running[s] /\ ~isActive[s]
Prepared(s) == ~free[s] /\ ~running[s] /\ ~isActive[s] /\ dmaThread[s]
Owned(s)    == ~free[s] /\ running[s] /\ dmaThread[s]

DebugPlaces == {"dbgIdle", "dbg0", "dbg1", "dbgCmd"}

\* The places of _start and _trigger, with a GO.
Starting(s) ==
  /\ pc[s] \in {"start", "startUntilStopped"} => Prepared(s) /\ Ends(s)
  /\ pc[s] \in {"trigger", "enable"} => Prepared(s) /\ hw[s] = "Stopped"
  /\ pc[s] \in DebugPlaces /\ insn[s] = "GO" => Prepared(s) /\ hw[s] = "Stopped"
  /\ pc[s] = "dbgDone" /\ insn[s] = "GO" => Prepared(s) /\ Started(s)
  /\ pc[s] = "play" => Owned(s) /\ Started(s)

\* The places of _stop and rk3x_stop, with a KILL.
Stopping(s) ==
  /\ pc[s] \in {"stop", "stopUntilFault", "stopCheck"} =>
       Owned(s) /\ isActive[s] /\ Runs(s) /\ ret[s] = "free"
  /\ pc[s] \in DebugPlaces /\ insn[s] = "KILL" =>
       Owned(s) /\ isActive[s] /\ Runs(s) /\ ret[s] = "free"
  /\ pc[s] = "dbgDone" /\ insn[s] = "KILL" =>
       Owned(s) /\ isActive[s] /\ Halted(s) /\ ret[s] = "free"
  /\ pc[s] = "free" => ~free[s] /\ ~running[s] /\ dmaThread[s] /\ Halted(s)
  /\ pc[s] = "release" => free[s] /\ ~running[s] /\ dmaThread[s] /\ Halted(s)

Idle(s) ==
  pc[s] = "idle" => IF dmaThread[s] THEN Owned(s) /\ isActive[s] /\ Started(s)
                                    ELSE Unowned(s) /\ Halted(s)

\* No wait for a fault or for a kill is ever entered by _start.
Places(s) ==
  /\ pc[s] \notin {"startUntilFault", "startUntilKilled"}
  /\ pc[s] \in DebugPlaces \cup {"dbgDone"} => insn[s] # None
  /\ pc[s] \in {"dbg1", "dbgCmd"} => inst0 = [op |-> insn[s], chan |-> s]
  /\ pc[s] \in Quiet => ~busy

OneCall == \A s, t \in Streams : pc[s] # "idle" /\ pc[t] # "idle" => s = t

IInv ==
  /\ TypeOK
  /\ OneCall
  /\ busy => inst0 \in [op : {"GO", "KILL"}, chan : Streams]
  /\ \A s \in Streams : Places(s) /\ Idle(s) /\ Starting(s) /\ Stopping(s)

-----------------------------------------------------------------------------
(* Type correctness, for overlapping calls and slow controllers as well.   *)

\* No step changes the type of a variable.
LEMMA TypeStep ==
  ASSUME TypeOK, [Next]_vars
  PROVE  TypeOK'
<1> USE DEF TypeOK, Hw, Pc, controller, driver, thread, Goto
<1>1. CASE UNCHANGED vars
  BY <1>1 DEF vars
<1>2. CASE HwDebug
  BY <1>2 DEF HwDebug
<1>3. ASSUME NEW s \in Streams, Call(s) \/ Step(s) \/ HwKilled(s) \/ HwFault(s) \/ HwFaulted(s)
      PROVE  TypeOK'
  <2>1. CASE RunAgain(s)
    BY <1>3, <2>1 DEF RunAgain
  <2>2. CASE Run(s)
    BY <1>3, <2>2 DEF Run
  <2>3. CASE Stop(s)
    BY <1>3, <2>3 DEF Stop
  <2>4. CASE Start(s)
    BY <1>3, <2>4 DEF Start
  <2>5. CASE Until(s)
    BY <1>3, <2>5 DEF Until, Waits
  <2>6. CASE Trigger(s)
    BY <1>3, <2>6 DEF Trigger
  <2>7. CASE TriggerEnable(s)
    BY <1>3, <2>7 DEF TriggerEnable
  <2>8. CASE TriggerDone(s)
    BY <1>3, <2>8 DEF TriggerDone
  <2>9. CASE Play(s)
    BY <1>3, <2>9 DEF Play
  <2>10. CASE DbgIdle(s)
    BY <1>3, <2>10 DEF DbgIdle
  <2>11. CASE DbgInst0(s)
    BY <1>3, <2>11 DEF DbgInst0
  <2>12. CASE DbgInst1(s)
    BY <1>3, <2>12 DEF DbgInst1
  <2>13. CASE DbgCmd(s)
    BY <1>3, <2>13 DEF DbgCmd
  <2>14. CASE StopBegin(s)
    BY <1>3, <2>14 DEF StopBegin
  <2>15. CASE StopCheck(s)
    BY <1>3, <2>15 DEF StopCheck
  <2>16. CASE StopDone(s)
    BY <1>3, <2>16 DEF StopDone
  <2>17. CASE FreeHandle(s)
    BY <1>3, <2>17 DEF FreeHandle
  <2>18. CASE Release(s)
    BY <1>3, <2>18 DEF Release
  <2>19. CASE HwKilled(s)
    BY <1>3, <2>19 DEF HwKilled
  <2>20. CASE HwFault(s)
    BY <1>3, <2>20 DEF HwFault
  <2>21. CASE HwFaulted(s)
    BY <1>3, <2>21 DEF HwFaulted
  <2> QED
    BY <1>3, <2>1, <2>2, <2>3, <2>4, <2>5, <2>6, <2>7, <2>8, <2>9, <2>10, <2>11, <2>12,
       <2>13, <2>14, <2>15, <2>16, <2>17, <2>18, <2>19, <2>20, <2>21 DEF Call, Step
<1> QED
  BY <1>1, <1>2, <1>3 DEF Next

\* The initial state has the types.
LEMMA InitType ==
  ASSUME Init
  PROVE  TypeOK
<1>1. hw \in [Streams -> Hw] /\ pc \in [Streams -> Pc] /\ inten \subseteq Streams
  BY DEF Init, Hw, Pc
<1>2. inst0 \in [op : {None, "GO", "KILL"}, chan : Streams \cup {None}]
  BY DEF Init
<1>3. seen \in [Streams -> SUBSET Streams] /\ insn \in [Streams -> {None, "GO", "KILL"}]
      /\ ret \in [Streams -> {"idle", "startUntilStopped", "free"}]
      /\ inst1 \in Streams \cup {None}
  BY DEF Init
<1>4. /\ free \in [Streams -> BOOLEAN] /\ running \in [Streams -> BOOLEAN]
      /\ dmaThread \in [Streams -> BOOLEAN] /\ isActive \in [Streams -> BOOLEAN]
      /\ busy \in BOOLEAN
  BY DEF Init
<1> QED
  BY <1>1, <1>2, <1>3, <1>4 DEF TypeOK

\* The variables keep their types: what a thread of the audio driver is doing, the
\* states of the channels and the debug registers are those of the code.
THEOREM TypeCorrect == Spec => []TypeOK
  BY InitType, TypeStep, PTL DEF Spec

-----------------------------------------------------------------------------
(* The inductive invariant is kept.                                        *)

Others(s) == Streams \ {s}

\* A step of one thread, or of one channel, leaves what the others rely on: they are
\* between calls, and the debug registers are used for them only when free.
LEMMA OthersKept ==
  ASSUME IInv, NEW s \in Streams,
         \A t \in Others(s) : pc[t] = "idle",
         \A t \in Others(s) : /\ pc'[t] = pc[t] /\ hw'[t] = hw[t]
                              /\ free'[t] = free[t] /\ running'[t] = running[t]
                              /\ dmaThread'[t] = dmaThread[t] /\ isActive'[t] = isActive[t],
         \/ busy' = busy /\ inst0' = inst0
         \/ ~busy /\ (busy' => inst0'.chan = s)
  PROVE  \A t \in Others(s) :
           Places(t)' /\ Idle(t)' /\ Starting(t)' /\ Stopping(t)'
<1> SUFFICES ASSUME NEW t \in Others(s)
             PROVE  Places(t)' /\ Idle(t)' /\ Starting(t)' /\ Stopping(t)'
  OBVIOUS
<1>1. t \in Streams /\ t # s /\ pc[t] = "idle" /\ pc'[t] = "idle"
  BY DEF Others
<1>2. Places(t)' /\ Starting(t)' /\ Stopping(t)'
  BY <1>1 DEF Places, Starting, Stopping, Quiet, DebugPlaces
<1>3. \A op : busy' /\ inst0' = [op |-> op, chan |-> t] <=> Pending(t, op)
  BY <1>1 DEF Pending
<1>4. Idle(t)
  BY <1>1 DEF IInv
<1>5. Started(t)' = Started(t) /\ Halted(t)' = Halted(t)
  BY <1>1, <1>3 DEF Started, Halted, Runs, Ends, Pending
<1>6. Owned(t)' = Owned(t) /\ Unowned(t)' = Unowned(t)
  BY <1>1 DEF Owned, Unowned
<1> QED
  BY <1>1, <1>2, <1>4, <1>5, <1>6 DEF Idle

\* What a step may change of the others, and of the debug registers.
Frame(s) ==
  /\ \A t \in Others(s) : /\ pc'[t] = pc[t] /\ hw'[t] = hw[t]
                          /\ free'[t] = free[t] /\ running'[t] = running[t]
                          /\ dmaThread'[t] = dmaThread[t] /\ isActive'[t] = isActive[t]
  /\ \/ busy' = busy /\ inst0' = inst0
     \/ ~busy /\ (busy' => inst0'.chan = s)
  /\ busy' => inst0' \in [op : {"GO", "KILL"}, chan : Streams]

Here(s) == Places(s) /\ Idle(s) /\ Starting(s) /\ Stopping(s)

\* When all other threads are between calls, the invariant is kept by a step that
\* keeps it for its own stream.
LEMMA KeptByOne ==
  ASSUME IInv, TypeOK', NEW s \in Streams,
         \A t \in Others(s) : pc[t] = "idle", Frame(s), Here(s)'
  PROVE  IInv'
<1>1. \A t \in Others(s) : Here(t)'
  BY OthersKept DEF Frame, Here
<1>2. \A t \in Streams : Here(t)'
  BY <1>1 DEF Others
<1>3. OneCall'
  BY DEF OneCall, Frame, Others
<1> QED
  BY <1>2, <1>3 DEF IInv, Frame, Here

\* Calls do not overlap: when a thread moves the others are between calls.
LEMMA OthersIdle ==
  ASSUME ~Overlap, IInv, NEW s \in Streams, Call(s) \/ Step(s)
  PROVE  \A t \in Others(s) : pc[t] = "idle"
<1>1. CASE Call(s)
  BY <1>1 DEF Call, RunAgain, Run, Stop, MayCall, Others
<1>2. CASE Step(s)
  <2>1. pc[s] # "idle"
    BY <1>2 DEF Step, Start, Until, Waits, Trigger, TriggerEnable, TriggerDone, Play, DbgIdle,
                DbgInst0, DbgInst1, DbgCmd, StopBegin, StopCheck, StopDone, FreeHandle, Release
  <2> QED
    BY <2>1 DEF IInv, OneCall, Others
<1> QED
  BY <1>1, <1>2

\* The calls that begin, and the steps of _start and _trigger.
LEMMA StartStep ==
  ASSUME ~DmacSlow, IInv, NEW s \in Streams,
         RunAgain(s) \/ Run(s) \/ Start(s) \/ Until(s) \/ Trigger(s) \/ TriggerEnable(s)
         \/ TriggerDone(s) \/ Play(s)
  PROVE  Frame(s) /\ Here(s)'
<1> USE DEF Goto, controller, driver, None, Places, Idle, Starting, Stopping, Quiet,
            DebugPlaces, Pending, Runs, Ends, Started, Halted, Unowned, Prepared, Owned
<1>0. /\ Places(s) /\ Idle(s) /\ Starting(s) /\ Stopping(s) /\ s \notin Others(s)
      /\ busy => inst0 \in [op : {"GO", "KILL"}, chan : Streams]
      /\ Others(s) \subseteq Streams
      /\ TypeOK
  BY DEF IInv, Others
<1>1. CASE RunAgain(s)
  <2>1. Frame(s)
    BY <1>0, <1>1 DEF RunAgain, MayCall, Frame, TypeOK
  <2>2. Here(s)'
    BY <1>0, <1>1 DEF RunAgain, MayCall, Here, TypeOK
  <2> QED
    BY <2>1, <2>2
<1>2. CASE Run(s)
  <2>1. Frame(s)
    BY <1>0, <1>2 DEF Run, MayCall, Frame, TypeOK
  <2>2. Here(s)'
    BY <1>0, <1>2 DEF Run, MayCall, Here, TypeOK
  <2> QED
    BY <2>1, <2>2
<1>3. CASE Start(s)
  <2>1. Frame(s)
    BY <1>0, <1>3 DEF Start, Frame, TypeOK
  <2>2. Here(s)'
    BY <1>0, <1>3 DEF Start, Here, TypeOK
  <2> QED
    BY <2>1, <2>2
<1>4. CASE Until(s)
  <2>1. Frame(s)
    BY <1>0, <1>4 DEF Until, Waits, Frame, TypeOK
  <2>2. Here(s)'
    BY <1>0, <1>4 DEF Until, Waits, Here, TypeOK
  <2> QED
    BY <2>1, <2>2
<1>5. CASE Trigger(s)
  <2>1. Frame(s)
    BY <1>0, <1>5 DEF Trigger, Frame, TypeOK
  <2>2. Here(s)'
    BY <1>0, <1>5 DEF Trigger, Here, TypeOK
  <2> QED
    BY <2>1, <2>2
<1>6. CASE TriggerEnable(s)
  <2>1. Frame(s)
    BY <1>0, <1>6 DEF TriggerEnable, Frame, TypeOK
  <2>2. Here(s)'
    BY <1>0, <1>6 DEF TriggerEnable, Here, TypeOK
  <2> QED
    BY <2>1, <2>2
<1>7. CASE TriggerDone(s)
  <2>1. Frame(s)
    BY <1>0, <1>7 DEF TriggerDone, Frame, TypeOK
  <2>2. Here(s)'
    BY <1>0, <1>7 DEF TriggerDone, Here, TypeOK
  <2> QED
    BY <2>1, <2>2
<1>8. CASE Play(s)
  <2>1. Frame(s)
    BY <1>0, <1>8 DEF Play, Frame, TypeOK
  <2>2. Here(s)'
    BY <1>0, <1>8 DEF Play, Here, TypeOK
  <2> QED
    BY <2>1, <2>2
<1> QED
  BY <1>1, <1>2, <1>3, <1>4, <1>5, <1>6, <1>7, <1>8

\* The steps of _execute_DBGINSN, of _stop and of rk3x_stop.
LEMMA StopStep ==
  ASSUME ~DmacSlow, IInv, NEW s \in Streams,
         Stop(s) \/ DbgIdle(s) \/ DbgInst0(s) \/ DbgInst1(s) \/ DbgCmd(s)
         \/ StopBegin(s) \/ StopCheck(s) \/ StopDone(s) \/ FreeHandle(s) \/ Release(s)
  PROVE  Frame(s) /\ Here(s)'
<1> USE DEF Goto, controller, driver, None, Places, Idle, Starting, Stopping, Quiet,
            DebugPlaces, Pending, Runs, Ends, Started, Halted, Unowned, Prepared, Owned
<1>0. /\ Places(s) /\ Idle(s) /\ Starting(s) /\ Stopping(s) /\ s \notin Others(s)
      /\ busy => inst0 \in [op : {"GO", "KILL"}, chan : Streams]
      /\ Others(s) \subseteq Streams
      /\ TypeOK
  BY DEF IInv, Others
<1>1. CASE Stop(s)
  <2>1. Frame(s)
    BY <1>0, <1>1 DEF Stop, MayCall, Frame, TypeOK
  <2>2. Here(s)'
    BY <1>0, <1>1 DEF Stop, MayCall, Here, TypeOK
  <2> QED
    BY <2>1, <2>2
<1>2. CASE DbgIdle(s)
  <2>1. Frame(s)
    BY <1>0, <1>2 DEF DbgIdle, Frame, TypeOK
  <2>2. Here(s)'
    BY <1>0, <1>2 DEF DbgIdle, Here, TypeOK
  <2> QED
    BY <2>1, <2>2
<1>3. CASE DbgInst0(s)
  <2>1. Frame(s)
    BY <1>0, <1>3 DEF DbgInst0, Frame, TypeOK
  <2>2. Here(s)'
    BY <1>0, <1>3 DEF DbgInst0, Here, TypeOK
  <2> QED
    BY <2>1, <2>2
<1>4. CASE DbgInst1(s)
  <2>1. Frame(s)
    BY <1>0, <1>4 DEF DbgInst1, Frame, TypeOK
  <2>2. Here(s)'
    BY <1>0, <1>4 DEF DbgInst1, Here, TypeOK
  <2> QED
    BY <2>1, <2>2
<1>5. CASE DbgCmd(s)
  <2>0. insn[s] \in {"GO", "KILL"} /\ inst0 = [op |-> insn[s], chan |-> s]
    BY <1>0, <1>5 DEF DbgCmd, TypeOK
  <2>1. Frame(s)
    BY <1>0, <1>5, <2>0 DEF DbgCmd, Frame, TypeOK
  <2>2. Here(s)'
    BY <1>0, <1>5 DEF DbgCmd, Here, TypeOK
  <2> QED
    BY <2>1, <2>2
<1>6. CASE StopBegin(s)
  <2>1. Frame(s)
    BY <1>0, <1>6 DEF StopBegin, Frame, TypeOK
  <2>2. Here(s)'
    BY <1>0, <1>6 DEF StopBegin, Here, TypeOK
  <2> QED
    BY <2>1, <2>2
<1>7. CASE StopCheck(s)
  <2>1. Frame(s)
    BY <1>0, <1>7 DEF StopCheck, Frame, TypeOK
  <2>2. Here(s)'
    BY <1>0, <1>7 DEF StopCheck, Here, TypeOK
  <2> QED
    BY <2>1, <2>2
<1>8. CASE StopDone(s)
  <2>1. Frame(s)
    BY <1>0, <1>8 DEF StopDone, Frame, TypeOK
  <2>2. Here(s)'
    BY <1>0, <1>8 DEF StopDone, Here, TypeOK
  <2> QED
    BY <2>1, <2>2
<1>9. CASE FreeHandle(s)
  <2>1. Frame(s)
    BY <1>0, <1>9 DEF FreeHandle, Frame, TypeOK
  <2>2. Here(s)'
    BY <1>0, <1>9 DEF FreeHandle, Here, TypeOK
  <2> QED
    BY <2>1, <2>2
<1>10. CASE Release(s)
  <2>1. Frame(s)
    BY <1>0, <1>10 DEF Release, Frame, TypeOK
  <2>2. Here(s)'
    BY <1>0, <1>10 DEF Release, Here, TypeOK
  <2> QED
    BY <2>1, <2>2
<1> QED
  BY <1>1, <1>2, <1>3, <1>4, <1>5, <1>6, <1>7, <1>8, <1>9, <1>10

\* The steps of the controller in one channel: no other stream is concerned.
LEMMA ChannelStep ==
  ASSUME IInv, TypeOK', NEW s \in Streams, HwKilled(s) \/ HwFault(s) \/ HwFaulted(s)
  PROVE  IInv'
<1> USE DEF HwKilled, HwFault, HwFaulted, driver, thread
<1>1. \A t \in Streams : Here(t)
  BY DEF IInv, Here
<1>2. \A t \in Others(s) : Here(t)'
  BY <1>1 DEF Others, Here, TypeOK, IInv, Places, Idle, Starting, Stopping, Quiet, DebugPlaces,
              Pending, Runs, Ends, Started, Halted, Unowned, Prepared, Owned
<1>3. Here(s)'
  BY <1>1 DEF Here, TypeOK, IInv, Places, Idle, Starting, Stopping, Quiet, DebugPlaces,
              Pending, Runs, Ends, Started, Halted, Unowned, Prepared, Owned
<1> QED
  BY <1>2, <1>3 DEF IInv, OneCall, Others, Here

\* The controller executes what the debug registers hold: the channel they name is
\* the one of the thread that filled them.
LEMMA DebugStep ==
  ASSUME IInv, TypeOK', HwDebug
  PROVE  IInv'
<1> USE DEF HwDebug, driver, thread
<1>1. \A t \in Streams : Here(t)
  BY DEF IInv, Here
<1>2. PICK op \in {"GO", "KILL"}, c \in Streams : inst0 = [op |-> op, chan |-> c]
  BY DEF IInv
<1>3. \A t \in Others(c) : hw'[t] = hw[t] /\ ~Pending(t, "GO") /\ ~Pending(t, "KILL")
  <2> SUFFICES ASSUME NEW t \in Others(c)
               PROVE  hw'[t] = hw[t] /\ ~Pending(t, "GO") /\ ~Pending(t, "KILL")
    OBVIOUS
  <2>1. t \in Streams /\ t # c /\ inst0.chan = c
    BY <1>2 DEF Others
  <2>2. hw'[t] = hw[t]
    BY <2>1 DEF IInv, TypeOK
  <2> HIDE DEF HwDebug
  <2>3. inst0 # [op |-> "GO", chan |-> t] /\ inst0 # [op |-> "KILL", chan |-> t]
    BY <2>1
  <2> QED
    BY <2>2, <2>3 DEF Pending
<1>4. \A t \in Others(c) : Here(t)'
  BY <1>1, <1>3 DEF Others, Here, Places, Idle, Starting, Stopping, Quiet, DebugPlaces,
              Pending, Runs, Ends, Started, Halted, Unowned, Prepared, Owned
<1>5. Here(c)'
  <2>1. /\ Pending(c, op) /\ op = inst0.op /\ c = inst0.chan
        /\ \A o \in {"GO", "KILL"} : Pending(c, o) => o = op
    BY <1>2 DEF Pending
  <2>2. hw \in [Streams -> Hw] /\ hw[c] \in Hw
    BY DEF IInv, TypeOK
  <2>3. Started(c) => Started(c)'
    <3>1. ~Pending(c, "KILL")'
      BY DEF Pending
    <3>2. Started(c) => op = "GO" /\ (Runs(c) \/ hw[c] = "Stopped")
      BY <2>1 DEF Started
    <3>3. op = "GO" /\ (Runs(c) \/ hw[c] = "Stopped") => Runs(c)'
      BY <2>1, <2>2 DEF Runs, Hw
    <3> QED
      BY <3>1, <3>2, <3>3 DEF Started
  <2>4. Halted(c) => Halted(c)'
    <3>1. ~Pending(c, "GO")'
      BY DEF Pending
    <3>2. Halted(c) => op = "KILL" \/ Ends(c)
      BY <2>1 DEF Halted
    <3>3. op = "KILL" \/ (Ends(c) /\ op # "GO") => Ends(c)'
      BY <2>1, <2>2 DEF Ends, Hw
    <3> QED
      BY <2>1, <3>1, <3>2, <3>3 DEF Halted
  <2>5. pc' = pc /\ insn' = insn /\ ret' = ret /\ inst0' = inst0 /\ driver' = driver
        /\ busy /\ ~busy'
    BY DEF IInv
  <2>6. Here(c) /\ pc[c] \notin Quiet
    BY <1>1, <2>5 DEF Here, Places
  <2> HIDE DEF HwDebug
  <2> QED
    BY <2>3, <2>4, <2>5, <2>6 DEF Here, Places, Idle, Starting, Stopping, Quiet, DebugPlaces,
                                  Unowned, Prepared, Owned
<1>6. OneCall' /\ ~busy'
  <2>1. pc' = pc
    OBVIOUS
  <2>2. busy' = FALSE
    OBVIOUS
  <2> HIDE DEF HwDebug
  <2> QED
    BY <2>1, <2>2, Zenon DEF IInv, OneCall
<1>7. \A t \in Streams : Here(t)'
  <2> HIDE DEF HwDebug
  <2> QED BY <1>4, <1>5 DEF Others
<1> QED
  BY <1>6, <1>7 DEF IInv, Here

\* Every step of the specification keeps the invariant.
LEMMA IInvKept ==
  ASSUME ~Overlap, ~DmacSlow, IInv, [Next]_vars
  PROVE  IInv'
<1>0. TypeOK'
  BY TypeStep DEF IInv
<1>1. CASE UNCHANGED vars
  <2>1. \A s \in Streams : Here(s)'
    BY <1>1 DEF IInv, vars, controller, driver, thread, Here, Places, Idle, Starting, Stopping,
                Pending, Runs, Ends, Started, Halted, Unowned, Prepared, Owned
  <2> QED
    BY <1>0, <1>1, <2>1 DEF IInv, vars, controller, thread, OneCall, Here
<1>2. CASE HwDebug
  BY <1>0, <1>2, DebugStep
<1>3. ASSUME NEW s \in Streams, Call(s) \/ Step(s)
      PROVE  IInv'
  <2>1. \A t \in Others(s) : pc[t] = "idle"
    BY <1>3, OthersIdle
  <2>2. Frame(s) /\ Here(s)'
    BY <1>3, StartStep, StopStep DEF Call, Step
  <2> QED
    BY <1>0, <2>1, <2>2, KeptByOne
<1>4. ASSUME NEW s \in Streams, HwKilled(s) \/ HwFault(s) \/ HwFaulted(s)
      PROVE  IInv'
  BY <1>0, <1>4, ChannelStep
<1> QED
  BY <1>1, <1>2, <1>3, <1>4 DEF Next

\* The invariant is kept by what is prompt and does not overlap.
THEOREM Inductive ==
  ASSUME ~Overlap, ~DmacSlow
  PROVE  Spec => []IInv
<1>1. Init => IInv
  <2> SUFFICES ASSUME Init
               PROVE  IInv
    OBVIOUS
  <2>1. \A s \in Streams : Here(s)
    BY DEF Init, Here, Places, Idle, Starting, Stopping, Quiet, DebugPlaces,
           Pending, Runs, Ends, Started, Halted, Unowned, Prepared, Owned
  <2>2. OneCall /\ ~busy
    BY DEF Init, OneCall
  <2>3. TypeOK
    BY InitType
  <2> QED
    BY <2>1, <2>2, <2>3 DEF IInv, Here
<1>2. IInv /\ [Next]_vars => IInv'
  BY IInvKept
<1> QED
  BY <1>1, <1>2, PTL DEF Spec

-----------------------------------------------------------------------------
(* What it implies.                                                        *)

\* GetHandle finds the channel of a stopped stream free, and _trigger will start it:
\* rk3x_stop gives back whatever rk3x_program_dma has taken.
THEOREM ChannelsKept ==
  ASSUME ~Overlap, ~DmacSlow
  PROVE  Spec => []NoChannelLeaked
<1>1. IInv => NoChannelLeaked
  BY DEF IInv, NoChannelLeaked, Idle, Unowned
<1> QED
  BY <1>1, Inductive, PTL

\* A stream that rk3x_play has made active has a channel that executes, or failed.
THEOREM ActiveStreamsExecute ==
  ASSUME ~Overlap, ~DmacSlow
  PROVE  Spec => []ActiveExecutes
<1>1. IInv => ActiveExecutes
  <2> SUFFICES ASSUME IInv, NEW s \in Streams, pc[s] = "idle", isActive[s], ~busy
               PROVE  hw[s] \in {"Executing", "FaultCompleting", "Faulting"}
    BY DEF ActiveExecutes
  <2>1. Idle(s) /\ ~Unowned(s)
    BY DEF IInv, Unowned
  <2> QED
    BY <2>1 DEF Idle, Started, Pending, Runs
<1> QED
  BY <1>1, Inductive, PTL

\* SubmitAudioDMA never writes the microcode under a channel that executes it.
THEOREM MicrocodeWrittenAtRest ==
  ASSUME ~Overlap, ~DmacSlow
  PROVE  Spec => []MicrocodeAtRest
<1>1. IInv => MicrocodeAtRest
  BY DEF IInv, MicrocodeAtRest, Places, Starting, Quiet, Ends
<1> QED
  BY <1>1, Inductive, PTL

-----------------------------------------------------------------------------
(* The SPI controller: the inductive invariant.                            *)

Bytes == Nat \X Nat
Pcs == {"idle", "transfer", "chunk", "enable", "push", "drain", "busy", "done", "complete"}

SpiTypes ==
  /\ tx \in Seq(Bytes) /\ wire \in Seq(Bytes) /\ txFifo \in Seq(Bytes) /\ shift \in Seq(Bytes)
  /\ rx \in Seq(Nat) /\ rxFifo \in Seq(Nat)
  /\ done \in Nat /\ chunk \in Nat /\ txi \in Nat /\ rxi \in Nat
  /\ spiEnabled \in BOOLEAN /\ ser \in BOOLEAN /\ settling \in BOOLEAN
  /\ spiAt \in Pcs
  /\ pool \subseteq {"tx", "rx"}

\* Nothing is in the FIFOs.
Empty == txFifo = <<>> /\ shift = <<>> /\ rxFifo = <<>> /\ ~settling

\* What is on the wire is what was to be sent, what has been received its answers.
Sent == /\ Len(wire) <= Len(tx) /\ \A i \in 1 .. Len(wire) : wire[i] = tx[i]
        /\ \A i \in 1 .. Len(rx) : rx[i] = i

\* Bytes go from one FIFO to the other and none is lost.
Counts ==
  /\ Len(shift) <= 1
  /\ Len(wire) + Len(shift) + Len(txFifo) = done + txi
  /\ Len(rx) + Len(rxFifo) = Len(wire) /\ Len(rx) = done + rxi
  /\ txi <= chunk /\ txi - rxi <= FIFO_DEPTH /\ done + chunk <= Len(tx)

\* They stay in order.
Flow ==
  /\ Counts
  /\ \A i \in 1 .. Len(shift) : shift[i] = tx[Len(wire) + i]
  /\ \A i \in 1 .. Len(txFifo) : txFifo[i] = tx[Len(wire) + Len(shift) + i]
  /\ \A i \in 1 .. Len(rxFifo) : rxFifo[i] = Len(rx) + i

Stages ==
  /\ spiAt \in {"idle", "transfer", "complete"} => Empty /\ ~spiEnabled /\ ~ser
  /\ spiAt = "transfer" => wire = <<>> /\ rx = <<>> /\ done = 0
  /\ spiAt \in {"chunk", "enable"} =>
       Empty /\ Len(wire) = done /\ Len(rx) = done /\ done < Len(tx)
  /\ spiAt = "enable" => txi = 0 /\ rxi = 0 /\ done + chunk <= Len(tx)
  /\ spiAt \in {"push", "drain", "busy"} => Flow
  /\ spiAt = "busy" => rxi = chunk
  /\ spiAt = "done" /\ spiStatus # "Success" => Flow
  /\ spiAt \notin {"idle", "transfer"} => Sent
  /\ spiAt \in {"transfer", "chunk", "enable", "push", "drain", "busy"} => spiStatus = "Success"
  /\ spiAt = "done" /\ spiStatus = "Success" => Empty /\ Len(wire) = Len(tx) /\ Len(rx) = Len(tx)
  /\ spiAt = "complete" /\ spiStatus = "Success" => Len(wire) = Len(tx) /\ Len(rx) = Len(tx)
  /\ spiAt = "idle" => pool = {}

Divider(t) == /\ t.baudr % 2 = 0
              /\ t.speed * BAUDR_MAX >= InputClock => t.baudr * t.speed >= InputClock

Target ==
  /\ target # S!NoTarget => Divider(target)
  /\ spiAt # "idle" => target # S!NoTarget
  /\ spiAt \in {"chunk", "enable", "push", "drain", "busy", "done"} =>
       config = [mode |-> target.mode, baudr |-> target.baudr]

Asked ==
  spiAt # "idle" =>
    req \in SpiRequests /\ tx = S!TxOf(req) /\ (spiStatus = "Success" => S!Acceptable(req))

SpiInv == SpiTypes /\ Stages /\ Target /\ Asked /\ S!TransfersAsAsked

ByteInv == SpiTypes /\ Stages

-----------------------------------------------------------------------------
\* The lengths and the counters are numbers.
Sized ==
         /\ done \in Nat /\ chunk \in Nat /\ txi \in Nat /\ rxi \in Nat
         /\ Len(tx) \in Nat /\ Len(wire) \in Nat /\ Len(txFifo) \in Nat /\ Len(shift) \in Nat
         /\ Len(rx) \in Nat /\ Len(rxFifo) \in Nat
         /\ (Len(tx) = 0 <=> tx = <<>>) /\ (Len(txFifo) = 0 <=> txFifo = <<>>)
         /\ (Len(shift) = 0 <=> shift = <<>>) /\ (Len(rxFifo) = 0 <=> rxFifo = <<>>)
         /\ (Len(wire) = 0 <=> wire = <<>>) /\ (Len(rx) = 0 <=> rx = <<>>)

\* What the shift register can hold.
LEMMA One == ASSUME NEW n \in Nat, n # 0, n <= 1 PROVE n = 1
  OBVIOUS

\* All lengths are numbers.
LEMMA Sizes == ASSUME SpiTypes PROVE Sized
  BY LenZero DEF SpiTypes, Sized

\* Rk3xSpiTransfer writes a byte to TXDR: it is the next one of tx.
LEMMA PushKeeps ==
  ASSUME ByteInv, S!Push
  PROVE  ByteInv'
  <1>1. /\ spiAt = "push" /\ spiAt' = spiAt /\ txi < chunk /\ txi - rxi < FIFO_DEPTH
        /\ txFifo' = Append(txFifo, tx[done + txi + 1]) /\ txi' = txi + 1
        /\ UNCHANGED <<tx, wire, shift, rx, rxFifo, done, chunk, rxi, spiEnabled, ser, settling, pool, spiStatus>>
    BY DEF S!Push, S!MayPush, S!request, S!regs
  <1>2. SpiTypes /\ Stages /\ Flow /\ Sent
    BY <1>1 DEF ByteInv, Stages
  <1>sized. Sized
    BY <1>2, Sizes
  <1>3. done + txi + 1 \in 1 .. Len(tx) /\ tx[done + txi + 1] \in Bytes
    BY <1>1, <1>2, <1>sized, ElementOfSeq DEF SpiTypes, Flow, Counts, Sized
  <1>4. /\ txFifo' \in Seq(Bytes) /\ Len(txFifo') = Len(txFifo) + 1
        /\ txFifo'[Len(txFifo) + 1] = tx[done + txi + 1]
        /\ \A i \in 1 .. Len(txFifo) : txFifo'[i] = txFifo[i]
    BY <1>1, <1>2, <1>3, PutLast DEF SpiTypes
  <1>5. SpiTypes'
    BY <1>1, <1>2, <1>4 DEF SpiTypes
  <1>6. Flow'
    <2>c. Counts
      BY <1>2 DEF Flow
    <2>1. Len(wire) + Len(shift) + (Len(txFifo) + 1) = done + txi + 1
      <3>1. done \in Nat /\ txi \in Nat
        BY <1>2 DEF SpiTypes
      <3>2. QED
        BY <2>c, <1>2, <3>1, <1>sized DEF Counts, Sized
    <2>2. \A i \in 1 .. Len(txFifo) : txFifo'[i] = tx[Len(wire) + Len(shift) + i]
      BY <1>2, <1>4 DEF Flow, Counts
    <2>3. txFifo'[Len(txFifo) + 1] = tx[Len(wire) + Len(shift) + (Len(txFifo) + 1)]
      BY <2>1, <1>4
    <2>4. \A i \in 1 .. Len(txFifo') : i \in 1 .. Len(txFifo) \/ i = Len(txFifo) + 1
      BY <1>2, <1>4, <1>sized DEF Sized
    <2>5. \A i \in 1 .. Len(txFifo') : txFifo'[i] = tx[Len(wire) + Len(shift) + i]
      BY <2>2, <2>3, <2>4
    <2>6. txi' <= chunk /\ txi' - rxi <= FIFO_DEPTH
      BY <1>1, <1>2, InstanceAssumption DEF S!SpiAssumption, SpiTypes
    <2>7. Len(wire) + Len(shift) + Len(txFifo') = done + txi'
      <3>1. done \in Nat /\ txi \in Nat
        BY <1>2 DEF SpiTypes
      <3>2. QED
        BY <1>1, <1>4, <2>1, <3>1
    <2>8. QED
      BY <1>1, <1>2, <2>5, <2>6, <2>7 DEF Flow, Counts
  <1>7. Sent'
    BY <1>1, <1>2 DEF Sent
  <1>8. QED
    BY <1>1, <1>2, <1>5, <1>6, <1>7 DEF ByteInv, Stages

\* Rk3xSpiTransfer reads an answer from RXDR: it is that to the next frame.
LEMMA DrainKeeps ==
  ASSUME ByteInv, S!Drain
  PROVE  ByteInv'
  <1>1. /\ spiAt = "drain" /\ spiAt' = spiAt /\ rxi < chunk /\ rxFifo # <<>>
        /\ rx' = Append(rx, Head(rxFifo)) /\ rxFifo' = Tail(rxFifo) /\ rxi' = rxi + 1
        /\ UNCHANGED <<tx, wire, shift, txFifo, done, chunk, txi, spiEnabled, ser, settling, pool, spiStatus>>
    BY DEF S!Drain, S!request, S!regs
  <1>2. SpiTypes /\ Stages /\ Flow /\ Sent
    BY <1>1 DEF ByteInv, Stages
  <1>sized. Sized
    BY <1>2, Sizes
  <1>3. /\ Head(rxFifo) \in Nat /\ rxFifo' \in Seq(Nat) /\ Len(rxFifo') = Len(rxFifo) - 1
        /\ Len(rxFifo) > 0 /\ Head(rxFifo) = rxFifo[1]
        /\ \A i \in 1 .. Len(rxFifo') : rxFifo'[i] = rxFifo[i + 1]
    BY <1>1, <1>2, TakeHead DEF SpiTypes
  <1>4. /\ rx' \in Seq(Nat) /\ Len(rx') = Len(rx) + 1 /\ rx'[Len(rx) + 1] = Head(rxFifo)
        /\ \A i \in 1 .. Len(rx) : rx'[i] = rx[i]
    BY <1>1, <1>2, <1>3, PutLast DEF SpiTypes
  <1>5. SpiTypes'
    BY <1>1, <1>2, <1>3, <1>4 DEF SpiTypes
  <1>6. Head(rxFifo) = Len(rx) + 1
    BY <1>2, <1>3, <1>sized DEF Flow, Counts, SpiTypes, Sized
  <1>7. Flow'
    <2>1. \A i \in 1 .. Len(rxFifo') : i + 1 \in 1 .. Len(rxFifo) /\ Len(rx) + (i + 1) = Len(rx') + i
      BY <1>2, <1>3, <1>4, <1>sized DEF Sized
    <2>2. \A i \in 1 .. Len(rxFifo') : rxFifo'[i] = Len(rx') + i
      BY <1>2, <1>3, <2>1 DEF Flow, Counts
    <2>3. txi - rxi' <= FIFO_DEPTH
      <3>1. Counts /\ rxi' = rxi + 1
        BY <1>1, <1>2 DEF Flow
      <3>2. QED
        BY <3>1, <1>sized, InstanceAssumption DEF S!SpiAssumption, Counts, Sized
    <2>4. Len(rx') + Len(rxFifo') = Len(wire) /\ Len(rx') = done + rxi'
      <3>1. /\ Counts /\ rxi' = rxi + 1
            /\ Len(rx') = Len(rx) + 1 /\ Len(rxFifo') = Len(rxFifo) - 1
        BY <1>1, <1>2, <1>3, <1>4 DEF Flow
      <3>2. QED
        BY <3>1, <1>sized DEF Counts, Sized
    <2>5. QED
      BY <1>1, <1>2, <2>2, <2>3, <2>4 DEF Flow, Counts
  <1>8. Sent'
    BY <1>1, <1>2, <1>4, <1>6, <1>sized DEF Sent, Sized
  <1>9. QED
    BY <1>1, <1>2, <1>5, <1>7, <1>8 DEF ByteInv, Stages

\* The controller takes the next frame.
LEMMA HwShiftKeeps ==
  ASSUME ByteInv, S!HwShift
  PROVE  ByteInv'
  <1>1. /\ spiEnabled /\ ser /\ txFifo # <<>> /\ shift = <<>> /\ shift' = <<Head(txFifo)>>
        /\ txFifo' = Tail(txFifo)
        /\ settling' = FALSE
        /\ UNCHANGED <<spiAt, tx, wire, rx, rxFifo, done, chunk, txi, rxi, spiEnabled, ser, pool, spiStatus>>
    BY DEF S!HwShift, S!request, S!regs, S!loop
  <1>2. SpiTypes /\ Stages
    BY DEF ByteInv
  <1>sized. Sized
    BY <1>2, Sizes
  <1>3. spiAt \in {"push", "drain", "busy", "done"} /\ Flow /\ (spiAt = "done" => spiStatus # "Success")
    BY <1>1, <1>2 DEF Stages, Empty, SpiTypes, Pcs
  <1>4. /\ Head(txFifo) \in Bytes /\ txFifo' \in Seq(Bytes) /\ Len(txFifo') = Len(txFifo) - 1
        /\ Len(txFifo) > 0 /\ Head(txFifo) = txFifo[1]
        /\ \A i \in 1 .. Len(txFifo') : txFifo'[i] = txFifo[i + 1]
    BY <1>1, <1>2, TakeHead DEF SpiTypes
  <1>5. Len(shift) = 0 /\ Len(shift') = 1 /\ shift' \in Seq(Bytes) /\ shift'[1] = Head(txFifo)
    BY <1>1, <1>4
  <1>6. SpiTypes'
    BY <1>1, <1>2, <1>4, <1>5 DEF SpiTypes
  <1>7. Flow'
    <2>1. \A i \in 1 .. Len(txFifo') : txFifo'[i] = tx[Len(wire) + Len(shift') + i]
      BY <1>2, <1>3, <1>4, <1>5, <1>sized DEF Flow, Counts, Sized
    <2>2. shift'[1] = tx[Len(wire) + 1]
      BY <1>2, <1>3, <1>4, <1>5, <1>sized DEF Flow, Counts, Sized
    <2>3. \A i \in 1 .. Len(shift') : shift'[i] = tx[Len(wire) + i]
      <3>1. \A i \in 1 .. Len(shift') : i = 1
        BY <1>5
      <3>2. QED
        BY <2>2, <3>1
    <2>4. Counts'
      <3>1. /\ Counts /\ Len(shift) = 0 /\ Len(shift') = 1 /\ Len(txFifo') = Len(txFifo) - 1
            /\ UNCHANGED <<tx, wire, rx, rxFifo, done, chunk, txi, rxi>>
        BY <1>1, <1>3, <1>4, <1>5 DEF Flow
      <3>2. QED
        BY <3>1, <1>sized DEF Counts, Sized
    <2>5. QED
      BY <1>1, <1>3, <2>1, <2>3, <2>4 DEF Flow
  <1>8. Sent'
    BY <1>1, <1>2, <1>3 DEF Sent, Stages
  <1>9. QED
    BY <1>1, <1>2, <1>3, <1>6, <1>7, <1>8 DEF ByteInv, Stages

\* The controller has shifted a frame out and its answer in: the byte is at its place on
\* the wire.
LEMMA HwShiftedKeeps ==
  ASSUME ByteInv, S!HwShifted
  PROVE  ByteInv'
  <1>1. /\ shift # <<>> /\ wire' = wire \o shift /\ shift' = <<>> /\ settling' = TRUE
        /\ rxFifo' = Append(rxFifo, Len(wire'))
        /\ UNCHANGED <<spiAt, tx, txFifo, rx, done, chunk, txi, rxi, spiEnabled, ser, pool, spiStatus>>
    BY DEF S!HwShifted, S!request, S!regs, S!loop
  <1>2. SpiTypes /\ Stages
    BY DEF ByteInv
  <1>sized. Sized
    BY <1>2, Sizes
  <1>3. /\ spiAt \in {"push", "drain", "busy", "done"} /\ Flow /\ Sent
        /\ (spiAt = "done" => spiStatus # "Success")
    BY <1>1, <1>2 DEF Stages, Empty, SpiTypes, Pcs
  <1>4. Len(shift) = 1 /\ shift[1] = tx[Len(wire) + 1] /\ Len(shift') = 0
    <2>1. Len(shift) = 1 /\ Len(shift') = 0
      <3>1. Len(shift) # 0 /\ Len(shift) \in Nat
        BY <1>1, <1>sized DEF Sized
      <3>5. Len(shift) <= 1
        BY <1>3 DEF Flow, Counts
      <3>2. Len(shift) = 1
        BY <3>1, <3>5, One
      <3>3. Len(shift') = 0
        BY <1>1, EmptyOnce
      <3>4. QED
        BY <3>2, <3>3
    <2>2. 1 \in 1 .. Len(shift)
      BY <2>1
    <2>3. QED
      BY <1>3, <2>1, <2>2 DEF Flow, Counts
  <1>5. /\ wire' \in Seq(Bytes) /\ Len(wire') = Len(wire) + 1
        /\ \A i \in 1 .. Len(wire) : wire'[i] = wire[i]
        /\ wire'[Len(wire) + 1] = shift[1]
    <2>1. /\ wire' \in Seq(Bytes) /\ Len(wire') = Len(wire) + Len(shift)
          /\ \A i \in 1 .. Len(wire) + Len(shift) :
               wire'[i] = IF i <= Len(wire) THEN wire[i] ELSE shift[i - Len(wire)]
      BY <1>1, <1>2, ConcatProperties DEF SpiTypes
    <2>2. Len(wire) + 1 \in 1 .. Len(wire) + Len(shift) /\ Len(wire) + 1 - Len(wire) = 1
      BY <1>2, <1>4, <1>sized DEF Sized
    <2>3. QED
      BY <1>2, <1>4, <2>1, <2>2, <1>sized DEF Sized
  <1>6. /\ rxFifo' \in Seq(Nat) /\ Len(rxFifo') = Len(rxFifo) + 1
        /\ rxFifo'[Len(rxFifo) + 1] = Len(wire) + 1
        /\ \A i \in 1 .. Len(rxFifo) : rxFifo'[i] = rxFifo[i]
    BY <1>1, <1>2, <1>5, PutLast, <1>sized DEF SpiTypes, Sized
  <1>7. SpiTypes'
    BY <1>1, <1>2, <1>5, <1>6, EmptyOnce DEF SpiTypes
  <1>8. Flow'
    <2>1. \A i \in 1 .. Len(txFifo') : txFifo'[i] = tx[Len(wire') + Len(shift') + i]
      BY <1>1, <1>2, <1>3, <1>4, <1>5, <1>sized DEF Flow, Counts, Sized
    <2>2. \A i \in 1 .. Len(rxFifo) : rxFifo'[i] = Len(rx) + i
      BY <1>3, <1>6 DEF Flow, Counts
    <2>3. Len(rx) + (Len(rxFifo) + 1) = Len(wire) + 1
      BY <1>2, <1>3, <1>sized DEF Flow, Counts, Sized
    <2>4. rxFifo'[Len(rxFifo) + 1] = Len(rx) + (Len(rxFifo) + 1)
      BY <2>3, <1>6
    <2>5. \A i \in 1 .. Len(rxFifo') : i \in 1 .. Len(rxFifo) \/ i = Len(rxFifo) + 1
      BY <1>2, <1>6, <1>sized DEF Sized
    <2>6. \A i \in 1 .. Len(rxFifo') : rxFifo'[i] = Len(rx') + i
      BY <1>1, <2>2, <2>4, <2>5
    <2>7. Counts'
      <3>1. /\ Counts /\ Len(shift) = 1 /\ Len(shift') = 0 /\ Len(wire') = Len(wire) + 1
            /\ Len(rxFifo') = Len(rxFifo) + 1
            /\ UNCHANGED <<tx, txFifo, rx, done, chunk, txi, rxi>>
        BY <1>1, <1>3, <1>4, <1>5, <1>6 DEF Flow
      <3>2. QED
        BY <3>1, <1>sized DEF Counts, Sized
    <2>9. \A i \in 1 .. Len(shift') : FALSE
      BY <1>4
    <2>11. QED
      BY <1>1, <2>1, <2>6, <2>7, <2>9 DEF Flow
  <1>9. Sent'
    <2>1. Len(wire) + 1 <= Len(tx) /\ Counts
      <3>1. Counts /\ Len(shift) = 1
        BY <1>3, <1>4 DEF Flow
      <3>2. QED
        BY <3>1, <1>sized DEF Counts, Sized
    <2>2. \A i \in 1 .. Len(wire') : i \in 1 .. Len(wire) \/ i = Len(wire) + 1
      BY <1>5, <1>sized DEF Sized
    <2>3. wire'[Len(wire) + 1] = tx[Len(wire) + 1]
      BY <1>4, <1>5
    <2>4. \A i \in 1 .. Len(wire') : wire'[i] = tx[i]
      BY <1>3, <1>5, <2>2, <2>3 DEF Sent
    <2>5. Len(wire') <= Len(tx') /\ tx' = tx /\ rx' = rx
      BY <1>1, <1>5, <2>1
    <2>6. QED
      BY <1>3, <2>4, <2>5 DEF Sent
  <1>10. QED
    BY <1>1, <1>2, <1>3, <1>7, <1>8, <1>9 DEF ByteInv, Stages

\* The end of the busy status moves no byte.
LEMMA ControllerAside ==
  ASSUME ByteInv, S!HwSettled
  PROVE  ByteInv'
  <1>1. /\ settling /\ settling' = FALSE
        /\ UNCHANGED <<spiAt, tx, txFifo, shift, rxFifo, wire, rx, done, chunk, txi, rxi, spiEnabled, ser,
                       pool,
                      spiStatus>>
    BY DEF S!HwSettled, S!request, S!regs, S!loop
  <1>2. SpiTypes'
    BY <1>1 DEF ByteInv, SpiTypes
  <1>3. (Flow => Flow') /\ (Sent => Sent')
    BY <1>1 DEF Flow, Counts, Sent
  <1>4. Stages'
    BY <1>1, <1>3 DEF ByteInv, Stages, Empty
  <1>5. QED
    BY <1>2, <1>4 DEF ByteInv

\* What the loop does not touch.
LEMMA LoopOnly ==
  ASSUME ByteInv,
         UNCHANGED <<tx, txFifo, shift, rxFifo, settling, wire, rx, done, chunk, txi, rxi>>
  PROVE  (Flow => Flow') /\ (Sent => Sent') /\ (Empty => Empty')
  BY DEF Flow, Counts, Sent, Empty

\* The end of a round of the polling loop, and its timeouts, move no byte.
LEMMA PollingKeeps ==
  ASSUME ByteInv, S!PushEnd \/ S!DrainEnd \/ S!TimedOut \/ S!TimedOutReceiving
  PROVE  ByteInv'
  <1>1. /\ UNCHANGED <<tx, txFifo, shift, rxFifo, settling, wire, rx, done, chunk, txi, rxi, spiEnabled, ser,
                      pool>>
        /\ \/ spiAt = "push" /\ spiAt' = "drain" /\ spiStatus' = spiStatus
           \/ spiAt = "drain" /\ rxi < chunk /\ spiAt' = "push" /\ spiStatus' = spiStatus
           \/ spiAt = "drain" /\ ~(rxi < chunk) /\ spiAt' = "busy" /\ spiStatus' = spiStatus
           \/ spiAt \in {"drain", "busy"} /\ spiAt' = "done" /\ spiStatus' = "IoTimeout"
    BY DEF S!PushEnd, S!DrainEnd, S!TimedOut, S!TimedOutReceiving, S!request, S!regs, S!loop, S!fifos, S!hw
  <1>2. (Flow => Flow') /\ (Sent => Sent') /\ (Empty => Empty')
    BY <1>1, LoopOnly
  <1>3. SpiTypes /\ Stages /\ Flow /\ Sent
    BY <1>1 DEF ByteInv, Stages
  <1>sized. Sized
    BY <1>3, Sizes
  <1>4. SpiTypes'
    BY <1>1, <1>3 DEF SpiTypes, Pcs
  <1>5. spiAt' = "busy" => rxi = chunk
    <2>1. Counts
      BY <1>3 DEF Flow
    <2>2. rxi <= txi
      BY <2>1, <1>sized DEF Counts, Sized
    <2>3. QED
      BY <1>1, <2>1, <2>2, <1>sized DEF Counts, Sized
  <1>6. Stages'
    BY <1>1, <1>2, <1>3, <1>5 DEF Stages
  <1>7. QED
    BY <1>4, <1>6 DEF ByteInv

\* Configuring the controller disables it, which empties the FIFOs of what a timeout left.
LEMMA ConfigureKeeps ==
  ASSUME ByteInv, S!Configure
  PROVE  ByteInv'
  <1>1. /\ spiAt = "transfer" /\ UNCHANGED <<tx, wire, rx, done, chunk, txi, rxi, pool, spiStatus, ser>>
        /\ \/ tx = <<>> /\ spiAt' = "complete" /\ UNCHANGED <<txFifo, shift, rxFifo, settling, spiEnabled>>
           \/ tx # <<>> /\ spiAt' = "chunk" /\ Empty' /\ ~spiEnabled' /\ spiEnabled' \in BOOLEAN
              /\ settling' \in BOOLEAN
    BY DEF S!Configure, S!Disable, S!request, S!regs, S!loop, S!hw, Empty
  <1>2. SpiTypes /\ Stages /\ Empty /\ wire = <<>> /\ rx = <<>> /\ done = 0 /\ ~spiEnabled /\ ~ser
    BY <1>1 DEF ByteInv, Stages
  <1>sized. Sized
    BY <1>2, Sizes
  <1>3. SpiTypes'
    BY <1>1, <1>2, EmptyOnce DEF SpiTypes, Pcs, Empty
  <1>4. Len(wire) = 0 /\ Len(rx) = 0
    BY <1>2, EmptyOnce
  <1>5. Sent'
    BY <1>1, <1>4, <1>sized DEF Sent, Sized
  <1>6. (spiAt' = "complete" => Empty' /\ ~spiEnabled') /\ (spiAt' = "chunk" => done < Len(tx))
    BY <1>1, <1>2, <1>sized DEF Empty, Sized
  <1>7. (spiAt' = "complete" => Len(wire) = Len(tx) /\ Len(rx) = Len(tx)) /\ (spiAt' = "chunk" => Empty')
    BY <1>1, <1>4, <1>sized DEF Sized
  <1>8. Stages'
    BY <1>1, <1>2, <1>4, <1>5, <1>6, <1>7 DEF Stages
  <1>9. QED
    BY <1>3, <1>8 DEF ByteInv

\* A chunk begins with empty FIFOs and the length it may have.
LEMMA ChunkDisableKeeps ==
  ASSUME ByteInv, S!ChunkDisable
  PROVE  ByteInv'
  <1>1. /\ spiAt = "chunk" /\ spiAt' = "enable" /\ done < Len(tx) /\ txi' = 0 /\ rxi' = 0 /\ Empty'
        /\ chunk' = (IF Len(tx) - done > MAX_FRAMES THEN MAX_FRAMES ELSE Len(tx) - done)
        /\ spiEnabled' \in BOOLEAN /\ settling' \in BOOLEAN
        /\ UNCHANGED <<tx, wire, rx, done, pool, spiStatus, ser>>
    BY DEF S!ChunkDisable, S!Disable, S!request, S!regs, S!loop, S!hw, Empty
  <1>2. SpiTypes /\ Stages /\ Len(wire) = done /\ Len(rx) = done /\ Sent
    BY <1>1 DEF ByteInv, Stages
  <1>sized. Sized
    BY <1>2, Sizes
  <1>3. chunk' \in Nat /\ done + chunk' <= Len(tx)
    BY <1>1, <1>sized, InstanceAssumption DEF Sized, S!SpiAssumption
  <1>4. SpiTypes'
    BY <1>1, <1>2, <1>3, EmptyOnce DEF SpiTypes, Pcs, Empty
  <1>5. Sent'
    BY <1>1, <1>2 DEF Sent
  <1>6. Stages'
    BY <1>1, <1>2, <1>3, <1>5 DEF Stages
  <1>7. QED
    BY <1>4, <1>6 DEF ByteInv

\* The controller is enabled when no byte of the chunk is under way yet.
LEMMA ChunkEnableKeeps ==
  ASSUME ByteInv, S!ChunkEnable
  PROVE  ByteInv'
  <1>1. /\ spiAt = "enable" /\ spiAt' = "push" /\ spiEnabled' \in BOOLEAN /\ ser' \in BOOLEAN
        /\ UNCHANGED <<tx, txFifo, shift, rxFifo, settling, wire, rx, done, chunk, txi, rxi, pool, spiStatus>>
    BY DEF S!ChunkEnable, S!request, S!regs, S!loop, S!hw, S!fifos
  <1>2. /\ SpiTypes /\ Stages /\ Empty /\ Len(wire) = done /\ Len(rx) = done /\ Sent
        /\ txi = 0 /\ rxi = 0 /\ done + chunk <= Len(tx) /\ spiStatus = "Success"
    BY <1>1 DEF ByteInv, Stages
  <1>sized. Sized
    BY <1>2, Sizes
  <1>3. Sent'
    BY <1>1, <1>2 DEF Sent
  <1>4. Len(txFifo) = 0 /\ Len(shift) = 0 /\ Len(rxFifo) = 0
    BY <1>2, EmptyOnce DEF Empty
  <1>5. Counts
    BY <1>2, <1>4, <1>sized, InstanceAssumption DEF Counts, S!SpiAssumption, Sized
  <1>6. Flow
    <2>1. \A i \in 1 .. 0 : FALSE
      OBVIOUS
    <2>2. QED
      BY <1>4, <1>5, <2>1 DEF Flow
  <1>7. Flow'
    BY <1>1, <1>6 DEF Flow, Counts
  <1>8. SpiTypes'
    BY <1>1, <1>2 DEF SpiTypes, Pcs
  <1>9. Stages'
    BY <1>1, <1>2, <1>3, <1>7 DEF Stages
  <1>10. QED
    BY <1>8, <1>9 DEF ByteInv

\* A chunk that is not busy any more has all its bytes on the wire and all its answers in
\* rx.
LEMMA ChunkDoneKeeps ==
  ASSUME ByteInv, S!ChunkDone
  PROVE  ByteInv'
  <1>1. /\ spiAt = "busy" /\ txFifo = <<>> /\ shift = <<>> /\ ~settling /\ done' = done + chunk
        /\ spiAt' = (IF done' < Len(tx) THEN "chunk" ELSE "done")
        /\ UNCHANGED <<tx, txFifo, shift, rxFifo, settling, wire, rx, chunk, txi, rxi, spiEnabled, ser, pool,
                      spiStatus>>
    BY DEF S!ChunkDone, S!Busy, S!request, S!regs, S!loop, S!hw, S!fifos
  <1>2. SpiTypes /\ Stages /\ Flow /\ Sent /\ rxi = chunk /\ spiStatus = "Success"
    BY <1>1 DEF ByteInv, Stages
  <1>sized. Sized
    BY <1>2, Sizes
  <1>3. Counts /\ Len(txFifo) = 0 /\ Len(shift) = 0
    BY <1>1, <1>2, EmptyOnce DEF Flow
  <1>4. Len(rxFifo) = 0 /\ Len(wire) = done' /\ Len(rx) = done' /\ done' <= Len(tx)
    BY <1>1, <1>2, <1>3, <1>sized DEF Counts, Sized
  <1>5. Empty'
    BY <1>1, <1>4, <1>sized DEF Empty, Sized
  <1>6. Sent'
    BY <1>1, <1>2 DEF Sent
  <1>7. SpiTypes'
    BY <1>1, <1>2, <1>sized DEF SpiTypes, Pcs, Sized
  <1>8. spiAt' = "done" => Len(wire) = Len(tx) /\ Len(rx) = Len(tx)
    BY <1>1, <1>4, <1>sized DEF Sized
  <1>9. Stages'
    BY <1>1, <1>2, <1>4, <1>5, <1>6, <1>8 DEF Stages
  <1>10. QED
    BY <1>7, <1>9 DEF ByteInv

\* The end of a transfer leaves the controller disabled and empty.
LEMMA TransferEndKeeps ==
  ASSUME ByteInv, S!TransferEnd
  PROVE  ByteInv'
  <1>1. /\ spiAt = "done" /\ spiAt' = "complete" /\ Empty' /\ ~spiEnabled' /\ ~ser'
        /\ spiEnabled' \in BOOLEAN /\ ser' \in BOOLEAN /\ settling' \in BOOLEAN
        /\ UNCHANGED <<tx, wire, rx, done, chunk, txi, rxi, pool, spiStatus>>
    BY DEF S!TransferEnd, S!Disable, S!request, S!loop, Empty
  <1>2. SpiTypes /\ Stages /\ Sent
    BY <1>1 DEF ByteInv, Stages
  <1>3. SpiTypes'
    BY <1>1, <1>2, EmptyOnce DEF SpiTypes, Pcs, Empty
  <1>4. Sent'
    BY <1>1, <1>2 DEF Sent
  <1>5. Stages'
    BY <1>1, <1>2, <1>4 DEF Stages
  <1>6. QED
    BY <1>3, <1>5 DEF ByteInv

\* The completion gives both buffers back.
LEMMA CompleteKeeps ==
  ASSUME ByteInv, S!Complete
  PROVE  ByteInv'
  <1>1. /\ spiAt = "complete" /\ spiAt' = "idle" /\ pool' = {}
        /\ UNCHANGED <<tx, txFifo, shift, rxFifo, settling, wire, rx, done, chunk, txi, rxi, spiEnabled, ser,
                      spiStatus>>
    BY DEF S!Complete, S!regs, S!loop, S!hw, S!fifos
  <1>2. SpiTypes /\ Stages /\ Empty /\ ~spiEnabled /\ ~ser
    BY <1>1 DEF ByteInv, Stages
  <1>3. SpiTypes' /\ Empty'
    BY <1>1, <1>2 DEF SpiTypes, Pcs, Empty
  <1>4. QED
    BY <1>1, <1>2, <1>3 DEF Stages, ByteInv

\* A target connects while no request is served.
LEMMA TargetConnectKeeps ==
  ASSUME ByteInv, NEW d, S!TargetConnect(d)
  PROVE  ByteInv'
  <1>1. /\ spiAt' = spiAt
        /\ UNCHANGED <<tx, txFifo, shift, rxFifo, settling, wire, rx, done, chunk, txi, rxi, spiEnabled, ser,
                      spiStatus, pool>>
    BY DEF S!TargetConnect, S!regs, S!loop, S!hw, S!fifos, S!request
  <1>2. (Flow => Flow') /\ (Sent => Sent') /\ (Empty => Empty')
    BY <1>1, LoopOnly
  <1>3. QED
    BY <1>1, <1>2 DEF ByteInv, Stages, SpiTypes

\* A request that cannot be served is completed without a transfer.
LEMMA BeginKeeps ==
  ASSUME ByteInv, NEW r \in SpiRequests, S!TxOf(r) \in Seq(Bytes), S!Begin(r)
  PROVE  ByteInv'
  <1>1. /\ spiAt = "idle" /\ tx' = S!TxOf(r) /\ rx' = <<>> /\ wire' = <<>>
        /\ done' = 0 /\ chunk' = 0 /\ txi' = 0 /\ rxi' = 0
        /\ UNCHANGED <<txFifo, shift, rxFifo, settling, spiEnabled, ser>>
    BY DEF S!Begin, S!regs, S!hw
  <1>2. /\ pool' \subseteq {"tx", "rx"}
        /\ (spiStatus' = "Success" /\ spiAt' = "transfer") \/ (spiStatus' # "Success" /\ spiAt' = "complete")
    BY DEF S!Begin
  <1>3. SpiTypes /\ Stages /\ Empty /\ ~spiEnabled /\ ~ser
    BY <1>1 DEF ByteInv, Stages
  <1>4. SpiTypes'
    BY <1>1, <1>2, <1>3, EmptyOnce DEF SpiTypes, Pcs
  <1>5. Empty'
    BY <1>1, <1>3 DEF Empty
  <1>6. Sent'
    <2>1. Len(wire') = 0 /\ Len(rx') = 0 /\ Len(tx') \in Nat
      BY <1>1, <1>4, EmptyOnce, LenZero DEF SpiTypes
    <2>2. QED
      BY <2>1 DEF Sent
  <1>7. Stages'
    BY <1>1, <1>2, <1>3, <1>5, <1>6 DEF Stages
  <1>8. QED
    BY <1>4, <1>7 DEF ByteInv

-----------------------------------------------------------------------------
(* The target.                                                             *)

\* Rounding up to an even number.
LEMMA Halves ==
  ASSUME NEW n \in Nat
  PROVE  /\ ((n + 1) \div 2) * 2 \in Nat /\ ((n + 1) \div 2) * 2 >= n
         /\ (((n + 1) \div 2) * 2) % 2 = 0
  OBVIOUS

\* A quotient rounded up is at least the quotient.
LEMMA RoundedUp ==
  ASSUME NEW a \in Nat, NEW b \in Nat \ {0}
  PROVE  (a + b - 1) \div b \in Nat /\ ((a + b - 1) \div b) * b >= a
  <1> DEFINE n == a + b - 1
             q == n \div b
             m == n % b
  <1>1. n \in Nat
    OBVIOUS
  <1>2. q \in Nat /\ m \in 0 .. (b - 1) /\ n = b * q + m
    BY <1>1, SMTT(30)
  <1>3. b * q >= a
    BY <1>1, <1>2
  <1>4. QED
    BY <1>2, <1>3

\* Multiplication keeps an inequality.
LEMMA TimesMonotone ==
  ASSUME NEW a \in Nat, NEW b \in Nat, NEW k \in Nat, a <= b
  PROVE  a * k <= b * k
  OBVIOUS

\* The divider of Rk3xSpiEvtTargetConnect is even and not below InputClock / speed.
LEMMA DividerRight ==
  ASSUME NEW speed \in Nat \ {0}, NEW mode
  PROVE  Divider([speed |-> speed, mode |-> mode, baudr |-> S!Rk3xSpiComputeBaudr(speed)])
  <1> DEFINE up == (InputClock + speed - 1) \div speed
             least == IF up < BAUDR_MIN THEN BAUDR_MIN ELSE up
             even == ((least + 1) \div 2) * 2
             baudr == IF even > BAUDR_MAX THEN BAUDR_MAX ELSE even
  <1>1. up \in Nat /\ up * speed >= InputClock
    BY RoundedUp, InstanceAssumption DEF S!SpiAssumption
  <1> HIDE DEF up
  <1>2. least \in Nat /\ least >= up
    BY <1>1, InstanceAssumption DEF S!SpiAssumption
  <1> HIDE DEF least
  <1>3. even \in Nat /\ even >= least /\ even % 2 = 0
    BY <1>2, Halves
  <1> HIDE DEF even
  <1>4. baudr \in Nat /\ baudr % 2 = 0
    BY <1>3, InstanceAssumption DEF S!SpiAssumption
  <1>5. speed * BAUDR_MAX >= InputClock => baudr * speed >= InputClock
    <2>1. even * speed >= up * speed
      <3>1. even >= up
        BY <1>1, <1>2, <1>3
      <3>2. QED
        BY <1>1, <1>3, <3>1, TimesMonotone
    <2>2. up * speed \in Nat /\ even * speed \in Nat /\ InputClock \in Nat
      BY <1>1, <1>3, InstanceAssumption DEF S!SpiAssumption
    <2>3. even * speed >= InputClock
      BY <1>1, <2>1, <2>2
    <2>4. speed * BAUDR_MAX = BAUDR_MAX * speed
      BY InstanceAssumption DEF S!SpiAssumption
    <2>5. QED
      BY <2>3, <2>4
  <1>6. S!Rk3xSpiComputeBaudr(speed) = baudr
    BY DEF S!Rk3xSpiComputeBaudr, up, least, even
  <1>7. QED
    BY <1>4, <1>5, <1>6 DEF Divider

TargetInv == SpiTypes /\ Stages /\ Target

\* The settings in the controller are those of the target.
LEMMA TargetKeeps ==
  ASSUME Target, ByteInv, S!Next
  PROVE  Target'
  <1>1. CASE \E d \in Descriptors : S!TargetConnect(d)
    <2>1. PICK d \in Descriptors : S!TargetConnect(d)
      BY <1>1
    <2> DEFINE speed == IF d.speed = 0 THEN DefaultSpeed ELSE d.speed
    <2>2. speed \in Nat \ {0}
      BY InstanceAssumption DEF S!SpiAssumption
    <2>3. /\ target' = [speed |-> speed, mode |-> d.mode, baudr |-> S!Rk3xSpiComputeBaudr(speed)]
          /\ spiAt = "idle" /\ spiAt' = "idle"
      BY <2>1 DEF S!TargetConnect
    <2>4. Divider(target')
      BY <2>2, <2>3, DividerRight
    <2>5. QED
      BY <2>3, <2>4 DEF Target, Divider
  <1>2. CASE \E r \in SpiRequests : S!Begin(r)
    <2>1. PICK r \in SpiRequests : S!Begin(r)
      BY <1>2
    <2>2. target # S!NoTarget /\ UNCHANGED <<target, config>> /\ spiAt' \in {"transfer", "complete"}
      BY <2>1 DEF S!Begin, S!regs
    <2>3. QED
      BY <2>2 DEF Target, Divider
  <1>3. CASE S!Configure
    <2>1. /\ spiAt = "transfer" /\ UNCHANGED target
          /\ \/ spiAt' = "complete"
             \/ config' = [mode |-> target.mode, baudr |-> target.baudr]
      BY <1>3 DEF S!Configure
    <2>2. QED
      BY <2>1 DEF Target, Divider
  <1>4. CASE S!Complete \/ S!TransferEnd
    <2>1. UNCHANGED target /\ spiAt \in {"done", "complete"} /\ spiAt' \in {"idle", "complete"}
      BY <1>4 DEF S!Complete, S!TransferEnd
    <2>2. QED
      BY <2>1 DEF Target, Divider
  <1>5. CASE \/ S!ChunkDisable \/ S!ChunkEnable \/ S!Push \/ S!PushEnd \/ S!Drain \/ S!DrainEnd
             \/ S!ChunkDone
             \/ S!TimedOut \/ S!HwShift \/ S!HwShifted \/ S!HwSettled
    <2>1. /\ UNCHANGED <<target, config>>
          /\ \/ /\ spiAt \in {"chunk", "enable", "push", "drain", "busy"}
                /\ spiAt' \in {"chunk", "enable", "push", "drain", "busy", "done"}
             \/ spiAt' = spiAt
      BY <1>5 DEF S!ChunkDisable, S!ChunkEnable, S!Push, S!PushEnd, S!Drain, S!DrainEnd, S!ChunkDone,
                  S!TimedOut, S!HwShift,
                  S!HwShifted, S!HwSettled, S!regs
    <2>2. QED
      BY <2>1 DEF Target, Divider
  <1>6. QED
    BY <1>1, <1>2, <1>3, <1>4, <1>5 DEF S!Next, S!Callbacks, S!Serve

\* The bytes to send are those of the request until it is complete.
LEMMA RequestKeeps ==
  ASSUME Asked, ByteInv, S!Next
  PROVE  Asked'
  <1>1. CASE \E d \in Descriptors : S!TargetConnect(d)
    BY <1>1 DEF S!TargetConnect, Asked, S!request
  <1>2. CASE \E r \in SpiRequests : S!Begin(r)
    <2>1. PICK r \in SpiRequests : S!Begin(r)
      BY <1>2
    <2>2. req' = r /\ tx' = S!TxOf(r) /\ (spiStatus' = "Success" => S!Acceptable(r))
      BY <2>1 DEF S!Begin
    <2>3. QED
      BY <2>2 DEF Asked
  <1>3. CASE S!Complete
    BY <1>3 DEF S!Complete, Asked
  <1>4. CASE S!TimedOut
    BY <1>4 DEF S!TimedOut, Asked
  <1>5. CASE \/ S!Configure \/ S!ChunkDisable \/ S!ChunkEnable \/ S!Push \/ S!PushEnd \/ S!Drain
             \/ S!DrainEnd
             \/ S!ChunkDone \/ S!TransferEnd \/ S!HwShift \/ S!HwShifted \/ S!HwSettled
    <2>1. UNCHANGED <<req, tx, spiStatus>> /\ (spiAt = "idle" => spiAt' = "idle")
      BY <1>5 DEF S!Configure, S!ChunkDisable, S!ChunkEnable, S!Push, S!PushEnd, S!Drain, S!DrainEnd,
                  S!ChunkDone,
                  S!TransferEnd, S!HwShift, S!HwShifted, S!HwSettled, S!request
    <2>2. QED
      BY <2>1 DEF Asked
  <1>6. QED
    BY <1>1, <1>2, <1>3, <1>4, <1>5 DEF S!Next, S!Callbacks, S!Serve

-----------------------------------------------------------------------------
(* Where the bytes of a request are.                                       *)

Segments == Seq([write : BOOLEAN, len : Nat])

\* T[i] is the length of the first i segments.
Sums(T, segs) ==
  T \in [0 .. Len(segs) -> Nat] /\ T[0] = 0 /\ \A i \in 1 .. Len(segs) : T[i] = T[i - 1] + segs[i].len

\* What a segment contributes to tx has its length.
LEMMA SegmentTypes ==
  ASSUME NEW segs \in Segments
  PROVE  Len(segs) \in Nat /\ \A i \in 1 .. Len(segs) : segs[i].len \in Nat /\ segs[i].write \in BOOLEAN
  <1> DEFINE R == [write : BOOLEAN, len : Nat]
  <1>1. \A s \in R : s.len \in Nat /\ s.write \in BOOLEAN
    OBVIOUS
  <1>2. segs \in Seq(R)
    BY DEF Segments
  <1> HIDE DEF R
  <1>3. Len(segs) \in Nat /\ \A i \in 1 .. Len(segs) : segs[i] \in R
    BY <1>2
  <1>4. QED
    BY <1>1, <1>3

\* Total, unfolded one segment at a time.
LEMMA TotalStepwise ==
  ASSUME NEW segs \in Segments
  PROVE  \E T : Sums(T, segs) /\ S!Total(segs) = T[Len(segs)]
  <1> DEFINE n == Len(segs)
             g == [i \in 1 .. n |-> [t \in Nat |-> t + segs[i].len]]
             Body(h) == [i \in 0 .. n |-> IF i = 0 THEN 0 ELSE h[i - 1] + segs[i].len]
             total == CHOOSE h : h = Body(h)
  <1>1. n \in Nat /\ \A i \in 1 .. n : segs[i].len \in Nat
    BY SegmentTypes
  <1>2. \A i \in 1 .. n : \A t \in Nat : g[i][t] = t + segs[i].len /\ g[i][t] \in Nat
    BY <1>1
  <1>3. PICK f \in [0 .. n -> Nat] : f[0] = 0 /\ \A i \in 1 .. n : f[i] = g[i][f[i - 1]]
    <2>1. n \in Nat /\ 0 \in Nat /\ StaysIn(Nat, n, g)
      BY <1>1, <1>2 DEF StaysIn
    <2> HIDE DEF g, n
    <2>2. Recursive(Nat, n, 0, g)
      BY <2>1, Recursion
    <2>3. QED
      BY <2>2 DEF Recursive
  <1>4. \A i \in 1 .. n : f[i] = f[i - 1] + segs[i].len
    <2> TAKE i \in 1 .. n
    <2>1. i - 1 \in 0 .. n /\ i \in 0 .. n
      BY <1>1
    <2> HIDE DEF g, n
    <2>2. QED
      BY <1>2, <1>3, <2>1
  <1>5. total = Body(total)
    <2>1. \A i \in 0 .. n : f[i] = (IF i = 0 THEN 0 ELSE f[i - 1] + segs[i].len)
      BY <1>1, <1>3, <1>4
    <2>2. f = Body(f)
      BY <1>3, <2>1
    <2> HIDE DEF Body
    <2>3. QED
      BY <2>2
  <1>6. \A i \in 0 .. n : total[i] = (IF i = 0 THEN 0 ELSE total[i - 1] + segs[i].len)
    <2>1. \A i \in 0 .. n : total[i] = Body(total)[i]
      <3> HIDE DEF total, Body
      <3> QED BY <1>5
    <2> HIDE DEF total
    <2>2. QED
      BY <2>1
  <1>7. total = f
    <2>1. f[0] = total[0] /\ \A i \in 1 .. n : total[i] = total[i - 1] + segs[i].len
      <3> HIDE DEF total
      <3> QED BY <1>1, <1>3, <1>6
    <2>2. \A i \in 0 .. n : f[i] = total[i]
      <3> DEFINE Shown == {m \in Nat : m <= n => f[m] = total[m]}
      <3> HIDE DEF total
      <3>1. 0 \in Shown
        BY <2>1
      <3>2. ASSUME NEW m \in Nat, m \in Shown PROVE m + 1 \in Shown
        <4> SUFFICES ASSUME m + 1 <= n PROVE f[m + 1] = total[m + 1]
          OBVIOUS
        <4> DEFINE k == m + 1
        <4>1. f[m] = total[m] /\ k \in 1 .. n /\ k - 1 = m
          BY <1>1, <3>2
        <4> HIDE DEF k
        <4>2. f[k] = total[k]
          BY <1>4, <2>1, <4>1
        <4>3. QED
          BY <4>2 DEF k
      <3>3. \A m \in Nat : m \in Shown
        <4> HIDE DEF Shown
        <4> QED BY <3>1, <3>2, UpFromZero
      <3>4. QED
        BY <1>1, <3>3
    <2>3. total = [i \in 0 .. n |-> total[i]]
      <3>1. total = Body(total)
        BY <1>5
      <3> HIDE DEF total
      <3>2. QED
        BY <3>1
    <2> HIDE DEF total
    <2>4. QED
      BY <1>3, <2>2, <2>3
  <1>8. S!Total(segs) = total[n]
    BY Zenon DEF S!Total
  <1>9. Sums(f, segs)
    BY <1>3, <1>4 DEF Sums
  <1>10. QED
    <2> HIDE DEF total
    <2> QED BY <1>7, <1>8, <1>9

\* So the first k segments have the length T[k].
LEMMA TotalOfFirst ==
  ASSUME NEW segs \in Segments, NEW T, Sums(T, segs), NEW k \in 0 .. Len(segs)
  PROVE  S!Total(SubSeq(segs, 1, k)) = T[k]
  <1> DEFINE ss == SubSeq(segs, 1, k)
             R == [write : BOOLEAN, len : Nat]
  <1>1. ss \in Segments /\ Len(ss) = k /\ k \in Nat /\ \A i \in 1 .. k : ss[i] = segs[i]
    <2>1. segs \in Seq(R) /\ 1 \in 1 .. Len(segs) + 1 /\ k \in 0 .. Len(segs) /\ Len(segs) \in Nat
      BY DEF Segments
    <2> HIDE DEF R
    <2>2. ss \in Seq(R) /\ Len(ss) = k /\ \A i \in 1 .. k : ss[i] = segs[i]
      BY <2>1
    <2>3. QED
      BY <2>2 DEF Segments, R
  <1> HIDE DEF ss
  <1>2. PICK U : Sums(U, ss) /\ S!Total(ss) = U[k]
    BY <1>1, TotalStepwise
  <1>3. \A i \in 0 .. k : U[i] = T[i]
    <2> DEFINE g == [i \in 1 .. k |-> [t \in Nat |-> t + segs[i].len]]
    <2>1. U[0] = T[0]
      BY <1>2 DEF Sums
    <2>2. \A i \in 1 .. k : U[i] = g[i][U[i - 1]] /\ T[i] = g[i][T[i - 1]]
      <3> TAKE i \in 1 .. k
      <3>1. U[i] = U[i - 1] + segs[i].len /\ U[i - 1] \in Nat
        BY <1>1, <1>2 DEF Sums
      <3>2. T[i] = T[i - 1] + segs[i].len /\ T[i - 1] \in Nat
        <4>1. i \in 1 .. Len(segs) /\ i - 1 \in 0 .. Len(segs)
          BY SegmentTypes
        <4>2. QED
          BY <4>1 DEF Sums
      <3>3. QED
        BY <3>1, <3>2
    <2> HIDE DEF g
    <2>3. Follows(k, U, g) /\ Follows(k, T, g)
      BY <2>2 DEF Follows
    <2>4. QED
      BY <1>1, <2>1, <2>3, RecursionOnce
  <1>4. QED
    BY <1>1, <1>2, <1>3 DEF ss

\* The bytes of a segment of a sequence, and how far the segment reaches.
Segment(r, i) == IF r.segs[i].write THEN S!Data(r, i) ELSE S!Zeros(r.segs[i].len)

InPlace(r, T, F, m) ==
  /\ Len(F[m]) = T[m]
  /\ \A k \in 1 .. m : T[k] <= T[m]
  /\ \A k \in 1 .. m : r.segs[k].write => \A j \in 1 .. r.segs[k].len : F[m][T[k - 1] + j] = <<k, j>>

\* The bytes a segment contributes.
LEMMA SegmentBytes ==
  ASSUME NEW r, r.segs \in Segments, NEW i \in 1 .. Len(r.segs)
  PROVE  /\ Segment(r, i) \in Seq(Bytes) /\ Len(Segment(r, i)) = r.segs[i].len
         /\ r.segs[i].write => \A j \in 1 .. r.segs[i].len : Segment(r, i)[j] = <<i, j>>
  <1>1. r.segs[i].len \in Nat /\ r.segs[i].write \in BOOLEAN /\ i \in Nat
    BY SegmentTypes
  <1>2. CASE r.segs[i].write
    BY <1>1, <1>2 DEF Segment, S!Data, Bytes
  <1>3. CASE ~r.segs[i].write
    <2>1. S!Zero \in Bytes
      BY DEF S!Zero, Bytes
    <2>2. Segment(r, i) = [j \in 1 .. r.segs[i].len |-> S!Zero]
      BY <1>3 DEF Segment, S!Zeros
    <2>3. QED
      BY <1>1, <1>3, <2>1, <2>2
  <1>4. QED
    BY <1>1, <1>2, <1>3

\* Gather puts byte j of segment k at Total of the segments before k plus j: by induction
\* over the segments.
LEMMA GatherInPlace ==
  ASSUME NEW r, r.segs \in Segments, NEW T, Sums(T, r.segs)
  PROVE  /\ S!Gather(r) \in Seq(Bytes)
         /\ \E F : F[Len(r.segs)] = S!Gather(r) /\ InPlace(r, T, F, Len(r.segs))
  <1> DEFINE n == Len(r.segs)
             ss == [i \in 1 .. n |-> Segment(r, i)]
  <1>1. n \in Nat /\ \A i \in 1 .. n : r.segs[i].len \in Nat
    BY SegmentTypes
  <1>2. ss \in Seq(Seq(Bytes)) /\ Len(ss) = n
    <2>1. \A i \in 1 .. n : Segment(r, i) \in Seq(Bytes)
      BY SegmentBytes
    <2> HIDE DEF n
    <2>2. QED
      BY <1>1, <2>1
  <1>3. S!Gather(r) = FlattenSeq(ss)
    BY DEF S!Gather, S!FlattenSeq, FlattenSeq, Segment
  <1> HIDE DEF ss
  <1>10. PICK F : Flattens(Bytes, ss, F)
    BY <1>2, FlattenStepwise
  <1>4. /\ F \in [0 .. n -> Seq(Bytes)]
        /\ F[0] = <<>> /\ \A i \in 1 .. n : F[i] = F[i - 1] \o ss[i]
        /\ FlattenSeq(ss) = F[n]
    BY <1>2, <1>10 DEF Flattens
  <1> DEFINE Shown == {m \in Nat : m <= n => InPlace(r, T, F, m)}
  <1>5. 0 \in Shown
    <2>1. Len(F[0]) = 0 /\ T[0] = 0
      BY <1>4, EmptyOnce DEF Sums
    <2>2. QED
      BY <2>1 DEF InPlace
  <1>6. ASSUME NEW m \in Nat, m \in Shown PROVE m + 1 \in Shown
    <2> SUFFICES ASSUME m + 1 <= n PROVE InPlace(r, T, F, m + 1)
      OBVIOUS
    <2> DEFINE k == m + 1
    <2>1. k \in 1 .. n /\ k - 1 = m /\ m \in 0 .. n /\ InPlace(r, T, F, m) /\ m \in Nat
      BY <1>1, <1>6
    <2> HIDE DEF k
    <2>2. F[k] = F[m] \o ss[k] /\ T[k] = T[m] + r.segs[k].len /\ F[m] \in Seq(Bytes) /\ T[m] \in Nat
      BY <1>4, <2>1 DEF Sums
    <2>3. /\ ss[k] \in Seq(Bytes) /\ Len(ss[k]) = r.segs[k].len /\ r.segs[k].len \in Nat
          /\ r.segs[k].write => \A j \in 1 .. r.segs[k].len : ss[k][j] = <<k, j>>
      BY <1>1, <2>1, SegmentBytes DEF ss
    <2>4. Len(F[m]) = T[m]
      BY <2>1 DEF InPlace
    <2>5. /\ Len(F[k]) = T[k]
          /\ \A x \in 1 .. T[m] + r.segs[k].len : F[k][x] = IF x <= T[m] THEN F[m][x] ELSE ss[k][x - T[m]]
      <3>1. /\ Len(F[m] \o ss[k]) = Len(F[m]) + Len(ss[k])
            /\ \A x \in 1 .. Len(F[m]) + Len(ss[k]) :
                 (F[m] \o ss[k])[x] = IF x <= Len(F[m]) THEN F[m][x] ELSE ss[k][x - Len(F[m])]
        <4> DEFINE a == F[m]
                   c == ss[k]
        <4>1. a \in Seq(Bytes) /\ c \in Seq(Bytes)
          BY <2>2, <2>3
        <4> HIDE DEF a, c
        <4>2. /\ Len(a \o c) = Len(a) + Len(c)
              /\ \A x \in 1 .. Len(a) + Len(c) :
                   (a \o c)[x] = IF x <= Len(a) THEN a[x] ELSE c[x - Len(a)]
          BY <4>1, ConcatProperties
        <4>3. QED
          BY <4>2 DEF a, c
      <3>2. QED
        BY <2>2, <2>3, <2>4, <3>1, Zenon
    <2>6. \A q \in 1 .. k : q \in 1 .. m \/ q = k
      BY <2>1
    <2>7. ASSUME NEW q \in 1 .. k PROVE T[q] <= T[k]
      <3>1. CASE q \in 1 .. m
        <4>1. T[q] <= T[m] /\ T[q] \in Nat
          <5>1. q \in 0 .. n
            BY <3>1, <2>1
          <5>2. QED
            BY <3>1, <2>1, <5>1 DEF InPlace, Sums
        <4>2. QED
          BY <4>1, <2>2, <2>3
      <3>2. QED
        BY <2>6, <2>2, <2>3, <3>1
    <2>8. ASSUME NEW q \in 1 .. k, r.segs[q].write, NEW j \in 1 .. r.segs[q].len
          PROVE  F[k][T[q - 1] + j] = <<q, j>>
      <3>1. CASE q \in 1 .. m
        <4>1. F[m][T[q - 1] + j] = <<q, j>> /\ T[q] <= T[m]
          BY <2>1, <2>8, <3>1 DEF InPlace
        <4>2. T[q] = T[q - 1] + r.segs[q].len /\ T[q - 1] \in Nat /\ T[q] \in Nat /\ r.segs[q].len \in Nat
          <5>1. q \in 1 .. n /\ q - 1 \in 0 .. n /\ q \in 0 .. n
            BY <3>1, <2>1
          <5>2. QED
            BY <5>1, <1>1 DEF Sums
        <4>3. T[q - 1] + j \in 1 .. T[m] + r.segs[k].len /\ T[q - 1] + j <= T[m]
          <5>1. j \in 1 .. r.segs[q].len
            BY <2>8
          <5>2. T[q - 1] + j <= T[q] /\ T[q - 1] + j >= 1 /\ T[q - 1] + j \in Nat
            BY <4>2, <5>1
          <5> DEFINE x == T[q - 1] + j
                     top == T[q]
                     all == T[m]
                     more == r.segs[k].len
          <5>3. x \in Nat /\ x >= 1 /\ x <= top /\ top <= all /\ top \in Nat /\ all \in Nat /\ more \in Nat
            BY <4>1, <4>2, <5>2, <2>2, <2>3
          <5> HIDE DEF x, top, all, more
          <5>4. x \in 1 .. all + more /\ x <= all
            BY <5>3
          <5>5. QED
            BY <5>4 DEF x, all, more
        <4>4. F[k][T[q - 1] + j] = F[m][T[q - 1] + j]
          BY <4>3, <2>5
        <4>5. QED
          BY <4>1, <4>4
      <3>2. CASE q = k
        <4>1. j \in 1 .. r.segs[k].len /\ T[m] \in Nat /\ r.segs[k].len \in Nat
          BY <3>2, <2>2, <2>3
        <4>2. F[k][T[m] + j] = ss[k][j]
          <5> DEFINE top == T[m]
                     more == r.segs[k].len
                     x == top + j
          <5>1. j \in 1 .. more /\ top \in Nat /\ more \in Nat
            BY <4>1
          <5> HIDE DEF top, more
          <5>2. x \in 1 .. top + more /\ ~(x <= top) /\ x - top = j
            BY <5>1
          <5> HIDE DEF x
          <5>3. F[k][x] = ss[k][j]
            BY <5>2, <2>5 DEF top, more
          <5>4. QED
            BY <5>3 DEF x, top
        <4>3. QED
          BY <4>2, <2>1, <2>3, <2>8, <3>2
      <3>3. QED
        BY <2>6, <3>1, <3>2
    <2>9. InPlace(r, T, F, k)
      BY <2>5, <2>7, <2>8 DEF InPlace
    <2>10. QED
      BY <2>9 DEF k
  <1>7. n \in Shown
    <2> HIDE DEF Shown
    <2> QED BY <1>1, <1>5, <1>6, UpFromZero
  <1>8. F[n] \in Seq(Bytes)
    BY <1>1, <1>4
  <1>9. QED
    BY <1>1, <1>3, <1>4, <1>7, <1>8

\* What InstanceAssumption says of one request.
LEMMA RequestWellFormed ==
  ASSUME NEW r \in SpiRequests
  PROVE  /\ r.segs \in Segments
         /\ \/ r.kind = "Read" /\ Len(r.segs) = 1 /\ ~r.segs[1].write
            \/ r.kind = "Write" /\ Len(r.segs) = 1 /\ r.segs[1].write
            \/ r.kind = "Sequence"
            \/ r.kind = "FullDuplex" /\ Len(r.segs) = 2 /\ r.segs[1].write /\ ~r.segs[2].write
  BY InstanceAssumption DEF S!SpiAssumption, Segments

\* What a request sends is a sequence of bytes.
LEMMA TxOfBytes ==
  ASSUME NEW r \in SpiRequests
  PROVE  /\ S!TxOf(r) \in Seq(Bytes)
         /\ r.kind # "Sequence" => Len(S!TxOf(r)) = r.segs[1].len /\ r.segs[1].len \in Nat
         /\ r.kind \in {"Write", "FullDuplex"} => \A j \in 1 .. r.segs[1].len : S!TxOf(r)[j] = <<1, j>>
  <1>1. r.segs \in Segments
    BY RequestWellFormed
  <1>2. CASE r.kind = "Sequence"
    <2>1. PICK T : Sums(T, r.segs)
      BY <1>1, TotalStepwise
    <2>2. S!Gather(r) \in Seq(Bytes)
      BY <1>1, <2>1, GatherInPlace
    <2>3. QED
      BY <1>2, <2>2 DEF S!TxOf
  <1>3. CASE r.kind # "Sequence"
    <2>1. 1 \in 1 .. Len(r.segs) /\ (r.kind = "Read" <=> ~r.segs[1].write)
      BY <1>3, RequestWellFormed
    <2>2. S!TxOf(r) = Segment(r, 1)
      BY <1>3, <2>1 DEF S!TxOf, Segment
    <2>3. r.segs[1].len \in Nat
      BY <1>1, <2>1, SegmentTypes
    <2>4. r.kind \in {"Write", "FullDuplex"} => r.segs[1].write
      BY <2>1
    <2>5. QED
      BY <1>1, <1>3, <2>1, <2>2, <2>3, <2>4, SegmentBytes
  <1>4. QED
    BY <1>2, <1>3

\* What a request reports that has sent and received everything.
Delivered(r, bytes, sent) ==
  \A s \in 1 .. Len(r.segs) :
    /\ r.segs[s].write => \A j \in 1 .. r.segs[s].len : sent[S!ClockedAt(r, s, j)] = <<s, j>>
    /\ ~r.segs[s].write => S!Received(r, bytes)[s] = [j \in 1 .. r.segs[s].len |-> S!ClockedAt(r, s, j)]

\* The first segment begins at the first byte.
LEMMA FirstSegmentFirst ==
  ASSUME NEW r, r.segs \in Segments, NEW j \in Nat
  PROVE  S!Offset(r, 1) + j = j
  <1>1. PICK T : Sums(T, r.segs)
    BY TotalStepwise
  <1>2. 0 \in 0 .. Len(r.segs)
    BY SegmentTypes
  <1>3. S!Total(SubSeq(r.segs, 1, 0)) = T[0] /\ T[0] = 0
    BY <1>1, <1>2, TotalOfFirst DEF Sums
  <1>4. S!Offset(r, 1) = 0
    BY <1>3 DEF S!Offset
  <1>5. QED
    BY <1>4

\* When every byte of tx is on the wire and every answer in rx, the request has been served
\* as asked.
LEMMA EverythingDelivered ==
  ASSUME NEW r \in SpiRequests, S!Acceptable(r),
         NEW bytes \in Seq(Nat), Len(bytes) = Len(S!TxOf(r)), \A i \in 1 .. Len(bytes) : bytes[i] = i
  PROVE  Delivered(r, bytes, S!TxOf(r))
  <1>1. r.segs \in Segments /\ Len(r.segs) \in Nat /\ \A i \in 1 .. Len(r.segs) : r.segs[i].len \in Nat
    BY RequestWellFormed, SegmentTypes
  <1>2. CASE r.kind \in {"Read", "Write"}
    <2>1. Len(r.segs) = 1 /\ (r.kind = "Read" <=> ~r.segs[1].write) /\ r.kind # "Sequence"
      BY <1>2, RequestWellFormed
    <2>2. \A s \in 1 .. Len(r.segs) : s = 1
      BY <2>1
    <2>3. \A j \in Nat : S!ClockedAt(r, 1, j) = j
      BY <1>1, <1>2, FirstSegmentFirst DEF S!ClockedAt
    <2>4. r.segs[1].len \in Nat
      BY <1>1, <2>1
    <2>5. r.segs[1].write => \A j \in 1 .. r.segs[1].len : S!TxOf(r)[S!ClockedAt(r, 1, j)] = <<1, j>>
      BY <1>2, <2>1, <2>3, <2>4, TxOfBytes
    <2>6. ~r.segs[1].write =>
            S!Received(r, bytes)[1] = [j \in 1 .. r.segs[1].len |-> S!ClockedAt(r, 1, j)]
      <3> SUFFICES ASSUME ~r.segs[1].write
                   PROVE  S!Received(r, bytes)[1] = [j \in 1 .. r.segs[1].len |-> S!ClockedAt(r, 1, j)]
        OBVIOUS
      <3>1. S!Received(r, bytes)[1] = bytes
        BY <2>1 DEF S!Received
      <3>2. Len(bytes) = r.segs[1].len
        BY <2>1, TxOfBytes
      <3>3. bytes = [j \in 1 .. r.segs[1].len |-> bytes[j]]
        BY <3>2
      <3>4. \A j \in 1 .. r.segs[1].len : bytes[j] = S!ClockedAt(r, 1, j)
        BY <2>3, <2>4, <3>2
      <3>5. QED
        BY <3>1, <3>3, <3>4
    <2>7. QED
      BY <2>2, <2>5, <2>6 DEF Delivered
  <1>3. CASE r.kind = "FullDuplex"
    <2>1. /\ Len(r.segs) = 2 /\ r.segs[1].write /\ ~r.segs[2].write /\ r.segs[1].len = r.segs[2].len
          /\ r.segs[1].len \in Nat
      BY <1>1, <1>3, RequestWellFormed DEF S!Acceptable
    <2>2. \A s \in 1 .. Len(r.segs) : s = 1 \/ s = 2
      BY <2>1
    <2>3. \A s, j : S!ClockedAt(r, s, j) = j
      BY <1>3 DEF S!ClockedAt
    <2>4. \A j \in 1 .. r.segs[1].len : S!TxOf(r)[S!ClockedAt(r, 1, j)] = <<1, j>>
      BY <1>3, <2>3, TxOfBytes
    <2>5. S!Received(r, bytes)[2] = [j \in 1 .. r.segs[2].len |-> S!ClockedAt(r, 2, j)]
      <3>1. S!Received(r, bytes)[2] = bytes
        BY <1>3 DEF S!Received
      <3>2. Len(bytes) = r.segs[2].len
        BY <1>3, <2>1, TxOfBytes
      <3>3. bytes = [j \in 1 .. r.segs[2].len |-> bytes[j]]
        BY <3>2
      <3>4. \A j \in 1 .. r.segs[2].len : bytes[j] = S!ClockedAt(r, 2, j)
        BY <2>3, <3>2
      <3>5. QED
        BY <3>1, <3>3, <3>4
    <2>6. QED
      BY <2>1, <2>2, <2>4, <2>5 DEF Delivered
  <1>4. CASE r.kind = "Sequence"
    <2> DEFINE n == Len(r.segs)
    <2>1. PICK T : Sums(T, r.segs)
      BY <1>1, TotalStepwise
    <2>2. PICK F : F[n] = S!Gather(r) /\ InPlace(r, T, F, n)
      BY <1>1, <2>1, GatherInPlace
    <2>3. S!TxOf(r) = F[n] /\ Len(bytes) = T[n]
      BY <1>4, <2>2 DEF S!TxOf, InPlace
    <2>4. ASSUME NEW s \in 1 .. n
          PROVE  /\ S!Offset(r, s) = T[s - 1] /\ T[s - 1] \in Nat /\ T[s - 1] + r.segs[s].len <= T[n]
                 /\ T[n] \in Nat
      <3>1. s - 1 \in 0 .. n /\ s \in 0 .. n /\ n \in 0 .. n
        BY <1>1
      <3>2. S!Offset(r, s) = T[s - 1]
        BY <1>1, <2>1, <3>1, TotalOfFirst DEF S!Offset
      <3>3. T[s] = T[s - 1] + r.segs[s].len /\ T[s - 1] \in Nat /\ T[n] \in Nat /\ T[s] <= T[n]
        BY <2>1, <2>2, <3>1 DEF Sums, InPlace
      <3>4. QED
        BY <3>2, <3>3
    <2>5. ASSUME NEW s \in 1 .. n, r.segs[s].write, NEW j \in 1 .. r.segs[s].len
          PROVE  S!TxOf(r)[S!ClockedAt(r, s, j)] = <<s, j>>
      BY <1>4, <2>2, <2>3, <2>4, <2>5 DEF S!ClockedAt, InPlace
    <2>6. ASSUME NEW s \in 1 .. n, ~r.segs[s].write
          PROVE  S!Received(r, bytes)[s] = [j \in 1 .. r.segs[s].len |-> S!ClockedAt(r, s, j)]
      <3> DEFINE o == S!Offset(r, s)
                 len == r.segs[s].len
      <3>1. o \in Nat /\ len \in Nat /\ o + len <= Len(bytes)
        BY <1>1, <2>3, <2>4
      <3>2. S!Received(r, bytes)[s] = SubSeq(bytes, o + 1, o + len)
        BY <1>4, <2>6 DEF S!Received, S!Scatter
      <3>3. \A j \in 1 .. len : S!ClockedAt(r, s, j) = o + j
        BY <1>4 DEF S!ClockedAt
      <3> HIDE DEF o, len
      <3>4. SubSeq(bytes, o + 1, o + len) = [j \in 1 .. len |-> o + j]
        <4>1. SubSeq(bytes, o + 1, o + len) = [j \in 1 .. len |-> bytes[o + j]]
          BY <3>1
        <4>2. \A j \in 1 .. len : o + j \in 1 .. Len(bytes)
          BY <3>1
        <4>3. QED
          BY <4>1, <4>2
      <3>5. S!Received(r, bytes)[s] = [j \in 1 .. len |-> S!ClockedAt(r, s, j)]
        BY <3>2, <3>3, <3>4
      <3>6. QED
        BY <3>5 DEF len
    <2>7. QED
      BY <2>5, <2>6 DEF Delivered
  <1>5. QED
    BY <1>2, <1>3, <1>4, RequestWellFormed

-----------------------------------------------------------------------------
(* The theorems.                                                           *)

SpiLoop == SpiTypes /\ Stages /\ Asked /\ Target /\ S!TransfersAsAsked

\* The invariant holds before the first request.
LEMMA SpiStarts == S!Init => SpiLoop
  <1> SUFFICES ASSUME S!Init PROVE SpiLoop
    OBVIOUS
  <1>1. SpiTypes
    BY EmptyOnce DEF S!Init, SpiTypes, Pcs
  <1>2. Stages
    BY DEF S!Init, Stages, Empty
  <1>3. Asked /\ Target
    BY DEF S!Init, Asked, Target
  <1>4. S!TransfersAsAsked
    BY DEF S!Init, S!TransfersAsAsked, S!NoResult, S!None
  <1>5. QED
    BY <1>1, <1>2, <1>3, <1>4 DEF SpiLoop

\* A successful completion delivers what was asked.
LEMMA CompleteDelivers ==
  ASSUME ByteInv, Asked, S!Complete
  PROVE  S!TransfersAsAsked'
  <1>1. /\ spiAt = "complete"
        /\ result' = [req |-> req, status |-> spiStatus,
                      information |-> IF spiStatus = "Success" THEN Len(tx) ELSE 0,
                      segs |-> IF spiStatus = "Success" THEN S!Received(req, rx) ELSE <<>>,
                      wire |-> wire]
    BY DEF S!Complete
  <1>2. CASE spiStatus = "Success"
    <2>1. /\ Len(wire) = Len(tx) /\ Len(rx) = Len(tx) /\ Sent /\ SpiTypes
          /\ req \in SpiRequests /\ tx = S!TxOf(req) /\ S!Acceptable(req)
      BY <1>1, <1>2 DEF ByteInv, Stages, Asked
    <2>2. wire = tx
      <3>1. wire \in Seq(Bytes) /\ tx \in Seq(Bytes) /\ \A i \in 1 .. Len(wire) : wire[i] = tx[i]
        BY <2>1 DEF Sent, SpiTypes
      <3>2. QED
        BY <2>1, <3>1, SeqEqual
    <2>3. Delivered(req, rx, tx)
      BY <2>1, EverythingDelivered DEF Sent, SpiTypes
    <2>4. /\ result'.req = req /\ result'.status = "Success" /\ result'.information = Len(wire)
          /\ result'.segs = S!Received(req, rx) /\ result'.wire = tx
      BY <1>1, <1>2, <2>1, <2>2
    <2>5. QED
      BY <2>2, <2>3, <2>4 DEF S!TransfersAsAsked, Delivered
  <1>3. CASE spiStatus # "Success"
    BY <1>1, <1>3 DEF S!TransfersAsAsked
  <1>4. QED
    BY <1>2, <1>3

\* No other step touches the result of a request.
LEMMA ResultKeeps ==
  ASSUME SpiLoop, S!Next
  PROVE  S!TransfersAsAsked'
  <1>0. ByteInv /\ Asked
    BY DEF ByteInv, SpiLoop
  <1>1. CASE S!Complete
    BY <1>0, <1>1, CompleteDelivers
  <1>2. CASE \E r \in SpiRequests : S!Begin(r)
    <2>1. result' = S!NoResult
      BY <1>2 DEF S!Begin
    <2>2. QED
      BY <2>1 DEF S!TransfersAsAsked, S!NoResult, S!None
  <1>3. CASE result' = result
    BY <1>3 DEF SpiLoop, S!TransfersAsAsked
  <1>4. ASSUME ~S!Complete, ~ \E r \in SpiRequests : S!Begin(r)
        PROVE  result' = result
    BY <1>4 DEF S!Next, S!Callbacks, S!Serve, S!TargetConnect, S!Configure, S!ChunkDisable,
                S!ChunkEnable, S!Push, S!PushEnd,
                S!Drain, S!DrainEnd, S!ChunkDone, S!TimedOut, S!TransferEnd, S!HwShift, S!HwShifted,
                S!HwSettled
  <1>5. QED
    BY <1>1, <1>2, <1>3, <1>4

\* The invariant is inductive.
LEMMA SpiStep ==
  ASSUME SpiLoop, S!Next
  PROVE  SpiLoop'
  <1>1. ByteInv /\ Target /\ Asked
    BY DEF SpiLoop, ByteInv
  <1>2. ByteInv'
    <2>1. CASE \E d \in Descriptors : S!TargetConnect(d)
      BY <1>1, <2>1, TargetConnectKeeps
    <2>2. CASE \E r \in SpiRequests : S!Begin(r)
      BY <1>1, <2>2, BeginKeeps, TxOfBytes
    <2>3. CASE S!PushEnd \/ S!DrainEnd \/ S!TimedOut
      BY <1>1, <2>3, PollingKeeps
    <2>4. CASE S!Configure
      BY <1>1, <2>4, ConfigureKeeps
    <2>5. CASE S!ChunkDisable
      BY <1>1, <2>5, ChunkDisableKeeps
    <2>6. CASE S!ChunkEnable
      BY <1>1, <2>6, ChunkEnableKeeps
    <2>7. CASE S!Push
      BY <1>1, <2>7, PushKeeps
    <2>8. CASE S!Drain
      BY <1>1, <2>8, DrainKeeps
    <2>9. CASE S!ChunkDone
      BY <1>1, <2>9, ChunkDoneKeeps
    <2>10. CASE S!TransferEnd
      BY <1>1, <2>10, TransferEndKeeps
    <2>11. CASE S!Complete
      BY <1>1, <2>11, CompleteKeeps
    <2>12. CASE S!HwShift
      BY <1>1, <2>12, HwShiftKeeps
    <2>13. CASE S!HwShifted
      BY <1>1, <2>13, HwShiftedKeeps
    <2>14. CASE S!HwSettled
      BY <1>1, <2>14, ControllerAside
    <2>15. QED
      BY <2>1, <2>2, <2>3, <2>4, <2>5, <2>6, <2>7, <2>8, <2>9, <2>10, <2>11, <2>12, <2>13, <2>14
         DEF S!Next, S!Callbacks, S!Serve
  <1>3. Target'
    BY <1>1, TargetKeeps
  <1>4. Asked'
    BY <1>1, RequestKeeps
  <1>5. S!TransfersAsAsked'
    BY ResultKeeps
  <1>6. QED
    BY <1>2, <1>3, <1>4, <1>5 DEF SpiLoop, ByteInv

\* Steps of the DMA controller do not touch the SPI controller.
LEMMA SpiStutter ==
  ASSUME SpiLoop, UNCHANGED S!vars
  PROVE  SpiLoop'
  <1>1. UNCHANGED <<target, req, spiStatus, pool, tx, rx, done, chunk, txi, rxi, spiAt, spiEnabled, ser,
                    config, txFifo,
                    shift, rxFifo, settling, wire, result>>
    BY DEF S!vars, S!request, S!loop, S!regs, S!fifos, S!hw
  <1>2. SpiTypes'
    BY <1>1 DEF SpiLoop, SpiTypes
  <1>5. Asked' /\ Target'
    BY <1>1 DEF SpiLoop, Asked, Target, Divider
  <1>6. S!TransfersAsAsked'
    BY <1>1 DEF SpiLoop, S!TransfersAsAsked
  <1>3. Stages'
    BY <1>1 DEF SpiLoop, Stages, Flow, Counts, Sent, Empty
  <1>4. QED
    BY <1>2, <1>3, <1>5, <1>6 DEF SpiLoop

\* It implies the property.
LEMMA SpiSafe ==
  ASSUME SpiLoop
  PROVE  S!NoOverflow /\ S!FifoIsOurs /\ S!SetUpForTarget /\ S!IdleBetweenRequests /\ S!TransfersAsAsked
  <1>0. SpiTypes /\ Stages /\ Target /\ S!TransfersAsAsked /\ Sized
    BY Sizes DEF SpiLoop
  <1>1. Flow \/ rxFifo = <<>>
    BY <1>0 DEF Stages, Empty, SpiTypes, Pcs
  <1>2. S!NoOverflow
    <2>1. CASE Flow
      <3>1. Counts
        BY <2>1 DEF Flow
      <3>2. Len(rxFifo) <= txi - rxi
        BY <3>1, <1>0 DEF Counts, Sized
      <3>3. QED
        BY <3>1, <3>2, <1>0, InstanceAssumption DEF Counts, Sized, S!SpiAssumption, S!NoOverflow
    <2>2. CASE rxFifo = <<>>
      BY <2>2, EmptyOnce, InstanceAssumption DEF S!NoOverflow, S!SpiAssumption
    <2>3. QED
      BY <1>1, <2>1, <2>2
  <1>3. S!FifoIsOurs
    <2>1. spiAt \in {"push", "drain"} => Counts
      BY <1>0 DEF Stages, Flow
    <2>2. QED
      BY <2>1, <1>0 DEF S!FifoIsOurs, Counts, Sized
  <1>4. S!SetUpForTarget
    <2>1. shift # <<>> => spiAt \in {"push", "drain", "busy", "done"}
      BY <1>0 DEF Stages, Empty, SpiTypes, Pcs
    <2>2. QED
      BY <2>1, <1>0 DEF S!SetUpForTarget, Target, Divider
  <1>5. S!IdleBetweenRequests
    BY <1>0 DEF S!IdleBetweenRequests, Stages
  <1>6. QED
    BY <1>0, <1>2, <1>3, <1>4, <1>5

\* A request that the SPI controller completes with success has put every byte of its write
\* segments on the wire at its place and has in its read segments the answers to their
\* frames (Rk3xSpiTransfer, the gathering and scattering of Rk3xSpiEvtIoSequence); no FIFO
\* overflows, nothing of a transfer that has timed out is taken for an answer, the
\* controller shifts with the settings of the target, and nothing stays behind: for every
\* set of requests and targets and every depth of the FIFOs.
THEOREM SpiServesAsAsked == MCSpec => []SpiTransfersAsAsked
  <1> DEFINE Inv == part = "spi" => SpiLoop
             allVars == <<part, vars, req, programOnly, spiOnly>>
  <1>1. MCInit => Inv
    BY SpiStarts DEF MCInit
  <1>2. Inv /\ [MCNext]_allVars => Inv'
    <2> SUFFICES ASSUME Inv, [MCNext]_allVars, part' = "spi" PROVE SpiLoop'
      OBVIOUS
    <2>1. part = "spi" /\ SpiLoop
      BY DEF MCNext
    <2>2. CASE S!Next
      BY <2>1, <2>2, SpiStep
    <2>3. CASE UNCHANGED allVars
      <3>1. UNCHANGED S!vars
        BY <2>3 DEF S!vars, S!request, S!loop, S!regs, S!fifos, S!hw, spiOnly
      <3>2. QED
        BY <2>1, <3>1, SpiStutter
    <2>4. QED
      BY <2>1, <2>2, <2>3 DEF MCNext
  <1>3. Inv => SpiTransfersAsAsked
    BY SpiSafe DEF SpiTransfersAsAsked
  <1>4. QED
    BY <1>1, <1>2, <1>3, PTL DEF MCSpec

\* The sequence s lies in c, behind place b.
LiesAt(c, b, s) == \A j \in 1 .. Len(s) : c[b + j] = s[j]

\* A concatenation lies there in two pieces.
LEMMA LiesInPieces ==
  ASSUME NEW E, NEW s \in Seq(E), NEW t \in Seq(E), NEW c, NEW b \in Nat, LiesAt(c, b, s \o t)
  PROVE  LiesAt(c, b, s) /\ LiesAt(c, b + Len(s), t)
  <1> DEFINE n == Len(s)
             m == Len(t)
             w == s \o t
  <1>1. n \in Nat /\ m \in Nat /\ Len(w) = n + m
        /\ \A i \in 1 .. n + m : w[i] = IF i <= n THEN s[i] ELSE t[i - n]
    BY ConcatProperties, LenProperties
  <1>2. \A j \in 1 .. n + m : c[b + j] = w[j]
    BY <1>1 DEF LiesAt
  <1> HIDE DEF n, m, w
  <1>3. ASSUME NEW j \in 1 .. n PROVE c[b + j] = s[j]
    <2>1. j \in 1 .. n + m /\ j <= n
      BY <1>1
    <2>2. w[j] = s[j]
      BY <1>1, <2>1
    <2>3. c[b + j] = w[j]
      BY <1>2, <2>1
    <2>4. QED
      BY <2>2, <2>3
  <1>4. ASSUME NEW j \in 1 .. m PROVE c[b + n + j] = t[j]
    <2> DEFINE i == n + j
    <2>1. i \in 1 .. n + m /\ ~(i <= n) /\ i - n = j /\ b + i = b + n + j
      BY <1>1
    <2> HIDE DEF i
    <2>2. c[b + i] = w[i] /\ w[i] = t[i - n]
      BY <1>1, <1>2, <2>1
    <2>3. QED
      BY <2>1, <2>2
  <1>5. QED
    BY <1>3, <1>4 DEF LiesAt, n, m

-----------------------------------------------------------------------------
(* Bytes.                                                                  *)

Ops == {"FLUSHP", "WFP", "LD", "ST", "SEV", "SAR", "DAR", "LP", "LPEND", "LPFE", "CCR"}

Insns ==
  [op : Ops, size : 1 .. 6] \cup [op : Ops, size : 1 .. 6, loop : 0 .. 1, cnt : 0 .. 255]
    \cup [op : Ops, size : 1 .. 6, loop : 0 .. 1, bjump : 0 .. 255]
    \cup [op : Ops, size : 1 .. 6, bjump : 0 .. 255] \cup [op : Ops, size : 1 .. 6, len : Nat]

LEMMA InsnSize == \A i \in Insns : i.size \in 1 .. 6 /\ i.size \in Nat
  BY DEF Insns

\* The bytes of the first n instructions, one after the other.
LEMMA BytesStepwise ==
  ASSUME NEW c, NEW m \in Nat, \A i \in 1 .. m : c[i].size \in Nat
  PROVE  \E f \in [0 .. m -> Nat] :
           /\ f[0] = 0 /\ \A i \in 1 .. m : f[i] = f[i - 1] + c[i].size
           /\ \A n \in 0 .. m : P!Bytes(c, n) = f[n]
  <1> DEFINE g == [i \in 1 .. m |-> [t \in Nat |-> t + c[i].size]]
  <1>1. StaysIn(Nat, m, g)
    BY DEF StaysIn
  <1>2. PICK f \in [0 .. m -> Nat] : f[0] = 0 /\ \A i \in 1 .. m : f[i] = g[i][f[i - 1]]
    <2> HIDE DEF g
    <2>1. Recursive(Nat, m, 0, g)
      <3>1. 0 \in Nat
        OBVIOUS
      <3>2. QED
        BY <1>1, <3>1, Recursion, Zenon
    <2>2. QED
      BY <2>1 DEF Recursive
  <1>3. \A i \in 1 .. m : f[i] = f[i - 1] + c[i].size
    <2>1. \A i \in 1 .. m : f[i - 1] \in Nat
      BY <1>2
    <2>2. QED
      BY <1>2, <2>1
  <1>4. ASSUME NEW n \in 0 .. m PROVE P!Bytes(c, n) = f[n]
    <2> DEFINE Body(h) == [i \in 0 .. n |-> IF i = 0 THEN 0 ELSE h[i - 1] + c[i].size]
               h0 == [i \in 0 .. n |-> f[i]]
               flat == CHOOSE h : h = Body(h)
    <2>1. P!Bytes(c, n) = flat[n]
      BY Zenon DEF P!Bytes
    <2>2. \A i \in 0 .. n : i \in 0 .. m /\ (i # 0 => i \in 1 .. m /\ i - 1 \in 0 .. n)
      BY <1>4
    <2>3. h0 = Body(h0)
      <3>1. ASSUME NEW i \in 0 .. n PROVE h0[i] = Body(h0)[i]
        <4>1. CASE i = 0
          BY <1>2, <4>1
        <4>2. CASE i # 0
          BY <1>3, <2>2, <4>2
        <4>3. QED
          BY <4>1, <4>2
      <3>2. Body(h0) = [i \in 0 .. n |-> Body(h0)[i]]
        <4> HIDE DEF h0
        <4>1. QED
          OBVIOUS
      <3>3. h0 = [i \in 0 .. n |-> h0[i]]
        OBVIOUS
      <3> HIDE DEF h0, Body
      <3>4. QED
        BY <3>1, <3>2, <3>3
    <2>4. flat = Body(flat)
      <3> HIDE DEF h0, Body
      <3>1. QED
        BY <2>3
    <2>5. \A i \in 0 .. n : flat[i] = IF i = 0 THEN 0 ELSE flat[i - 1] + c[i].size
      <3> HIDE DEF flat
      <3>1. QED
        BY <2>4
    <2> HIDE DEF flat, Body, h0
    <2> DEFINE Shown == {k \in Nat : k <= n => flat[k] = f[k]}
    <2>6. 0 \in Shown
      BY <1>2, <1>4, <2>5
    <2>7. ASSUME NEW k \in Nat, k \in Shown PROVE k + 1 \in Shown
      <3> SUFFICES ASSUME k + 1 <= n PROVE flat[k + 1] = f[k + 1]
        OBVIOUS
      <3>1. k + 1 \in 0 .. n /\ k + 1 \in 1 .. m /\ k + 1 # 0 /\ k + 1 - 1 = k /\ k <= n
        BY <1>4
      <3>2. QED
        BY <1>3, <2>5, <2>7, <3>1
    <2>8. \A k \in Nat : k \in Shown
      <3> HIDE DEF Shown
      <3>1. QED
        BY <2>6, <2>7, UpFromZero
    <2>9. QED
      BY <1>4, <2>1, <2>8
  <1>5. QED
    BY <1>2, <1>3, <1>4

LEMMA BytesFirst ==
  ASSUME NEW c, NEW n \in Nat, \A i \in 1 .. n : c[i].size \in Nat
  PROVE  P!Bytes(c, 0) = 0 /\ P!Bytes(c, n) \in Nat
  <1>1. PICK f \in [0 .. n -> Nat] :
          /\ f[0] = 0 /\ \A i \in 1 .. n : f[i] = f[i - 1] + c[i].size
          /\ \A k \in 0 .. n : P!Bytes(c, k) = f[k]
    BY BytesStepwise
  <1>2. 0 \in 0 .. n /\ n \in 0 .. n
    OBVIOUS
  <1>3. QED
    BY <1>1, <1>2

LEMMA BytesNext ==
  ASSUME NEW c, NEW n \in Nat, \A i \in 1 .. n + 1 : c[i].size \in Nat
  PROVE  P!Bytes(c, 0) = 0 /\ P!Bytes(c, n) \in Nat /\ P!Bytes(c, n + 1) = P!Bytes(c, n) + c[n + 1].size
  <1>1. PICK f \in [0 .. n + 1 -> Nat] :
          /\ f[0] = 0 /\ \A i \in 1 .. n + 1 : f[i] = f[i - 1] + c[i].size
          /\ \A k \in 0 .. n + 1 : P!Bytes(c, k) = f[k]
    <2> DEFINE m == n + 1
    <2>1. m \in Nat /\ \A i \in 1 .. m : c[i].size \in Nat
      OBVIOUS
    <2> HIDE DEF m
    <2>2. \E f \in [0 .. m -> Nat] :
            /\ f[0] = 0 /\ \A i \in 1 .. m : f[i] = f[i - 1] + c[i].size
            /\ \A k \in 0 .. m : P!Bytes(c, k) = f[k]
      BY <2>1, BytesStepwise
    <2>3. QED
      BY <2>2 DEF m
  <1>2. 0 \in 0 .. n + 1 /\ n \in 0 .. n + 1 /\ n + 1 \in 0 .. n + 1 /\ n + 1 \in 1 .. n + 1 /\ n + 1 - 1 = n
    OBVIOUS
  <1>3. QED
    BY <1>1, <1>2

\* The bytes of a sequence wherever it lies.
LEMMA BytesLie ==
  ASSUME NEW c, NEW b \in Nat, NEW s \in Seq(Insns), LiesAt(c, b, s), \A i \in 1 .. b : c[i].size \in Nat
  PROVE  P!Size(s) \in Nat /\ P!Bytes(c, b + Len(s)) = P!Bytes(c, b) + P!Size(s)
  <1> DEFINE m == Len(s)
  <1>1. m \in Nat /\ \A j \in 1 .. m : s[j] \in Insns /\ s[j].size \in Nat
    BY LenProperties, ElementOfSeq, InsnSize
  <1>2. \A j \in 1 .. m : c[b + j] = s[j]
    BY DEF LiesAt
  <1> HIDE DEF m
  <1>3. \A i \in 1 .. b + m : c[i].size \in Nat
    <2> SUFFICES ASSUME NEW i \in 1 .. b + m PROVE c[i].size \in Nat
      OBVIOUS
    <2>1. i \in 1 .. b \/ (i - b \in 1 .. m /\ b + (i - b) = i)
      BY <1>1
    <2>2. QED
      BY <1>1, <1>2, <2>1
  <1> DEFINE Shown == {k \in Nat : k <= m =>
                         P!Bytes(s, k) \in Nat /\ P!Bytes(c, b + k) = P!Bytes(c, b) + P!Bytes(s, k)}
  <1>4. 0 \in Shown
    <2>1. P!Bytes(s, 0) = 0
      <3>1. \A i \in 1 .. 0 : s[i].size \in Nat
        OBVIOUS
      <3>2. QED
        BY <3>1, BytesFirst
    <2>2. P!Bytes(c, b) \in Nat
      BY BytesFirst
    <2>3. QED
      BY <2>1, <2>2
  <1>5. ASSUME NEW k \in Nat, k \in Shown PROVE k + 1 \in Shown
    <2> SUFFICES ASSUME k + 1 <= m
                 PROVE  P!Bytes(s, k + 1) \in Nat /\ P!Bytes(c, b + (k + 1)) = P!Bytes(c, b) + P!Bytes(s, k + 1)
      OBVIOUS
    <2>1. P!Bytes(s, k) \in Nat /\ P!Bytes(c, b + k) = P!Bytes(c, b) + P!Bytes(s, k)
      BY <1>1, <1>5
    <2>2. P!Bytes(s, k + 1) = P!Bytes(s, k) + s[k + 1].size /\ s[k + 1].size \in Nat
      <3>1. \A i \in 1 .. k + 1 : s[i].size \in Nat
        BY <1>1
      <3>2. QED
        BY <3>1, BytesNext
    <2>3. P!Bytes(c, b) \in Nat /\ P!Bytes(c, b + k + 1) = P!Bytes(c, b + k) + c[b + k + 1].size
      <3> DEFINE n == b + k
      <3>1. n \in Nat /\ \A i \in 1 .. n + 1 : c[i].size \in Nat
        BY <1>1, <1>3
      <3> HIDE DEF n
      <3>2. P!Bytes(c, n + 1) = P!Bytes(c, n) + c[n + 1].size
        BY <3>1, BytesNext
      <3>3. P!Bytes(c, b) \in Nat
        BY BytesFirst
      <3>4. QED
        BY <3>2, <3>3 DEF n
    <2>4. b + (k + 1) = b + k + 1 /\ c[b + k + 1] = s[k + 1]
      <3>1. k + 1 \in 1 .. m /\ b + (k + 1) = b + k + 1
        BY <1>1
      <3>2. QED
        BY <1>2, <3>1
    <2> DEFINE bs == P!Bytes(s, k)
               bc == P!Bytes(c, b)
               z == s[k + 1].size
    <2>5. bs \in Nat /\ bc \in Nat /\ z \in Nat /\ P!Bytes(c, b + (k + 1)) = bc + bs + z /\ P!Bytes(s, k + 1) = bs + z
      BY <2>1, <2>2, <2>3, <2>4
    <2> HIDE DEF bs, bc, z
    <2>6. QED
      BY <2>5 DEF bc
  <1>6. m \in Shown
    <2> HIDE DEF Shown
    <2>1. QED
      BY <1>1, <1>4, <1>5, UpFromZero
  <1>7. QED
    BY <1>1, <1>6 DEF P!Size, m

LEMMA SizeConcat ==
  ASSUME NEW s \in Seq(Insns), NEW t \in Seq(Insns)
  PROVE  P!Size(s \o t) = P!Size(s) + P!Size(t) /\ P!Size(s) \in Nat /\ P!Size(t) \in Nat
  <1> DEFINE w == s \o t
             n == Len(s)
  <1>1. n \in Nat /\ Len(w) = n + Len(t) /\ LiesAt(w, 0, s) /\ LiesAt(w, n, t)
        /\ \A i \in 1 .. n : w[i].size \in Nat
    <2>1. /\ n \in Nat /\ Len(t) \in Nat /\ Len(w) = n + Len(t)
          /\ \A i \in 1 .. n + Len(t) : w[i] = IF i <= n THEN s[i] ELSE t[i - n]
      BY ConcatProperties, LenProperties
    <2>2. LiesAt(w, 0, w)
      BY DEF LiesAt
    <2>3. LiesAt(w, 0, s) /\ LiesAt(w, 0 + n, t)
      BY <2>2, LiesInPieces
    <2>4. 0 + n = n
      BY <2>1
    <2>5. \A i \in 1 .. n : s[i].size \in Nat
      BY ElementOfSeq, InsnSize
    <2>6. \A i \in 1 .. n : w[i] = s[i]
      <3> HIDE DEF w, n
      <3>1. QED
        BY <2>1
    <2>7. QED
      BY <2>1, <2>3, <2>4, <2>5, <2>6
  <1> HIDE DEF w, n
  <1>2. P!Size(t) \in Nat /\ P!Bytes(w, n + Len(t)) = P!Bytes(w, n) + P!Size(t)
    BY <1>1, BytesLie
  <1>3. P!Size(s) \in Nat /\ P!Bytes(w, 0 + n) = P!Bytes(w, 0) + P!Size(s)
    BY <1>1, BytesLie DEF n
  <1>4. P!Bytes(w, 0) = 0
    <2>1. \A i \in 1 .. 0 : w[i].size \in Nat
      OBVIOUS
    <2>2. QED
      BY <2>1, BytesFirst
  <1>5. P!Size(w) = P!Size(s) + P!Size(t)
    BY <1>1, <1>2, <1>3, <1>4 DEF P!Size
  <1>6. QED
    BY <1>2, <1>3, <1>5 DEF w

LEMMA SizeOne ==
  ASSUME NEW i \in Insns
  PROVE  P!Size(<<i>>) = i.size /\ <<i>> \in Seq(Insns) /\ Len(<<i>>) = 1 /\ <<i>>[1] = i
  <1> DEFINE s == <<i>>
  <1>1. Len(s) = 1 /\ s[1] = i /\ s \in Seq(Insns) /\ i.size \in Nat
    BY InsnSize
  <1> HIDE DEF s
  <1>2. \A k \in 1 .. 0 + 1 : s[k].size \in Nat
    BY <1>1
  <1>3. P!Bytes(s, 0 + 1) = P!Bytes(s, 0) + s[0 + 1].size /\ P!Bytes(s, 0) = 0
    BY <1>2, BytesNext
  <1>4. QED
    BY <1>1, <1>3 DEF P!Size, s

\* Products.
LEMMA OneMore == ASSUME NEW a \in Int, NEW b \in Int PROVE (a + 1) * b = a * b + b
  OBVIOUS

\* A sequence repeated lies there as often.
Repeats(s, n) ==
  /\ P!Repeat(s, n) \in Seq(Insns) /\ Len(P!Repeat(s, n)) = n * Len(s)
  /\ P!Size(P!Repeat(s, n)) = n * P!Size(s)
  /\ \A c : \A b \in Nat : LiesAt(c, b, P!Repeat(s, n)) => \A k \in 0 .. n - 1 : LiesAt(c, b + k * Len(s), s)

LEMMA Repeated ==
  ASSUME NEW s \in Seq(Insns), NEW n \in Nat
  PROVE  Repeats(s, n)
  <1> DEFINE ss == [i \in 1 .. n |-> s]
             w == P!Repeat(s, n)
             L == Len(s)
             z == P!Size(s)
  <1>1. w = FlattenSeq(ss) /\ L \in Nat
    BY LenProperties DEF P!Repeat, P!FlattenSeq, FlattenSeq
  <1>2. ss \in Seq(Seq(Insns)) /\ Len(ss) = n /\ \A i \in 1 .. n : ss[i] = s
    OBVIOUS
  <1>3. PICK F : Flattens(Insns, ss, F)
    <2> HIDE DEF ss
    <2>1. QED
      BY <1>2, FlattenStepwise
  <1>4. Lies(Insns, ss, F)
    <2> HIDE DEF ss
    <2>1. QED
      BY <1>2, <1>3, FlattenPlaces
  <1>5. /\ F \in [0 .. n -> Seq(Insns)] /\ F[0] = <<>> /\ w = F[n]
        /\ \A i \in 1 .. n : F[i] = F[i - 1] \o s
    <2> HIDE DEF ss, w
    <2>1. QED
      BY <1>1, <1>2, <1>3 DEF Flattens
  <1>6. /\ \A i \in 0 .. n : Len(F[i]) \in Nat
        /\ \A i \in 1 .. n : /\ Len(F[i]) = Len(F[i - 1]) + L /\ Len(F[i]) <= Len(w)
                             /\ \A j \in 1 .. L : w[Len(F[i - 1]) + j] = s[j]
    <2>1. \A i \in 1 .. n : ss[i] = s /\ Len(ss[i]) = L
      BY <1>2
    <2> HIDE DEF ss, w, L
    <2>2. \A i \in 0 .. n : Len(F[i]) \in Nat
      BY <1>5, LenProperties
    <2>3. ASSUME NEW i \in 1 .. n
          PROVE  /\ Len(F[i]) = Len(F[i - 1]) + L /\ Len(F[i]) <= Len(w)
                 /\ \A j \in 1 .. L : w[Len(F[i - 1]) + j] = s[j]
      <3>1. ss[i] = s /\ Len(ss[i]) = L
        BY <2>1
      <3>2. /\ Len(F[i]) = Len(F[i - 1]) + Len(ss[i]) /\ Len(F[i]) <= Len(w)
            /\ \A j \in 1 .. Len(ss[i]) : w[Len(F[i - 1]) + j] = ss[i][j]
        BY <1>1, <1>2, <1>4 DEF Lies
      <3>3. QED
        BY <3>1, <3>2
    <2>4. QED
      BY <2>2, <2>3
  <1> HIDE DEF ss, w, L, z
  <1>7. z \in Nat /\ P!Size(<<>>) = 0 /\ Len(<<>>) = 0
    <2>1. z \in Nat
      BY SizeConcat DEF z
    <2>2. \A i \in 1 .. 0 : (<<>>)[i].size \in Nat
      OBVIOUS
    <2>3. P!Bytes(<<>>, 0) = 0
      BY <2>2, BytesFirst
    <2>4. QED
      BY <2>1, <2>3 DEF P!Size
  <1> DEFINE Shown == {k \in Nat : k <= n => Len(F[k]) = k * L /\ P!Size(F[k]) = k * z}
  <1>8. 0 \in Shown
    <2>1. 0 * L = 0 /\ 0 * z = 0
      BY <1>1, <1>7
    <2>2. QED
      BY <1>5, <1>7, <2>1
  <1>9. ASSUME NEW k \in Nat, k \in Shown PROVE k + 1 \in Shown
    <2> SUFFICES ASSUME k + 1 <= n PROVE Len(F[k + 1]) = (k + 1) * L /\ P!Size(F[k + 1]) = (k + 1) * z
      OBVIOUS
    <2>1. k + 1 \in 1 .. n /\ k + 1 - 1 = k /\ k \in 0 .. n /\ Len(F[k]) = k * L /\ P!Size(F[k]) = k * z
      BY <1>9
    <2>2. (k + 1) * L = k * L + L /\ (k + 1) * z = k * z + z
      BY <1>1, <1>7, OneMore
    <2>3. F[k + 1] = F[k] \o s /\ F[k] \in Seq(Insns)
      <3> DEFINE q == k + 1
      <3>1. q \in 1 .. n /\ q - 1 = k /\ k \in 0 .. n
        BY <2>1
      <3> HIDE DEF q
      <3>2. F[q] = F[q - 1] \o s
        BY <1>5, <3>1
      <3>3. F[k] \in Seq(Insns)
        BY <1>5, <3>1
      <3>4. QED
        BY <3>1, <3>2, <3>3 DEF q
    <2>4. P!Size(F[k] \o s) = P!Size(F[k]) + z
      BY <2>3, SizeConcat DEF z
    <2>5. Len(F[k + 1]) = Len(F[k]) + L
      BY <1>6, <2>1
    <2>6. QED
      BY <2>1, <2>2, <2>3, <2>4, <2>5
  <1>10. \A k \in 0 .. n : Len(F[k]) = k * L /\ P!Size(F[k]) = k * z
    <2>1. \A k \in Nat : k \in Shown
      <3> HIDE DEF Shown
      <3>1. QED
        BY <1>8, <1>9, UpFromZero
    <2>2. QED
      BY <2>1
  <1>11. w \in Seq(Insns) /\ Len(w) = n * L /\ P!Size(w) = n * z
    BY <1>5, <1>10
  <1>12. ASSUME NEW c, NEW b \in Nat, LiesAt(c, b, w), NEW k \in 0 .. n - 1
         PROVE  LiesAt(c, b + k * L, s)
    <2> SUFFICES ASSUME NEW j \in 1 .. L PROVE c[b + k * L + j] = s[j]
      BY DEF LiesAt, L
    <2> DEFINE a == Len(F[k])
    <2>1. k + 1 \in 1 .. n /\ k + 1 - 1 = k /\ k \in 0 .. n /\ k + 1 \in 0 .. n
      OBVIOUS
    <2>2. /\ Len(F[k + 1]) = a + L /\ Len(F[k + 1]) <= Len(w) /\ w[a + j] = s[j] /\ a \in Nat /\ a = k * L
          /\ Len(F[k + 1]) \in Nat
      BY <1>6, <1>10, <2>1
    <2>3. Len(w) \in Nat
      BY <1>11, LenProperties
    <2> HIDE DEF a
    <2>4. a + j \in 1 .. Len(w) /\ b + a + j = b + (a + j)
      <3> DEFINE len == Len(w)
                 more == Len(F[k + 1])
      <3>1. a \in Nat /\ L \in Nat /\ len \in Nat /\ more = a + L /\ more <= len
        BY <1>1, <2>2, <2>3
      <3> HIDE DEF len, more
      <3>2. a + j \in 1 .. len /\ b + a + j = b + (a + j)
        BY <3>1
      <3>3. QED
        BY <3>2 DEF len
    <2>5. c[b + (a + j)] = w[a + j]
      BY <1>12, <2>4 DEF LiesAt
    <2>6. QED
      BY <2>2, <2>4, <2>5
  <1>13. QED
    BY <1>11, <1>12 DEF Repeats, w, L, z

-----------------------------------------------------------------------------
(* Where the instructions of a period lie.                                 *)

FlushInsn   == P!Plain("FLUSHP", 2)
WaitInsn    == P!Plain("WFP", 2)
LoadInsn(r)  == P!Plain("LD", IF r.fromDevice THEN 2 ELSE 1)
StoreInsn(r) == P!Plain("ST", IF r.fromDevice THEN 1 ELSE 2)
EventInsn   == P!Plain("SEV", 2)

LEMMA PlainInsn ==
  ASSUME NEW op \in Ops, NEW size \in 1 .. 6
  PROVE  P!Plain(op, size) \in Insns /\ P!Plain(op, size).size = size /\ P!Plain(op, size).op = op
  BY DEF Insns, P!Plain

LEMMA LoopInsns ==
  ASSUME NEW loop \in 0 .. 1, NEW n \in Int
  PROVE  /\ P!LP(loop, n) \in Insns /\ P!LP(loop, n).size = 2
         /\ P!LPEND(loop, n) \in Insns /\ P!LPEND(loop, n).size = 2
         /\ P!LPFE(n) \in Insns /\ P!LPFE(n).size = 2
  <1>1. ((n % 256) - 1) % 256 \in 0 .. 255 /\ n % 256 \in 0 .. 255
    OBVIOUS
  <1> DEFINE x == ((n % 256) - 1) % 256
             y == n % 256
  <1> HIDE DEF x, y
  <1>2. x \in 0 .. 255 /\ y \in 0 .. 255
    BY <1>1 DEF x, y
  <1>3. /\ [op |-> "LP", size |-> 2, loop |-> loop, cnt |-> x] \in Insns
        /\ [op |-> "LPEND", size |-> 2, loop |-> loop, bjump |-> y] \in Insns
        /\ [op |-> "LPFE", size |-> 2, bjump |-> y] \in Insns
    <2>1. "LP" \in Ops /\ "LPEND" \in Ops /\ "LPFE" \in Ops
      BY DEF Ops
    <2>2. 2 \in 1 .. 6
      OBVIOUS
    <2>3. [op |-> "LP", size |-> 2, loop |-> loop, cnt |-> x] \in [op : Ops, size : 1 .. 6, loop : 0 .. 1, cnt : 0 .. 255]
      BY <1>2, <2>1, <2>2
    <2>4. [op |-> "LPEND", size |-> 2, loop |-> loop, bjump |-> y] \in [op : Ops, size : 1 .. 6, loop : 0 .. 1, bjump : 0 .. 255]
      BY <1>2, <2>1, <2>2
    <2>5. [op |-> "LPFE", size |-> 2, bjump |-> y] \in [op : Ops, size : 1 .. 6, bjump : 0 .. 255]
      BY <1>2, <2>1, <2>2
    <2>6. [op |-> "LP", size |-> 2, loop |-> loop, cnt |-> x] \in Insns
      BY <2>3, Zenon DEF Insns
    <2>7. [op |-> "LPEND", size |-> 2, loop |-> loop, bjump |-> y] \in Insns
      BY <2>4, Zenon DEF Insns
    <2>8. [op |-> "LPFE", size |-> 2, bjump |-> y] \in Insns
      BY <2>5, Zenon DEF Insns
    <2>9. QED
      BY <2>6, <2>7, <2>8
  <1>4. QED
    BY <1>3 DEF P!LP, P!LPEND, P!LPFE, x, y

LEMMA ControlInsn ==
  ASSUME NEW n \in Nat
  PROVE  P!MOVCCR(n) \in Insns /\ P!MOVCCR(n).size = 6
  <1>1. "CCR" \in Ops
    BY DEF Ops
  <1>2. 6 \in 1 .. 6
    OBVIOUS
  <1>3. [op |-> "CCR", size |-> 6, len |-> n] \in [op : Ops, size : 1 .. 6, len : Nat]
    BY <1>1, <1>2
  <1>4. QED
    BY <1>3 DEF Insns, P!MOVCCR

\* A piece of the program, of n instructions and z bytes.
Piece(s, n, z) == s \in Seq(Insns) /\ Len(s) = n /\ P!Size(s) = z

LEMMA ThreeInsns ==
  ASSUME NEW x \in Insns, NEW y \in Insns, NEW z \in Insns
  PROVE  /\ Piece(<<x, y, z>>, 3, x.size + y.size + z.size)
         /\ \A c : \A b \in Nat : LiesAt(c, b, <<x, y, z>>) => c[b + 1] = x /\ c[b + 2] = y /\ c[b + 3] = z
  <1> DEFINE s == <<x, y, z>>
  <1>1. s \in Seq(Insns) /\ Len(s) = 3 /\ s[1] = x /\ s[2] = y /\ s[3] = z
    <2> HIDE DEF Insns
    <2>1. QED
      OBVIOUS
  <1>2. x.size \in Nat /\ y.size \in Nat /\ z.size \in Nat
    BY InsnSize
  <1> HIDE DEF s
  <1>3. \A n \in 0 .. 2 : \A i \in 1 .. n + 1 : s[i].size \in Nat
    <2>1. \A i \in 1 .. 3 : i = 1 \/ i = 2 \/ i = 3
      OBVIOUS
    <2>2. \A i \in 1 .. 3 : s[i].size \in Nat
      BY <1>1, <1>2, <2>1
    <2>3. QED
      BY <2>2
  <1>4. P!Bytes(s, 0) = 0 /\ P!Bytes(s, 0 + 1) = P!Bytes(s, 0) + s[0 + 1].size
    BY <1>3, BytesNext
  <1>5. P!Bytes(s, 1 + 1) = P!Bytes(s, 1) + s[1 + 1].size
    BY <1>3, BytesNext
  <1>6. P!Bytes(s, 2 + 1) = P!Bytes(s, 2) + s[2 + 1].size
    BY <1>3, BytesNext
  <1>7. P!Bytes(s, 3) = x.size + y.size + z.size
    <2>1. P!Bytes(s, 1) = x.size
      BY <1>1, <1>2, <1>4
    <2>2. P!Bytes(s, 2) = x.size + y.size
      BY <1>1, <1>5, <2>1
    <2>3. QED
      BY <1>1, <1>6, <2>2
  <1>8. ASSUME NEW c, NEW b \in Nat, LiesAt(c, b, s) PROVE c[b + 1] = x /\ c[b + 2] = y /\ c[b + 3] = z
    <2>1. 1 \in 1 .. 3 /\ 2 \in 1 .. 3 /\ 3 \in 1 .. 3
      OBVIOUS
    <2>2. QED
      BY <1>1, <1>8, <2>1 DEF LiesAt
  <1>9. Piece(s, 3, x.size + y.size + z.size)
    BY <1>1, <1>7 DEF P!Size, Piece
  <1>10. QED
    BY <1>8, <1>9 DEF s

\* One burst.
BurstInsns(r) == <<WaitInsn, LoadInsn(r), StoreInsn(r)>>

LEMMA OneBurst ==
  ASSUME NEW r, r.fromDevice \in BOOLEAN
  PROVE  /\ BurstInsns(r) \in Seq(Insns) /\ Len(BurstInsns(r)) = 3 /\ P!Size(BurstInsns(r)) = 5
         /\ BurstInsns(r)[1] = WaitInsn /\ BurstInsns(r)[2] = LoadInsn(r) /\ BurstInsns(r)[3] = StoreInsn(r)
  <1>1. /\ WaitInsn \in Insns /\ WaitInsn.size = 2 /\ LoadInsn(r) \in Insns /\ StoreInsn(r) \in Insns
        /\ LoadInsn(r).size + StoreInsn(r).size = 3 /\ LoadInsn(r).size \in Nat /\ StoreInsn(r).size \in Nat
    <2>1. "WFP" \in Ops /\ "LD" \in Ops /\ "ST" \in Ops
      BY DEF Ops
    <2>2. 1 \in 1 .. 6 /\ 2 \in 1 .. 6
      OBVIOUS
    <2>3. WaitInsn \in Insns /\ WaitInsn.size = 2
      BY <2>1, <2>2, PlainInsn DEF WaitInsn
    <2>4. /\ LoadInsn(r) \in Insns /\ LoadInsn(r).size = IF r.fromDevice THEN 2 ELSE 1
          /\ StoreInsn(r) \in Insns /\ StoreInsn(r).size = IF r.fromDevice THEN 1 ELSE 2
      BY <2>1, <2>2, PlainInsn DEF LoadInsn, StoreInsn
    <2>5. QED
      BY <2>3, <2>4
  <1> DEFINE w == WaitInsn
             l == LoadInsn(r)
             t == StoreInsn(r)
             s == <<w, l, t>>
  <1>2. /\ Piece(s, 3, w.size + l.size + t.size)
        /\ s[1] = w /\ s[2] = l /\ s[3] = t
    <2> HIDE DEF w, l, t
    <2>1. Piece(s, 3, w.size + l.size + t.size)
      BY <1>1, ThreeInsns DEF w, l, t
    <2>2. QED
      BY <2>1
  <1>3. w.size + l.size + t.size = 5
    BY <1>1
  <1>4. BurstInsns(r) = s
    BY DEF BurstInsns
  <1> HIDE DEF s, w, l, t
  <1>5. QED
    BY <1>2, <1>3, <1>4 DEF Piece, w, l, t

\* The bursts of a loop.
BurstsAt(c, r, b, cyc) ==
  /\ c[b + 1] = FlushInsn
  /\ \A j \in 1 .. cyc : /\ c[b + 3 * j - 1] = WaitInsn
                         /\ c[b + 3 * j] = LoadInsn(r) /\ c[b + 3 * j + 1] = StoreInsn(r)

LEMMA BurstsLie ==
  ASSUME NEW r, r.fromDevice \in BOOLEAN, NEW cyc \in Nat
  PROVE  /\ P!Bursts(r, cyc) \in Seq(Insns) /\ Len(P!Bursts(r, cyc)) = 1 + 3 * cyc
         /\ P!Size(P!Bursts(r, cyc)) = 2 + 5 * cyc
         /\ \A c : \A b \in Nat : LiesAt(c, b, P!Bursts(r, cyc)) => BurstsAt(c, r, b, cyc)
  <1> DEFINE s == BurstInsns(r)
             w == P!Repeat(s, cyc)
             f == <<FlushInsn>>
  <1>1. P!Bursts(r, cyc) = f \o w
    BY DEF P!Bursts, BurstInsns, FlushInsn, WaitInsn, LoadInsn, StoreInsn
  <1>2. /\ s \in Seq(Insns) /\ Len(s) = 3 /\ P!Size(s) = 5
        /\ s[1] = WaitInsn /\ s[2] = LoadInsn(r) /\ s[3] = StoreInsn(r)
    BY OneBurst
  <1>3. Repeats(s, cyc)
    BY <1>2, Repeated
  <1>4. FlushInsn \in Insns /\ FlushInsn.size = 2
    <2>1. "FLUSHP" \in Ops
      BY DEF Ops
    <2>2. 2 \in 1 .. 6
      OBVIOUS
    <2>3. QED
      BY <2>1, <2>2, PlainInsn DEF FlushInsn
  <1>5. f \in Seq(Insns) /\ Len(f) = 1 /\ f[1] = FlushInsn /\ P!Size(f) = 2
    BY <1>4, SizeOne
  <1> HIDE DEF s, w, f
  <1>6. w \in Seq(Insns) /\ Len(w) = cyc * 3 /\ P!Size(w) = cyc * 5
    BY <1>2, <1>3 DEF Repeats, w
  <1>7. f \o w \in Seq(Insns) /\ Len(f \o w) = 1 + 3 * cyc /\ P!Size(f \o w) = 2 + 5 * cyc
    <2>1. f \o w \in Seq(Insns) /\ Len(f \o w) = Len(f) + Len(w)
      BY <1>5, <1>6, ConcatProperties
    <2>2. P!Size(f \o w) = P!Size(f) + P!Size(w)
      BY <1>5, <1>6, SizeConcat
    <2>3. QED
      BY <1>5, <1>6, <2>1, <2>2
  <1>8. ASSUME NEW c, NEW b \in Nat, LiesAt(c, b, f \o w) PROVE BurstsAt(c, r, b, cyc)
    <2>1. LiesAt(c, b, f) /\ LiesAt(c, b + 1, w)
      BY <1>5, <1>6, <1>8, LiesInPieces
    <2>2. c[b + 1] = FlushInsn
      BY <1>5, <2>1 DEF LiesAt
    <2>3. ASSUME NEW j \in 1 .. cyc
          PROVE  c[b + 3 * j - 1] = WaitInsn /\ c[b + 3 * j] = LoadInsn(r) /\ c[b + 3 * j + 1] = StoreInsn(r)
      <3>1. b + 1 \in Nat /\ j - 1 \in 0 .. cyc - 1
        OBVIOUS
      <3>2. LiesAt(c, b + 1 + (j - 1) * 3, s)
        BY <1>2, <1>3, <2>1, <3>1 DEF Repeats, w
      <3>3. /\ b + 1 + (j - 1) * 3 + 1 = b + 3 * j - 1 /\ b + 1 + (j - 1) * 3 + 2 = b + 3 * j
            /\ b + 1 + (j - 1) * 3 + 3 = b + 3 * j + 1
        OBVIOUS
      <3>4. 1 \in 1 .. 3 /\ 2 \in 1 .. 3 /\ 3 \in 1 .. 3
        OBVIOUS
      <3> DEFINE a == b + 1 + (j - 1) * 3
      <3> HIDE DEF a
      <3>5. c[a + 1] = s[1] /\ c[a + 2] = s[2] /\ c[a + 3] = s[3]
        BY <1>2, <3>2, <3>4 DEF LiesAt, a
      <3>6. QED
        BY <1>2, <3>3, <3>5 DEF a
    <2>4. QED
      BY <2>2, <2>3 DEF BurstsAt
  <1>9. QED
    BY <1>1, <1>7, <1>8

LEMMA TwoPieces ==
  ASSUME NEW s, NEW t, NEW n \in Nat, NEW m \in Nat, NEW z \in Nat, NEW y \in Nat, Piece(s, n, z), Piece(t, m, y)
  PROVE  /\ Piece(s \o t, n + m, z + y)
         /\ \A c : \A b \in Nat : LiesAt(c, b, s \o t) => LiesAt(c, b, s) /\ LiesAt(c, b + n, t)
  <1>1. s \in Seq(Insns) /\ t \in Seq(Insns) /\ Len(s) = n /\ Len(t) = m /\ P!Size(s) = z /\ P!Size(t) = y
    BY DEF Piece
  <1>2. s \o t \in Seq(Insns) /\ Len(s \o t) = n + m
    BY <1>1, ConcatProperties
  <1>3. P!Size(s \o t) = z + y
    BY <1>1, SizeConcat
  <1>4. ASSUME NEW c, NEW b \in Nat, LiesAt(c, b, s \o t) PROVE LiesAt(c, b, s) /\ LiesAt(c, b + n, t)
    BY <1>1, <1>4, LiesInPieces
  <1>5. QED
    BY <1>2, <1>3, <1>4 DEF Piece

LEMMA OneInsn ==
  ASSUME NEW i \in Insns
  PROVE  /\ Piece(<<i>>, 1, i.size) /\ i.size \in Nat
         /\ \A c : \A b \in Nat : LiesAt(c, b, <<i>>) => c[b + 1] = i
  <1> DEFINE s == <<i>>
  <1>1. P!Size(s) = i.size /\ s \in Seq(Insns) /\ Len(s) = 1 /\ s[1] = i
    BY SizeOne
  <1> HIDE DEF s
  <1>2. ASSUME NEW c, NEW b \in Nat, LiesAt(c, b, s) PROVE c[b + 1] = i
    BY <1>1, <1>2 DEF LiesAt
  <1>3. QED
    BY <1>1, <1>2, InsnSize DEF Piece, s

LEMMA NoInsn == Piece(<<>>, 0, 0)
  <1>1. \A i \in 1 .. 0 : (<<>>)[i].size \in Nat
    OBVIOUS
  <1>2. P!Bytes(<<>>, 0) = 0
    BY <1>1, BytesFirst
  <1>3. QED
    BY <1>2 DEF Piece, P!Size

\* A loop of bursts.
LoopAt(c, r, b, count, cyc) ==
  c[b + 1] = P!LP(1, count) /\ BurstsAt(c, r, b + 1, cyc) /\ c[b + (3 * cyc + 3)] = P!LPEND(1, 2 + 5 * cyc)

LEMMA LoopLies ==
  ASSUME NEW r, r.fromDevice \in BOOLEAN, NEW count \in Nat, NEW cyc \in Nat
  PROVE  /\ Piece(P!BurstLoop(r, count, cyc), 3 * cyc + 3, 6 + 5 * cyc)
         /\ \A c : \A b \in Nat : LiesAt(c, b, P!BurstLoop(r, count, cyc)) => LoopAt(c, r, b, count, cyc)
  <1> DEFINE body == P!Bursts(r, cyc)
             first == P!LP(1, count)
             last == P!LPEND(1, P!Size(body))
             n == 1 + 3 * cyc
             z == 2 + 5 * cyc
  <1>1. P!BurstLoop(r, count, cyc) = <<first>> \o body \o <<last>>
    BY DEF P!BurstLoop
  <1>2. Piece(body, n, z) /\ \A c : \A b \in Nat : LiesAt(c, b, body) => BurstsAt(c, r, b, cyc)
    BY BurstsLie DEF Piece
  <1>3. n \in Nat /\ z \in Nat /\ P!Size(body) = z /\ z \in Int
    BY <1>2 DEF Piece
  <1>4. first \in Insns /\ first.size = 2
    <2>1. 1 \in 0 .. 1 /\ count \in Int
      OBVIOUS
    <2>2. QED
      BY <2>1, LoopInsns
  <1>5. last \in Insns /\ last.size = 2
    <2>1. 1 \in 0 .. 1
      OBVIOUS
    <2>2. P!LPEND(1, z) \in Insns /\ P!LPEND(1, z).size = 2
      BY <1>3, <2>1, LoopInsns
    <2>3. QED
      BY <1>3, <2>2
  <1>6. last = P!LPEND(1, z)
    BY <1>3
  <1> HIDE DEF body, first, last, n, z
  <1>7. /\ Piece(<<first>>, 1, 2) /\ Piece(<<last>>, 1, 2)
        /\ \A c : \A b \in Nat : /\ LiesAt(c, b, <<first>>) => c[b + 1] = first
                                 /\ LiesAt(c, b, <<last>>) => c[b + 1] = last
    BY <1>4, <1>5, OneInsn
  <1> DEFINE x == <<first>> \o body
             fs == <<first>>
             ls == <<last>>
  <1>8. /\ Piece(x, 1 + n, 2 + z)
        /\ \A c : \A b \in Nat : LiesAt(c, b, x) => LiesAt(c, b, fs) /\ LiesAt(c, b + 1, body)
    <2> HIDE DEF fs
    <2>1. Piece(fs, 1, 2) /\ 1 \in Nat /\ 2 \in Nat
      BY <1>7 DEF fs
    <2>2. QED
      BY <1>2, <1>3, <2>1, TwoPieces DEF fs
  <1>9. /\ Piece(x \o ls, (1 + n) + 1, (2 + z) + 2)
        /\ \A c : \A b \in Nat : LiesAt(c, b, x \o ls) => LiesAt(c, b, x) /\ LiesAt(c, b + (1 + n), ls)
    <2> HIDE DEF x, ls
    <2>1. Piece(ls, 1, 2) /\ 1 \in Nat /\ 2 \in Nat /\ 1 + n \in Nat /\ 2 + z \in Nat
      BY <1>3, <1>7 DEF ls
    <2>2. QED
      BY <1>8, <2>1, TwoPieces
  <1>10. (1 + n) + 1 = 3 * cyc + 3 /\ (2 + z) + 2 = 6 + 5 * cyc
    BY DEF n, z
  <1>11. ASSUME NEW c, NEW b \in Nat, LiesAt(c, b, x \o ls) PROVE LoopAt(c, r, b, count, cyc)
    <2> HIDE DEF x
    <2>1. LiesAt(c, b, x) /\ LiesAt(c, b + (1 + n), ls)
      BY <1>9, <1>11
    <2>2. LiesAt(c, b, fs) /\ LiesAt(c, b + 1, body)
      BY <1>8, <2>1
    <2>3. c[b + 1] = first
      BY <1>7, <2>2
    <2>4. BurstsAt(c, r, b + 1, cyc)
      BY <1>2, <2>2
    <2>5. c[b + (1 + n) + 1] = last /\ b + (1 + n) + 1 = b + (3 * cyc + 3)
      <3>1. b + (1 + n) \in Nat /\ b + (1 + n) + 1 = b + (3 * cyc + 3)
        BY DEF n
      <3> DEFINE a == b + (1 + n)
      <3> HIDE DEF a
      <3>2. c[a + 1] = last
        BY <1>7, <2>1, <3>1 DEF a
      <3>3. QED
        BY <3>1, <3>2 DEF a
    <2>6. QED
      BY <1>6, <2>3, <2>4, <2>5 DEF LoopAt, first, z
  <1>12. QED
    BY <1>1, <1>9, <1>10, <1>11

\* The words that are left.
DregsAt(c, r, b, words) ==
  c[b + 1] = P!MOVCCR(words) /\ BurstsAt(c, r, b + 1, 1) /\ c[b + 6] = P!MOVCCR(P!BurstLen)

LEMMA DregsLie ==
  ASSUME NEW r, r.fromDevice \in BOOLEAN, NEW words \in Nat
  PROVE  /\ Piece(P!Dregs(r, words), 6, 19)
         /\ \A c : \A b \in Nat : LiesAt(c, b, P!Dregs(r, words)) => DregsAt(c, r, b, words)
  <1> DEFINE body == P!Bursts(r, 1)
             first == P!MOVCCR(words)
             last == P!MOVCCR(P!BurstLen)
             fs == <<first>>
             ls == <<last>>
             x == fs \o body
  <1>1. P!Dregs(r, words) = x \o ls
    BY DEF P!Dregs
  <1>2. Piece(body, 4, 7) /\ \A c : \A b \in Nat : LiesAt(c, b, body) => BurstsAt(c, r, b, 1)
    <2> DEFINE one == 1
    <2>1. one \in Nat /\ 1 + 3 * one = 4 /\ 2 + 5 * one = 7
      OBVIOUS
    <2> HIDE DEF one
    <2>2. /\ P!Bursts(r, one) \in Seq(Insns) /\ Len(P!Bursts(r, one)) = 1 + 3 * one
          /\ P!Size(P!Bursts(r, one)) = 2 + 5 * one
          /\ \A c : \A b \in Nat : LiesAt(c, b, P!Bursts(r, one)) => BurstsAt(c, r, b, one)
      BY <2>1, BurstsLie
    <2>3. QED
      BY <2>1, <2>2 DEF Piece, one
  <1>3. first \in Insns /\ first.size = 6 /\ last \in Insns /\ last.size = 6
    BY ControlInsn DEF P!BurstLen
  <1> HIDE DEF body, first, last
  <1>4. /\ Piece(fs, 1, 6) /\ Piece(ls, 1, 6)
        /\ \A c : \A b \in Nat : (LiesAt(c, b, fs) => c[b + 1] = first) /\ (LiesAt(c, b, ls) => c[b + 1] = last)
    BY <1>3, OneInsn
  <1> HIDE DEF fs, ls
  <1>5. /\ Piece(x, 1 + 4, 6 + 7)
        /\ \A c : \A b \in Nat : LiesAt(c, b, x) => LiesAt(c, b, fs) /\ LiesAt(c, b + 1, body)
    BY <1>2, <1>4, TwoPieces
  <1>6. Piece(x, 5, 13)
    BY <1>5
  <1> HIDE DEF x
  <1>7. /\ Piece(x \o ls, 5 + 1, 13 + 6)
        /\ \A c : \A b \in Nat : LiesAt(c, b, x \o ls) => LiesAt(c, b, x) /\ LiesAt(c, b + 5, ls)
    BY <1>4, <1>6, TwoPieces
  <1>8. ASSUME NEW c, NEW b \in Nat, LiesAt(c, b, x \o ls) PROVE DregsAt(c, r, b, words)
    <2>1. LiesAt(c, b, x) /\ LiesAt(c, b + 5, ls)
      BY <1>7, <1>8
    <2>2. c[b + 1] = first /\ LiesAt(c, b + 1, body)
      BY <1>4, <1>5, <2>1
    <2>3. BurstsAt(c, r, b + 1, 1)
      BY <1>2, <2>2
    <2>4. c[b + 5 + 1] = last
      BY <1>4, <2>1
    <2>5. b + 5 + 1 = b + 6
      OBVIOUS
    <2>6. QED
      BY <2>2, <2>3, <2>4, <2>5 DEF DregsAt, first, last
  <1>9. QED
    BY <1>1, <1>7, <1>8

\* The way back from the end of a loop of bursts.
LEMMA LoopBytes ==
  ASSUME NEW r, r.fromDevice \in BOOLEAN, NEW count \in Nat, NEW cyc \in Nat, NEW c \in Seq(Insns), NEW b \in Nat,
         b + (3 * cyc + 3) <= Len(c), LiesAt(c, b, P!BurstLoop(r, count, cyc))
  PROVE  P!Bytes(c, b + (3 * cyc + 2)) = P!Bytes(c, b + 1) + (2 + 5 * cyc)
  <1> DEFINE body == P!Bursts(r, cyc)
             fs == <<P!LP(1, count)>>
             ls == <<P!LPEND(1, P!Size(body))>>
             n == 1 + 3 * cyc
             z == 2 + 5 * cyc
             x == fs \o body
  <1>1. P!BurstLoop(r, count, cyc) = x \o ls
    BY DEF P!BurstLoop
  <1>2. body \in Seq(Insns) /\ Len(body) = n /\ P!Size(body) = z /\ n \in Nat /\ z \in Nat
    BY BurstsLie
  <1>3. fs \in Seq(Insns) /\ Len(fs) = 1 /\ ls \in Seq(Insns)
    <2>1. 1 \in 0 .. 1 /\ count \in Int
      OBVIOUS
    <2>2. P!LP(1, count) \in Insns /\ P!LPEND(1, z) \in Insns
      BY <1>2, <2>1, LoopInsns
    <2>3. QED
      BY <1>2, <2>2, SizeOne
  <1> HIDE DEF body, fs, ls, n, z
  <1>4. x \in Seq(Insns) /\ LiesAt(c, b, x)
    <2>1. x \in Seq(Insns)
      BY <1>2, <1>3, ConcatProperties
    <2> HIDE DEF x
    <2>2. QED
      BY <1>1, <1>3, <2>1, LiesInPieces
  <1>5. LiesAt(c, b + 1, body)
    BY <1>2, <1>3, <1>4, LiesInPieces
  <1>6. \A i \in 1 .. b + 1 : c[i].size \in Nat
    <2>1. \A i \in 1 .. b + 1 : i \in 1 .. Len(c)
      <3>1. Len(c) \in Nat
        BY LenProperties
      <3>2. b + 1 <= Len(c)
        BY <3>1
      <3>3. QED
        BY <3>1, <3>2
    <2>2. QED
      BY <2>1, ElementOfSeq, InsnSize
  <1>7. P!Bytes(c, (b + 1) + Len(body)) = P!Bytes(c, b + 1) + P!Size(body)
    <2> DEFINE a == b + 1
    <2>1. a \in Nat
      OBVIOUS
    <2> HIDE DEF a
    <2>2. P!Bytes(c, a + Len(body)) = P!Bytes(c, a) + P!Size(body)
      BY <1>2, <1>5, <1>6, <2>1, BytesLie DEF a
    <2>3. QED
      BY <2>2 DEF a
  <1>8. (b + 1) + n = b + (3 * cyc + 2)
    BY DEF n
  <1>9. QED
    BY <1>2, <1>7, <1>8 DEF z

-----------------------------------------------------------------------------
(* A period.                                                               *)

BurstsOf(r) == r.periodLen \div (P!BurstSize * P!BurstLen)
CycOf(r)    == IF BurstsOf(r) > 256 THEN BurstsOf(r) \div 256 ELSE 1
CountOf(r)  == IF BurstsOf(r) > 256 THEN 256 ELSE BurstsOf(r)
RestOf(r)   == BurstsOf(r) - CountOf(r) * CycOf(r)
WordsOf(r)  == (r.periodLen \div P!BurstSize) % P!BurstLen

PeriodOf(r) == P!Period(r, BurstsOf(r))

\* Where its parts are.
RestPlace(r)  == 3 * CycOf(r) + 3
DregsPlace(r) == RestPlace(r) + (IF RestOf(r) # 0 THEN 6 ELSE 0)
EventPlace(r) == DregsPlace(r) + (IF WordsOf(r) # 0 THEN 6 ELSE 0)
PeriodInsns(r) == EventPlace(r) + 1
PeriodBytes(r) == 6 + 5 * CycOf(r) + (IF RestOf(r) # 0 THEN 11 ELSE 0) + (IF WordsOf(r) # 0 THEN 19 ELSE 0) + 2

PeriodAt(c, r, b) ==
  /\ LiesAt(c, b, P!BurstLoop(r, CountOf(r), CycOf(r)))
  /\ RestOf(r) # 0 => LiesAt(c, b + RestPlace(r), P!BurstLoop(r, RestOf(r), 1))
  /\ WordsOf(r) # 0 => LiesAt(c, b + DregsPlace(r), P!Dregs(r, WordsOf(r)))
  /\ c[b + EventPlace(r) + 1] = EventInsn

LEMMA PeriodLies ==
  ASSUME NEW r, r.fromDevice \in BOOLEAN,
         CycOf(r) \in Nat, CountOf(r) \in Nat, RestOf(r) \in Nat, WordsOf(r) \in Nat
  PROVE  /\ Piece(PeriodOf(r), PeriodInsns(r), PeriodBytes(r))
         /\ \A c : \A b \in Nat : LiesAt(c, b, PeriodOf(r)) => PeriodAt(c, r, b)
  <1> DEFINE cyc == CycOf(r)
             rest == RestOf(r)
             words == WordsOf(r)
             q1 == P!BurstLoop(r, CountOf(r), cyc)
             q2 == IF rest # 0 THEN P!BurstLoop(r, rest, 1) ELSE <<>>
             q3 == IF words # 0 THEN P!Dregs(r, words) ELSE <<>>
             q4 == <<EventInsn>>
             x1 == 3 * cyc + 3
             x2 == IF rest # 0 THEN 6 ELSE 0
             x3 == IF words # 0 THEN 6 ELSE 0
             z1 == 6 + 5 * cyc
             z2 == IF rest # 0 THEN 11 ELSE 0
             z3 == IF words # 0 THEN 19 ELSE 0
  <1>1. PeriodOf(r) = ((q1 \o q2) \o q3) \o q4
    BY DEF PeriodOf, P!Period, CountOf, CycOf, RestOf, WordsOf, EventInsn
  <1>2. x1 \in Nat /\ x2 \in Nat /\ x3 \in Nat /\ z1 \in Nat /\ z2 \in Nat /\ z3 \in Nat
    OBVIOUS
  <1>3. Piece(q1, x1, z1)
    BY LoopLies
  <1>4. Piece(q2, x2, z2)
    <2>1. CASE rest # 0
      <3> DEFINE one == 1
      <3>1. one \in Nat /\ 3 * one + 3 = 6 /\ 6 + 5 * one = 11
        OBVIOUS
      <3> HIDE DEF one
      <3>2. Piece(P!BurstLoop(r, rest, one), 3 * one + 3, 6 + 5 * one)
        BY <3>1, LoopLies
      <3> HIDE DEF rest
      <3>3. QED
        BY <2>1, <3>1, <3>2 DEF one
    <2>2. CASE ~(rest # 0)
      <3> HIDE DEF rest
      <3>1. QED
        BY <2>2, NoInsn
    <2>3. QED
      BY <2>1, <2>2
  <1>5. Piece(q3, x3, z3)
    <2>1. Piece(P!Dregs(r, words), 6, 19)
      BY DregsLie
    <2> HIDE DEF words
    <2>2. CASE words # 0
      BY <2>1, <2>2
    <2>3. CASE ~(words # 0)
      BY <2>3, NoInsn
    <2>4. QED
      BY <2>2, <2>3
  <1>6. Piece(q4, 1, 2) /\ \A c : \A b \in Nat : LiesAt(c, b, q4) => c[b + 1] = EventInsn
    <2>1. "SEV" \in Ops
      BY DEF Ops
    <2>2. 2 \in 1 .. 6
      OBVIOUS
    <2>3. EventInsn \in Insns /\ EventInsn.size = 2
      BY <2>1, <2>2, PlainInsn DEF EventInsn
    <2>4. QED
      BY <2>3, OneInsn
  <1>7. /\ RestPlace(r) = x1 /\ DregsPlace(r) = x1 + x2 /\ EventPlace(r) = x1 + x2 + x3
        /\ PeriodInsns(r) = x1 + x2 + x3 + 1 /\ PeriodBytes(r) = z1 + z2 + z3 + 2
    BY DEF RestPlace, DregsPlace, EventPlace, PeriodInsns, PeriodBytes
  <1>8. /\ rest # 0 => q2 = P!BurstLoop(r, rest, 1)
        /\ words # 0 => q3 = P!Dregs(r, words)
    OBVIOUS
  <1> HIDE DEF q1, q2, q3, q4, x1, x2, x3, z1, z2, z3
  <1>9. /\ Piece(q1 \o q2, x1 + x2, z1 + z2)
        /\ \A c : \A b \in Nat : LiesAt(c, b, q1 \o q2) => LiesAt(c, b, q1) /\ LiesAt(c, b + x1, q2)
    BY <1>2, <1>3, <1>4, TwoPieces
  <1> DEFINE w == q1 \o q2
             n == x1 + x2
             z == z1 + z2
  <1>10. n \in Nat /\ z \in Nat /\ Piece(w, n, z)
    BY <1>2, <1>9
  <1> HIDE DEF w, n, z
  <1>11. /\ Piece(w \o q3, n + x3, z + z3)
         /\ \A c : \A b \in Nat : LiesAt(c, b, w \o q3) => LiesAt(c, b, w) /\ LiesAt(c, b + n, q3)
    BY <1>2, <1>5, <1>10, TwoPieces
  <1> DEFINE v == w \o q3
             m == n + x3
             y == z + z3
  <1>12. m \in Nat /\ y \in Nat /\ Piece(v, m, y)
    BY <1>2, <1>10, <1>11
  <1> HIDE DEF v, m, y
  <1>13. /\ Piece(v \o q4, m + 1, y + 2)
         /\ \A c : \A b \in Nat : LiesAt(c, b, v \o q4) => LiesAt(c, b, v) /\ LiesAt(c, b + m, q4)
    <2>1. 1 \in Nat /\ 2 \in Nat
      OBVIOUS
    <2>2. QED
      BY <1>6, <1>12, <2>1, TwoPieces
  <1>14. m + 1 = PeriodInsns(r) /\ y + 2 = PeriodBytes(r) /\ m = EventPlace(r) /\ n = DregsPlace(r)
    BY <1>7 DEF m, y, n, z
  <1>15. ASSUME NEW c, NEW b \in Nat, LiesAt(c, b, v \o q4) PROVE PeriodAt(c, r, b)
    <2>1. LiesAt(c, b, v) /\ LiesAt(c, b + m, q4)
      BY <1>13, <1>15
    <2>2. LiesAt(c, b, w) /\ LiesAt(c, b + n, q3)
      BY <1>11, <2>1 DEF v
    <2>3. LiesAt(c, b, q1) /\ LiesAt(c, b + x1, q2)
      BY <1>9, <2>2 DEF w
    <2>4. c[b + m + 1] = EventInsn
      <3>1. b + m \in Nat
        BY <1>12
      <3>2. QED
        BY <1>6, <2>1, <3>1
    <2>5. QED
      BY <1>7, <1>8, <1>14, <2>2, <2>3, <2>4 DEF PeriodAt, q1
  <1>16. QED
    BY <1>1, <1>13, <1>14, <1>15 DEF v, w

-----------------------------------------------------------------------------
(* The numbers of a program.                                               *)

InLoop(r) == P!Unroll(P!NumPeriods(r))
Turns(r)  == P!NumPeriods(r) \div InLoop(r)
Extra(r)   == P!NumPeriods(r) % InLoop(r)

LEMMA Unrolled ==
  ASSUME NEW n \in Nat \ {0}
  PROVE  P!Unroll(n) \in 1 .. n /\ n \div P!Unroll(n) <= 256
  <1> DEFINE E == {p \in 1 .. n : n \div p <= 256}
  <1>1. n \in E /\ E \subseteq Nat
    <2>1. n \div n = 1
      OBVIOUS
    <2>2. QED
      BY <2>1
  <1>2. PICK p \in E : \A q \in E : p <= q
    <2> HIDE DEF E
    <2>1. E # {}
      BY <1>1
    <2>2. QED
      BY <1>1, <2>1, LeastOf
  <1>3. /\ p \in 1 .. n /\ n \div p <= 256
        /\ \A q \in 1 .. p - 1 : n \div q > 256
    <2>1. p \in 1 .. n /\ n \div p <= 256
      OBVIOUS
    <2>2. ASSUME NEW q \in 1 .. p - 1 PROVE n \div q > 256
      <3>1. q \in 1 .. n /\ ~(p <= q)
        BY <2>1
      <3>2. q \notin E
        BY <1>2, <3>1
      <3>3. ~(n \div q <= 256)
        BY <3>1, <3>2
      <3>4. n \div q \in Int
        OBVIOUS
      <3> DEFINE d == n \div q
      <3> HIDE DEF d
      <3>5. d > 256
        BY <3>3, <3>4 DEF d
      <3>6. QED
        BY <3>5 DEF d
    <2>3. QED
      BY <2>1, <2>2
  <1> HIDE DEF E
  <1>4. QED
    BY <1>3, Zenon DEF P!Unroll

\* What the program moves before it starts over.
WholeLen(r) == P!NumPeriods(r) * P!WholeWords(r)

Sane(r) ==
  /\ r.fromDevice \in BOOLEAN
  /\ P!NumPeriods(r) \in Nat \ {0} /\ P!WholeWords(r) \in Nat /\ WholeLen(r) = P!NumPeriods(r) * P!WholeWords(r)
  /\ r.len \in Nat /\ WholeLen(r) <= r.len
  /\ InLoop(r) \in Nat \ {0} /\ Turns(r) \in 1 .. 256 /\ Extra(r) \in 0 .. InLoop(r) - 1
  /\ P!NumPeriods(r) = Turns(r) * InLoop(r) + Extra(r)
  /\ CycOf(r) \in Nat \ {0} /\ CountOf(r) \in 1 .. 256 /\ RestOf(r) \in 0 .. 255 /\ WordsOf(r) \in 0 .. 7
  /\ P!WholeWords(r) = 32 * (CountOf(r) * CycOf(r) + RestOf(r)) + 4 * WordsOf(r)
  /\ PeriodBytes(r) \in Nat \ {0} /\ P!Size(P!LoopCyclic(r)) <= 257

LEMMA AtLeastOnce ==
  ASSUME NEW n \in Nat, NEW p \in 1 .. n
  PROVE  1 <= n \div p
  <1>1. n = (n \div p) * p + (n % p) /\ n % p \in 0 .. p - 1 /\ n \div p \in Int
    OBVIOUS
  <1> DEFINE d == n \div p
             m == n % p
  <1> HIDE DEF d, m
  <1>2. n = d * p + m /\ m \in 0 .. p - 1 /\ d \in Int
    BY <1>1 DEF d, m
  <1>3. ASSUME d <= 0 PROVE FALSE
    <2>1. d * p <= 0 * p /\ 0 * p = 0
      BY <1>2, <1>3
    <2>2. d * p \in Int
      BY <1>2
    <2>3. QED
      BY <1>2, <2>1, <2>2
  <1>4. QED
    BY <1>2, <1>3 DEF d

LEMMA WholePeriods ==
  ASSUME NEW len \in Nat, NEW w \in Nat \ {0}, w <= len, len % w = 0
  PROVE  len \div w \in Nat \ {0} /\ len = (len \div w) * w
  <1>1. len = (len \div w) * w + (len % w) /\ len \div w \in Int
    OBVIOUS
  <1>2. 1 <= len \div w
    BY AtLeastOnce
  <1> DEFINE d == len \div w
  <1> HIDE DEF d
  <1>3. d \in Int /\ 1 <= d /\ len = d * w + 0 /\ d * w \in Int
    BY <1>1, <1>2 DEF d
  <1>4. d \in Nat \ {0} /\ len = d * w
    BY <1>3
  <1>5. QED
    BY <1>4 DEF d

LEMMA Divided ==
  ASSUME NEW n \in Nat, NEW p \in Nat \ {0}
  PROVE  n = (n \div p) * p + (n % p) /\ n % p \in 0 .. p - 1 /\ n \div p \in Nat
  <1> DEFINE d == n \div p
             m == n % p
  <1>1. n = d * p + m /\ m \in 0 .. p - 1 /\ d \in Int
    OBVIOUS
  <1>5. d = n \div p /\ m = n % p
    OBVIOUS
  <1> HIDE DEF d, m
  <1>2. d >= 0
    <2> SUFFICES ASSUME d <= 0 - 1 PROVE FALSE
      BY <1>1
    <2>1. d * p <= (0 - 1) * p /\ d * p \in Int /\ (0 - 1) * p = 0 - p
      BY <1>1
    <2>2. QED
      BY <1>1, <2>1
  <1>3. d \in Nat
    BY <1>1, <1>2
  <1>4. QED
    BY <1>1, <1>3, <1>5

\* Bursts of eight words, and the words that are left.
LEMMA WordsLeft ==
  ASSUME NEW w \in Nat
  PROVE  (w \div 4) % 8 \in 0 .. 7 /\ w - (w % 4) = 32 * (w \div 32) + 4 * ((w \div 4) % 8)
  <1> DEFINE x == w \div 4
             u == x \div 8
             v == x % 8
             a == w \div 32
             b == w % 32
             c == w % 4
  <1>1. w = x * 4 + c /\ c \in 0 .. 4 - 1 /\ x \in Nat
    BY Divided
  <1>2. w = a * 32 + b /\ b \in 0 .. 32 - 1 /\ a \in Nat
    BY Divided
  <1>3. x = u * 8 + v /\ v \in 0 .. 8 - 1 /\ u \in Nat
    BY <1>1, Divided
  <1>4. v = (w \div 4) % 8 /\ a = w \div 32 /\ c = w % 4
    OBVIOUS
  <1> HIDE DEF x, u, v, a, b, c
  <1>5. u = a
    BY <1>1, <1>2, <1>3
  <1>6. v \in 0 .. 7 /\ w - c = 32 * a + 4 * v
    BY <1>1, <1>3, <1>5
  <1>7. QED
    BY <1>4, <1>6

LEMMA Numbers ==
  ASSUME P!RequestsAssumption, NEW r \in DmaRequests
  PROVE  Sane(r)
  <1> DEFINE n == P!NumPeriods(r)
             W == r.periodLen
             V == P!WholeWords(r)
             p == InLoop(r)
             T == Extra(r)
             N == Turns(r)
             b == BurstsOf(r)
             cyc == CycOf(r)
             z == PeriodBytes(r)
  <1>1. /\ r.fromDevice \in BOOLEAN /\ r.len \in Nat /\ W \in P!BurstSize * P!BurstLen .. r.len
        /\ r.len % W = 0
    BY DEF P!RequestsAssumption
  <1>2. P!Size(P!LoopCyclic(r)) <= 257
    <2>1. P!Size(P!LoopCyclic(r)) <= 255 + 2
      BY Zenon DEF P!RequestsAssumption
    <2>2. QED
      BY <2>1
  <1>3. W \in Nat /\ W >= 32 /\ W <= r.len
    BY <1>1 DEF P!BurstSize, P!BurstLen
  <1>13. V \in Nat /\ V = W - (W % 4) /\ V <= W
    <2>1. V = W - (W % 4)
      BY DEF P!WholeWords, P!BurstSize
    <2> HIDE DEF W, V
    <2>2. W % 4 \in 0 .. 3
      BY <1>3
    <2>3. QED
      BY <1>3, <2>1, <2>2
  <1>4. n \in Nat \ {0} /\ r.len = n * W
    <2>1. r.len \in Nat /\ W \in Nat \ {0} /\ W <= r.len /\ r.len % W = 0
      BY <1>1, <1>3
    <2>2. n = r.len \div W
      BY DEF P!NumPeriods
    <2> HIDE DEF n, W
    <2>3. QED
      BY <2>1, <2>2, WholePeriods
  <1>5. p \in 1 .. n /\ n \div p <= 256
    BY <1>4, Unrolled DEF InLoop
  <1>6. p \in Nat \ {0} /\ N \in 1 .. 256 /\ T \in 0 .. p - 1 /\ n = N * p + T
    <2>1. N = n \div p /\ T = n % p
      BY DEF Turns, Extra
    <2> HIDE DEF n, p, N, T
    <2>2. n \div p \in Nat /\ n % p \in 0 .. p - 1 /\ n = (n \div p) * p + (n % p) /\ p \in Nat \ {0}
      BY <1>4, <1>5
    <2>3. n \div p # 0
      <3>1. 1 <= n \div p
        BY <1>4, <1>5, AtLeastOnce
      <3>2. QED
        BY <2>2, <3>1
    <2> DEFINE d == n \div p
               m == n % p
    <2>4. d \in Nat /\ d # 0 /\ d <= 256 /\ m \in 0 .. p - 1 /\ n = d * p + m /\ N = d /\ T = m
      BY <1>5, <2>1, <2>2, <2>3
    <2> HIDE DEF d, m
    <2>5. N \in 1 .. 256
      BY <2>4
    <2>6. QED
      BY <2>2, <2>4, <2>5
  <1>7. b = W \div 32 /\ b \in Nat \ {0}
    <2>1. b = W \div 32
      BY DEF BurstsOf, P!BurstSize, P!BurstLen
    <2> HIDE DEF W
    <2>2. W \div 32 \in Nat \ {0}
      BY <1>3
    <2>3. QED
      BY <2>1, <2>2
  <1>8. cyc \in Nat \ {0} /\ CountOf(r) \in 1 .. 256 /\ RestOf(r) \in 0 .. 255
        /\ CountOf(r) * cyc + RestOf(r) = b
    <2>1. CASE b > 256
      <3>1. cyc = b \div 256 /\ CountOf(r) = 256 /\ RestOf(r) = b - 256 * cyc
        BY <2>1 DEF CycOf, CountOf, RestOf
      <3> HIDE DEF b
      <3>2. b \div 256 \in Nat \ {0} /\ b - 256 * (b \div 256) \in 0 .. 255
        BY <1>7, <2>1
      <3> HIDE DEF cyc
      <3>3. cyc \in Nat \ {0} /\ RestOf(r) \in 0 .. 255
        BY <3>1, <3>2
      <3>4. 256 * cyc + RestOf(r) = b
        BY <1>7, <3>1, <3>3
      <3>5. QED
        BY <3>1, <3>3, <3>4
    <2>2. CASE ~(b > 256)
      <3>1. cyc = 1 /\ CountOf(r) = b /\ RestOf(r) = b - b * 1
        BY <2>2 DEF CycOf, CountOf, RestOf
      <3> HIDE DEF b, cyc
      <3>2. QED
        BY <1>7, <2>2, <3>1
    <2>3. QED
      BY <2>1, <2>2
  <1>9. WordsOf(r) \in 0 .. 7 /\ V = 32 * b + 4 * WordsOf(r)
    <2>1. WordsOf(r) = (W \div 4) % 8
      BY DEF WordsOf, P!BurstSize, P!BurstLen
    <2> HIDE DEF W, V
    <2>6. (W \div 4) % 8 \in 0 .. 7 /\ W - (W % 4) = 32 * (W \div 32) + 4 * ((W \div 4) % 8)
      BY <1>3, WordsLeft
    <2>3. QED
      BY <1>7, <1>13, <2>1, <2>6
  <1>10. z \in Nat \ {0}
    BY <1>8 DEF PeriodBytes
  <1>11. P!WholeWords(r) = 32 * (CountOf(r) * CycOf(r) + RestOf(r)) + 4 * WordsOf(r)
    BY <1>8, <1>9
  <1>12. WholeLen(r) = n * V /\ WholeLen(r) <= r.len
    <2>1. WholeLen(r) = n * V
      BY DEF WholeLen
    <2> HIDE DEF n, V, W
    <2>2. n * V <= n * W
      BY <1>3, <1>4, <1>13, OneMore
    <2>3. QED
      BY <1>4, <2>1, <2>2
  <1>14. QED
    BY <1>1, <1>2, <1>4, <1>6, <1>8, <1>9, <1>10, <1>11, <1>12, <1>13 DEF Sane

-----------------------------------------------------------------------------
(* A program.                                                              *)

LoopPlace(r) == 4 + InLoop(r) * PeriodInsns(r)
TailPlace(r) == LoopPlace(r) + 1
LastPlace(r) == TailPlace(r) + Extra(r) * PeriodInsns(r)

\* An instruction behind place b that jumps back to the one behind place a.
Back(c, a, b, z) == z \in 0 .. 255 /\ P!Bytes(c, b) = P!Bytes(c, a) + z

Layout(c, r) ==
  /\ c \in Seq(Insns) /\ Len(c) = LastPlace(r) + 1 /\ P!Size(c) <= P!MCBufSz /\ 2 + 5 * CycOf(r) <= 255
  /\ c[1] = P!MOVCCR(P!BurstLen) /\ c[2] = P!Plain("SAR", 6) /\ c[3] = P!Plain("DAR", 6)
  /\ c[4] = P!LP(0, Turns(r))
  /\ \A k \in 0 .. InLoop(r) - 1 : LiesAt(c, 4 + k * PeriodInsns(r), PeriodOf(r))
  /\ \E z : c[LoopPlace(r) + 1] = P!LPEND(0, z) /\ Back(c, 4, LoopPlace(r), z)
  /\ \A k \in 0 .. Extra(r) - 1 : LiesAt(c, TailPlace(r) + k * PeriodInsns(r), PeriodOf(r))
  /\ \E z : c[LastPlace(r) + 1] = P!LPFE(z) /\ Back(c, 1, LastPlace(r), z)

LEMMA SaneTypes ==
  ASSUME NEW r, Sane(r)
  PROVE  /\ r.fromDevice \in BOOLEAN /\ CycOf(r) \in Nat /\ CountOf(r) \in Nat /\ RestOf(r) \in Nat /\ WordsOf(r) \in Nat
         /\ InLoop(r) \in Nat /\ Extra(r) \in Nat /\ Turns(r) \in Nat /\ PeriodBytes(r) \in Nat
         /\ RestPlace(r) \in Nat /\ DregsPlace(r) \in Nat /\ EventPlace(r) \in Nat /\ PeriodInsns(r) \in Nat
         /\ RestPlace(r) <= DregsPlace(r) /\ DregsPlace(r) <= EventPlace(r) /\ PeriodInsns(r) = EventPlace(r) + 1
         /\ LoopPlace(r) \in Nat /\ TailPlace(r) \in Nat /\ LastPlace(r) \in Nat
  <1>1. /\ CycOf(r) \in Nat /\ CountOf(r) \in Nat /\ RestOf(r) \in Nat /\ WordsOf(r) \in Nat
        /\ InLoop(r) \in Nat /\ Extra(r) \in Nat /\ Turns(r) \in Nat /\ PeriodBytes(r) \in Nat
    BY DEF Sane
  <1>2. /\ RestPlace(r) \in Nat /\ DregsPlace(r) \in Nat /\ EventPlace(r) \in Nat /\ PeriodInsns(r) \in Nat
        /\ RestPlace(r) <= DregsPlace(r) /\ DregsPlace(r) <= EventPlace(r) /\ PeriodInsns(r) = EventPlace(r) + 1
    BY <1>1 DEF RestPlace, DregsPlace, EventPlace, PeriodInsns
  <1>3. LoopPlace(r) \in Nat /\ TailPlace(r) \in Nat /\ LastPlace(r) \in Nat
    <2> DEFINE L == PeriodInsns(r)
               p == InLoop(r)
               t == Extra(r)
    <2>1. L \in Nat /\ p \in Nat /\ t \in Nat
      BY <1>1, <1>2
    <2>2. LoopPlace(r) = 4 + p * L /\ TailPlace(r) = 4 + p * L + 1 /\ LastPlace(r) = 4 + p * L + 1 + t * L
      BY DEF LoopPlace, TailPlace, LastPlace
    <2> HIDE DEF L, p, t
    <2>3. p * L \in Nat /\ t * L \in Nat
      BY <2>1
    <2>4. QED
      BY <2>2, <2>3
  <1>4. QED
    BY <1>1, <1>2, <1>3 DEF Sane

LEMMA ProgramLies ==
  ASSUME NEW r, Sane(r)
  PROVE  Layout(P!Program(r), r)
  <1> DEFINE L == PeriodInsns(r)
             Z == PeriodBytes(r)
             p == InLoop(r)
             t == Extra(r)
             per == PeriodOf(r)
             body == P!Repeat(per, p)
             tail == P!Repeat(per, t)
             h == <<P!Plain("SAR", 6), P!Plain("DAR", 6), P!LP(0, Turns(r))>>
             e == <<P!LPEND(0, P!Size(body))>>
             u1 == h \o body
             u2 == u1 \o e
             all == u2 \o tail
             last == <<P!LPFE(P!Size(all))>>
             lcy == all \o last
             first == <<P!MOVCCR(P!BurstLen)>>
             c == first \o lcy
  <1>1. P!Program(r) = c
    BY DEF P!Program, P!LoopCyclic, PeriodOf, BurstsOf, InLoop, Turns, Extra
  <1>2. L \in Nat /\ Z \in Nat /\ p \in Nat \ {0} /\ t \in Nat /\ Turns(r) \in Nat
    BY SaneTypes DEF Sane
  <1>3. Piece(per, L, Z)
    BY SaneTypes, PeriodLies
  <1> HIDE DEF per, L, Z, p, t
  <1>4. p * L \in Nat /\ t * L \in Nat /\ p * Z \in Nat /\ t * Z \in Nat
    BY <1>2
  <1>5. Repeats(per, p) /\ Repeats(per, t) /\ Len(per) = L /\ P!Size(per) = Z
    BY <1>2, <1>3, Repeated DEF Piece
  <1>6. Piece(body, p * L, p * Z) /\ Piece(tail, t * L, t * Z)
    BY <1>5 DEF Repeats, Piece
  <1>7. /\ \A d : \A b \in Nat : LiesAt(d, b, body) => \A k \in 0 .. p - 1 : LiesAt(d, b + k * L, per)
        /\ \A d : \A b \in Nat : LiesAt(d, b, tail) => \A k \in 0 .. t - 1 : LiesAt(d, b + k * L, per)
    BY <1>5 DEF Repeats
  <1>8. /\ Piece(h, 3, 14)
        /\ \A d : \A b \in Nat : LiesAt(d, b, h) =>
             d[b + 1] = P!Plain("SAR", 6) /\ d[b + 2] = P!Plain("DAR", 6) /\ d[b + 3] = P!LP(0, Turns(r))
    <2>1. "SAR" \in Ops /\ "DAR" \in Ops
      BY DEF Ops
    <2>2. 6 \in 1 .. 6 /\ 0 \in 0 .. 1 /\ Turns(r) \in Int
      BY <1>2
    <2> DEFINE x == P!Plain("SAR", 6)
               y == P!Plain("DAR", 6)
               w == P!LP(0, Turns(r))
    <2>3. x \in Insns /\ x.size = 6 /\ y \in Insns /\ y.size = 6
      BY <2>1, <2>2, PlainInsn
    <2>4. w \in Insns /\ w.size = 2
      BY <2>2, LoopInsns
    <2> HIDE DEF x, y, w
    <2>5. /\ Piece(<<x, y, w>>, 3, x.size + y.size + w.size)
          /\ \A d : \A b \in Nat : LiesAt(d, b, <<x, y, w>>) => d[b + 1] = x /\ d[b + 2] = y /\ d[b + 3] = w
      BY <2>3, <2>4, ThreeInsns
    <2>6. x.size + y.size + w.size = 14
      BY <2>3, <2>4
    <2>7. QED
      BY <2>5, <2>6 DEF x, y, w
  <1>9. /\ Piece(e, 1, 2) /\ P!Size(body) = p * Z
        /\ \A d : \A b \in Nat : LiesAt(d, b, e) => d[b + 1] = P!LPEND(0, p * Z)
    <2>1. P!Size(body) = p * Z
      BY <1>6 DEF Piece
    <2> HIDE DEF body
    <2>2. 0 \in 0 .. 1 /\ p * Z \in Int
      BY <1>4
    <2>3. P!LPEND(0, p * Z) \in Insns /\ P!LPEND(0, p * Z).size = 2
      BY <2>2, LoopInsns
    <2>4. QED
      BY <2>1, <2>3, OneInsn
  <1> HIDE DEF h, e, body, tail
  <1> DEFINE n1 == 3 + p * L
             n2 == n1 + 1
             n3 == n2 + t * L
             z1 == 14 + p * Z
             z2 == z1 + 2
             z3 == z2 + t * Z
  <1>10. /\ n1 \in Nat /\ n2 \in Nat /\ n3 \in Nat /\ z1 \in Nat /\ z2 \in Nat /\ z3 \in Nat
    BY <1>4
  <1>11. /\ Piece(u1, n1, z1)
         /\ \A d : \A b \in Nat : LiesAt(d, b, u1) => LiesAt(d, b, h) /\ LiesAt(d, b + 3, body)
    <2>1. 3 \in Nat /\ 14 \in Nat
      OBVIOUS
    <2>2. QED
      BY <1>4, <1>6, <1>8, <2>1, TwoPieces
  <1> HIDE DEF u1, n1, z1
  <1>12. /\ Piece(u2, n2, z2)
         /\ \A d : \A b \in Nat : LiesAt(d, b, u2) => LiesAt(d, b, u1) /\ LiesAt(d, b + n1, e)
    <2>1. 1 \in Nat /\ 2 \in Nat
      OBVIOUS
    <2>2. QED
      BY <1>9, <1>10, <1>11, <2>1, TwoPieces
  <1> HIDE DEF u2, n2, z2
  <1>13. /\ Piece(all, n3, z3)
         /\ \A d : \A b \in Nat : LiesAt(d, b, all) => LiesAt(d, b, u2) /\ LiesAt(d, b + n2, tail)
    BY <1>4, <1>6, <1>10, <1>12, TwoPieces
  <1>14. n1 = 3 + p * L /\ n2 = p * L + 4 /\ n3 = p * L + 4 + t * L /\ z3 = 16 + p * Z + t * Z
    BY <1>4 DEF n1, n2, z1, z2
  <1> HIDE DEF all, n3, z3
  <1>15. /\ Piece(last, 1, 2)
         /\ \A d : \A b \in Nat : LiesAt(d, b, last) => d[b + 1] = P!LPFE(z3)
    <2>1. P!Size(all) = z3
      BY <1>13 DEF Piece
    <2>2. 0 \in 0 .. 1 /\ z3 \in Int
      BY <1>10
    <2>3. P!LPFE(z3) \in Insns /\ P!LPFE(z3).size = 2
      BY <2>2, LoopInsns
    <2>4. QED
      BY <2>1, <2>3, OneInsn
  <1>16. /\ Piece(first, 1, 6)
         /\ \A d : \A b \in Nat : LiesAt(d, b, first) => d[b + 1] = P!MOVCCR(P!BurstLen)
    <2>1. P!BurstLen \in Nat
      BY DEF P!BurstLen
    <2>2. P!MOVCCR(P!BurstLen) \in Insns /\ P!MOVCCR(P!BurstLen).size = 6
      BY <2>1, ControlInsn
    <2>3. QED
      BY <2>2, OneInsn
  <1> HIDE DEF last, first
  <1>17. /\ Piece(lcy, n3 + 1, z3 + 2)
         /\ \A d : \A b \in Nat : LiesAt(d, b, lcy) => LiesAt(d, b, all) /\ LiesAt(d, b + n3, last)
    <2>1. 1 \in Nat /\ 2 \in Nat
      OBVIOUS
    <2>2. QED
      BY <1>10, <1>13, <1>15, <2>1, TwoPieces
  <1>18. z3 \in 0 .. 255 /\ p * Z \in 0 .. 255 /\ 2 + 5 * CycOf(r) <= 255
    <2>1. P!LoopCyclic(r) = lcy
      BY DEF P!LoopCyclic, PeriodOf, BurstsOf, InLoop, Turns, Extra, lcy, last, all, u2, u1, h, e, body, tail, per, p, t
    <2>2. z3 + 2 <= 257
      BY <1>17, <2>1 DEF Sane, Piece
    <2> DEFINE x == p * Z
               y == t * Z
    <2>3. x \in Nat /\ y \in Nat /\ z3 = 16 + x + y
      BY <1>4, <1>14
    <2>4. Z <= x
      BY <1>2
    <2>5. 8 + 5 * CycOf(r) <= Z /\ CycOf(r) \in Nat
      BY SaneTypes DEF Z, PeriodBytes
    <2> HIDE DEF x, y
    <2>6. z3 \in 0 .. 255 /\ x \in 0 .. 255
      BY <2>2, <2>3
    <2>7. QED
      BY <1>2, <2>4, <2>5, <2>6 DEF x
  <1> HIDE DEF lcy
  <1>19. /\ Piece(c, 1 + (n3 + 1), 6 + (z3 + 2))
         /\ \A d : \A b \in Nat : LiesAt(d, b, c) => LiesAt(d, b, first) /\ LiesAt(d, b + 1, lcy)
    <2>1. 1 \in Nat /\ 6 \in Nat /\ n3 + 1 \in Nat /\ z3 + 2 \in Nat
      BY <1>10
    <2>2. QED
      BY <1>16, <1>17, <2>1, TwoPieces
  <1> HIDE DEF c
  <1>20. c \in Seq(Insns) /\ Len(c) = 1 + (n3 + 1) /\ P!Size(c) = 6 + (z3 + 2)
    BY <1>19 DEF Piece
  <1>21. LiesAt(c, 0, first) /\ LiesAt(c, 1, all) /\ LiesAt(c, 1 + n3, last)
    <2>1. LiesAt(c, 0, c)
      BY DEF LiesAt
    <2>2. LiesAt(c, 0, first) /\ LiesAt(c, 0 + 1, lcy) /\ 0 + 1 = 1
      BY <1>19, <2>1
    <2>3. QED
      BY <1>17, <2>2
  <1>22. /\ LiesAt(c, 1, h) /\ LiesAt(c, 4, body) /\ LiesAt(c, 4 + p * L, e) /\ LiesAt(c, 5 + p * L, tail)
    <2>1. LiesAt(c, 1, u2) /\ LiesAt(c, 1 + n2, tail)
      BY <1>13, <1>21
    <2>2. LiesAt(c, 1, u1) /\ LiesAt(c, 1 + n1, e)
      BY <1>12, <2>1
    <2>3. LiesAt(c, 1, h) /\ LiesAt(c, 1 + 3, body)
      BY <1>11, <2>2
    <2>4. 1 + 3 = 4 /\ 1 + n1 = 4 + p * L /\ 1 + n2 = 5 + p * L
      BY <1>4, <1>14
    <2>5. QED
      BY <2>1, <2>2, <2>3, <2>4
  <1>23. LoopPlace(r) = 4 + p * L /\ TailPlace(r) = 5 + p * L /\ LastPlace(r) = 1 + n3
    <2>1. LoopPlace(r) = 4 + p * L /\ TailPlace(r) = 4 + p * L + 1 /\ LastPlace(r) = 4 + p * L + 1 + t * L
      BY DEF LoopPlace, TailPlace, LastPlace, p, t, L
    <2>2. QED
      BY <1>4, <1>14, <2>1
  <1>24. c[1] = P!MOVCCR(P!BurstLen) /\ c[2] = P!Plain("SAR", 6) /\ c[3] = P!Plain("DAR", 6) /\ c[4] = P!LP(0, Turns(r))
    <2>1. c[0 + 1] = P!MOVCCR(P!BurstLen)
      BY <1>16, <1>21
    <2>2. c[1 + 1] = P!Plain("SAR", 6) /\ c[1 + 2] = P!Plain("DAR", 6) /\ c[1 + 3] = P!LP(0, Turns(r))
      BY <1>8, <1>22
    <2>3. QED
      BY <2>1, <2>2
  <1>25. c[LoopPlace(r) + 1] = P!LPEND(0, p * Z) /\ c[LastPlace(r) + 1] = P!LPFE(z3)
    <2>1. LoopPlace(r) \in Nat /\ LastPlace(r) \in Nat
      BY SaneTypes
    <2>2. QED
      BY <1>9, <1>15, <1>21, <1>22, <1>23, <2>1
  <1>26. ASSUME NEW n \in 0 .. Len(c) PROVE \A i \in 1 .. n : c[i].size \in Nat
    <2>1. Len(c) \in Nat
      BY <1>20, LenProperties
    <2>2. \A i \in 1 .. n : i \in 1 .. Len(c)
      BY <1>26, <2>1
    <2>3. QED
      BY <1>20, <2>2, ElementOfSeq, InsnSize
  <1>27. 4 \in 0 .. Len(c) /\ 1 \in 0 .. Len(c)
    <2> DEFINE x == p * L
               y == t * L
    <2>1. x \in Nat /\ y \in Nat /\ n3 = x + 4 + y
      BY <1>4, <1>14
    <2> HIDE DEF x, y
    <2>2. n3 \in Nat /\ 4 <= n3
      BY <2>1
    <2>3. Len(c) = n3 + 2
      BY <1>20, <2>2
    <2>4. QED
      BY <2>2, <2>3
  <1>28. Back(c, 4, LoopPlace(r), p * Z)
    <2>1. 4 \in Nat /\ 4 \in 0 .. Len(c)
      BY <1>27
    <2>2. P!Bytes(c, 4 + Len(body)) = P!Bytes(c, 4) + P!Size(body)
      BY <1>6, <1>22, <1>26, <2>1, BytesLie DEF Piece
    <2>3. QED
      BY <1>6, <1>23, <1>18, <2>2 DEF Piece, Back
  <1>29. Back(c, 1, LastPlace(r), z3)
    <2>1. 1 \in Nat /\ 1 \in 0 .. Len(c)
      BY <1>27
    <2>2. P!Bytes(c, 1 + Len(all)) = P!Bytes(c, 1) + P!Size(all)
      BY <1>13, <1>21, <1>26, <2>1, BytesLie DEF Piece
    <2>3. QED
      BY <1>13, <1>23, <1>18, <2>2 DEF Piece, Back
  <1>30. \A k \in 0 .. p - 1 : LiesAt(c, 4 + k * L, per)
    BY <1>7, <1>22
  <1>31. \A k \in 0 .. t - 1 : LiesAt(c, TailPlace(r) + k * L, per)
    <2>1. 5 + p * L \in Nat
      BY <1>4
    <2>2. QED
      BY <1>7, <1>22, <1>23, <2>1
  <1>32. c \in Seq(Insns) /\ Len(c) = LastPlace(r) + 1 /\ P!Size(c) <= P!MCBufSz
    <2>1. 1 + (n3 + 1) = LastPlace(r) + 1
      BY <1>10, <1>23
    <2>2. 6 + (z3 + 2) <= 512
      BY <1>18
    <2>3. QED
      BY <1>20, <2>1, <2>2 DEF P!MCBufSz
  <1>33. QED
    BY <1>1, <1>24, <1>25, <1>28, <1>29, <1>30, <1>31, <1>32, <1>18 DEF Layout, per, p, t, L

-----------------------------------------------------------------------------
(* The instructions that the channel executes.                             *)

LEMMA BytesGrow ==
  ASSUME NEW c \in Seq(Insns), NEW a \in 0 .. Len(c), NEW b \in 0 .. Len(c), a < b
  PROVE  P!Bytes(c, a) \in Int /\ P!Bytes(c, b) \in Int /\ P!Bytes(c, a) < P!Bytes(c, b)
  <1> DEFINE m == Len(c)
  <1>1. m \in Nat /\ \A i \in 1 .. m : c[i].size \in Nat /\ c[i].size >= 1
    <2>1. \A i \in 1 .. m : c[i].size \in 1 .. 6
      BY ElementOfSeq, InsnSize
    <2>2. QED
      BY <2>1, LenProperties
  <1> HIDE DEF m
  <1>2. PICK f \in [0 .. m -> Nat] :
          /\ f[0] = 0 /\ \A i \in 1 .. m : f[i] = f[i - 1] + c[i].size
          /\ \A k \in 0 .. m : P!Bytes(c, k) = f[k]
    BY <1>1, BytesStepwise
  <1>3. a \in 0 .. m /\ b \in 0 .. m
    BY DEF m
  <1> DEFINE Shown == {k \in Nat : a + 1 + k <= m => f[a] < f[a + 1 + k]}
  <1>4. 0 \in Shown
    <2> SUFFICES ASSUME a + 1 + 0 <= m PROVE f[a] < f[a + 1 + 0]
      OBVIOUS
    <2>1. a + 1 \in 1 .. m /\ a + 1 + 0 = a + 1 /\ a + 1 - 1 = a
      BY <1>1, <1>3
    <2> DEFINE b1 == a + 1
    <2>2. b1 \in 1 .. m /\ b1 - 1 = a /\ a + 1 + 0 = b1
      BY <2>1
    <2> HIDE DEF b1
    <2>3. f[b1] = f[b1 - 1] + c[b1].size /\ c[b1].size >= 1 /\ c[b1].size \in Nat
      BY <1>1, <1>2, <2>2
    <2>4. f[a] \in Nat
      BY <1>2, <1>3
    <2>5. f[a] < f[b1]
      BY <2>2, <2>3, <2>4
    <2>6. QED
      BY <2>2, <2>5
  <1>5. ASSUME NEW k \in Nat, k \in Shown PROVE k + 1 \in Shown
    <2> SUFFICES ASSUME a + 1 + (k + 1) <= m PROVE f[a] < f[a + 1 + (k + 1)]
      OBVIOUS
    <2> DEFINE i == a + 1 + (k + 1)
               h == a + 1 + k
    <2>1. i \in 1 .. m /\ i - 1 = h /\ h \in 0 .. m /\ h <= m
      BY <1>1, <1>3
    <2>2. f[a] < f[h]
      BY <1>5, <2>1
    <2> HIDE DEF i, h
    <2>3. f[i] = f[h] + c[i].size /\ c[i].size \in Nat /\ f[h] \in Nat /\ f[a] \in Nat
      BY <1>1, <1>2, <1>3, <2>1
    <2>4. f[a] < f[i]
      BY <2>2, <2>3
    <2>5. QED
      BY <2>4 DEF i
  <1>6. b - a - 1 \in Shown
    <2>1. b - a - 1 \in Nat
      BY <1>1, <1>3
    <2> HIDE DEF Shown
    <2>2. QED
      BY <1>4, <1>5, <2>1, UpFromZero
  <1>7. a + 1 + (b - a - 1) = b /\ b <= m
    BY <1>1, <1>3
  <1>8. f[a] < f[b] /\ f[a] \in Nat /\ f[b] \in Nat
    BY <1>2, <1>3, <1>6, <1>7
  <1>9. QED
    BY <1>2, <1>3, <1>8

\* A jump that goes back as far as the program says lands.
LEMMA Landing ==
  ASSUME code \in Seq(Insns), NEW a \in Nat, NEW b \in Nat, a <= b, b + 1 <= Len(code), NEW z, Back(code, a, b, z)
  PROVE  P!Target(b + 1, z % 256) = a + 1
  <1> DEFINE at == {j \in 1 .. b + 1 : P!Offset(j) = P!Offset(b + 1) - z}
  <1>1. z \in Nat /\ z % 256 = z /\ P!Bytes(code, b) = P!Bytes(code, a) + z
    BY DEF Back
  <1>2. P!Target(b + 1, z % 256) = IF at = {} THEN 0 ELSE CHOOSE j \in at : TRUE
    <2>1. P!Target(b + 1, z) = IF at = {} THEN 0 ELSE CHOOSE j \in at : TRUE
      BY Zenon DEF P!Target
    <2> HIDE DEF at
    <2>2. QED
      BY <1>1, <2>1
  <1>3. /\ Len(code) \in Nat /\ b \in 0 .. Len(code) /\ a \in 0 .. Len(code) /\ P!Bytes(code, a) \in Int
        /\ P!Bytes(code, b) \in Int
    <2>1. Len(code) \in Nat
      BY LenProperties
    <2>2. b \in 0 .. Len(code) /\ a \in 0 .. Len(code) /\ b + 1 \in 0 .. Len(code) /\ b < b + 1 /\ a < b + 1
      BY <2>1
    <2>3. P!Bytes(code, a) \in Int /\ P!Bytes(code, b) \in Int
      BY <2>2, BytesGrow
    <2>4. QED
      BY <2>1, <2>2, <2>3
  <1>4. /\ P!Offset(b + 1) = P!Bytes(code, b)
        /\ \A j \in 1 .. b + 1 : P!Offset(j) = P!Bytes(code, j - 1)
    <2>1. b + 1 - 1 = b
      OBVIOUS
    <2>2. QED
      BY <2>1 DEF P!Offset
  <1>5. a + 1 \in at
    <2>1. a + 1 \in 1 .. b + 1 /\ a + 1 - 1 = a
      OBVIOUS
    <2>2. P!Offset(a + 1) = P!Bytes(code, a)
      BY <1>4, <2>1
    <2>3. P!Offset(a + 1) = P!Offset(b + 1) - z
      BY <1>1, <1>3, <1>4, <2>2
    <2>4. QED
      BY <2>1, <2>3
  <1>6. ASSUME NEW j \in at PROVE j = a + 1
    <2>1. j \in 1 .. b + 1 /\ P!Bytes(code, j - 1) = P!Bytes(code, a)
      BY <1>1, <1>3, <1>4
    <2>2. j - 1 \in 0 .. Len(code)
      BY <1>3, <2>1
    <2>3. ~(j - 1 < a)
      BY <1>3, <2>1, <2>2, BytesGrow
    <2>4. ~(a < j - 1)
      BY <1>3, <2>1, <2>2, BytesGrow
    <2>5. QED
      BY <2>1, <2>3, <2>4
  <1> HIDE DEF at
  <1>7. at = {a + 1}
    BY <1>5, <1>6
  <1>8. QED
    BY <1>2, <1>7

LEMMA Executes ==
  ASSUME P!Next
  PROVE  /\ UNCHANGED <<req, code>>
         /\ code[insnAt].op \in {"FLUSHP", "WFP", "LD"} =>
              insnAt' = insnAt + 1 /\ UNCHANGED <<lc, ccrLen, period, moved, events>>
         /\ code[insnAt].op \in {"SAR", "DAR"} =>
              insnAt' = insnAt + 1 /\ moved' = 0 /\ events' = 0 /\ UNCHANGED <<lc, ccrLen, period>>
         /\ code[insnAt].op = "CCR" =>
              insnAt' = insnAt + 1 /\ ccrLen' = code[insnAt].len /\ UNCHANGED <<lc, period, moved, events>>
         /\ code[insnAt].op = "ST" =>
              /\ insnAt' = insnAt + 1 /\ period' = period + ccrLen * 4 /\ moved' = moved + ccrLen * 4
              /\ UNCHANGED <<lc, ccrLen, events>>
         /\ code[insnAt].op = "LP" =>
              /\ insnAt' = insnAt + 1 /\ lc' = [lc EXCEPT ![code[insnAt].loop + 1] = code[insnAt].cnt]
              /\ UNCHANGED <<ccrLen, period, moved, events>>
         /\ code[insnAt].op = "LPEND" =>
              /\ lc[code[insnAt].loop + 1] = 0 => insnAt' = insnAt + 1 /\ UNCHANGED lc
              /\ lc[code[insnAt].loop + 1] # 0 =>
                   /\ insnAt' = P!Target(insnAt, code[insnAt].bjump)
                   /\ lc' = [lc EXCEPT ![code[insnAt].loop + 1] = @ - 1]
              /\ UNCHANGED <<ccrLen, period, moved, events>>
         /\ code[insnAt].op = "LPFE" =>
              /\ insnAt' = P!Target(insnAt, code[insnAt].bjump)
              /\ UNCHANGED <<lc, ccrLen, period, moved, events>>
         /\ code[insnAt].op = "SEV" =>
              /\ insnAt' = insnAt + 1 /\ period' = 0 /\ events' = events + 1
              /\ UNCHANGED <<lc, ccrLen, moved>>
  <1> DEFINE i == code[insnAt]
             to == P!Target(insnAt, i.bjump)
  <1>1. P!Now = i /\ P!BurstSize = 4
    BY DEF P!Now, P!BurstSize
  <1> HIDE DEF i
  <1>2. CASE P!ExecPlain
    BY <1>1, <1>2 DEF P!ExecPlain, i
  <1>3. CASE P!ExecSetAddress
    BY <1>1, <1>3 DEF P!ExecSetAddress, i
  <1>4. CASE P!ExecSetControl
    BY <1>1, <1>4 DEF P!ExecSetControl, i
  <1>5. CASE P!ExecStore
    BY <1>1, <1>5 DEF P!ExecStore, i
  <1>6. CASE P!ExecLoop
    BY <1>1, <1>6 DEF P!ExecLoop, i
  <1>7. CASE P!ExecLoopEnd
    BY <1>1, <1>7 DEF P!ExecLoopEnd, i
  <1>8. CASE P!ExecLoopForever
    BY <1>1, <1>8 DEF P!ExecLoopForever, i
  <1>9. CASE P!ExecEvent
    BY <1>1, <1>9 DEF P!ExecEvent, i
  <1>10. QED
    BY <1>2, <1>3, <1>4, <1>5, <1>6, <1>7, <1>8, <1>9 DEF P!Next

-----------------------------------------------------------------------------
(* A loop of bursts executes.                                              *)

\* Behind place a, m times cy bursts, from s bytes on: with i turns done, at burst j.
LoopPos(a, m, cy, s, at, l, per) ==
  \/ at = a + 1 /\ per = s
  \/ \E i \in 0 .. m - 1 :
       /\ l = m - 1 - i
       /\ \/ at = a + 2 /\ per = s + 32 * (i * cy)
          \/ \E j \in 1 .. cy : at \in {a + 3 * j, a + 3 * j + 1, a + 3 * j + 2} /\ per = s + 32 * (i * cy + j - 1)
          \/ at = a + 3 * cy + 3 /\ per = s + 32 * (i * cy + cy)

CountersType == lc \in [1 .. 2 -> Int]

\* What a step that belongs to a period leaves alone.
Counted == UNCHANGED <<req, code>> /\ lc' \in [1 .. 2 -> Int] /\ lc'[1] = lc[1]

LEMMA InsnOps ==
  ASSUME NEW r
  PROVE  /\ FlushInsn.op = "FLUSHP" /\ WaitInsn.op = "WFP" /\ LoadInsn(r).op = "LD" /\ StoreInsn(r).op = "ST"
         /\ EventInsn.op = "SEV" /\ P!Plain("SAR", 6).op = "SAR" /\ P!Plain("DAR", 6).op = "DAR"
  BY DEF FlushInsn, WaitInsn, LoadInsn, StoreInsn, EventInsn, P!Plain

LEMMA JumpOps ==
  ASSUME NEW loop, NEW n
  PROVE  /\ P!LP(loop, n).op = "LP" /\ P!LP(loop, n).loop = loop
         /\ P!LPEND(loop, n).op = "LPEND" /\ P!LPEND(loop, n).loop = loop /\ P!LPEND(loop, n).bjump = n % 256
         /\ P!LPFE(n).op = "LPFE" /\ P!LPFE(n).bjump = n % 256
         /\ P!MOVCCR(n).op = "CCR" /\ P!MOVCCR(n).len = n
  BY DEF P!LP, P!LPEND, P!LPFE, P!MOVCCR

LEMMA LoopCount ==
  ASSUME NEW loop, NEW n \in 1 .. 256
  PROVE  P!LP(loop, n).cnt = n - 1
  <1>1. ((n % 256) - 1) % 256 = n - 1
    OBVIOUS
  <1>2. QED
    BY <1>1 DEF P!LP

\* The code has such a loop there.
Looping(c, r, a, m, cy, s) ==
  /\ r.fromDevice \in BOOLEAN /\ a \in Nat /\ m \in 1 .. 256 /\ cy \in Nat \ {0} /\ s \in Nat
  /\ 2 + 5 * cy <= 255 /\ LiesAt(c, a, P!BurstLoop(r, m, cy))

LoopDone(a, m, cy, s, at, per) == at = a + (3 * cy + 3) + 1 /\ per = s + 32 * (m * cy)

\* The bytes of a store count.
Moved == period' \in Int /\ moved' = moved + (period' - period)

LEMMA LoopStep ==
  ASSUME P!Next, code \in Seq(Insns), CountersType, ccrLen = 8, period \in Int, moved \in Int,
         NEW r, NEW a, NEW m, NEW cy, NEW s, Looping(code, r, a, m, cy, s), a + (3 * cy + 3) <= Len(code),
         LoopPos(a, m, cy, s, insnAt, lc[2], period)
  PROVE  /\ Counted /\ ccrLen' = 8 /\ events' = events /\ Moved
         /\ \/ LoopPos(a, m, cy, s, insnAt', lc'[2], period')
            \/ LoopDone(a, m, cy, s, insnAt', period')
  <1>1. /\ r.fromDevice \in BOOLEAN /\ a \in Nat /\ m \in 1 .. 256 /\ cy \in Nat \ {0} /\ s \in Nat
         /\ 2 + 5 * cy <= 255 /\ LiesAt(code, a, P!BurstLoop(r, m, cy))
    BY DEF Looping
  <1> USE <1>1
  <1>2. m \in Nat /\ cy \in Nat
    OBVIOUS
  <1>3. LoopAt(code, r, a, m, cy)
    BY <1>2, LoopLies
  <1>4. /\ P!LP(1, m).op = "LP" /\ P!LP(1, m).loop = 1 /\ P!LP(1, m).cnt = m - 1
         /\ FlushInsn.op = "FLUSHP" /\ WaitInsn.op = "WFP" /\ LoadInsn(r).op = "LD" /\ StoreInsn(r).op = "ST"
    <2>1. P!LP(1, m).op = "LP" /\ P!LP(1, m).loop = 1
      BY JumpOps
    <2>2. P!LP(1, m).cnt = m - 1
      BY LoopCount
    <2>3. FlushInsn.op = "FLUSHP" /\ WaitInsn.op = "WFP" /\ LoadInsn(r).op = "LD" /\ StoreInsn(r).op = "ST"
      BY InsnOps
    <2>4. QED
      BY <2>1, <2>2, <2>3
  <1>5. /\ P!LPEND(1, 2 + 5 * cy).op = "LPEND" /\ P!LPEND(1, 2 + 5 * cy).loop = 1
         /\ P!LPEND(1, 2 + 5 * cy).bjump = (2 + 5 * cy) % 256
    BY JumpOps
  <1>6. /\ code[a + 1] = P!LP(1, m) /\ code[a + 2] = FlushInsn /\ code[a + (3 * cy + 3)] = P!LPEND(1, 2 + 5 * cy)
        /\ \A j \in 1 .. cy : /\ code[a + 3 * j] = WaitInsn
                              /\ code[a + 3 * j + 1] = LoadInsn(r) /\ code[a + 3 * j + 2] = StoreInsn(r)
    <2>1. a + 1 + 1 = a + 2
      OBVIOUS
    <2>2. \A j \in 1 .. cy : a + 1 + 3 * j - 1 = a + 3 * j /\ a + 1 + 3 * j = a + 3 * j + 1 /\ a + 1 + 3 * j + 1 = a + 3 * j + 2
      OBVIOUS
    <2>3. QED
      BY <1>3, <2>1, <2>2 DEF LoopAt, BurstsAt
  <1>7. lc \in [1 .. 2 -> Int] /\ lc[2] \in Int
    BY DEF CountersType
  <1>8. CASE insnAt = a + 1 /\ period = s
    <2>1. code[insnAt].op = "LP" /\ code[insnAt].loop = 1 /\ code[insnAt].cnt = m - 1
      BY <1>6, <1>8, <1>4
    <2>2. /\ insnAt' = insnAt + 1 /\ lc' = [lc EXCEPT ![1 + 1] = m - 1]
          /\ UNCHANGED <<req, code, ccrLen, period, moved, events>>
      BY <2>1, Executes
    <2>3. lc' \in [1 .. 2 -> Int] /\ lc'[1] = lc[1] /\ lc'[2] = m - 1
      BY <1>7, <2>2
    <2>4. insnAt' = a + 2 /\ period' = s + 32 * (0 * cy) /\ lc'[2] = m - 1 - 0 /\ 0 \in 0 .. m - 1
      BY <1>8, <2>2, <2>3
    <2>5. LoopPos(a, m, cy, s, insnAt', lc'[2], period')
      BY <2>4 DEF LoopPos
    <2>6. QED
      BY <2>2, <2>3, <2>5 DEF Counted, Moved
  <1>9. ASSUME NEW i \in 0 .. m - 1, lc[2] = m - 1 - i, insnAt = a + 2, period = s + 32 * (i * cy)
        PROVE  Counted /\ UNCHANGED <<ccrLen, events, period, moved>> /\ LoopPos(a, m, cy, s, insnAt', lc'[2], period')
    <2>1. code[insnAt].op = "FLUSHP"
      BY <1>6, <1>9, InsnOps
    <2>2. insnAt' = insnAt + 1 /\ UNCHANGED <<req, code, lc, ccrLen, period, moved, events>>
      BY <2>1, Executes
    <2>3. 1 \in 1 .. cy /\ insnAt' = a + 3 * 1
      BY <1>9, <2>2
    <2>4. period' = s + 32 * (i * cy + 1 - 1)
      <3>1. i * cy \in Int
        OBVIOUS
      <3> DEFINE g == i * cy
      <3> HIDE DEF g
      <3>2. period' = s + 32 * g /\ g \in Int
        BY <1>9, <2>2, <3>1 DEF g
      <3>3. period' = s + 32 * (g + 1 - 1)
        BY <3>2
      <3>4. QED
        BY <3>3 DEF g
    <2>5. LoopPos(a, m, cy, s, insnAt', lc'[2], period')
      BY <1>9, <2>2, <2>3, <2>4 DEF LoopPos
    <2>6. QED
      BY <1>7, <2>2, <2>5 DEF Counted
  <1>10. ASSUME NEW i \in 0 .. m - 1, lc[2] = m - 1 - i, NEW j \in 1 .. cy, insnAt \in {a + 3 * j, a + 3 * j + 1},
               period = s + 32 * (i * cy + j - 1)
        PROVE  Counted /\ UNCHANGED <<ccrLen, events, period, moved>> /\ LoopPos(a, m, cy, s, insnAt', lc'[2], period')
    <2>1. code[insnAt].op \in {"WFP", "LD"}
      BY <1>6, <1>10, <1>4
    <2>2. insnAt' = insnAt + 1 /\ UNCHANGED <<req, code, lc, ccrLen, period, moved, events>>
      BY <2>1, Executes
    <2>3. insnAt' \in {a + 3 * j + 1, a + 3 * j + 2}
      BY <1>10, <2>2
    <2>4. LoopPos(a, m, cy, s, insnAt', lc'[2], period')
      BY <1>10, <2>2, <2>3 DEF LoopPos
    <2>5. QED
      BY <1>7, <2>2, <2>4 DEF Counted
  <1>11. ASSUME NEW i \in 0 .. m - 1, lc[2] = m - 1 - i, NEW j \in 1 .. cy, insnAt = a + 3 * j + 2,
               period = s + 32 * (i * cy + j - 1)
        PROVE  /\ Counted /\ UNCHANGED <<ccrLen, events>> /\ period' = period + 32 /\ moved' = moved + 32
               /\ LoopPos(a, m, cy, s, insnAt', lc'[2], period')
    <2>1. code[insnAt].op = "ST"
      BY <1>6, <1>11, <1>4
    <2>2. /\ insnAt' = insnAt + 1 /\ period' = period + 32 /\ moved' = moved + 32
          /\ UNCHANGED <<req, code, lc, ccrLen, events>>
      BY <2>1, Executes
    <2> DEFINE g == i * cy
    <2>3. g \in Int
      OBVIOUS
    <2> HIDE DEF g
    <2>4. period' = s + 32 * (g + j)
      <3>1. period = s + 32 * (g + j - 1)
        BY <1>11 DEF g
      <3>2. QED
        BY <2>2, <2>3, <3>1
    <2>5. CASE j = cy
      <3>1. insnAt' = a + 3 * cy + 3 /\ period' = s + 32 * (i * cy + cy)
        BY <1>11, <2>2, <2>4, <2>5 DEF g
      <3>2. QED
        BY <1>7, <1>11, <2>2, <3>1 DEF LoopPos, Counted
    <2>6. CASE j # cy
      <3> DEFINE k == j + 1
      <3>1. k \in 1 .. cy /\ insnAt' = a + 3 * k /\ period' = s + 32 * (g + k - 1)
        BY <1>11, <2>2, <2>3, <2>4, <2>6
      <3> HIDE DEF k
      <3>2. LoopPos(a, m, cy, s, insnAt', lc'[2], period')
        BY <1>11, <2>2, <3>1 DEF LoopPos, g
      <3>3. QED
        BY <1>7, <2>2, <3>2 DEF Counted
    <2>7. QED
      BY <2>5, <2>6
  <1>12. ASSUME NEW i \in 0 .. m - 1, lc[2] = m - 1 - i, insnAt = a + 3 * cy + 3, period = s + 32 * (i * cy + cy)
        PROVE  /\ Counted /\ UNCHANGED <<ccrLen, events, period, moved>>
               /\ \/ LoopPos(a, m, cy, s, insnAt', lc'[2], period')
                  \/ insnAt' = a + (3 * cy + 3) + 1 /\ period' = s + 32 * (m * cy)
    <2> DEFINE z == 2 + 5 * cy
               to == P!Target(insnAt, z % 256)
    <2>1. code[insnAt].op = "LPEND" /\ code[insnAt].loop = 1 /\ code[insnAt].bjump = z % 256
      <3>1. insnAt = a + (3 * cy + 3)
        BY <1>12
      <3>2. QED
        BY <1>6, <1>5, <3>1
    <2>2. /\ UNCHANGED <<req, code, ccrLen, period, moved, events>>
          /\ lc[2] = 0 => insnAt' = insnAt + 1 /\ UNCHANGED lc
          /\ lc[2] # 0 => insnAt' = to /\ lc' = [lc EXCEPT ![2] = @ - 1]
      <3> HIDE DEF to, z
      <3>1. 1 + 1 = 2
        OBVIOUS
      <3>2. QED
        BY <2>1, <3>1, Executes DEF to
    <2>3. CASE lc[2] = 0
      <3>1. i = m - 1 /\ i * cy + cy = m * cy
        <4>1. i = m - 1
          BY <1>12, <2>3
        <4>2. i \in Int /\ i + 1 = m
          BY <4>1
        <4>3. (i + 1) * cy = i * cy + cy
          BY OneMore
        <4>4. QED
          BY <4>1, <4>2, <4>3
      <3>2. insnAt' = a + (3 * cy + 3) + 1 /\ period' = s + 32 * (m * cy)
        BY <1>12, <2>2, <2>3, <3>1
      <3>3. QED
        BY <1>7, <2>2, <2>3, <3>2 DEF Counted
    <2>4. CASE lc[2] # 0
      <3>1. to = a + 2
        <4> DEFINE b == a + (3 * cy + 2)
        <4>1. P!Bytes(code, b) = P!Bytes(code, a + 1) + z
          BY LoopBytes
        <4>2. z \in 0 .. 255 /\ b \in Nat /\ b + 1 = insnAt /\ a + 1 \in Nat /\ a + 1 <= b /\ b + 1 <= Len(code) /\ a + 1 + 1 = a + 2
          <5>1. Len(code) \in Nat
            BY LenProperties
          <5>2. QED
            BY <1>12, <5>1
        <4> HIDE DEF b, z
        <4>3. Back(code, a + 1, b, z)
          BY <4>1, <4>2 DEF Back
        <4>4. P!Target(b + 1, z % 256) = a + 1 + 1
          BY <4>2, <4>3, Landing
        <4>5. QED
          BY <4>2, <4>4
      <3> HIDE DEF to, z
      <3> DEFINE k == i + 1
      <3>2. k \in 0 .. m - 1 /\ lc[2] - 1 = m - 1 - k /\ k * cy = i * cy + cy
        <4>1. k \in 0 .. m - 1 /\ lc[2] - 1 = m - 1 - k
          BY <1>12, <2>4
        <4>2. QED
          BY <4>1, OneMore
      <3> HIDE DEF k
      <3>3. lc' \in [1 .. 2 -> Int] /\ lc'[1] = lc[1] /\ lc'[2] = lc[2] - 1
        BY <1>7, <2>2, <2>4
      <3>4. insnAt' = a + 2 /\ period' = s + 32 * (k * cy) /\ lc'[2] = m - 1 - k
        BY <1>12, <2>2, <2>4, <3>1, <3>2, <3>3
      <3>5. LoopPos(a, m, cy, s, insnAt', lc'[2], period')
        BY <3>2, <3>4 DEF LoopPos
      <3>6. QED
        BY <2>2, <3>3, <3>5 DEF Counted
    <2>5. QED
      BY <2>3, <2>4
  <1> DEFINE Goal == /\ Counted /\ ccrLen' = 8 /\ events' = events /\ Moved
                     /\ \/ LoopPos(a, m, cy, s, insnAt', lc'[2], period')
                        \/ LoopDone(a, m, cy, s, insnAt', period')
  <1>13. CASE insnAt # a + 1
    <2>1. PICK i \in 0 .. m - 1 :
            /\ lc[2] = m - 1 - i
            /\ \/ insnAt = a + 2 /\ period = s + 32 * (i * cy)
               \/ \E j \in 1 .. cy : insnAt \in {a + 3 * j, a + 3 * j + 1, a + 3 * j + 2} /\ period = s + 32 * (i * cy + j - 1)
               \/ insnAt = a + 3 * cy + 3 /\ period = s + 32 * (i * cy + cy)
      BY <1>13 DEF LoopPos
    <2>2. CASE insnAt = a + 2 /\ period = s + 32 * (i * cy)
      BY <1>9, <2>1, <2>2 DEF Moved, LoopDone
    <2>3. ASSUME NEW j \in 1 .. cy, insnAt \in {a + 3 * j, a + 3 * j + 1, a + 3 * j + 2},
                 period = s + 32 * (i * cy + j - 1)
          PROVE  Goal
      <3>1. CASE insnAt \in {a + 3 * j, a + 3 * j + 1}
        BY <1>10, <2>1, <2>3, <3>1 DEF Moved, LoopDone
      <3>2. CASE insnAt = a + 3 * j + 2
        <4>1. /\ Counted /\ UNCHANGED <<ccrLen, events>> /\ period' = period + 32 /\ moved' = moved + 32
              /\ LoopPos(a, m, cy, s, insnAt', lc'[2], period')
          BY <1>11, <2>1, <2>3, <3>2
        <4>2. Moved
          BY <4>1 DEF Moved
        <4>3. QED
          BY <4>1, <4>2
      <3>3. QED
        BY <2>3, <3>1, <3>2
    <2>4. CASE insnAt = a + 3 * cy + 3 /\ period = s + 32 * (i * cy + cy)
      BY <1>12, <2>1, <2>4 DEF Moved, LoopDone
    <2> HIDE DEF Goal
    <2>5. QED
      BY <2>1, <2>2, <2>3, <2>4 DEF Goal
  <1>14. CASE insnAt = a + 1
    <2>1. period = s
      BY <1>14 DEF LoopPos
    <2>2. QED
      BY <1>8, <1>14, <2>1
  <1>15. QED
    BY <1>13, <1>14

\* It is before place b, with lo to hi bytes moved.
Within(c, at, b, per, lo, hi) == c[at].op \notin {"SEV", "LPFE"} /\ at \in 1 .. b /\ per \in lo .. hi

LEMMA LoopWithin ==
  ASSUME NEW c, NEW r, NEW a, NEW m, NEW cy, NEW s, Looping(c, r, a, m, cy, s),
         NEW at, NEW l, NEW per, LoopPos(a, m, cy, s, at, l, per)
  PROVE  Within(c, at, a + (3 * cy + 3), per, s, s + 32 * (m * cy))
  <1>1. /\ r.fromDevice \in BOOLEAN /\ a \in Nat /\ m \in 1 .. 256 /\ cy \in Nat \ {0} /\ s \in Nat
        /\ LiesAt(c, a, P!BurstLoop(r, m, cy))
    BY DEF Looping
  <1> USE <1>1 DEF Within
  <1>2. m \in Nat /\ cy \in Nat
    OBVIOUS
  <1>3. LoopAt(c, r, a, m, cy)
    BY <1>2, LoopLies
  <1>4. /\ c[a + 1] = P!LP(1, m) /\ c[a + 2] = FlushInsn /\ c[a + (3 * cy + 3)] = P!LPEND(1, 2 + 5 * cy)
        /\ \A j \in 1 .. cy : /\ c[a + 3 * j] = WaitInsn
                              /\ c[a + 3 * j + 1] = LoadInsn(r) /\ c[a + 3 * j + 2] = StoreInsn(r)
    <2>1. a + 1 + 1 = a + 2
      OBVIOUS
    <2>2. \A j \in 1 .. cy : a + 1 + 3 * j - 1 = a + 3 * j /\ a + 1 + 3 * j = a + 3 * j + 1 /\ a + 1 + 3 * j + 1 = a + 3 * j + 2
      OBVIOUS
    <2>3. QED
      BY <1>3, <2>1, <2>2 DEF LoopAt, BurstsAt
  <1>5. /\ P!LP(1, m).op = "LP" /\ P!LPEND(1, 2 + 5 * cy).op = "LPEND"
        /\ FlushInsn.op = "FLUSHP" /\ WaitInsn.op = "WFP" /\ LoadInsn(r).op = "LD" /\ StoreInsn(r).op = "ST"
    BY InsnOps, JumpOps
  <1>6. 0 <= 32 * (m * cy)
    <2>1. m * cy \in Nat
      OBVIOUS
    <2>2. QED
      BY <2>1
  <1>7. ASSUME NEW i \in 0 .. m - 1
        PROVE  i * cy \in Nat /\ m * cy \in Nat /\ i * cy + cy <= m * cy
    <2>1. (i + 1) * cy = i * cy + cy
      BY OneMore
    <2>2. (i + 1) * cy <= m * cy
      OBVIOUS
    <2>3. i * cy \in Nat /\ m * cy \in Nat
      OBVIOUS
    <2>4. QED
      BY <2>1, <2>2, <2>3
  <1>8. CASE at = a + 1 /\ per = s
    BY <1>4, <1>5, <1>6, <1>8
  <1>9. ASSUME NEW i \in 0 .. m - 1, at = a + 2, per = s + 32 * (i * cy)
        PROVE  c[at].op \notin {"SEV", "LPFE"} /\ at \in 1 .. a + (3 * cy + 3) /\ per \in s .. s + 32 * (m * cy)
    <2> DEFINE x == i * cy
               y == m * cy
    <2>1. x \in Nat /\ y \in Nat /\ x + cy <= y /\ per = s + 32 * x
      BY <1>7, <1>9
    <2> HIDE DEF x, y
    <2>2. per \in s .. s + 32 * y
      BY <2>1
    <2>3. QED
      BY <1>4, <1>5, <1>9, <2>2 DEF y
  <1>10. ASSUME NEW i \in 0 .. m - 1, NEW j \in 1 .. cy, at \in {a + 3 * j, a + 3 * j + 1, a + 3 * j + 2},
               per = s + 32 * (i * cy + j - 1)
        PROVE  c[at].op \notin {"SEV", "LPFE"} /\ at \in 1 .. a + (3 * cy + 3) /\ per \in s .. s + 32 * (m * cy)
    <2> DEFINE x == i * cy
               y == m * cy
    <2>1. x \in Nat /\ y \in Nat /\ x + cy <= y /\ per = s + 32 * (x + j - 1)
      BY <1>7, <1>10
    <2> HIDE DEF x, y
    <2>2. per \in s .. s + 32 * y
      BY <2>1
    <2>3. c[at].op \in {"WFP", "LD", "ST"}
      BY <1>4, <1>5, <1>10
    <2>4. at \in 1 .. a + (3 * cy + 3)
      BY <1>10
    <2>5. QED
      BY <2>2, <2>3, <2>4 DEF y
  <1>11. ASSUME NEW i \in 0 .. m - 1, at = a + 3 * cy + 3, per = s + 32 * (i * cy + cy)
         PROVE  c[at].op \notin {"SEV", "LPFE"} /\ at \in 1 .. a + (3 * cy + 3) /\ per \in s .. s + 32 * (m * cy)
    <2> DEFINE x == i * cy
               y == m * cy
    <2>1. x \in Nat /\ y \in Nat /\ x + cy <= y /\ per = s + 32 * (x + cy)
      BY <1>7, <1>11
    <2> HIDE DEF x, y
    <2>2. per \in s .. s + 32 * y
      BY <2>1
    <2>3. at = a + (3 * cy + 3)
      BY <1>11
    <2>4. c[at].op = "LPEND" /\ at \in 1 .. a + (3 * cy + 3)
      BY <1>4, <1>5, <2>3
    <2>5. QED
      BY <2>2, <2>4 DEF y
  <1>12. QED
    BY <1>8, <1>9, <1>10, <1>11 DEF LoopPos

\* The words that are left.
DregsPos(a, words, s, at, ccr, per) ==
  \/ at = a + 1 /\ ccr = 8 /\ per = s
  \/ at \in {a + 2, a + 3, a + 4, a + 5} /\ ccr = words /\ per = s
  \/ at = a + 6 /\ ccr = words /\ per = s + 4 * words

Dregging(c, r, a, words, s) ==
  r.fromDevice \in BOOLEAN /\ a \in Nat /\ words \in Nat /\ s \in Nat /\ LiesAt(c, a, P!Dregs(r, words))

LEMMA DregsInsns ==
  ASSUME NEW c, NEW r, NEW a, NEW words, NEW s, Dregging(c, r, a, words, s)
  PROVE  /\ c[a + 1].op = "CCR" /\ c[a + 1].len = words /\ c[a + 2].op = "FLUSHP" /\ c[a + 3].op = "WFP"
         /\ c[a + 4].op = "LD" /\ c[a + 5].op = "ST" /\ c[a + 6].op = "CCR" /\ c[a + 6].len = 8
  <1>1. r.fromDevice \in BOOLEAN /\ a \in Nat /\ words \in Nat /\ s \in Nat /\ LiesAt(c, a, P!Dregs(r, words))
    BY DEF Dregging
  <1> USE <1>1
  <1>2. DregsAt(c, r, a, words)
    BY DregsLie
  <1>3. BurstsAt(c, r, a + 1, 1) /\ c[a + 1] = P!MOVCCR(words) /\ c[a + 6] = P!MOVCCR(8)
    BY <1>2 DEF DregsAt, P!BurstLen
  <1>4. 1 \in 1 .. 1 /\ a + 1 + 1 = a + 2 /\ a + 1 + 3 * 1 - 1 = a + 3 /\ a + 1 + 3 * 1 = a + 4 /\ a + 1 + 3 * 1 + 1 = a + 5
    OBVIOUS
  <1>5. c[a + 2] = FlushInsn /\ c[a + 3] = WaitInsn /\ c[a + 4] = LoadInsn(r) /\ c[a + 5] = StoreInsn(r)
    BY <1>3, <1>4 DEF BurstsAt
  <1>6. FlushInsn.op = "FLUSHP" /\ WaitInsn.op = "WFP" /\ LoadInsn(r).op = "LD" /\ StoreInsn(r).op = "ST"
    BY InsnOps
  <1>7. P!MOVCCR(words).op = "CCR" /\ P!MOVCCR(words).len = words /\ P!MOVCCR(8).op = "CCR" /\ P!MOVCCR(8).len = 8
    BY JumpOps
  <1>8. QED
    BY <1>3, <1>5, <1>6, <1>7

LEMMA DregsStep ==
  ASSUME P!Next, CountersType, period \in Int, moved \in Int,
         NEW r, NEW a, NEW words, NEW s, Dregging(code, r, a, words, s),
         DregsPos(a, words, s, insnAt, ccrLen, period)
  PROVE  /\ Counted /\ events' = events /\ Moved
         /\ \/ DregsPos(a, words, s, insnAt', ccrLen', period')
            \/ insnAt' = a + 6 + 1 /\ ccrLen' = 8 /\ period' = s + 4 * words
  <1>1. a \in Nat /\ words \in Nat /\ s \in Nat
    BY DEF Dregging
  <1> USE <1>1 DEF Moved
  <1>2. /\ code[a + 1].op = "CCR" /\ code[a + 1].len = words /\ code[a + 2].op = "FLUSHP" /\ code[a + 3].op = "WFP"
        /\ code[a + 4].op = "LD" /\ code[a + 5].op = "ST" /\ code[a + 6].op = "CCR" /\ code[a + 6].len = 8
    BY DregsInsns
  <1>3. lc \in [1 .. 2 -> Int]
    BY DEF CountersType
  <1>4. CASE insnAt = a + 1
    <2>1. insnAt' = insnAt + 1 /\ ccrLen' = words /\ UNCHANGED <<req, code, lc, period, moved, events>> /\ period = s
      <3>1. code[insnAt].op = "CCR" /\ code[insnAt].len = words
        BY <1>2, <1>4
      <3>2. period = s
        BY <1>4 DEF DregsPos
      <3>3. QED
        BY <3>1, <3>2, Executes
    <2>2. QED
      BY <1>3, <1>4, <2>1 DEF DregsPos, Counted
  <1>5. CASE insnAt \in {a + 2, a + 3, a + 4}
    <2>1. insnAt' = insnAt + 1 /\ UNCHANGED <<req, code, lc, ccrLen, period, moved, events>> /\ period = s /\ ccrLen = words
      <3>1. code[insnAt].op \in {"FLUSHP", "WFP", "LD"}
        BY <1>2, <1>5
      <3>2. period = s /\ ccrLen = words
        BY <1>5 DEF DregsPos
      <3>3. QED
        BY <3>1, <3>2, Executes
    <2>2. QED
      BY <1>3, <1>5, <2>1 DEF DregsPos, Counted
  <1>6. CASE insnAt = a + 5
    <2>1. /\ insnAt' = insnAt + 1 /\ period' = period + words * 4 /\ moved' = moved + words * 4
          /\ UNCHANGED <<req, code, lc, ccrLen, events>> /\ period = s /\ ccrLen = words
      <3>1. code[insnAt].op = "ST"
        BY <1>2, <1>6
      <3>2. period = s /\ ccrLen = words
        BY <1>6 DEF DregsPos
      <3>3. QED
        BY <3>1, <3>2, Executes
    <2>2. QED
      BY <1>3, <1>6, <2>1 DEF DregsPos, Counted
  <1>7. CASE insnAt = a + 6
    <2>1. insnAt' = insnAt + 1 /\ ccrLen' = 8 /\ UNCHANGED <<req, code, lc, period, moved, events>> /\ period = s + 4 * words
      <3>1. code[insnAt].op = "CCR" /\ code[insnAt].len = 8
        BY <1>2, <1>7
      <3>2. period = s + 4 * words
        BY <1>7 DEF DregsPos
      <3>3. QED
        BY <3>1, <3>2, Executes
    <2>2. QED
      BY <1>3, <1>7, <2>1 DEF DregsPos, Counted
  <1>8. QED
    BY <1>4, <1>5, <1>6, <1>7 DEF DregsPos

LEMMA DregsWithin ==
  ASSUME NEW c, NEW r, NEW a, NEW words, NEW s, Dregging(c, r, a, words, s),
         NEW at, NEW ccr, NEW per, DregsPos(a, words, s, at, ccr, per)
  PROVE  Within(c, at, a + 6, per, s, s + 4 * words)
  <1>1. a \in Nat /\ words \in Nat /\ s \in Nat
    BY DEF Dregging
  <1>2. /\ c[a + 1].op = "CCR" /\ c[a + 1].len = words /\ c[a + 2].op = "FLUSHP" /\ c[a + 3].op = "WFP"
        /\ c[a + 4].op = "LD" /\ c[a + 5].op = "ST" /\ c[a + 6].op = "CCR" /\ c[a + 6].len = 8
    BY DregsInsns
  <1>3. QED
    BY <1>1, <1>2 DEF DregsPos, Within

-----------------------------------------------------------------------------
(* A period executes.                                                      *)

\* Bytes moved when the loop of bursts, and when the rest of them, is through.
InBursts(r) == 32 * (CountOf(r) * CycOf(r))
InAll(r)    == 32 * (CountOf(r) * CycOf(r) + RestOf(r))

PeriodPos(r, b, at, l, ccr, per) ==
  \/ ccr = 8 /\ LoopPos(b, CountOf(r), CycOf(r), 0, at, l, per)
  \/ RestOf(r) # 0 /\ ccr = 8 /\ LoopPos(b + RestPlace(r), RestOf(r), 1, InBursts(r), at, l, per)
  \/ WordsOf(r) # 0 /\ DregsPos(b + DregsPlace(r), WordsOf(r), InAll(r), at, ccr, per)
  \/ ccr = 8 /\ at = b + EventPlace(r) + 1 /\ per = P!WholeWords(r)

LEMMA SaneBytes ==
  ASSUME NEW r, Sane(r)
  PROVE  /\ InBursts(r) \in Nat /\ InAll(r) \in Nat /\ P!WholeWords(r) \in Nat
         /\ InAll(r) = InBursts(r) + 32 * RestOf(r) /\ P!WholeWords(r) = InAll(r) + 4 * WordsOf(r)
         /\ CountOf(r) \in 1 .. 256 /\ CycOf(r) \in Nat \ {0} /\ RestOf(r) \in 0 .. 255 /\ WordsOf(r) \in 0 .. 7
  <1> DEFINE x == CountOf(r) * CycOf(r)
  <1>1. /\ CountOf(r) \in 1 .. 256 /\ CycOf(r) \in Nat \ {0} /\ RestOf(r) \in 0 .. 255 /\ WordsOf(r) \in 0 .. 7
        /\ P!WholeWords(r) \in Nat /\ P!WholeWords(r) = 32 * (x + RestOf(r)) + 4 * WordsOf(r)
    BY DEF Sane
  <1>2. x \in Nat
    BY <1>1
  <1>3. InBursts(r) = 32 * x /\ InAll(r) = 32 * (x + RestOf(r))
    BY DEF InBursts, InAll
  <1> HIDE DEF x
  <1>4. QED
    BY <1>1, <1>2, <1>3

LEMMA AfterDregs ==
  ASSUME NEW r, Sane(r), NEW b \in Nat, NEW l
  PROVE  PeriodPos(r, b, b + EventPlace(r) + 1, l, 8, P!WholeWords(r))
  BY DEF PeriodPos

LEMMA AfterRest ==
  ASSUME NEW r, Sane(r), NEW b \in Nat, NEW l
  PROVE  PeriodPos(r, b, b + DregsPlace(r) + 1, l, 8, InAll(r))
  <1>1. CASE WordsOf(r) # 0
    BY <1>1 DEF PeriodPos, DregsPos
  <1>2. CASE WordsOf(r) = 0
    <2>1. EventPlace(r) = DregsPlace(r) /\ P!WholeWords(r) = InAll(r)
      <3>1. EventPlace(r) = DregsPlace(r) + 0 /\ DregsPlace(r) \in Nat
        BY <1>2, SaneTypes DEF EventPlace
      <3>2. P!WholeWords(r) = InAll(r)
        BY <1>2, SaneBytes
      <3>3. QED
        BY <3>1, <3>2
    <2>2. QED
      BY <2>1, AfterDregs
  <1>3. QED
    BY <1>1, <1>2

LEMMA AfterBursts ==
  ASSUME NEW r, Sane(r), NEW b \in Nat, NEW l
  PROVE  PeriodPos(r, b, b + RestPlace(r) + 1, l, 8, InBursts(r))
  <1>1. CASE RestOf(r) # 0
    BY <1>1 DEF PeriodPos, LoopPos
  <1>2. CASE RestOf(r) = 0
    <2>1. DregsPlace(r) = RestPlace(r) /\ InAll(r) = InBursts(r)
      <3>1. DregsPlace(r) = RestPlace(r) + 0 /\ RestPlace(r) \in Nat
        BY <1>2, SaneTypes DEF DregsPlace
      <3>2. InAll(r) = InBursts(r)
        BY <1>2, SaneBytes
      <3>3. QED
        BY <3>1, <3>2
    <2>2. QED
      BY <2>1, AfterRest
  <1>3. QED
    BY <1>1, <1>2

LEMMA PeriodBegins ==
  ASSUME NEW r, NEW b, NEW l
  PROVE  PeriodPos(r, b, b + 1, l, 8, 0)
  BY DEF PeriodPos, LoopPos

\* The end of a period: its event is raised with all of it moved.
Raised(r, b) ==
  /\ insnAt' = b + PeriodInsns(r) + 1 /\ period = P!WholeWords(r) /\ period' = 0 /\ ccrLen' = 8
  /\ events' = events + 1 /\ moved' = moved

LEMMA PeriodStep ==
  ASSUME P!Next, code \in Seq(Insns), CountersType, period \in Int, moved \in Int,
         NEW r, Sane(r), 2 + 5 * CycOf(r) <= 255, NEW b \in Nat, b + PeriodInsns(r) <= Len(code), PeriodAt(code, r, b),
         PeriodPos(r, b, insnAt, lc[2], ccrLen, period)
  PROVE  /\ Counted
         /\ \/ PeriodPos(r, b, insnAt', lc'[2], ccrLen', period') /\ events' = events /\ Moved
            \/ Raised(r, b)
  <1>1. /\ r.fromDevice \in BOOLEAN /\ InBursts(r) \in Nat /\ InAll(r) \in Nat /\ P!WholeWords(r) \in Nat
        /\ InAll(r) = InBursts(r) + 32 * RestOf(r) /\ P!WholeWords(r) = InAll(r) + 4 * WordsOf(r)
        /\ CountOf(r) \in 1 .. 256 /\ CycOf(r) \in Nat \ {0} /\ RestOf(r) \in 0 .. 255 /\ WordsOf(r) \in 0 .. 7
        /\ 2 + 5 * CycOf(r) <= 255
    BY SaneTypes, SaneBytes
  <1>2. /\ RestPlace(r) \in Nat /\ DregsPlace(r) \in Nat /\ EventPlace(r) \in Nat /\ PeriodInsns(r) = EventPlace(r) + 1
        /\ RestPlace(r) <= DregsPlace(r) /\ DregsPlace(r) <= EventPlace(r) /\ Len(code) \in Nat
    BY SaneTypes, LenProperties
  <1>3. CASE ccrLen = 8 /\ LoopPos(b, CountOf(r), CycOf(r), 0, insnAt, lc[2], period)
    <2> DEFINE m == CountOf(r)
               cy == CycOf(r)
    <2>1. Looping(code, r, b, m, cy, 0)
      BY <1>1 DEF PeriodAt, Looping
    <2>2. RestPlace(r) = 3 * cy + 3 /\ b + (3 * cy + 3) <= Len(code)
      <3>1. RestPlace(r) = 3 * cy + 3
        BY DEF RestPlace
      <3>2. b + RestPlace(r) <= Len(code)
        BY <1>2
      <3>3. QED
        BY <3>1, <3>2
    <2> HIDE DEF m, cy
    <2>3. LoopPos(b, m, cy, 0, insnAt, lc[2], period)
      BY <1>3 DEF m, cy
    <2>4. /\ Counted /\ ccrLen' = 8 /\ events' = events /\ Moved
          /\ \/ LoopPos(b, m, cy, 0, insnAt', lc'[2], period')
             \/ LoopDone(b, m, cy, 0, insnAt', period')
      BY <1>3, <2>1, <2>2, <2>3, LoopStep
    <2>5. CASE LoopPos(b, m, cy, 0, insnAt', lc'[2], period')
      <3>1. PeriodPos(r, b, insnAt', lc'[2], ccrLen', period')
        BY <2>4, <2>5 DEF PeriodPos, m, cy
      <3>2. QED
        BY <2>4, <3>1
    <2>6. CASE LoopDone(b, m, cy, 0, insnAt', period')
      <3>1. insnAt' = b + RestPlace(r) + 1 /\ period' = InBursts(r)
        <4>1. 0 + 32 * (m * cy) = InBursts(r)
          <5>1. InBursts(r) = 32 * (m * cy)
            BY DEF InBursts, m, cy
          <5>2. QED
            BY <1>1, <5>1
        <4>2. QED
          BY <2>2, <2>6, <4>1 DEF LoopDone
      <3>2. PeriodPos(r, b, insnAt', lc'[2], ccrLen', period')
        BY <2>4, <3>1, AfterBursts
      <3>3. QED
        BY <2>4, <3>2
    <2>7. QED
      BY <2>4, <2>5, <2>6
  <1>4. CASE RestOf(r) # 0 /\ ccrLen = 8 /\ LoopPos(b + RestPlace(r), RestOf(r), 1, InBursts(r), insnAt, lc[2], period)
    <2> DEFINE a == b + RestPlace(r)
               m == RestOf(r)
               cy == 1
               s == InBursts(r)
    <2>1. Looping(code, r, a, m, cy, s) /\ 3 * cy + 3 = 6 /\ m * cy = m
      <3>1. LiesAt(code, a, P!BurstLoop(r, m, cy))
        BY <1>4 DEF PeriodAt
      <3>2. a \in Nat /\ m \in 1 .. 256 /\ s \in Nat
        <4>1. a \in Nat
          BY <1>2
        <4>2. m \in 1 .. 256 /\ s \in Nat
          BY <1>1, <1>4
        <4>3. QED
          BY <4>1, <4>2
      <3>3. cy \in Nat \ {0} /\ 2 + 5 * cy <= 255 /\ 3 * cy + 3 = 6
        OBVIOUS
      <3>4. m * cy = m
        <4> HIDE DEF m
        <4>1. QED
          BY <3>2
      <3> HIDE DEF a, m, cy, s
      <3>5. QED
        BY <1>1, <3>1, <3>2, <3>3, <3>4 DEF Looping
    <2>2. DregsPlace(r) = RestPlace(r) + 6
      BY <1>4 DEF DregsPlace
    <2>3. a + 6 <= Len(code) /\ a + 6 = b + DregsPlace(r)
      BY <1>2, <2>2
    <2>4. LoopPos(a, m, cy, s, insnAt, lc[2], period)
      BY <1>4
    <2> HIDE DEF a, m, cy, s
    <2>5. a + (3 * cy + 3) <= Len(code)
      BY <2>1, <2>3
    <2>6. /\ Counted /\ ccrLen' = 8 /\ events' = events /\ Moved
          /\ \/ LoopPos(a, m, cy, s, insnAt', lc'[2], period')
             \/ LoopDone(a, m, cy, s, insnAt', period')
      BY <1>4, <2>1, <2>4, <2>5, LoopStep
    <2>7. CASE LoopPos(a, m, cy, s, insnAt', lc'[2], period')
      <3>1. PeriodPos(r, b, insnAt', lc'[2], ccrLen', period')
        BY <1>4, <2>6, <2>7 DEF PeriodPos, a, m, cy, s
      <3>2. QED
        BY <2>6, <3>1
    <2>8. CASE LoopDone(a, m, cy, s, insnAt', period')
      <3>1. insnAt' = b + DregsPlace(r) + 1
        BY <2>1, <2>3, <2>8 DEF LoopDone
      <3>2. period' = InAll(r)
        <4>1. s + 32 * (m * cy) = InAll(r)
          <5>1. InAll(r) = s + 32 * m
            BY <1>1 DEF s, m
          <5>2. QED
            BY <2>1, <5>1
        <4>2. QED
          BY <2>8, <4>1 DEF LoopDone
      <3>3. PeriodPos(r, b, insnAt', lc'[2], ccrLen', period')
        BY <2>6, <3>1, <3>2, AfterRest
      <3>4. QED
        BY <2>6, <3>3
    <2>9. QED
      BY <2>6, <2>7, <2>8
  <1>5. CASE WordsOf(r) # 0 /\ DregsPos(b + DregsPlace(r), WordsOf(r), InAll(r), insnAt, ccrLen, period)
    <2> DEFINE a == b + DregsPlace(r)
               words == WordsOf(r)
               s == InAll(r)
    <2>1. Dregging(code, r, a, words, s) /\ P!WholeWords(r) = s + 4 * words
      <3>1. LiesAt(code, a, P!Dregs(r, words))
        BY <1>5 DEF PeriodAt
      <3>2. a \in Nat /\ words \in Nat /\ s \in Nat /\ P!WholeWords(r) = s + 4 * words
        <4>1. a \in Nat
          BY <1>2
        <4>2. words \in Nat /\ s \in Nat /\ P!WholeWords(r) = s + 4 * words
          BY <1>1
        <4>3. QED
          BY <4>1, <4>2
      <3> HIDE DEF a, words, s
      <3>3. QED
        BY <1>1, <3>1, <3>2 DEF Dregging
    <2>2. EventPlace(r) = DregsPlace(r) + 6
      BY <1>5 DEF EventPlace
    <2>3. a + 6 = b + EventPlace(r)
      BY <1>2, <2>2
    <2>4. DregsPos(a, words, s, insnAt, ccrLen, period)
      BY <1>5
    <2> HIDE DEF a, words, s
    <2>5. /\ Counted /\ events' = events /\ Moved
          /\ \/ DregsPos(a, words, s, insnAt', ccrLen', period')
             \/ insnAt' = a + 6 + 1 /\ ccrLen' = 8 /\ period' = s + 4 * words
      BY <2>1, <2>4, DregsStep
    <2>6. CASE DregsPos(a, words, s, insnAt', ccrLen', period')
      <3>1. PeriodPos(r, b, insnAt', lc'[2], ccrLen', period')
        BY <1>5, <2>6 DEF PeriodPos, a, words, s
      <3>2. QED
        BY <2>5, <3>1
    <2>7. CASE insnAt' = a + 6 + 1 /\ ccrLen' = 8 /\ period' = s + 4 * words
      <3>1. insnAt' = b + EventPlace(r) + 1 /\ period' = P!WholeWords(r)
        BY <2>1, <2>3, <2>7
      <3>2. PeriodPos(r, b, insnAt', lc'[2], ccrLen', period')
        BY <2>7, <3>1, AfterDregs
      <3>3. QED
        BY <2>5, <3>2
    <2>8. QED
      BY <2>5, <2>6, <2>7
  <1>6. CASE ccrLen = 8 /\ insnAt = b + EventPlace(r) + 1 /\ period = P!WholeWords(r)
    <2>1. code[insnAt].op = "SEV"
      BY <1>6, InsnOps DEF PeriodAt
    <2>2. insnAt' = insnAt + 1 /\ period' = 0 /\ events' = events + 1 /\ UNCHANGED <<req, code, lc, ccrLen, moved>>
      BY <2>1, Executes
    <2>3. insnAt' = b + PeriodInsns(r) + 1
      BY <1>2, <1>6, <2>2
    <2>4. QED
      BY <1>6, <2>2, <2>3 DEF CountersType, Counted, Raised
  <1> DEFINE Goal ==
        /\ Counted
        /\ \/ PeriodPos(r, b, insnAt', lc'[2], ccrLen', period') /\ events' = events /\ Moved
           \/ Raised(r, b)
  <1>7. Goal
    <2> HIDE DEF Goal
    <2>1. QED
      BY <1>3, <1>4, <1>5, <1>6 DEF PeriodPos, Goal
  <1>8. QED
    BY <1>7

LEMMA PeriodWithin ==
  ASSUME NEW c, NEW r, Sane(r), 2 + 5 * CycOf(r) <= 255, NEW b \in Nat, PeriodAt(c, r, b), NEW at, NEW l, NEW ccr, NEW per,
         PeriodPos(r, b, at, l, ccr, per)
  PROVE  /\ at \in 1 .. b + PeriodInsns(r) /\ per \in 0 .. P!WholeWords(r)
         /\ c[at].op = "SEV" => per = P!WholeWords(r)
         /\ c[at].op # "LPFE"
  <1>1. /\ r.fromDevice \in BOOLEAN /\ InBursts(r) \in Nat /\ InAll(r) \in Nat /\ P!WholeWords(r) \in Nat
        /\ InAll(r) = InBursts(r) + 32 * RestOf(r) /\ P!WholeWords(r) = InAll(r) + 4 * WordsOf(r)
        /\ CountOf(r) \in 1 .. 256 /\ CycOf(r) \in Nat \ {0} /\ RestOf(r) \in 0 .. 255 /\ WordsOf(r) \in 0 .. 7
        /\ 2 + 5 * CycOf(r) <= 255
    BY SaneTypes, SaneBytes
  <1>2. /\ RestPlace(r) \in Nat /\ DregsPlace(r) \in Nat /\ EventPlace(r) \in Nat /\ PeriodInsns(r) = EventPlace(r) + 1
        /\ RestPlace(r) <= DregsPlace(r) /\ DregsPlace(r) <= EventPlace(r)
    BY SaneTypes
  <1>3. CASE LoopPos(b, CountOf(r), CycOf(r), 0, at, l, per)
    <2> DEFINE m == CountOf(r)
               cy == CycOf(r)
    <2>1. Looping(c, r, b, m, cy, 0)
      BY <1>1 DEF PeriodAt, Looping
    <2>2. RestPlace(r) = 3 * cy + 3 /\ InBursts(r) = 32 * (m * cy)
      BY DEF RestPlace, InBursts
    <2>3. LoopPos(b, m, cy, 0, at, l, per)
      BY <1>3
    <2> HIDE DEF m, cy
    <2>4. Within(c, at, b + (3 * cy + 3), per, 0, 0 + 32 * (m * cy))
      BY <2>1, <2>3, LoopWithin
    <2>5. Within(c, at, b + RestPlace(r), per, 0, 0 + InBursts(r))
      BY <2>2, <2>4
    <2>6. QED
      BY <1>1, <1>2, <2>5 DEF Within
  <1>4. CASE RestOf(r) # 0 /\ LoopPos(b + RestPlace(r), RestOf(r), 1, InBursts(r), at, l, per)
    <2> DEFINE a == b + RestPlace(r)
               m == RestOf(r)
               cy == 1
               s == InBursts(r)
    <2>1. Looping(c, r, a, m, cy, s) /\ 3 * cy + 3 = 6 /\ m * cy = m
      <3>1. LiesAt(c, a, P!BurstLoop(r, m, cy))
        BY <1>4 DEF PeriodAt
      <3>2. a \in Nat /\ m \in 1 .. 256 /\ s \in Nat
        <4>1. a \in Nat
          BY <1>2
        <4>2. m \in 1 .. 256 /\ s \in Nat
          BY <1>1, <1>4
        <4>3. QED
          BY <4>1, <4>2
      <3>3. cy \in Nat \ {0} /\ 2 + 5 * cy <= 255 /\ 3 * cy + 3 = 6
        OBVIOUS
      <3>4. m * cy = m
        <4> HIDE DEF m
        <4>1. QED
          BY <3>2
      <3> HIDE DEF a, m, cy, s
      <3>5. QED
        BY <1>1, <3>1, <3>2, <3>3, <3>4 DEF Looping
    <2>2. DregsPlace(r) = RestPlace(r) + 6
      BY <1>4 DEF DregsPlace
    <2>3. LoopPos(a, m, cy, s, at, l, per)
      BY <1>4
    <2> HIDE DEF cy
    <2>4. Within(c, at, a + (3 * cy + 3), per, s, s + 32 * (m * cy))
      <3> HIDE DEF a, m, s
      <3>1. QED
        BY <2>1, <2>3, LoopWithin
    <2>5. Within(c, at, a + 6, per, s, s + 32 * m)
      <3> HIDE DEF a, m, s
      <3>1. QED
        BY <2>1, <2>4
    <2>6. QED
      BY <1>1, <1>2, <2>2, <2>5 DEF Within
  <1>5. CASE WordsOf(r) # 0 /\ DregsPos(b + DregsPlace(r), WordsOf(r), InAll(r), at, ccr, per)
    <2> DEFINE a == b + DregsPlace(r)
               words == WordsOf(r)
               s == InAll(r)
    <2>1. Dregging(c, r, a, words, s)
      <3>1. LiesAt(c, a, P!Dregs(r, words))
        BY <1>5 DEF PeriodAt
      <3>2. a \in Nat /\ words \in Nat /\ s \in Nat
        BY <1>1, <1>2
      <3> HIDE DEF a, words, s
      <3>3. QED
        BY <1>1, <3>1, <3>2 DEF Dregging
    <2>2. EventPlace(r) = DregsPlace(r) + 6
      BY <1>5 DEF EventPlace
    <2>3. DregsPos(a, words, s, at, ccr, per)
      BY <1>5
    <2>4. Within(c, at, a + 6, per, s, s + 4 * words)
      <3> HIDE DEF a, words, s
      <3>1. QED
        BY <2>1, <2>3, DregsWithin
    <2>5. QED
      BY <1>1, <1>2, <2>2, <2>4 DEF Within
  <1>6. CASE at = b + EventPlace(r) + 1 /\ per = P!WholeWords(r)
    <2>1. c[at].op = "SEV"
      BY <1>6, InsnOps DEF PeriodAt
    <2>2. QED
      BY <1>1, <1>2, <1>6, <2>1
  <1>7. QED
    BY <1>3, <1>4, <1>5, <1>6 DEF PeriodPos

-----------------------------------------------------------------------------
(* A program executes.                                                     *)

\* Bytes and events of e periods that are through and of one that has moved per bytes.
Carried(r, e, per, mv, ev) == ev = e /\ mv = e * P!WholeWords(r) + per

\* In the turn q of loop 0 it executes the copy k of the period.
ProgramPos(r, at, l1, l2, ccr, per, mv, ev) ==
  \/ at = 1 /\ per = 0 /\ mv = 0 /\ ev = 0
  \/ at = 2 /\ ccr = 8 /\ per = 0 /\ mv \in 0 .. WholeLen(r) /\ ev \in Int
  \/ at \in {3, 4} /\ ccr = 8 /\ per = 0 /\ mv = 0 /\ ev = 0
  \/ \E q \in 0 .. Turns(r) - 1 : \E k \in 0 .. InLoop(r) - 1 :
       /\ l1 = Turns(r) - 1 - q /\ Carried(r, q * InLoop(r) + k, per, mv, ev)
       /\ PeriodPos(r, 4 + k * PeriodInsns(r), at, l2, ccr, per)
  \/ \E q \in 0 .. Turns(r) - 1 :
       /\ l1 = Turns(r) - 1 - q /\ Carried(r, q * InLoop(r) + InLoop(r), per, mv, ev)
       /\ at = LoopPlace(r) + 1 /\ ccr = 8 /\ per = 0
  \/ \E k \in 0 .. Extra(r) - 1 :
       /\ Carried(r, Turns(r) * InLoop(r) + k, per, mv, ev)
       /\ PeriodPos(r, TailPlace(r) + k * PeriodInsns(r), at, l2, ccr, per)
  \/ at = LastPlace(r) + 1 /\ ccr = 8 /\ per = 0 /\ Carried(r, P!NumPeriods(r), per, mv, ev)

Pos(r) == ProgramPos(r, insnAt, lc[1], lc[2], ccrLen, period, moved, events)
NextPos(r) == ProgramPos(r, insnAt', lc'[1], lc'[2], ccrLen', period', moved', events')

\* Where the copies of the period are.
LEMMA Copies ==
  ASSUME NEW r, Sane(r), NEW c, Layout(c, r)
  PROVE  /\ \A k \in 0 .. InLoop(r) - 1 :
              /\ 4 + k * PeriodInsns(r) \in Nat /\ 4 + k * PeriodInsns(r) + PeriodInsns(r) = 4 + (k + 1) * PeriodInsns(r)
              /\ 4 + k * PeriodInsns(r) + PeriodInsns(r) <= Len(c)
              /\ k + 1 = InLoop(r) => 4 + k * PeriodInsns(r) + PeriodInsns(r) = LoopPlace(r)
              /\ PeriodAt(c, r, 4 + k * PeriodInsns(r))
         /\ \A k \in 0 .. Extra(r) - 1 :
              /\ TailPlace(r) + k * PeriodInsns(r) \in Nat
              /\ TailPlace(r) + k * PeriodInsns(r) + PeriodInsns(r) = TailPlace(r) + (k + 1) * PeriodInsns(r)
              /\ TailPlace(r) + k * PeriodInsns(r) + PeriodInsns(r) <= Len(c)
              /\ k + 1 = Extra(r) => TailPlace(r) + k * PeriodInsns(r) + PeriodInsns(r) = LastPlace(r)
              /\ PeriodAt(c, r, TailPlace(r) + k * PeriodInsns(r))
         /\ LoopPlace(r) + 1 <= Len(c) /\ LastPlace(r) + 1 <= Len(c) /\ Len(c) \in Nat /\ 5 <= Len(c)
         /\ LoopPlace(r) \in Nat /\ 4 <= LoopPlace(r) /\ TailPlace(r) = LoopPlace(r) + 1
         /\ LastPlace(r) \in Nat /\ 1 <= LastPlace(r)
  <1> DEFINE L == PeriodInsns(r)
             p == InLoop(r)
             t == Extra(r)
             n == Len(c)
  <1>1. L \in Nat /\ p \in Nat /\ t \in Nat
    BY SaneTypes
  <1>2. /\ LoopPlace(r) = 4 + p * L /\ TailPlace(r) = LoopPlace(r) + 1 /\ LastPlace(r) = TailPlace(r) + t * L
        /\ n = LastPlace(r) + 1
    BY DEF LoopPlace, TailPlace, LastPlace, Layout
  <1>3. /\ \A d : \A b \in Nat : LiesAt(d, b, PeriodOf(r)) => PeriodAt(d, r, b)
    BY SaneTypes, PeriodLies
  <1>4. /\ \A k \in 0 .. p - 1 : LiesAt(c, 4 + k * L, PeriodOf(r))
        /\ \A k \in 0 .. t - 1 : LiesAt(c, TailPlace(r) + k * L, PeriodOf(r))
    BY DEF Layout
  <1> DEFINE lp == LoopPlace(r)
             tp == TailPlace(r)
             lst == LastPlace(r)
  <1>5. lp = 4 + p * L /\ tp = lp + 1 /\ lst = tp + t * L /\ n = lst + 1
    BY <1>2
  <1> HIDE DEF L, p, t, n, lp, tp, lst
  <1>6. p * L \in Nat /\ t * L \in Nat
    BY <1>1
  <1>7. /\ lp + 1 <= n /\ lst + 1 <= n /\ n \in Nat /\ 5 <= n /\ lp \in Nat /\ 4 <= lp /\ lst \in Nat /\ 1 <= lst
        /\ tp \in Nat /\ tp <= lst
    BY <1>5, <1>6
  <1>8. ASSUME NEW k \in 0 .. p - 1
        PROVE  /\ 4 + k * L \in Nat /\ 4 + k * L + L = 4 + (k + 1) * L /\ 4 + k * L + L <= n
               /\ k + 1 = p => 4 + k * L + L = lp
               /\ PeriodAt(c, r, 4 + k * L)
    <2>1. k * L \in Nat /\ (k + 1) * L = k * L + L
      BY <1>1, OneMore
    <2>2. (k + 1) * L <= p * L
      BY <1>1
    <2>3. 4 + k * L \in Nat
      BY <2>1
    <2>4. PeriodAt(c, r, 4 + k * L)
      BY <1>3, <1>4, <2>3
    <2> DEFINE x == k * L
               y == p * L
    <2>5. x \in Nat /\ (k + 1) * L = x + L /\ x + L <= y /\ y \in Nat /\ lp = 4 + y
      BY <1>5, <1>6, <2>1, <2>2
    <2>6. k + 1 = p => x + L = y
      BY <2>1
    <2> HIDE DEF x, y
    <2>7. 4 + x \in Nat /\ 4 + x + L = 4 + (k + 1) * L /\ 4 + x + L <= n /\ (k + 1 = p => 4 + x + L = lp)
      <3>1. 4 + x + L = 4 + (x + L) /\ 4 + x + L <= lp
        BY <1>1, <2>5
      <3>2. k + 1 = p => 4 + x + L = lp
        BY <2>5, <2>6, <3>1
      <3>3. 4 + x + L <= n /\ 4 + x \in Nat
        BY <1>1, <1>7, <2>5, <3>1
      <3>4. QED
        BY <2>5, <3>1, <3>2, <3>3
    <2>8. QED
      BY <2>4, <2>7 DEF x
  <1>9. ASSUME NEW k \in 0 .. t - 1
        PROVE  /\ tp + k * L \in Nat /\ tp + k * L + L = tp + (k + 1) * L /\ tp + k * L + L <= n
               /\ k + 1 = t => tp + k * L + L = lst
               /\ PeriodAt(c, r, tp + k * L)
    <2>1. k * L \in Nat /\ (k + 1) * L = k * L + L
      BY <1>1, OneMore
    <2>2. (k + 1) * L <= t * L
      BY <1>1
    <2>3. tp + k * L \in Nat
      BY <1>7, <2>1
    <2>4. PeriodAt(c, r, tp + k * L)
      BY <1>3, <1>4, <2>3 DEF tp
    <2> DEFINE x == k * L
               y == t * L
    <2>5. x \in Nat /\ (k + 1) * L = x + L /\ x + L <= y /\ y \in Nat /\ lst = tp + y
      BY <1>5, <1>6, <2>1, <2>2
    <2>6. k + 1 = t => x + L = y
      BY <2>1
    <2> HIDE DEF x, y
    <2>7. tp + x \in Nat /\ tp + x + L = tp + (k + 1) * L /\ tp + x + L <= n /\ (k + 1 = t => tp + x + L = lst)
      <3>1. tp + x + L = tp + (x + L) /\ tp + x + L <= lst
        BY <1>1, <1>7, <2>5
      <3>2. k + 1 = t => tp + x + L = lst
        BY <2>5, <2>6, <3>1
      <3>3. tp + x + L <= n /\ tp + x \in Nat
        BY <1>1, <1>7, <2>5, <3>1
      <3>4. QED
        BY <2>5, <3>1, <3>2, <3>3
    <2>8. QED
      BY <2>4, <2>7 DEF x
  <1>10. QED
    BY <1>2, <1>7, <1>8, <1>9 DEF L, p, t, n, lp, tp, lst

\* A period more.
LEMMA OnePeriodMore ==
  ASSUME NEW r, P!WholeWords(r) \in Nat, NEW e \in Int, NEW mv, NEW ev, Carried(r, e, P!WholeWords(r), mv, ev)
  PROVE  Carried(r, e + 1, 0, mv, ev + 1)
  <1> DEFINE W == P!WholeWords(r)
  <1>1. W \in Int /\ ev = e /\ mv = e * W + W
    BY DEF Carried
  <1> HIDE DEF W
  <1>2. (e + 1) * W = e * W + W /\ e * W \in Int
    BY <1>1, OneMore
  <1>3. mv = (e + 1) * W + 0 /\ ev + 1 = e + 1
    BY <1>1, <1>2
  <1>4. QED
    BY <1>3 DEF Carried, W

LEMMA StillCarried ==
  ASSUME NEW r, P!WholeWords(r) \in Nat, NEW e \in Int, NEW per \in Int, NEW mv, NEW ev, Carried(r, e, per, mv, ev),
         NEW per2 \in Int
  PROVE  Carried(r, e, per2, mv + (per2 - per), ev) /\ mv \in Int /\ ev \in Int
  <1> DEFINE x == e * P!WholeWords(r)
  <1>1. x \in Int /\ mv = x + per /\ ev = e
    BY DEF Carried
  <1> HIDE DEF x
  <1>2. mv + (per2 - per) = x + per2 /\ mv \in Int
    BY <1>1
  <1>3. QED
    BY <1>1, <1>2 DEF Carried, x

LEMMA TailBegins ==
  ASSUME NEW r, Sane(r), NEW l1, NEW l2, NEW mv, NEW ev, Carried(r, Turns(r) * InLoop(r), 0, mv, ev)
  PROVE  ProgramPos(r, TailPlace(r) + 1, l1, l2, 8, 0, mv, ev)
  <1> DEFINE x == Turns(r) * InLoop(r)
  <1>1. x \in Int /\ Extra(r) \in Nat /\ TailPlace(r) \in Nat /\ PeriodInsns(r) \in Nat
    BY SaneTypes
  <1>2. P!NumPeriods(r) = x + Extra(r)
    BY DEF Sane
  <1>3. Carried(r, x, 0, mv, ev)
    OBVIOUS
  <1> HIDE DEF x
  <1>4. CASE Extra(r) = 0
    <2>1. LastPlace(r) = TailPlace(r) /\ P!NumPeriods(r) = x
      <3>1. LastPlace(r) = TailPlace(r) + 0 * PeriodInsns(r) /\ 0 * PeriodInsns(r) = 0
        BY <1>1, <1>4 DEF LastPlace
      <3>2. QED
        BY <1>1, <1>2, <1>4, <3>1
    <2>2. QED
      BY <1>3, <2>1 DEF ProgramPos
  <1>5. CASE Extra(r) # 0
    <2>1. 0 \in 0 .. Extra(r) - 1 /\ TailPlace(r) + 0 * PeriodInsns(r) = TailPlace(r) /\ x + 0 = x
      BY <1>1, <1>5
    <2>2. PeriodPos(r, TailPlace(r) + 0 * PeriodInsns(r), TailPlace(r) + 1, l2, 8, 0)
      BY <2>1, PeriodBegins
    <2>3. \E k \in 0 .. Extra(r) - 1 :
            /\ Carried(r, x + k, 0, mv, ev)
            /\ PeriodPos(r, TailPlace(r) + k * PeriodInsns(r), TailPlace(r) + 1, l2, 8, 0)
      BY <1>3, <2>1, <2>2
    <2>4. QED
      BY <2>3 DEF ProgramPos, x
  <1>6. QED
    BY <1>4, <1>5

LEMMA TurnBegins ==
  ASSUME NEW r, Sane(r), NEW q \in 0 .. Turns(r) - 1, NEW l2, NEW mv, NEW ev, Carried(r, q * InLoop(r), 0, mv, ev)
  PROVE  ProgramPos(r, 5, Turns(r) - 1 - q, l2, 8, 0, mv, ev)
  <1>1. q * InLoop(r) \in Int /\ InLoop(r) \in Nat \ {0} /\ PeriodInsns(r) \in Nat
    BY SaneTypes DEF Sane
  <1>2. 0 \in 0 .. InLoop(r) - 1 /\ 4 + 0 * PeriodInsns(r) = 4 /\ 4 + 1 = 5
    BY <1>1
  <1>3. q * InLoop(r) + 0 = q * InLoop(r)
    BY <1>1
  <1>4. PeriodPos(r, 4 + 0 * PeriodInsns(r), 5, l2, 8, 0)
    BY <1>2, PeriodBegins
  <1>5. \E k \in 0 .. InLoop(r) - 1 :
          Carried(r, q * InLoop(r) + k, 0, mv, ev) /\ PeriodPos(r, 4 + k * PeriodInsns(r), 5, l2, 8, 0)
    BY <1>2, <1>3, <1>4
  <1>6. QED
    BY <1>5 DEF ProgramPos

\* A step in the copy of the period behind place b.
LEMMA CopyStep ==
  ASSUME P!Next, code \in Seq(Insns), CountersType, NEW r, Sane(r), 2 + 5 * CycOf(r) <= 255, NEW b \in Nat,
         b + PeriodInsns(r) <= Len(code), PeriodAt(code, r, b), PeriodPos(r, b, insnAt, lc[2], ccrLen, period),
         NEW e \in Int, Carried(r, e, period, moved, events)
  PROVE  /\ Counted
         /\ \/ PeriodPos(r, b, insnAt', lc'[2], ccrLen', period') /\ Carried(r, e, period', moved', events')
            \/ /\ insnAt' = b + PeriodInsns(r) + 1 /\ ccrLen' = 8 /\ period' = 0
               /\ Carried(r, e + 1, 0, moved', events')
  <1>1. period \in Int /\ P!WholeWords(r) \in Nat
    BY PeriodWithin, SaneBytes
  <1>2. moved \in Int /\ events \in Int
    BY <1>1, StillCarried
  <1>3. /\ Counted
        /\ \/ PeriodPos(r, b, insnAt', lc'[2], ccrLen', period') /\ events' = events /\ Moved
           \/ Raised(r, b)
    BY <1>1, <1>2, PeriodStep
  <1>4. CASE PeriodPos(r, b, insnAt', lc'[2], ccrLen', period') /\ events' = events /\ Moved
    <2>1. Carried(r, e, period', moved', events')
      <3>1. period' \in Int /\ moved' = moved + (period' - period) /\ events' = events
        BY <1>4 DEF Moved
      <3>2. Carried(r, e, period', moved + (period' - period), events)
        BY <1>1, <3>1, StillCarried
      <3>3. QED
        BY <3>1, <3>2
    <2>2. QED
      BY <1>3, <1>4, <2>1
  <1>5. CASE Raised(r, b)
    <2>1. insnAt' = b + PeriodInsns(r) + 1 /\ period = P!WholeWords(r) /\ period' = 0 /\ ccrLen' = 8 /\ events' = events + 1
          /\ moved' = moved
      BY <1>5 DEF Raised
    <2>2. Carried(r, e + 1, 0, moved, events + 1)
      BY <1>1, <2>1, OnePeriodMore
    <2>3. QED
      BY <1>3, <2>1, <2>2
  <1>6. QED
    BY <1>3, <1>4, <1>5

LEMMA PosStep ==
  ASSUME P!Next, NEW r, Sane(r), Layout(code, r), CountersType, Pos(r)
  PROVE  UNCHANGED <<req, code>> /\ CountersType' /\ NextPos(r)
  <1> DEFINE L == PeriodInsns(r)
             p == InLoop(r)
             N == Turns(r)
             t == Extra(r)
             n == Len(code)
  <1>1. /\ code \in Seq(Insns) /\ 2 + 5 * CycOf(r) <= 255 /\ code[1] = P!MOVCCR(P!BurstLen) /\ code[2] = P!Plain("SAR", 6)
        /\ code[3] = P!Plain("DAR", 6) /\ code[4] = P!LP(0, N)
        /\ \E z : code[LoopPlace(r) + 1] = P!LPEND(0, z) /\ Back(code, 4, LoopPlace(r), z)
        /\ \E z : code[LastPlace(r) + 1] = P!LPFE(z) /\ Back(code, 1, LastPlace(r), z)
    BY DEF Layout
  <1>2. /\ p \in Nat \ {0} /\ N \in 1 .. 256 /\ t \in 0 .. p - 1 /\ P!NumPeriods(r) = N * p + t
        /\ P!WholeWords(r) \in Nat /\ WholeLen(r) = P!NumPeriods(r) * P!WholeWords(r) /\ P!NumPeriods(r) \in Nat \ {0}
    BY DEF Sane
  <1>3. /\ \A k \in 0 .. p - 1 :
             /\ 4 + k * L \in Nat /\ 4 + k * L + L = 4 + (k + 1) * L /\ 4 + k * L + L <= n
             /\ k + 1 = p => 4 + k * L + L = LoopPlace(r)
             /\ PeriodAt(code, r, 4 + k * L)
        /\ \A k \in 0 .. t - 1 :
             /\ TailPlace(r) + k * L \in Nat /\ TailPlace(r) + k * L + L = TailPlace(r) + (k + 1) * L
             /\ TailPlace(r) + k * L + L <= n
             /\ k + 1 = t => TailPlace(r) + k * L + L = LastPlace(r)
             /\ PeriodAt(code, r, TailPlace(r) + k * L)
        /\ LoopPlace(r) + 1 <= n /\ LastPlace(r) + 1 <= n /\ n \in Nat /\ 5 <= n
        /\ LoopPlace(r) \in Nat /\ 4 <= LoopPlace(r) /\ TailPlace(r) = LoopPlace(r) + 1
        /\ LastPlace(r) \in Nat /\ 1 <= LastPlace(r)
    BY Copies
  <1>4. lc \in [1 .. 2 -> Int] /\ lc[1] \in Int
    BY DEF CountersType
  <1> DEFINE Goal == UNCHANGED <<req, code>> /\ lc' \in [1 .. 2 -> Int] /\ NextPos(r)
  <1>5. ASSUME insnAt = 1 /\ period = 0 /\ moved = 0 /\ events = 0
        PROVE  Goal
    <2>1. code[insnAt].op = "CCR" /\ code[insnAt].len = 8
      <3>1. P!MOVCCR(8).op = "CCR" /\ P!MOVCCR(8).len = 8
        BY JumpOps
      <3>2. code[insnAt] = P!MOVCCR(8)
        BY <1>1, <1>5 DEF P!BurstLen
      <3>3. QED
        BY <3>1, <3>2
    <2>2. insnAt' = insnAt + 1 /\ ccrLen' = 8 /\ UNCHANGED <<req, code, lc, period, moved, events>>
      BY <2>1, Executes
    <2>3. insnAt' = 2 /\ ccrLen' = 8 /\ period' = 0 /\ moved' \in 0 .. WholeLen(r) /\ events' \in Int
      <3>1. WholeLen(r) \in Nat
        BY <1>2
      <3>2. QED
        BY <1>5, <2>2, <3>1
    <2>4. NextPos(r)
      BY <2>3 DEF NextPos, ProgramPos
    <2>5. QED
      BY <1>4, <2>2, <2>4
  <1>6. ASSUME insnAt = 2 /\ ccrLen = 8 /\ period = 0 /\ moved \in 0 .. WholeLen(r)
        PROVE  Goal
    <2>1. code[insnAt].op = "SAR"
      BY <1>1, <1>6, InsnOps
    <2>2. insnAt' = insnAt + 1 /\ moved' = 0 /\ events' = 0 /\ UNCHANGED <<req, code, lc, ccrLen, period>>
      BY <2>1, Executes
    <2>3. insnAt' \in {3, 4} /\ ccrLen' = 8 /\ period' = 0 /\ moved' = 0 /\ events' = 0
      BY <1>6, <2>2
    <2>4. NextPos(r)
      BY <2>3 DEF NextPos, ProgramPos
    <2>5. QED
      BY <1>4, <2>2, <2>4
  <1>7. ASSUME insnAt = 3 /\ ccrLen = 8 /\ period = 0 /\ moved = 0 /\ events = 0
        PROVE  Goal
    <2>1. code[insnAt].op = "DAR"
      BY <1>1, <1>7, InsnOps
    <2>2. insnAt' = insnAt + 1 /\ moved' = 0 /\ events' = 0 /\ UNCHANGED <<req, code, lc, ccrLen, period>>
      BY <2>1, Executes
    <2>3. insnAt' \in {3, 4} /\ ccrLen' = 8 /\ period' = 0 /\ moved' = 0 /\ events' = 0
      BY <1>7, <2>2
    <2>4. NextPos(r)
      BY <2>3 DEF NextPos, ProgramPos
    <2>5. QED
      BY <1>4, <2>2, <2>4
  <1>8. ASSUME insnAt = 4 /\ ccrLen = 8 /\ period = 0 /\ moved = 0 /\ events = 0
        PROVE  Goal
    <2>1. code[insnAt].op = "LP" /\ code[insnAt].loop = 0
      BY <1>1, <1>8, JumpOps
    <2>2. code[insnAt].cnt = N - 1
      <3> HIDE DEF N
      <3>1. P!LP(0, N).cnt = N - 1
        BY <1>2, LoopCount
      <3>2. QED
        BY <1>1, <1>8, <3>1
    <2> HIDE DEF N
    <2>3. /\ insnAt' = insnAt + 1 /\ lc' = [lc EXCEPT ![0 + 1] = N - 1]
          /\ UNCHANGED <<req, code, ccrLen, period, moved, events>>
      BY <2>1, <2>2, Executes
    <2>4. lc' \in [1 .. 2 -> Int] /\ lc'[1] = N - 1 - 0 /\ 0 \in 0 .. N - 1
      BY <1>2, <1>4, <2>3
    <2>5. Carried(r, 0 * p, 0, moved', events')
      <3>1. 0 * p = 0 /\ 0 * P!WholeWords(r) + 0 = 0
        BY <1>2
      <3>2. QED
        BY <1>8, <2>3, <3>1 DEF Carried
    <2>6. ProgramPos(r, 5, N - 1 - 0, lc'[2], 8, 0, moved', events')
      BY <2>4, <2>5, TurnBegins DEF N
    <2>7. NextPos(r)
      <3>1. insnAt' = 5 /\ ccrLen' = 8 /\ period' = 0
        BY <1>8, <2>3
      <3>2. QED
        BY <2>4, <2>6, <3>1 DEF NextPos
    <2>8. QED
      BY <2>3, <2>4, <2>7
  <1>9. ASSUME NEW q \in 0 .. N - 1, NEW k \in 0 .. p - 1, lc[1] = N - 1 - q,
               Carried(r, q * p + k, period, moved, events),
               PeriodPos(r, 4 + k * L, insnAt, lc[2], ccrLen, period)
        PROVE  Goal
    <2> DEFINE b == 4 + k * L
               e == q * p + k
    <2>1. e \in Int /\ q * p \in Int
      BY <1>2
    <2>2. b \in Nat /\ b + L = 4 + (k + 1) * L /\ b + L <= n /\ (k + 1 = p => b + L = LoopPlace(r)) /\ PeriodAt(code, r, b)
      BY <1>3
    <2>3. PeriodPos(r, b, insnAt, lc[2], ccrLen, period) /\ Carried(r, e, period, moved, events)
      BY <1>9
    <2> HIDE DEF b, e, N
    <2>4. /\ Counted
          /\ \/ PeriodPos(r, b, insnAt', lc'[2], ccrLen', period') /\ Carried(r, e, period', moved', events')
             \/ /\ insnAt' = b + L + 1 /\ ccrLen' = 8 /\ period' = 0
                /\ Carried(r, e + 1, 0, moved', events')
      BY <1>1, <2>1, <2>2, <2>3, CopyStep
    <2>5. UNCHANGED <<req, code>> /\ lc' \in [1 .. 2 -> Int] /\ lc'[1] = N - 1 - q
      BY <1>9, <2>4 DEF Counted
    <2>6. CASE PeriodPos(r, b, insnAt', lc'[2], ccrLen', period') /\ Carried(r, e, period', moved', events')
      <3>1. NextPos(r)
        BY <2>5, <2>6 DEF NextPos, ProgramPos, b, e, N
      <3>2. QED
        BY <2>5, <3>1
    <2>7. CASE insnAt' = b + L + 1 /\ ccrLen' = 8 /\ period' = 0 /\ Carried(r, e + 1, 0, moved', events') /\ k + 1 = p
      <3>1. insnAt' = LoopPlace(r) + 1 /\ e + 1 = q * p + p
        <4>1. e + 1 = q * p + (k + 1)
          BY <2>1 DEF e
        <4>2. QED
          BY <2>2, <2>7, <4>1
      <3>2. NextPos(r)
        BY <2>5, <2>7, <3>1 DEF NextPos, ProgramPos, N
      <3>3. QED
        BY <2>5, <3>2
    <2>8. CASE insnAt' = b + L + 1 /\ ccrLen' = 8 /\ period' = 0 /\ Carried(r, e + 1, 0, moved', events') /\ k + 1 # p
      <3> DEFINE h == k + 1
      <3>1. h \in 0 .. p - 1
        BY <1>2, <2>8
      <3>2. insnAt' = 4 + h * L + 1 /\ e + 1 = q * p + h
        <4>1. e + 1 = q * p + h
          BY <2>1 DEF e
        <4>2. QED
          BY <2>2, <2>8, <4>1
      <3> HIDE DEF h
      <3>3. PeriodPos(r, 4 + h * L, insnAt', lc'[2], ccrLen', period')
        BY <2>8, <3>2, PeriodBegins
      <3>4. Carried(r, q * p + h, period', moved', events')
        BY <2>8, <3>2
      <3>5. NextPos(r)
        BY <2>5, <3>1, <3>3, <3>4 DEF NextPos, ProgramPos, N
      <3>6. QED
        BY <2>5, <3>5
    <2>9. QED
      BY <2>4, <2>6, <2>7, <2>8
  <1>10. ASSUME NEW q \in 0 .. N - 1, lc[1] = N - 1 - q, Carried(r, q * p + p, period, moved, events),
                insnAt = LoopPlace(r) + 1, ccrLen = 8, period = 0
         PROVE  Goal
    <2> DEFINE lp == LoopPlace(r)
    <2>1. lp \in Nat /\ 4 <= lp /\ lp + 1 <= n /\ insnAt = lp + 1 /\ TailPlace(r) = lp + 1
      BY <1>3, <1>10
    <2>2. PICK z : code[lp + 1] = P!LPEND(0, z) /\ Back(code, 4, lp, z)
      BY <1>1
    <2> HIDE DEF lp, N
    <2>3. code[insnAt].op = "LPEND" /\ code[insnAt].loop = 0 /\ code[insnAt].bjump = z % 256
      BY <2>1, <2>2, JumpOps
    <2>4. P!Target(insnAt, z % 256) = 5
      <3> DEFINE a == 4
      <3>1. a \in Nat /\ a + 1 = 5 /\ a <= lp /\ Back(code, a, lp, z)
        BY <2>1, <2>2
      <3> HIDE DEF a
      <3>2. P!Target(lp + 1, z % 256) = a + 1
        BY <1>1, <2>1, <3>1, Landing
      <3>3. QED
        BY <2>1, <3>1, <3>2
    <2>5. /\ UNCHANGED <<req, code, ccrLen, period, moved, events>>
          /\ lc[1] = 0 => insnAt' = insnAt + 1 /\ UNCHANGED lc
          /\ lc[1] # 0 => insnAt' = 5 /\ lc' = [lc EXCEPT ![1] = @ - 1]
      <3>1. 0 + 1 = 1
        OBVIOUS
      <3>2. QED
        BY <2>3, <2>4, <3>1, Executes
    <2>6. (q + 1) * p = q * p + p
      BY <1>2, OneMore
    <2>7. CASE lc[1] = 0
      <3>1. q + 1 = N
        BY <1>2, <1>10, <2>7
      <3>2. Carried(r, N * p, 0, moved', events')
        BY <1>10, <2>5, <2>6, <3>1
      <3>3. ProgramPos(r, TailPlace(r) + 1, lc'[1], lc'[2], 8, 0, moved', events')
        BY <3>2, TailBegins DEF N
      <3>4. insnAt' = TailPlace(r) + 1 /\ ccrLen' = 8 /\ period' = 0
        BY <1>10, <2>1, <2>5, <2>7
      <3>5. NextPos(r)
        BY <3>3, <3>4 DEF NextPos
      <3>6. QED
        BY <1>4, <2>5, <2>7, <3>5
    <2>8. CASE lc[1] # 0
      <3> DEFINE h == q + 1
      <3>1. h \in 0 .. N - 1 /\ lc[1] - 1 = N - 1 - h
        BY <1>2, <1>10, <2>8
      <3>2. Carried(r, h * p, 0, moved', events')
        BY <1>10, <2>5, <2>6
      <3> HIDE DEF h
      <3>3. lc' \in [1 .. 2 -> Int] /\ lc'[1] = N - 1 - h
        BY <1>4, <2>5, <2>8, <3>1
      <3>4. ProgramPos(r, 5, N - 1 - h, lc'[2], 8, 0, moved', events')
        BY <3>1, <3>2, TurnBegins DEF N
      <3>5. insnAt' = 5 /\ ccrLen' = 8 /\ period' = 0
        BY <1>10, <2>5, <2>8
      <3>6. NextPos(r)
        BY <3>3, <3>4, <3>5 DEF NextPos
      <3>7. QED
        BY <2>5, <3>3, <3>6
    <2>9. QED
      BY <2>7, <2>8
  <1>11. ASSUME NEW k \in 0 .. t - 1, Carried(r, N * p + k, period, moved, events),
                PeriodPos(r, TailPlace(r) + k * L, insnAt, lc[2], ccrLen, period)
         PROVE  Goal
    <2> DEFINE b == TailPlace(r) + k * L
               e == N * p + k
               x == N * p
    <2>1. e \in Int /\ x \in Int
      BY <1>2
    <2>2. b \in Nat /\ b + L = TailPlace(r) + (k + 1) * L /\ b + L <= n /\ (k + 1 = t => b + L = LastPlace(r)) /\ PeriodAt(code, r, b)
      BY <1>3
    <2>3. PeriodPos(r, b, insnAt, lc[2], ccrLen, period) /\ Carried(r, e, period, moved, events)
      BY <1>11
    <2>4. e = x + k /\ P!NumPeriods(r) = x + t
      BY <1>2
    <2> HIDE DEF b, e, x
    <2>5. /\ Counted
          /\ \/ PeriodPos(r, b, insnAt', lc'[2], ccrLen', period') /\ Carried(r, e, period', moved', events')
             \/ /\ insnAt' = b + L + 1 /\ ccrLen' = 8 /\ period' = 0
                /\ Carried(r, e + 1, 0, moved', events')
      BY <1>1, <2>1, <2>2, <2>3, CopyStep
    <2>6. UNCHANGED <<req, code>> /\ lc' \in [1 .. 2 -> Int]
      BY <2>5 DEF Counted
    <2>7. CASE PeriodPos(r, b, insnAt', lc'[2], ccrLen', period') /\ Carried(r, e, period', moved', events')
      <3>1. NextPos(r)
        BY <2>7 DEF NextPos, ProgramPos, b, e
      <3>2. QED
        BY <2>6, <3>1
    <2>8. CASE insnAt' = b + L + 1 /\ ccrLen' = 8 /\ period' = 0 /\ Carried(r, e + 1, 0, moved', events') /\ k + 1 = t
      <3>1. insnAt' = LastPlace(r) + 1 /\ e + 1 = P!NumPeriods(r)
        <4>1. e + 1 = x + (k + 1)
          BY <2>1, <2>4
        <4>2. QED
          BY <2>2, <2>8, <2>4, <4>1
      <3>2. NextPos(r)
        BY <2>8, <3>1 DEF NextPos, ProgramPos
      <3>3. QED
        BY <2>6, <3>2
    <2>9. CASE insnAt' = b + L + 1 /\ ccrLen' = 8 /\ period' = 0 /\ Carried(r, e + 1, 0, moved', events') /\ k + 1 # t
      <3> DEFINE h == k + 1
      <3>1. h \in 0 .. t - 1
        BY <1>2, <2>9
      <3>2. insnAt' = TailPlace(r) + h * L + 1 /\ e + 1 = x + h
        <4>1. e + 1 = x + h
          BY <2>1, <2>4
        <4>2. QED
          BY <2>2, <2>9, <4>1
      <3> HIDE DEF h
      <3>3. PeriodPos(r, TailPlace(r) + h * L, insnAt', lc'[2], ccrLen', period')
        BY <2>9, <3>2, PeriodBegins
      <3>4. Carried(r, x + h, period', moved', events')
        BY <2>9, <3>2
      <3>5. NextPos(r)
        BY <3>1, <3>3, <3>4 DEF NextPos, ProgramPos, x
      <3>6. QED
        BY <2>6, <3>5
    <2>10. QED
      BY <2>5, <2>7, <2>8, <2>9
  <1>12. ASSUME insnAt = LastPlace(r) + 1 /\ ccrLen = 8 /\ period = 0 /\ Carried(r, P!NumPeriods(r), period, moved, events)
        PROVE  Goal
    <2> DEFINE lst == LastPlace(r)
    <2>1. lst \in Nat /\ 1 <= lst /\ lst + 1 <= n /\ insnAt = lst + 1
      BY <1>3, <1>12
    <2>2. PICK z : code[lst + 1] = P!LPFE(z) /\ Back(code, 1, lst, z)
      BY <1>1
    <2> HIDE DEF lst
    <2>3. code[insnAt].op = "LPFE" /\ code[insnAt].bjump = z % 256
      BY <2>1, <2>2, JumpOps
    <2>4. P!Target(insnAt, z % 256) = 2
      <3>1. 1 \in Nat /\ 1 + 1 = 2
        OBVIOUS
      <3>2. P!Target(lst + 1, z % 256) = 1 + 1
        BY <1>1, <2>1, <2>2, <3>1, Landing
      <3>3. QED
        BY <2>1, <3>1, <3>2
    <2>5. insnAt' = 2 /\ UNCHANGED <<req, code, lc, ccrLen, period, moved, events>>
      BY <2>3, <2>4, Executes
    <2>6. moved = WholeLen(r) /\ WholeLen(r) \in Nat /\ events \in Int
      <3>1. moved = P!NumPeriods(r) * P!WholeWords(r) + 0 /\ P!NumPeriods(r) * P!WholeWords(r) \in Nat /\ events \in Int
        BY <1>2, <1>12 DEF Carried
      <3>2. QED
        BY <1>2, <3>1
    <2>7. NextPos(r)
      BY <1>12, <2>5, <2>6 DEF NextPos, ProgramPos
    <2>8. QED
      BY <1>4, <2>5, <2>7
  <1>13. Goal
    <2> HIDE DEF Goal, p, N, t, L
    <2>1. \/ insnAt = 1 /\ period = 0 /\ moved = 0 /\ events = 0
          \/ insnAt = 2 /\ ccrLen = 8 /\ period = 0 /\ moved \in 0 .. WholeLen(r)
          \/ insnAt = 3 /\ ccrLen = 8 /\ period = 0 /\ moved = 0 /\ events = 0
          \/ insnAt = 4 /\ ccrLen = 8 /\ period = 0 /\ moved = 0 /\ events = 0
          \/ \E q \in 0 .. N - 1 : \E k \in 0 .. p - 1 :
               /\ lc[1] = N - 1 - q /\ Carried(r, q * p + k, period, moved, events)
               /\ PeriodPos(r, 4 + k * L, insnAt, lc[2], ccrLen, period)
          \/ \E q \in 0 .. N - 1 :
               /\ lc[1] = N - 1 - q /\ Carried(r, q * p + p, period, moved, events)
               /\ insnAt = LoopPlace(r) + 1 /\ ccrLen = 8 /\ period = 0
          \/ \E k \in 0 .. t - 1 :
               /\ Carried(r, N * p + k, period, moved, events)
               /\ PeriodPos(r, TailPlace(r) + k * L, insnAt, lc[2], ccrLen, period)
          \/ insnAt = LastPlace(r) + 1 /\ ccrLen = 8 /\ period = 0 /\ Carried(r, P!NumPeriods(r), period, moved, events)
      BY DEF Pos, ProgramPos, p, N, t, L
    <2>2. QED
      BY <1>5, <1>6, <1>7, <1>8, <1>9, <1>10, <1>11, <1>12, <2>1
  <1>14. QED
    BY <1>13 DEF CountersType

\* Nothing beyond the buffer.
LEMMA WithinBuffer ==
  ASSUME NEW r, Sane(r), NEW e \in Int, e + 1 <= P!NumPeriods(r), NEW per \in 0 .. P!WholeWords(r), NEW mv, NEW ev,
         Carried(r, e, per, mv, ev)
  PROVE  mv <= r.len
  <1> DEFINE W == P!WholeWords(r)
             n == P!NumPeriods(r)
  <1>1. W \in Nat /\ n \in Int /\ WholeLen(r) = n * W /\ mv = e * W + per /\ per \in 0 .. W /\ e + 1 <= n
    BY DEF Sane, Carried
  <1>4. WholeLen(r) <= r.len /\ r.len \in Nat
    BY DEF Sane
  <1> HIDE DEF W, n
  <1>2. (e + 1) * W = e * W + W /\ (e + 1) * W <= n * W /\ e * W \in Int /\ n * W \in Int
    BY <1>1, OneMore
  <1>3. QED
    BY <1>1, <1>2, <1>4

LEMMA InTurns ==
  ASSUME NEW n \in Nat, NEW p \in Nat, NEW t \in Nat, NEW q \in 0 .. n - 1, NEW k \in 0 .. p - 1
  PROVE  q * p + k \in Int /\ q * p \in Int /\ q * p + k + 1 <= n * p + t
  <1>1. (q + 1) * p = q * p + p /\ (q + 1) * p <= n * p /\ q * p \in Int /\ n * p \in Int
    BY OneMore
  <1>2. QED
    BY <1>1

LEMMA PosHolds ==
  ASSUME NEW r, Sane(r), Layout(code, r), req = r, CountersType, Pos(r)
  PROVE  P!JumpsLand /\ P!EventPerPeriod /\ P!BufferCovered /\ P!ProgramFits
  <1> DEFINE L == PeriodInsns(r)
             p == InLoop(r)
             N == Turns(r)
             t == Extra(r)
             n == Len(code)
             all == P!NumPeriods(r)
             op == code[insnAt].op
  <1>1. /\ code \in Seq(Insns) /\ P!Size(code) <= P!MCBufSz /\ 2 + 5 * CycOf(r) <= 255 /\ code[1] = P!MOVCCR(P!BurstLen) /\ code[2] = P!Plain("SAR", 6)
        /\ code[3] = P!Plain("DAR", 6) /\ code[4] = P!LP(0, N)
        /\ \E z : code[LoopPlace(r) + 1] = P!LPEND(0, z) /\ Back(code, 4, LoopPlace(r), z)
        /\ \E z : code[LastPlace(r) + 1] = P!LPFE(z) /\ Back(code, 1, LastPlace(r), z)
    BY DEF Layout
  <1>2. /\ p \in Nat \ {0} /\ N \in 1 .. 256 /\ t \in 0 .. p - 1 /\ all = N * p + t
        /\ P!WholeWords(r) \in Nat /\ WholeLen(r) = all * P!WholeWords(r) /\ all \in Nat \ {0}
    BY DEF Sane
  <1>3. /\ \A k \in 0 .. p - 1 : 4 + k * L \in Nat /\ 4 + k * L + L <= n /\ PeriodAt(code, r, 4 + k * L)
        /\ \A k \in 0 .. t - 1 : /\ TailPlace(r) + k * L \in Nat /\ TailPlace(r) + k * L + L <= n
                                 /\ PeriodAt(code, r, TailPlace(r) + k * L)
        /\ LoopPlace(r) + 1 <= n /\ LastPlace(r) + 1 <= n /\ n \in Nat /\ 5 <= n
        /\ LoopPlace(r) \in Nat /\ LastPlace(r) \in Nat /\ L \in Nat
    BY Copies, SaneTypes
  <1>4. WholeLen(r) \in Nat /\ r.len \in Nat /\ WholeLen(r) <= r.len
    BY <1>2 DEF Sane
  <1> DEFINE Goal == /\ insnAt \in 1 .. n
                     /\ op = "SEV" => period = P!WholeWords(r)
                     /\ moved <= r.len
                     /\ op = "LPFE" => moved = WholeLen(r) /\ events = all
  <1>5. ASSUME insnAt \in 1 .. 4, moved \in 0 .. WholeLen(r)
        PROVE  Goal
    <2>1. insnAt = 1 \/ insnAt = 2 \/ insnAt = 3 \/ insnAt = 4
      BY <1>5
    <2>2. op \in {"CCR", "SAR", "DAR", "LP"}
      <3>1. P!MOVCCR(P!BurstLen).op = "CCR" /\ P!LP(0, N).op = "LP"
        BY JumpOps
      <3>2. P!Plain("SAR", 6).op = "SAR" /\ P!Plain("DAR", 6).op = "DAR"
        BY InsnOps
      <3>3. QED
        BY <1>1, <2>1, <3>1, <3>2
    <2>3. insnAt \in 1 .. n
      BY <1>3, <1>5
    <2> HIDE DEF op
    <2>4. QED
      BY <1>4, <1>5, <2>2, <2>3
  <1>6. ASSUME NEW b \in Nat, b + L <= n, PeriodAt(code, r, b), PeriodPos(r, b, insnAt, lc[2], ccrLen, period),
               NEW e \in Int, e + 1 <= all, Carried(r, e, period, moved, events)
        PROVE  Goal
    <2>1. insnAt \in 1 .. b + L /\ period \in 0 .. P!WholeWords(r) /\ (op = "SEV" => period = P!WholeWords(r)) /\ op # "LPFE"
      BY <1>1, <1>6, PeriodWithin
    <2>2. moved <= r.len
      BY <1>6, <2>1, WithinBuffer
    <2> HIDE DEF op
    <2>3. insnAt \in 1 .. n
      BY <1>3, <1>6, <2>1
    <2>4. QED
      BY <2>1, <2>2, <2>3
  <1>7. ASSUME NEW q \in 0 .. N - 1, NEW k \in 0 .. p - 1, Carried(r, q * p + k, period, moved, events),
               PeriodPos(r, 4 + k * L, insnAt, lc[2], ccrLen, period)
        PROVE  Goal
    <2> DEFINE b == 4 + k * L
               e == q * p + k
    <2>1. b \in Nat /\ b + L <= n /\ PeriodAt(code, r, b) /\ PeriodPos(r, b, insnAt, lc[2], ccrLen, period)
      BY <1>3, <1>7
    <2>2. e \in Int /\ e + 1 <= all
      <3>1. N \in Nat /\ p \in Nat /\ t \in Nat /\ all = N * p + t
        BY <1>2
      <3> HIDE DEF N, p, t, all
      <3>2. q * p + k \in Int /\ q * p + k + 1 <= N * p + t
        BY <1>7, <3>1, InTurns
      <3>3. QED
        BY <3>1, <3>2
    <2>3. Carried(r, e, period, moved, events)
      BY <1>7
    <2> HIDE DEF b, e, Goal
    <2>4. QED
      BY <1>6, <2>1, <2>2, <2>3
  <1>8. ASSUME NEW q \in 0 .. N - 1, Carried(r, q * p + p, period, moved, events), insnAt = LoopPlace(r) + 1, period = 0
        PROVE  Goal
    <2>1. op = "LPEND"
      <3>1. PICK z : code[LoopPlace(r) + 1] = P!LPEND(0, z)
        BY <1>1
      <3>2. P!LPEND(0, z).op = "LPEND"
        BY JumpOps
      <3>3. QED
        BY <1>8, <3>1, <3>2
    <2>2. moved <= r.len
      <3> DEFINE k == p - 1
                 e == q * p + p
      <3>1. k \in 0 .. p - 1 /\ k + 1 = p
        BY <1>2
      <3>2. q * p + k + 1 <= all /\ q * p \in Int
        <4>1. N \in Nat /\ p \in Nat /\ t \in Nat /\ all = N * p + t
          BY <1>2
        <4> HIDE DEF k, N, p, t, all
        <4>2. q * p + k + 1 <= N * p + t /\ q * p \in Int
          BY <1>8, <3>1, <4>1, InTurns
        <4>3. QED
          BY <4>1, <4>2
      <3>3. e \in Int /\ e <= all
        BY <1>2, <3>2
      <3>4. e * P!WholeWords(r) <= all * P!WholeWords(r)
        BY <1>2, <3>3
      <3>5. moved = e * P!WholeWords(r) + 0
        BY <1>8 DEF Carried
      <3>6. e * P!WholeWords(r) \in Int
        BY <1>2, <3>3
      <3> HIDE DEF e
      <3>7. QED
        BY <1>2, <1>4, <3>4, <3>5, <3>6
    <2>3. insnAt \in 1 .. n
      BY <1>3, <1>8
    <2> HIDE DEF op
    <2>4. QED
      BY <2>1, <2>2, <2>3
  <1>9. ASSUME NEW k \in 0 .. t - 1, Carried(r, N * p + k, period, moved, events),
               PeriodPos(r, TailPlace(r) + k * L, insnAt, lc[2], ccrLen, period)
        PROVE  Goal
    <2> DEFINE b == TailPlace(r) + k * L
               e == N * p + k
    <2>1. b \in Nat /\ b + L <= n /\ PeriodAt(code, r, b) /\ PeriodPos(r, b, insnAt, lc[2], ccrLen, period)
      BY <1>3, <1>9
    <2>2. e \in Int /\ e + 1 <= all
      <3> DEFINE x == N * p
      <3>1. x \in Int /\ all = x + t /\ e = x + k
        BY <1>2
      <3> HIDE DEF x, e, all
      <3>2. QED
        BY <1>2, <3>1
    <2>3. Carried(r, e, period, moved, events)
      BY <1>9
    <2> HIDE DEF b, e, Goal
    <2>4. QED
      BY <1>6, <2>1, <2>2, <2>3
  <1>10. ASSUME insnAt = LastPlace(r) + 1, period = 0, Carried(r, all, period, moved, events)
         PROVE  Goal
    <2>1. op = "LPFE"
      <3>1. PICK z : code[LastPlace(r) + 1] = P!LPFE(z)
        BY <1>1
      <3>2. P!LPFE(z).op = "LPFE"
        BY JumpOps
      <3>3. QED
        BY <1>10, <3>1, <3>2
    <2>2. moved = WholeLen(r) /\ events = all
      <3>1. moved = all * P!WholeWords(r) + 0 /\ events = all /\ all * P!WholeWords(r) \in Int
        BY <1>2, <1>10 DEF Carried
      <3>2. QED
        BY <1>2, <3>1
    <2>3. insnAt \in 1 .. n
      BY <1>3, <1>10
    <2> HIDE DEF op
    <2>4. QED
      BY <1>4, <2>1, <2>2, <2>3
  <1>11. Goal
    <2> HIDE DEF Goal
    <2>1. \/ insnAt \in 1 .. 4 /\ moved \in 0 .. WholeLen(r)
          \/ \E q \in 0 .. N - 1 : \E k \in 0 .. p - 1 :
               /\ Carried(r, q * p + k, period, moved, events)
               /\ PeriodPos(r, 4 + k * L, insnAt, lc[2], ccrLen, period)
          \/ \E q \in 0 .. N - 1 :
               Carried(r, q * p + p, period, moved, events) /\ insnAt = LoopPlace(r) + 1 /\ period = 0
          \/ \E k \in 0 .. t - 1 :
               /\ Carried(r, N * p + k, period, moved, events)
               /\ PeriodPos(r, TailPlace(r) + k * L, insnAt, lc[2], ccrLen, period)
          \/ insnAt = LastPlace(r) + 1 /\ period = 0 /\ Carried(r, all, period, moved, events)
      BY <1>4 DEF Pos, ProgramPos
    <2>2. QED
      BY <1>5, <1>7, <1>8, <1>9, <1>10, <2>1
  <1>12. P!Now = code[insnAt]
    BY DEF P!Now
  <1>13. QED
    <2>2. P!JumpsLand /\ P!EventPerPeriod /\ P!ProgramFits
      BY <1>1, <1>11, <1>12 DEF P!JumpsLand, P!EventPerPeriod, P!ProgramFits
    <2>3. P!BufferCovered
      BY <1>2, <1>11, <1>12 DEF P!BufferCovered
    <2>4. QED
      BY <2>2, <2>3

-----------------------------------------------------------------------------
\* The channel is where the program says, with what it should have moved by then.
ProgramInv ==
  part = "program" =>
    \E r \in DmaRequests : req = r /\ code = P!Program(r) /\ CountersType /\ Pos(r)

LEMMA ProgramStarts == MCInit => ProgramInv
  <1> SUFFICES ASSUME MCInit, part = "program"
               PROVE  \E r \in DmaRequests : req = r /\ code = P!Program(r) /\ CountersType /\ Pos(r)
    BY DEF ProgramInv
  <1>1. P!Init
    BY DEF MCInit
  <1>2. /\ req \in DmaRequests /\ code = P!Program(req) /\ insnAt = 1 /\ lc = <<0, 0>> /\ period = 0 /\ moved = 0
        /\ events = 0
    BY <1>1 DEF P!Init
  <1>3. lc \in [1 .. 2 -> Int]
    BY <1>2
  <1>4. QED
    BY <1>2, <1>3 DEF CountersType, Pos, ProgramPos

LEMMA ProgramStep == ProgramInv /\ [MCNext]_<<part, vars, req, programOnly, spiOnly>> => ProgramInv'
  <1> SUFFICES ASSUME ProgramInv, [MCNext]_<<part, vars, req, programOnly, spiOnly>>, part' = "program"
               PROVE  (\E r \in DmaRequests : req = r /\ code = P!Program(r) /\ CountersType /\ Pos(r))'
    BY DEF ProgramInv
  <1>1. part = "program" /\ (P!Next \/ UNCHANGED <<req, programOnly>>)
    BY DEF MCNext
  <1>2. PICK r \in DmaRequests : req = r /\ code = P!Program(r) /\ CountersType /\ Pos(r)
    BY <1>1 DEF ProgramInv
  <1>3. Sane(r)
    BY InstanceAssumption, Numbers
  <1>4. Layout(code, r)
    BY <1>2, <1>3, ProgramLies
  <1>5. CASE P!Next
    <2>1. UNCHANGED <<req, code>> /\ CountersType' /\ NextPos(r)
      BY <1>2, <1>3, <1>4, <1>5, PosStep
    <2>2. req' = r /\ code' = P!Program(r) /\ CountersType'
      BY <1>2, <2>1
    <2>3. Pos(r)'
      BY <2>1 DEF Pos, NextPos
    <2>4. QED
      BY <2>2, <2>3
  <1>6. CASE UNCHANGED <<req, programOnly>>
    <2>1. UNCHANGED <<req, code, insnAt, lc, ccrLen, period, moved, events>>
      BY <1>6 DEF programOnly
    <2>2. CountersType' /\ Pos(r)'
      BY <1>2, <2>1 DEF CountersType, Pos
    <2>3. QED
      BY <1>2, <2>1, <2>2
  <1>7. QED
    BY <1>1, <1>5, <1>6

LEMMA ProgramRight == ProgramInv => PeriodsMoved
  <1> SUFFICES ASSUME ProgramInv, part = "program"
               PROVE  P!JumpsLand /\ P!EventPerPeriod /\ P!BufferCovered /\ P!ProgramFits
    BY DEF PeriodsMoved
  <1>1. PICK r \in DmaRequests : req = r /\ code = P!Program(r) /\ CountersType /\ Pos(r)
    BY DEF ProgramInv
  <1>2. Sane(r)
    BY InstanceAssumption, Numbers
  <1>3. Layout(code, r)
    BY <1>1, <1>2, ProgramLies
  <1>4. QED
    BY <1>1, <1>2, <1>3, PosHolds

\* The microcode that SubmitAudioDMA writes, with its two nested loops and their carries
\* (_loop_cyclic, _period, _dregs), does what the audio driver counts on: every jump lands
\* on an instruction, each event comes when exactly the words of one period were moved, the
\* words of all periods were moved with one event for each when it starts over and nothing
\* beyond the buffer before, and the program fits into the buffer AllocResources set aside: for
\* any requests of whole periods, of a burst at least, whose last jump fits its byte.
THEOREM MicrocodeMovesPeriods == MCSpec => []PeriodsMoved
  <1>1. MCSpec => []ProgramInv
    BY ProgramStarts, ProgramStep, PTL DEF MCSpec
  <1>2. QED
    BY <1>1, ProgramRight, PTL
=============================================================================

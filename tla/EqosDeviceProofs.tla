-------------------------- MODULE EqosDeviceProofs --------------------------
(***************************************************************************)
(* Proofs about interrupts, notifications and link changes, for any number *)
(* of processors that run the DPC and of threads that run the work item.   *)
(***************************************************************************)
EXTENDS EqosDevice, TLAPS

-----------------------------------------------------------------------------
(* The inductive invariant.                                                *)

\* A queue has a request or a call in progress only while it exists, and none is
\* left when it withdraws.
QueueInv ==
  \A q \in Queues :
    /\ notify[q] \/ call[q] # "none" => queue[q]
    /\ call[q] \in {"disable", "stop"} => ~notify[q]

\* Without the interrupt connected there are no queues, and nothing is left of ISR
\* and DPC.
QuietInv ==
  power # "connected" =>
    /\ isrNew = {} /\ interruptStatus = {} /\ ~dpcQueued
    /\ \A d \in Dpcs : dpc[d] = "idle"
    /\ \A q \in Queues : ~queue[q]

\* interruptsWanted holds InterruptsState from D0Entry on and is empty from D0Exit on.
WantedInv ==
  /\ power \in {"entered", "connected"} => "State" \in wanted
  /\ power \in {"released", "failed", "prepared", "flushing"} => wanted = {}
  /\ power = "entered" => enabled = InterruptEnable(wanted)

\* One thread at a time is busy with the work item, and none without power.
WorkInv ==
  /\ \A w \in Workers : work[w] # "idle" => workBusy
  /\ workBusy => \E w \in Workers : work[w] # "idle"
  /\ \A v, w \in Workers : work[v] # "idle" /\ work[w] # "idle" => v = w
  /\ power \in {"released", "failed", "prepared", "entered"} => ~workQueued /\ ~workBusy

\* A change of the link is on its way to a thread that will read the register.
LinkOnItsWay ==
  \/ "Link" \in status \/ "Link" \in isrNew \/ "Link" \in interruptStatus
  \/ \E d \in Dpcs : dpc[d] \in {"clear", "enqueue"}
  \/ workQueued
  \/ \E w \in Workers : Reading(w)
  \/ missed

\* What NetAdapterCx knows, or is about to be told, is out of date only if the news
\* is on its way.
LinkInv ==
  Powered =>
    /\ link # reported =>
         LinkOnItsWay \/ \E w \in Workers : work[w] = "report" /\ workLink[w] = link
    /\ (\E w \in Workers : work[w] = "report" /\ workLink[w] # link) => LinkOnItsWay

PowerInv == QueueInv /\ QuietInv /\ WantedInv

IInv ==
  DeviceTypeOK /\ PowerInv /\ WorkInv /\ ArmedNotLost /\ MaskedOnlyForDpc /\ LinkInv

-----------------------------------------------------------------------------
(* Type correctness.                                                       *)

\* No step changes the type of a variable.
LEMMA TypeStep ==
  ASSUME DeviceAssumption, DeviceTypeOK, [DeviceNext]_deviceVars
  PROVE  DeviceTypeOK'
<1> USE DEF DeviceTypeOK, Bits, InterruptEnable, powerVars, regVars, dpcVars, queueVars,
            workVars, linkVars
<1>1. CASE UNCHANGED deviceVars
  BY <1>1 DEF deviceVars
<1>2. CASE DevicePrepareHardware
  <2>1. power' \in {"prepared", "failed"} /\ regs' \in BOOLEAN /\ interrupt' \in BOOLEAN
    BY <1>2 DEF DevicePrepareHardware
  <2>2. enabled' \subseteq Bits /\ status' \subseteq Bits /\ reported' \in BOOLEAN
    BY <1>2 DEF DevicePrepareHardware
  <2>3. UNCHANGED <<wanted, interruptStatus, isrNew, dpcVars, queueVars, workVars, link, missed>>
    BY <1>2 DEF DevicePrepareHardware
  <2> QED BY <2>1, <2>2, <2>3
<1>3. CASE DeviceReleaseHardware
  BY <1>3 DEF DeviceReleaseHardware
<1>4. CASE DeviceD0Entry
  BY <1>4 DEF DeviceD0Entry
<1>5. CASE InterruptConnect
  BY <1>5 DEF InterruptConnect
<1>6. CASE InterruptDisconnect
  BY <1>6 DEF InterruptDisconnect
<1>7. CASE DeviceD0Exit
  BY <1>7 DEF DeviceD0Exit
<1>8. CASE DeviceD0ExitFlushed
  BY <1>8 DEF DeviceD0ExitFlushed
<1>9. CASE IsrRead
  BY <1>9 DEF IsrRead
<1>10. CASE IsrHandle
  BY <1>10 DEF IsrHandle
<1>11. ASSUME NEW q \in Queues,
           CreateQueue(q) \/ SetNotification(q, TRUE, "enable")
           \/ SetNotification(q, FALSE, "disable") \/ SetNotification(q, FALSE, "stop")
           \/ DeviceInterruptEnable(q) \/ DeviceInterruptDisable(q)
      PROVE  DeviceTypeOK'
  <2>1. CASE CreateQueue(q)
    BY <2>1 DEF CreateQueue
  <2>2. CASE SetNotification(q, TRUE, "enable")
    BY <2>2 DEF SetNotification
  <2>3. CASE SetNotification(q, FALSE, "disable")
    BY <2>3 DEF SetNotification
  <2>4. CASE SetNotification(q, FALSE, "stop")
    BY <2>4 DEF SetNotification
  <2>5. CASE DeviceInterruptEnable(q)
    BY <2>5 DEF DeviceAssumption, DeviceInterruptEnable
  <2>6. CASE DeviceInterruptDisable(q)
    <3>1. wanted' \subseteq {"State", "Rx", "Tx"} /\ enabled' \subseteq Bits
      BY <2>6 DEF DeviceInterruptDisable
    <3>2. call' \in [Queues -> {"none", "enable", "disable", "stop"}] /\ queue' \in [Queues -> BOOLEAN]
      <4>1. (call[q] # "stop") \in BOOLEAN
        OBVIOUS
      <4>2. PICK b \in BOOLEAN : queue' = [queue EXCEPT ![q] = b]
        BY <2>6, <4>1 DEF DeviceInterruptDisable
      <4> QED BY <2>6, <4>2 DEF DeviceInterruptDisable
    <3>3. UNCHANGED <<powerVars, status, interruptStatus, isrNew, dpcVars, notify, workVars, linkVars>>
      BY <2>6 DEF DeviceInterruptDisable
    <3> QED BY <3>1, <3>2, <3>3
  <2> QED
    BY <1>11, <2>1, <2>2, <2>3, <2>4, <2>5, <2>6
<1>12. ASSUME NEW d \in Dpcs,
           DpcStart(d) \/ DpcTake(d) \/ DpcClearLink(d) \/ DpcEnqueueWork(d)
           \/ DpcNotify(d) \/ DpcEnable(d)
      PROVE  DeviceTypeOK'
  <2>1. CASE DpcStart(d)
    BY <2>1 DEF DpcStart
  <2>2. CASE DpcTake(d)
    BY <2>2 DEF DpcTake
  <2>3. CASE DpcClearLink(d)
    BY <2>3 DEF DpcClearLink
  <2>4. CASE DpcEnqueueWork(d)
    BY <2>4 DEF DpcEnqueueWork
  <2>5. CASE DpcNotify(d)
    BY <2>5 DEF DpcNotify
  <2>6. CASE DpcEnable(d)
    BY <2>6 DEF DpcEnable
  <2> QED
    BY <1>12, <2>1, <2>2, <2>3, <2>4, <2>5, <2>6
<1>13. ASSUME NEW w \in Workers,
           WorkStart(w) \/ WorkRead(w) \/ WorkReport(w) \/ WorkRelease(w)
      PROVE  DeviceTypeOK'
  <2>1. CASE WorkStart(w)
    BY <2>1 DEF WorkStart
  <2>2. CASE WorkRead(w)
    BY <2>2 DEF WorkRead
  <2>3. CASE WorkReport(w)
    BY <2>3 DEF WorkReport
  <2>4. CASE WorkRelease(w)
    BY <2>4 DEF WorkRelease
  <2> QED
    BY <1>13, <2>1, <2>2, <2>3, <2>4
<1>14. ASSUME NEW b \in Conditions \ {"Link"}, HwRaise(b)
      PROVE  DeviceTypeOK'
  BY <1>14 DEF DeviceAssumption, HwRaise
<1>15. CASE HwLinkChange
  BY <1>15 DEF HwLinkChange
<1> QED
  BY <1>1, <1>2, <1>3, <1>4, <1>5, <1>6, <1>7, <1>8, <1>9, <1>10, <1>11, <1>12, <1>13,
     <1>14, <1>15
     DEF DeviceNext, Power, SecondHalf, Dpc, Work

\* The variables keep their types, for any processors and threads.
THEOREM TypeCorrect ==
  ASSUME DeviceAssumption
  PROVE  DeviceSpec => []DeviceTypeOK
<1>1. DeviceInit => DeviceTypeOK
  BY DEF DeviceInit, DeviceTypeOK, Bits
<1>2. DeviceTypeOK /\ [DeviceNext]_deviceVars => DeviceTypeOK'
  BY TypeStep
<1> QED
  BY <1>1, <1>2, PTL DEF DeviceSpec

-----------------------------------------------------------------------------
(* Power, queues and interruptsWanted.                                     *)

LEMMA PowerStep ==
  ASSUME DeviceAssumption, DeviceTypeOK, PowerInv, MaskedOnlyForDpc, [DeviceNext]_deviceVars
  PROVE  PowerInv'
<1> USE DEF DeviceTypeOK, PowerInv, QueueInv, QuietInv, WantedInv, powerVars, regVars,
            dpcVars, queueVars, workVars, linkVars
<1>1. CASE UNCHANGED deviceVars
  BY <1>1 DEF deviceVars
<1>2. CASE DevicePrepareHardware
  BY <1>2 DEF DevicePrepareHardware
<1>3. CASE DeviceReleaseHardware
  BY <1>3 DEF DeviceReleaseHardware
<1>4. CASE DeviceD0Entry
  BY <1>4 DEF DeviceD0Entry
<1>5. CASE InterruptConnect
  BY <1>5 DEF InterruptConnect
<1>6. CASE InterruptDisconnect
  BY <1>6 DEF InterruptDisconnect, LockFree, MaskedOnlyForDpc
<1>7. CASE DeviceD0Exit
  BY <1>7 DEF DeviceD0Exit
<1>8. CASE DeviceD0ExitFlushed
  BY <1>8 DEF DeviceD0ExitFlushed
<1>9. CASE IsrRead
  BY <1>9 DEF IsrRead
<1>10. CASE IsrHandle
  BY <1>10 DEF IsrHandle
<1>11. ASSUME NEW q \in Queues,
           CreateQueue(q) \/ SetNotification(q, TRUE, "enable")
           \/ SetNotification(q, FALSE, "disable") \/ SetNotification(q, FALSE, "stop")
           \/ DeviceInterruptEnable(q) \/ DeviceInterruptDisable(q)
      PROVE  PowerInv'
  <2>1. CASE CreateQueue(q)
    BY <2>1 DEF CreateQueue
  <2>2. CASE SetNotification(q, TRUE, "enable")
    BY <2>2 DEF SetNotification
  <2>3. CASE SetNotification(q, FALSE, "disable")
    BY <2>3 DEF SetNotification
  <2>4. CASE SetNotification(q, FALSE, "stop")
    BY <2>4 DEF SetNotification
  <2>5. CASE DeviceInterruptEnable(q)
    <3>1. power = "connected"
      BY <2>5 DEF DeviceInterruptEnable
    <3> QED
      BY <2>5, <3>1 DEF DeviceInterruptEnable
  <2>6. CASE DeviceInterruptDisable(q)
    <3>1. power = "connected" /\ "State" # q
      BY <2>6 DEF DeviceAssumption, DeviceInterruptDisable
    <3> QED
      BY <2>6, <3>1 DEF DeviceInterruptDisable
  <2> QED
    BY <1>11, <2>1, <2>2, <2>3, <2>4, <2>5, <2>6
<1>12. ASSUME NEW d \in Dpcs,
           DpcStart(d) \/ DpcTake(d) \/ DpcClearLink(d) \/ DpcEnqueueWork(d)
           \/ DpcNotify(d) \/ DpcEnable(d)
      PROVE  PowerInv'
  <2>1. CASE DpcStart(d)
    BY <2>1 DEF DpcStart
  <2>2. CASE DpcTake(d)
    BY <2>2 DEF DpcTake
  <2>3. CASE DpcClearLink(d)
    BY <2>3 DEF DpcClearLink
  <2>4. CASE DpcEnqueueWork(d)
    BY <2>4 DEF DpcEnqueueWork
  <2>5. CASE DpcNotify(d)
    BY <2>5 DEF DpcNotify
  <2>6. CASE DpcEnable(d)
    BY <2>6 DEF DpcEnable
  <2> QED
    BY <1>12, <2>1, <2>2, <2>3, <2>4, <2>5, <2>6
<1>13. ASSUME NEW w \in Workers,
           WorkStart(w) \/ WorkRead(w) \/ WorkReport(w) \/ WorkRelease(w)
      PROVE  PowerInv'
  <2>1. CASE WorkStart(w)
    BY <2>1 DEF WorkStart
  <2>2. CASE WorkRead(w)
    BY <2>2 DEF WorkRead
  <2>3. CASE WorkReport(w)
    BY <2>3 DEF WorkReport
  <2>4. CASE WorkRelease(w)
    BY <2>4 DEF WorkRelease
  <2> QED
    BY <1>13, <2>1, <2>2, <2>3, <2>4
<1>14. ASSUME NEW b \in Conditions \ {"Link"}, HwRaise(b)
      PROVE  PowerInv'
  BY <1>14 DEF HwRaise
<1>15. CASE HwLinkChange
  BY <1>15 DEF HwLinkChange
<1> QED
  BY <1>1, <1>2, <1>3, <1>4, <1>5, <1>6, <1>7, <1>8, <1>9, <1>10, <1>11, <1>12, <1>13,
     <1>14, <1>15
     DEF DeviceNext, Power, SecondHalf, Dpc, Work

-----------------------------------------------------------------------------
(* Notifications.                                                          *)

\* A queue that waits for a notification keeps what will bring it.
LEMMA ArmedStep ==
  ASSUME DeviceTypeOK, PowerInv, ArmedNotLost, [DeviceNext]_deviceVars
  PROVE  ArmedNotLost'
<1> USE DEF DeviceTypeOK, PowerInv, QueueInv, QuietInv, WantedInv, ArmedNotLost, powerVars,
            regVars, dpcVars, queueVars, workVars, linkVars
<1>1. CASE UNCHANGED deviceVars
  BY <1>1 DEF deviceVars
<1>2. CASE DevicePrepareHardware
  BY <1>2 DEF DevicePrepareHardware
<1>3. CASE DeviceReleaseHardware
  BY <1>3 DEF DeviceReleaseHardware
<1>4. CASE DeviceD0Entry
  BY <1>4 DEF DeviceD0Entry
<1>5. CASE InterruptConnect
  BY <1>5 DEF InterruptConnect
<1>6. CASE InterruptDisconnect
  BY <1>6 DEF InterruptDisconnect
<1>7. CASE DeviceD0Exit
  BY <1>7 DEF DeviceD0Exit
<1>8. CASE DeviceD0ExitFlushed
  BY <1>8 DEF DeviceD0ExitFlushed
<1>9. CASE IsrRead
  BY <1>9 DEF IsrRead
<1>10. CASE IsrHandle
  BY <1>10 DEF IsrHandle
<1>11. ASSUME NEW q \in Queues,
           CreateQueue(q) \/ SetNotification(q, TRUE, "enable")
           \/ SetNotification(q, FALSE, "disable") \/ SetNotification(q, FALSE, "stop")
           \/ DeviceInterruptEnable(q) \/ DeviceInterruptDisable(q)
      PROVE  ArmedNotLost'
  <2>1. CASE CreateQueue(q)
    BY <2>1 DEF CreateQueue
  <2>2. CASE SetNotification(q, TRUE, "enable")
    BY <2>2 DEF SetNotification
  <2>3. CASE SetNotification(q, FALSE, "disable")
    BY <2>3 DEF SetNotification
  <2>4. CASE SetNotification(q, FALSE, "stop")
    BY <2>4 DEF SetNotification
  <2>5. CASE DeviceInterruptEnable(q)
    BY <2>5 DEF DeviceInterruptEnable
  <2>6. CASE DeviceInterruptDisable(q)
    BY <2>6 DEF DeviceInterruptDisable
  <2> QED
    BY <1>11, <2>1, <2>2, <2>3, <2>4, <2>5, <2>6
<1>12. ASSUME NEW d \in Dpcs,
           DpcStart(d) \/ DpcTake(d) \/ DpcClearLink(d) \/ DpcEnqueueWork(d)
           \/ DpcNotify(d) \/ DpcEnable(d)
      PROVE  ArmedNotLost'
  <2>1. CASE DpcStart(d)
    BY <2>1 DEF DpcStart
  <2>2. CASE DpcTake(d)
    BY <2>2 DEF DpcTake
  <2>3. CASE DpcClearLink(d)
    BY <2>3 DEF DpcClearLink
  <2>4. CASE DpcEnqueueWork(d)
    BY <2>4 DEF DpcEnqueueWork
  <2>5. CASE DpcNotify(d)
    BY <2>5 DEF DpcNotify
  <2>6. CASE DpcEnable(d)
    BY <2>6 DEF DpcEnable
  <2> QED
    BY <1>12, <2>1, <2>2, <2>3, <2>4, <2>5, <2>6
<1>13. ASSUME NEW w \in Workers,
           WorkStart(w) \/ WorkRead(w) \/ WorkReport(w) \/ WorkRelease(w)
      PROVE  ArmedNotLost'
  <2>1. CASE WorkStart(w)
    BY <2>1 DEF WorkStart
  <2>2. CASE WorkRead(w)
    BY <2>2 DEF WorkRead
  <2>3. CASE WorkReport(w)
    BY <2>3 DEF WorkReport
  <2>4. CASE WorkRelease(w)
    BY <2>4 DEF WorkRelease
  <2> QED
    BY <1>13, <2>1, <2>2, <2>3, <2>4
<1>14. ASSUME NEW b \in Conditions \ {"Link"}, HwRaise(b)
      PROVE  ArmedNotLost'
  BY <1>14 DEF HwRaise
<1>15. CASE HwLinkChange
  BY <1>15 DEF HwLinkChange
<1> QED
  BY <1>1, <1>2, <1>3, <1>4, <1>5, <1>6, <1>7, <1>8, <1>9, <1>10, <1>11, <1>12, <1>13,
     <1>14, <1>15
     DEF DeviceNext, Power, SecondHalf, Dpc, Work

\* Registers stay masked only for a DPC that runs or is to come.
LEMMA MaskedStep ==
  ASSUME DeviceTypeOK, PowerInv, MaskedOnlyForDpc, [DeviceNext]_deviceVars
  PROVE  MaskedOnlyForDpc'
<1> USE DEF DeviceTypeOK, PowerInv, QueueInv, QuietInv, WantedInv, MaskedOnlyForDpc,
            powerVars, regVars, dpcVars, queueVars, workVars, linkVars
<1>1. CASE UNCHANGED deviceVars
  BY <1>1 DEF deviceVars
<1>2. CASE DevicePrepareHardware
  BY <1>2 DEF DevicePrepareHardware
<1>3. CASE DeviceReleaseHardware
  BY <1>3 DEF DeviceReleaseHardware
<1>4. CASE DeviceD0Entry
  BY <1>4 DEF DeviceD0Entry
<1>5. CASE InterruptConnect
  BY <1>5 DEF InterruptConnect
<1>6. CASE InterruptDisconnect
  BY <1>6 DEF InterruptDisconnect
<1>7. CASE DeviceD0Exit
  BY <1>7 DEF DeviceD0Exit
<1>8. CASE DeviceD0ExitFlushed
  BY <1>8 DEF DeviceD0ExitFlushed
<1>9. CASE IsrRead
  BY <1>9 DEF IsrRead
<1>10. CASE IsrHandle
  BY <1>10 DEF IsrHandle
<1>11. ASSUME NEW q \in Queues,
           CreateQueue(q) \/ SetNotification(q, TRUE, "enable")
           \/ SetNotification(q, FALSE, "disable") \/ SetNotification(q, FALSE, "stop")
           \/ DeviceInterruptEnable(q) \/ DeviceInterruptDisable(q)
      PROVE  MaskedOnlyForDpc'
  <2>1. CASE CreateQueue(q)
    BY <2>1 DEF CreateQueue
  <2>2. CASE SetNotification(q, TRUE, "enable")
    BY <2>2 DEF SetNotification
  <2>3. CASE SetNotification(q, FALSE, "disable")
    BY <2>3 DEF SetNotification
  <2>4. CASE SetNotification(q, FALSE, "stop")
    BY <2>4 DEF SetNotification
  <2>5. CASE DeviceInterruptEnable(q)
    BY <2>5 DEF DeviceInterruptEnable
  <2>6. CASE DeviceInterruptDisable(q)
    BY <2>6 DEF DeviceInterruptDisable
  <2> QED
    BY <1>11, <2>1, <2>2, <2>3, <2>4, <2>5, <2>6
<1>12. ASSUME NEW d \in Dpcs,
           DpcStart(d) \/ DpcTake(d) \/ DpcClearLink(d) \/ DpcEnqueueWork(d)
           \/ DpcNotify(d) \/ DpcEnable(d)
      PROVE  MaskedOnlyForDpc'
  <2>1. CASE DpcStart(d)
    BY <2>1 DEF DpcStart
  <2>2. CASE DpcTake(d)
    BY <2>2 DEF DpcTake
  <2>3. CASE DpcClearLink(d)
    BY <2>3 DEF DpcClearLink
  <2>4. CASE DpcEnqueueWork(d)
    BY <2>4 DEF DpcEnqueueWork
  <2>5. CASE DpcNotify(d)
    BY <2>5 DEF DpcNotify
  <2>6. CASE DpcEnable(d)
    BY <2>6 DEF DpcEnable
  <2> QED
    BY <1>12, <2>1, <2>2, <2>3, <2>4, <2>5, <2>6
<1>13. ASSUME NEW w \in Workers,
           WorkStart(w) \/ WorkRead(w) \/ WorkReport(w) \/ WorkRelease(w)
      PROVE  MaskedOnlyForDpc'
  <2>1. CASE WorkStart(w)
    BY <2>1 DEF WorkStart
  <2>2. CASE WorkRead(w)
    BY <2>2 DEF WorkRead
  <2>3. CASE WorkReport(w)
    BY <2>3 DEF WorkReport
  <2>4. CASE WorkRelease(w)
    BY <2>4 DEF WorkRelease
  <2> QED
    BY <1>13, <2>1, <2>2, <2>3, <2>4
<1>14. ASSUME NEW b \in Conditions \ {"Link"}, HwRaise(b)
      PROVE  MaskedOnlyForDpc'
  BY <1>14 DEF HwRaise
<1>15. CASE HwLinkChange
  BY <1>15 DEF HwLinkChange
<1> QED
  BY <1>1, <1>2, <1>3, <1>4, <1>5, <1>6, <1>7, <1>8, <1>9, <1>10, <1>11, <1>12, <1>13,
     <1>14, <1>15
     DEF DeviceNext, Power, SecondHalf, Dpc, Work

-----------------------------------------------------------------------------
(* The work item and the link.                                             *)

\* The busy flag stands for the one thread that is in the work item.
LEMMA WorkStep ==
  ASSUME DeviceTypeOK, PowerInv, WorkInv, [DeviceNext]_deviceVars
  PROVE  WorkInv'
<1> USE DEF DeviceTypeOK, PowerInv, QuietInv, WorkInv, Reading, powerVars, regVars, dpcVars,
            queueVars, workVars, linkVars
<1>1. CASE UNCHANGED deviceVars
  BY <1>1 DEF deviceVars
<1>2. CASE DevicePrepareHardware
  BY <1>2 DEF DevicePrepareHardware
<1>3. CASE DeviceReleaseHardware
  BY <1>3 DEF DeviceReleaseHardware
<1>4. CASE DeviceD0Entry
  BY <1>4 DEF DeviceD0Entry
<1>5. CASE InterruptConnect
  BY <1>5 DEF InterruptConnect
<1>6. CASE InterruptDisconnect
  BY <1>6 DEF InterruptDisconnect
<1>7. CASE DeviceD0Exit
  BY <1>7 DEF DeviceD0Exit
<1>8. CASE DeviceD0ExitFlushed
  BY <1>8 DEF DeviceD0ExitFlushed
<1>9. CASE IsrRead
  BY <1>9 DEF IsrRead
<1>10. CASE IsrHandle
  BY <1>10 DEF IsrHandle
<1>11. ASSUME NEW q \in Queues,
           CreateQueue(q) \/ SetNotification(q, TRUE, "enable")
           \/ SetNotification(q, FALSE, "disable") \/ SetNotification(q, FALSE, "stop")
           \/ DeviceInterruptEnable(q) \/ DeviceInterruptDisable(q)
      PROVE  WorkInv'
  <2>1. CASE CreateQueue(q)
    BY <2>1 DEF CreateQueue
  <2>2. CASE SetNotification(q, TRUE, "enable")
    BY <2>2 DEF SetNotification
  <2>3. CASE SetNotification(q, FALSE, "disable")
    BY <2>3 DEF SetNotification
  <2>4. CASE SetNotification(q, FALSE, "stop")
    BY <2>4 DEF SetNotification
  <2>5. CASE DeviceInterruptEnable(q)
    BY <2>5 DEF DeviceInterruptEnable
  <2>6. CASE DeviceInterruptDisable(q)
    BY <2>6 DEF DeviceInterruptDisable
  <2> QED
    BY <1>11, <2>1, <2>2, <2>3, <2>4, <2>5, <2>6
<1>12. ASSUME NEW d \in Dpcs,
           DpcStart(d) \/ DpcTake(d) \/ DpcClearLink(d) \/ DpcEnqueueWork(d)
           \/ DpcNotify(d) \/ DpcEnable(d)
      PROVE  WorkInv'
  <2>1. CASE DpcStart(d)
    BY <2>1 DEF DpcStart
  <2>2. CASE DpcTake(d)
    BY <2>2 DEF DpcTake
  <2>3. CASE DpcClearLink(d)
    BY <2>3 DEF DpcClearLink
  <2>4. CASE DpcEnqueueWork(d)
    BY <2>4 DEF DpcEnqueueWork
  <2>5. CASE DpcNotify(d)
    BY <2>5 DEF DpcNotify
  <2>6. CASE DpcEnable(d)
    BY <2>6 DEF DpcEnable
  <2> QED
    BY <1>12, <2>1, <2>2, <2>3, <2>4, <2>5, <2>6
<1>13. ASSUME NEW w \in Workers,
           WorkStart(w) \/ WorkRead(w) \/ WorkReport(w) \/ WorkRelease(w)
      PROVE  WorkInv'
  <2>1. CASE WorkStart(w)
    BY <2>1 DEF WorkStart
  <2>2. CASE WorkRead(w)
    BY <2>2 DEF WorkRead
  <2>3. CASE WorkReport(w)
    BY <2>3 DEF WorkReport
  <2>4. CASE WorkRelease(w)
    BY <2>4 DEF WorkRelease
  <2> QED
    BY <1>13, <2>1, <2>2, <2>3, <2>4
<1>14. ASSUME NEW b \in Conditions \ {"Link"}, HwRaise(b)
      PROVE  WorkInv'
  BY <1>14 DEF HwRaise
<1>15. CASE HwLinkChange
  BY <1>15 DEF HwLinkChange
<1> QED
  BY <1>1, <1>2, <1>3, <1>4, <1>5, <1>6, <1>7, <1>8, <1>9, <1>10, <1>11, <1>12, <1>13,
     <1>14, <1>15
     DEF DeviceNext, Power, SecondHalf, Dpc, Work

\* News of the link stays on its way until NetAdapterCx is told.
LEMMA LinkStep ==
  ASSUME DeviceTypeOK, PowerInv, WorkInv, LinkInv, [DeviceNext]_deviceVars
  PROVE  LinkInv'
<1> USE DEF DeviceTypeOK, PowerInv, QuietInv, WorkInv, LinkInv, LinkOnItsWay, Reading,
            Powered, powerVars, regVars, dpcVars, queueVars, workVars, linkVars
<1>1. CASE UNCHANGED deviceVars
  BY <1>1 DEF deviceVars
<1>2. CASE DevicePrepareHardware
  BY <1>2 DEF DevicePrepareHardware
<1>3. CASE DeviceReleaseHardware
  BY <1>3 DEF DeviceReleaseHardware
<1>4. CASE DeviceD0Entry
  BY <1>4 DEF DeviceD0Entry
<1>5. CASE InterruptConnect
  BY <1>5 DEF InterruptConnect
<1>6. CASE InterruptDisconnect
  BY <1>6 DEF InterruptDisconnect
<1>7. CASE DeviceD0Exit
  BY <1>7 DEF DeviceD0Exit
<1>8. CASE DeviceD0ExitFlushed
  BY <1>8 DEF DeviceD0ExitFlushed
<1>9. CASE IsrRead
  BY <1>9 DEF IsrRead, LockFree
<1>10. CASE IsrHandle
  BY <1>10 DEF IsrHandle
<1>11. ASSUME NEW q \in Queues,
           CreateQueue(q) \/ SetNotification(q, TRUE, "enable")
           \/ SetNotification(q, FALSE, "disable") \/ SetNotification(q, FALSE, "stop")
           \/ DeviceInterruptEnable(q) \/ DeviceInterruptDisable(q)
      PROVE  LinkInv'
  <2>1. CASE CreateQueue(q)
    BY <2>1 DEF CreateQueue
  <2>2. CASE SetNotification(q, TRUE, "enable")
    BY <2>2 DEF SetNotification
  <2>3. CASE SetNotification(q, FALSE, "disable")
    BY <2>3 DEF SetNotification
  <2>4. CASE SetNotification(q, FALSE, "stop")
    BY <2>4 DEF SetNotification
  <2>5. CASE DeviceInterruptEnable(q)
    BY <2>5 DEF DeviceInterruptEnable
  <2>6. CASE DeviceInterruptDisable(q)
    BY <2>6 DEF DeviceInterruptDisable
  <2> QED
    BY <1>11, <2>1, <2>2, <2>3, <2>4, <2>5, <2>6
<1>12. ASSUME NEW d \in Dpcs,
           DpcStart(d) \/ DpcTake(d) \/ DpcClearLink(d) \/ DpcEnqueueWork(d)
           \/ DpcNotify(d) \/ DpcEnable(d)
      PROVE  LinkInv'
  <2>1. CASE DpcStart(d)
    BY <2>1 DEF DpcStart
  <2>2. CASE DpcTake(d)
    BY <2>2 DEF DpcTake
  <2>3. CASE DpcClearLink(d)
    BY <2>3 DEF DpcClearLink
  <2>4. CASE DpcEnqueueWork(d)
    BY <2>4 DEF DpcEnqueueWork
  <2>5. CASE DpcNotify(d)
    BY <2>5 DEF DpcNotify
  <2>6. CASE DpcEnable(d)
    BY <2>6 DEF DpcEnable
  <2> QED
    BY <1>12, <2>1, <2>2, <2>3, <2>4, <2>5, <2>6
<1>13. ASSUME NEW w \in Workers,
           WorkStart(w) \/ WorkRead(w) \/ WorkReport(w) \/ WorkRelease(w)
      PROVE  LinkInv'
  <2>1. CASE WorkStart(w)
    BY <2>1 DEF WorkStart
  <2>2. CASE WorkRead(w)
    BY <2>2 DEF WorkRead
  <2>3. CASE WorkReport(w)
    BY <2>3 DEF WorkReport
  <2>4. CASE WorkRelease(w)
    BY <2>4 DEF WorkRelease
  <2> QED
    BY <1>13, <2>1, <2>2, <2>3, <2>4
<1>14. ASSUME NEW b \in Conditions \ {"Link"}, HwRaise(b)
      PROVE  LinkInv'
  BY <1>14 DEF HwRaise
<1>15. CASE HwLinkChange
  BY <1>15 DEF HwLinkChange
<1> QED
  BY <1>1, <1>2, <1>3, <1>4, <1>5, <1>6, <1>7, <1>8, <1>9, <1>10, <1>11, <1>12, <1>13,
     <1>14, <1>15
     DEF DeviceNext, Power, SecondHalf, Dpc, Work

-----------------------------------------------------------------------------
(* The invariant, and what it implies.                                     *)

\* The parts of the invariant together are kept by every step.
THEOREM Inductive ==
  ASSUME DeviceAssumption
  PROVE  DeviceSpec => []IInv
<1>1. DeviceInit => IInv
  <2> SUFFICES ASSUME DeviceInit
               PROVE  IInv
    OBVIOUS
  <2> USE DEF DeviceInit
  <2>1. DeviceTypeOK
    BY DEF DeviceTypeOK, Bits
  <2>2. PowerInv /\ ArmedNotLost /\ MaskedOnlyForDpc
    BY DEF PowerInv, QueueInv, QuietInv, WantedInv, ArmedNotLost, MaskedOnlyForDpc
  <2>3. WorkInv /\ LinkInv
    BY DEF WorkInv, LinkInv, Powered
  <2> QED
    BY <2>1, <2>2, <2>3 DEF IInv
<1>2. IInv /\ [DeviceNext]_deviceVars => IInv'
  BY TypeStep, PowerStep, ArmedStep, MaskedStep, WorkStep, LinkStep DEF IInv
<1> QED
  BY <1>1, <1>2, PTL DEF DeviceSpec

\* A queue that NetAdapterCx has told to notify it never waits in vain for an
\* interrupt: ISR, DPC and DeviceSetNotification lose no request between them.
THEOREM RequestsKept ==
  ASSUME DeviceAssumption
  PROVE  DeviceSpec => []ArmedNotLost
<1>1. IInv => ArmedNotLost
  BY DEF IInv
<1>2. DeviceSpec => []IInv
  BY Inductive
<1> QED
  BY <1>1, <1>2, PTL

\* Interrupts the ISR has masked are unmasked again: a DPC runs or is queued
\* whenever the enable register holds less than interruptsWanted asks for.
THEOREM MaskedForDpc ==
  ASSUME DeviceAssumption
  PROVE  DeviceSpec => []MaskedOnlyForDpc
<1>1. IInv => MaskedOnlyForDpc
  BY DEF IInv
<1>2. DeviceSpec => []IInv
  BY Inductive
<1> QED
  BY <1>1, <1>2, PTL

\* The assertions of the power and queue callbacks hold: no DPC, work item or
\* request of the life before is met.
THEOREM AssertionsHold ==
  ASSUME DeviceAssumption
  PROVE  DeviceSpec => []LifecycleAsserts
<1>1. IInv => LifecycleAsserts
  BY DEF IInv, LifecycleAsserts, PowerInv, QueueInv, QuietInv, WantedInv, WorkInv
<1>2. DeviceSpec => []IInv
  BY Inductive
<1> QED
  BY <1>1, <1>2, PTL

\* A change of the link is not lost on its way through register, ISR, DPC and work
\* item, but for the work item that finds another one busy after its read.
THEOREM LinkChangesKept ==
  ASSUME DeviceAssumption
  PROVE  DeviceSpec => []NoLinkChangeLost
<1>1. IInv => NoLinkChangeLost
  BY DEF IInv, LinkInv, LinkOnItsWay, NoLinkChangeLost
<1>2. DeviceSpec => []IInv
  BY Inductive
<1> QED
  BY <1>1, <1>2, PTL
=============================================================================

----------------------------- MODULE EqosDevice -----------------------------
(***************************************************************************)
(* Power, interrupts, queue notification and link state of the dwc_eqos    *)
(* Ethernet driver (drivers/net/dwc_eqos/device.cpp).                      *)
(*                                                                         *)
(* The actors are the interrupt service routine, the deferred procedure    *)
(* call (which may run on several processors at once), the link state work *)
(* item (again several), the two packet queues that ask to be notified and *)
(* the power callbacks; the device raises conditions at any time.  The     *)
(* interrupt lock and queueLock are taken around single steps below, but   *)
(* for the interrupt lock during the service routine (isrNew).             *)
(***************************************************************************)
EXTENDS Naturals, FiniteSets

CONSTANTS
  Queues,       \* the packet queues, a subset of {"Rx", "Tx"}
  Conditions,   \* what the device may raise, a subset of Bits
  Dpcs,         \* processors the DPC may run on
  Workers       \* threads the work item may run on

Bits == {"Rx", "Tx", "Link", "Error"}   \* ChannelStatus_t and InterruptLinkStatus

DeviceAssumption == Queues \subseteq {"Rx", "Tx"} /\ Conditions \subseteq Bits

VARIABLES
  power,             \* which power callback comes next
  regs, interrupt,   \* whether these pointers of DeviceContext are not null
  enabled, status,   \* Interrupt_Enable and Status registers
  wanted,            \* interruptsWanted
  interruptStatus,
  isrNew,            \* newInterruptStatus of a running ISR, {} if none runs
  dpcQueued, dpc, dpcNew,
  queue,             \* whether each packet queue exists
  notify,            \* whether rxQueue, txQueue are not null
  call,              \* a DeviceSetNotification call in progress
  workQueued, work, workLink, workBusy,
  link, reported,    \* the state of the link and what NetAdapterCx was told
  missed             \* history: a work item was skipped after the link was read

powerVars == <<power, regs, interrupt>>
regVars   == <<enabled, status>>
dpcVars   == <<dpcQueued, dpc, dpcNew>>
queueVars == <<queue, notify, call>>
workVars  == <<workQueued, work, workLink, workBusy>>
linkVars  == <<link, reported, missed>>
deviceVars == <<powerVars, regVars, wanted, interruptStatus, isrNew,
                dpcVars, queueVars, workVars, linkVars>>

-----------------------------------------------------------------------------
(* Interrupt masks.                                                        *)

\* MakeMacInterruptEnable and MakeChannelInterruptEnable.
InterruptEnable(w) ==
  (w \cap {"Rx", "Tx"}) \cup (IF "State" \in w THEN {"Link", "Error"} ELSE {})

LockFree == isrNew = {}

-----------------------------------------------------------------------------
DeviceInit ==
  /\ power = "released" /\ regs = FALSE /\ interrupt = FALSE
  /\ enabled = {} /\ status = {} /\ wanted = {} /\ interruptStatus = {} /\ isrNew = {}
  /\ dpcQueued = FALSE /\ dpc = [d \in Dpcs |-> "idle"] /\ dpcNew = [d \in Dpcs |-> {}]
  /\ queue = [q \in Queues |-> FALSE] /\ notify = [q \in Queues |-> FALSE]
  /\ call = [q \in Queues |-> "none"]
  /\ workQueued = FALSE /\ work = [w \in Workers |-> "idle"]
  /\ workLink = [w \in Workers |-> FALSE] /\ workBusy = FALSE
  /\ link = FALSE /\ reported = FALSE /\ missed = FALSE

\* DevicePrepareHardware.  It fails without registers or interrupt, or later:
\* before or after the link is reported as down and the device is reset.
DevicePrepareHardware ==
  /\ power = "released"
  /\ \E gotRegs \in BOOLEAN, gotInterrupt \in BOOLEAN, reset \in BOOLEAN, ok \in BOOLEAN :
       /\ reset => gotRegs /\ gotInterrupt
       /\ ok => reset
       /\ regs' = gotRegs
       /\ interrupt' = (interrupt \/ gotInterrupt)
       /\ power' = IF ok THEN "prepared" ELSE "failed"
       /\ IF reset THEN enabled' = {} /\ status' = {} /\ reported' = FALSE
                   ELSE UNCHANGED <<enabled, status, reported>>
  /\ UNCHANGED <<wanted, interruptStatus, isrNew, dpcVars, queueVars, workVars, link, missed>>

\* DeviceReleaseHardware resets the device and forgets its registers.
DeviceReleaseHardware ==
  /\ power \in {"prepared", "failed"}
  /\ power' = "released" /\ regs' = FALSE
  /\ IF regs THEN enabled' = {} /\ status' = {} ELSE UNCHANGED regVars
  /\ UNCHANGED <<interrupt, wanted, interruptStatus, isrNew,
                dpcVars, queueVars, workVars, linkVars>>

\* DeviceD0Entry, UpdateLinkState included: the conditions are cleared, then
\* those of InterruptsState unmasked.  The framework connects the interrupt next.
DeviceD0Entry ==
  /\ power = "prepared"
  /\ power' = "entered"
  /\ reported' = link /\ missed' = FALSE /\ status' = {}
  /\ wanted' = {"State"} /\ enabled' = InterruptEnable({"State"})
  /\ UNCHANGED <<regs, interrupt, interruptStatus, isrNew, dpcVars, queueVars, workVars, link>>

InterruptConnect ==
  /\ power = "entered"
  /\ power' = "connected"
  /\ UNCHANGED <<regs, interrupt, regVars, wanted, interruptStatus, isrNew,
                dpcVars, queueVars, workVars, linkVars>>

\* The framework disconnects the interrupt when the queues are gone, and waits
\* for the ISR and the DPCs that were queued.
InterruptDisconnect ==
  /\ power = "connected" /\ LockFree /\ ~dpcQueued
  /\ \A q \in Queues : ~queue[q]
  /\ \A d \in Dpcs : dpc[d] = "idle"
  /\ power' = "disconnected"
  /\ UNCHANGED <<regs, interrupt, regVars, wanted, interruptStatus, isrNew,
                dpcVars, queueVars, workVars, linkVars>>

\* DeviceD0Exit: masks, then waits in WdfWorkItemFlush.
DeviceD0Exit ==
  /\ power = "disconnected"
  /\ power' = "flushing" /\ enabled' = {} /\ wanted' = {}
  /\ UNCHANGED <<regs, interrupt, status, interruptStatus, isrNew,
                dpcVars, queueVars, workVars, linkVars>>

DeviceD0ExitFlushed ==
  /\ power = "flushing" /\ ~workQueued /\ \A w \in Workers : work[w] = "idle"
  /\ power' = "prepared"
  /\ UNCHANGED <<regs, interrupt, regVars, wanted, interruptStatus, isrNew,
                dpcVars, queueVars, workVars, linkVars>>

-----------------------------------------------------------------------------
(* The packet queues.                                                      *)

CreateQueue(q) ==
  /\ power = "connected" /\ ~queue[q]
  /\ queue' = [queue EXCEPT ![q] = TRUE]
  /\ UNCHANGED <<powerVars, regVars, wanted, interruptStatus, isrNew,
                 dpcVars, notify, call, workVars, linkVars>>

\* DeviceSetNotificationRxQueue or ...TxQueue, first half, under queueLock.  Both
\* SetNotificationEnabled and Stop call it, one at a time for a queue.
SetNotification(q, on, why) ==
  /\ queue[q] /\ call[q] = "none"
  /\ notify' = [notify EXCEPT ![q] = on]
  /\ call' = [call EXCEPT ![q] = why]
  /\ UNCHANGED <<powerVars, regVars, wanted, interruptStatus, isrNew,
                 dpcVars, queue, workVars, linkVars>>

\* Second half, DeviceInterruptEnable, under the interrupt lock.
DeviceInterruptEnable(q) ==
  /\ call[q] = "enable" /\ LockFree
  /\ wanted' = wanted \cup {q}
  /\ enabled' = IF wanted' # wanted THEN InterruptEnable(wanted') ELSE enabled
  /\ call' = [call EXCEPT ![q] = "none"]
  /\ UNCHANGED <<powerVars, status, interruptStatus, isrNew, dpcVars, queue, notify,
                 workVars, linkVars>>

\* Second half, DeviceInterruptDisable; at the end of Stop the queue is destroyed.
DeviceInterruptDisable(q) ==
  /\ call[q] \in {"disable", "stop"} /\ LockFree
  /\ wanted' = wanted \ {q}
  /\ enabled' = IF wanted' # wanted THEN InterruptEnable(wanted') ELSE enabled
  /\ call' = [call EXCEPT ![q] = "none"]
  /\ queue' = [queue EXCEPT ![q] = call[q] # "stop"]
  /\ UNCHANGED <<powerVars, status, interruptStatus, isrNew, dpcVars, notify,
                 workVars, linkVars>>

-----------------------------------------------------------------------------
(* DeviceInterruptIsr, which runs with the interrupt lock.  It is called   *)
(* when an unmasked condition is raised, and may be called without.        *)

IsrRead ==
  /\ power = "connected" /\ LockFree
  /\ isrNew' = status
  /\ UNCHANGED <<powerVars, regVars, wanted, interruptStatus, dpcVars, queueVars,
                 workVars, linkVars>>

\* Mutant: all conditions are cleared, also those raised since they were read.
IsrHandleClearsAll ==
  /\ isrNew # {}
  /\ status' = {}
  /\ enabled' = {}
  /\ wanted' = wanted \ (isrNew \cap {"Rx", "Tx"})
  /\ interruptStatus' = interruptStatus \cup isrNew
  /\ dpcQueued' = TRUE
  /\ isrNew' = {}
  /\ UNCHANGED <<powerVars, dpc, dpcNew, queueVars, workVars, linkVars>>

\* Mutant: the status replaces what the DPC has not yet taken.
IsrHandleOverwrites ==
  /\ isrNew # {}
  /\ status' = status \ isrNew
  /\ enabled' = {}
  /\ wanted' = wanted \ (isrNew \cap {"Rx", "Tx"})
  /\ interruptStatus' = isrNew
  /\ dpcQueued' = TRUE
  /\ isrNew' = {}
  /\ UNCHANGED <<powerVars, dpc, dpcNew, queueVars, workVars, linkVars>>

\* Clears the conditions it has read, masks everything, queues the DPC.
IsrHandle ==
  /\ isrNew # {}
  /\ status' = status \ isrNew
  /\ enabled' = {}
  /\ wanted' = wanted \ (isrNew \cap {"Rx", "Tx"})
  /\ interruptStatus' = interruptStatus \cup isrNew
  /\ dpcQueued' = TRUE
  /\ isrNew' = {}
  /\ UNCHANGED <<powerVars, dpc, dpcNew, queueVars, workVars, linkVars>>

-----------------------------------------------------------------------------
(* DeviceInterruptDpc.                                                     *)

DpcStart(d) ==
  /\ dpcQueued /\ dpc[d] = "idle"
  /\ dpcQueued' = FALSE
  /\ dpc' = [dpc EXCEPT ![d] = "take"]
  /\ UNCHANGED <<powerVars, regVars, wanted, interruptStatus, isrNew, dpcNew, queueVars,
                 workVars, linkVars>>

\* The head of the loop: take everything, or leave.
DpcTake(d) ==
  /\ dpc[d] = "take"
  /\ dpc' = [dpc EXCEPT ![d] = IF interruptStatus = {} THEN "idle"
                               ELSE IF "Link" \in interruptStatus THEN "clear" ELSE "queues"]
  /\ dpcNew' = [dpcNew EXCEPT ![d] = interruptStatus]
  /\ interruptStatus' = {}
  /\ UNCHANGED <<powerVars, regVars, wanted, isrNew, dpcQueued, queueVars, workVars, linkVars>>

\* Reading Mac_PhyIf_Control_Status clears the LinkStatus condition.
DpcClearLink(d) ==
  /\ dpc[d] = "clear"
  /\ status' = status \ {"Link"}
  /\ dpc' = [dpc EXCEPT ![d] = "enqueue"]
  /\ UNCHANGED <<powerVars, enabled, wanted, interruptStatus, isrNew, dpcQueued, dpcNew,
                 queueVars, workVars, linkVars>>

\* Mutant: the work item is not queued while one is running.
DpcEnqueueUnlessBusy(d) ==
  /\ dpc[d] = "enqueue"
  /\ workQueued' = (workQueued \/ ~workBusy)
  /\ dpc' = [dpc EXCEPT ![d] = "queues"]
  /\ UNCHANGED <<powerVars, regVars, wanted, interruptStatus, isrNew, dpcQueued, dpcNew,
                 queueVars, work, workLink, workBusy, linkVars>>

DpcEnqueueWork(d) ==
  /\ dpc[d] = "enqueue"
  /\ workQueued' = TRUE
  /\ dpc' = [dpc EXCEPT ![d] = "queues"]
  /\ UNCHANGED <<powerVars, regVars, wanted, interruptStatus, isrNew, dpcQueued, dpcNew,
                 queueVars, work, workLink, workBusy, linkVars>>

\* Notifies, once, the queues that asked for it, under queueLock.
DpcNotify(d) ==
  /\ dpc[d] = "queues"
  /\ notify' = [q \in Queues |-> notify[q] /\ q \notin dpcNew[d]]
  /\ dpc' = [dpc EXCEPT ![d] = "enable"]
  /\ UNCHANGED <<powerVars, regVars, wanted, interruptStatus, isrNew, dpcQueued, dpcNew,
                 queue, call, workVars, linkVars>>

\* "Enable interrupts if disabled by ISR", under the interrupt lock.
DpcEnable(d) ==
  /\ dpc[d] = "enable" /\ LockFree
  /\ enabled' = IF wanted # {} THEN InterruptEnable(wanted) ELSE enabled
  /\ dpc' = [dpc EXCEPT ![d] = "take"]
  /\ dpcNew' = [dpcNew EXCEPT ![d] = {}]
  /\ UNCHANGED <<powerVars, status, wanted, interruptStatus, isrNew, dpcQueued, queueVars,
                 workVars, linkVars>>

-----------------------------------------------------------------------------
(* DeviceLinkStateWorkItem.  The framework forgets that it is queued when  *)
(* it starts it, so that it can be queued, and started, again.             *)

Reading(w) == work[w] = "read"

WorkStart(w) ==
  /\ workQueued /\ work[w] = "idle"
  /\ workQueued' = FALSE
  /\ workBusy' = TRUE
  /\ work' = [work EXCEPT ![w] = IF workBusy THEN "idle" ELSE "read"]
  /\ missed' = (missed \/ (workBusy /\ ~\E v \in Workers : Reading(v)))
  /\ UNCHANGED <<powerVars, regVars, wanted, interruptStatus, isrNew, dpcVars, queueVars,
                 workLink, link, reported>>

\* UpdateLinkState: the register is read, and its condition cleared ...
WorkRead(w) ==
  /\ Reading(w)
  /\ workLink' = [workLink EXCEPT ![w] = link]
  /\ status' = status \ {"Link"}
  /\ missed' = FALSE
  /\ work' = [work EXCEPT ![w] = "report"]
  /\ UNCHANGED <<powerVars, enabled, wanted, interruptStatus, isrNew, dpcVars, queueVars,
                 workQueued, workBusy, link, reported>>

\* ... and after the clock was set NetAdapterCx is told.
WorkReport(w) ==
  /\ work[w] = "report"
  /\ reported' = workLink[w]
  /\ work' = [work EXCEPT ![w] = "release"]
  /\ UNCHANGED <<powerVars, regVars, wanted, interruptStatus, isrNew, dpcVars, queueVars,
                 workQueued, workLink, workBusy, link, missed>>

WorkRelease(w) ==
  /\ work[w] = "release"
  /\ workBusy' = FALSE
  /\ work' = [work EXCEPT ![w] = "idle"]
  /\ workLink' = [workLink EXCEPT ![w] = FALSE]
  /\ UNCHANGED <<powerVars, regVars, wanted, interruptStatus, isrNew, dpcVars, queueVars,
                 workQueued, linkVars>>

-----------------------------------------------------------------------------
(* The device (external).                                                  *)

Powered == power \in {"entered", "connected", "disconnected", "flushing"}

HwRaise(b) ==
  /\ Powered
  /\ b \in Queues => queue[b]
  /\ status' = status \cup {b}
  /\ UNCHANGED <<powerVars, enabled, wanted, interruptStatus, isrNew, dpcVars, queueVars,
                 workVars, linkVars>>

HwLinkChange ==
  /\ Powered
  /\ link' = ~link
  /\ status' = status \cup {"Link"}
  /\ UNCHANGED <<powerVars, enabled, wanted, interruptStatus, isrNew, dpcVars, queueVars,
                 workVars, reported, missed>>

-----------------------------------------------------------------------------
Dpc(d) ==
  \/ DpcTake(d) \/ DpcClearLink(d) \/ DpcEnqueueWork(d) \/ DpcNotify(d) \/ DpcEnable(d)

Work(w) == WorkRead(w) \/ WorkReport(w) \/ WorkRelease(w)

SecondHalf(q) == DeviceInterruptEnable(q) \/ DeviceInterruptDisable(q)

Power ==
  \/ DevicePrepareHardware \/ DeviceReleaseHardware \/ DeviceD0Entry \/ InterruptConnect
  \/ InterruptDisconnect \/ DeviceD0Exit \/ DeviceD0ExitFlushed

DeviceNext ==
  \/ Power
  \/ \E q \in Queues :
       \/ CreateQueue(q)
       \/ SetNotification(q, TRUE, "enable")
       \/ SetNotification(q, FALSE, "disable")
       \/ SetNotification(q, FALSE, "stop")
       \/ SecondHalf(q)
  \/ IsrRead \/ IsrHandle
  \/ \E d \in Dpcs : DpcStart(d) \/ Dpc(d)
  \/ \E w \in Workers : WorkStart(w) \/ Work(w)
  \/ \E b \in Conditions \ {"Link"} : HwRaise(b)
  \/ "Link" \in Conditions /\ HwLinkChange

DeviceSpec == DeviceInit /\ [][DeviceNext]_deviceVars

\* An unmasked condition interrupts, and interrupts, DPCs, work items and the
\* halves of a call run to their end: who waits for the interrupt lock gets it, as
\* it is free again and again.  Nobody need ask, or power down.
WeakFairness ==
  /\ WF_deviceVars(IsrRead /\ status \cap enabled # {}) /\ WF_deviceVars(IsrHandle)
  /\ WF_deviceVars(\E d \in Dpcs : DpcStart(d)) /\ \A d \in Dpcs : WF_deviceVars(Dpc(d))
  /\ WF_deviceVars(\E w \in Workers : WorkStart(w)) /\ \A w \in Workers : WF_deviceVars(Work(w))

Fairness ==
  /\ WeakFairness
  /\ \A d \in Dpcs : SF_deviceVars(DpcEnable(d))
  /\ \A q \in Queues : SF_deviceVars(SecondHalf(q))

FairDeviceSpec == DeviceSpec /\ Fairness

-----------------------------------------------------------------------------
(* Properties.                                                             *)

DeviceTypeOK ==
  /\ power \in {"released", "failed", "prepared", "entered", "connected", "disconnected", "flushing"}
  /\ regs \in BOOLEAN /\ interrupt \in BOOLEAN
  /\ enabled \subseteq Bits /\ status \subseteq Bits /\ wanted \subseteq {"State", "Rx", "Tx"}
  /\ interruptStatus \subseteq Bits /\ isrNew \subseteq Bits
  /\ dpcQueued \in BOOLEAN /\ dpcNew \in [Dpcs -> SUBSET Bits]
  /\ dpc \in [Dpcs -> {"idle", "take", "clear", "enqueue", "queues", "enable"}]
  /\ queue \in [Queues -> BOOLEAN] /\ notify \in [Queues -> BOOLEAN]
  /\ call \in [Queues -> {"none", "enable", "disable", "stop"}]
  /\ workQueued \in BOOLEAN /\ work \in [Workers -> {"idle", "read", "report", "release"}]
  /\ workLink \in [Workers -> BOOLEAN] /\ workBusy \in BOOLEAN
  /\ link \in BOOLEAN /\ reported \in BOOLEAN /\ missed \in BOOLEAN

\* A queue that waits for a notification can get one: its interrupt is wanted, or
\* the interrupt was taken and its DPC will notify, or the request is in progress.
ArmedNotLost ==
  \A q \in Queues : notify[q] =>
    \/ q \in wanted \/ q \in interruptStatus \/ call[q] = "enable"
    \/ \E d \in Dpcs : dpc[d] \in {"clear", "enqueue", "queues"} /\ q \in dpcNew[d]

\* What the registers mask is what nobody wants, but between an ISR and the end
\* of the DPC that serves it; and a status that was taken has a DPC to come.
MaskedOnlyForDpc ==
  power = "connected" =>
    /\ \/ enabled = InterruptEnable(wanted)
       \/ interruptStatus # {}
       \/ \E d \in Dpcs : dpc[d] \in {"clear", "enqueue", "queues", "enable"}
    /\ interruptStatus # {} => dpcQueued \/ \E d \in Dpcs : dpc[d] # "idle"

\* A change of the link that NetAdapterCx has not been told of is on its way
\* through register, ISR, DPC and work item, or was dropped because the work item
\* that started last found another one busy that had read the link already.
NoLinkChangeLost ==
  Powered /\ link # reported =>
    \/ "Link" \in status \cup isrNew \cup interruptStatus
    \/ \E d \in Dpcs : dpc[d] \in {"clear", "enqueue"}
    \/ workQueued
    \/ \E w \in Workers : Reading(w) \/ (work[w] = "report" /\ workLink[w] = link)
    \/ missed

\* The assertions of the power and queue callbacks but for the one on interrupt:
\* nothing of the previous life of the device or of a queue is left.
LifecycleAsserts ==
  /\ power = "prepared" => ~workBusy /\ wanted = {} /\ interruptStatus = {} /\ ~dpcQueued
  /\ power \in {"disconnected", "flushing"} => \A q \in Queues : ~notify[q]
  /\ \A q \in Queues : ~queue[q] => ~notify[q]

\* A queue that waits for a notification and whose condition is raised is
\* notified (or asks no longer).
ArmedQueueNotified ==
  \A q \in Queues : (notify[q] /\ q \in status) ~> ~notify[q]

\* NetAdapterCx learns of the state of the link, but for the dropped work item.
LinkFollowed == []<>(power = "connected" => link = reported \/ missed)

=============================================================================

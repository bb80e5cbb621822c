------------------------------ MODULE MCDevices ------------------------------
(* What MCDmaSpi instantiates, and the interrupts of the Ethernet driver,   *)
(* again one at a time and without the rest.  EqosDevice comes in two parts  *)
(* so that neither is too large: a queue that is notified, and a link that   *)
(* changes.                                                                *)
EXTENDS MCDmaSpi, EqosDevice

-----------------------------------------------------------------------------
netVars ==
  <<power, regs, interrupt, enabled, status, wanted, interruptStatus, isrNew, dpcQueued, dpc,
    dpcNew, queue, notify, call, workQueued, work, workLink, workBusy, link, reported, missed>>
otherVars == <<vars, req, programOnly, spiOnly>>

DevicesInit ==
  /\ DeviceInit
  /\ \/ MCInit
     \/ part \in {"queue", "link"} /\ Init /\ req = 0 /\ NoProgram /\ NoSpi

NetNext ==
  /\ part \in {"queue", "link"} /\ DeviceNext /\ UNCHANGED <<part, otherVars>>
  /\ IF part = "queue" THEN UNCHANGED link
     ELSE UNCHANGED queue /\ status' \ status \subseteq {"Link"}

DevicesNext == NetNext \/ (MCNext /\ UNCHANGED netVars)

\* That of MCDmaSpi and that of EqosDevice.  What is not there has no action enabled, so that
\* the two that need strong fairness in different parts can share one condition.
strongVars == <<spiOnly, netVars>>
DevicesFairness ==
  /\ ChannelsFairness /\ WF_spiVars(part = "spi" /\ S!Serve)
  /\ WeakFairness /\ \A d \in Dpcs : SF_netVars(DpcEnable(d))
  /\ \A q \in Queues :
       SF_strongVars(\/ SecondHalf(q) /\ UNCHANGED spiOnly
                     \/ part = "spi" /\ S!TimedOut /\ UNCHANGED netVars)

DevicesSpec == DevicesInit /\ [][DevicesNext]_<<part, otherVars, netVars>> /\ DevicesFairness

-----------------------------------------------------------------------------
\* A queue whose condition is raised after SetNotification is notified by the DPC, and the
\* work item tells NetAdapterCx the state of the link, but for one that was dropped.
QueuesAndLinkServed == ArmedQueueNotified /\ LinkFollowed
=============================================================================

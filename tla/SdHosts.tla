------------------------------- MODULE SdHosts -------------------------------
(***************************************************************************)
(* sdport above either of the host controller drivers, dwcsdhc for the     *)
(* eMMC and dwcmshc for the SD card, and what both promise it.  The two    *)
(* share no state: where they name a part of it alike it is one variable   *)
(* here, and those of the host that is not there keep still.               *)
(***************************************************************************)
EXTENDS DwcSdhc

CONSTANTS MshcRequests, FifoChunks, Removable

\* dwcmshc takes at most PioTransferMaxThreshold = 64 bytes by hand, which the FIFO holds
\* and which for a read is one chunk, the FifoThreshold of MshcBuildPioTransfer.
ASSUME MshcAssumption ==
  /\ FifoChunks \in Nat /\ Removable \in BOOLEAN
  /\ \A r \in MshcRequests : /\ r.method \in {"Undefined", "Pio", "SgDma"}
                             /\ r.write \in BOOLEAN /\ r.r1b \in BOOLEAN /\ r.chunks \in Nat
                             /\ r.chunks = 0 <=> r.method = "Undefined"
                             /\ r.r1b => r.method = "Undefined"
                             /\ r.method = "Pio" => r.chunks <= IF r.write THEN FifoChunks ELSE 1

VARIABLES
  host,  \* which driver: "dwcsdhc" or "dwcmshc"
  currentErrors, remaining, localPending, localDpc, worker, stop, rint, mask, fifo, idmac

M == INSTANCE DwcMshc WITH Requests <- MshcRequests

mshcOnly == <<currentErrors, remaining, localPending, localDpc, worker, stop, rint, mask, fifo, idmac>>
sdhcOnly == <<blockCount, ints, errs, enabled, buffer>>
hostVars == <<host, vars, mshcOnly>>

HostInit ==
  \/ /\ host = "dwcsdhc" /\ Init
     /\ currentErrors = {} /\ remaining = 0 /\ localPending = FALSE /\ localDpc = FALSE /\ worker = 0
     /\ stop = "none" /\ rint = {} /\ mask = {} /\ fifo = 0 /\ idmac = FALSE
  \/ /\ host = "dwcmshc" /\ M!Init
     /\ blockCount = 0 /\ ints = {} /\ errs = {} /\ enabled = FALSE /\ buffer = 0

HostNext ==
  /\ UNCHANGED host
  /\ \/ host = "dwcsdhc" /\ Next /\ UNCHANGED mshcOnly
     \/ host = "dwcmshc" /\ M!Next /\ UNCHANGED sdhcOnly

HostSpec == HostInit /\ [][HostNext]_hostVars

-----------------------------------------------------------------------------
Abstract == INSTANCE SdRequest WITH
  turn  <- Turn,
  parts <- IF host = "dwcsdhc" THEN PartsLeft ELSE M!PartsLeft,
  bus   <- IF host = "dwcsdhc" THEN BusState ELSE M!BusState,
  Parts <- {0, 1} \cup {r.blocks : r \in Requests} \cup {r.chunks : r \in MshcRequests}

\* To sdport either host is what SdRequest says: a request goes on part by part, ends
\* once, and well only if the bus has done it all without an error; whatever became of
\* it, the next one finds the bus free and the FIFO empty.  Of dwcsdhc this says nothing
\* from a DPC on that comes between two phases of a request, with which the model ends.
HostsImplementSdRequest == Abstract!Spec

\* A request is waited for in vain only if the card hangs, whatever comes early or
\* after a timeout; one that dwcmshc paces by hand is an exception (EarlyEventsKept).
EventsComeOnceOnEither == IF host = "dwcsdhc" THEN EventsComeOnce ELSE M!EventsComeOnce

\* The hosts find a block or chunk in the FIFO, or room for one, whenever sdport hands a
\* part over and no error has ended the transfer: no data request is taken for two.
PioFindsPart == IF host = "dwcsdhc" THEN PioFindsBlock ELSE M!PioFindsChunk

\* "Save current events, since we may not be waiting for them at this stage": no request
\* of dwcmshc times out because its events came too early.
EarlyEventsKept == host = "dwcmshc" => M!EarlyEventsKept
=============================================================================

----------------------------- MODULE AudioStream -----------------------------
(***************************************************************************)
(* The WaveRT miniports of csaudiork3x and their streams                   *)
(* (Source/Main/minwavert.cpp, minwavertstream.cpp) over the I2S hardware  *)
(* (Source/Utilities/hw.cpp): one miniport that renders and one that       *)
(* captures, each with the streams PortCls opens on it.  PortCls makes one *)
(* request at a time (Quiet), which only matters where the two share the   *)
(* registers of the I2S; but it may ask for a position at any moment.      *)
(*                                                                         *)
(* The DMA channels are those of Pl330Channel, here only by what runs on   *)
(* them.                                                                   *)
(***************************************************************************)
EXTENDS AudioConstants, Integers, Sequences, FiniteSets

Dirs == {"render", "capture"}
\* KSSTATE_ACQUIRE is only recorded, and left out.
KsStates == {"STOP", "PAUSE", "RUN"}

VARIABLES
  stream,     \* stream objects: stage of their life, and their fields
  allocated,  \* m_ulSystemAllocated of each miniport
  streamTable,      \* m_SystemStreams of the render miniport
  refs,       \* references that streams hold on each miniport
  drm,        \* mixed contents that exist, each with the contents it is made of
  mix,        \* m_ulMixDrmContentId of the render miniport
  mixed,      \* the last UpdateDrmRights succeeded
  hw,         \* rk_stream of each direction: dmaThread, isActive, base
  chan,       \* channel of each direction: the stream whose buffer it moves
  i2s,        \* directions enabled in DMACR and in XFER
  call,       \* the change of state in progress
  query,      \* GetPosition of each direction: where it is, what it returned last
  lock        \* who holds m_PositionSpinLock
objects == <<stream, allocated, streamTable, refs>>
rights == <<drm, mix, mixed>>
device == <<hw, chan, i2s>>
streamVars == <<objects, rights, device, call, query, lock>>

NoObject == [stage |-> "none", dir |-> "render", unregister |-> FALSE, content |-> 0,
             buffer |-> FALSE, ks |-> "STOP"]
NoQuery == [pc |-> "idle", got |-> "none", paused |-> FALSE]
NoCall == [pc |-> "idle", s |-> NoStream, to |-> "STOP"]

\* CMiniportWaveRT::Init; CCsAudioRk3xHW is zeroed.
StreamInit ==
  /\ stream = [s \in Streams |-> NoObject]
  /\ allocated = [d \in Dirs |-> 0] /\ refs = [d \in Dirs |-> 0]
  /\ streamTable = [i \in 1 .. MaxSystemStreams |-> NoStream]
  /\ drm = <<>> /\ mix = 0 /\ mixed = FALSE
  /\ hw = [d \in Dirs |-> [dmaThread |-> FALSE, isActive |-> FALSE, unsent |-> FALSE]]
  /\ chan = [d \in Dirs |-> NoStream]
  /\ i2s = [DMACR |-> {}, XFER |-> {}]
  /\ call = NoCall
  /\ query = [d \in Dirs |-> NoQuery]
  /\ lock = [d \in Dirs |-> "free"]

StreamsQuiet == call.pc = "idle" /\ \A s \in Streams : stream[s].stage # "new"
Open(s) == stream[s].stage = "open"
Dir(s) == stream[s].dir

-----------------------------------------------------------------------------
(* The mixed DRM content.                                                  *)

\* Contents of the streams in the table
Contents(t, str) == {str[t[i]].content : i \in {j \in DOMAIN t : t[j] # NoStream}}

\* Mutant: a mixed content whose rights cannot be had is kept.
UpdateDrmRightsLeaks(t, str, outcome) ==
  LET made == outcome \in {"ok", "noRights"} /\ Contents(t, str) # {}
      new == CHOOSE n \in 1 .. 3 : n \notin DOMAIN drm
      all == IF made THEN [n \in DOMAIN drm \cup {new} |->
                             IF n = new THEN Contents(t, str) ELSE drm[n]] ELSE drm
      ok == made /\ outcome = "ok"
  IN /\ drm' = [n \in DOMAIN all \ (IF ok THEN {mix} ELSE {}) |-> all[n]]
     /\ mix' = IF ok THEN new ELSE mix
     /\ mixed' = ok

\* UpdateDrmRights over a table and streams: the new content is made before the old one
\* is destroyed; a new one whose rights cannot be had is destroyed again.
UpdateDrmRights(t, str, outcome) ==
  LET made == outcome \in {"ok", "noRights"} /\ Contents(t, str) # {}
      new == CHOOSE n \in 1 .. 3 : n \notin DOMAIN drm
      all == IF made THEN [n \in DOMAIN drm \cup {new} |->
                             IF n = new THEN Contents(t, str) ELSE drm[n]] ELSE drm
      ok == made /\ outcome = "ok"
      gone == IF ok THEN {mix} ELSE IF made THEN {new} ELSE {}
  IN /\ drm' = [n \in DOMAIN all \ gone |-> all[n]]
     /\ mix' = IF ok THEN new ELSE mix
     /\ mixed' = ok

DrmOutcomes == {"ok", "noMemory", "noMix", "noRights"}

\* IDrmAudioStream::SetContentId.  The id stays, whatever UpdateDrmRights says; a capture
\* miniport has no m_pDrmPort.
SetContentId(s, id, outcome) ==
  /\ StreamsQuiet /\ Open(s) /\ stream[s].content # id
  /\ stream' = [stream EXCEPT ![s].content = id]
  /\ IF Dir(s) = "render" THEN UpdateDrmRights(streamTable, stream', outcome)
                          ELSE UNCHANGED rights
  /\ UNCHANGED <<allocated, streamTable, refs, device, call, query, lock>>

-----------------------------------------------------------------------------
(* Streams come and go.                                                    *)

\* GetAttributesFromAttributeList: a header of 8 bytes, then nothing but modes, of 40
\* bytes each, as many as it says and as fit.
AttributesAccepted(a) ==
  /\ a.size >= 8 + 40 * Len(a.items)
  /\ \A i \in DOMAIN a.items : a.items[i] = [attribute |-> "mode", size |-> 40]

\* IsFormatSupported: a format that is not WAVEFORMATEXTENSIBLE is not compared beyond
\* WAVEFORMATEX.
IsFormatSupported(d, f) ==
  \E p \in PinFormats[d] :
    /\ f.guids = p.guids /\ f.wave = p.wave
    /\ f.tag # "extensible" => f.tag = p.tag
    /\ f.tag = "extensible" => f.complete /\ f.extension = p.extension

ValidateStreamCreate(d) == allocated[d] < MaxSystemStreams

\* Mutant: only streams that render are counted.
StreamCreatedUncounted(s, d) ==
  /\ allocated' = [allocated EXCEPT ![d] = IF d = "render" THEN @ + 1 ELSE @]
  /\ streamTable' = IF d = "capture" THEN streamTable
                      ELSE LET i == CHOOSE i \in DOMAIN streamTable : streamTable[i] = NoStream
                           IN [streamTable EXCEPT ![i] = s]

StreamCreated(s, d) ==
  /\ allocated' = [allocated EXCEPT ![d] = @ + 1]
  /\ streamTable' = IF d = "capture" THEN streamTable
                      ELSE LET i == CHOOSE i \in DOMAIN streamTable : streamTable[i] = NoStream
                           IN [streamTable EXCEPT ![i] = s]

StreamClosed(s, d, outcome) ==
  /\ allocated' = [allocated EXCEPT ![d] = @ - 1]
  /\ streamTable' = [i \in DOMAIN streamTable |->
                       IF streamTable[i] = s THEN NoStream ELSE streamTable[i]]
  /\ IF d = "render" THEN UpdateDrmRights(streamTable', stream, outcome) ELSE UNCHANGED rights

\* NewStream up to the end of CMiniportWaveRTStream::Init, which may find no memory for
\* the format after it has taken a reference on the miniport.
NewStream(s, d, p, ok) ==
  /\ StreamsQuiet /\ stream[s].stage = "none"
  /\ AttributesAccepted(p.attributes) /\ ValidateStreamCreate(d) /\ IsFormatSupported(d, p.format)
  /\ refs' = [refs EXCEPT ![d] = @ + 1]
  /\ IF ok THEN StreamCreated(s, d) ELSE UNCHANGED <<allocated, streamTable>>
  /\ stream' = [stream EXCEPT ![s] = [NoObject EXCEPT !.stage = "new", !.dir = d,
                                                      !.unregister = ok]]
  /\ UNCHANGED <<rights, device, call, query, lock>>

\* ~CMiniportWaveRTStream
DestroyStream(s, outcome) ==
  /\ IF stream[s].unregister THEN StreamClosed(s, Dir(s), outcome)
                             ELSE UNCHANGED <<allocated, streamTable, rights>>
  /\ refs' = [refs EXCEPT ![Dir(s)] = @ - 1]
  /\ stream' = [stream EXCEPT ![s] = NoObject]

\* The end of NewStream: the stream goes to PortCls, or its last reference is dropped.
NewStreamDone(s, outcome) ==
  /\ stream[s].stage = "new"
  /\ IF stream[s].unregister
       THEN stream' = [stream EXCEPT ![s].stage = "open"]
            /\ UNCHANGED <<allocated, streamTable, refs, rights>>
       ELSE DestroyStream(s, outcome)
  /\ UNCHANGED <<device, call, query, lock>>

Idle(s) == StreamsQuiet /\ query[Dir(s)].pc = "idle"

\* PortCls has stopped the stream, freed its buffer, and lets go of it.
CloseStream(s, outcome) ==
  /\ Open(s) /\ Idle(s) /\ stream[s].ks = "STOP" /\ ~stream[s].buffer
  /\ DestroyStream(s, outcome)
  /\ UNCHANGED <<device, call, query, lock>>

AllocateAudioBuffer(s) ==
  /\ Open(s) /\ Idle(s) /\ stream[s].ks = "STOP" /\ ~stream[s].buffer
  /\ stream' = [stream EXCEPT ![s].buffer = TRUE]
  /\ UNCHANGED <<allocated, streamTable, refs, rights, device, call, query, lock>>

FreeAudioBuffer(s) ==
  /\ Open(s) /\ Idle(s) /\ stream[s].ks = "STOP" /\ stream[s].buffer
  /\ stream' = [stream EXCEPT ![s].buffer = FALSE]
  /\ UNCHANGED <<allocated, streamTable, refs, rights, device, call, query, lock>>

-----------------------------------------------------------------------------
(* SetState.                                                               *)

Goto(l) == call' = [call EXCEPT !.pc = l]
Me == Dir(call.s)

\* Mutant: STOP does not take the lock either.
SetStateUnlocked(s, to) ==
  /\ StreamsQuiet /\ Open(s)
  /\ to = "RUN" => stream[s].buffer
  /\ call' = [s |-> s, to |-> to,
              pc |-> IF to = "RUN" THEN "program" ELSE "stop"]
  /\ UNCHANGED <<objects, rights, device, query, lock>>

\* PAUSE stops the transfer without the lock.  (It reads the position first, which
\* nothing uses.)
SetState(s, to) ==
  /\ StreamsQuiet /\ Open(s)
  /\ to = "RUN" => stream[s].buffer
  /\ call' = [s |-> s, to |-> to,
              pc |-> CASE to = "RUN" -> "program" [] to = "PAUSE" -> "stop" [] to = "STOP" -> "lock"]
  /\ UNCHANGED <<objects, rights, device, query, lock>>

StopLock ==
  /\ call.pc = "lock" /\ lock[Me] = "free"
  /\ lock' = [lock EXCEPT ![Me] = "SetState"]
  /\ Goto("stop")
  /\ UNCHANGED <<objects, rights, device, query>>

\* rk3x_stop as far as the I2S controller, if the stream is active
StopI2s ==
  /\ call.pc = "stop"
  /\ IF hw[Me].isActive
       THEN Goto("stopDma") /\ i2s' = [DMACR |-> i2s.DMACR \ {Me}, XFER |-> i2s.XFER \ {Me}]
       ELSE Goto("done") /\ UNCHANGED i2s
  /\ UNCHANGED <<objects, rights, hw, chan, query, lock>>

\* StopDMA, FreeChannel
StopChannel ==
  /\ call.pc = "stopDma"
  /\ chan' = [chan EXCEPT ![Me] = NoStream]
  /\ query' = [query EXCEPT ![Me].paused = query[Me].pc # "idle" /\ (@ \/ call.to = "PAUSE")]
  /\ Goto("stopClear")
  /\ UNCHANGED <<objects, rights, hw, i2s, lock>>

\* Mutant: the channel is given back, but dmaThread keeps it.
StopClearKeepsThread ==
  /\ call.pc = "stopClear"
  /\ hw' = [hw EXCEPT ![Me].isActive = FALSE]
  /\ Goto("done")
  /\ UNCHANGED <<objects, rights, chan, i2s, query, lock>>

\* The end of rk3x_stop
StopClear ==
  /\ call.pc = "stopClear"
  /\ hw' = [hw EXCEPT ![Me] = [dmaThread |-> FALSE, isActive |-> FALSE, unsent |-> FALSE]]
  /\ Goto("done")
  /\ UNCHANGED <<objects, rights, chan, i2s, query, lock>>

\* AcquireDMA, rk3x_program_dma: it returns at once if there is a channel, fails without
\* one, and keeps the channel if SubmitAudioDMA fails.
Program(outcome) ==
  /\ call.pc = "program"
  /\ IF hw[Me].dmaThread
       THEN Goto("play") /\ UNCHANGED <<hw, chan>>
       ELSE /\ hw' = [hw EXCEPT ![Me].dmaThread = outcome # "noChannel",
                                ![Me].unsent = outcome = "notSubmitted"]
            /\ chan' = IF outcome = "ok" THEN [chan EXCEPT ![Me] = call.s] ELSE chan
            /\ Goto(IF outcome = "ok" THEN "play" ELSE "failed")
  /\ UNCHANGED <<objects, rights, i2s, query, lock>>

\* StartDMA, rk3x_play: nothing is done for a stream that is active.
Play ==
  /\ call.pc = "play"
  /\ hw' = [hw EXCEPT ![Me].isActive = TRUE]
  /\ i2s' = IF hw[Me].isActive THEN i2s
              ELSE [DMACR |-> i2s.DMACR \cup {Me}, XFER |-> i2s.XFER \cup {Me}]
  /\ Goto("done")
  /\ UNCHANGED <<objects, rights, chan, query, lock>>

\* SetState returns; m_KsState follows unless it fails.
SetStateDone ==
  /\ call.pc \in {"done", "failed"}
  /\ stream' = IF call.pc = "done" THEN [stream EXCEPT ![call.s].ks = call.to] ELSE stream
  /\ lock' = [lock EXCEPT ![Me] = IF @ = "SetState" THEN "free" ELSE @]
  /\ call' = NoCall
  /\ UNCHANGED <<allocated, streamTable, refs, rights, device, query>>

-----------------------------------------------------------------------------
(* GetPosition, under the lock.                                            *)

GetPosition(s) ==
  /\ Open(s) /\ query[Dir(s)].pc = "idle" /\ lock[Dir(s)] = "free"
  /\ lock' = [lock EXCEPT ![Dir(s)] = "GetPosition"]
  /\ query' = [query EXCEPT ![Dir(s)] = [pc |-> "look", got |-> "none",
                   paused |-> call.pc # "idle" /\ call.to = "PAUSE" /\ Me = Dir(s)]]
  /\ UNCHANGED <<objects, rights, device, call>>

\* rk3x_current_position: of a stream that is not active no position is read, and the
\* caller returns what its variable held.
GetPositionLook(d) ==
  /\ query[d].pc = "look"
  /\ query' = [query EXCEPT ![d].pc = IF hw[d].isActive /\ hw[d].dmaThread THEN "read" ELSE "end"]
  /\ UNCHANGED <<objects, rights, device, call, lock>>

\* GetThreadRegisters of dmaThread, which is read again: its channel, if it still has it
GetPositionRead(d) ==
  /\ query[d].pc = "read"
  /\ query' = [query EXCEPT ![d].pc = "end",
                 ![d].got = IF hw[d].unsent \/ chan[d] # NoStream THEN "own" ELSE "stale"]
  /\ UNCHANGED <<objects, rights, device, call, lock>>

GetPositionDone(d) ==
  /\ query[d].pc = "end"
  /\ query' = [query EXCEPT ![d] = NoQuery]
  /\ lock' = [lock EXCEPT ![d] = "free"]
  /\ UNCHANGED <<objects, rights, device, call>>

-----------------------------------------------------------------------------
StreamNext ==
  \/ \E s \in Streams :
       \/ \E d \in Dirs, p \in Proposals, ok \in BOOLEAN : NewStream(s, d, p, ok)
       \/ \E o \in DrmOutcomes : NewStreamDone(s, o) \/ CloseStream(s, o)
       \/ \E id \in ContentIds, o \in DrmOutcomes : SetContentId(s, id, o)
       \/ AllocateAudioBuffer(s) \/ FreeAudioBuffer(s) \/ GetPosition(s)
       \/ \E to \in KsStates : SetState(s, to)
  \/ StopLock \/ StopI2s \/ StopChannel \/ StopClear \/ Play \/ SetStateDone
  \/ \E o \in {"ok", "noChannel", "notSubmitted"} : Program(o)
  \/ \E d \in Dirs : GetPositionLook(d) \/ GetPositionRead(d) \/ GetPositionDone(d)

StreamSpec == StreamInit /\ [][StreamNext]_streamVars

-----------------------------------------------------------------------------
(* Properties.                                                             *)

Registered(d) == {s \in Streams : Dir(s) = d /\ stream[s].unregister}

\* Through every way NewStream can fail, m_ulSystemAllocated counts the streams that are
\* registered and no more than the pin allows, the table holds those that render, each
\* once, and each stream object holds one reference on its miniport.
StreamsAccounted ==
  /\ \A d \in Dirs :
       /\ allocated[d] = Cardinality(Registered(d)) /\ allocated[d] <= MaxSystemStreams
       /\ refs[d] = Cardinality({s \in Streams : Dir(s) = d /\ stream[s].stage # "none"})
  /\ \A s \in Streams :
       Cardinality({i \in DOMAIN streamTable : streamTable[i] = s})
         = IF s \in Registered("render") THEN 1 ELSE 0

\* The miniport owns the mixed content it has recorded and no other, and it is made of
\* the contents of the streams that render whenever the last UpdateDrmRights succeeded.
MixOwned ==
  /\ DOMAIN drm = IF mix = 0 THEN {} ELSE {mix}
  /\ mixed => drm[mix] = {stream[s].content : s \in Registered("render")}

\* A channel moves only a buffer that PortCls has not freed.  A stream in KSSTATE_RUN has
\* its own buffer moved, with I2S enabled, whatever the other direction does - unless
\* SubmitAudioDMA has failed before, when rk3x_program_dma takes the channel for one
\* that has its program.
TransfersOwnBuffer ==
  /\ \A d \in Dirs : chan[d] # NoStream => stream[chan[d]].buffer /\ Dir(chan[d]) = d
  /\ call.pc = "idle" =>
       /\ \A s \in Streams : stream[s].ks = "RUN" =>
            /\ hw[Dir(s)].unsent \/ chan[Dir(s)] = s
            /\ Dir(s) \in i2s.DMACR \cap i2s.XFER
       /\ \A d \in Dirs : d \in i2s.DMACR \cup i2s.XFER => hw[d].isActive

\* "Initialize the spinlock to synchronize position updates": a position comes from
\* registers of a channel that the stream still has, unless a pause, which
\* does without the lock, took the channel away meanwhile.
PositionOfOwnChannel == \A d \in Dirs : query[d].got = "stale" => query[d].paused

=============================================================================

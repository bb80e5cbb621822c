----------------------------- MODULE AudioProofs -----------------------------
(***************************************************************************)
(* Proofs about csaudiork3x: its streams, for any number of stream objects *)
(* and of contents and whatever formats a pin offers, and its adapter, for *)
(* whatever the topology says and however often the bus device is kept     *)
(* from idling.                                                            *)
(***************************************************************************)
EXTENDS AudioStream, AudioAdapter, FiniteSetTheorems, TLAPS

-----------------------------------------------------------------------------
(* Types.                                                                  *)

StreamRecords ==
  [stage : {"none", "new", "open"}, dir : Dirs, unregister : BOOLEAN, content : ContentIds,
   buffer : BOOLEAN, ks : KsStates]
CallPlaces == {"idle", "lock", "stop", "stopDma", "stopClear", "program", "play", "done", "failed"}

ObjectsOK ==
  /\ stream \in [Streams -> StreamRecords]
  /\ allocated \in [Dirs -> Int] /\ refs \in [Dirs -> Int]
  /\ streamTable \in [1 .. MaxSystemStreams -> Streams \cup {NoStream}]

DeviceOK ==
  /\ hw \in [Dirs -> [dmaThread : BOOLEAN, isActive : BOOLEAN, unsent : BOOLEAN]]
  /\ chan \in [Dirs -> Streams \cup {NoStream}]
  /\ i2s \in [DMACR : SUBSET Dirs, XFER : SUBSET Dirs]

CallsOK ==
  /\ call \in [pc : CallPlaces, s : Streams \cup {NoStream}, to : KsStates]
  /\ query \in [Dirs -> [pc : {"idle", "look", "read", "end"}, got : {"none", "own", "stale"},
                         paused : BOOLEAN]]
  /\ lock \in [Dirs -> {"free", "SetState", "GetPosition"}]

StreamTypeOK == ObjectsOK /\ DeviceOK /\ CallsOK

-----------------------------------------------------------------------------
(* The inductive invariant.                                                *)

\* An object that is not there is cleared, one that PortCls has is registered.
ObjectInv ==
  \A s \in Streams :
    /\ stream[s].stage = "none" => stream[s] = NoObject
    /\ stream[s].stage = "open" => stream[s].unregister
    /\ stream[s].ks # "STOP" => stream[s].stage = "open"

\* A change of state has an open stream, nothing is created meanwhile, and the way it
\* takes is that of its aim.
CallInv ==
  call.pc # "idle" =>
    /\ call.s \in Streams /\ Open(call.s)
    /\ \A s \in Streams : stream[s].stage # "new"
    /\ call.pc \in {"lock", "stop", "stopDma", "stopClear"} => call.to # "RUN"
    /\ call.pc \in {"program", "play", "failed"} => call.to = "RUN"
    /\ call.to = "RUN" => stream[call.s].buffer
    /\ call.to = "STOP" /\ call.pc # "lock" => lock[Me] = "SetState"

Stopping(d) == call.pc = "stopClear" /\ Me = d

\* GetPosition holds the lock; a channel is lost under it only to a pause.
QueryInv ==
  \A d \in Dirs :
    /\ query[d].pc # "idle" <=> lock[d] = "GetPosition"
    /\ query[d].pc # "idle" /\ Stopping(d) => query[d].paused
    /\ query[d].pc = "read" =>
         query[d].paused \/ (hw[d].dmaThread /\ (hw[d].unsent \/ chan[d] # NoStream))
    /\ query[d].got = "stale" => query[d].pc = "end" /\ query[d].paused

\* dmaThread has a channel with a program, unless that has failed or it is being taken back.
ThreadInv ==
  \A d \in Dirs :
    hw[d].dmaThread => hw[d].unsent \/ chan[d] # NoStream \/ Stopping(d)

StreamInv == StreamTypeOK /\ ObjectInv /\ CallInv /\ QueryInv /\ ThreadInv

-----------------------------------------------------------------------------
(* Initial states.                                                         *)

LEMMA StreamInitInv == ASSUME StreamInit PROVE StreamInv
<1>1. StreamTypeOK
  BY StreamAssumption DEF StreamInit, StreamTypeOK, ObjectsOK, DeviceOK, CallsOK, StreamRecords, NoObject,
     NoQuery, NoCall, Dirs, KsStates, CallPlaces
<1>2. ObjectInv /\ CallInv /\ QueryInv /\ ThreadInv
  BY DEF StreamInit, ObjectInv, CallInv, QueryInv, ThreadInv, NoObject, NoQuery, NoCall
<1> QED BY <1>1, <1>2 DEF StreamInv

-----------------------------------------------------------------------------
(* Types.                                                                  *)

\* A change of state, or a position, leaves the objects alone.
LEMMA ObjectsKept == ASSUME ObjectsOK, UNCHANGED objects PROVE ObjectsOK'
  BY DEF ObjectsOK, objects

LEMMA DeviceKept == ASSUME DeviceOK, UNCHANGED device PROVE DeviceOK'
  BY DEF DeviceOK, device

LEMMA CallsKept == ASSUME CallsOK, UNCHANGED <<call, query, lock>> PROVE CallsOK'
  BY DEF CallsOK

\* What the destructor leaves of the counts and of the table is well-typed.
LEMMA DestroyTypes ==
  ASSUME ObjectsOK, NEW s \in Streams, NEW o, DestroyStream(s, o)
  PROVE  ObjectsOK'
<1>1. NoObject \in StreamRecords /\ Dir(s) \in Dirs
  BY StreamAssumption DEF ObjectsOK, StreamRecords, NoObject, Dirs, KsStates, Dir
<1>2. stream' \in [Streams -> StreamRecords] /\ refs' \in [Dirs -> Int]
  BY <1>1 DEF DestroyStream, ObjectsOK
<1>3. allocated' \in [Dirs -> Int] /\ streamTable' \in [1 .. MaxSystemStreams -> Streams \cup {NoStream}]
  BY <1>1 DEF DestroyStream, StreamClosed, ObjectsOK
<1> QED BY <1>2, <1>3 DEF ObjectsOK

LEMMA NewStreamTypes ==
  ASSUME ObjectsOK, NEW s \in Streams, NEW d \in Dirs, NEW p, NEW ok \in BOOLEAN, NewStream(s, d, p, ok)
  PROVE  ObjectsOK'
<1>1. [NoObject EXCEPT !.stage = "new", !.dir = d, !.unregister = ok] \in StreamRecords
  BY StreamAssumption DEF StreamRecords, NoObject, Dirs, KsStates
<1>2. stream' \in [Streams -> StreamRecords] /\ refs' \in [Dirs -> Int]
  BY <1>1 DEF NewStream, ObjectsOK
<1>3. \A i : [streamTable EXCEPT ![i] = s] \in [1 .. MaxSystemStreams -> Streams \cup {NoStream}]
  BY DEF ObjectsOK
<1>4. streamTable' \in [1 .. MaxSystemStreams -> Streams \cup {NoStream}]
  BY <1>3 DEF NewStream, StreamCreated, ObjectsOK
<1>5. allocated' \in [Dirs -> Int]
  BY DEF NewStream, StreamCreated, ObjectsOK
<1> QED BY <1>2, <1>4, <1>5 DEF ObjectsOK

\* A field of a stream object is set to a value of its type.
LEMMA FieldTypes ==
  ASSUME ObjectsOK, NEW s \in Streams, UNCHANGED <<allocated, streamTable, refs>>,
         \/ stream' = [stream EXCEPT ![s].stage = "open"]
         \/ \E b \in BOOLEAN : stream' = [stream EXCEPT ![s].buffer = b]
         \/ \E id \in ContentIds : stream' = [stream EXCEPT ![s].content = id]
         \/ \E ks \in KsStates : stream' = [stream EXCEPT ![s].ks = ks]
  PROVE  ObjectsOK'
<1>1. CASE stream' = [stream EXCEPT ![s].stage = "open"]
  <2>1. [stream[s] EXCEPT !.stage = "open"] \in StreamRecords
    BY DEF ObjectsOK, StreamRecords
  <2> QED BY <1>1, <2>1 DEF ObjectsOK
<1>2. CASE \E b \in BOOLEAN : stream' = [stream EXCEPT ![s].buffer = b]
  <2>1. PICK b \in BOOLEAN : stream' = [stream EXCEPT ![s].buffer = b]
    BY <1>2
  <2>2. [stream[s] EXCEPT !.buffer = b] \in StreamRecords
    BY DEF ObjectsOK, StreamRecords
  <2> QED BY <2>1, <2>2 DEF ObjectsOK
<1>3. CASE \E id \in ContentIds : stream' = [stream EXCEPT ![s].content = id]
  <2>1. PICK id \in ContentIds : stream' = [stream EXCEPT ![s].content = id]
    BY <1>3
  <2>2. [stream[s] EXCEPT !.content = id] \in StreamRecords
    BY DEF ObjectsOK, StreamRecords
  <2> QED BY <2>1, <2>2 DEF ObjectsOK
<1>4. CASE \E ks \in KsStates : stream' = [stream EXCEPT ![s].ks = ks]
  <2>1. PICK ks \in KsStates : stream' = [stream EXCEPT ![s].ks = ks]
    BY <1>4
  <2>2. [stream[s] EXCEPT !.ks = ks] \in StreamRecords
    <3>1. stream[s] \in StreamRecords
      BY DEF ObjectsOK
    <3> QED BY <3>1 DEF StreamRecords
  <2> QED BY <2>1, <2>2 DEF ObjectsOK
<1> QED BY <1>1, <1>2, <1>3, <1>4

\* PortCls makes, fills, empties, rates and lets go of a stream.
ObjectStep ==
  \E s \in Streams :
    \/ \E d \in Dirs, p \in Proposals, ok \in BOOLEAN : NewStream(s, d, p, ok)
    \/ \E o \in DrmOutcomes : NewStreamDone(s, o) \/ CloseStream(s, o)
    \/ \E id \in ContentIds, o \in DrmOutcomes : SetContentId(s, id, o)
    \/ AllocateAudioBuffer(s) \/ FreeAudioBuffer(s)

LEMMA ObjectStepTypes == ASSUME StreamTypeOK, ObjectStep PROVE StreamTypeOK'
<1>1. PICK s \in Streams :
        \/ \E d \in Dirs, p \in Proposals, ok \in BOOLEAN : NewStream(s, d, p, ok)
        \/ \E o \in DrmOutcomes : NewStreamDone(s, o) \/ CloseStream(s, o)
        \/ \E id \in ContentIds, o \in DrmOutcomes : SetContentId(s, id, o)
        \/ AllocateAudioBuffer(s) \/ FreeAudioBuffer(s)
  BY DEF ObjectStep
<1>2. UNCHANGED device /\ UNCHANGED <<call, query, lock>>
  BY <1>1 DEF NewStream, NewStreamDone, CloseStream, SetContentId, AllocateAudioBuffer, FreeAudioBuffer
<1>3. ObjectsOK'
  <2>0. ObjectsOK
    BY DEF StreamTypeOK
  <2>1. CASE \E d \in Dirs, p \in Proposals, ok \in BOOLEAN : NewStream(s, d, p, ok)
    BY <2>0, <2>1, NewStreamTypes
  <2>2. CASE \E o \in DrmOutcomes : NewStreamDone(s, o) \/ CloseStream(s, o)
    BY <2>0, <2>2, DestroyTypes, FieldTypes DEF NewStreamDone, CloseStream
  <2>3. CASE \E id \in ContentIds, o \in DrmOutcomes : SetContentId(s, id, o)
    BY <2>0, <2>3, FieldTypes DEF SetContentId
  <2>4. CASE AllocateAudioBuffer(s) \/ FreeAudioBuffer(s)
    BY <2>0, <2>4, FieldTypes DEF AllocateAudioBuffer, FreeAudioBuffer
  <2> QED BY <1>1, <2>1, <2>2, <2>3, <2>4
<1> QED BY <1>2, <1>3, DeviceKept, CallsKept DEF StreamTypeOK

\* The steps of SetState and of GetPosition.
CallStep ==
  \/ \E s \in Streams : GetPosition(s) \/ \E to \in KsStates : SetState(s, to)
  \/ StopLock \/ StopI2s \/ StopChannel \/ StopClear \/ Play \/ SetStateDone
  \/ \E o \in {"ok", "noChannel", "notSubmitted"} : Program(o)
  \/ \E d \in Dirs : GetPositionLook(d) \/ GetPositionRead(d) \/ GetPositionDone(d)

LEMMA NextSteps == StreamNext <=> ObjectStep \/ CallStep
  BY DEF StreamNext, ObjectStep, CallStep

\* A change of state that is under way is that of a stream.
LEMMA CallStream ==
  ASSUME StreamTypeOK, CallInv, call.pc # "idle"
  PROVE  /\ call.s \in Streams /\ Me \in Dirs /\ call.to \in KsStates
         /\ call = [pc |-> call.pc, s |-> call.s, to |-> call.to]
  BY DEF StreamTypeOK, CallsOK, ObjectsOK, CallInv, StreamRecords, Me, Dir

LEMMA CallStepTypes == ASSUME StreamTypeOK, CallInv, CallStep PROVE StreamTypeOK'
<1>0. ObjectsOK /\ DeviceOK /\ CallsOK
  BY DEF StreamTypeOK
<1>1. CASE \E s \in Streams : GetPosition(s)
  <2>1. PICK s \in Streams : GetPosition(s)
    BY <1>1
  <2> DEFINE p == call.pc # "idle" /\ call.to = "PAUSE" /\ Me = Dir(s)
  <2>2. p \in BOOLEAN
    OBVIOUS
  <2>3. query' = [query EXCEPT ![Dir(s)] = [pc |-> "look", got |-> "none", paused |-> p]]
    BY <2>1 DEF GetPosition
  <2> HIDE DEF p
  <2>4. query' \in [Dirs -> [pc : {"idle", "look", "read", "end"}, got : {"none", "own", "stale"},
                             paused : BOOLEAN]]
    BY <1>0, <2>2, <2>3 DEF CallsOK
  <2>5. lock' \in [Dirs -> {"free", "SetState", "GetPosition"}] /\ call' = call
    BY <1>0, <2>1 DEF CallsOK, GetPosition
  <2> QED BY <1>0, <2>1, <2>4, <2>5, ObjectsKept, DeviceKept DEF StreamTypeOK, CallsOK, GetPosition
<1>2. CASE \E s \in Streams, to \in KsStates : SetState(s, to)
  BY <1>0, <1>2, ObjectsKept, DeviceKept DEF StreamTypeOK, CallsOK, SetState, CallPlaces, KsStates
<1>3. CASE StopLock
  BY <1>0, <1>3, ObjectsKept, DeviceKept DEF StreamTypeOK, CallsOK, StopLock, CallPlaces, Goto
<1>4. CASE StopI2s
  BY <1>0, <1>4, ObjectsKept DEF StreamTypeOK, CallsOK, DeviceOK, StopI2s, CallPlaces, Goto
<1>5. CASE StopChannel
  <2>1. DeviceOK'
    BY <1>0, <1>5 DEF DeviceOK, StopChannel
  <2> DEFINE p == query[Me].pc # "idle" /\ (query[Me].paused \/ call.to = "PAUSE")
  <2>2. query' = [query EXCEPT ![Me].paused = p] /\ p \in BOOLEAN
    BY <1>5 DEF StopChannel
  <2> HIDE DEF p
  <2>3. query' \in [Dirs -> [pc : {"idle", "look", "read", "end"}, got : {"none", "own", "stale"},
                             paused : BOOLEAN]]
    BY <1>0, <2>2 DEF CallsOK
  <2>4. call' \in [pc : CallPlaces, s : Streams \cup {NoStream}, to : KsStates] /\ lock' = lock
    BY <1>0, <1>5 DEF CallsOK, StopChannel, CallPlaces, Goto
  <2>5. CallsOK'
    BY <1>0, <2>3, <2>4 DEF CallsOK
  <2> QED BY <1>0, <1>5, <2>1, <2>5, ObjectsKept DEF StreamTypeOK, StopChannel
<1>6. CASE StopClear
  <2>1. DeviceOK'
    BY <1>0, <1>6 DEF DeviceOK, StopClear
  <2>2. CallsOK'
    BY <1>0, <1>6 DEF CallsOK, StopClear, CallPlaces, Goto
  <2> QED BY <1>0, <1>6, <2>1, <2>2, ObjectsKept DEF StreamTypeOK, StopClear
<1>7. CASE Play
  <2>1. hw' \in [Dirs -> [dmaThread : BOOLEAN, isActive : BOOLEAN, unsent : BOOLEAN]]
    BY <1>0, <1>7 DEF DeviceOK, Play
  <2>2. i2s' \in [DMACR : SUBSET Dirs, XFER : SUBSET Dirs]
    BY <1>0, <1>7, CallStream DEF DeviceOK, Play
  <2>3. call' \in [pc : CallPlaces, s : Streams \cup {NoStream}, to : KsStates]
    BY <1>0, <1>7 DEF CallsOK, Play, Goto, CallPlaces
  <2> QED BY <1>0, <1>7, <2>1, <2>2, <2>3, ObjectsKept DEF StreamTypeOK, CallsOK, DeviceOK, Play
<1>8. CASE SetStateDone
  <2>1. ObjectsOK'
    <3>1. CASE call.pc = "done"
      BY <1>0, <1>8, <3>1, FieldTypes, CallStream DEF SetStateDone
    <3>2. CASE call.pc # "done"
      BY <1>0, <1>8, <3>2, ObjectsKept DEF SetStateDone, objects
    <3> QED BY <3>1, <3>2
  <2>2. call' \in [pc : CallPlaces, s : Streams \cup {NoStream}, to : KsStates]
    BY <1>8 DEF SetStateDone, CallPlaces, NoCall, KsStates
  <2>3. lock' \in [Dirs -> {"free", "SetState", "GetPosition"}] /\ query' = query
    BY <1>0, <1>8 DEF CallsOK, SetStateDone
  <2> QED BY <1>0, <1>8, <2>1, <2>2, <2>3, DeviceKept DEF StreamTypeOK, CallsOK, SetStateDone
<1>9. CASE \E o \in {"ok", "noChannel", "notSubmitted"} : Program(o)
  <2>1. PICK o \in {"ok", "noChannel", "notSubmitted"} : Program(o)
    BY <1>9
  <2>2. hw' \in [Dirs -> [dmaThread : BOOLEAN, isActive : BOOLEAN, unsent : BOOLEAN]]
    <3> DEFINE got == o # "noChannel"
               unsent == o = "notSubmitted"
    <3>1. got \in BOOLEAN /\ unsent \in BOOLEAN
      OBVIOUS
    <3>2. hw' = hw \/ hw' = [hw EXCEPT ![Me].dmaThread = got, ![Me].unsent = unsent]
      BY <2>1 DEF Program
    <3> HIDE DEF got, unsent
    <3> QED BY <1>0, <3>1, <3>2 DEF DeviceOK
  <2>3. chan' \in [Dirs -> Streams \cup {NoStream}]
    BY <1>0, <2>1, CallStream DEF DeviceOK, Program
  <2>4. call' \in [pc : CallPlaces, s : Streams \cup {NoStream}, to : KsStates]
    BY <1>0, <2>1 DEF CallsOK, Program, Goto, CallPlaces
  <2> QED BY <1>0, <2>1, <2>2, <2>3, <2>4, ObjectsKept DEF StreamTypeOK, CallsOK, DeviceOK, Program
<1>10. CASE \E d \in Dirs : GetPositionLook(d) \/ GetPositionRead(d) \/ GetPositionDone(d)
  <2>1. PICK d \in Dirs : GetPositionLook(d) \/ GetPositionRead(d) \/ GetPositionDone(d)
    BY <1>10
  <2>2. query' \in [Dirs -> [pc : {"idle", "look", "read", "end"}, got : {"none", "own", "stale"},
                             paused : BOOLEAN]]
    <3>1. CASE GetPositionLook(d)
      BY <1>0, <3>1 DEF CallsOK, GetPositionLook
    <3>2. CASE GetPositionRead(d)
      <4>1. PICK g \in {"own", "stale"} : query' = [query EXCEPT ![d].pc = "end", ![d].got = g]
        BY <3>2 DEF GetPositionRead
      <4>2. [query[d] EXCEPT !.pc = "end", !.got = g]
              \in [pc : {"idle", "look", "read", "end"}, got : {"none", "own", "stale"}, paused : BOOLEAN]
        BY <1>0 DEF CallsOK
      <4> QED BY <1>0, <4>1, <4>2 DEF CallsOK
    <3>3. CASE GetPositionDone(d)
      BY <1>0, <3>3 DEF CallsOK, GetPositionDone, NoQuery
    <3> QED BY <2>1, <3>1, <3>2, <3>3
  <2>3. lock' \in [Dirs -> {"free", "SetState", "GetPosition"}] /\ call' = call
    BY <1>0, <2>1 DEF CallsOK, GetPositionLook, GetPositionRead, GetPositionDone
  <2> QED BY <1>0, <2>1, <2>2, <2>3, ObjectsKept, DeviceKept
          DEF StreamTypeOK, CallsOK, GetPositionLook, GetPositionRead, GetPositionDone
<1> QED BY <1>1, <1>2, <1>3, <1>4, <1>5, <1>6, <1>7, <1>8, <1>9, <1>10 DEF CallStep

-----------------------------------------------------------------------------
(* The inductive step.                                                     *)

\* No stream is made or destroyed while a state changes, and nothing else is disturbed.
LEMMA ObjectStepInv == ASSUME StreamInv, ObjectStep PROVE StreamInv'
<1>0. StreamTypeOK /\ ObjectInv /\ CallInv /\ QueryInv /\ ThreadInv /\ ObjectsOK
  BY DEF StreamInv, StreamTypeOK
<1>1. PICK s \in Streams :
        \/ \E d \in Dirs, p \in Proposals, ok \in BOOLEAN : NewStream(s, d, p, ok)
        \/ \E o \in DrmOutcomes : NewStreamDone(s, o) \/ CloseStream(s, o)
        \/ \E id \in ContentIds, o \in DrmOutcomes : SetContentId(s, id, o)
        \/ AllocateAudioBuffer(s) \/ FreeAudioBuffer(s)
  BY DEF ObjectStep
<1>2. UNCHANGED <<hw, chan, i2s, call, query, lock>>
  BY <1>1 DEF NewStream, NewStreamDone, CloseStream, SetContentId, AllocateAudioBuffer, FreeAudioBuffer,
              device
<1>3. call.pc = "idle"
  BY <1>0, <1>1 DEF CallInv, NewStream, NewStreamDone, CloseStream, SetContentId, AllocateAudioBuffer,
                    FreeAudioBuffer, StreamsQuiet, Idle
<1>4. ObjectInv'
  <2>1. CASE \E d \in Dirs, p \in Proposals, ok \in BOOLEAN : NewStream(s, d, p, ok)
    <3>1. /\ stream'[s].stage = "new" /\ stream'[s].ks = "STOP"
          /\ \A t \in Streams \ {s} : stream'[t] = stream[t]
      <4>1. PICK d \in Dirs, ok \in BOOLEAN :
              stream' = [stream EXCEPT ![s] = [NoObject EXCEPT !.stage = "new", !.dir = d, !.unregister = ok]]
        BY <2>1 DEF NewStream
      <4> DEFINE new == [NoObject EXCEPT !.stage = "new", !.dir = d, !.unregister = ok]
      <4>2. new.stage = "new" /\ new.ks = "STOP"
        BY DEF NoObject
      <4>3. stream' = [stream EXCEPT ![s] = new]
        BY <4>1
      <4> HIDE DEF new
      <4> QED BY <1>0, <4>2, <4>3 DEF ObjectsOK
    <3> QED BY <1>0, <3>1 DEF ObjectInv
  <2>2. CASE \E o \in DrmOutcomes : NewStreamDone(s, o) \/ CloseStream(s, o)
    <3>1. \A t \in Streams \ {s} : stream'[t] = stream[t]
      BY <1>0, <2>2 DEF NewStreamDone, CloseStream, DestroyStream, ObjectsOK
    <3>2. stream'[s] = NoObject
          \/ (stream[s].unregister /\ stream' = [stream EXCEPT ![s].stage = "open"])
      BY <1>0, <2>2 DEF NewStreamDone, CloseStream, DestroyStream, ObjectsOK
    <3>3. CASE stream'[s] = NoObject
      BY <1>0, <3>1, <3>3 DEF ObjectInv, NoObject
    <3>4. CASE stream[s].unregister /\ stream' = [stream EXCEPT ![s].stage = "open"]
      <4>1. stream'[s].stage = "open" /\ stream'[s].unregister
        BY <1>0, <3>4 DEF ObjectsOK, StreamRecords
      <4> QED BY <1>0, <3>1, <4>1 DEF ObjectInv
    <3> QED BY <3>2, <3>3, <3>4
  <2>4. CASE \E id \in ContentIds, o \in DrmOutcomes : SetContentId(s, id, o)
    <3>1. /\ stream'[s].stage = "open" /\ stream'[s].unregister = stream[s].unregister
          /\ \A t \in Streams \ {s} : stream'[t] = stream[t]
      BY <1>0, <2>4 DEF SetContentId, Open, ObjectsOK, StreamRecords
    <3>2. stream[s].stage = "open"
      BY <2>4 DEF SetContentId, Open
    <3> QED BY <1>0, <3>1, <3>2 DEF ObjectInv
  <2>5. CASE AllocateAudioBuffer(s) \/ FreeAudioBuffer(s)
    <3>1. /\ stream'[s].stage = "open" /\ stream'[s].unregister = stream[s].unregister
          /\ \A t \in Streams \ {s} : stream'[t] = stream[t]
      BY <1>0, <2>5 DEF AllocateAudioBuffer, FreeAudioBuffer, Open, ObjectsOK, StreamRecords
    <3>2. stream[s].stage = "open"
      BY <2>5 DEF AllocateAudioBuffer, FreeAudioBuffer, Open
    <3> QED BY <1>0, <3>1, <3>2 DEF ObjectInv
  <2> QED BY <1>1, <2>1, <2>2, <2>4, <2>5
<1>5. CallInv' /\ QueryInv' /\ ThreadInv'
  BY <1>0, <1>2, <1>3 DEF CallInv, QueryInv, ThreadInv, Stopping
<1> QED BY <1>0, <1>4, <1>5, ObjectStepTypes DEF StreamInv

\* The steps of SetState.
StateStep ==
  \/ \E s \in Streams, to \in KsStates : SetState(s, to)
  \/ StopLock \/ StopI2s \/ StopChannel \/ StopClear \/ Play \/ SetStateDone
  \/ \E o \in {"ok", "noChannel", "notSubmitted"} : Program(o)

LEMMA StateStepObjects == ASSUME StreamInv, StateStep PROVE ObjectInv'
<1>0. StreamTypeOK /\ ObjectInv /\ CallInv /\ ObjectsOK
  BY DEF StreamInv, StreamTypeOK
<1>1. CASE SetStateDone
  <2>1. call.s \in Streams /\ stream[call.s].stage = "open" /\ NoObject.ks = "STOP"
    BY <1>0, <1>1 DEF CallInv, SetStateDone, Open, NoObject
  <2>2. /\ \A s \in Streams : /\ stream'[s].stage = stream[s].stage
                               /\ stream'[s].unregister = stream[s].unregister
        /\ \A s \in Streams \ {call.s} : stream'[s] = stream[s]
    BY <1>0, <1>1, <2>1 DEF SetStateDone, ObjectsOK, StreamRecords
  <2> QED BY <1>0, <2>1, <2>2 DEF ObjectInv
<1>2. CASE stream' = stream
  BY <1>0, <1>2 DEF ObjectInv
<1> QED BY <1>1, <1>2 DEF StateStep, SetState, StopLock, StopI2s, StopChannel, StopClear, Play, Program,
                          objects

LEMMA StateStepCall == ASSUME StreamInv, StateStep PROVE CallInv'
<1>0. StreamTypeOK /\ ObjectInv /\ CallInv /\ CallsOK
  BY DEF StreamInv, StreamTypeOK
<1>1. CASE \E s \in Streams, to \in KsStates : SetState(s, to)
  BY <1>0, <1>1 DEF CallInv, SetState, StreamsQuiet, Open, KsStates, objects
<1>2. CASE StopLock
  BY <1>0, <1>2, CallStream DEF CallInv, StopLock, Open, Me, Dir, Goto, objects, CallsOK
<1>3. CASE StopI2s \/ StopChannel \/ StopClear
  BY <1>0, <1>3, CallStream DEF CallInv, StopI2s, StopChannel, StopClear, Open, Me, Dir, Goto, objects,
                                CallsOK
<1>4. CASE Play \/ \E o \in {"ok", "noChannel", "notSubmitted"} : Program(o)
  <2>1. /\ call.pc \in {"play", "program"} /\ UNCHANGED objects /\ lock' = lock
        /\ \E l \in {"done", "play", "failed"} : call' = [call EXCEPT !.pc = l]
    BY <1>4 DEF Play, Program, Goto
  <2>2. /\ call'.s = call.s /\ call'.to = call.to /\ call.to = "RUN"
        /\ call'.pc \in {"done", "play", "failed"}
    BY <1>0, <2>1 DEF CallsOK, CallInv
  <2> QED BY <1>0, <2>1, <2>2 DEF CallInv, Open, Me, Dir, objects
<1>5. CASE SetStateDone
  BY <1>5 DEF CallInv, SetStateDone, NoCall
<1> QED BY <1>1, <1>2, <1>3, <1>4, <1>5 DEF StateStep

\* StopDMA with the lock finds no GetPosition at work; a pause is marked.
LEMMA StateStepQuery == ASSUME StreamInv, StateStep PROVE QueryInv' /\ ThreadInv'
<1>0. StreamTypeOK /\ CallInv /\ QueryInv /\ ThreadInv /\ CallsOK /\ DeviceOK
  BY DEF StreamInv, StreamTypeOK
<1>1. CASE \E s \in Streams, to \in KsStates : SetState(s, to)
  BY <1>0, <1>1 DEF QueryInv, ThreadInv, SetState, Stopping, StreamsQuiet, KsStates, device
<1>2. CASE StopLock
  BY <1>0, <1>2, CallStream DEF QueryInv, ThreadInv, StopLock, Stopping, Me, Dir, Goto, device, objects,
                                CallsOK
<1>3. CASE StopI2s
  BY <1>0, <1>3, CallStream DEF QueryInv, ThreadInv, StopI2s, Stopping, Me, Dir, Goto, objects, CallsOK
<1>4. CASE StopChannel
  <2>1. /\ Me' = Me /\ hw' = hw /\ lock' = lock /\ chan' = [chan EXCEPT ![Me] = NoStream]
        /\ call' = [call EXCEPT !.pc = "stopClear"]
        /\ query' = [query EXCEPT ![Me].paused = query[Me].pc # "idle" /\ (@ \/ call.to = "PAUSE")]
    BY <1>0, <1>4, CallStream DEF StopChannel, Me, Dir, Goto, objects, CallsOK
  <2>2. query[Me].pc # "idle" => call.to = "PAUSE"
    BY <1>0, <1>4, CallStream DEF StopChannel, CallInv, QueryInv, KsStates
  <2>3. ThreadInv'
    BY <1>0, <1>4, <2>1, CallStream DEF ThreadInv, Stopping, StopChannel, DeviceOK, CallsOK
  <2>4. /\ \A d \in Dirs \ {Me} : query'[d] = query[d] /\ chan'[d] = chan[d]
        /\ query'[Me].pc = query[Me].pc /\ query'[Me].got = query[Me].got
        /\ query'[Me].paused <=> query[Me].pc # "idle"
    <3> DEFINE paused == query[Me].pc # "idle" /\ (query[Me].paused \/ call.to = "PAUSE")
    <3>1. query' = [query EXCEPT ![Me].paused = paused]
      BY <2>1
    <3>2. paused <=> query[Me].pc # "idle"
      BY <2>2
    <3>3. chan' = [chan EXCEPT ![Me] = NoStream] /\ Me \in Dirs
      BY <1>0, <1>4, <2>1, CallStream DEF StopChannel
    <3> HIDE DEF paused
    <3> QED BY <1>0, <3>1, <3>2, <3>3 DEF CallsOK, DeviceOK
  <2>5. \A d \in Dirs : ~Stopping(d)
    BY <1>4 DEF Stopping, StopChannel
  <2>6. \A d \in Dirs : Stopping(d)' => d = Me
    BY <2>1 DEF Stopping
  <2>7. query[Me].got = "stale" => query[Me].pc # "idle"
    BY <1>0, <1>4, CallStream DEF QueryInv, StopChannel
  <2>8. QueryInv'
    BY <1>0, <2>1, <2>4, <2>6, <2>7, CallStream DEF QueryInv
  <2> QED BY <2>3, <2>8
<1>5. CASE StopClear
  BY <1>0, <1>5, CallStream DEF QueryInv, ThreadInv, StopClear, Stopping, Me, Dir, Goto, objects, CallsOK,
                                DeviceOK
<1>6. CASE Play
  BY <1>0, <1>6, CallStream DEF QueryInv, ThreadInv, Play, Stopping, Me, Dir, Goto, objects, CallsOK,
                                DeviceOK
<1>7. CASE \E o \in {"ok", "noChannel", "notSubmitted"} : Program(o)
  <2>1. PICK o \in {"ok", "noChannel", "notSubmitted"} : Program(o)
    BY <1>7
  <2>2. UNCHANGED <<query, lock>> /\ \A d \in Dirs : ~Stopping(d) /\ ~Stopping(d)'
    BY <1>0, <2>1, CallStream DEF Program, Stopping, Goto, CallsOK
  <2>3. CASE hw[Me].dmaThread
    BY <1>0, <2>1, <2>2, <2>3 DEF QueryInv, ThreadInv, Program
  <2>4. CASE ~hw[Me].dmaThread
    <3>1. \A d \in Dirs \ {Me} : hw'[d] = hw[d] /\ chan'[d] = chan[d]
      BY <1>0, <2>1, <2>4, CallStream DEF Program, DeviceOK
    <3>2. hw'[Me].dmaThread => hw'[Me].unsent \/ chan'[Me] # NoStream
      BY <1>0, <2>1, <2>4, CallStream, StreamAssumption DEF Program, DeviceOK
    <3> QED BY <1>0, <2>2, <2>4, <3>1, <3>2, CallStream DEF QueryInv, ThreadInv
  <2> QED BY <2>3, <2>4
<1>8. CASE SetStateDone
  BY <1>0, <1>8, CallStream DEF QueryInv, ThreadInv, SetStateDone, NoCall, Stopping, device, CallsOK
<1> QED BY <1>1, <1>2, <1>3, <1>4, <1>5, <1>6, <1>7, <1>8 DEF StateStep

\* GetPosition holds the lock from its look at dmaThread to its answer.
LEMMA PositionStepInv ==
  ASSUME StreamInv,
         \/ \E s \in Streams : GetPosition(s)
         \/ \E d \in Dirs : GetPositionLook(d) \/ GetPositionRead(d) \/ GetPositionDone(d)
  PROVE  ObjectInv' /\ CallInv' /\ QueryInv' /\ ThreadInv'
<1>0. StreamTypeOK /\ ObjectInv /\ CallInv /\ QueryInv /\ ThreadInv /\ CallsOK /\ ObjectsOK /\ DeviceOK
  BY DEF StreamInv, StreamTypeOK
<1>1. UNCHANGED <<stream, hw, chan, i2s, call>>
  BY DEF GetPosition, GetPositionLook, GetPositionRead, GetPositionDone, objects, device
<1>2. ObjectInv' /\ ThreadInv'
  BY <1>0, <1>1 DEF ObjectInv, ThreadInv, Stopping, Me, Dir
<1>3. CASE \E s \in Streams : GetPosition(s)
  <2>1. PICK s \in Streams : GetPosition(s)
    BY <1>3
  <2> DEFINE d == Dir(s)
             p == call.pc # "idle" /\ call.to = "PAUSE" /\ Me = d
  <2>2. d \in Dirs /\ lock[d] = "free"
    BY <1>0, <2>1 DEF GetPosition, ObjectsOK, StreamRecords, Dir
  <2>3. CallInv'
    BY <1>0, <1>1, <2>1, <2>2, CallStream DEF CallInv, GetPosition, Open, Me, Dir, CallsOK
  <2>4. Stopping(d) => p
    BY <1>0, <2>2, CallStream DEF CallInv, Stopping, KsStates
  <2>5. /\ query' = [query EXCEPT ![d] = [pc |-> "look", got |-> "none", paused |-> p]]
        /\ lock' = [lock EXCEPT ![d] = "GetPosition"]
    BY <2>1 DEF GetPosition
  <2>6. \A e \in Dirs : Stopping(e)' <=> Stopping(e)
    BY <1>1 DEF Stopping, Me, Dir
  <2> HIDE DEF d, p
  <2>7. QueryInv'
    BY <1>0, <1>1, <2>2, <2>4, <2>5, <2>6 DEF QueryInv, CallsOK
  <2> QED BY <1>2, <2>3, <2>7
<1>4. CASE \E d \in Dirs : GetPositionLook(d) \/ GetPositionRead(d) \/ GetPositionDone(d)
  <2>1. PICK d \in Dirs : GetPositionLook(d) \/ GetPositionRead(d) \/ GetPositionDone(d)
    BY <1>4
  <2>2. \A e \in Dirs : Stopping(e)' <=> Stopping(e)
    BY <1>1 DEF Stopping, Me, Dir
  <2>3. query[d].pc # "idle" /\ lock[d] = "GetPosition"
    BY <1>0, <2>1 DEF GetPositionLook, GetPositionRead, GetPositionDone, QueryInv
  <2>4. CallInv'
    BY <1>0, <1>1, <2>1, <2>3, CallStream
       DEF CallInv, GetPositionLook, GetPositionRead, GetPositionDone, Open, Me, Dir, CallsOK
  <2>5. QueryInv'
    <3>1. CASE GetPositionLook(d)
      BY <1>0, <1>1, <2>2, <3>1 DEF QueryInv, ThreadInv, GetPositionLook, CallsOK
    <3>2. CASE GetPositionRead(d)
      BY <1>0, <1>1, <2>2, <3>2 DEF QueryInv, GetPositionRead, CallsOK
    <3>3. CASE GetPositionDone(d)
      BY <1>0, <1>1, <2>2, <3>3 DEF QueryInv, GetPositionDone, CallsOK, NoQuery
    <3> QED BY <2>1, <3>1, <3>2, <3>3
  <2> QED BY <1>2, <2>4, <2>5
<1> QED BY <1>3, <1>4

LEMMA StepInv == ASSUME StreamInv, [StreamNext]_streamVars PROVE StreamInv'
<1>1. CASE ObjectStep
  BY <1>1, ObjectStepInv
<1>2. CASE CallStep
  <2>1. StreamTypeOK'
    BY <1>2, CallStepTypes DEF StreamInv
  <2>2. ObjectInv' /\ CallInv' /\ QueryInv' /\ ThreadInv'
    BY <1>2, StateStepObjects, StateStepCall, StateStepQuery, PositionStepInv DEF CallStep, StateStep
  <2> QED BY <2>1, <2>2 DEF StreamInv
<1>3. CASE UNCHANGED streamVars
  BY <1>3, ObjectsKept, DeviceKept, CallsKept
     DEF StreamInv, StreamTypeOK, ObjectInv, CallInv, QueryInv, ThreadInv, Stopping, Me, Dir, Open, streamVars, objects,
         device
<1> QED BY <1>1, <1>2, <1>3, NextSteps

-----------------------------------------------------------------------------
(* The streams, their hardware and the calls in progress stay well-typed.  *)
THEOREM StreamTypesCorrect == StreamSpec => []StreamTypeOK
<1>1. StreamInv => StreamTypeOK
  BY DEF StreamInv
<1> QED BY <1>1, StreamInitInv, StepInv, PTL DEF StreamSpec

\* However many streams a pin allows, and whatever happens to the DMA channel: a position
\* comes from registers of a channel that the stream still has, but for a pause.
THEOREM PositionsFromOwnChannel == StreamSpec => []PositionOfOwnChannel
<1>1. StreamInv => PositionOfOwnChannel
  BY DEF StreamInv, QueryInv, PositionOfOwnChannel
<1> QED BY <1>1, StreamInitInv, StepInv, PTL DEF StreamSpec

-----------------------------------------------------------------------------
(* The accounts of the miniports.                                          *)

Present(d) == {s \in Streams : Dir(s) = d /\ stream[s].stage # "none"}

CountInv ==
  \A d \in Dirs : /\ allocated[d] = Cardinality(Registered(d)) /\ allocated[d] <= MaxSystemStreams
                  /\ refs[d] = Cardinality(Present(d))

\* The table holds the streams that render, each once.
TableInv ==
  /\ \A i \in 1 .. MaxSystemStreams : streamTable[i] # NoStream => streamTable[i] \in Registered("render")
  /\ \A i, j \in 1 .. MaxSystemStreams : streamTable[i] # NoStream /\ streamTable[i] = streamTable[j] => i = j
  /\ \A s \in Registered("render") : \E i \in 1 .. MaxSystemStreams : streamTable[i] = s

AccountInv == CountInv /\ TableInv

LEMMA Finite == \A d \in Dirs : IsFiniteSet(Registered(d)) /\ IsFiniteSet(Present(d))
  BY StreamAssumption, FS_Subset DEF Registered, Present

\* While the count is below the limit the table has a free place.
LEMMA FreePlace ==
  ASSUME ObjectsOK, AccountInv, allocated["render"] < MaxSystemStreams
  PROVE  \E i \in 1 .. MaxSystemStreams : streamTable[i] = NoStream
<1> DEFINE Place == 1 .. MaxSystemStreams
           R == Registered("render")
<1>1. SUFFICES ASSUME \A i \in Place : streamTable[i] # NoStream PROVE FALSE
  OBVIOUS
<1>2. streamTable \in Injection(Place, R)
  BY <1>1 DEF Injection, IsInjective, AccountInv, TableInv, ObjectsOK
<1>3. MaxSystemStreams \in Nat /\ IsFiniteSet(Place) /\ Cardinality(Place) = MaxSystemStreams
  BY StreamAssumption, FS_Interval
<1>4. IsFiniteSet(R) /\ Cardinality(R) \in Nat /\ Cardinality(R) = allocated["render"]
  BY Finite, FS_CardinalityType DEF AccountInv, CountInv, Dirs
<1>5. Cardinality(Place) <= Cardinality(R)
  BY <1>2, <1>4, FS_Injection
<1> QED BY <1>3, <1>4, <1>5

\* A stream that is none yet is in no account.
LEMMA NewInNone ==
  ASSUME ObjectInv, NEW s \in Streams, stream[s].stage = "none", NEW d
  PROVE  s \notin Registered(d) /\ s \notin Present(d)
  BY DEF ObjectInv, Registered, Present, NoObject

\* A registered stream that renders is put into a free place of the table.
LEMMA TablePut ==
  ASSUME ObjectsOK, TableInv, NEW s \in Streams, s \notin Registered("render"),
         NEW i \in 1 .. MaxSystemStreams, streamTable[i] = NoStream,
         streamTable' = [streamTable EXCEPT ![i] = s], Registered("render")' = Registered("render") \cup {s}
  PROVE  TableInv'
<1>1. s # NoStream
  BY StreamAssumption
<1>2. streamTable'[i] = s /\ \A j \in 1 .. MaxSystemStreams \ {i} : streamTable'[j] = streamTable[j]
  BY DEF ObjectsOK
<1>3. \A j \in 1 .. MaxSystemStreams : streamTable[j] # s
  BY <1>1 DEF TableInv
<1> DEFINE R == Registered("render")
           R2 == Registered("render")'
<1>4. R2 = R \cup {s}
  OBVIOUS
<1>5. \A t \in R : \E j \in 1 .. MaxSystemStreams : streamTable'[j] = t
  <2>1. SUFFICES ASSUME NEW t \in R PROVE \E j \in 1 .. MaxSystemStreams : streamTable'[j] = t
    OBVIOUS
  <2>2. PICK j \in 1 .. MaxSystemStreams : streamTable[j] = t
    BY DEF TableInv
  <2>3. t # NoStream
    BY StreamAssumption DEF Registered
  <2> QED BY <1>2, <2>2, <2>3
<1>6. \A j \in 1 .. MaxSystemStreams : streamTable'[j] # NoStream => streamTable'[j] \in R2
  BY <1>2, <1>4 DEF TableInv
<1>7. \A j, k \in 1 .. MaxSystemStreams : streamTable'[j] # NoStream /\ streamTable'[j] = streamTable'[k] => j = k
  BY <1>2, <1>3 DEF TableInv
<1>8. \A t \in R2 : \E j \in 1 .. MaxSystemStreams : streamTable'[j] = t
  BY <1>2, <1>4, <1>5
<1> QED BY <1>6, <1>7, <1>8 DEF TableInv

LEMMA NewStreamAccounts ==
  ASSUME StreamInv, AccountInv, NEW s \in Streams, NEW d \in Dirs, NEW p, NEW ok \in BOOLEAN,
         NewStream(s, d, p, ok)
  PROVE  AccountInv'
<1>0. ObjectsOK /\ ObjectInv /\ CountInv /\ TableInv
  BY DEF StreamInv, StreamTypeOK, AccountInv
<1> DEFINE new == [NoObject EXCEPT !.stage = "new", !.dir = d, !.unregister = ok]
<1>1. /\ stream'[s] = new
      /\ \A t \in Streams \ {s} : stream'[t] = stream[t]
  <2>1. stream' = [stream EXCEPT ![s] = new]
    BY DEF NewStream
  <2> HIDE DEF new
  <2> QED BY <1>0, <2>1 DEF ObjectsOK
<1>2. new.stage = "new" /\ new.dir = d /\ new.unregister = ok
  BY DEF NoObject
<1>3. \A e : s \notin Registered(e) /\ s \notin Present(e)
  BY <1>0, NewInNone DEF NewStream
<1> HIDE DEF new
<1>4. \A e \in Dirs : Present(e)' = IF e = d THEN Present(e) \cup {s} ELSE Present(e)
  BY <1>1, <1>2, <1>3 DEF Present, Dir
<1>5. \A e \in Dirs : Registered(e)' = IF ok /\ e = d THEN Registered(e) \cup {s} ELSE Registered(e)
  BY <1>1, <1>2, <1>3 DEF Registered, Dir
<1>6. \A e \in Dirs : /\ refs'[e] = IF e = d THEN refs[e] + 1 ELSE refs[e]
                      /\ allocated'[e] = IF ok /\ e = d THEN allocated[e] + 1 ELSE allocated[e]
  BY <1>0 DEF NewStream, StreamCreated, ObjectsOK
<1>7. CountInv'
  <2>1. SUFFICES ASSUME NEW e \in Dirs
                 PROVE  /\ allocated'[e] = Cardinality(Registered(e)') /\ allocated'[e] <= MaxSystemStreams
                        /\ refs'[e] = Cardinality(Present(e)')
    BY DEF CountInv
  <2>2. refs'[e] = Cardinality(Present(e)')
    <3>1. /\ IsFiniteSet(Present(e)) /\ s \notin Present(e)
          /\ refs[e] = Cardinality(Present(e))
      BY <1>0, <1>3, Finite DEF CountInv
    <3>2. Cardinality(Present(e) \cup {s}) = refs[e] + 1
      BY <3>1, FS_AddElement
    <3>3. CASE e = d
      BY <1>4, <1>6, <3>2, <3>3
    <3>4. CASE e # d
      BY <1>4, <1>6, <3>1, <3>4
    <3> QED BY <3>3, <3>4
  <2>3. allocated'[e] = Cardinality(Registered(e)')
    <3>1. /\ IsFiniteSet(Registered(e)) /\ s \notin Registered(e)
          /\ allocated[e] = Cardinality(Registered(e))
      BY <1>0, <1>3, Finite DEF CountInv
    <3>2. Cardinality(Registered(e) \cup {s}) = allocated[e] + 1
      BY <3>1, FS_AddElement
    <3>3. CASE ok /\ e = d
      BY <1>5, <1>6, <3>2, <3>3
    <3>4. CASE ~(ok /\ e = d)
      BY <1>5, <1>6, <3>1, <3>4
    <3> QED BY <3>3, <3>4
  <2>4. allocated'[e] <= MaxSystemStreams
    BY <1>0, <1>6, StreamAssumption DEF CountInv, NewStream, ValidateStreamCreate, ObjectsOK
  <2> QED BY <2>2, <2>3, <2>4
<1>8. TableInv'
  <2>1. CASE ok /\ d = "render"
    <3> DEFINE i == CHOOSE i \in DOMAIN streamTable : streamTable[i] = NoStream
    <3>1. i \in 1 .. MaxSystemStreams /\ streamTable[i] = NoStream
      <4>1. \E j \in 1 .. MaxSystemStreams : streamTable[j] = NoStream
        BY <1>0, <2>1, FreePlace DEF AccountInv, NewStream, ValidateStreamCreate
      <4>2. DOMAIN streamTable = 1 .. MaxSystemStreams
        BY <1>0 DEF ObjectsOK
      <4> QED BY <4>1, <4>2
    <3>2. streamTable' = [streamTable EXCEPT ![i] = s]
      BY <2>1 DEF NewStream, StreamCreated
    <3>3. Registered("render")' = Registered("render") \cup {s}
      BY <1>5, <2>1 DEF Dirs
    <3> HIDE DEF i
    <3> QED BY <1>0, <1>3, <3>1, <3>2, <3>3, TablePut
  <2>2. CASE ~(ok /\ d = "render")
    <3>1. streamTable' = streamTable /\ Registered("render")' = Registered("render")
      BY <1>5, <2>2 DEF NewStream, StreamCreated, Dirs
    <3> QED BY <1>0, <3>1 DEF TableInv
  <2> QED BY <2>1, <2>2
<1> QED BY <1>7, <1>8 DEF AccountInv

LEMMA DestroyAccounts ==
  ASSUME StreamInv, AccountInv, NEW s \in Streams, NEW o, stream[s].stage # "none", DestroyStream(s, o)
  PROVE  AccountInv'
<1>0. ObjectsOK /\ ObjectInv /\ CountInv /\ TableInv /\ Dir(s) \in Dirs
  BY DEF StreamInv, StreamTypeOK, AccountInv, ObjectsOK, StreamRecords, Dir
<1>1. stream'[s] = NoObject /\ \A t \in Streams \ {s} : stream'[t] = stream[t]
  BY <1>0 DEF DestroyStream, ObjectsOK
<1>2. \A e \in Dirs : /\ Present(e)' = Present(e) \ {s}
                      /\ Registered(e)' = Registered(e) \ {s}
                      /\ s \in Present(e) <=> e = Dir(s)
                      /\ s \in Registered(e) <=> stream[s].unregister /\ e = Dir(s)
  BY <1>1 DEF Present, Registered, Dir, NoObject
<1>3. \A e \in Dirs :
        /\ refs'[e] = IF e = Dir(s) THEN refs[e] - 1 ELSE refs[e]
        /\ allocated'[e] = IF stream[s].unregister /\ e = Dir(s) THEN allocated[e] - 1 ELSE allocated[e]
  BY <1>0 DEF DestroyStream, StreamClosed, ObjectsOK
<1>4. CountInv'
  <2>1. SUFFICES ASSUME NEW e \in Dirs
                 PROVE  /\ allocated'[e] = Cardinality(Registered(e)') /\ allocated'[e] <= MaxSystemStreams
                        /\ refs'[e] = Cardinality(Present(e)')
    BY DEF CountInv
  <2>2. refs'[e] = Cardinality(Present(e)')
    BY <1>0, <1>2, <1>3, Finite, FS_RemoveElement DEF CountInv
  <2>3. allocated'[e] = Cardinality(Registered(e)')
    BY <1>0, <1>2, <1>3, Finite, FS_RemoveElement DEF CountInv
  <2>4. allocated'[e] <= MaxSystemStreams
    BY <1>0, <1>3, StreamAssumption DEF CountInv, ObjectsOK
  <2> QED BY <2>2, <2>3, <2>4
<1>5. TableInv'
  <2>1. s # NoStream /\ Registered("render")' = Registered("render") \ {s}
    BY <1>2, StreamAssumption DEF Dirs
  <2>2. CASE stream[s].unregister
    <3>1. streamTable' = [i \in 1 .. MaxSystemStreams |-> IF streamTable[i] = s THEN NoStream ELSE streamTable[i]]
      BY <1>0, <2>2 DEF DestroyStream, StreamClosed, ObjectsOK
    <3>2. \A i \in 1 .. MaxSystemStreams : streamTable'[i] = IF streamTable[i] = s THEN NoStream ELSE streamTable[i]
      BY <3>1
    <3>3. \A t \in Registered("render") \ {s} : \E i \in 1 .. MaxSystemStreams : streamTable'[i] = t
      BY <1>0, <3>2 DEF TableInv
    <3>4. \A i, j \in 1 .. MaxSystemStreams : streamTable'[i] # NoStream /\ streamTable'[i] = streamTable'[j] => i = j
      BY <1>0, <3>2 DEF TableInv
    <3>5. \A i \in 1 .. MaxSystemStreams : streamTable'[i] # NoStream => streamTable'[i] \in Registered("render") \ {s}
      BY <1>0, <3>2 DEF TableInv
    <3> QED BY <2>1, <3>3, <3>4, <3>5 DEF TableInv
  <2>3. CASE ~stream[s].unregister
    <3>1. streamTable' = streamTable /\ s \notin Registered("render")
      BY <2>3 DEF DestroyStream, Registered
    <3> QED BY <1>0, <2>1, <3>1 DEF TableInv
  <2> QED BY <2>2, <2>3
<1> QED BY <1>4, <1>5 DEF AccountInv

\* Whoever has a stream, the accounts do not change while it has it.
LEMMA AccountsKept ==
  ASSUME AccountInv, UNCHANGED <<allocated, streamTable, refs>>,
         \A d \in Dirs : Registered(d)' = Registered(d) /\ Present(d)' = Present(d)
  PROVE  AccountInv'
  BY DEF AccountInv, CountInv, TableInv, Dirs

LEMMA AccountStep == ASSUME StreamInv, AccountInv, [StreamNext]_streamVars PROVE AccountInv'
<1>0. StreamTypeOK /\ ObjectsOK /\ CallInv
  BY DEF StreamInv, StreamTypeOK
<1>1. ASSUME NEW s \in Streams, NEW o \in DrmOutcomes, NewStreamDone(s, o) PROVE AccountInv'
  <2>1. CASE stream[s].unregister
    <3>1. \A t \in Streams : stream'[t].dir = stream[t].dir /\ stream'[t].unregister = stream[t].unregister
                              /\ (stream'[t].stage = "none" <=> stream[t].stage = "none")
      <4>1. stream' = [stream EXCEPT ![s].stage = "open"] /\ stream[s].stage = "new"
        BY <1>1, <2>1 DEF NewStreamDone
      <4> QED BY <1>0, <4>1 DEF ObjectsOK, StreamRecords
    <3>2. \A d \in Dirs : Registered(d)' = Registered(d) /\ Present(d)' = Present(d)
      BY <3>1 DEF Registered, Present, Dir
    <3> QED BY <1>1, <2>1, <3>2, AccountsKept DEF NewStreamDone
  <2>2. CASE ~stream[s].unregister
    BY <1>1, <2>2, DestroyAccounts DEF NewStreamDone
  <2> QED BY <2>1, <2>2
<1>2. ASSUME NEW s \in Streams, NEW o \in DrmOutcomes, CloseStream(s, o) PROVE AccountInv'
  BY <1>2, DestroyAccounts DEF CloseStream, Open
<1>3. ASSUME UNCHANGED <<allocated, streamTable, refs>>,
             \/ \E s \in Streams, id \in ContentIds, o \in DrmOutcomes : SetContentId(s, id, o)
             \/ \E s \in Streams : AllocateAudioBuffer(s) \/ FreeAudioBuffer(s)
             \/ SetStateDone
      PROVE  AccountInv'
  <2>1. \A t \in Streams : stream'[t].dir = stream[t].dir /\ stream'[t].unregister = stream[t].unregister
                            /\ stream'[t].stage = stream[t].stage
    <3>1. CASE \E s \in Streams, id \in ContentIds, o \in DrmOutcomes : SetContentId(s, id, o)
      <4>1. PICK s \in Streams, id \in ContentIds : stream' = [stream EXCEPT ![s].content = id]
        BY <3>1 DEF SetContentId
      <4> QED BY <1>0, <4>1 DEF ObjectsOK, StreamRecords
    <3>2. CASE \E s \in Streams : AllocateAudioBuffer(s) \/ FreeAudioBuffer(s)
      <4>1. PICK s \in Streams, b \in BOOLEAN : stream' = [stream EXCEPT ![s].buffer = b]
        BY <3>2 DEF AllocateAudioBuffer, FreeAudioBuffer
      <4> QED BY <1>0, <4>1 DEF ObjectsOK, StreamRecords
    <3>3. CASE SetStateDone
      <4>1. PICK s \in Streams, ks \in KsStates :
              stream' = stream \/ stream' = [stream EXCEPT ![s].ks = ks]
        BY <1>0, <3>3, CallStream DEF SetStateDone
      <4>2. CASE stream' = stream
        BY <4>2
      <4>3. CASE stream' = [stream EXCEPT ![s].ks = ks]
        BY <1>0, <4>3 DEF ObjectsOK, StreamRecords
      <4> QED BY <4>1, <4>2, <4>3
    <3> QED BY <1>3, <3>1, <3>2, <3>3
  <2>2. \A d \in Dirs : Registered(d)' = Registered(d) /\ Present(d)' = Present(d)
    BY <2>1 DEF Registered, Present, Dir
  <2> QED BY <1>3, <2>2, AccountsKept
<1>4. CASE UNCHANGED objects
  <2>1. \A d \in Dirs : Registered(d)' = Registered(d) /\ Present(d)' = Present(d)
    BY <1>4 DEF objects, Registered, Present, Dir
  <2> QED BY <1>4, <2>1, AccountsKept DEF objects
<1>5. CASE ObjectStep
  BY <1>1, <1>2, <1>3, <1>5, NewStreamAccounts
     DEF ObjectStep, SetContentId, AllocateAudioBuffer, FreeAudioBuffer
<1>6. CASE CallStep
  BY <1>3, <1>4, <1>6 DEF CallStep, GetPosition, SetState, StopLock, StopI2s, StopChannel, StopClear, Play,
       SetStateDone, Program, GetPositionLook, GetPositionRead, GetPositionDone
<1> QED BY <1>4, <1>5, <1>6, NextSteps DEF streamVars

LEMMA AccountInit == ASSUME StreamInit PROVE AccountInv
<1>1. \A d \in Dirs : Registered(d) = {} /\ Present(d) = {}
  BY DEF StreamInit, Registered, Present, NoObject
<1>2. Cardinality({}) = 0 /\ 0 <= MaxSystemStreams
  BY StreamAssumption, FS_EmptySet
<1>3. CountInv
  BY <1>1, <1>2 DEF StreamInit, CountInv
<1>4. TableInv
  BY <1>1 DEF StreamInit, TableInv, Dirs
<1> QED BY <1>3, <1>4 DEF AccountInv

LEMMA AccountsHold == ASSUME ObjectsOK, AccountInv PROVE StreamsAccounted
<1> DEFINE Places(s) == {i \in 1 .. MaxSystemStreams : streamTable[i] = s}
<1>1. ASSUME NEW s \in Streams, s \in Registered("render") PROVE Cardinality(Places(s)) = 1
  <2>1. PICK i \in 1 .. MaxSystemStreams : streamTable[i] = s
    BY <1>1 DEF AccountInv, TableInv
  <2>2. Places(s) = {i}
    BY <2>1, StreamAssumption DEF AccountInv, TableInv
  <2> QED BY <2>2, FS_Singleton
<1>2. ASSUME NEW s \in Streams, s \notin Registered("render") PROVE Cardinality(Places(s)) = 0
  <2>1. Places(s) = {}
    BY <1>2, StreamAssumption DEF AccountInv, TableInv
  <2> QED BY <2>1, FS_EmptySet
<1>3. DOMAIN streamTable = 1 .. MaxSystemStreams
  BY DEF ObjectsOK
<1> QED BY <1>1, <1>2, <1>3 DEF StreamsAccounted, AccountInv, CountInv, Present

\* For any number of streams and whatever a pin allows: every way through NewStream and
\* the destructor leaves the count, the table and the references of the miniport in step
\* with the streams there are; a stream that may be made finds a place in the table.
THEOREM StreamsAlwaysAccounted == StreamSpec => []StreamsAccounted
<1>1. StreamInv /\ AccountInv => StreamsAccounted
  BY AccountsHold DEF StreamInv, StreamTypeOK
<1> QED BY <1>1, StreamInitInv, StepInv, AccountInit, AccountStep, PTL DEF StreamSpec

-----------------------------------------------------------------------------
(* What the hardware plays, when a pin has one instance.                   *)

\* The state a stream is in, from the moment SetState has done its work.
KsNow(s) == IF call.pc = "done" /\ call.s = s THEN call.to ELSE stream[s].ks

\* The hardware is active for a stream in KSSTATE_RUN.
RunInv == \A s \in Streams : Open(s) => (hw[Dir(s)].isActive <=> KsNow(s) = "RUN")

\* It is active with a channel, for a stream, and with I2S enabled, while it is not being
\* stopped; and its channel is for an open stream that is active, or about to be.
PlayInv ==
  \A d \in Dirs :
    /\ hw[d].isActive => hw[d].dmaThread /\ \E s \in Streams : Open(s) /\ Dir(s) = d
    /\ d \in i2s.DMACR \cup i2s.XFER => hw[d].isActive
    /\ hw[d].isActive => d \in i2s.DMACR \cap i2s.XFER \/ (call.pc \in {"stopDma", "stopClear"} /\ Me = d)
    /\ \A t \in Streams : chan[d] = t =>
         /\ Open(t) /\ stream[t].buffer /\ Dir(t) = d
         /\ hw[d].isActive \/ (call.pc = "play" /\ call.s = t)
    /\ call.pc = "play" /\ Me = d => hw[d].dmaThread
    /\ call.pc \in {"stopDma", "stopClear"} /\ Me = d =>
         hw[d].isActive /\ d \notin i2s.DMACR \cup i2s.XFER
    /\ call.pc = "stopClear" /\ Me = d => chan[d] = NoStream

\* A pin with one instance has one stream.
OneInv == \A s, t \in Streams : stream[s].unregister /\ stream[t].unregister /\ Dir(s) = Dir(t) => s = t

LEMMA OneStream == ASSUME MaxSystemStreams = 1, ObjectsOK, AccountInv PROVE OneInv
<1>1. SUFFICES ASSUME NEW s \in Streams, NEW t \in Streams, stream[s].unregister, stream[t].unregister,
                      Dir(s) = Dir(t), s # t
               PROVE  FALSE
  BY DEF OneInv
<1> DEFINE d == Dir(s)
<1>2. d \in Dirs /\ {s, t} \subseteq Registered(d)
  BY <1>1 DEF ObjectsOK, StreamRecords, Dir, Registered
<1>3. Cardinality({s, t}) = 2
  <2>1. Cardinality({s}) = 1 /\ IsFiniteSet({s})
    BY FS_Singleton
  <2>2. Cardinality({s} \cup {t}) = 2
    BY <1>1, <2>1, FS_AddElement, t \notin {s}
  <2> QED BY <2>2, {s} \cup {t} = {s, t}
<1>4. Cardinality({s, t}) <= Cardinality(Registered(d))
  BY <1>2, Finite, FS_Subset
<1>5. Cardinality(Registered(d)) <= 1
  BY <1>2 DEF AccountInv, CountInv
<1> QED BY <1>2, <1>3, <1>4, <1>5, Finite, FS_CardinalityType

\* A stream comes when the hardware is idle, and goes when it is.
LEMMA ObjectStepPlay ==
  ASSUME StreamInv, OneInv, RunInv, PlayInv, ObjectStep
  PROVE  RunInv' /\ PlayInv'
<1>0. ObjectsOK /\ ObjectInv /\ CallInv /\ DeviceOK
  BY DEF StreamInv, StreamTypeOK
<1>1. PICK s \in Streams :
        \/ \E d \in Dirs, p \in Proposals, ok \in BOOLEAN : NewStream(s, d, p, ok)
        \/ \E o \in DrmOutcomes : NewStreamDone(s, o) \/ CloseStream(s, o)
        \/ \E id \in ContentIds, o \in DrmOutcomes : SetContentId(s, id, o)
        \/ AllocateAudioBuffer(s) \/ FreeAudioBuffer(s)
  BY DEF ObjectStep
<1>2. UNCHANGED <<hw, chan, i2s, call>>
  BY <1>1 DEF NewStream, NewStreamDone, CloseStream, SetContentId, AllocateAudioBuffer, FreeAudioBuffer,
              device
<1>3. call.pc = "idle" /\ call'.pc = "idle"
  BY <1>0, <1>1, <1>2 DEF CallInv, NewStream, NewStreamDone, CloseStream, SetContentId, AllocateAudioBuffer,
                    FreeAudioBuffer, StreamsQuiet, Idle
<1>4. \A t \in Streams \ {s} : stream'[t] = stream[t]
  BY <1>0, <1>1 DEF NewStream, NewStreamDone, CloseStream, DestroyStream, SetContentId, AllocateAudioBuffer,
                    FreeAudioBuffer, ObjectsOK
<1>5. \A d \in Dirs : /\ hw[d].isActive => \E t \in Streams : Open(t) /\ Dir(t) = d
                      /\ \A t \in Streams : chan[d] = t => /\ Open(t) /\ stream[t].buffer /\ Dir(t) = d
                                                           /\ hw[d].isActive
  BY <1>0, <1>3 DEF PlayInv, DeviceOK
<1>6. \A t \in Streams : Open(t) => (hw[Dir(t)].isActive <=> stream[t].ks = "RUN")
  BY <1>3 DEF RunInv, KsNow
<1>7. SUFFICES
        /\ \A t \in Streams : Open(t)' => (hw[Dir(t)'].isActive <=> stream'[t].ks = "RUN")
        /\ \A d \in Dirs : /\ hw[d].isActive => \E t \in Streams : Open(t)' /\ Dir(t)' = d
                           /\ \A t \in Streams : chan[d] = t => Open(t)' /\ stream'[t].buffer /\ Dir(t)' = d
  <2>1. RunInv'
    BY <1>2, <1>3, <1>7 DEF RunInv, KsNow
  <2>2. PlayInv'
    BY <1>2, <1>3, <1>5, <1>7 DEF PlayInv
  <2> QED BY <2>1, <2>2
<1>8. /\ \A t \in Streams \ {s} : /\ Open(t)' <=> Open(t)
                                  /\ Dir(t)' = Dir(t)
      /\ \A t \in Streams : Dir(t) \in Dirs
  BY <1>0, <1>4 DEF Open, Dir, ObjectsOK, StreamRecords
<1>9. \/ ~Open(s) /\ ~Open(s)'
      \/ ~Open(s) /\ Open(s)' /\ stream[s].unregister /\ Dir(s)' = Dir(s) /\ stream'[s].ks = "STOP"
      \/ Open(s) /\ ~Open(s)' /\ stream[s].ks = "STOP"
      \/ /\ Open(s) /\ Open(s)' /\ Dir(s)' = Dir(s) /\ stream'[s].ks = stream[s].ks
         /\ stream'[s].buffer = stream[s].buffer \/ stream[s].ks = "STOP"
  <2>1. CASE \E d \in Dirs, p \in Proposals, ok \in BOOLEAN : NewStream(s, d, p, ok)
    <3>1. stream[s].stage = "none" /\ stream'[s].stage = "new"
      <4>1. PICK d \in Dirs, ok \in BOOLEAN :
              stream' = [stream EXCEPT ![s] = [NoObject EXCEPT !.stage = "new", !.dir = d, !.unregister = ok]]
        BY <2>1 DEF NewStream
      <4> DEFINE new == [NoObject EXCEPT !.stage = "new", !.dir = d, !.unregister = ok]
      <4>2. new.stage = "new" /\ stream' = [stream EXCEPT ![s] = new]
        BY <4>1 DEF NoObject
      <4> HIDE DEF new
      <4> QED BY <1>0, <2>1, <4>2 DEF ObjectsOK, NewStream
    <3> QED BY <3>1 DEF Open
  <2>2. CASE \E o \in DrmOutcomes : NewStreamDone(s, o)
    <3>1. stream[s].stage = "new" /\ stream[s].ks = "STOP"
      BY <1>0, <2>2 DEF NewStreamDone, ObjectInv
    <3>2. CASE stream[s].unregister
      <4>1. stream' = [stream EXCEPT ![s].stage = "open"]
        BY <2>2, <3>2 DEF NewStreamDone
      <4>2. stream'[s].stage = "open" /\ stream'[s].dir = stream[s].dir /\ stream'[s].ks = stream[s].ks
        BY <1>0, <4>1 DEF ObjectsOK, StreamRecords
      <4> QED BY <3>1, <3>2, <4>2 DEF Open, Dir
    <3>3. CASE ~stream[s].unregister
      BY <1>0, <2>2, <3>1, <3>3 DEF NewStreamDone, DestroyStream, ObjectsOK, NoObject, Open
    <3> QED BY <3>2, <3>3
  <2>3. CASE \E o \in DrmOutcomes : CloseStream(s, o)
    BY <1>0, <2>3 DEF CloseStream, DestroyStream, ObjectsOK, NoObject, Open
  <2>4. CASE \E id \in ContentIds, o \in DrmOutcomes : SetContentId(s, id, o)
    <3>1. PICK id \in ContentIds : stream' = [stream EXCEPT ![s].content = id]
      BY <2>4 DEF SetContentId
    <3>2. /\ stream'[s].stage = stream[s].stage /\ stream'[s].dir = stream[s].dir
          /\ stream'[s].ks = stream[s].ks /\ stream'[s].buffer = stream[s].buffer
      BY <1>0, <3>1 DEF ObjectsOK, StreamRecords
    <3> QED BY <2>4, <3>2 DEF SetContentId, Open, Dir
  <2>5. CASE AllocateAudioBuffer(s) \/ FreeAudioBuffer(s)
    <3>1. PICK b \in BOOLEAN : stream' = [stream EXCEPT ![s].buffer = b]
      BY <2>5 DEF AllocateAudioBuffer, FreeAudioBuffer
    <3>2. /\ stream'[s].stage = stream[s].stage /\ stream'[s].dir = stream[s].dir
          /\ stream'[s].ks = stream[s].ks
      BY <1>0, <3>1 DEF ObjectsOK, StreamRecords
    <3> QED BY <2>5, <3>2 DEF AllocateAudioBuffer, FreeAudioBuffer, Open, Dir
  <2> QED BY <1>1, <2>1, <2>2, <2>3, <2>4, <2>5
<1>10. ~hw[Dir(s)].isActive \/ (Open(s) /\ Open(s)' /\ stream'[s].buffer = stream[s].buffer) \/ (~Open(s) /\ ~Open(s)')
  <2>1. CASE ~Open(s) /\ stream[s].unregister
    <3>1. \A t \in Streams : Open(t) => stream[t].unregister
      BY <1>0 DEF ObjectInv, Open
    <3> QED BY <1>5, <1>8, <2>1, <3>1 DEF OneInv
  <2> QED BY <1>6, <1>9, <2>1
<1>11. \A t \in Streams : Open(t)' => (hw[Dir(t)'].isActive <=> stream'[t].ks = "RUN")
  <2>1. SUFFICES ASSUME NEW t \in Streams, Open(t)'
                 PROVE  hw[Dir(t)'].isActive <=> stream'[t].ks = "RUN"
    OBVIOUS
  <2>2. CASE t = s
    BY <1>6, <1>9, <1>10, <2>1, <2>2
  <2>3. CASE t # s
    BY <1>4, <1>6, <1>8, <2>1, <2>3
  <2> QED BY <2>2, <2>3
<1>12. ASSUME NEW d \in Dirs
       PROVE  /\ hw[d].isActive => \E t \in Streams : Open(t)' /\ Dir(t)' = d
              /\ \A t \in Streams : chan[d] = t => Open(t)' /\ stream'[t].buffer /\ Dir(t)' = d
  <2>1. ASSUME hw[d].isActive PROVE \E t \in Streams : Open(t)' /\ Dir(t)' = d
    <3>1. PICK t \in Streams : Open(t) /\ Dir(t) = d
      BY <1>5, <2>1
    <3>2. CASE t = s
      BY <1>9, <1>10, <2>1, <3>1, <3>2
    <3>3. CASE t # s
      BY <1>8, <3>1, <3>3
    <3> QED BY <3>2, <3>3
  <2>2. ASSUME NEW t \in Streams, chan[d] = t
        PROVE  Open(t)' /\ stream'[t].buffer /\ Dir(t)' = d
    <3>1. Open(t) /\ stream[t].buffer /\ Dir(t) = d /\ hw[d].isActive
      BY <1>5, <2>2
    <3>2. CASE t = s
      BY <1>9, <1>10, <3>1, <3>2
    <3>3. CASE t # s
      BY <1>4, <1>8, <3>1, <3>3
    <3> QED BY <3>2, <3>3
  <2> QED BY <2>1, <2>2
<1> QED BY <1>11, <1>12, <1>7

\* A change of state keeps the other direction as it is.
LEMMA CallStepPlay ==
  ASSUME StreamInv, OneInv, RunInv, PlayInv, CallStep
  PROVE  RunInv' /\ PlayInv'
<1>0. ObjectsOK /\ ObjectInv /\ CallInv /\ DeviceOK /\ CallsOK /\ StreamTypeOK
  BY DEF StreamInv, StreamTypeOK
<1>1. \A t \in Streams : /\ Open(t)' <=> Open(t)
                         /\ Dir(t)' = Dir(t) /\ Dir(t) \in Dirs
                         /\ stream'[t].buffer = stream[t].buffer
  <2>1. CASE stream' = stream
    BY <1>0, <2>1 DEF Open, Dir, ObjectsOK, StreamRecords
  <2>2. CASE SetStateDone
    <3>1. PICK s \in Streams, ks \in KsStates : stream' = stream \/ stream' = [stream EXCEPT ![s].ks = ks]
      BY <1>0, <2>2, CallStream DEF SetStateDone
    <3>2. CASE stream' = [stream EXCEPT ![s].ks = ks]
      BY <1>0, <3>2 DEF Open, Dir, ObjectsOK, StreamRecords
    <3> QED BY <2>1, <3>1, <3>2
  <2> QED BY <2>1, <2>2 DEF CallStep, GetPosition, SetState, StopLock, StopI2s, StopChannel, StopClear, Play,
                            Program, GetPositionLook, GetPositionRead, GetPositionDone, objects
<1>2. \A t \in Streams : call.pc # "idle" /\ Open(t) /\ Dir(t) = Me => t = call.s
  BY <1>0, CallStream DEF OneInv, ObjectInv, CallInv, Me, Open
<1>3. ASSUME UNCHANGED device, \A t \in Streams : KsNow(t)' = KsNow(t),
             \/ UNCHANGED call
             \/ {call.pc, call'.pc} \cap {"stopDma", "stopClear", "play"} = {}
      PROVE  RunInv' /\ PlayInv'
  <2>1. RunInv'
    BY <1>1, <1>3 DEF RunInv, device
  <2>2. hw' = hw /\ chan' = chan /\ i2s' = i2s
    BY <1>3 DEF device
  <2>3. ASSUME NEW d \in Dirs, NEW t \in Streams, chan[d] = t
        PROVE  Open(t)' /\ stream'[t].buffer /\ Dir(t)' = d
    BY <1>1, <2>3 DEF PlayInv
  <2>4. ASSUME NEW d \in Dirs, hw[d].isActive
        PROVE  \E t \in Streams : Open(t)' /\ Dir(t)' = d
    BY <1>1, <2>4 DEF PlayInv
  <2>5. CASE UNCHANGED call
    <3>1. call.pc # "idle" => Me' = Me
      BY <1>0, <1>1, <2>5, CallStream DEF Me, Dir
    <3> QED BY <2>1, <2>2, <2>3, <2>4, <2>5, <3>1 DEF PlayInv
  <2>6. CASE {call.pc, call'.pc} \cap {"stopDma", "stopClear", "play"} = {}
    BY <2>1, <2>2, <2>3, <2>4, <2>6 DEF PlayInv
  <2> QED BY <1>3, <2>5, <2>6
<1>4. CASE \E s \in Streams, to \in KsStates : SetState(s, to)
  <2>1. call.pc = "idle" /\ call'.pc \in {"program", "stop", "lock"} /\ stream' = stream
    BY <1>4 DEF SetState, StreamsQuiet, KsStates, objects
  <2>2. \A t \in Streams : KsNow(t)' = KsNow(t)
    BY <2>1 DEF KsNow
  <2> QED BY <1>3, <1>4, <2>1, <2>2 DEF SetState
<1>5. CASE StopLock
  BY <1>0, <1>3, <1>5 DEF StopLock, KsNow, Goto, CallsOK, device, objects
<1>6. ASSUME NEW p, call.pc # "idle", Goto(p), stream' = stream
      PROVE  /\ Me \in Dirs /\ call.s \in Streams /\ Open(call.s) /\ Dir(call.s) = Me
             /\ Me' = Me /\ call'.pc = p /\ call'.s = call.s /\ call'.to = call.to
             /\ p # "done" /\ call.pc # "done" => \A t \in Streams : KsNow(t)' = KsNow(t)
             /\ p = "done" /\ call.pc # "done" =>
                  \A t \in Streams : KsNow(t)' = IF t = call.s THEN call.to ELSE KsNow(t)
  BY <1>0, <1>6, CallStream DEF Goto, Me, Dir, CallInv, KsNow, CallsOK
<1>7. CASE StopI2s
  <2>1. CASE hw[Me].isActive
    <3>1. Goto("stopDma") /\ stream' = stream /\ hw' = hw /\ chan' = chan /\ call.pc = "stop"
          /\ i2s' = [DMACR |-> i2s.DMACR \ {Me}, XFER |-> i2s.XFER \ {Me}]
      BY <1>7, <2>1 DEF StopI2s, objects
    <3>2. RunInv'
      BY <1>1, <1>6, <3>1 DEF RunInv
    <3>3. PlayInv'
      BY <1>1, <1>6, <2>1, <3>1 DEF PlayInv
    <3> QED BY <3>2, <3>3
  <2>2. CASE ~hw[Me].isActive
    <3>1. Goto("done") /\ stream' = stream /\ hw' = hw /\ chan' = chan /\ call.pc = "stop" /\ i2s' = i2s
      BY <1>7, <2>2 DEF StopI2s, objects
    <3>2. RunInv'
      BY <1>0, <1>1, <1>2, <1>6, <2>2, <3>1 DEF RunInv, CallInv
    <3>3. PlayInv'
      BY <1>1, <1>6, <2>2, <3>1 DEF PlayInv
    <3> QED BY <3>2, <3>3
  <2> QED BY <2>1, <2>2
<1>8. CASE StopChannel
  <2>1. Goto("stopClear") /\ stream' = stream /\ hw' = hw /\ i2s' = i2s /\ call.pc = "stopDma"
        /\ chan' = [chan EXCEPT ![Me] = NoStream]
    BY <1>8 DEF StopChannel, objects
  <2>2. \A d \in Dirs : chan'[d] = IF d = Me THEN NoStream ELSE chan[d]
    BY <1>0, <2>1 DEF DeviceOK
  <2>3. RunInv'
    BY <1>1, <1>6, <2>1 DEF RunInv
  <2>4. PlayInv'
    BY <1>1, <1>6, <2>1, <2>2, StreamAssumption DEF PlayInv
  <2> QED BY <2>3, <2>4
<1>9. CASE StopClear
  <2>1. Goto("done") /\ stream' = stream /\ chan' = chan /\ i2s' = i2s /\ call.pc = "stopClear"
        /\ hw' = [hw EXCEPT ![Me] = [dmaThread |-> FALSE, isActive |-> FALSE, unsent |-> FALSE]]
    BY <1>9 DEF StopClear, objects
  <2>2. /\ \A d \in Dirs \ {Me} : hw'[d] = hw[d]
        /\ ~hw'[Me].isActive
    BY <1>0, <1>6, <2>1 DEF DeviceOK
  <2>3. RunInv'
    BY <1>0, <1>1, <1>2, <1>6, <2>1, <2>2 DEF RunInv, CallInv
  <2>4. PlayInv'
    BY <1>1, <1>6, <2>1, <2>2, StreamAssumption DEF PlayInv
  <2> QED BY <2>3, <2>4
<1>10. CASE \E o \in {"ok", "noChannel", "notSubmitted"} : Program(o)
  <2>1. PICK o \in {"ok", "noChannel", "notSubmitted"} : Program(o)
    BY <1>10
  <2>2. stream' = stream /\ i2s' = i2s /\ call.pc = "program" /\ call.to = "RUN" /\ stream[call.s].buffer
    BY <1>0, <2>1 DEF Program, objects, CallInv
  <2>3. CASE hw[Me].dmaThread
    <3>1. Goto("play") /\ hw' = hw /\ chan' = chan
      BY <2>1, <2>3 DEF Program
    <3>2. RunInv'
      BY <1>1, <1>6, <2>2, <3>1 DEF RunInv
    <3>3. PlayInv'
      BY <1>1, <1>6, <2>2, <2>3, <3>1 DEF PlayInv
    <3> QED BY <3>2, <3>3
  <2>4. CASE ~hw[Me].dmaThread
    <3>1. /\ Goto(IF o = "ok" THEN "play" ELSE "failed")
          /\ chan' = IF o = "ok" THEN [chan EXCEPT ![Me] = call.s] ELSE chan
          /\ \A d \in Dirs : hw'[d].isActive = hw[d].isActive
          /\ \A d \in Dirs \ {Me} : hw'[d] = hw[d]
          /\ o = "ok" => hw'[Me].dmaThread
      <4> DEFINE got == o # "noChannel"
                 unsent == o = "notSubmitted"
      <4>1. hw' = [hw EXCEPT ![Me].dmaThread = got, ![Me].unsent = unsent] /\ (o = "ok" => got)
        BY <2>1, <2>4 DEF Program
      <4> HIDE DEF got, unsent
      <4>2. /\ \A d \in Dirs : hw'[d].isActive = hw[d].isActive
            /\ \A d \in Dirs \ {Me} : hw'[d] = hw[d]
            /\ Me \in Dirs => hw'[Me].dmaThread = got
        BY <1>0, <4>1 DEF DeviceOK
      <4>3. Me \in Dirs
        BY <1>0, <2>2, CallStream
      <4> QED BY <2>1, <2>4, <4>1, <4>2, <4>3 DEF Program
    <3>2. RunInv'
      BY <1>1, <1>6, <2>2, <3>1 DEF RunInv
    <3>3. ~hw[Me].isActive
      BY <1>0, <2>2, <2>4, CallStream DEF PlayInv
    <3>4. CASE o = "ok"
      <4>1. \A d \in Dirs : chan'[d] = IF d = Me THEN call.s ELSE chan[d]
        BY <1>0, <3>1, <3>4 DEF DeviceOK
      <4>2. Goto("play")
        BY <3>1, <3>4
      <4> QED BY <1>1, <1>6, <2>2, <3>1, <3>2, <3>3, <3>4, <4>1, <4>2 DEF PlayInv
    <3>5. CASE o # "ok"
      <4>1. Goto("failed") /\ chan' = chan
        BY <3>1, <3>5
      <4> QED BY <1>1, <1>6, <2>2, <3>1, <3>2, <3>3, <4>1 DEF PlayInv
    <3> QED BY <3>4, <3>5
  <2> QED BY <2>3, <2>4
<1>13. CASE Play
  <2>1. /\ stream' = stream /\ chan' = chan /\ call.pc = "play" /\ call.to = "RUN" /\ Goto("done")
        /\ hw' = [hw EXCEPT ![Me].isActive = TRUE]
    BY <1>0, <1>13 DEF Play, objects, CallInv
  <2>2. /\ \A d \in Dirs \ {Me} : hw'[d] = hw[d]
        /\ hw'[Me].isActive /\ hw'[Me].dmaThread = hw[Me].dmaThread
    BY <1>0, <1>6, <2>1 DEF DeviceOK
  <2>3. i2s'.DMACR = i2s.DMACR \cup {Me} /\ i2s'.XFER = i2s.XFER \cup {Me}
    BY <1>0, <1>6, <1>13, <2>1 DEF Play, PlayInv, DeviceOK
  <2>4. RunInv'
    BY <1>1, <1>2, <1>6, <2>1, <2>2 DEF RunInv
  <2>5. PlayInv'
    BY <1>1, <1>6, <2>1, <2>2, <2>3 DEF PlayInv
  <2> QED BY <2>4, <2>5
<1>11. CASE SetStateDone
  <2>1. \A t \in Streams : KsNow(t)' = KsNow(t)
    BY <1>0, <1>11, CallStream DEF SetStateDone, KsNow, NoCall, ObjectsOK, StreamRecords
  <2>2. call'.pc = "idle" /\ call.pc \in {"done", "failed"}
    BY <1>11 DEF SetStateDone, NoCall
  <2> QED BY <1>3, <1>11, <2>1, <2>2 DEF SetStateDone
<1>12. CASE UNCHANGED <<objects, device, call>>
  <2>1. \A t \in Streams : KsNow(t)' = KsNow(t)
    BY <1>12 DEF KsNow, objects
  <2> QED BY <1>3, <1>12, <2>1
<1> QED BY <1>4, <1>5, <1>7, <1>8, <1>9, <1>10, <1>11, <1>12, <1>13
        DEF CallStep, GetPosition, GetPositionLook, GetPositionRead, GetPositionDone

LEMMA PlayInit == ASSUME StreamInit PROVE RunInv /\ PlayInv
<1>1. RunInv
  BY DEF StreamInit, RunInv, Open, NoObject
<1>2. \A d \in Dirs : chan[d] = NoStream /\ ~hw[d].isActive
  BY DEF StreamInit
<1>3. call.pc = "idle" /\ i2s.DMACR = {} /\ i2s.XFER = {}
  BY DEF StreamInit, NoCall
<1> QED BY <1>1, <1>2, <1>3, StreamAssumption DEF PlayInv

LEMMA PlayStep ==
  ASSUME StreamInv, OneInv, RunInv, PlayInv, [StreamNext]_streamVars
  PROVE  RunInv' /\ PlayInv'
<1>1. CASE UNCHANGED streamVars
  BY <1>1 DEF RunInv, PlayInv, KsNow, Open, Dir, Me, streamVars, objects, device
<1> QED BY <1>1, NextSteps, ObjectStepPlay, CallStepPlay

LEMMA PlayHolds == ASSUME StreamInv, OneInv, RunInv, PlayInv PROVE TransfersOwnBuffer
<1>0. ObjectsOK /\ ObjectInv /\ DeviceOK
  BY DEF StreamInv, StreamTypeOK
<1>1. ASSUME NEW d \in Dirs, chan[d] # NoStream PROVE stream[chan[d]].buffer /\ Dir(chan[d]) = d
  BY <1>0, <1>1 DEF PlayInv, DeviceOK
<1>2. ASSUME call.pc = "idle", NEW s \in Streams, stream[s].ks = "RUN"
      PROVE  /\ hw[Dir(s)].unsent \/ chan[Dir(s)] = s
             /\ Dir(s) \in i2s.DMACR \cap i2s.XFER
  <2>1. Open(s) /\ Dir(s) \in Dirs /\ stream[s].unregister
    BY <1>0, <1>2 DEF ObjectInv, Open, ObjectsOK, StreamRecords, Dir
  <2>2. hw[Dir(s)].isActive /\ hw[Dir(s)].dmaThread /\ Dir(s) \in i2s.DMACR \cap i2s.XFER
    BY <1>2, <2>1 DEF RunInv, PlayInv, KsNow
  <2>3. chan[Dir(s)] # NoStream => chan[Dir(s)] = s
    <3>1. ASSUME NEW t \in Streams, chan[Dir(s)] = t PROVE t = s
      <4>1. Open(t) /\ Dir(t) = Dir(s)
        BY <2>1, <3>1 DEF PlayInv
      <4> QED BY <1>0, <2>1, <4>1 DEF OneInv, ObjectInv, Open
    <3> QED BY <1>0, <2>1, <3>1 DEF DeviceOK
  <2>4. hw[Dir(s)].unsent \/ chan[Dir(s)] # NoStream
    BY <1>2, <2>1, <2>2 DEF StreamInv, ThreadInv, Stopping
  <2> QED BY <2>2, <2>3, <2>4
<1>3. call.pc = "idle" => \A d \in Dirs : d \in i2s.DMACR \cup i2s.XFER => hw[d].isActive
  BY DEF PlayInv
<1> QED BY <1>1, <1>2, <1>3 DEF TransfersOwnBuffer

\* While a pin has one instance, as the endpoints have it: a channel never moves a buffer
\* that has been freed, and the stream in KSSTATE_RUN has its own moved, with I2S enabled,
\* through every order of opening, changing state, failing and closing on both miniports.
THEOREM TransfersAlwaysOwnBuffer == ASSUME MaxSystemStreams = 1 PROVE StreamSpec => []TransfersOwnBuffer
<1> DEFINE Inv == StreamInv /\ AccountInv /\ RunInv /\ PlayInv
<1>1. StreamInit => Inv
  BY StreamInitInv, AccountInit, PlayInit
<1>2. Inv => OneInv
  BY OneStream DEF StreamInv, StreamTypeOK
<1>3. Inv /\ [StreamNext]_streamVars => Inv'
  BY <1>2, StepInv, AccountStep, PlayStep
<1>4. Inv => TransfersOwnBuffer
  BY <1>2, PlayHolds
<1> QED BY <1>1, <1>3, <1>4, PTL DEF StreamSpec

-----------------------------------------------------------------------------
(* The mixed DRM content.                                                  *)

\* The contents of the streams that render, as SetContentId left them
RenderedContents == {stream[s].content : s \in Registered("render")}

\* There is at most one mixed content, and it is the recorded one.
MixKept == mix \in 0 .. 3 /\ DOMAIN drm = IF mix = 0 THEN {} ELSE {mix}

\* After an UpdateDrmRights that succeeded only streams without protected content have come.
MixCurrent ==
  mixed => /\ mix # 0 /\ drm[mix] # {}
           /\ drm[mix] \subseteq RenderedContents
           /\ RenderedContents \subseteq drm[mix] \cup {0}

MixInv == MixKept /\ MixCurrent

\* UpdateDrmRights, whichever of its calls fails
LEMMA MixUpdated ==
  ASSUME MixKept, NEW t, NEW str, NEW o, UpdateDrmRights(t, str, o)
  PROVE  /\ MixKept'
         /\ mixed' => mix' # 0 /\ drm'[mix'] # {} /\ drm'[mix'] = Contents(t, str)
<1> DEFINE all == Contents(t, str)
           new == CHOOSE n \in 1 .. 3 : n \notin DOMAIN drm
<1>1. new \in 1 .. 3 /\ new \notin DOMAIN drm
  <2>1. \E n \in 1 .. 3 : n \notin DOMAIN drm
    <3>1. CASE mix = 1
      BY <3>1 DEF MixKept
    <3>2. CASE mix # 1
      BY <3>2 DEF MixKept
    <3> QED BY <3>1, <3>2
  <2> QED BY <2>1
<1> HIDE DEF all, new
<1>2. CASE o = "ok" /\ all # {}
  <2>1. /\ drm' = [n \in (DOMAIN drm \cup {new}) \ {mix} |->
                     [m \in DOMAIN drm \cup {new} |-> IF m = new THEN all ELSE drm[m]][n]]
        /\ mix' = new /\ mixed'
    BY <1>2 DEF UpdateDrmRights, all, new
  <2>2. (DOMAIN drm \cup {new}) \ {mix} = {new}
    BY <1>1 DEF MixKept
  <2> QED BY <1>1, <1>2, <2>1, <2>2 DEF MixKept, all
<1>3. CASE ~(o = "ok" /\ all # {})
  <2>1. mix' = mix /\ ~mixed'
    BY <1>3 DEF UpdateDrmRights, all
  <2>2. DOMAIN drm' = DOMAIN drm
    <3>1. CASE o = "noRights" /\ all # {}
      <4>1. DOMAIN drm' = (DOMAIN drm \cup {new}) \ {new}
        BY <3>1 DEF UpdateDrmRights, all, new
      <4> QED BY <1>1, <4>1
    <3>2. CASE ~(o = "noRights" /\ all # {})
      BY <1>3, <3>2 DEF UpdateDrmRights, all
    <3> QED BY <3>1, <3>2
  <2> QED BY <2>1, <2>2 DEF MixKept
<1> QED BY <1>2, <1>3

\* A step of the rights with a table that the streams have.
LEMMA MixSet ==
  ASSUME MixKept, TableInv', ObjectsOK', NEW o, NEW str, UpdateDrmRights(streamTable', str, o),
         \A s \in Registered("render")' : str[s].content = stream'[s].content
  PROVE  MixInv'
<1>1. Contents(streamTable', str) = RenderedContents'
  <2>1. DOMAIN streamTable' = 1 .. MaxSystemStreams
    BY DEF ObjectsOK
  <2>2. \A s \in Registered("render")' : s # NoStream
    BY StreamAssumption DEF Registered
  <2>3. Contents(streamTable', str) \subseteq RenderedContents'
    BY <2>1 DEF Contents, RenderedContents, TableInv
  <2>4. ASSUME NEW s \in Registered("render")' PROVE stream'[s].content \in Contents(streamTable', str)
    <3>1. PICK i \in 1 .. MaxSystemStreams : streamTable'[i] = s
      BY DEF TableInv
    <3> QED BY <2>1, <2>2, <3>1 DEF Contents
  <2> QED BY <2>3, <2>4 DEF RenderedContents
<1>2. /\ MixKept'
      /\ mixed' => mix' # 0 /\ drm'[mix'] # {} /\ drm'[mix'] = Contents(streamTable', str)
  BY MixUpdated
<1> QED BY <1>1, <1>2 DEF MixInv, MixCurrent

\* A step that leaves the mixed content alone, and of the contents that are rendered
\* changes at most that none is added.
LEMMA MixLeft ==
  ASSUME MixInv, UNCHANGED rights,
         RenderedContents' = RenderedContents \/ RenderedContents' = RenderedContents \cup {0}
  PROVE  MixInv'
  BY DEF MixInv, MixKept, MixCurrent, rights

LEMMA MixStep == ASSUME StreamInv, AccountInv, MixInv, [StreamNext]_streamVars PROVE MixInv'
<1>0. StreamTypeOK /\ ObjectsOK /\ ObjectInv /\ CallInv /\ MixKept
  BY DEF StreamInv, StreamTypeOK, MixInv
<1>1. StreamInv' /\ AccountInv' /\ ObjectsOK' /\ TableInv'
  BY StepInv, AccountStep DEF StreamInv, StreamTypeOK, AccountInv
<1>2. ASSUME UNCHANGED rights,
             \A t \in Streams : stream'[t].dir = stream[t].dir /\ stream'[t].unregister = stream[t].unregister
                                /\ stream'[t].content = stream[t].content
      PROVE  MixInv'
  <2>1. Registered("render")' = Registered("render")
    BY <1>2 DEF Registered, Dir
  <2>2. \A t \in Registered("render") : stream'[t].content = stream[t].content
    BY <1>2 DEF Registered
  <2>3. RenderedContents' = RenderedContents
    BY <2>1, <2>2 DEF RenderedContents
  <2> QED BY <1>2, <2>3, MixLeft
<1>3. ASSUME NEW s \in Streams, NEW d \in Dirs, NEW p, NEW ok \in BOOLEAN, NewStream(s, d, p, ok) PROVE MixInv'
  <2> DEFINE new == [NoObject EXCEPT !.stage = "new", !.dir = d, !.unregister = ok]
  <2>1. stream'[s] = new /\ \A t \in Streams \ {s} : stream'[t] = stream[t]
    <3>1. stream' = [stream EXCEPT ![s] = new]
      BY <1>3 DEF NewStream
    <3> HIDE DEF new
    <3> QED BY <1>0, <3>1 DEF ObjectsOK
  <2>2. new.dir = d /\ new.unregister = ok /\ new.content = 0
    BY DEF NoObject
  <2> HIDE DEF new
  <2>3. s \notin Registered("render")
    BY <1>0, <1>3, NewInNone DEF NewStream
  <2>4. /\ \A t \in Registered("render") : stream'[t].content = stream[t].content
        /\ stream'[s].content = 0
    BY <2>1, <2>2, <2>3 DEF Registered
  <2>5. Registered("render")' = Registered("render") \/ Registered("render")' = Registered("render") \cup {s}
    BY <2>1, <2>2, <2>3 DEF Registered, Dir
  <2>6. RenderedContents' = RenderedContents \/ RenderedContents' = RenderedContents \cup {0}
    BY <2>4, <2>5 DEF RenderedContents
  <2> QED BY <1>3, <2>6, MixLeft DEF NewStream
<1>4. ASSUME NEW s \in Streams, NEW o, stream[s].stage # "none", DestroyStream(s, o) PROVE MixInv'
  <2>1. stream'[s] = NoObject /\ \A t \in Streams \ {s} : stream'[t] = stream[t]
    BY <1>0, <1>4 DEF DestroyStream, ObjectsOK
  <2>2. Registered("render")' = Registered("render") \ {s}
    BY <2>1 DEF Registered, Dir, NoObject
  <2>3. \A t \in Registered("render")' : stream[t].content = stream'[t].content
    BY <2>1, <2>2 DEF Registered
  <2>4. CASE s \in Registered("render")
    <3>1. UpdateDrmRights(streamTable', stream, o)
      BY <1>4, <2>4 DEF DestroyStream, StreamClosed, Registered
    <3> QED BY <1>0, <1>1, <2>3, <3>1, MixSet
  <2>5. CASE s \notin Registered("render")
    <3>1. UNCHANGED rights
      BY <1>4, <2>5 DEF DestroyStream, StreamClosed, Registered
    <3>2. RenderedContents' = RenderedContents
      BY <2>2, <2>3, <2>5 DEF RenderedContents
    <3> QED BY <3>1, <3>2, MixLeft
  <2> QED BY <2>4, <2>5
<1>5. ASSUME NEW s \in Streams, NEW o \in DrmOutcomes, NewStreamDone(s, o) PROVE MixInv'
  <2>1. CASE stream[s].unregister
    <3>1. stream' = [stream EXCEPT ![s].stage = "open"] /\ UNCHANGED rights
      BY <1>5, <2>1 DEF NewStreamDone
    <3>2. \A t \in Streams : stream'[t].dir = stream[t].dir /\ stream'[t].unregister = stream[t].unregister
                              /\ stream'[t].content = stream[t].content
      BY <1>0, <3>1 DEF ObjectsOK, StreamRecords
    <3> QED BY <1>2, <3>1, <3>2
  <2>2. CASE ~stream[s].unregister
    BY <1>4, <1>5, <2>2 DEF NewStreamDone
  <2> QED BY <2>1, <2>2
<1>6. ASSUME NEW s \in Streams, NEW o \in DrmOutcomes, CloseStream(s, o) PROVE MixInv'
  BY <1>4, <1>6 DEF CloseStream, Open
<1>7. ASSUME NEW s \in Streams, NEW id \in ContentIds, NEW o \in DrmOutcomes, SetContentId(s, id, o) PROVE MixInv'
  <2>1. stream' = [stream EXCEPT ![s].content = id] /\ Open(s) /\ streamTable' = streamTable
    BY <1>7 DEF SetContentId
  <2>2. /\ \A t \in Streams : stream'[t].dir = stream[t].dir /\ stream'[t].unregister = stream[t].unregister
        /\ \A t \in Streams \ {s} : stream'[t] = stream[t]
    BY <1>0, <2>1 DEF ObjectsOK, StreamRecords
  <2>3. Registered("render")' = Registered("render")
    BY <2>2 DEF Registered, Dir
  <2>4. CASE Dir(s) = "render"
    <3>1. UpdateDrmRights(streamTable', stream', o)
      BY <1>7, <2>1, <2>4 DEF SetContentId
    <3> QED BY <1>0, <1>1, <3>1, MixSet
  <2>5. CASE Dir(s) # "render"
    <3>1. UNCHANGED rights
      BY <1>7, <2>5 DEF SetContentId
    <3>2. \A t \in Registered("render") : stream'[t].content = stream[t].content
      BY <2>2, <2>5 DEF Registered
    <3>3. RenderedContents' = RenderedContents
      BY <2>3, <3>2 DEF RenderedContents
    <3> QED BY <3>1, <3>3, MixLeft
  <2> QED BY <2>4, <2>5
<1>8. ASSUME NEW s \in Streams, AllocateAudioBuffer(s) \/ FreeAudioBuffer(s) PROVE MixInv'
  <2>1. PICK b \in BOOLEAN : stream' = [stream EXCEPT ![s].buffer = b] /\ UNCHANGED rights
    BY <1>8 DEF AllocateAudioBuffer, FreeAudioBuffer
  <2>2. \A t \in Streams : stream'[t].dir = stream[t].dir /\ stream'[t].unregister = stream[t].unregister
                            /\ stream'[t].content = stream[t].content
    BY <1>0, <2>1 DEF ObjectsOK, StreamRecords
  <2> QED BY <1>2, <2>1, <2>2
<1>9. CASE SetStateDone
  <2>1. PICK ks \in KsStates : stream' = stream \/ stream' = [stream EXCEPT ![call.s].ks = ks]
    BY <1>0, <1>9, CallStream DEF SetStateDone
  <2>2. \A t \in Streams : stream'[t].dir = stream[t].dir /\ stream'[t].unregister = stream[t].unregister
                            /\ stream'[t].content = stream[t].content
    BY <1>0, <2>1 DEF ObjectsOK, StreamRecords
  <2> QED BY <1>2, <1>9, <2>2 DEF SetStateDone
<1>10. CASE UNCHANGED <<objects, rights>>
  BY <1>2, <1>10 DEF objects
<1>11. CASE ObjectStep
  BY <1>3, <1>5, <1>6, <1>7, <1>8, <1>11 DEF ObjectStep
<1>12. CASE CallStep
  BY <1>9, <1>10, <1>12
     DEF CallStep, GetPosition, SetState, StopLock, StopI2s, StopChannel, StopClear, Play, Program,
         GetPositionLook, GetPositionRead, GetPositionDone
<1>13. CASE UNCHANGED streamVars
  BY <1>10, <1>13 DEF streamVars
<1> QED BY <1>11, <1>12, <1>13, NextSteps

LEMMA MixInit == ASSUME StreamInit PROVE MixInv
  BY DEF StreamInit, MixInv, MixKept, MixCurrent

\* Whichever of the calls of UpdateDrmRights fails, the one mixed content that exists is
\* the recorded one; while the last UpdateDrmRights succeeded it is made of the contents of
\* the streams that render, those aside that came since without protected content.
THEOREM MixedContentsKept == StreamSpec => [](MixKept /\ MixCurrent)
<1> DEFINE Inv == StreamInv /\ AccountInv /\ MixInv
<1>1. StreamInit => Inv
  BY StreamInitInv, AccountInit, MixInit
<1>2. Inv /\ [StreamNext]_streamVars => Inv'
  BY StepInv, AccountStep, MixStep
<1>3. Inv => MixKept /\ MixCurrent
  BY DEF MixInv
<1> QED BY <1>1, <1>2, <1>3, PTL DEF StreamSpec

\* With one instance of a pin, as the endpoints have it, the mix that was made last is
\* that of the stream that renders, without exception.
THEOREM MixAlwaysOwned == ASSUME MaxSystemStreams = 1 PROVE StreamSpec => []MixOwned
<1>1. ASSUME StreamTypeOK, AccountInv, MixKept, MixCurrent PROVE MixOwned
  <2>1. DOMAIN drm = IF mix = 0 THEN {} ELSE {mix}
    BY <1>1 DEF MixKept
  <2>2. ASSUME mixed PROVE drm[mix] = RenderedContents
    <3>1. \A s, t \in Registered("render") : s = t
      BY <1>1, OneStream DEF OneInv, Registered, StreamTypeOK
    <3>2. \A c, e \in RenderedContents : c = e
      BY <3>1 DEF RenderedContents
    <3>3. drm[mix] # {} /\ drm[mix] \subseteq RenderedContents
      BY <1>1, <2>2 DEF MixCurrent
    <3> QED BY <3>2, <3>3
  <2> QED BY <2>1, <2>2 DEF MixOwned, RenderedContents
<1>2. StreamSpec => []AccountInv
  <2>1. StreamInit => StreamInv /\ AccountInv
    BY StreamInitInv, AccountInit
  <2>2. StreamInv /\ AccountInv /\ [StreamNext]_streamVars => StreamInv' /\ AccountInv'
    BY StepInv, AccountStep
  <2> QED BY <2>1, <2>2, PTL DEF StreamSpec
<1> QED BY <1>1, <1>2, StreamTypesCorrect, MixedContentsKept, PTL

-----------------------------------------------------------------------------
(* The inductive invariant.                                                *)

Kinds == {"topo", "wave"}
Installing == {"topo", "wave", "connect", "release", "outputs"}
Places == {"stopped", "init", "power", "started", "failed", "stopping"} \cup Installing

HardwareOK ==
  /\ power \in DeviceStates /\ idle \in Nat
  /\ busDevice \in [power : DeviceStates, programmed : BOOLEAN]

AdapterTypeOK ==
  /\ HardwareOK
  /\ pc \in Places
  /\ ep \in [has : SUBSET Kinds, made : SUBSET Kinds, ok : BOOLEAN]
  /\ adapter \in [exists : BOOLEAN, common : BOOLEAN, power : BOOLEAN]
  /\ made \in SUBSET {"wdf", "hw", "interrupt", "api"}
  /\ cache \in SUBSET Subdevices /\ registered \in SUBSET Subdevices
  /\ references \in [Subdevices -> Int]
  /\ connected \in SUBSET Endpoints

\* StartDevice has one or two endpoints to install, which differ.
TodoOK ==
  pc \in Installing => todo \in {<<"Hdmi">>, <<"Headphones">>, <<"MicJack">>,
                                 <<"Hdmi", "MicJack">>, <<"Headphones", "MicJack">>}

\* The bus device is awake, holds what rk3x_init wrote, and is kept from idling.
Ready == busDevice.power = "D0" /\ busDevice.programmed /\ idle > 0

ReadyInv == pc = "power" \/ (adapter.power /\ power = "D0") => Ready

\* Until it has registered with PortCls the adapter gets no power requests, and from its
\* registration on there is an m_pHW.
MadeInv ==
  /\ pc \in {"stopped", "init", "power"} => ~adapter.power
  /\ pc \in {"init", "power"} \cup Installing => adapter.exists
  /\ pc = "stopped" => ~adapter.exists
  /\ pc = "power" \/ adapter.power => "hw" \in made
  /\ adapter.power => adapter.exists
  /\ {"interrupt", "api"} \cap made # {} => "hw" \in made
  /\ ~adapter.exists => made = {} /\ etw = None

\* Endpoints that are still to be installed.
Later == {todo[i] : i \in 2 .. Len(todo)}
Ahead == IF pc = "topo" THEN {E} \cup Later ELSE Later

\* Nothing is known of them.
AheadInv ==
  /\ pc \in {"stopping", "stopped", "init", "power"} => cache = {}
  /\ pc \in {"stopped", "init", "power"} => registered = {} /\ connected = {}
  /\ pc \in {"started", "failed"} /\ ~adapter.common => cache = {}
  /\ pc \in Installing =>
       /\ \A x \in registered \cup cache : x[1] \notin Ahead
       /\ connected \cap Ahead = {}

\* What InstallEndpointFilters has of its endpoint at each of its steps: what is
\* registered is what it made.
FilterInv ==
  /\ pc \notin {"wave", "connect", "release", "outputs"} => ep = NoEndpoint
  /\ pc = "wave" => ep.has \subseteq {"topo"}
  /\ pc \in {"wave", "connect", "release"} =>
       /\ ep.has \subseteq ep.made
       /\ \A k \in Kinds : <<E, k>> \in registered <=> k \in ep.has
  /\ pc \in {"wave", "connect"} => E \notin connected
  /\ pc \in {"connect", "release"} /\ ep.ok => "wave" \in ep.has
  /\ pc = "release" /\ ~ep.ok => E \notin connected
  /\ pc # "stopping" => cache \subseteq registered
  /\ \A e \in connected : <<e, "wave">> \in registered

AdapterInv == AdapterTypeOK /\ TodoOK /\ ReadyInv /\ MadeInv /\ AheadInv /\ FilterInv /\ EndpointsAllOrNothing

-----------------------------------------------------------------------------
(* What Init leaves behind when one of its steps fails.                    *)

\* m_pHW registers its callbacks, and only an m_pHW does; all of Init makes one.
LEMMA InitMakes ==
  ASSUME NEW fails
  PROVE  /\ MadeBy(fails) \in SUBSET {"wdf", "hw", "interrupt", "api"}
         /\ {"interrupt", "api"} \cap MadeBy(fails) # {} => "hw" \in MadeBy(fails)
         /\ fails = None => "hw" \in MadeBy(fails)
<1>1. Reaches(fails, "dma") => Reaches(fails, "memory")
  BY DEF Reaches, InitSteps, None
<1>2. Reaches(None, "memory")
  BY DEF Reaches, InitSteps, None
<1> QED BY <1>1, <1>2 DEF MadeBy, NewHW, CSAudioAPIInit

-----------------------------------------------------------------------------
(* Initial states.                                                         *)

LEMMA AdapterInitInv == ASSUME AdapterAtRest PROVE AdapterInv
<1>1. AdapterTypeOK /\ TodoOK /\ ReadyInv /\ MadeInv
  BY DEF AdapterAtRest, AdapterTypeOK, HardwareOK, Places, Installing, NoEndpoint, NoAdapter, Kinds, DeviceStates,
         TodoOK, ReadyInv, MadeInv, None
<1>2. AheadInv /\ FilterInv /\ EndpointsAllOrNothing
  BY DEF AdapterAtRest, AheadInv, FilterInv, EndpointsAllOrNothing, Installing
<1> QED BY <1>1, <1>2 DEF AdapterInv

-----------------------------------------------------------------------------
(* Types.                                                                  *)

\* rk3x_init, rk3x_deinit and what the power manager does leave the hardware well-typed.
LEMMA HardwareStep ==
  ASSUME HardwareOK, power' \in DeviceStates,
         rk3x_init \/ rk3x_deinit
           \/ (UNCHANGED idle /\ busDevice' \in {busDevice, Lost, [busDevice EXCEPT !.power = "D0"]})
           \/ UNCHANGED <<idle, busDevice>>
  PROVE  HardwareOK'
<1>1. idle' \in Nat
  BY DEF HardwareOK, rk3x_init, rk3x_deinit, StopIdle, ResumeIdle
<1>2. busDevice' \in [power : DeviceStates, programmed : BOOLEAN]
  <2>1. Lost \in [power : DeviceStates, programmed : BOOLEAN]
        /\ [power |-> "D0", programmed |-> TRUE] \in [power : DeviceStates, programmed : BOOLEAN]
    BY DEF Lost, DeviceStates
  <2>2. [busDevice EXCEPT !.power = "D0"] \in [power : DeviceStates, programmed : BOOLEAN]
    BY DEF HardwareOK, DeviceStates
  <2> QED BY <2>1, <2>2 DEF HardwareOK, rk3x_init, rk3x_deinit
<1> QED BY <1>1, <1>2 DEF HardwareOK

LEMMA HardwareKept == ASSUME HardwareOK, UNCHANGED hardware PROVE HardwareOK'
  BY DEF HardwareOK, hardware

LEMMA TypeStep == ASSUME AdapterInv, [AdapterNext]_adapterVars PROVE AdapterTypeOK'
<1>0. AdapterTypeOK /\ TodoOK
  BY DEF AdapterInv
<1>1. CASE \E ok \in BOOLEAN : NewAdapterCommon(ok)
  <2>1. HardwareOK'
    BY <1>0, <1>1, HardwareKept DEF AdapterTypeOK, NewAdapterCommon
  <2>2. adapter' \in [exists : BOOLEAN, common : BOOLEAN, power : BOOLEAN]
    BY <1>1 DEF NewAdapterCommon, NoAdapter
  <2> QED BY <1>0, <1>1, <2>1, <2>2 DEF AdapterTypeOK, NewAdapterCommon, Places, subdevices
<1>2. CASE \E ok \in BOOLEAN : RegisterPower(ok)
  <2>1. HardwareOK'
    BY <1>0, <1>2, HardwareKept DEF AdapterTypeOK, RegisterPower
  <2>2. adapter' \in [exists : BOOLEAN, common : BOOLEAN, power : BOOLEAN]
    BY <1>0, <1>2 DEF AdapterTypeOK, RegisterPower, Return
  <2> QED BY <1>0, <1>2, <2>1, <2>2 DEF AdapterTypeOK, RegisterPower, Return, Places, Installing, subdevices
<1>3. CASE \E ok \in BOOLEAN : ConnectTopologies(ok)
  <2>1. E \in Endpoints
    BY <1>0, <1>3 DEF TodoOK, E, ConnectTopologies, Installing, Endpoints
  <2>2. HardwareOK'
    BY <1>0, <1>3, HardwareKept DEF AdapterTypeOK, ConnectTopologies
  <2>3. ep' \in [has : SUBSET Kinds, made : SUBSET Kinds, ok : BOOLEAN]
    BY <1>0, <1>3 DEF AdapterTypeOK, ConnectTopologies
  <2>4. connected' \in SUBSET Endpoints
    BY <1>0, <1>3, <2>1 DEF AdapterTypeOK, ConnectTopologies, DisconnectTopologies
  <2> QED BY <1>0, <1>3, <2>2, <2>3, <2>4 DEF AdapterTypeOK, ConnectTopologies, Places, Installing
<1>4. CASE \E i \in DOMAIN InitSteps : AdapterInit(InitSteps[i])
  <2>1. PICK fails : AdapterInit(fails)
    BY <1>4
  <2>2. made' \in SUBSET {"wdf", "hw", "interrupt", "api"}
    BY <2>1, InitMakes DEF AdapterInit
  <2>3. adapter' \in [exists : BOOLEAN, common : BOOLEAN, power : BOOLEAN] /\ pc' \in Places
    BY <1>0, <2>1 DEF AdapterTypeOK, AdapterInit, Return, Places
  <2>4. HardwareOK'
    <3>1. power' \in DeviceStates /\ (rk3x_init \/ UNCHANGED <<idle, busDevice>>)
      BY <2>1 DEF AdapterInit, DeviceStates
    <3> QED BY <1>0, <3>1, HardwareStep DEF AdapterTypeOK
  <2> QED BY <1>0, <2>1, <2>2, <2>3, <2>4 DEF AdapterTypeOK, AdapterInit, subdevices
<1>5. CASE \E o \in {"ok", "uncached", "refused"} : InstallTopology(o) \/ InstallWave(o)
  <2>1. PICK kind \in Kinds, o \in {"ok", "uncached", "refused"} :
          /\ Install(kind, o) /\ pc' \in Places
          /\ UNCHANGED <<adapter, made, connected, hardware>>
    BY <1>5 DEF InstallTopology, InstallWave, Kinds, Places, Installing
  <2>2. <<E, kind>> \in Subdevices
    <3>1. E \in Endpoints
      BY <1>0, <1>5 DEF TodoOK, E, InstallTopology, InstallWave, Installing, Endpoints
    <3> QED BY <3>1 DEF Subdevices, Kinds
  <2>3. cache' \in SUBSET Subdevices /\ registered' \in SUBSET Subdevices
    BY <1>0, <2>1, <2>2 DEF AdapterTypeOK, Install, InstallSubdevice, CacheSubdevice
  <2>4. references' \in [Subdevices -> Int]
    BY <1>0, <2>1, <2>2 DEF AdapterTypeOK, Install
  <2>5. ep' \in [has : SUBSET Kinds, made : SUBSET Kinds, ok : BOOLEAN]
    BY <1>0, <2>1 DEF AdapterTypeOK, Install, GetCachedSubdevice, CacheSubdevice
  <2>6. HardwareOK'
    BY <1>0, <2>1, HardwareKept DEF AdapterTypeOK
  <2> QED BY <1>0, <2>1, <2>3, <2>4, <2>5, <2>6 DEF AdapterTypeOK
<1>6. CASE Release
  <2>1. HardwareOK'
    BY <1>0, <1>6, HardwareKept DEF AdapterTypeOK, Release
  <2>2. references' \in [Subdevices -> Int]
    BY <1>0, <1>6 DEF AdapterTypeOK, Release
  <2> QED BY <1>0, <1>6, <2>1, <2>2 DEF AdapterTypeOK, Release, UnregisterSubdevice, RemoveCachedSubdevice,
             Places, Installing
<1>7. CASE \E h, r \in BOOLEAN : NextEndpoint(h, r)
  <2>1. ep' = NoEndpoint /\ pc' \in Places /\ UNCHANGED <<made, subdevices, hardware>>
        /\ adapter' \in {adapter, [adapter EXCEPT !.common = TRUE]}
    BY <1>7 DEF NextEndpoint, Return, Places, Installing
  <2>2. NoEndpoint \in [has : SUBSET Kinds, made : SUBSET Kinds, ok : BOOLEAN]
    BY DEF NoEndpoint
  <2>3. adapter' \in [exists : BOOLEAN, common : BOOLEAN, power : BOOLEAN]
    BY <1>0, <2>1 DEF AdapterTypeOK
  <2>4. HardwareOK'
    BY <1>0, <2>1, HardwareKept DEF AdapterTypeOK
  <2> QED BY <1>0, <2>1, <2>2, <2>3, <2>4 DEF AdapterTypeOK, subdevices
<1>8. CASE \E s \in DeviceStates : PowerChangeState(s)
  <2>1. HardwareOK'
    BY <1>0, <1>8, HardwareStep DEF AdapterTypeOK, PowerChangeState
  <2> QED BY <1>0, <1>8, <2>1 DEF AdapterTypeOK, PowerChangeState, startup, subdevices
<1>9. CASE BusIdles \/ BusStarts \/ SystemSleeps \/ SystemWakes
  <2>1. HardwareOK'
    <3>1. power' \in DeviceStates
      BY <1>0, <1>9 DEF AdapterTypeOK, HardwareOK, BusIdles, BusStarts, SystemSleeps, SystemWakes
    <3> QED BY <1>0, <1>9, <3>1, HardwareStep DEF AdapterTypeOK, BusIdles, BusStarts, SystemSleeps, SystemWakes
  <2> QED BY <1>0, <1>9, <2>1 DEF AdapterTypeOK, BusIdles, BusStarts, SystemSleeps, SystemWakes,
             startup, subdevices
<1>10. CASE PnpHandler
  <2>1. HardwareOK'
    BY <1>0, <1>10, HardwareKept DEF AdapterTypeOK, PnpHandler
  <2>2. adapter' \in [exists : BOOLEAN, common : BOOLEAN, power : BOOLEAN]
    BY <1>0, <1>10 DEF AdapterTypeOK, PnpHandler
  <2>3. references' \in [Subdevices -> Int]
    BY <1>0, <1>10 DEF AdapterTypeOK, PnpHandler
  <2> QED BY <1>0, <1>10, <2>1, <2>2, <2>3 DEF AdapterTypeOK, PnpHandler, EmptySubdeviceCache, Places
<1>11. CASE PortClsLetsGo
  <2>1. HardwareOK'
    BY <1>0, <1>11, HardwareKept DEF AdapterTypeOK, PortClsLetsGo
  <2> QED BY <1>0, <1>11, <2>1 DEF AdapterTypeOK, PortClsLetsGo, startup
<1>12. CASE Destroy
  <2>1. HardwareOK'
    <3>1. power' \in DeviceStates
      BY <1>0, <1>12 DEF AdapterTypeOK, HardwareOK, Destroy
    <3> QED BY <1>0, <1>12, <3>1, HardwareStep DEF AdapterTypeOK, Destroy
  <2>2. adapter' \in [exists : BOOLEAN, common : BOOLEAN, power : BOOLEAN]
    BY <1>12 DEF Destroy, NoAdapter
  <2> QED BY <1>0, <1>12, <2>1, <2>2 DEF AdapterTypeOK, Destroy, Places, subdevices
<1>13. CASE UNCHANGED adapterVars
  BY <1>0, <1>13 DEF AdapterTypeOK, HardwareOK, adapterVars, startup, subdevices, hardware
<1> QED BY <1>1, <1>2, <1>3, <1>4, <1>5, <1>6, <1>7, <1>8, <1>9, <1>10, <1>11, <1>12, <1>13 DEF AdapterNext

-----------------------------------------------------------------------------
(* The hardware.                                                           *)

\* Whatever wakes the bus device programs it, and nothing lets it sleep while it is held.
LEMMA ReadyStep == ASSUME AdapterInv, [AdapterNext]_adapterVars PROVE ReadyInv'
<1>0. ReadyInv /\ MadeInv /\ HardwareOK
  BY DEF AdapterInv, AdapterTypeOK
<1>1. CASE \E ok \in BOOLEAN : NewAdapterCommon(ok)
  BY <1>1 DEF NewAdapterCommon, NoAdapter, ReadyInv
<1>2. CASE \E ok \in BOOLEAN : RegisterPower(ok)
  BY <1>0, <1>2 DEF RegisterPower, Return, ReadyInv, Ready, MadeInv, hardware
<1>3. CASE \E i \in DOMAIN InitSteps : AdapterInit(InitSteps[i])
  <2>1. PICK fails : AdapterInit(fails)
    BY <1>3
  <2>2. CASE fails = None
    <3>1. busDevice' = [power |-> "D0", programmed |-> TRUE] /\ idle' = idle + 1
      BY <2>1, <2>2 DEF AdapterInit, rk3x_init, StopIdle
    <3> QED BY <1>0, <3>1 DEF HardwareOK, ReadyInv, Ready
  <2>3. CASE fails # None
    <3>1. pc' = "failed" /\ adapter' = [adapter EXCEPT !.common = TRUE] /\ ~adapter.power
      BY <1>0, <2>1, <2>3 DEF AdapterInit, Return, MadeInv
    <3>2. ~adapter'.power
      BY <3>1 DEF AdapterInv, AdapterTypeOK
    <3> QED BY <3>1, <3>2 DEF ReadyInv
  <2> QED BY <2>2, <2>3
<1>4. CASE \E s \in DeviceStates : PowerChangeState(s)
  <2>1. PICK s : PowerChangeState(s)
    BY <1>4
  <2>2. CASE s = "D0"
    <3>1. busDevice' = [power |-> "D0", programmed |-> TRUE] /\ idle' = idle + 1
      BY <2>1, <2>2 DEF PowerChangeState, rk3x_init, StopIdle
    <3> QED BY <1>0, <3>1 DEF HardwareOK, ReadyInv, Ready
  <2>3. CASE s # "D0"
    BY <2>1, <2>3 DEF PowerChangeState, startup, ReadyInv
  <2> QED BY <2>2, <2>3
<1>5. CASE BusIdles \/ BusStarts \/ SystemSleeps \/ SystemWakes
  BY <1>0, <1>5 DEF BusIdles, BusStarts, SystemSleeps, SystemWakes, startup, ReadyInv, Ready,
     MadeInv, HardwareOK
<1>6. CASE PortClsLetsGo
  BY <1>6 DEF PortClsLetsGo, startup, ReadyInv
<1>7. CASE Destroy
  BY <1>7 DEF Destroy, NoAdapter, ReadyInv
<1>8. CASE \/ \E ok \in BOOLEAN : ConnectTopologies(ok)
           \/ \E o \in {"ok", "uncached", "refused"} : InstallTopology(o) \/ InstallWave(o)
           \/ Release \/ PnpHandler \/ \E h, r \in BOOLEAN : NextEndpoint(h, r)
  <2>1. UNCHANGED hardware /\ pc' # "power"
    BY <1>8 DEF ConnectTopologies, InstallTopology, InstallWave, Release, PnpHandler, NextEndpoint, Return
  <2>2. adapter' \in {adapter, [adapter EXCEPT !.common = TRUE], [adapter EXCEPT !.common = FALSE]}
    BY <1>8 DEF ConnectTopologies, InstallTopology, InstallWave, Release, PnpHandler, NextEndpoint, Return
  <2>3. adapter'.power = adapter.power
    BY <2>2 DEF AdapterInv, AdapterTypeOK
  <2> QED BY <1>0, <2>1, <2>3 DEF ReadyInv, Ready, hardware
<1>9. CASE UNCHANGED adapterVars
  BY <1>0, <1>9 DEF adapterVars, startup, hardware, ReadyInv, Ready
<1> QED BY <1>1, <1>2, <1>3, <1>4, <1>5, <1>6, <1>7, <1>8, <1>9 DEF AdapterNext

-----------------------------------------------------------------------------
(* What the adapter is made of.                                            *)

LEMMA MadeStep == ASSUME AdapterInv, [AdapterNext]_adapterVars PROVE MadeInv'
<1>0. MadeInv /\ AdapterTypeOK
  BY DEF AdapterInv
<1>1. CASE \E ok \in BOOLEAN : NewAdapterCommon(ok)
  <2>1. PICK ok \in BOOLEAN : NewAdapterCommon(ok)
    BY <1>1
  <2>2. pc = "stopped" /\ pc' = (IF ok THEN "init" ELSE "failed") /\ UNCHANGED <<made, etw>>
        /\ adapter'.exists = ok /\ ~adapter'.power
    BY <2>1 DEF NewAdapterCommon, NoAdapter
  <2> QED BY <1>0, <2>2 DEF MadeInv, Installing
<1>2. CASE \E ok \in BOOLEAN : RegisterPower(ok)
  <2>1. pc = "power" /\ pc' \in {"topo", "failed"} /\ UNCHANGED <<made, etw>>
        /\ adapter'.exists = adapter.exists
    BY <1>0, <1>2 DEF RegisterPower, Return, AdapterTypeOK
  <2> QED BY <1>0, <2>1 DEF MadeInv
<1>3. CASE \E i \in DOMAIN InitSteps : AdapterInit(InitSteps[i])
  <2>1. PICK fails : AdapterInit(fails)
    BY <1>3
  <2>2. pc = "init" /\ made' = MadeBy(fails) /\ UNCHANGED etw
        /\ pc' = (IF fails = None THEN "power" ELSE "failed")
        /\ adapter'.exists = adapter.exists /\ adapter'.power = adapter.power
    BY <1>0, <2>1 DEF AdapterInit, Return, AdapterTypeOK
  <2> QED BY <1>0, <2>2, InitMakes DEF MadeInv, Installing
<1>4. CASE PortClsLetsGo
  <2>1. pc = "stopping" /\ UNCHANGED <<pc, made, etw>>
        /\ adapter'.exists = adapter.exists /\ ~adapter'.power
    BY <1>0, <1>4 DEF PortClsLetsGo, startup, AdapterTypeOK
  <2> QED BY <1>0, <2>1 DEF MadeInv, Installing
<1>5. CASE Destroy
  <2>1. pc' = "stopped" /\ ~adapter'.exists /\ ~adapter'.power /\ etw' = None
    BY <1>5 DEF Destroy, NoAdapter
  <2>2. made' = {}
    BY <1>0, <1>5 DEF Destroy, HwReleases, CSAudioAPIDeinit, MadeInv, AdapterTypeOK
  <2> QED BY <2>1, <2>2 DEF MadeInv, Installing
<1>6. CASE \/ \E s \in DeviceStates : PowerChangeState(s)
           \/ BusIdles \/ BusStarts \/ SystemSleeps \/ SystemWakes
           \/ UNCHANGED adapterVars
  BY <1>0, <1>6 DEF PowerChangeState, BusIdles, BusStarts, SystemSleeps, SystemWakes, adapterVars, startup, MadeInv
<1>7. CASE \/ \E ok \in BOOLEAN : ConnectTopologies(ok)
           \/ \E o \in {"ok", "uncached", "refused"} : InstallTopology(o) \/ InstallWave(o)
           \/ Release
  BY <1>0, <1>7 DEF ConnectTopologies, InstallTopology, InstallWave, Release, MadeInv, Installing
<1>8. CASE PnpHandler
  <2>1. pc' = "stopping" /\ UNCHANGED <<made, etw>>
        /\ adapter'.exists = adapter.exists /\ adapter'.power = adapter.power
    BY <1>0, <1>8 DEF PnpHandler, AdapterTypeOK
  <2> QED BY <1>0, <2>1 DEF MadeInv, Installing
<1>9. CASE \E h, r \in BOOLEAN : NextEndpoint(h, r)
  <2>1. pc = "outputs" /\ pc' \in {"topo", "started", "failed"} /\ UNCHANGED made
        /\ adapter'.exists = adapter.exists /\ adapter'.power = adapter.power
    BY <1>0, <1>9 DEF NextEndpoint, Return, AdapterTypeOK
  <2> QED BY <1>0, <2>1 DEF MadeInv, Installing
<1> QED BY <1>1, <1>2, <1>3, <1>4, <1>5, <1>6, <1>7, <1>8, <1>9 DEF AdapterNext

-----------------------------------------------------------------------------
(* The endpoints still to be installed.                                    *)

LEMMA TodoFacts ==
  ASSUME TodoOK, pc \in Installing
  PROVE  /\ E \in Endpoints /\ Len(todo) \in Nat
         /\ E \notin Later
         /\ Len(todo) > 1 => /\ Tail(todo) = <<"MicJack">> /\ Later = {"MicJack"}
<1>1. CASE \E x \in Endpoints : todo = <<x>>
  <2>1. Len(todo) = 1 /\ E \in Endpoints
    BY <1>1 DEF E
  <2> QED BY <2>1 DEF Later
<1>2. CASE \E x \in {"Hdmi", "Headphones"} : todo = <<x, "MicJack">>
  <2>1. Len(todo) = 2 /\ E \in {"Hdmi", "Headphones"} /\ todo[2] = "MicJack"
    BY <1>2 DEF E
  <2>2. Tail(todo) = <<"MicJack">>
    BY <1>2
  <2>3. Later = {"MicJack"}
    BY <2>1 DEF Later
  <2> QED BY <2>1, <2>2, <2>3 DEF Endpoints
<1> QED BY <1>1, <1>2 DEF TodoOK, Endpoints

LEMMA TodoStep == ASSUME AdapterInv, [AdapterNext]_adapterVars PROVE TodoOK'
<1>0. TodoOK
  BY DEF AdapterInv
<1>1. CASE \E ok \in BOOLEAN : RegisterPower(ok)
  <2>1. pc' = "failed" \/ todo' \in {<<"Headphones", "MicJack">>, <<"Hdmi">>, <<"Headphones">>}
    BY <1>1 DEF RegisterPower, Return, isJack
  <2> QED BY <2>1 DEF TodoOK, Installing
<1>2. CASE \E h, r \in BOOLEAN : NextEndpoint(h, r)
  <2>1. pc \in Installing
    BY <1>2 DEF NextEndpoint, Installing
  <2>2. pc' \in Installing => Len(todo) > 1 /\ todo' = Tail(todo)
    BY <1>2 DEF NextEndpoint, Return, Installing
  <2> QED BY <1>0, <2>1, <2>2, TodoFacts DEF TodoOK
<1>3. CASE \/ \E ok \in BOOLEAN : NewAdapterCommon(ok) \/ ConnectTopologies(ok)
           \/ \E i \in DOMAIN InitSteps : AdapterInit(InitSteps[i])
           \/ \E o \in {"ok", "uncached", "refused"} : InstallTopology(o) \/ InstallWave(o)
           \/ Release \/ PnpHandler \/ Destroy
  BY <1>0, <1>3 DEF NewAdapterCommon, ConnectTopologies, AdapterInit, Return, InstallTopology,
     InstallWave, Release, PnpHandler, Destroy, TodoOK, Installing
<1>4. CASE \/ \E s \in DeviceStates : PowerChangeState(s)
           \/ BusIdles \/ BusStarts \/ SystemSleeps \/ SystemWakes \/ PortClsLetsGo
           \/ UNCHANGED adapterVars
  BY <1>0, <1>4 DEF PowerChangeState, BusIdles, BusStarts, SystemSleeps, SystemWakes, PortClsLetsGo,
     adapterVars, startup, TodoOK
<1> QED BY <1>1, <1>2, <1>3, <1>4 DEF AdapterNext

\* What a call of Install does: its subdevice is new, so it is made.
LEMMA Installs ==
  ASSUME AdapterInv, NEW kind \in Kinds, NEW o, pc = kind, Install(kind, o)
  PROVE  /\ <<E, kind>> \notin registered \cup cache /\ <<E, kind>> \in Subdevices
         /\ \A x : x \in registered' <=> x \in registered \/ (x = <<E, kind>> /\ o # "refused")
         /\ \A x : x \in cache' <=> x \in cache \/ (x = <<E, kind>> /\ o = "ok")
         /\ \A k : k \in ep'.has <=> k \in ep.has \/ (k = kind /\ o # "refused")
         /\ ep'.made = ep.made \cup {kind} /\ ep'.ok = (o = "ok")
         /\ \A x \in Subdevices : references'[x] =
              references[x] + (IF x = <<E, kind>> /\ o # "refused" THEN 1 ELSE 0)
                            + (IF x = <<E, kind>> /\ o = "ok" THEN 1 ELSE 0)
<1>0. AdapterTypeOK /\ TodoOK /\ AheadInv /\ FilterInv /\ pc \in Installing
  BY DEF AdapterInv, Installing, Kinds
<1>1. <<E, kind>> \in Subdevices
  BY <1>0, TodoFacts DEF Subdevices, Kinds
<1>2. <<E, kind>> \notin registered
  <2>1. CASE kind = "topo"
    BY <1>0, <1>1, <2>1 DEF AheadInv, Ahead
  <2>2. CASE kind = "wave"
    BY <1>0, <2>2 DEF FilterInv, Kinds
  <2> QED BY <2>1, <2>2 DEF Kinds
<1>3. <<E, kind>> \notin cache
  BY <1>0, <1>2 DEF FilterInv, Kinds
<1>4. ~GetCachedSubdevice(<<E, kind>>)
  BY <1>3 DEF GetCachedSubdevice
<1>5. o = "ok" => o # "refused"
  OBVIOUS
<1>6. registered' = registered \cup (IF o # "refused" THEN {<<E, kind>>} ELSE {})
      /\ cache' = cache \cup (IF o = "ok" THEN {<<E, kind>>} ELSE {})
  BY <1>4, <1>5 DEF Install, InstallSubdevice, CacheSubdevice
<1>7. ep' = [has |-> ep.has \cup (IF o # "refused" THEN {kind} ELSE {}),
             made |-> ep.made \cup {kind}, ok |-> (o = "ok")]
  BY <1>4, <1>5 DEF Install
<1>8. references' = [references EXCEPT ![<<E, kind>>] =
              @ + (IF o # "refused" THEN 1 ELSE 0) + (IF o = "ok" THEN 1 ELSE 0)]
  BY <1>4, <1>5 DEF Install
<1>9. \A x \in Subdevices : references'[x] =
        references[x] + (IF x = <<E, kind>> /\ o # "refused" THEN 1 ELSE 0)
                      + (IF x = <<E, kind>> /\ o = "ok" THEN 1 ELSE 0)
  BY <1>0, <1>1, <1>8 DEF AdapterTypeOK
<1>10. ep'.has = ep.has \cup (IF o # "refused" THEN {kind} ELSE {})
       /\ ep'.made = ep.made \cup {kind} /\ ep'.ok = (o = "ok")
  BY <1>7
<1> QED BY <1>1, <1>2, <1>3, <1>6, <1>9, <1>10

\* What has not been installed stays unknown.
LEMMA AheadStep == ASSUME AdapterInv, [AdapterNext]_adapterVars PROVE AheadInv'
<1>0. AheadInv /\ TodoOK /\ FilterInv
  BY DEF AdapterInv
<1>1. CASE \E ok \in BOOLEAN : NewAdapterCommon(ok)
  BY <1>0, <1>1 DEF NewAdapterCommon, subdevices, AheadInv, Installing
<1>2. CASE \E ok \in BOOLEAN : RegisterPower(ok)
  BY <1>0, <1>2 DEF RegisterPower, Return, subdevices, AheadInv
<1>3. CASE \E ok \in BOOLEAN : ConnectTopologies(ok)
  <2>1. pc = "connect" /\ pc' = "release" /\ UNCHANGED <<todo, cache, registered>>
        /\ connected' \subseteq connected \cup {E}
    BY <1>3 DEF ConnectTopologies, DisconnectTopologies
  <2>2. E \notin Later
    BY <1>0, <2>1, TodoFacts DEF Installing
  <2> QED BY <1>0, <2>1, <2>2 DEF AheadInv, Ahead, Later, Installing
<1>4. CASE \E i \in DOMAIN InitSteps : AdapterInit(InitSteps[i])
  BY <1>0, <1>4 DEF AdapterInit, Return, subdevices, AheadInv, Installing
<1>5. CASE \E o \in {"ok", "uncached", "refused"} : InstallTopology(o) \/ InstallWave(o)
  <2>1. PICK kind \in Kinds, o \in {"ok", "uncached", "refused"} :
          /\ Install(kind, o) /\ pc = kind /\ pc' \in {"wave", "connect"}
          /\ UNCHANGED <<todo, connected>>
    BY <1>5 DEF InstallTopology, InstallWave, Kinds
  <2>2. registered' \cup cache' \subseteq registered \cup cache \cup {<<E, kind>>}
    BY <2>1, Installs
  <2>3. E \notin Later
    BY <1>0, <2>1, TodoFacts DEF Installing, Kinds
  <2>4. Ahead' = Later /\ E \notin Ahead' /\ Ahead' \subseteq Ahead /\ pc' \in Installing /\ pc \in Installing
    BY <2>1, <2>3 DEF Ahead, Later, Installing, Kinds
  <2>5. \A x \in registered' \cup cache' : x[1] \notin Ahead'
    BY <1>0, <2>2, <2>4 DEF AheadInv
  <2> QED BY <1>0, <2>1, <2>4, <2>5 DEF AheadInv
<1>6. CASE Release
  BY <1>0, <1>6 DEF Release, UnregisterSubdevice, RemoveCachedSubdevice, AheadInv, Ahead, Later, Installing
<1>7. CASE \E h, r \in BOOLEAN : NextEndpoint(h, r)
  <2>1. pc = "outputs" /\ UNCHANGED subdevices
        /\ (pc' \in {"started", "failed"} \/ (pc' = "topo" /\ Len(todo) > 1 /\ todo' = Tail(todo)))
    BY <1>7 DEF NextEndpoint, Return
  <2>2. CASE pc' = "topo" /\ Len(todo) > 1 /\ todo' = Tail(todo)
    <3>1. todo' = <<"MicJack">> /\ Later = {"MicJack"}
      BY <1>0, <2>1, <2>2, TodoFacts DEF Installing
    <3>2. Ahead' = {"MicJack"}
      BY <2>2, <3>1 DEF Ahead, Later, E
    <3> QED BY <1>0, <2>1, <2>2, <3>1, <3>2 DEF AheadInv, Ahead, Installing, subdevices
  <2>3. CASE pc' \in {"started", "failed"}
    <3>1. adapter' = [adapter EXCEPT !.common = TRUE]
      BY <1>7, <2>3 DEF NextEndpoint, Return
    <3>2. adapter'.common
      BY <3>1 DEF AdapterInv, AdapterTypeOK
    <3> QED BY <2>3, <3>2 DEF AheadInv, Installing
  <2> QED BY <2>1, <2>2, <2>3
<1>8. CASE \/ \E s \in DeviceStates : PowerChangeState(s)
           \/ BusIdles \/ BusStarts \/ SystemSleeps \/ SystemWakes \/ UNCHANGED adapterVars
  BY <1>0, <1>8 DEF PowerChangeState, BusIdles, BusStarts, SystemSleeps, SystemWakes, adapterVars, startup,
     subdevices, AheadInv, Ahead, Later, E
<1>9. CASE PnpHandler
  <2>1. adapter.common \/ cache = {}
    BY <1>0, <1>9 DEF PnpHandler, AheadInv
  <2> QED BY <1>0, <1>9, <2>1 DEF PnpHandler, EmptySubdeviceCache, AheadInv, Installing
<1>10. CASE PortClsLetsGo
  BY <1>0, <1>10 DEF PortClsLetsGo, startup, AheadInv, Installing
<1>11. CASE Destroy
  <2>1. connected = {} /\ cache = {}
    BY <1>0, <1>11 DEF Destroy, FilterInv, AheadInv
  <2> QED BY <1>11, <2>1 DEF Destroy, subdevices, AheadInv, Installing
<1> QED BY <1>1, <1>2, <1>3, <1>4, <1>5, <1>6, <1>7, <1>8, <1>9, <1>10, <1>11 DEF AdapterNext

-----------------------------------------------------------------------------
(* One endpoint.                                                           *)

\* Each step of InstallEndpointFilters.
LEMMA FilterStep == ASSUME AdapterInv, [AdapterNext]_adapterVars PROVE FilterInv'
<1>0. FilterInv /\ AheadInv /\ AdapterTypeOK
  BY DEF AdapterInv
<1>1. CASE \/ \E ok \in BOOLEAN : NewAdapterCommon(ok) \/ RegisterPower(ok)
           \/ \E i \in DOMAIN InitSteps : AdapterInit(InitSteps[i])
  <2>1. UNCHANGED <<subdevices, ep>> /\ pc' \in {"init", "power", "topo", "failed"}
        /\ pc \in {"stopped", "init", "power"}
    BY <1>1 DEF NewAdapterCommon, RegisterPower, AdapterInit, Return
  <2> QED BY <1>0, <2>1 DEF FilterInv, subdevices
<1>3. CASE \E ok \in BOOLEAN : ConnectTopologies(ok)
  <2>1. PICK ok \in BOOLEAN : ConnectTopologies(ok)
    BY <1>3
  <2>2. pc = "connect" /\ pc' = "release" /\ UNCHANGED <<cache, registered>> /\ E' = E
    BY <2>1 DEF ConnectTopologies, E
  <2>3. CASE ep.has = Kinds
    <3>1. ep'.has = ep.has /\ ep'.made = ep.made /\ ep'.ok = ok
          /\ connected' = (IF ok THEN connected \cup {E} ELSE connected \ {E})
      BY <1>0, <2>1, <2>3 DEF ConnectTopologies, DisconnectTopologies, Kinds, AdapterTypeOK
    <3> QED BY <1>0, <2>2, <2>3, <3>1 DEF FilterInv, Kinds
  <2>4. CASE ep.has # Kinds
    BY <1>0, <2>1, <2>2, <2>4 DEF ConnectTopologies, FilterInv, Kinds
  <2> QED BY <2>3, <2>4
<1>5. CASE \E o \in {"ok", "uncached", "refused"} : InstallTopology(o) \/ InstallWave(o)
  <2>1. PICK kind \in Kinds, o \in {"ok", "uncached", "refused"} :
          /\ Install(kind, o) /\ pc = kind
          /\ pc' = (IF kind = "topo" THEN "wave" ELSE "connect")
          /\ UNCHANGED <<todo, connected>>
    BY <1>5 DEF InstallTopology, InstallWave, Kinds
  <2>2. E' = E
    BY <2>1 DEF E
  <2>3. kind = "topo" => \A x \in registered : x[1] # E
    BY <1>0, <2>1 DEF AheadInv, Ahead, Installing
  <2>4. \A k \in Kinds : <<E, k>> \in registered <=> k \in ep.has
    BY <1>0, <2>1, <2>3 DEF FilterInv, Kinds, NoEndpoint
  <2>5. ep.has \subseteq ep.made /\ (kind = "topo" => ep.has = {})
    BY <1>0, <2>1 DEF FilterInv, Kinds, NoEndpoint
  <2>6. \A k \in Kinds : <<E, k>> \in registered' <=> k \in ep'.has
    <3> TAKE k \in Kinds
    <3>1. <<E, k>> = <<E, kind>> <=> k = kind
      OBVIOUS
    <3>2. <<E, k>> \in registered' <=> <<E, k>> \in registered \/ (k = kind /\ o # "refused")
      BY <2>1, <3>1, Installs
    <3>3. k \in ep'.has <=> k \in ep.has \/ (k = kind /\ o # "refused")
      BY <2>1, Installs
    <3> QED BY <2>4, <3>2, <3>3
  <2>7. ep'.has \subseteq ep'.made /\ (kind = "topo" => ep'.has \subseteq {"topo"})
        /\ (kind = "wave" /\ ep'.ok => "wave" \in ep'.has)
    BY <2>1, <2>5, Installs DEF Kinds
  <2>8. E \notin connected
    <3>1. CASE kind = "topo"
      BY <1>0, <2>1, <3>1 DEF AheadInv, Ahead, Installing
    <3>2. CASE kind = "wave"
      BY <1>0, <2>1, <3>2 DEF FilterInv
    <3> QED BY <3>1, <3>2 DEF Kinds
  <2>9. cache' \subseteq registered' /\ registered \subseteq registered'
    BY <1>0, <2>1, Installs DEF FilterInv, Kinds
  <2> QED BY <1>0, <2>1, <2>2, <2>6, <2>7, <2>8, <2>9 DEF FilterInv, Kinds
<1>6. CASE Release
  <2> DEFINE gone == IF ep.ok THEN {} ELSE {<<E, k>> : k \in ep.has \cap ep.made}
  <2>1. pc = "release" /\ pc' = "outputs" /\ UNCHANGED <<ep, todo, connected>>
        /\ registered' = registered \ gone /\ cache' = cache \ gone
    BY <1>6 DEF Release, UnregisterSubdevice, RemoveCachedSubdevice
  <2>2. \A e \in connected : <<e, "wave">> \notin gone
    BY <1>0, <2>1 DEF FilterInv
  <2> QED BY <1>0, <2>1, <2>2 DEF FilterInv
<1>7. CASE \E h, r \in BOOLEAN : NextEndpoint(h, r)
  BY <1>0, <1>7 DEF NextEndpoint, Return, FilterInv, subdevices
<1>8. CASE \/ \E s \in DeviceStates : PowerChangeState(s)
           \/ BusIdles \/ BusStarts \/ SystemSleeps \/ SystemWakes \/ UNCHANGED adapterVars
  <2>1. UNCHANGED <<startup, subdevices>>
    BY <1>8 DEF PowerChangeState, BusIdles, BusStarts, SystemSleeps, SystemWakes, adapterVars
  <2>2. E' = E
    BY <2>1 DEF E, startup
  <2> QED BY <1>0, <2>1, <2>2 DEF FilterInv, startup, subdevices
<1>9. CASE PnpHandler
  BY <1>0, <1>9 DEF PnpHandler, FilterInv
<1>10. CASE PortClsLetsGo
  BY <1>0, <1>10 DEF PortClsLetsGo, startup, FilterInv
<1>11. CASE Destroy
  BY <1>0, <1>11 DEF Destroy, subdevices, FilterInv, AheadInv
<1> QED BY <1>1, <1>3, <1>5, <1>6, <1>7, <1>8, <1>9, <1>10, <1>11 DEF AdapterNext

\* The clauses of EndpointsAllOrNothing that do not speak of references.
LEMMA EndpointStep ==
  ASSUME AdapterInv, [AdapterNext]_adapterVars, AheadInv', FilterInv'
  PROVE  /\ pc' = "outputs" =>
              IF ep'.ok THEN <<E', "wave">> \in registered'
              ELSE /\ \A k \in {"topo", "wave"} : <<E', k>> \notin registered' \cup cache'
                   /\ E' \notin connected'
         /\ pc' \in {"stopping", "stopped"} => cache' = {}
         /\ pc' # "stopping" => cache' \subseteq registered'
<1>0. FilterInv /\ EndpointsAllOrNothing
  BY DEF AdapterInv
<1>1. CASE Release
  <2> DEFINE gone == IF ep.ok THEN {} ELSE {<<E, k>> : k \in ep.has \cap ep.made}
  <2>1. pc = "release" /\ UNCHANGED <<ep, connected>> /\ E' = E
        /\ registered' = registered \ gone /\ cache' = cache \ gone
    BY <1>1 DEF Release, UnregisterSubdevice, RemoveCachedSubdevice, E
  <2>2. CASE ep.ok
    BY <1>0, <1>1, <2>1, <2>2 DEF FilterInv, Kinds, Release
  <2>3. CASE ~ep.ok
    <3>1. \A k \in Kinds : <<E, k>> \in registered \cup cache => <<E, k>> \in gone
      BY <1>0, <2>1, <2>3 DEF FilterInv
    <3>2. E \notin connected /\ cache \subseteq registered
      BY <1>0, <2>1, <2>3 DEF FilterInv
    <3> QED BY <1>1, <2>1, <2>3, <3>1, <3>2 DEF Kinds, Release
  <2> QED BY <2>2, <2>3
<1>2. CASE \/ \E s \in DeviceStates : PowerChangeState(s)
           \/ BusIdles \/ BusStarts \/ SystemSleeps \/ SystemWakes \/ UNCHANGED adapterVars
  <2>1. UNCHANGED <<startup, subdevices>>
    BY <1>2 DEF PowerChangeState, BusIdles, BusStarts, SystemSleeps, SystemWakes, adapterVars
  <2>2. E' = E
    BY <2>1 DEF E, startup
  <2> QED BY <1>0, <2>1, <2>2 DEF EndpointsAllOrNothing, startup, subdevices
<1>3. CASE ~ Release /\ pc' # pc
  <2>1. pc' # "outputs"
    BY <1>3 DEF AdapterNext, NewAdapterCommon, RegisterPower, ConnectTopologies, AdapterInit, InstallTopology,
       InstallWave, NextEndpoint, Return, PowerChangeState, BusIdles, BusStarts, SystemSleeps, SystemWakes,
       PnpHandler, PortClsLetsGo, Destroy, startup, adapterVars
  <2> QED BY <2>1 DEF AheadInv, FilterInv
<1>4. CASE PortClsLetsGo
  BY <1>4 DEF PortClsLetsGo, startup, AheadInv, FilterInv
<1>5. PortClsLetsGo \/ Release \/ pc' # pc
        \/ (\E s \in DeviceStates : PowerChangeState(s))
        \/ BusIdles \/ BusStarts \/ SystemSleeps \/ SystemWakes \/ UNCHANGED adapterVars
  BY DEF AdapterNext, NewAdapterCommon, RegisterPower, ConnectTopologies, AdapterInit, InstallTopology,
     InstallWave, NextEndpoint, Return, PnpHandler, Destroy
<1> QED BY <1>1, <1>2, <1>3, <1>4, <1>5

\* The references that the adapter holds on a subdevice: the cache's and the locals'.
Held(x) ==
  (IF x \in cache THEN 1 ELSE 0)
    + (IF pc \in {"connect", "release", "wave"} /\ x[1] = E /\ x[2] \in ep.has THEN 1 ELSE 0)

LEMMA ReferencesStep ==
  ASSUME AdapterInv, [AdapterNext]_adapterVars, NEW x \in Subdevices
  PROVE  references'[x] = Held(x)'
<1>0. AdapterTypeOK /\ FilterInv /\ AheadInv /\ references[x] = Held(x)
  BY DEF AdapterInv, EndpointsAllOrNothing, Held
<1>1. CASE \E o \in {"ok", "uncached", "refused"} : InstallTopology(o) \/ InstallWave(o)
  <2>1. PICK kind \in Kinds, o \in {"ok", "uncached", "refused"} :
          /\ Install(kind, o) /\ pc = kind /\ pc' \in {"wave", "connect"}
          /\ UNCHANGED <<todo, connected>>
    BY <1>1 DEF InstallTopology, InstallWave, Kinds
  <2>2. E' = E
    BY <2>1 DEF E
  <2>3. (pc = "wave" /\ x[1] = E /\ x[2] \in ep.has) <=> (x[1] = E /\ x[2] \in ep.has)
    BY <1>0, <2>1 DEF FilterInv, Kinds, NoEndpoint
  <2>4. references[x] = (IF x \in cache THEN 1 ELSE 0)
                      + (IF x[1] = E /\ x[2] \in ep.has THEN 1 ELSE 0)
    BY <1>0, <2>1, <2>3 DEF Held, Kinds
  <2>5. Held(x)' = (IF x \in cache' THEN 1 ELSE 0)
                 + (IF x[1] = E /\ x[2] \in ep'.has THEN 1 ELSE 0)
    BY <2>1, <2>2 DEF Held
  <2>6. CASE x = <<E, kind>>
    <3>1. x \notin cache /\ x[1] = E /\ x[2] = kind /\ kind \notin ep.has
      BY <1>0, <2>1, <2>6, Installs DEF FilterInv, Kinds, NoEndpoint
    <3>2. references'[x] = references[x] + (IF o # "refused" THEN 1 ELSE 0) + (IF o = "ok" THEN 1 ELSE 0)
      BY <2>1, <2>6, Installs
    <3>3. (x \in cache' <=> o = "ok") /\ (x[2] \in ep'.has <=> o # "refused")
      BY <2>1, <2>6, <3>1, Installs
    <3> QED BY <2>4, <2>5, <3>1, <3>2, <3>3
  <2>7. CASE x # <<E, kind>>
    <3>1. references'[x] = references[x]
      <4>1. references'[x] = references[x] + 0 + 0
        BY <2>1, <2>7, Installs
      <4> QED BY <1>0, <4>1 DEF AdapterTypeOK
    <3>2. x \in cache' <=> x \in cache
      BY <2>1, <2>7, Installs
    <3>3. x = <<x[1], x[2]>>
      BY DEF Subdevices
    <3>4. x[1] = E => (x[2] \in ep'.has <=> x[2] \in ep.has)
      BY <2>1, <2>7, <3>3, Installs
    <3> QED BY <2>4, <2>5, <3>1, <3>2, <3>4
  <2> QED BY <2>6, <2>7
<1>2. CASE Release
  <2> DEFINE gone == IF ep.ok THEN {} ELSE {<<E, k>> : k \in ep.has \cap ep.made}
  <2>1. /\ pc = "release" /\ pc' = "outputs" /\ cache' = cache \ gone
        /\ references' = [y \in Subdevices |-> references[y]
                      - (IF y[1] = E /\ y[2] \in ep.has THEN 1 ELSE 0)
                      - (IF y \in cache \cap gone THEN 1 ELSE 0)]
    BY <1>2 DEF Release, RemoveCachedSubdevice
  <2> HIDE DEF gone
  <2>2. references'[x] = references[x] - (IF x[1] = E /\ x[2] \in ep.has THEN 1 ELSE 0)
                                       - (IF x \in cache \cap gone THEN 1 ELSE 0)
    BY <2>1
  <2>3. references[x] = (IF x \in cache THEN 1 ELSE 0)
                      + (IF x[1] = E /\ x[2] \in ep.has THEN 1 ELSE 0)
    BY <1>0, <2>1 DEF Held
  <2>4. Held(x)' = (IF x \in cache \ gone THEN 1 ELSE 0)
    BY <2>1 DEF Held
  <2> QED BY <2>2, <2>3, <2>4
<1>3. CASE PnpHandler
  BY <1>0, <1>3 DEF PnpHandler, EmptySubdeviceCache, Held, AheadInv
<1>4. CASE \/ \E ok \in BOOLEAN : NewAdapterCommon(ok) \/ RegisterPower(ok)
           \/ \E i \in DOMAIN InitSteps : AdapterInit(InitSteps[i])
           \/ \E h, r \in BOOLEAN : NextEndpoint(h, r)
           \/ PortClsLetsGo \/ Destroy
  <2>1. UNCHANGED <<cache, references>> /\ pc \notin {"connect", "release", "wave"}
        /\ pc' \notin {"connect", "release", "wave"}
    BY <1>4 DEF NewAdapterCommon, RegisterPower, AdapterInit, NextEndpoint, Return, PortClsLetsGo,
       Destroy, subdevices, startup
  <2> QED BY <1>0, <2>1 DEF Held
<1>5. CASE \/ \E ok \in BOOLEAN : ConnectTopologies(ok)
           \/ \E s \in DeviceStates : PowerChangeState(s)
           \/ BusIdles \/ BusStarts \/ SystemSleeps \/ SystemWakes \/ UNCHANGED adapterVars
  <2>1. UNCHANGED <<cache, references, todo>>
        /\ (UNCHANGED <<pc, ep>> \/ (pc = "connect" /\ pc' = "release" /\ ep'.has = ep.has))
    BY <1>0, <1>5 DEF ConnectTopologies, PowerChangeState, BusIdles, BusStarts, SystemSleeps, SystemWakes,
       adapterVars, startup, subdevices, AdapterTypeOK
  <2>2. E' = E
    BY <2>1 DEF E
  <2> QED BY <1>0, <2>1, <2>2 DEF Held
<1> QED BY <1>1, <1>2, <1>3, <1>4, <1>5 DEF AdapterNext

-----------------------------------------------------------------------------
(* The invariant, and what follows from it.                                *)

LEMMA InvStep == ASSUME AdapterInv, [AdapterNext]_adapterVars PROVE AdapterInv'
<1>1. AheadInv' /\ FilterInv'
  BY AheadStep, FilterStep
<1>2. EndpointsAllOrNothing'
  BY <1>1, EndpointStep, ReferencesStep DEF EndpointsAllOrNothing, Held
<1> QED BY <1>1, <1>2, TypeStep, TodoStep, ReadyStep, MadeStep DEF AdapterInv

LEMMA Invariant == AdapterSpec => []AdapterInv
<1>1. AdapterAtRest => AdapterInv
  BY AdapterInitInv
<1>2. AdapterInv /\ [AdapterNext]_adapterVars => AdapterInv'
  BY InvStep
<1> QED BY <1>1, <1>2, PTL DEF AdapterSpec

\* The variables of the adapter keep their types.
THEOREM AdapterTypesCorrect == AdapterSpec => []AdapterTypeOK
<1>1. AdapterInv => AdapterTypeOK
  BY DEF AdapterInv
<1> QED BY <1>1, Invariant, PTL

\* While PortCls has the adapter in D0 the bus device is awake, programmed and kept from
\* idling (CAdapterCommon::PowerChangeState, ADSPSetPowerState).
THEOREM ReadyWheneverInD0 == AdapterSpec => []ReadyInD0
<1>1. AdapterInv => ReadyInD0
  BY DEF AdapterInv, ReadyInv, Ready, ReadyInD0
<1> QED BY <1>1, Invariant, PTL

\* Whatever fails in Init, StartDevice and InstallEndpointFilters, what they began is there
\* whole or gone (CAdapterCommon::InstallEndpointFilters, ~CAdapterCommon).
THEOREM WholeOrGone == AdapterSpec => []AllOrNothing
<1>1. AdapterInv => AllOrNothing
  BY DEF AdapterInv, MadeInv, AllOrNothing, NothingOutlivesAdapter
<1> QED BY <1>1, Invariant, PTL
=============================================================================

----------------------------- MODULE MCSdAudio -----------------------------
(* The SD hosts as MCSd instantiates them or the audio driver, never both:  *)
(* its streams on an adapter that is there, or the adapter without streams.  *)
EXTENDS MCSd, AudioStream, AudioAdapter, TLC

-----------------------------------------------------------------------------
sdVars == <<hostVars, part, bus1, bus2, bus3>>

\* What is not there is as it was at first.
AdapterAbsent == AdapterAtRest /\ tplg = "hdmi"

SdAudioInit ==
  \/ MCInit /\ StreamInit /\ AdapterAbsent
  \/ /\ SdAtRest /\ host = "dwcsdhc" /\ StreamInit
     /\ \/ part = "streams" /\ AdapterAbsent
        \/ part = "adapter" /\ AdapterAtRest

SdAudioNext ==
  \/ MCNext /\ UNCHANGED <<streamVars, adapterVars>>
  \/ part = "streams" /\ StreamNext /\ UNCHANGED <<sdVars, adapterVars>>
  \/ part = "adapter" /\ AdapterNext /\ UNCHANGED <<sdVars, streamVars>>

SdAudioSpec == SdAudioInit /\ [][SdAudioNext]_<<sdVars, streamVars, adapterVars>>

\* The stream objects are alike.
Symmetry == Permutations(Streams)

-----------------------------------------------------------------------------
Format(w, t, c, e) == [guids |-> "pcm", wave |-> w, tag |-> t, complete |-> c, extension |-> e]
MCPinFormats == [d \in Dirs |-> {Format("48k", "pcm", TRUE, "stereo")}]
Mode == [attribute |-> "mode", size |-> 40]
NoAttributes == [size |-> 8, items |-> <<>>]

\* Formats that are and are not the pin's, without and with attributes, and with more of
\* them than fit.
MCProposals ==
  {[format |-> Format("48k", "pcm", FALSE, "none"), attributes |-> NoAttributes],
   [format |-> Format("48k", "extensible", TRUE, "stereo"), attributes |-> [size |-> 48, items |-> <<Mode>>]],
   [format |-> Format("48k", "extensible", FALSE, "stereo"), attributes |-> NoAttributes],
   [format |-> Format("44k", "pcm", FALSE, "none"), attributes |-> NoAttributes],
   [format |-> Format("48k", "pcm", FALSE, "none"), attributes |-> [size |-> 48, items |-> <<Mode, Mode>>]]}
=============================================================================

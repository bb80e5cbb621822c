--------------------------- MODULE AudioConstants ---------------------------
(***************************************************************************)
(* The parameters of AudioStream and AudioAdapter.                         *)
(***************************************************************************)
EXTENDS Naturals, FiniteSets

CONSTANTS
  Streams,           \* memory for stream objects
  MaxSystemStreams,  \* m_ulMaxSystemStreams: instances of the pin
  PinFormats,        \* m_DeviceFormatsAndModes: formats of the pin of each miniport
  Proposals,         \* what NewStream is asked for: [format, attributes]
  ContentIds,        \* DRM content ids (0: none)
  Topologies,        \* what rockchip,tplg may say: "i2s-jack", "hdmi", "dp"
  MaxIdle            \* bound: WdfDeviceStopIdle calls that are outstanding

NoStream == "NoStream"

ASSUME StreamAssumption ==
  /\ MaxSystemStreams \in Nat \ {0} /\ NoStream \notin Streams
  /\ IsFiniteSet(Streams) /\ 0 \in ContentIds

ASSUME AdapterAssumption == MaxIdle \in Nat \ {0}
=============================================================================

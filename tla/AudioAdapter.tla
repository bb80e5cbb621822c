---------------------------- MODULE AudioAdapter ----------------------------
(***************************************************************************)
(* The adapter of csaudiork3x: how PortCls starts it, how it installs its  *)
(* endpoints, changes power state and goes (Source/Main/adapter.cpp,       *)
(* common.cpp), the I2S hardware object it makes (Utilities/hw.cpp,        *)
(* dma.cpp, csaudioapi.cpp), and the idling of the bus device the          *)
(* controller belongs to (rk3xi2sbus).  PortCls and the framework can      *)
(* refuse every request made of them.                                      *)
(*                                                                         *)
(* A subdevice is a port and its miniport, which are always referenced     *)
(* together.                                                               *)
(***************************************************************************)
EXTENDS AudioConstants, Integers, Sequences

Endpoints == {"Hdmi", "Headphones", "MicJack"}
Subdevices == Endpoints \X {"topo", "wave"}
DeviceStates == {"D0", "D1", "D2", "D3"}
None == "none"

VARIABLES
  tplg,        \* rkTPLG.audio_tplg
  pc,          \* where StartDevice is
  todo,        \* endpoints it has yet to install
  ep,          \* InstallEndpointFilters: what it has, what of that it made, its status
  adapter,     \* the adapter object exists, and who holds it: m_pCommon, PortCls
  made,        \* m_WdfDevice, m_pHW, and the callbacks m_pHW has registered
  cache,       \* m_SubdeviceCache
  references,  \* references the adapter holds on each subdevice
  registered,  \* subdevices PortCls knows
  connected,   \* endpoints whose subdevices it knows to be connected
  etw,         \* the subdevice whose m_pPortClsEtwHelper is
  power,       \* m_PowerState
  idle,        \* StopIdle calls outstanding on the bus device
  busDevice,   \* the bus device: its power, whether its registers hold what rk3x_init wrote
  asleep       \* the system sleeps
startup == <<pc, todo, ep>>
subdevices == <<cache, references, registered, connected>>
hardware == <<power, idle, busDevice>>
adapterVars == <<tplg, startup, adapter, made, subdevices, etw, hardware, asleep>>

NoEndpoint == [has |-> {}, made |-> {}, ok |-> TRUE]
NoAdapter == [exists |-> FALSE, common |-> FALSE, power |-> FALSE]

AdapterAtRest ==
  /\ tplg \in Topologies
  /\ pc = "stopped" /\ todo = <<>> /\ ep = NoEndpoint
  /\ adapter = NoAdapter /\ made = {}
  /\ cache = {} /\ references = [x \in Subdevices |-> 0] /\ registered = {} /\ connected = {}
  /\ etw = None
  /\ power = "D0" /\ idle = 0 /\ busDevice = [power |-> "D0", programmed |-> FALSE]
  /\ asleep = FALSE

-----------------------------------------------------------------------------
(* The hardware object.                                                    *)

\* ADSPSetPowerState: WdfDeviceStopIdle(TRUE) brings the bus device to D0.  A ResumeIdle
\* that answers no StopIdle counts for nothing here.
StopIdle == idle' = idle + 1
ResumeIdle == idle' = IF idle = 0 THEN 0 ELSE idle - 1

\* rk3x_init writes every register it relies on.
rk3x_init ==
  /\ StopIdle
  /\ busDevice' = [power |-> "D0", programmed |-> TRUE]

rk3x_deinit == ResumeIdle /\ UNCHANGED busDevice

\* CAdapterCommon::Init, the step that fails (none), and what it leaves behind.
InitSteps == <<"pdo", "miniport", "interface", "memory", "mmio", "dma", "api", None>>
Reaches(fails, step) ==
  \E i, j \in DOMAIN InitSteps : InitSteps[i] = fails /\ InitSteps[j] = step /\ j < i

\* ResourcesValidated asks for the audio API only on the board with a jack.
isJack == tplg = "i2s-jack"

\* CSAudioAPIInit may break off between making its callback and registering it.
CSAudioAPIInit(fails) == IF Reaches(fails, "dma") /\ isJack THEN {"api"} ELSE {}

\* m_pHW registers its interrupt callback as it is made.
NewHW(fails) == IF Reaches(fails, "memory") THEN {"hw", "interrupt"} ELSE {}

MadeBy(fails) ==
  (IF Reaches(fails, "miniport") THEN {"wdf"} ELSE {}) \cup NewHW(fails) \cup CSAudioAPIInit(fails)

-----------------------------------------------------------------------------
(* StartDevice.                                                            *)

\* NewAdapterCommon; if it fails there is nothing to keep in the device extension.
NewAdapterCommon(ok) ==
  /\ pc = "stopped" /\ ~asleep /\ busDevice.power = "D0"
  /\ pc' = IF ok THEN "init" ELSE "failed"
  /\ adapter' = [NoAdapter EXCEPT !.exists = ok]
  /\ UNCHANGED <<tplg, todo, ep, made, subdevices, etw, hardware, asleep>>

\* StartDevice gives up or is done: whatever has been made of the adapter is kept in the
\* device extension.
Return(status) == pc' = status /\ adapter' = [adapter EXCEPT !.common = TRUE]

AdapterInit(fails) ==
  /\ pc = "init" /\ idle < MaxIdle
  /\ fails = "api" => isJack
  /\ made' = MadeBy(fails)
  /\ power' = "D0"
  /\ IF fails = None
       THEN rk3x_init /\ pc' = "power" /\ UNCHANGED adapter
       ELSE Return("failed") /\ UNCHANGED <<idle, busDevice>>
  /\ UNCHANGED <<tplg, todo, ep, subdevices, etw, asleep>>

\* PcRegisterAdapterPowerManagement; g_RenderEndpoints, and for a jack g_CaptureEndpoints
RegisterPower(ok) ==
  /\ pc = "power"
  /\ IF ok THEN /\ pc' = "topo" /\ adapter' = [adapter EXCEPT !.power = TRUE]
                /\ todo' = IF isJack THEN <<"Headphones", "MicJack">>
                           ELSE IF tplg = "hdmi" THEN <<"Hdmi">> ELSE <<"Headphones">>
           ELSE Return("failed") /\ UNCHANGED todo
  /\ UNCHANGED <<tplg, ep, made, subdevices, etw, hardware, asleep>>

-----------------------------------------------------------------------------
(* InstallEndpointFilters, for the first of todo.                          *)

E == Head(todo)

GetCachedSubdevice(x) == x \in cache

\* PcRegisterSubdevice comes last: what fails before it leaves nothing behind.
InstallSubdevice(x, ok) == registered' = IF ok THEN registered \cup {x} ELSE registered
UnregisterSubdevice(xs) == registered' = registered \ xs

CacheSubdevice(x, ok) == cache' = IF ok THEN cache \cup {x} ELSE cache
RemoveCachedSubdevice(xs) == cache' = cache \ xs
EmptySubdeviceCache == cache' = {}

\* Takes a subdevice from the cache, or makes it and caches it.  The locals hold a
\* reference on what they have, the cache another.  Only the last of these calls counts
\* for the status: what CacheSubdevice says of the topology is lost.
Install(kind, outcome) ==
  LET x == <<E, kind>>
      cached == GetCachedSubdevice(x)
      new == ~cached /\ outcome # "refused"
      kept == new /\ outcome = "ok"
  IN /\ InstallSubdevice(x, new) /\ CacheSubdevice(x, kept)
     /\ references' = [references EXCEPT ![x] = @ + (IF cached \/ new THEN 1 ELSE 0)
                                                 + (IF kept THEN 1 ELSE 0)]
     /\ ep' = [has |-> ep.has \cup (IF cached \/ new THEN {kind} ELSE {}),
               made |-> ep.made \cup (IF cached THEN {} ELSE {kind}),
               ok |-> cached \/ kept]

InstallTopology(outcome) ==
  /\ pc = "topo"
  /\ Install("topo", outcome) /\ pc' = "wave"
  /\ UNCHANGED <<tplg, todo, adapter, made, connected, etw, hardware, asleep>>

InstallWave(outcome) ==
  /\ pc = "wave"
  /\ Install("wave", outcome) /\ pc' = "connect"
  /\ UNCHANGED <<tplg, todo, adapter, made, connected, etw, hardware, asleep>>

DisconnectTopologies == connected' = connected \ {E}

\* Each endpoint has one connection.
ConnectTopologies(ok) ==
  /\ pc = "connect"
  /\ IF ep.has = {"topo", "wave"}
       THEN /\ ep' = [ep EXCEPT !.ok = ok]
            /\ IF ok THEN connected' = connected \cup {E} ELSE DisconnectTopologies
       ELSE UNCHANGED <<ep, connected>>
  /\ pc' = "release"
  /\ UNCHANGED <<tplg, todo, adapter, made, cache, references, registered, etw, hardware, asleep>>

\* Mutant: what a failure unregisters stays in the cache.
ReleaseKeepsCached ==
  /\ pc = "release"
  /\ LET gone == IF ep.ok THEN {} ELSE {<<E, k>> : k \in ep.has \cap ep.made}
     IN /\ UnregisterSubdevice(gone)
        /\ references' = [x \in Subdevices |-> references[x] - (IF x[1] = E /\ x[2] \in ep.has THEN 1 ELSE 0)]
  /\ pc' = "outputs"
  /\ UNCHANGED <<tplg, todo, ep, adapter, made, cache, connected, etw, hardware, asleep>>

\* The end of InstallEndpointFilters: after a failure, UnregisterSubdevice and
\* RemoveCachedSubdevice of what it has made; then the locals are released.
Release ==
  /\ pc = "release"
  /\ LET gone == IF ep.ok THEN {} ELSE {<<E, k>> : k \in ep.has \cap ep.made}
     IN /\ UnregisterSubdevice(gone) /\ RemoveCachedSubdevice(gone)
        /\ references' = [x \in Subdevices |-> references[x]
                      - (IF x[1] = E /\ x[2] \in ep.has THEN 1 ELSE 0)
                      - (IF x \in cache \cap gone THEN 1 ELSE 0)]
  /\ pc' = "outputs"
  /\ UNCHANGED <<tplg, todo, ep, adapter, made, connected, etw, hardware, asleep>>

\* The reference on the last helper is released.
SetEtwHelper(x) == etw' = x

\* InstallEndpointRenderFilters takes the ETW helper of the wave port, and returns the
\* status of the last interface it asks the port for; InstallEndpointCaptureFilters only
\* installs.  Then the next endpoint, unless one has failed.
NextEndpoint(helper, resources) ==
  /\ pc = "outputs"
  /\ LET asked == E # "MicJack" /\ ep.ok
         ok == ep.ok /\ (asked => resources)
     IN /\ IF asked /\ helper THEN SetEtwHelper(<<E, "wave">>) ELSE UNCHANGED etw
        /\ todo' = IF ok THEN Tail(todo) ELSE <<>>
        /\ IF ok /\ Len(todo) > 1 THEN pc' = "topo" /\ UNCHANGED adapter
                                 ELSE Return(IF ok THEN "started" ELSE "failed")
  /\ ep' = NoEndpoint
  /\ UNCHANGED <<tplg, made, subdevices, hardware, asleep>>

-----------------------------------------------------------------------------
(* Power.                                                                  *)

\* Mutant: the registers are written again only after D3.
PowerChangeStateD3(s) ==
  /\ adapter.power /\ pc \in {"started", "failed", "stopping"} /\ s # power
  /\ s = "D0" => ~asleep /\ idle < MaxIdle
  /\ power' = s
  /\ CASE s = "D0" -> IF power = "D3" THEN rk3x_init ELSE UNCHANGED <<idle, busDevice>>
       [] s = "D3" -> rk3x_deinit
       [] OTHER -> UNCHANGED <<idle, busDevice>>
  /\ UNCHANGED <<tplg, startup, adapter, made, subdevices, etw, asleep>>

\* PowerChangeState.  (No miniport has an interface for it.)  D1 and D2, which the bus
\* promises for sleep (Bus_CreatePdo), do nothing, but D0 after them is initialised again.
PowerChangeState(s) ==
  /\ adapter.power /\ pc \in {"started", "failed", "stopping"} /\ s # power
  /\ s = "D0" => ~asleep /\ idle < MaxIdle
  /\ power' = s
  /\ CASE s = "D0" -> rk3x_init
       [] s = "D3" -> rk3x_deinit
       [] OTHER -> UNCHANGED <<idle, busDevice>>
  /\ UNCHANGED <<tplg, startup, adapter, made, subdevices, etw, asleep>>

\* Registers are lost in D3.
Lost == [power |-> "D3", programmed |-> FALSE]

\* The bus device idles a second after the last StopIdle was taken back
\* (WDF_DEVICE_POWER_POLICY_IDLE_SETTINGS).
BusIdles ==
  /\ idle = 0 /\ busDevice.power = "D0" /\ pc # "init"
  /\ busDevice' = Lost
  /\ UNCHANGED <<tplg, startup, adapter, made, subdevices, etw, power, idle, asleep>>

\* The framework takes the bus device to D0 for the start of a child.
BusStarts ==
  /\ pc = "stopped" /\ busDevice.power = "D3" /\ ~asleep
  /\ busDevice' = [busDevice EXCEPT !.power = "D0"]
  /\ UNCHANGED <<tplg, startup, adapter, made, subdevices, etw, power, idle, asleep>>

\* The system goes to sleep: first the adapter, then the bus device, and up again the
\* other way round.
SystemSleeps ==
  /\ ~asleep /\ pc \in {"stopped", "started", "failed"}
  /\ adapter.power => power # "D0"
  /\ asleep' = TRUE /\ busDevice' = Lost
  /\ UNCHANGED <<tplg, startup, adapter, made, subdevices, etw, power, idle>>

SystemWakes ==
  /\ asleep
  /\ asleep' = FALSE /\ busDevice' = [busDevice EXCEPT !.power = "D0"]
  /\ UNCHANGED <<tplg, startup, adapter, made, subdevices, etw, power, idle>>

-----------------------------------------------------------------------------
(* The adapter goes.                                                       *)

\* PnpHandler: Cleanup empties the cache, and m_pCommon is released.
PnpHandler ==
  /\ pc \in {"started", "failed"} /\ ~asleep
  /\ pc' = "stopping"
  /\ IF adapter.common
       THEN /\ references' = [x \in Subdevices |-> IF x \in cache THEN references[x] - 1 ELSE references[x]]
            /\ EmptySubdeviceCache /\ adapter' = [adapter EXCEPT !.common = FALSE]
       ELSE UNCHANGED <<references, cache, adapter>>
  /\ UNCHANGED <<tplg, todo, ep, made, registered, connected, etw, hardware, asleep>>

\* PcDispatchIrp: PortCls lets go of the adapter and of everything it knows.
PortClsLetsGo ==
  /\ pc = "stopping" /\ (adapter.power \/ registered # {})
  /\ registered' = {} /\ connected' = {}
  /\ adapter' = [adapter EXCEPT !.power = FALSE]
  /\ UNCHANGED <<tplg, startup, made, cache, references, etw, hardware, asleep>>

CSAudioAPIDeinit == {"api"}

\* ~CCsAudioRk3xHW
HwReleases == {"hw", "interrupt"} \cup CSAudioAPIDeinit

\* Mutant: m_pHW does not take its callbacks back.
DestroyLeavesHw ==
  /\ pc = "stopping" /\ ~adapter.power /\ registered = {}
  /\ pc' = "stopped"
  /\ adapter' = NoAdapter /\ etw' = None
  /\ made' = made \ {"hw", "wdf"}
  /\ IF "hw" \in made THEN rk3x_deinit ELSE UNCHANGED <<idle, busDevice>>
  /\ UNCHANGED <<tplg, todo, ep, subdevices, power, asleep>>

\* ~CAdapterCommon, once nobody holds the adapter
Destroy ==
  /\ pc = "stopping" /\ ~adapter.power /\ registered = {}
  /\ pc' = "stopped"
  /\ adapter' = NoAdapter /\ etw' = None
  /\ made' = made \ ({"wdf"} \cup (IF "hw" \in made THEN HwReleases ELSE {}))
  /\ IF "hw" \in made THEN rk3x_deinit ELSE UNCHANGED <<idle, busDevice>>
  /\ UNCHANGED <<tplg, todo, ep, subdevices, power, asleep>>

AdapterNext ==
  \/ \E ok \in BOOLEAN : NewAdapterCommon(ok) \/ RegisterPower(ok) \/ ConnectTopologies(ok)
  \/ \E i \in DOMAIN InitSteps : AdapterInit(InitSteps[i])
  \/ \E o \in {"ok", "uncached", "refused"} : InstallTopology(o) \/ InstallWave(o)
  \/ Release
  \/ \E h, r \in BOOLEAN : NextEndpoint(h, r)
  \/ \E s \in DeviceStates : PowerChangeState(s)
  \/ BusIdles \/ BusStarts \/ SystemSleeps \/ SystemWakes
  \/ PnpHandler \/ PortClsLetsGo \/ Destroy

AdapterSpec == AdapterAtRest /\ [][AdapterNext]_adapterVars

-----------------------------------------------------------------------------
(* Properties.                                                             *)

\* InstallEndpointFilters, on any of its ways out, leaves of an endpoint that failed
\* nothing registered, cached or connected, of one that did not at least its wave filter;
\* and the adapter's references are exactly those of the cache, down to none after
\* Cleanup.
EndpointsAllOrNothing ==
  /\ pc = "outputs" =>
       IF ep.ok THEN <<E, "wave">> \in registered
                ELSE (\A k \in {"topo", "wave"} : <<E, k>> \notin registered \cup cache) /\ E \notin connected
  /\ \A x \in Subdevices :
       references[x] = (IF x \in cache THEN 1 ELSE 0)
                   + (IF pc \in {"connect", "release", "wave"} /\ x[1] = E /\ x[2] \in ep.has THEN 1 ELSE 0)
  /\ pc \in {"stopping", "stopped"} => cache = {}
  /\ pc # "stopping" => cache \subseteq registered

\* While PortCls has the adapter in D0 the controller is awake, stays awake, and holds
\* what rk3x_init wrote, whatever states it has been through.
ReadyInD0 ==
  adapter.power /\ power = "D0" => busDevice.power = "D0" /\ busDevice.programmed /\ idle > 0

\* Wherever Init breaks off: as long as PortCls may call PowerChangeState there is an
\* m_pHW for it, no callback that m_pHW has registered outlives it, and nothing of the
\* adapter outlives the adapter.
NothingOutlivesAdapter ==
  /\ adapter.power => "hw" \in made
  /\ {"interrupt", "api"} \cap made # {} => "hw" \in made
  /\ ~adapter.exists => made = {} /\ etw = None

\* Both: what Init, StartDevice and InstallEndpointFilters began is there whole or gone.
AllOrNothing == EndpointsAllOrNothing /\ NothingOutlivesAdapter

=============================================================================

---------------------------- MODULE EqosCounters ----------------------------
(***************************************************************************)
(* The performance counters of the dwc_eqos driver (drivers/net/dwc_eqos/  *)
(* device.cpp, driver.cpp): two counter sets whose callbacks go through    *)
(* the list g_devices while devices come and go and the driver is loaded   *)
(* and unloaded.  g_devicesLock guards the list, not the pointer to it.    *)
(***************************************************************************)
EXTENDS Naturals, Sequences, SequencesExt

CONSTANTS Devices, Sets    \* devices, and counter sets

CountersAssumption == "free" \notin Sets /\ "none" \notin Devices

VARIABLES
  driver,          \* "unloaded", "loaded" or "unloading"
  registered,      \* counter sets the system calls back for
  made,            \* whether g_devicesLock and g_devices are not null
  lock,            \* who holds g_devicesLock, or "free"
  g_devices,       \* the list
  device,          \* life of each device: "none", "created", "listed", "ready" or "cleanup"
  callback,        \* what each counter set's callback does: "idle", "wait" or "loop"
  index, count,    \* i and count in PerfCallback
  visited          \* device whose context the callback holds, or "none"

deviceVars   == <<g_devices, device>>
callbackVars == <<callback, index, count, visited>>
vars == <<driver, registered, made, lock, deviceVars, callbackVars>>

Init ==
  /\ driver = "unloaded" /\ registered = {} /\ made = [lock |-> FALSE, list |-> FALSE]
  /\ lock = "free" /\ g_devices = <<>> /\ device = [d \in Devices |-> "none"]
  /\ callback = [s \in Sets |-> "idle"] /\ index = [s \in Sets |-> 0]
  /\ count = [s \in Sets |-> 0] /\ visited = [s \in Sets |-> "none"]

\* DriverEntry and DevicePerfRegister: the lock, the list and either counter set may
\* fail, and the driver goes on without.
DevicePerfRegister ==
  /\ driver = "unloaded" /\ driver' = "loaded"
  /\ \/ made' = [lock |-> FALSE, list |-> FALSE] /\ registered' = {}
     \/ made' = [lock |-> TRUE, list |-> FALSE] /\ registered' = {}
     \/ made' = [lock |-> TRUE, list |-> TRUE] /\ registered' \in SUBSET Sets
  /\ UNCHANGED <<lock, deviceVars, callbackVars>>

\* DeviceAdd creates the device, then lists it under the lock.
DeviceAdd(d) ==
  /\ driver = "loaded" /\ device[d] = "none"
  /\ device' = [device EXCEPT ![d] = "created"]
  /\ UNCHANGED <<driver, registered, made, lock, g_devices, callbackVars>>

\* Best effort: it may not get into the list.
DeviceAddToList(d) ==
  /\ device[d] = "created" /\ (made.list => lock = "free")
  /\ device' = [device EXCEPT ![d] = "listed"]
  /\ g_devices' \in IF made.list THEN {g_devices, Append(g_devices, d)} ELSE {g_devices}
  /\ UNCHANGED <<driver, registered, made, lock, callbackVars>>

\* The rest of DeviceAdd.  If it fails the framework deletes the device, as it does
\* when the device goes away.
DeviceAddRest(d) ==
  /\ device[d] = "listed"
  /\ device' = [device EXCEPT ![d] = "ready"]
  /\ UNCHANGED <<driver, registered, made, lock, g_devices, callbackVars>>

DeviceDelete(d) ==
  /\ device[d] \in {"listed", "ready"}
  /\ device' = [device EXCEPT ![d] = "cleanup"]
  /\ UNCHANGED <<driver, registered, made, lock, g_devices, callbackVars>>

\* Mutant: the device is taken from the list without the lock.
DeviceCleanupUnlocked(d) ==
  /\ device[d] = "cleanup"
  /\ g_devices' = IF made.list THEN RemoveFirst(g_devices, d) ELSE g_devices
  /\ device' = [device EXCEPT ![d] = "none"]
  /\ UNCHANGED <<driver, registered, made, lock, callbackVars>>

\* DeviceCleanup; then the device and its context are gone.
DeviceCleanup(d) ==
  /\ device[d] = "cleanup" /\ (made.list => lock = "free")
  /\ g_devices' = IF made.list THEN RemoveFirst(g_devices, d) ELSE g_devices
  /\ device' = [device EXCEPT ![d] = "none"]
  /\ UNCHANGED <<driver, registered, made, lock, callbackVars>>

-----------------------------------------------------------------------------
(* PerfCallback, to enumerate the devices or to collect their counters.    *)

\* Looks at g_devices, without the lock.
PerfCallbackStart(s) ==
  /\ s \in registered /\ callback[s] = "idle" /\ made.list
  /\ callback' = [callback EXCEPT ![s] = "wait"]
  /\ UNCHANGED <<driver, registered, made, lock, deviceVars, index, count, visited>>

\* Takes the lock and the number of devices.
PerfCallbackLock(s) ==
  /\ callback[s] = "wait" /\ lock = "free" /\ lock' = s
  /\ callback' = [callback EXCEPT ![s] = "loop"]
  /\ index' = [index EXCEPT ![s] = 0] /\ count' = [count EXCEPT ![s] = Len(g_devices)]
  /\ UNCHANGED <<driver, registered, made, deviceVars, visited>>

\* The next device of the list, its counters and its instance name.
PerfDataInit(s) ==
  /\ callback[s] = "loop" /\ index[s] # count[s]
  /\ index' = [index EXCEPT ![s] = @ + 1]
  /\ visited' = [visited EXCEPT ![s] = IF index'[s] <= Len(g_devices) THEN g_devices[index'[s]] ELSE "null"]
  /\ UNCHANGED <<driver, registered, made, lock, deviceVars, callback, count>>

PerfCallbackEnd(s) ==
  /\ callback[s] = "loop" /\ index[s] = count[s]
  /\ lock' = "free"
  /\ callback' = [callback EXCEPT ![s] = "idle"] /\ visited' = [visited EXCEPT ![s] = "none"]
  /\ UNCHANGED <<driver, registered, made, deviceVars, index, count>>

-----------------------------------------------------------------------------
\* The driver is unloaded when its devices are gone.
DriverUnload ==
  /\ driver = "loaded" /\ \A d \in Devices : device[d] = "none"
  /\ driver' = "unloading"
  /\ UNCHANGED <<registered, made, lock, deviceVars, callbackVars>>

\* DevicePerfUnregister: unregistering a counter set waits for its callback.
UnregisterSet(s) ==
  /\ driver = "unloading" /\ s \in registered /\ callback[s] = "idle"
  /\ registered' = registered \ {s}
  /\ UNCHANGED <<driver, made, lock, deviceVars, callbackVars>>

\* Then the list and its lock are deleted.
DevicePerfUnregister ==
  /\ driver = "unloading" /\ registered = {} /\ driver' = "unloaded"
  /\ made' = [lock |-> FALSE, list |-> FALSE] /\ g_devices' = <<>>
  /\ UNCHANGED <<registered, lock, device, callbackVars>>

Next ==
  \/ DevicePerfRegister \/ DriverUnload \/ DevicePerfUnregister
  \/ \E d \in Devices : DeviceAdd(d) \/ DeviceAddToList(d) \/ DeviceAddRest(d)
                        \/ DeviceDelete(d) \/ DeviceCleanup(d)
  \/ \E s \in Sets : PerfCallbackStart(s) \/ PerfCallbackLock(s) \/ PerfDataInit(s)
                     \/ PerfCallbackEnd(s) \/ UnregisterSet(s)

-----------------------------------------------------------------------------
\* A callback that holds a device holds one whose context exists, and the list and the
\* lock are there for as long as a callback uses them (device.cpp:1505-1510, 1728-1762,
\* 1825-1838): devices and the driver go away while counters are collected.
CallbackFindsDevices ==
  \A s \in Sets :
    /\ visited[s] # "none" => visited[s] \in Devices /\ device[visited[s]] # "none"
    /\ callback[s] # "idle" => made.lock /\ made.list
=============================================================================

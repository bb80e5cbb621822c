---------------------------- MODULE EqosAdapter ----------------------------
(***************************************************************************)
(* The setup of the dwc_eqos Ethernet adapter (drivers/net/dwc_eqos/       *)
(* device.cpp): its MAC addresses and receive filter, and the settings     *)
(* derived from the adapter's configuration and the device's features,     *)
(* from DevicePrepareHardware through power changes to                     *)
(* DeviceReleaseHardware and again.  The power callbacks and               *)
(* AdapterSetReceiveFilter do not overlap.  Any step of                    *)
(* DevicePrepareHardware may fail; the framework then releases.            *)
(***************************************************************************)
EXTENDS Naturals, Sequences

CONSTANTS
  MacAddrCount,   \* address registers of the device
  Groups,         \* multicast addresses
  Filters,        \* receive filters NetAdapterCx may ask for: flags and a list of groups
  Jumbos,         \* values of *JumboPacket, 0 if there is none
  FifoSizes,      \* values of RxFifoSize: the FIFO has 2^(7 + value) bytes
  Resets          \* outcomes of a reset, a subset of {"done", "timeout"}

\* The firmware may leave no address, or one for a group.  "group0" is what remains
\* of "group" without its group bit.
FirmwareAddresses == {"own", "zero", "ones", "group"}
Addresses == FirmwareAddresses \cup {"group0", "config", "random"}

\* Register 0 is always there.  MaximumMulticastAddresses leaves it out, and NetAdapterCx
\* asks for no more groups than that.
AdapterAssumption ==
  /\ MacAddrCount \in Nat \ {0} /\ Jumbos \subseteq Nat /\ Resets \subseteq {"done", "timeout"}
  /\ Groups \cap (Addresses \cup {"broadcast", "adapter", "other"}) = {}
  /\ \A f \in Filters : /\ f.list \in Seq(Groups)
                        /\ "Multicast" \in f.flags => Len(f.list) < MacAddrCount

JumboPacketMin == 1514
JumboPacketMax == 9014

VARIABLES
  step,              \* where the power callbacks are
  regs, interrupt,   \* whether these pointers of DeviceContext are not null
  config,            \* context->config, with what it is made from
  permanent, current,  \* permanentMacAddress and currentMacAddress
  hasAddress,        \* configHasMacAddress
  firmware,          \* the address the device had when the system started
  mac,               \* the Mac_Address registers
  filter,            \* Mac_Packet_Filter
  mode,              \* registers written by DeviceD0Entry
  told,              \* what NetAdapterCx was told of the adapter
  asked,             \* the receive filter that NetAdapterCx asked for
  learned, spoiled   \* history: the address was read; it was overwritten before, or a reset failed

pnpVars     == <<step, regs, interrupt>>
addressVars == <<permanent, current, hasAddress, firmware>>
hwVars      == <<mac, filter, mode>>
historyVars == <<learned, spoiled>>
vars == <<pnpVars, config, addressVars, hwVars, told, asked, historyVars>>

Slots == 0..(MacAddrCount - 1)

-----------------------------------------------------------------------------
(* Addresses and registers.                                                *)

\* A software reset clears the address registers and the filter.
AfterReset(m) == [s \in Slots |-> IF s = 0 THEN [addr |-> m, on |-> TRUE]
                                  ELSE [addr |-> "ones", on |-> FALSE]]
NoFilter == [promiscuous |-> FALSE, allMulticast |-> FALSE, noBroadcast |-> FALSE]
NoMode   == [set |-> FALSE]

\* DeviceReset: polls until the device leaves the reset, then restores address 0.  A
\* device that does not leave it is reported by STATUS_TIMEOUT, which is no failure.
DeviceReset(mac0) ==
  \E outcome \in Resets :
    /\ mac' = AfterReset(IF outcome = "done" THEN mac0 ELSE "ones")
    /\ filter' = NoFilter /\ mode' = NoMode
    /\ spoiled' = (spoiled \/ outcome = "timeout" \/ (step = "failed" /\ regs /\ ~learned))

-----------------------------------------------------------------------------
Init ==
  /\ step = "added" /\ regs = FALSE /\ interrupt = FALSE
  /\ config = [jumbo |-> JumboPacketMin, rxFlow |-> TRUE, fifo |-> 0]
  /\ permanent = "zero" /\ current = "zero" /\ hasAddress = FALSE
  /\ firmware \in FirmwareAddresses
  /\ mac = AfterReset(firmware) /\ filter = NoFilter /\ mode = NoMode
  /\ told = [current |-> "zero", permanent |-> "zero", mtu |-> 0, rxBuffer |-> 0]
  /\ asked = [flags |-> {}, list |-> <<>>]
  /\ learned = FALSE /\ spoiled = FALSE

\* A step of DevicePrepareHardware ends in the next one, or fails.
Advance(from, to) == step = from /\ step' \in {to, "failed"}

\* Opens the configuration: an address of its own, jumbo packets and flow control.
PrepareConfiguration ==
  /\ Advance("added", "resources")
  /\ hasAddress' \in BOOLEAN
  /\ current' = IF hasAddress' THEN "config" ELSE current
  /\ \E jumbo \in Jumbos, rxFlow \in BOOLEAN :
       config' = [config EXCEPT !.jumbo = IF jumbo = 0 THEN JumboPacketMin ELSE jumbo, !.rxFlow = rxFlow]
  /\ UNCHANGED <<regs, interrupt, permanent, firmware, hwVars, told, asked, historyVars>>

\* Maps the registers and creates the interrupt; without either it fails.
PrepareResources ==
  /\ Advance("resources", "address")
  /\ regs' \in BOOLEAN /\ interrupt' \in {interrupt, TRUE}
  /\ step' = "address" => regs' /\ interrupt'
  /\ UNCHANGED <<config, addressVars, hwVars, told, asked, historyVars>>

\* Mutant: an address in the configuration is taken for that of the device.
PrepareAddressFromConfig ==
  /\ step = "address" /\ step' = "features"
  /\ permanent' = IF hasAddress THEN current ELSE mac[0].addr
  /\ current' = IF hasAddress THEN current
                ELSE CASE mac[0].addr \in {"ones", "zero"} -> "random"
                       [] mac[0].addr = "group" -> "group0"
                       [] OTHER -> mac[0].addr
  /\ learned' = TRUE
  /\ UNCHANGED <<regs, interrupt, config, hasAddress, firmware, hwVars, told, asked, spoiled>>

\* Reads the address of the device; in the absence of another one it is used, or made
\* up if there is none, or its group bit is cleared.
PrepareAddress ==
  /\ step = "address" /\ step' = "features"
  /\ permanent' = mac[0].addr
  /\ current' = IF hasAddress THEN current
                ELSE CASE mac[0].addr \in {"ones", "zero"} -> "random"
                       [] mac[0].addr = "group" -> "group0"
                       [] OTHER -> mac[0].addr
  /\ learned' = TRUE
  /\ UNCHANGED <<regs, interrupt, config, hasAddress, firmware, hwVars, told, asked, spoiled>>

\* The features of the device; it fails if one it needs is missing.
PrepareFeatures ==
  /\ Advance("features", "settings")
  /\ \E f \in FifoSizes : config' = [config EXCEPT !.fifo = f]
  /\ UNCHANGED <<regs, interrupt, addressVars, hwVars, told, asked, historyVars>>

\* Settings from the configuration, within their limits.
PrepareSettings ==
  /\ step = "settings" /\ step' = "dma"
  /\ config' = [config EXCEPT !.jumbo = IF @ < JumboPacketMin THEN JumboPacketMin
                                        ELSE IF @ > JumboPacketMax THEN JumboPacketMax ELSE @]
  /\ UNCHANGED <<regs, interrupt, addressVars, hwVars, told, asked, historyVars>>

\* The DMA enabler: fails for an unknown address width, or if it cannot be created.
PrepareDma ==
  /\ Advance("dma", "offer")
  /\ UNCHANGED <<regs, interrupt, config, addressVars, hwVars, told, asked, historyVars>>

\* DeviceConfig::RxBufferSize: VLAN tag and checksum included, a multiple of 8.
RxBufferSize(jumbo) == ((jumbo + 8 + 7) \div 8) * 8

\* Tells NetAdapterCx the addresses and capabilities of the adapter.
PrepareOffer ==
  /\ step = "offer" /\ step' = "reset"
  /\ told' = [current |-> current, permanent |-> permanent,
              mtu |-> config.jumbo - 14, rxBuffer |-> RxBufferSize(config.jumbo)]
  /\ UNCHANGED <<regs, interrupt, config, addressVars, hwVars, asked, historyVars>>

PrepareReset ==
  /\ step = "reset" /\ step' = "start"
  /\ DeviceReset(current)
  /\ UNCHANGED <<regs, interrupt, config, addressVars, told, asked, learned>>

\* NetAdapterStart.
PrepareStart ==
  /\ Advance("start", "prepared")
  /\ UNCHANGED <<regs, interrupt, config, addressVars, hwVars, told, asked, historyVars>>

\* DeviceReleaseHardware, also after a failure: resets the device with the address it
\* was found with.  The adapter is stopped, and with it what it was asked for.
DeviceReleaseHardware ==
  /\ step \in {"prepared", "failed"}
  /\ step' = "added" /\ regs' = FALSE
  /\ IF regs THEN DeviceReset(permanent) ELSE UNCHANGED <<hwVars, spoiled>>
  /\ asked' = [flags |-> {}, list |-> <<>>]
  /\ UNCHANGED <<interrupt, config, addressVars, told, learned>>

-----------------------------------------------------------------------------
(* DeviceD0Entry.  Fields have a width: thresholds have 6 bits.            *)

\* Mutant: the watchdog timeout is rounded down.
WatchdogTimeoutDown(jumbo) == (jumbo + 8) \div 1024 - 2

\* The bytes a received packet may have are 2048 + 1024 * WatchdogTimeout.
WatchdogTimeout(jumbo) == (jumbo + 8 + 1023) \div 1024 - 2

\* The receive queue has all of the FIFO, but at most 1 MB.
RxQueueSize(fifo) == IF fifo >= 13 THEN 1048576 ELSE 128 * 2^fifo

\* How much of the queue is free when the sender is paused, and when no longer.
FlowControlActivate(size)   == IF size < 65536 THEN size \div 2 ELSE 32768
FlowControlDeactivate(size) == FlowControlActivate(size) + FlowControlActivate(size) \div 2

\* A threshold as it is written: in units of 512 bytes, less two, in 6 bits.
Threshold(bytes) == ((bytes \div 512) + 64 - 2) % 64

DeviceD0Entry ==
  /\ step = "prepared" /\ step' = "working"
  /\ LET size == RxQueueSize(config.fifo)
     IN mode' = [set |-> TRUE,
                 giant |-> config.jumbo > JumboPacketMin, giantLimit |-> config.jumbo + 4,
                 jabber |-> config.jumbo <= 2000, watchdog |-> config.jumbo > 2000,
                 watchdogTimeout |-> WatchdogTimeout(config.jumbo),
                 flowControl |-> config.rxFlow /\ size >= 2048,
                 activate |-> Threshold(FlowControlActivate(size)),
                 deactivate |-> Threshold(FlowControlDeactivate(size))]
  /\ UNCHANGED <<regs, interrupt, config, addressVars, mac, filter, told, asked, historyVars>>

\* DeviceD0Exit leaves these registers alone.
DeviceD0Exit ==
  /\ step = "working" /\ step' = "prepared"
  /\ UNCHANGED <<regs, interrupt, config, addressVars, hwVars, told, asked, historyVars>>

-----------------------------------------------------------------------------
(* AdapterSetReceiveFilter.                                                *)

\* Mutant: the first multicast address is not given a register.
FilterSlotsSkipFirst(f) ==
  LET list == IF "Multicast" \in f.flags THEN f.list ELSE <<>>
  IN  [s \in Slots |-> IF s = 0 THEN [addr |-> current, on |-> TRUE]
                       ELSE IF s < Len(list) THEN [addr |-> list[s + 1], on |-> TRUE]
                       ELSE [addr |-> "zero", on |-> FALSE]]

\* The address registers for a filter.  Register 0 cannot be disabled.
FilterSlots(f) ==
  LET list == IF "Multicast" \in f.flags THEN f.list ELSE <<>>
  IN  [s \in Slots |-> IF s = 0 THEN [addr |-> current, on |-> TRUE]
                       ELSE IF s <= Len(list) THEN [addr |-> list[s], on |-> TRUE]
                       ELSE [addr |-> "zero", on |-> FALSE]]

AdapterSetReceiveFilter ==
  /\ step \in {"prepared", "working"}
  /\ \E f \in Filters :
       /\ asked' = f
       /\ IF "Promiscuous" \in f.flags
          THEN filter' = [NoFilter EXCEPT !.promiscuous = TRUE] /\ UNCHANGED mac
          ELSE /\ filter' = [NoFilter EXCEPT !.allMulticast = "AllMulticast" \in f.flags,
                                             !.noBroadcast = "Broadcast" \notin f.flags]
               /\ mac' = FilterSlots(f)
  /\ UNCHANGED <<pnpVars, config, addressVars, mode, told, historyVars>>

-----------------------------------------------------------------------------
Next ==
  \/ PrepareConfiguration \/ PrepareResources \/ PrepareAddress \/ PrepareFeatures
  \/ PrepareSettings \/ PrepareDma \/ PrepareOffer \/ PrepareReset \/ PrepareStart
  \/ DeviceReleaseHardware \/ DeviceD0Entry \/ DeviceD0Exit \/ AdapterSetReceiveFilter

Spec == Init /\ [][Next]_vars

-----------------------------------------------------------------------------
(* Properties.                                                             *)

\* Whatever fails, and however often hardware is prepared and released, the device is
\* left with the address the firmware gave it (device.cpp:1423), unless a prepare
\* failed with the registers mapped before the address was ever read.
AddressKept == step = "added" /\ ~spoiled => mac[0].addr = firmware

\* What a device with these registers receives, and what was asked for.  Frames are
\* told apart by their destination: broadcast, a group, the adapter, someone else.
Frames == {"broadcast", "adapter", "other"} \cup Groups

Received(frame) ==
  \/ filter.promiscuous
  \/ frame = "broadcast" /\ ~filter.noBroadcast
  \/ frame \in Groups /\ (filter.allMulticast \/ \E s \in Slots : mac[s] = [addr |-> frame, on |-> TRUE])
  \/ frame = "adapter" /\ \E s \in Slots : mac[s] = [addr |-> told.current, on |-> TRUE]

Wanted(frame) ==
  \/ "Promiscuous" \in asked.flags
  \/ frame = "broadcast" /\ "Broadcast" \in asked.flags
  \/ frame \in Groups /\ ("AllMulticast" \in asked.flags
                          \/ /\ "Multicast" \in asked.flags
                             /\ \E i \in 1..Len(asked.list) : asked.list[i] = frame)
  \/ frame = "adapter" /\ "Directed" \in asked.flags

\* From any sequence of filters, resets, prepares and releases there follows that the
\* adapter receives every frame that was asked for, under the address NetAdapterCx
\* knows, and once a filter was set nothing else but its own frames.
ReceivesAsAsked ==
  step = "working" /\ ~spoiled =>
    /\ \A f \in Frames : Wanted(f) => Received(f)
    /\ asked.flags # {} => \A f \in Frames : Received(f) => Wanted(f) \/ f = "adapter"

\* The limits that are derived from *JumboPacket in seven places agree: the largest
\* frame NetAdapterCx may use, with VLAN tag and checksum, passes the giant packet
\* limit, a field of 14 bits, the watchdog and the jabber timer, and no frame outgrows a
\* receive buffer (device.cpp:661-688, 1273-1286; device.h:25).
LargestFramePasses ==
  step = "working" =>
    LET frame == told.mtu + 14
    IN  /\ frame + 4 <= (IF mode.giant THEN mode.giantLimit ELSE 1518)
        /\ frame + 8 <= (IF mode.watchdog THEN 2048 + 1024 * mode.watchdogTimeout ELSE 2048)
        /\ mode.jabber => frame + 8 <= 2048
        /\ mode.giantLimit + 4 <= told.rxBuffer /\ told.rxBuffer % 8 = 0
        /\ mode.giantLimit < 16384 /\ (mode.watchdog => mode.watchdogTimeout \in 0..14)

\* "Unpause when 3/4 or 48KB remains" (device.cpp:638), for what the register holds.
UnpausedWhenMoreRemains ==
  step = "working" /\ mode.flowControl => mode.deactivate > mode.activate
=============================================================================

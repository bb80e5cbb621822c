------------------------------ MODULE Es8323 -------------------------------
(***************************************************************************)
(* The ES8323 codec driver (drivers/audio/codecs/es8323: es8323.c, spb.c). *)
(*                                                                         *)
(* The power policy brings the codec up with BOOTCODEC and down with       *)
(* OnD0Exit, one register after the other over I2C, each of which may      *)
(* fail.  BOOTCODEC stops at the first failure, which OnD0Entry does not   *)
(* report; OnD0Exit goes on.  Around that SpbTargetInitialize and          *)
(* SpbTargetDeinitialize make and delete what the transfers use.           *)
(***************************************************************************)
EXTENDS Integers, Sequences, FiniteSets

CONSTANTS
  Garbage,    \* what a register may hold before anything is written to it (its bits that are 1)
  MaxFailures \* bound: transfers that fail in one power-down

VARIABLES
  power,    \* "released", "prepared", "unprepared", "boot", "D0" or "exit"
  todo,     \* the transfers that are left of BOOTCODEC or OnD0Exit
  saved,    \* what BOOTCODEC has read
  failed,   \* how many transfers of this boot, or this power-down, have failed
  codec,    \* its registers
  pointers, \* the objects SPB_CONTEXT points to
  live,     \* those that have not been deleted
  prepareFailed, \* some OnPrepareHardware has failed
  deletedTwice,
  booted    \* registers after the first complete boot, or NotBooted

vars == <<power, todo, saved, failed, codec, pointers, live, prepareFailed, deletedTwice, booted>>

\* A register is the set of its bits that are 1.
Registers == 0 .. \h35
Bits(val) == {i \in 0 .. 7 : (val \div 2^i) % 2 = 1}
NotBooted == [r \in Registers |-> {}]

-----------------------------------------------------------------------------
(* The transfers.                                                          *)

Write(reg, val)     == [op |-> "write", reg |-> reg, val |-> Bits(val)]
Read(reg, mask)     == [op |-> "read", reg |-> reg, val |-> Bits(mask)]
WriteBack(reg, bit) == [op |-> "back", reg |-> reg, val |-> Bits(bit)]
Writes(pairs) == [i \in DOMAIN pairs |-> Write(pairs[i][1], pairs[i][2])]

\* Reset, and references, state machines and clocks on.
PowerUp == Writes(<< <<\h00, \h80>>, <<\h00, \h00>>, <<\h01, \h60>>, <<\h02, \hF3>>, <<\h02, \hF0>>,
                     <<\h2B, \h80>>, <<\h00, \h36>> >>)

\* Interfaces, ADC and DAC.
Converters == Writes(<<
  <<\h08, \h00>>, <<\h04, \h00>>, <<\h06, \hC3>>, <<\h19, \h02>>, <<\h09, \h00>>,
  <<\h0A, \h00>>, <<\h0B, \h02>>, <<\h0C, \h4C>>, <<\h0D, \h02>>, <<\h10, \h00>>, <<\h11, \h00>>,
  <<\h12, \hEA>>, <<\h13, \hC0>>, <<\h14, \h05>>, <<\h15, \h06>>, <<\h16, \h53>>, <<\h17, \h18>>,
  <<\h18, \h02>>, <<\h1A, \h00>>, <<\h1B, \h00>>, <<\h27, \hB8>>, <<\h2A, \hB8>>, <<\h35, \hA0>> >>)

\* Volumes, power on.
PowerOn == Writes(<<
  <<\h2E, \h1E>>, <<\h2F, \h1E>>, <<\h30, \h1E>>, <<\h31, \h1E>>, <<\h03, \h09>>, <<\h02, \h00>>,
  <<\h04, \h3C>>, <<\h07, \h7C>>, <<\h05, \h00>>, <<\h06, \h00>>, <<\h02, \h00>>, <<\h03, \h59>> >>)

\* Codec is slave, 16 bits, 44.1 kHz: three registers are read first and written back.
Format ==
  <<Read(\h08, \h80), Read(\h0C, \hE3), Read(\h17, \hC7),
    WriteBack(\h17, \h18), WriteBack(\h0C, \h0C), WriteBack(\h08, \h00)>>
  \o Writes(<< <<\h0D, \h02>>, <<\h18, \h02>> >>)

\* Levels.
Levels == Writes(<<
  <<\h03, \h09>>, <<\h12, \hFA>>, <<\h13, \hF0>>, <<\h14, \h05>>, <<\h16, \h4B>>, <<\h1D, \h02>>,
  <<\h26, \h02>>, <<\h2E, \h21>>, <<\h2F, \h21>>, <<\h30, \h21>>, <<\h31, \h21>> >>)

ExitWrites == Writes(<<
  <<\h19, \h06>>, <<\h30, \h00>>, <<\h31, \h00>>, <<\h03, \hFF>>, <<\h04, \hC0>>, <<\h02, \hF3>>,
  <<\h00, \h00>>, <<\h01, \h58>>, <<\h2B, \h9C>> >>)

-----------------------------------------------------------------------------
Init ==
  /\ power = "released" /\ todo = <<>> /\ saved = NotBooted /\ failed = 0
  /\ codec \in {[r \in Registers |-> v] : v \in Garbage}
  /\ pointers = {} /\ live = {} /\ prepareFailed = FALSE /\ deletedTwice = FALSE
  /\ booted = NotBooted

-----------------------------------------------------------------------------
(* Preparing and releasing.                                                *)

\* SpbTargetInitialize makes them in this order.
Objects == <<"WriteMemory", "ReadMemory", "SpbLock">>

\* SpbTargetDeinitialize deletes what the context points to, and leaves the pointers.
Deinitialize(points, alive) ==
  /\ deletedTwice' = (deletedTwice \/ ~(points \subseteq alive))
  /\ live' = alive \ points

\* Mutant: memory that is still designated is kept.
NewObjectsIfNone(n) == {Objects[i] : i \in 1 .. n} \ pointers

\* The objects of the first n steps are new.
NewObjects(n) == {Objects[i] : i \in 1 .. n}

\* The framework releases a device that could not be prepared.
PrepareFails == prepareFailed' = TRUE /\ power' = "unprepared"

\* There is no I2C connection among the resources: SpbTargetInitialize is not called.
NoConnection == PrepareFails /\ UNCHANGED <<pointers, live, deletedTwice>>

\* SpbTargetInitialize may fail before it makes the first object (no target, no path, not
\* opened) or at each of them; then it cleans up itself.
InitializeFails ==
  \E n \in 0 .. Len(Objects) - 1 :
    /\ PrepareFails
    /\ pointers' = pointers \cup NewObjects(n)
    /\ Deinitialize(pointers', live \cup NewObjects(n))

Initialized ==
  /\ power' = "prepared"
  /\ pointers' = pointers \cup NewObjects(Len(Objects))
  /\ live' = live \cup NewObjects(Len(Objects))
  /\ UNCHANGED <<prepareFailed, deletedTwice>>

\* OnPrepareHardware.
PrepareHardware ==
  /\ power = "released"
  /\ NoConnection \/ InitializeFails \/ Initialized
  /\ UNCHANGED <<todo, saved, failed, codec, booted>>

ReleaseHardware ==
  /\ power \in {"prepared", "unprepared"}
  /\ power' = "released"
  /\ Deinitialize(pointers, live)
  /\ UNCHANGED <<todo, saved, failed, codec, pointers, prepareFailed, booted>>

-----------------------------------------------------------------------------
(* Power.                                                                  *)

\* BOOTCODEC begins.
D0Entry ==
  /\ power = "prepared"
  /\ power' = "boot" /\ todo' = PowerUp \o Converters \o PowerOn \o Format \o Levels
  /\ failed' = 0
  /\ UNCHANGED <<saved, codec, pointers, live, prepareFailed, deletedTwice, booted>>

D0Exit ==
  /\ power = "D0"
  /\ power' = "exit" /\ todo' = ExitWrites /\ failed' = 0
  /\ UNCHANGED <<saved, codec, pointers, live, prepareFailed, deletedTwice, booted>>

\* A register is written or read.  Whether the reset clears the registers is the codec's.
TransferDone ==
  /\ power \in {"boot", "exit"} /\ todo # <<>>
  /\ LET t == Head(todo)
         v == IF t.op = "back" THEN saved[t.reg] \cup t.val ELSE t.val
     IN IF t.op = "read"
        THEN saved' = [saved EXCEPT ![t.reg] = codec[t.reg] \cap t.val] /\ UNCHANGED codec
        ELSE /\ codec' \in {[codec EXCEPT ![t.reg] = v]}
                          \cup (IF t = Write(\h00, \h80) THEN {[NotBooted EXCEPT ![t.reg] = v]} ELSE {})
             /\ UNCHANGED saved
  /\ todo' = Tail(todo)
  /\ UNCHANGED <<power, failed, pointers, live, prepareFailed, deletedTwice, booted>>

\* The transfer fails: BOOTCODEC returns, OnD0Exit does not look.
TransferFails ==
  /\ power \in {"boot", "exit"} /\ todo # <<>> /\ failed < MaxFailures
  /\ todo' = IF power = "boot" THEN <<>> ELSE Tail(todo)
  /\ failed' = failed + 1
  /\ UNCHANGED <<power, saved, codec, pointers, live, prepareFailed, deletedTwice, booted>>

\* OnD0Entry succeeds in any case.
Booted ==
  /\ power = "boot" /\ todo = <<>>
  /\ power' = "D0"
  /\ booted' = IF booted = NotBooted /\ failed = 0 THEN codec ELSE booted
  /\ UNCHANGED <<todo, saved, failed, codec, pointers, live, prepareFailed, deletedTwice>>

Exited ==
  /\ power = "exit" /\ todo = <<>>
  /\ power' = "prepared"
  /\ UNCHANGED <<todo, saved, failed, codec, pointers, live, prepareFailed, deletedTwice, booted>>

Next ==
  \/ PrepareHardware \/ ReleaseHardware \/ D0Entry \/ D0Exit
  \/ TransferDone \/ TransferFails \/ Booted \/ Exited

Spec == Init /\ [][Next]_vars

-----------------------------------------------------------------------------
(* Properties.                                                             *)

Touched == {t.reg : t \in {ExitWrites[i] : i \in DOMAIN ExitWrites}}
             \cup {t.reg : t \in {Levels[i] : i \in DOMAIN Levels}} \cup {\h08, \h0C, \h17}

\* A boot whose transfers all succeed sets the codec up as the first one did, whatever a
\* power-down that failed in the middle or a boot that stopped halfway have left in it, and
\* whether or not the reset clears it.
BootIsReproducible ==
  power = "D0" /\ failed = 0 => \A r \in Touched : codec[r] = booted[r]

\* No transfer uses an object that is gone and no release leaves one behind, whichever
\* preparations have failed.  As long as none has, none is deleted twice.  (A failed
\* SpbTargetInitialize deletes and so does the release that follows, and after an earlier
\* release a device without its connection deletes what the pointers left there designate.)
ObjectsInTime ==
  /\ power \in {"boot", "D0", "exit"} => pointers \subseteq live
  /\ power = "released" => live = {}
  /\ ~prepareFailed => ~deletedTwice
=============================================================================

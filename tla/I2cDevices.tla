----------------------------- MODULE I2cDevices -----------------------------
(***************************************************************************)
(* The I2C controller driver, or the codec driver, which reaches its codec *)
(* by requests of one byte and two.  A request of the codec driver either  *)
(* does what it says or fails: that is what Rk3xI2c shows of a request in  *)
(* time, so that here the two share no state, and the variables of the     *)
(* part that is not there keep still.                                      *)
(***************************************************************************)
EXTENDS Rk3xI2c

CONSTANTS Garbage, MaxFailures

VARIABLES
  part,  \* "rk3xi2c" or "es8323"
  power, todo, saved, failed, codec, pointers, live, prepareFailed, deletedTwice, booted

C == INSTANCE Es8323

codecVars == <<power, todo, saved, failed, codec, pointers, live, prepareFailed, deletedTwice, booted>>
i2cVars   == <<part, vars, codecVars>>

\* The codec driver as long as nothing has begun.
CodecAtRest == C!Init /\ codec = C!NotBooted

I2cInit ==
  \/ part = "rk3xi2c" /\ Init /\ CodecAtRest
  \/ /\ part = "es8323" /\ C!Init
     /\ Init /\ \A b \in BaseClocks : baseClock <= b

I2cNext ==
  /\ UNCHANGED part
  /\ \/ part = "rk3xi2c" /\ Next /\ UNCHANGED codecVars
     \/ part = "es8323" /\ C!Next /\ UNCHANGED vars

I2cSpec == I2cInit /\ [][I2cNext]_i2cVars

-----------------------------------------------------------------------------
\* A boot whose transfers all succeed sets the codec up as the first one did, whatever a
\* power-down that failed in the middle or a boot that stopped halfway have left in it, and
\* whether or not the reset clears it.
BootIsReproducible == part = "es8323" => C!BootIsReproducible

\* No transfer of the codec driver uses an object of SPB_CONTEXT that is gone and no release
\* leaves one behind, whichever preparations have failed.  As long as none has, none is
\* deleted twice; after a failed one SpbTargetDeinitialize, which leaves its pointers, does.
ObjectsInTime == part = "es8323" => C!ObjectsInTime
=============================================================================

------------------------------ MODULE SdRequest ------------------------------
(***************************************************************************)
(* What a host controller driver promises the SD port driver (sdport)      *)
(* about a request, whichever controller it drives.                        *)
(*                                                                         *)
(* A request goes on in turns: the host works, then asks sdport for the    *)
(* next part of the data, until no part is left.  It ends once.  It ends   *)
(* well only if the bus has done all of it without an error; if it fails,  *)
(* sdport recovers the bus.  So each request finds the bus free.           *)
(***************************************************************************)
EXTENDS Integers

CONSTANT Parts   \* in how many parts sdport may hand over the data of a request

VARIABLES
  turn,   \* whose turn it is: "idle", "host", "port" or, after a failure, "failed"
  parts,  \* how many parts of the data sdport has yet to hand over
  bus     \* "free", with all done well, "used" or, after an error, "bad"

vars == <<turn, parts, bus>>

Init == turn = "idle" /\ parts = 0 /\ bus = "free"

Issue ==
  /\ turn = "idle" /\ bus = "free"
  /\ turn' = "host" /\ parts' \in Parts /\ bus' = "used"

\* The command, the data and the card go their way while there is a request.  What is
\* done about a failure uses the bus, too.
Bus ==
  /\ turn # "idle"
  /\ bus' \in {"free", "used", "bad"}
  /\ bus = "bad" /\ turn # "failed" => bus' = "bad"
  /\ UNCHANGED <<turn, parts>>

\* The host is ready for the next part.
Ask ==
  /\ turn = "host" /\ parts > 0
  /\ turn' = "port"
  /\ UNCHANGED <<parts, bus>>

\* sdport hands a part over.
HandOver ==
  /\ turn = "port"
  /\ turn' = "host" /\ parts' = parts - 1
  /\ UNCHANGED bus

\* The host may find with the last part that all is done.
Succeed ==
  /\ bus = "free"
  /\ <<turn, parts>> \in {<<"host", 0>>, <<"port", 1>>}
  /\ turn' = "idle" /\ parts' = 0
  /\ UNCHANGED bus

\* An error, a card that is gone or a timeout.
Fail ==
  /\ turn \in {"host", "port"}
  /\ turn' = "failed" /\ parts' = 0
  /\ UNCHANGED bus

Recover ==
  /\ turn = "failed"
  /\ turn' = "idle" /\ bus' = "free"
  /\ UNCHANGED parts

Next == Issue \/ Bus \/ Ask \/ HandOver \/ Succeed \/ Fail \/ Recover

Spec == Init /\ [][Next]_vars
=============================================================================

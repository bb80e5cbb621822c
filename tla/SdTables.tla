------------------------------ MODULE SdTables ------------------------------
(***************************************************************************)
(* The descriptor tables of the SD hosts: SdhcCreateAdmaDescriptorTable    *)
(* (drivers/sd/dwcsdhc/dwcsdhc.cpp) and MshcCreateIdmacDescriptorTable     *)
(* (drivers/sd/dwcmshc/dwcmshc.cpp) turn the scatter/gather list of a      *)
(* request into descriptors of limited length, over what an earlier        *)
(* request has left in the same memory.  The engine of the controller then *)
(* reads the table until a descriptor says that it is the last one.        *)
(***************************************************************************)
EXTENDS Integers, Sequences, SequencesExt

CONSTANTS
  Lists,      \* the scatter/gather lists: sequences of [addr, len]
  MaxLength,  \* the length of a descriptor: SDHC_ADMA2_MAX_ or MSHC_IDMAC_MAX_LENGTH_PER_ENTRY
  Slots       \* how many descriptors the memory has room for

\* The memory that sdport allocates has room for the descriptors of its lists: those of the
\* first i elements take at most n[i].
TableAssumption ==
  /\ MaxLength \in Nat \ {0} /\ Slots \in Nat
  /\ \A l \in Lists :
       /\ l \in Seq([addr : Int, len : Nat \ {0}]) /\ l # <<>>
       /\ \E n \in [0 .. Len(l) -> 0 .. Slots] :
            \A i \in 1 .. Len(l) : (n[i] - n[i - 1]) * MaxLength >= l[i].len

VARIABLES
  kind,                     \* "adma" or "idmac"
  step,                     \* "idle", "build" or "engine"
  list, elem,               \* the list, and SglistElement in it
  next, remaining,          \* NextAddress and RemainingLength
  table, count,             \* the memory, and how many descriptors are written
  pos, moved, interrupts    \* the engine: its descriptor, the bytes moved, its interrupts

vars == <<kind, step, list, elem, next, remaining, table, count, pos, moved, interrupts>>

Empty == [addr |-> 0, len |-> 0, valid |-> FALSE, last |-> FALSE, quiet |-> FALSE]

Init ==
  /\ kind \in {"adma", "idmac"} /\ step = "idle"
  /\ list = <<>> /\ elem = 1 /\ next = 0 /\ remaining = 0
  /\ table = [i \in 1 .. Slots |-> Empty] /\ count = 0
  /\ pos = 1 /\ moved = <<>> /\ interrupts = 0

Build ==
  /\ step = "idle" /\ step' = "build"
  /\ list' \in Lists
  /\ elem' = 1 /\ next' = list'[1].addr /\ remaining' = list'[1].len
  /\ count' = 0 /\ pos' = 1 /\ moved' = <<>> /\ interrupts' = 0
  /\ UNCHANGED <<kind, table>>

NextLength == IF remaining < MaxLength THEN remaining ELSE MaxLength

\* Mutant: a new descriptor keeps what the memory held.
KeptDescriptor(old) ==
  [addr |-> next, len |-> NextLength, valid |-> TRUE, last |-> old.last, quiet |-> kind = "idmac"]

\* A descriptor is written as a whole.  Those of dwcmshc are silent (DIC).
NewDescriptor(old) ==
  [addr |-> next, len |-> NextLength, valid |-> TRUE, last |-> FALSE, quiet |-> kind = "idmac"]

\* The inner loop.
AddDescriptor ==
  /\ step = "build" /\ remaining > 0
  /\ table' = [table EXCEPT ![count + 1] = NewDescriptor(@)]
  /\ count' = count + 1
  /\ next' = next + NextLength /\ remaining' = remaining - NextLength
  /\ UNCHANGED <<kind, step, list, elem, pos, moved, interrupts>>

\* The outer loop.  After the last element the last descriptor is marked, and in dwcmshc
\* speaks up.
NextElement ==
  /\ step = "build" /\ remaining = 0
  /\ IF elem < Len(list)
     THEN /\ elem' = elem + 1
          /\ next' = list[elem + 1].addr /\ remaining' = list[elem + 1].len
          /\ UNCHANGED <<step, table>>
     ELSE /\ table' = [table EXCEPT ![count].last = TRUE, ![count].quiet = FALSE]
          /\ step' = "engine"
          /\ UNCHANGED <<elem, next, remaining>>
  /\ UNCHANGED <<kind, list, count, pos, moved, interrupts>>

\* The engine takes a descriptor; that of dwcmshc gives it back (OWN).
Engine ==
  /\ step = "engine" /\ pos \in 1 .. Slots /\ table[pos].valid
  /\ moved' = moved \o [i \in 1 .. table[pos].len |-> table[pos].addr + i - 1]
  /\ interrupts' = IF table[pos].last /\ ~table[pos].quiet THEN interrupts + 1 ELSE interrupts
  /\ step' = IF table[pos].last THEN "idle" ELSE "engine"
  /\ pos' = pos + 1
  /\ table' = IF kind = "idmac" THEN [table EXCEPT ![pos].valid = FALSE] ELSE table
  /\ UNCHANGED <<kind, list, elem, next, remaining, count>>

Next == Build \/ AddDescriptor \/ NextElement \/ Engine

Spec == Init /\ [][Next]_vars

-----------------------------------------------------------------------------
Described == FlattenSeq([i \in DOMAIN list |-> [j \in 1 .. list[i].len |-> list[i].addr + j - 1]])

\* The engine moves what the list says, byte by byte and in its order, never goes on into
\* what an earlier request has left behind, and in the end says so once.
EngineFollowsList ==
  /\ IsPrefix(moved, Described)
  /\ step = "idle" /\ list # <<>> => moved = Described /\ interrupts = 1
=============================================================================

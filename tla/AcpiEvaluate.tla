---------------------------- MODULE AcpiEvaluate ----------------------------
(***************************************************************************)
(* How a driver evaluates an ACPI method and reads what it returned: the   *)
(* buffers of AcpiEvaluateMethod, AcpiSendIoctlSynchronously and           *)
(* AcpiExecuteDsmFunction (drivers/shared/acpiutil.cpp), for the callers   *)
(* AcpiQueryDsm and AcpiQueryDsd, the latter as the SD host driver and the *)
(* Ethernet driver use it to read their device properties.  The Ethernet   *)
(* driver then evaluates a second method, the name of which is a property. *)
(*                                                                         *)
(* The firmware may answer each call differently.  Sizes are counted in    *)
(* arguments, an output buffer without room for more than one being the    *)
(* smallest.                                                               *)
(***************************************************************************)
EXTENDS AcpiUtil, SequencesExt

CONSTANTS
  Methods,   \* what a method may return: a set of properties, see MethodOf
  Keys       \* the properties the driver asks for

Retries == 2
Default == 0         \* a driver's own value of a property, unlike any the firmware has
Blocks  == 1..3      \* pool blocks: never more than three are allocated at a time

VARIABLES
  pc, caller,
  retries, size,     \* of AcpiEvaluateMethod: attempts left, outputBufferSize
  in, out,           \* inputBufferPtr of a _DSM call, outputBufferPtr
  status, returned,  \* of the last AcpiSendIoctlSynchronously; returned is sizeReturned
  content, method,   \* what lies in the output buffer, and the properties it encodes
  given,             \* *ReturnBufferPptr
  read,              \* what the driver read, by key
  live, twice        \* allocated blocks; history: a block was freed that was not allocated

callVars   == <<retries, size, status, returned, content, method>>
bufferVars == <<in, out, given>>
poolVars   == <<live, twice>>
vars == <<pc, caller, callVars, bufferVars, read, poolVars>>

Failed == status # Success

-----------------------------------------------------------------------------
(* What the firmware returns.  A method's properties are a sequence of     *)
(* entries, each a sequence of values: a key and what belongs to it.  An   *)
(* entry with "alone" set is not put into a package.                       *)

\* The arguments of one entry in memory.
EntryCells(e) ==
  IF e.alone THEN e.items
  ELSE <<[type |-> "Package", len |-> Len(e.items), value |-> "none"]>> \o e.items

Entries(es) == FlattenSeq([i \in 1..Len(es) |-> EntryCells(es[i])])

\* A _DSD: the GUID of device properties and their package.
MethodOf(properties) ==
  <<[type |-> "Buffer", len |-> 16, value |-> properties.guid],
    [type |-> "Package", len |-> Len(Entries(properties.entries)), value |-> "none"]>>
  \o Entries(properties.entries)

\* What lies in memory is what it says it is: a package knows its length, and what is not put
\* into a package is an argument of its own.
AcpiAssumption ==
  \A m \in Methods :
    /\ m.entries \in Seq(Range(m.entries))
    /\ \A i \in DOMAIN m.entries : LET e == m.entries[i] IN
         /\ e.items \in Seq(Range(e.items))
         /\ \A j \in DOMAIN e.items : e.items[j].type = "Package" => e.items[j].len \in Nat
         /\ e.alone => e.items # <<>> /\ e.items[1].type # "Package"

-----------------------------------------------------------------------------
Init ==
  /\ pc = "idle" /\ caller = "none" /\ retries = 0 /\ size = 0 /\ status = Success /\ returned = 0
  /\ content = <<>> /\ method \in Methods /\ in = 0 /\ out = 0 /\ given = 0
  /\ read = [k \in Keys |-> Default] /\ live = {} /\ twice = FALSE

Unused == CHOOSE b \in Blocks : b \notin live

Free(block) == live' = live \ {block} /\ twice' = (twice \/ block \notin live)

\* A driver asks for its device properties.
AcpiQueryDsd ==
  /\ pc = "idle"
  /\ pc' = "evaluate" /\ caller' \in {"Mshc", "Eqos"} /\ retries' = Retries /\ size' = 1
  /\ given' = 0 /\ out' = 0 /\ read' = [k \in Keys |-> Default] /\ status' = Success
  /\ UNCHANGED <<returned, content, method, in, poolVars>>

\* A driver asks for the functions of a _DSM.
AcpiQueryDsm ==
  /\ pc = "idle"
  /\ pc' = "format" /\ caller' = "Dsm" /\ retries' = Retries /\ size' = 1
  /\ given' = 0 /\ out' = 0 /\ read' = [k \in Keys |-> Default] /\ status' = Success
  /\ UNCHANGED <<returned, content, method, in, poolVars>>

\* The input buffer is allocated and filled, or AcpiExecuteDsmFunction fails.
AcpiFormatDsmFunctionInputBuffer ==
  /\ pc = "format"
  /\ \/ in' = Unused /\ live' = live \cup {Unused} /\ pc' = "evaluate" /\ UNCHANGED status
     \/ in' = 0 /\ status' = "NoMemory" /\ pc' = "executed" /\ UNCHANGED live
  /\ UNCHANGED <<caller, retries, size, returned, content, method, out, given, read, twice>>

\* One turn of the loop of AcpiEvaluateMethod: a buffer of outputBufferSize.
AllocateOutput ==
  /\ pc = "evaluate"
  /\ \/ out' = Unused /\ live' = live \cup {Unused} /\ pc' = "send" /\ content' = <<>>
        /\ UNCHANGED status
     \/ out' = 0 /\ status' = "NoMemory" /\ pc' = "cleanup" /\ UNCHANGED <<live, content>>
  /\ UNCHANGED <<caller, retries, size, returned, method, in, given, read, twice>>

\* AcpiSendIoctlSynchronously: the IRP and the intermediate buffer are allocated, or
\* not, and freed again before it returns.  The firmware answers in full, with the
\* size it would need, with an error, or with nothing at all, which is refused for
\* want of a signature.
AcpiSendIoctlSynchronously ==
  /\ pc = "send"
  /\ \E m \in Methods :
       /\ method' = m
       /\ \/ Len(MethodOf(m)) > size /\ status' = "BufferOverflow"
             /\ content' = <<>> /\ UNCHANGED returned
          \/ Len(MethodOf(m)) <= size /\ status' = Success
             /\ returned' = Len(MethodOf(m)) /\ content' = MethodOf(m)
          \/ status' \in {"NoMemory", "Unsuccessful", "InvalidData"} /\ UNCHANGED <<returned, content>>
  /\ pc' = "sent"
  /\ UNCHANGED <<caller, retries, size, bufferVars, read, poolVars>>

\* The end of the loop: a buffer that was too small is freed, and the next one is as
\* large as the firmware asked.
LoopTail ==
  /\ pc = "sent"
  /\ IF status = "BufferOverflow"
     THEN size' = Len(MethodOf(method)) /\ out' = 0 /\ Free(out)
     ELSE UNCHANGED <<size, out, poolVars>>
  /\ retries' = retries - 1
  /\ pc' = IF status = "BufferOverflow" /\ retries' > 0 THEN "evaluate" ELSE "cleanup"
  /\ UNCHANGED <<caller, status, returned, content, method, in, given, read>>

\* The rest of AcpiEvaluateMethod: the buffer goes to the caller or is freed.
EvaluateReturn ==
  /\ pc = "cleanup"
  /\ given' = IF ~Failed /\ returned > 0 THEN out ELSE given
  /\ IF Failed /\ out # 0 THEN Free(out) ELSE UNCHANGED poolVars
  /\ pc' = IF caller = "Dsm" THEN "executed" ELSE "parse"
  /\ UNCHANGED <<caller, callVars, in, out, read>>

\* Cleanup of AcpiExecuteDsmFunction, which was given a place for the buffer.
ExecuteReturn ==
  /\ pc = "executed"
  /\ IF in # 0 THEN Free(in) ELSE UNCHANGED poolVars
  /\ in' = 0 /\ pc' = "release"
  /\ UNCHANGED <<caller, callVars, out, given, read>>

\* What a driver has after asking for each property: its default where it got none.
PropertiesRead ==
  LET props == ParseDsd(content, 2)
      Got(k) == QueryIntegerValue(content, props.at, k)
  IN  [k \in Keys |-> IF ~Failed /\ props.status = Success /\ Got(k).status = Success
                      THEN Got(k).value ELSE Default]

\* The SD host reads the capabilities of its platform.
MshcQueryAcpiPlatformCapabilities ==
  /\ pc = "parse" /\ caller = "Mshc"
  /\ read' = PropertiesRead /\ pc' = "release"
  /\ UNCHANGED <<caller, callVars, bufferVars, poolVars>>

\* The Ethernet driver reads its bus settings, and goes on if it finds the name of a
\* second method, four letters and a zero.
EqosReadProperties ==
  /\ pc = "parse" /\ caller \in {"Eqos", "Axic"}
  /\ LET props == ParseDsd(content, 2)
         named == ~Failed /\ props.status = Success
                  /\ QueryStringValue(content, props.at, "axi", 5) = [status |-> Success, length |-> 5]
     IN  pc' = IF caller = "Eqos" /\ named THEN "again" ELSE "release"
  /\ read' = PropertiesRead
  /\ UNCHANGED <<caller, callVars, bufferVars, poolVars>>

\* Mutant: outputBuffer still points to the properties when the second method fails.
EvaluateAxicKeepsPointer ==
  /\ pc = "again"
  /\ Free(given) /\ out' = 0 /\ retries' = Retries /\ size' = 1
  /\ pc' = "evaluate" /\ caller' = "Axic"
  /\ UNCHANGED <<status, returned, content, method, in, given, read>>

\* dwc_eqos frees the properties and evaluates the second method.
EvaluateAxic ==
  /\ pc = "again"
  /\ Free(given) /\ given' = 0 /\ out' = 0 /\ retries' = Retries /\ size' = 1
  /\ pc' = "evaluate" /\ caller' = "Axic"
  /\ UNCHANGED <<status, returned, content, method, in, read>>

\* The caller frees the buffer if it was given one.
Release ==
  /\ pc = "release"
  /\ IF given # 0 THEN Free(given) ELSE UNCHANGED poolVars
  /\ pc' = "idle"
  /\ UNCHANGED <<caller, callVars, bufferVars, read>>

Next ==
  \/ AcpiQueryDsd \/ AcpiQueryDsm \/ AcpiFormatDsmFunctionInputBuffer
  \/ AllocateOutput \/ AcpiSendIoctlSynchronously
  \/ LoopTail \/ EvaluateReturn \/ ExecuteReturn
  \/ MshcQueryAcpiPlatformCapabilities \/ EqosReadProperties \/ EvaluateAxic \/ Release

-----------------------------------------------------------------------------
(* Properties.                                                             *)

\* Whatever fails on the way, every buffer is freed exactly once, and a method that
\* returned something is handed over whole (acpiutil.cpp:852-908: a retry after an
\* overflow, an answer of another size the second time, no data at all).
EachBufferFreedOnce ==
  /\ ~twice
  /\ pc = "idle" => live = {}
  /\ given # 0 /\ pc # "idle" => given \in live /\ content = MethodOf(method)

\* The value of a property as the firmware's author sees it: that of the first entry
\* with the key, if it and all entries before it are pairs that start with a string.
WellFormed(e) == ~e.alone /\ Len(e.items) > 0 /\ e.items[1].type = "String"

Meaning(properties, key) ==
  LET es   == properties.entries
      Hit(i) == WellFormed(es[i]) /\ es[i].items[1].value = key
      hits == {i \in 1..Len(es) : Hit(i) /\ \A j \in 1..(i - 1) : WellFormed(es[j]) /\ ~Hit(j)}
  IN  IF properties.guid # "DevicePropertiesGuid" \/ hits = {} THEN Default
      ELSE LET e == es[CHOOSE i \in hits : TRUE]
           IN  IF Len(e.items) >= 2 /\ e.items[2].type = "Integer" /\ e.items[2].len = 4
               THEN e.items[2].value ELSE Default

\* A list of two pairs of integers is read pair by pair.
Integers2(e) == ~e.alone /\ Len(e.items) = 2 /\ \A i \in 1..2 : e.items[i].type = "Integer" /\ e.items[i].len = 4

PairsInOrder(properties) ==
  LET m == MethodOf(properties)
      first  == QueryIntegerValueArray(m, 2, 2, 0)
      second == QueryIntegerValueArray(m, 2, 2, first.next)
      es == properties.entries
  IN  Len(es) = 2 /\ Integers2(es[1]) /\ Integers2(es[2]) =>
        /\ first.values  = <<es[1].items[1].value, es[1].items[2].value>>
        /\ second.values = <<es[2].items[1].value, es[2].items[2].value>>

\* What a driver reads is what the table says, wherever packages of other lengths,
\* nested values or malformed entries lie in between (acpiutil.cpp:197-261, 343-399).
ReadsWhatIsThere ==
  pc = "release" /\ caller # "Dsm" =>
    /\ \A k \in Keys : read[k] = IF Failed THEN Default ELSE Meaning(method, k)
    /\ ~Failed => PairsInOrder(method)
=============================================================================

------------------------------ MODULE AcpiUtil ------------------------------
(***************************************************************************)
(* How the drivers read device properties from what an ACPI method         *)
(* returned (drivers/shared/acpiutil.cpp).                                 *)
(*                                                                         *)
(* A method returns arguments one after the other in memory; a package is  *)
(* an argument whose data are arguments again.  The memory m is a sequence *)
(* of arguments in that order.  Where the code counts bytes the model      *)
(* counts arguments: "len" of a package is how many arguments lie in it,   *)
(* at any depth, and of an integer or a string its length in bytes.  A     *)
(* pointer is an index of m, and 0 is nullptr.                             *)
(***************************************************************************)
EXTENDS Naturals, Sequences

Success == "Success"

\* Mutant: ACPI_METHOD_NEXT_ARGUMENT does not step over what a package contains.
NextArgumentFlat(m, a) == a + 1

\* ACPI_METHOD_NEXT_ARGUMENT
NextArgument(m, a) == IF m[a].type = "Package" THEN a + 1 + m[a].len ELSE a + 1

\* AcpiPackageGetNextArgument: the pointer, or 0 for STATUS_NO_MORE_ENTRIES.
PackageGetNextArgument(m, pkg, a) ==
  LET next == IF a = 0 THEN pkg + 1 ELSE NextArgument(m, a)
  IN  IF m[pkg].len = 0 \/ (a # 0 /\ next > pkg + m[pkg].len) THEN 0 ELSE next

\* AcpiOutputBufferGetNextArgument: all of the memory is the returned buffer.
OutputBufferGetNextArgument(m, a) ==
  LET next == IF a = 0 THEN 1 ELSE NextArgument(m, a)
  IN  IF next > Len(m) THEN 0 ELSE next

\* AcpiDevicePropertiesQueryValue: looks for a pair with the key; at is the value.
QueryValue(m, props, key) ==
  LET Fail(why) == [status |-> why, at |-> 0]
      find[e \in 0..Len(m)] ==
        LET entry == PackageGetNextArgument(m, props, e)
            name  == PackageGetNextArgument(m, entry, 0)
            value == PackageGetNextArgument(m, entry, name)
        IN  IF entry = 0 THEN Fail("NotFound")
            ELSE IF m[entry].type # "Package" THEN Fail("InvalidArgType")
            ELSE IF name = 0 THEN Fail("IncorrectArgumentCount")
            ELSE IF m[name].type # "String" THEN Fail("InvalidData")
            ELSE IF m[name].value # key THEN find[entry]
            ELSE IF value = 0 THEN Fail("IncorrectArgumentCount")
            ELSE [status |-> Success, at |-> value]
  IN  IF m[props].type # "Package" THEN Fail("InvalidArgType") ELSE find[0]

\* AcpiArgumentParseInteger
ParseInteger(m, a) ==
  IF m[a].type = "Integer" /\ m[a].len = 4
  THEN [status |-> Success, value |-> m[a].value]
  ELSE [status |-> "InvalidArgType", value |-> 0]

\* AcpiArgumentParseString, with the size of the caller's buffer.
ParseString(m, a, max) ==
  IF m[a].type # "String" THEN [status |-> "InvalidArgType", length |-> 0]
  ELSE [status |-> IF m[a].len > max THEN "BufferTooSmall" ELSE Success, length |-> m[a].len]

\* AcpiDevicePropertiesQueryIntegerValue<UINT32>
QueryIntegerValue(m, props, key) ==
  LET found == QueryValue(m, props, key)
  IN  IF found.status = Success THEN ParseInteger(m, found.at)
                                ELSE [status |-> found.status, value |-> 0]

\* AcpiDevicePropertiesQueryStringValue
QueryStringValue(m, props, key, max) ==
  LET found == QueryValue(m, props, key)
  IN  IF found.status = Success THEN ParseString(m, found.at, max)
                                ELSE [status |-> found.status, length |-> 0]

\* AcpiDevicePropertiesQueryIntegerValueArray: the values of one entry of a list of
\* packages, and where the next call goes on (*currentEntryNextPtr).
QueryIntegerValueArray(m, list, count, after) ==
  LET Fail(why) == [status |-> why, values |-> <<>>, next |-> after]
      entry == PackageGetNextArgument(m, list, after)
      read[n \in 0..count] ==        \* the first n values, and where the last of them is
        IF n = 0 THEN [status |-> Success, values |-> <<>>, next |-> 0]
        ELSE LET before == read[n - 1]
                 a      == PackageGetNextArgument(m, entry, before.next)
             IN  IF before.status # Success THEN before
                 ELSE IF a = 0 THEN Fail("IncorrectArgumentCount")
                 ELSE IF m[a].type # "Integer" THEN Fail("InvalidData")
                 ELSE IF m[a].len # 4 THEN Fail("InvalidArgType")
                 ELSE [status |-> Success, values |-> Append(before.values, m[a].value), next |-> a]
  IN  IF entry = 0 THEN Fail("NotFound")
      ELSE IF m[entry].type # "Package" THEN Fail("InvalidArgType") ELSE read[count]

\* AcpiParseDsdAsDeviceProperties: a buffer of two arguments, the GUID of device
\* properties and their package.
ParseDsd(m, count) ==
  LET guid  == OutputBufferGetNextArgument(m, 0)
      props == OutputBufferGetNextArgument(m, guid)
      Fail(why) == [status |-> why, at |-> 0]
  IN  IF count # 2 THEN Fail("IncorrectArgumentCount")
      ELSE IF guid = 0 THEN Fail("NoMoreEntries")
      ELSE IF m[guid].type # "Buffer" \/ m[guid].len # 16 THEN Fail("InvalidArgType")
      ELSE IF m[guid].value # "DevicePropertiesGuid" THEN Fail("InvalidData")
      ELSE IF props = 0 THEN Fail("NoMoreEntries")
      ELSE IF m[props].type # "Package" THEN Fail("InvalidArgType")
      ELSE [status |-> Success, at |-> props]
=============================================================================

---------------------------- MODULE MCEqosInputs ----------------------------
(* Receive filters and ACPI tables for the small instances of the Ethernet *)
(* driver's setup.                                                         *)
EXTENDS Naturals

\* Every flag alone or with others, with an empty, a short and a full list of groups,
\* also where the flags make no use of it.
MCFilters ==
  [flags : {{}, {"Directed"}, {"Directed", "Broadcast"}, {"Directed", "Multicast"}, {"Multicast", "Broadcast"},
            {"AllMulticast"}, {"Directed", "AllMulticast", "Multicast", "Broadcast"},
            {"Promiscuous"}, {"Promiscuous", "Multicast"}},
   list : {<<>>, <<"g1">>, <<"g2">>, <<"g2", "g1">>}]

Str(k) == [type |-> "String", len |-> 5, value |-> k]
Num(n) == [type |-> "Integer", len |-> 4, value |-> n]
Long(n) == [type |-> "Integer", len |-> 8, value |-> n]
Pkg(n) == [type |-> "Package", len |-> n, value |-> "none"]
Pair(items) == [alone |-> FALSE, items |-> items]

\* Entries of every kind: good, long, empty, nested, without a package, not a string.
SomeEntries == {
  Pair(<<Str("k1"), Num(1)>>), Pair(<<Str("k1"), Long(1)>>), Pair(<<Str("k1"), Num(3), Num(4)>>),
  Pair(<<Str("k2"), Num(2)>>), Pair(<<Str("k2")>>), Pair(<<>>),
  Pair(<<Str("axi"), Str("AXIC")>>),
  Pair(<<Str("k3"), Pkg(2), Str("k1"), Num(7)>>), Pair(<<Num(5), Num(6)>>),
  [alone |-> TRUE, items |-> <<Num(8)>>] }

MCMethods ==
  [guid : {"DevicePropertiesGuid"}, entries : UNION {[1..n -> SomeEntries] : n \in 0..2}]
  \cup [guid : {"other"}, entries : {<<Pair(<<Str("k1"), Num(1)>>)>>}]
=============================================================================

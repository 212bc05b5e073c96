------------------------ MODULE MCEtcdDiscovery ------------------------
(***************************************************************************)
(* An instance of EtcdDiscovery for TLC: one name, two versions of it.     *)
(***************************************************************************)
EXTENDS EtcdDiscovery

CONSTANTS n1, v1, v2, i1, i2

OneName == [i \in Instance |-> n1]
TwoVersions == [i \in Instance |-> IF i = i1 THEN v1 ELSE v2]
==========================================================================

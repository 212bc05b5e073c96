------------------------ MODULE MCConsulResolver ------------------------
(***************************************************************************)
(* Instances of ConsulResolver for TLC.                                    *)
(***************************************************************************)
EXTENDS ConsulResolver

CONSTANTS n1, v1, v2, i1

\* One name, and an instance i1 of version v1 among others of v2.
OneName == [i \in Instance |-> n1]
TwoVersions == [i \in Instance |-> IF i = i1 THEN v1 ELSE v2]
==========================================================================

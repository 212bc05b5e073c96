-------------------------- MODULE MCSideBySide --------------------------
(***************************************************************************)
(* An instance of SideBySide for TLC: the resolver has one name and two    *)
(* versions of it, the settings two sections.                              *)
(***************************************************************************)
EXTENDS SideBySide

CONSTANTS n1, v1, v2, i1, k1, k2, p1

OneName == [i \in Instance |-> n1]
TwoVersions == [i \in Instance |-> IF i = i1 THEN v1 ELSE v2]
TwoSections == [p \in Pointer |-> IF p = p1 THEN k1 ELSE k2]
=========================================================================

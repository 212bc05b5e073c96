------------------------ MODULE MCConsulRegistry ------------------------
(***************************************************************************)
(* Instances of ConsulRegistry for TLC.                                    *)
(***************************************************************************)
EXTENDS ConsulRegistry

CONSTANTS r1, s1

\* r1 handles every instance, the others only s1.
ServesSome == [r \in Registry |-> IF r = r1 THEN Service ELSE {s1}]
==========================================================================

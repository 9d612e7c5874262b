---------------------------- MODULE MCBootConfig ---------------------------
(***************************************************************************)
(* Constants for the run of BootConfig.                                    *)
(***************************************************************************)
EXTENDS BootConfig, TLC

CONSTANTS s1, s2

Two == {s1, s2}
\* All but a version that is not printed: the loader does not look at it.
MostFaults == {"show", "space", "sync", "rename"}
Interchangeable == Permutations(Savers)
=============================================================================

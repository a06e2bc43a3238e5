----------------------------- MODULE MC_Registry ------------------------------
(* Small instances of Registry for TLC. *)
EXTENDS Registry, TLC

CONSTANTS cli, tui, n1, n2

Both == {cli, tui}
Names == {n1, n2}

\* Nothing tells names apart.
AnyName == Permutations(Names)
===============================================================================

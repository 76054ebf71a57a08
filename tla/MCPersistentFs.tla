---------------------------- MODULE MCPersistentFs ----------------------------
(***************************************************************************)
(* PersistentFs for TLC: callers, names and contents are model values, and *)
(* the callers can be exchanged.                                           *)
(***************************************************************************)
EXTENDS PersistentFs, TLC

CallerSymmetry == Permutations(Caller)
=============================================================================

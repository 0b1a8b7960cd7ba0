------------------------------- MODULE MCSeed -------------------------------
(* Seed with a few calls, for TLC. *)
EXTENDS Seed, TLC

Interchangeable == Permutations(Calls)
=============================================================================

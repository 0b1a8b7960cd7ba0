------------------------------ MODULE MCLogin ------------------------------
(* Login and its limiter on small sets, for TLC. *)
EXTENDS Login, TLC

\* Addresses are only told apart, and so are requests.
Interchangeable == Permutations(Keys) \cup Permutations(Slots)
=============================================================================

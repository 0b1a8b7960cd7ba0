---------------------------- MODULE MCPhotoCheck ----------------------------
(* PhotoCheck on a few photos, for TLC. *)
EXTENDS PhotoCheck, TLC

\* Photos are only told apart.
Interchangeable == Permutations(Photos)
=============================================================================

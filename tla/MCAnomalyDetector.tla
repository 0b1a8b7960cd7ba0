------------------------- MODULE MCAnomalyDetector -------------------------
(* AnomalyDetector with the windows of the code, for TLC. *)
EXTENDS AnomalyDetector
=============================================================================

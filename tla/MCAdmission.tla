---------------------------- MODULE MCAdmission ----------------------------
(* Admission for TLC: a signal below and one above the connection limit.    *)
EXTENDS Admission

WeakAndGood == {-90, -60}
NoiseFloor == -92
=============================================================================

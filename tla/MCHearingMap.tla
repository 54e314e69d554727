---------------------------- MODULE MCHearingMap ----------------------------
(* HearingMap for TLC: four radios in three bands, of which two change      *)
(* channel, so that nodes of one band may be neighbours or not; the client  *)
(* is at the last one.                                                      *)
EXTENDS HearingMap

Radios == <<{5180, 2412}, {2412}, {5180}, {2437, 5180}>>

\* Far away and near: requests every 2 or 3 intervals.
FarAndNear == {-90, -30}
=============================================================================

----------------------------- MODULE MCNodeKick -----------------------------
(* NodeKick for TLC.  With a noise floor of -95 dBm, roam_scan_snr 15,      *)
(* roam_trigger_snr 10 and min_snr 5 the thresholds are -80, -85 and -90.   *)
EXTENDS NodeKick

Noise == -95

Client(sig, act, cand) == [signal |-> sig, active |-> act, candidate |-> cand]
Strong == Client(-60, FALSE, FALSE)
Fading == Client(-82, FALSE, TRUE)        \* below roam_scan_snr only
Weak == Client(-88, FALSE, FALSE)         \* below roam_trigger_snr
WeakMovable == Client(-88, FALSE, TRUE)
Lost == Client(-93, FALSE, FALSE)         \* below min_snr
LostBusy == Client(-93, TRUE, TRUE)

\* What the roam state machine tells apart, and what the kick rules tell apart.
RoamMeasurements == {Strong, Fading, Weak, WeakMovable, Lost, LostBusy}
KickMeasurements == {WeakMovable, Lost, LostBusy}
=============================================================================

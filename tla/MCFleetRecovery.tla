-------------------------- MODULE MCFleetRecovery --------------------------
(* Two primaries and two goroutines alive at a time.                        *)
EXTENDS FleetRecovery

CONSTANTS p1, p2, w1, w2
=============================================================================

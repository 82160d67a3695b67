--------------------------- MODULE MCSessionManager ---------------------------
(* Two threads use a manager, and make up to two sessions of two ids.        *)
EXTENDS SessionManager, TLC

CONSTANTS t1, t2, seat, kiosk

Two == {t1, t2}
SeatAndKiosk == {seat, kiosk}
Symmetry == Permutations(Two)
=============================================================================

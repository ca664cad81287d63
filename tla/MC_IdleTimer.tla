---------------------------- MODULE MC_IdleTimer ----------------------------
(* Small instances of IdleTimer.                                            *)
EXTENDS IdleTimer, TLC

CONSTANTS u1, u2, loop, ping, p1, w1
=============================================================================

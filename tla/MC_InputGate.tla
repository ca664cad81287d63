---------------------------- MODULE MC_InputGate ----------------------------
(* A small instance of InputGate: one user who pastes and types a line, the *)
(* injector with one prompt and one flush goroutine, under every fault.     *)
EXTENDS InputGate, TLC

CONSTANTS s1, inj, f1, none, p1, l1, q1

AllFaults == {"loss", "reattach", "dismiss", "expiry"}
=============================================================================

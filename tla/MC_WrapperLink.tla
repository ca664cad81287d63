--------------------------- MODULE MC_WrapperLink ---------------------------
(* Small instances of WrapperLink.  Safety: two wrappers, of which one may   *)
(* take the other's number, and three connections.  Liveness: one wrapper,  *)
(* two connections, every end of a Hub.  Two Hub processes in both.         *)
EXTENDS WrapperLink, TLC

CONSTANTS w1, w2, i1, noW, noI

Symmetry == Permutations(Wrappers)
Removals == {"crash", "dismiss"}
Ends == {"crash", "shutdown", "killall", "slow"}
=============================================================================

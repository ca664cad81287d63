---------------------------- MODULE MC_Approvals ----------------------------
EXTENDS Approvals
MCKind == [m |-> "marker", n |-> "native", s |-> "seq", b |-> "batch", x |-> "multi", q |-> "questions"]
MCAsks == [i \in Ids |-> IF i = 1 THEN {"m", "s", "b", "x", "q"} ELSE {"n"}]
MCRisky == {"n"}
=============================================================================

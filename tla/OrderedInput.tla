---------------------------- MODULE OrderedInput ----------------------------
(***************************************************************************)
(* What the Hub promises about the keyboard input of one session: accepted *)
(* inputs form one queue, they reach the wrapper in the order in which     *)
(* they were accepted, a bracketed paste is followed at once by the        *)
(* carriage return that confirms it, and nothing is written twice.  Inputs *)
(* leave the queue unwritten only at its limit, oldest first, or because   *)
(* the session is dismissed or registered anew.                            *)
(***************************************************************************)
EXTENDS Naturals, Sequences

CONSTANTS Inputs,      \* every input that may be accepted
          Lines,       \* the inputs written in one piece
          MaxPending   \* maxPendingInputPerSession

VARIABLES queue,       \* accepted and not yet completely written
          out          \* what has been written, oldest first

Whole(i) == [in |-> i, part |-> "whole"]   \* nothing of i is written yet
Enter(i) == [in |-> i, part |-> "cr"]      \* only i's carriage return is missing

Newest(q) == IF Len(q) > MaxPending
             THEN SubSeq(q, Len(q) - MaxPending + 1, Len(q))
             ELSE q

(* What remains of a queue once the next piece of its head is written. *)
Advance(q) == IF Head(q).part = "whole" /\ Head(q).in \notin Lines
              THEN <<Enter(Head(q).in)>> \o Tail(q)
              ELSE Tail(q)

Init == queue = << >> /\ out = << >>

Accept(i) == queue' = Newest(Append(queue, Whole(i))) /\ UNCHANGED out

Emit == /\ queue # << >>
        /\ out' = Append(out, Head(queue))
        /\ queue' = Advance(queue)

Discard == /\ \E k \in 0 .. Len(queue) : queue' = SubSeq(queue, 1, k)
           /\ UNCHANGED out

Next == (\E i \in Inputs : Accept(i)) \/ Emit \/ Discard

Spec == Init /\ [][Next]_<<queue, out>>
=============================================================================

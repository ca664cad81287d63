---------------------------- MODULE OutputProofs ----------------------------
(***************************************************************************)
(* Proofs about Output, for any number of sessions, panes, chunks and acts *)
(* and any limits of the queue and of a batch: output is written once, and *)
(* who has scrolled up is left alone.                                      *)
(*                                                                         *)
(* What a step may do is said of one terminal (Leads, Stays), then of all  *)
(* of them with the set of those whose reader it may disturb (Keeps), then *)
(* of the page (Good), operator by operator as the handlers are built.     *)
(***************************************************************************)
EXTENDS Output, TLAPS

(* The records a terminal can be.                                           *)
Terminals ==
  [made : BOOLEAN, place : {"none", "area", "pane", "away"}, opened : BOOLEAN,
   waits : SUBSET {"area", "pane"}, pending : Seq(Nat),
   flight : {"none", "attach", "plain"}, frames : SUBSET {"attach", "plain"},
   batch : {"off", "on", "over"}, screen : Seq(Nat), gone : SUBSET Nat,
   auto : BOOLEAN, at : {"bottom", "read", "lost"}, follow : BOOLEAN,
   stick : BOOLEAN, passes : BOOLEAN, handler : {"none", "pane", "area"}]

(* Who has scrolled up, and what a step leaves such a reader.               *)
Reader(t) == t.at = "read" /\ t.auto = FALSE
Stays(t, u) == Reader(t) => Reader(u)

(* A step of one terminal that loses and adds no chunk: what is written and *)
(* what waits are the same sequence after it.  Forced passes begin only for *)
(* Codex sessions, and nobody is left reading under a follow but in a       *)
(* detached window.                                                         *)
Leads(s, t, u) ==
  /\ u \in Terminals
  /\ u.screen \o u.pending = t.screen \o t.pending /\ u.gone = t.gone
  /\ u.passes = TRUE => t.passes = TRUE \/ s \in Codex
  /\ u.at = "read" /\ u.follow = TRUE =>
       view = "detached" \/ (t.at = "read" /\ t.follow = TRUE)

(* Such steps compose.                                                      *)
LEMMA LeadsAlong ==
  ASSUME NEW s, NEW t, NEW u, NEW w, Leads(s, t, u), Leads(s, u, w)
  PROVE  Leads(s, t, w)
  BY DEF Leads

(* Nothing happened.                                                        *)
LEMMA LeadsSelf ==
  ASSUME NEW s, NEW t \in Terminals
  PROVE  Leads(s, t, t)
  BY DEF Leads

(* scrollTerminalToBottom.                                                  *)
LEMMA SnappedLeads ==
  ASSUME NEW s, NEW t \in Terminals
  PROVE  Leads(s, t, Snapped(t)) /\ Snapped(t).at = "bottom"
  BY DEF Leads, Snapped, Terminals

(* Keeping the bottom for who is there (keepTerminalAtBottom) does not      *)
(* touch a reader.                                                          *)
LEMMA KeptLeads ==
  ASSUME NEW s, NEW t \in Terminals
  PROVE  Leads(s, t, Kept(t)) /\ Stays(t, Kept(t))
<1>1. CASE t.auto = TRUE
  BY <1>1, SnappedLeads DEF Kept, Stays, Reader
<1>2. CASE t.auto = FALSE
  BY <1>2, LeadsSelf DEF Kept, Stays, Reader
<1> QED BY <1>1, <1>2 DEF Terminals

(* Sending new dimensions opens a batch and nothing else.                   *)
LEMMA SizedLeads ==
  ASSUME NEW s, NEW t \in Terminals, NEW resized
  PROVE  Leads(s, t, Sized(t, resized)) /\ Stays(t, Sized(t, resized))
<1>1. CASE resized
  <2>1. Leads(s, t, [t EXCEPT !.batch = "on"]) /\ Stays(t, [t EXCEPT !.batch = "on"])
    BY DEF Leads, Terminals, Stays, Reader
  <2> QED BY <1>1, <2>1 DEF Sized
<1>2. CASE ~resized
  BY <1>2, LeadsSelf DEF Sized, Stays
<1> QED BY <1>1, <1>2

(* What xterm does to the viewport when it has parsed a write leaves a      *)
(* reader alone.                                                            *)
LEMMA ParsedLeads ==
  ASSUME NEW s, NEW t \in Terminals, NEW chunks
  PROVE  Leads(s, t, Parsed(t, chunks)) /\ Stays(t, Parsed(t, chunks))
<1> DEFINE u == [t EXCEPT !.auto = FALSE, !.at = IF @ = "read" THEN @ ELSE "lost"]
<1>1. Parsed(t, chunks) \in {Snapped(t), u, Kept(t)} /\
      (Parsed(t, chunks) = Snapped(t) => t.auto = TRUE \/ Snapped(t) = Kept(t) \/ Snapped(t) = u)
  BY DEF Parsed, Terminals
<1>2. Leads(s, t, u) /\ Stays(t, u)
  BY DEF Leads, Terminals, Stays, Reader
<1> QED BY <1>1, <1>2, KeptLeads, SnappedLeads DEF Stays, Reader

(* The end of attachTerminal.                                               *)
LEMMA PlacedLeads ==
  ASSUME NEW s, NEW t \in Terminals, NEW resized
  PROVE  Leads(s, t, Placed(t, resized))
<1> DEFINE u == [t EXCEPT !.place = "area"]
<1>1. Leads(s, t, u) /\ u \in Terminals
  BY DEF Leads, Terminals
<1> HIDE DEF u
<1>2. Leads(s, u, Snapped(u)) /\ Snapped(u) \in Terminals
  BY <1>1, SnappedLeads DEF Leads
<1>3. Leads(s, Snapped(u), Sized(Snapped(u), resized))
  BY <1>2, SizedLeads
<1> QED BY <1>1, <1>2, <1>3, LeadsAlong DEF Placed, u

(* A write appends to the screen.                                           *)
LEMMA WrittenGrows ==
  ASSUME NEW s, NEW t \in Terminals, NEW chunks \in Seq(Nat)
  PROVE  LET u == [t EXCEPT !.screen = @ \o chunks] IN
         /\ u \in Terminals
         /\ Leads(s, u, Written(t, chunks)) /\ Stays(t, Written(t, chunks))
         /\ Written(t, chunks).screen = t.screen \o chunks
         /\ Written(t, chunks).pending = t.pending
<1> DEFINE u == [t EXCEPT !.screen = @ \o chunks]
<1>1. u \in Terminals /\ Stays(t, u)
  <2> DEFINE all == t.screen \o chunks
  <2>1. all \in Seq(Nat)
    BY DEF Terminals
  <2> HIDE DEF all
  <2>2. [t EXCEPT !.screen = all] \in Terminals /\ Stays(t, [t EXCEPT !.screen = all])
    BY <2>1 DEF Terminals, Stays, Reader
  <2> QED BY <2>2 DEF all
<1>2. u.screen = t.screen \o chunks /\ u.pending = t.pending
  BY DEF Terminals
<1> HIDE DEF u
<1>3. Leads(s, u, Parsed(u, chunks)) /\ Stays(u, Parsed(u, chunks))
  BY <1>1, ParsedLeads
<1>4. Parsed(u, chunks).screen = u.screen /\ Parsed(u, chunks).pending = u.pending
  BY <1>1 DEF Parsed, Snapped, Kept, Terminals
<1>5. Written(t, chunks) = Parsed(u, chunks)
  BY DEF Written, u
<1> QED BY <1>1, <1>2, <1>3, <1>4, <1>5 DEF Stays, u

(* flushPending moves all that waits to the screen, in order; only the      *)
(* flush of an activation takes a reader to the bottom.                     *)
LEMMA FlushLeads ==
  ASSUME NEW s, NEW t \in Terminals, NEW then \in {"attach", "plain"}, NEW resized
  PROVE  /\ Leads(s, t, FlushPending(t, then, resized))
         /\ then # "attach" => Stays(t, FlushPending(t, then, resized))
<1>1. CASE t.pending = <<>>
  BY <1>1, PlacedLeads, KeptLeads DEF FlushPending
<1>2. CASE t.pending # <<>>
  <2> DEFINE w == Written(t, t.pending)
             u == [w EXCEPT !.pending = <<>>, !.flight = then]
             g == [t EXCEPT !.screen = @ \o t.pending]
  <2>1. /\ t.pending \in Seq(Nat) /\ t.screen \in Seq(Nat)
    BY DEF Terminals
  <2>2. /\ Leads(s, g, w) /\ Stays(t, w)
        /\ w.screen = t.screen \o t.pending /\ w.pending = t.pending
    BY <2>1, WrittenGrows
  <2>3. g.gone = t.gone /\ g.passes = t.passes /\ g.at = t.at /\ g.follow = t.follow
    BY DEF Terminals
  <2> HIDE DEF w, g
  <2>4. w \in Terminals
    BY <2>2 DEF Leads
  <2> HIDE DEF g
  <2>5. /\ u \in Terminals /\ u.screen = w.screen /\ u.pending = <<>> /\ u.gone = w.gone
        /\ u.passes = w.passes /\ u.at = w.at /\ u.follow = w.follow /\ u.auto = w.auto
    <3>1. <<>> \in Seq(Nat)
      OBVIOUS
    <3> DEFINE none == <<>>
    <3>2. /\ none \in Seq(Nat) /\ u = [w EXCEPT !.pending = none, !.flight = then]
      BY <3>1
    <3> HIDE DEF none, u
    <3>3. /\ u \in Terminals /\ u.screen = w.screen /\ u.pending = none /\ u.gone = w.gone
          /\ u.passes = w.passes /\ u.at = w.at /\ u.follow = w.follow /\ u.auto = w.auto
      BY <2>4, <3>2 DEF Terminals
    <3> QED BY <3>3 DEF none
  <2>6. FlushPending(t, then, resized) = u
    BY <1>2 DEF FlushPending, w
  <2> HIDE DEF u
  <2>7. u.screen \o u.pending = t.screen \o t.pending
    BY <2>1, <2>2, <2>5
  <2>8. Leads(s, t, u)
    BY <2>2, <2>3, <2>5, <2>7 DEF Leads
  <2>9. Stays(t, u)
    BY <2>2, <2>5 DEF Stays, Reader
  <2> QED BY <2>6, <2>8, <2>9
<1> QED BY <1>1, <1>2

-----------------------------------------------------------------------------
(* What is written and what waits.                                          *)
(* A sequence of chunks that have been sent, each of them once and none of  *)
(* them dropped.                                                            *)
Books(q, n, G) ==
  /\ q \in Seq(Nat) /\ G \subseteq 1 .. n
  /\ \A k \in 1 .. Len(q) : q[k] \in 1 .. n /\ q[k] \notin G
  /\ \A j, k \in 1 .. Len(q) : q[j] = q[k] => j = k

(* What a terminal has written, then what waits for it.                     *)
Ledger(t, n) == Books(t.screen \o t.pending, n, t.gone)

(* The elements of a concatenation.                                         *)
LEMMA Joined ==
  ASSUME NEW a \in Seq(Nat), NEW b \in Seq(Nat)
  PROVE  /\ a \o b \in Seq(Nat) /\ Len(a \o b) = Len(a) + Len(b)
         /\ \A k \in 1 .. Len(a) : (a \o b)[k] = a[k]
         /\ \A k \in 1 .. Len(b) : (a \o b)[Len(a) + k] = b[k]
<1>1. a \o b \in Seq(Nat) /\ Len(a \o b) = Len(a) + Len(b)
  OBVIOUS
<1>2. \A k \in 1 .. Len(a) : (a \o b)[k] = a[k]
  OBVIOUS
<1>3. ASSUME NEW k \in 1 .. Len(b) PROVE (a \o b)[Len(a) + k] = b[k]
  <2>1. Len(a) + k \in 1 .. Len(a) + Len(b) /\ Len(a) + k > Len(a)
    OBVIOUS
  <2>2. (Len(a) + k) - Len(a) = k
    OBVIOUS
  <2> QED BY <2>1, <2>2
<1> QED BY <1>1, <1>2, <1>3

(* The next chunk may be written before what waits, as pty_data does to a   *)
(* terminal whose queue it finds free, or after it.                         *)
LEMMA BooksAdded ==
  ASSUME NEW a \in Seq(Nat), NEW b \in Seq(Nat), NEW n \in Nat, NEW G, Books(a \o b, n, G)
  PROVE  /\ Books((a \o <<n + 1>>) \o b, n + 1, G)
         /\ Books(a \o Append(b, n + 1), n + 1, G)
<1> DEFINE q == a \o b
           c == a \o <<n + 1>>
           r == c \o b
           d == Append(b, n + 1)
           w == a \o d
           la == Len(a)
           lb == Len(b)
<1>1. /\ Len(q) = la + lb /\ q \in Seq(Nat)
      /\ \A k \in 1 .. la : q[k] = a[k]
      /\ \A k \in 1 .. lb : q[la + k] = b[k]
  BY Joined
<1>2. c \in Seq(Nat) /\ Len(c) = la + 1 /\ c[la + 1] = n + 1
      /\ \A k \in 1 .. la : c[k] = a[k]
  OBVIOUS
<1>3. d \in Seq(Nat) /\ Len(d) = lb + 1 /\ d[lb + 1] = n + 1
      /\ \A k \in 1 .. lb : d[k] = b[k]
  OBVIOUS
<1> HIDE DEF c, d
<1>4. /\ r \in Seq(Nat) /\ Len(r) = la + 1 + lb
      /\ \A k \in 1 .. la + 1 : r[k] = c[k]
      /\ \A k \in 1 .. lb : r[la + 1 + k] = b[k]
  <2>1. /\ r \in Seq(Nat) /\ Len(r) = Len(c) + Len(b)
        /\ \A k \in 1 .. Len(c) : r[k] = c[k]
        /\ \A k \in 1 .. Len(b) : r[Len(c) + k] = b[k]
    BY <1>2, Joined
  <2> HIDE DEF r
  <2> QED BY <1>2, <2>1
<1>5. /\ w \in Seq(Nat) /\ Len(w) = la + (lb + 1)
      /\ \A k \in 1 .. la : w[k] = a[k]
      /\ \A k \in 1 .. lb + 1 : w[la + k] = d[k]
  <2>1. /\ w \in Seq(Nat) /\ Len(w) = Len(a) + Len(d)
        /\ \A k \in 1 .. Len(a) : w[k] = a[k]
        /\ \A k \in 1 .. Len(d) : w[Len(a) + k] = d[k]
    BY <1>3, Joined
  <2> HIDE DEF w
  <2> QED BY <1>3, <2>1
<1>6. la \in Nat /\ lb \in Nat
  OBVIOUS
<1>7. /\ G \subseteq 1 .. n
      /\ \A k \in 1 .. la + lb : q[k] \in 1 .. n /\ q[k] \notin G
      /\ \A j, k \in 1 .. la + lb : q[j] = q[k] => j = k
  BY <1>1 DEF Books
<1> HIDE DEF q, r, w, la, lb
<1>8. ASSUME NEW k \in 1 .. la + 1 + lb, k > la + 1
      PROVE  r[k] = q[k - 1] /\ k - 1 \in 1 .. la + lb
  <2> DEFINE i == k - (la + 1)
  <2>1. i \in 1 .. lb /\ k = la + 1 + i /\ k - 1 = la + i
    BY <1>6, <1>8
  <2> HIDE DEF i
  <2>2. r[la + 1 + i] = b[i]
    BY <1>4, <2>1
  <2>3. q[la + i] = b[i] /\ la + i \in 1 .. la + lb
    BY <1>1, <1>6, <2>1
  <2> QED BY <2>1, <2>2, <2>3
<1>9. ASSUME NEW k \in 1 .. la + (lb + 1), k > la, k < la + lb + 1 PROVE w[k] = q[k]
  <2> DEFINE i == k - la
  <2>1. i \in 1 .. lb /\ i \in 1 .. lb + 1 /\ k = la + i
    BY <1>6, <1>9
  <2> HIDE DEF i
  <2>2. w[la + i] = d[i] /\ d[i] = b[i] /\ q[la + i] = b[i]
    BY <1>1, <1>3, <1>5, <2>1
  <2> QED BY <2>1, <2>2
<1>10. Books(r, n + 1, G)
  <2> DEFINE len == la + lb
  <2>1. len \in Nat /\ Len(r) = len + 1
    BY <1>4, <1>6
  <2>2. /\ G \subseteq 1 .. n
        /\ \A k \in 1 .. len : q[k] \in 1 .. n /\ q[k] \notin G
        /\ \A j, k \in 1 .. len : q[j] = q[k] => j = k
    BY <1>7
  <2>3. ASSUME NEW k \in 1 .. len + 1
        PROVE  \/ k = la + 1 /\ r[k] = n + 1
               \/ \E i \in 1 .. len : r[k] = q[i] /\ k = IF i <= la THEN i ELSE i + 1
    <3>1. CASE k <= la
      <4>1. k \in 1 .. la /\ k \in 1 .. la + 1 /\ k \in 1 .. len
        BY <1>6, <3>1
      <4>2. r[k] = c[k] /\ c[k] = a[k] /\ q[k] = a[k]
        BY <1>1, <1>2, <1>4, <4>1
      <4> QED BY <3>1, <4>1, <4>2
    <3>2. CASE k = la + 1
      <4>1. r[la + 1] = c[la + 1]
        BY <1>4, <1>6
      <4> QED BY <1>2, <3>2, <4>1
    <3>3. CASE k > la + 1
      <4>1. r[k] = q[k - 1] /\ k - 1 \in 1 .. len /\ ~ (k - 1 <= la) /\ k = (k - 1) + 1
        BY <1>6, <1>8, <3>3
      <4> QED BY <4>1
    <3> QED BY <1>6, <3>1, <3>2, <3>3
  <2> HIDE DEF len
  <2>4. ASSUME NEW k \in 1 .. len + 1 PROVE r[k] \in 1 .. n + 1 /\ r[k] \notin G
    <3>1. CASE r[k] = n + 1
      BY <2>2, <3>1
    <3>2. CASE \E i \in 1 .. len : r[k] = q[i]
      <4>1. PICK i \in 1 .. len : r[k] = q[i]
        BY <3>2
      <4>2. q[i] \in 1 .. n /\ q[i] \notin G
        BY <2>2
      <4>3. q[i] \in 1 .. n + 1
        BY <4>2
      <4> QED BY <4>1, <4>2, <4>3
    <3> QED BY <2>3, <3>1, <3>2
  <2>5. ASSUME NEW j \in 1 .. len + 1, NEW k \in 1 .. len + 1, r[j] = r[k]
        PROVE  j = k
    <3>1. CASE r[k] = n + 1
      <4>1. \A i \in 1 .. len : q[i] # n + 1
        BY <2>2
      <4> QED BY <2>3, <2>5, <3>1, <4>1
    <3>2. CASE r[k] # n + 1
      <4>1. PICK i \in 1 .. len : r[k] = q[i] /\ k = IF i <= la THEN i ELSE i + 1
        BY <2>3, <3>2
      <4>2. PICK m \in 1 .. len : r[j] = q[m] /\ j = IF m <= la THEN m ELSE m + 1
        BY <2>3, <2>5, <3>2
      <4>3. i = m
        BY <2>2, <2>5, <4>1, <4>2
      <4> QED BY <4>1, <4>2, <4>3
    <3> QED BY <3>1, <3>2
  <2>6. G \subseteq 1 .. n + 1
    BY <2>2
  <2> QED BY <1>4, <2>1, <2>4, <2>5, <2>6 DEF Books
<1>11. Books(w, n + 1, G)
  <2>1. \A k \in 1 .. la + (lb + 1) :
          \/ k \in 1 .. la + lb /\ w[k] = q[k]
          \/ k = la + lb + 1 /\ w[k] = n + 1
    <3> SUFFICES ASSUME NEW k \in 1 .. la + (lb + 1)
                 PROVE  \/ k \in 1 .. la + lb /\ w[k] = q[k]
                        \/ k = la + lb + 1 /\ w[k] = n + 1
      OBVIOUS
    <3>1. CASE k <= la
      BY <1>1, <1>5, <1>6, <3>1
    <3>2. CASE k > la /\ k < la + lb + 1
      BY <1>6, <1>9, <3>2
    <3>3. CASE k = la + lb + 1
      <4>1. w[la + (lb + 1)] = d[lb + 1]
        BY <1>5, <1>6
      <4> QED BY <1>3, <1>6, <3>3, <4>1
    <3> QED BY <1>6, <3>1, <3>2, <3>3
  <2>2. \A k \in 1 .. la + (lb + 1) : w[k] \in 1 .. n + 1 /\ w[k] \notin G
    BY <1>6, <1>7, <2>1, SMTT(30)
  <2>3. ASSUME NEW j \in 1 .. la + (lb + 1), NEW k \in 1 .. la + (lb + 1), w[j] = w[k]
        PROVE  j = k
    BY <1>6, <1>7, <2>1, <2>3, SMTT(30)
  <2>4. G \subseteq 1 .. n + 1
    BY <1>7
  <2> QED BY <1>5, <2>2, <2>3, <2>4 DEF Books
<1> QED BY <1>10, <1>11 DEF c, d, r, w

(* The oldest chunks may be dropped (trimPendingTerminalData).              *)
LEMMA BooksTrimmed ==
  ASSUME NEW a \in Seq(Nat), NEW b \in Seq(Nat), NEW n \in Nat, NEW G, Books(a \o b, n, G),
         NEW i \in 0 .. Len(b)
  PROVE  Books(a \o SubSeq(b, i + 1, Len(b)), n, G \cup {b[k] : k \in 1 .. i})
<1> DEFINE q == a \o b
           d == SubSeq(b, i + 1, Len(b))
           w == a \o d
           H == G \cup {b[k] : k \in 1 .. i}
           la == Len(a)
           lb == Len(b)
<1>1. /\ Len(q) = la + lb /\ q \in Seq(Nat)
      /\ \A k \in 1 .. la : q[k] = a[k]
      /\ \A k \in 1 .. lb : q[la + k] = b[k]
  BY Joined
<1>2. d \in Seq(Nat) /\ Len(d) = lb - i /\ \A k \in 1 .. lb - i : d[k] = b[i + k]
  OBVIOUS
<1> HIDE DEF d
<1>3. /\ w \in Seq(Nat) /\ Len(w) = la + (lb - i)
      /\ \A k \in 1 .. la : w[k] = a[k]
      /\ \A k \in 1 .. lb - i : w[la + k] = d[k]
  <2>1. /\ w \in Seq(Nat) /\ Len(w) = Len(a) + Len(d)
        /\ \A k \in 1 .. Len(a) : w[k] = a[k]
        /\ \A k \in 1 .. Len(d) : w[Len(a) + k] = d[k]
    BY <1>2, Joined
  <2> HIDE DEF w
  <2> QED BY <1>2, <2>1
<1>4. la \in Nat /\ lb \in Nat /\ i \in 0 .. lb
  OBVIOUS
<1>5. /\ G \subseteq 1 .. n
      /\ \A k \in 1 .. la + lb : q[k] \in 1 .. n /\ q[k] \notin G
      /\ \A j, k \in 1 .. la + lb : q[j] = q[k] => j = k
  BY <1>1 DEF Books
<1>6. \A h \in H : h \in G \/ \E k \in 1 .. i : h = b[k]
  OBVIOUS
<1> HIDE DEF q, w, H, la, lb
<1>7. \A h \in H : h \in G \/ \E k \in 1 .. la + lb : k > la /\ k <= la + i /\ h = q[k]
  <2> SUFFICES ASSUME NEW h \in H, NEW k \in 1 .. i, h = b[k]
               PROVE  \E m \in 1 .. la + lb : m > la /\ m <= la + i /\ h = q[m]
    BY <1>6
  <2>1. la + k \in 1 .. la + lb /\ la + k > la /\ la + k <= la + i /\ k \in 1 .. lb
    BY <1>4
  <2> QED BY <1>1, <2>1
<1>8. ASSUME NEW k \in 1 .. la + (lb - i), k > la
      PROVE  w[k] = q[k + i] /\ k + i \in 1 .. la + lb
  <2> DEFINE j == k - la
  <2>1. j \in 1 .. lb - i /\ k = la + j /\ i + j \in 1 .. lb /\ k + i = la + (i + j)
    BY <1>4, <1>8
  <2> HIDE DEF j
  <2>2. w[la + j] = d[j]
    BY <1>3, <2>1
  <2>3. q[la + (i + j)] = b[i + j] /\ la + (i + j) \in 1 .. la + lb
    BY <1>1, <1>4, <2>1
  <2>4. d[j] = b[i + j]
    BY <1>2, <2>1
  <2> QED BY <2>1, <2>2, <2>3, <2>4
<1>9. ASSUME NEW k \in 1 .. la + (lb - i)
      PROVE  \E m \in 1 .. la + lb : /\ w[k] = q[m] /\ (m <= la \/ m > la + i)
                                     /\ m = IF k <= la THEN k ELSE k + i
  <2>1. CASE k <= la
    <3>1. k \in 1 .. la /\ k \in 1 .. la + lb
      BY <1>4, <2>1
    <3>2. w[k] = q[k]
      BY <1>1, <1>3, <3>1
    <3> QED BY <2>1, <3>1, <3>2
  <2>2. CASE k > la
    <3>1. w[k] = q[k + i] /\ k + i \in 1 .. la + lb /\ k + i > la + i /\ ~ (k <= la)
      BY <1>4, <1>8, <2>2
    <3> QED BY <3>1
  <2> QED BY <1>4, <2>1, <2>2
<1>10. H \subseteq 1 .. n
  BY <1>5, <1>7
<1>11. \A k \in 1 .. la + (lb - i) : w[k] \in 1 .. n
  BY <1>5, <1>9
<1>12. ASSUME NEW k \in 1 .. la + (lb - i) PROVE w[k] \notin H
  <2> SUFFICES ASSUME w[k] \in H PROVE FALSE
    OBVIOUS
  <2>1. PICK m \in 1 .. la + lb : q[m] = w[k] /\ (m <= la \/ m > la + i)
    BY <1>9
  <2>2. w[k] \notin G
    BY <1>5, <2>1
  <2>3. PICK o \in 1 .. la + lb : o > la /\ o <= la + i /\ w[k] = q[o]
    BY <1>7, <2>2
  <2>4. m = o
    BY <1>5, <2>1, <2>3
  <2> QED BY <1>4, <2>1, <2>3, <2>4
<1>13. ASSUME NEW j \in 1 .. la + (lb - i), NEW k \in 1 .. la + (lb - i), w[j] = w[k]
       PROVE  j = k
  <2>1. PICK m \in 1 .. la + lb : /\ w[k] = q[m] /\ (m <= la \/ m > la + i)
                                  /\ m = IF k <= la THEN k ELSE k + i
    BY <1>9
  <2>2. PICK o \in 1 .. la + lb : /\ w[j] = q[o] /\ (o <= la \/ o > la + i)
                                  /\ o = IF j <= la THEN j ELSE j + i
    BY <1>9
  <2>3. m = o
    BY <1>5, <1>13, <2>1, <2>2
  <2> QED BY <1>4, <2>1, <2>2, <2>3
<1> QED BY <1>3, <1>10, <1>11, <1>12, <1>13 DEF Books, w, d, H

(* A step that moves chunks keeps the ledger.                               *)
LEMMA LedgerLed ==
  ASSUME NEW s, NEW t, NEW u, NEW n, Leads(s, t, u), Ledger(t, n)
  PROVE  Ledger(u, n)
  BY DEF Leads, Ledger

(* A chunk written at once.                                                 *)
LEMMA ChunkWritten ==
  ASSUME NEW s, NEW t \in Terminals, NEW n \in Nat, Ledger(t, n)
  PROVE  LET u == Written(t, <<n + 1>>) IN
         /\ u \in Terminals /\ Ledger(u, n + 1) /\ Stays(t, u)
         /\ u.passes = TRUE => t.passes = TRUE \/ s \in Codex
         /\ u.at = "read" /\ u.follow = TRUE =>
              view = "detached" \/ (t.at = "read" /\ t.follow = TRUE)
<1> DEFINE c == <<n + 1>>
           u == Written(t, c)
           g == [t EXCEPT !.screen = @ \o c]
<1>1. c \in Seq(Nat)
  OBVIOUS
<1>2. /\ t.screen \in Seq(Nat) /\ t.pending \in Seq(Nat)
      /\ Books((t.screen \o c) \o t.pending, n + 1, t.gone)
  BY BooksAdded DEF Ledger, Terminals
<1> HIDE DEF c
<1>3. /\ g.gone = t.gone /\ g.passes = t.passes /\ g.at = t.at /\ g.follow = t.follow
      /\ g.screen = t.screen \o c /\ g.pending = t.pending
  BY DEF Terminals
<1>4. Leads(s, g, u) /\ Stays(t, u)
  BY <1>1, WrittenGrows
<1> HIDE DEF g, u
<1>5. Ledger(g, n + 1)
  BY <1>2, <1>3 DEF Ledger
<1>6. Ledger(u, n + 1)
  BY <1>4, <1>5, LedgerLed
<1> QED BY <1>3, <1>4, <1>6 DEF Leads, u, c

(* A chunk that waits: in a batch, which may be cut short, or in the queue, *)
(* which may be trimmed.                                                    *)
LEMMA ChunkQueued ==
  ASSUME NEW s, NEW t \in Terminals, NEW n \in Nat, Ledger(t, n)
  PROVE  LET u == Queued(t, n + 1) IN
         /\ u \in Terminals /\ Ledger(u, n + 1) /\ Stays(t, u)
         /\ u.passes = TRUE => t.passes = TRUE \/ s \in Codex
         /\ u.at = "read" /\ u.follow = TRUE =>
              view = "detached" \/ (t.at = "read" /\ t.follow = TRUE)
<1> DEFINE more == Append(t.pending, n + 1)
           u == Queued(t, n + 1)
<1>1. /\ t.screen \in Seq(Nat) /\ t.pending \in Seq(Nat) /\ t.gone \subseteq Nat
      /\ Books(t.screen \o more, n + 1, t.gone)
  BY BooksAdded DEF Ledger, Terminals
<1>2. more \in Seq(Nat) /\ Len(more) \in Nat
  BY <1>1
<1>3. CASE t.batch = "on" /\ Len(more) > BatchCap
  <2> DEFINE g == [t EXCEPT !.pending = more, !.batch = "off"]
  <2>1. u = FlushPending(g, "plain", FALSE)
    BY <1>3 DEF Queued
  <2> HIDE DEF u, more
  <2>2. /\ g \in Terminals /\ g.gone = t.gone /\ g.passes = t.passes /\ g.at = t.at
        /\ g.follow = t.follow /\ g.screen = t.screen /\ g.pending = more /\ g.auto = t.auto
    BY <1>2 DEF Terminals
  <2> HIDE DEF g
  <2>3. Leads(s, g, u) /\ Stays(g, u)
    BY <2>1, <2>2, FlushLeads
  <2>4. Ledger(g, n + 1)
    BY <1>1, <2>2 DEF Ledger
  <2>5. Ledger(u, n + 1)
    BY <2>3, <2>4, LedgerLed
  <2> QED BY <2>2, <2>3, <2>5 DEF Leads, Stays, Reader, u
<1>4. CASE t.batch = "on" /\ ~ (Len(more) > BatchCap)
  <2>1. u = [t EXCEPT !.pending = more]
    BY <1>4 DEF Queued
  <2> HIDE DEF u, more
  <2>2. /\ u \in Terminals /\ u.gone = t.gone /\ u.passes = t.passes /\ u.at = t.at
        /\ u.follow = t.follow /\ u.screen = t.screen /\ u.pending = more /\ u.auto = t.auto
    BY <1>2, <2>1 DEF Terminals
  <2> QED BY <1>1, <2>2 DEF Ledger, Stays, Reader, u
<1>5. CASE t.batch # "on"
  <2> DEFINE over == IF Len(more) > Cap THEN Len(more) - Cap ELSE 0
             rest == SubSeq(more, over + 1, Len(more))
             lost == t.gone \cup {more[k] : k \in 1 .. over}
  <2>1. u = [t EXCEPT !.pending = rest, !.gone = lost]
    BY <1>5 DEF Queued
  <2> HIDE DEF more
  <2>2. over \in 0 .. Len(more)
    BY <1>2, OutputAssumption DEF OutputAssumption
  <2> HIDE DEF over
  <2>3. Books(t.screen \o rest, n + 1, lost)
    <3> DEFINE scr == t.screen
               gon == t.gone
               m == n + 1
    <3>1. scr \in Seq(Nat) /\ m \in Nat /\ Books(scr \o more, m, gon)
      BY <1>1
    <3> HIDE DEF scr, gon, m, rest, lost
    <3>2. Books(scr \o SubSeq(more, over + 1, Len(more)), m, gon \cup {more[k] : k \in 1 .. over})
      BY <1>2, <2>2, <3>1, BooksTrimmed
    <3> QED BY <3>2 DEF scr, gon, m, rest, lost
  <2>4. rest \in Seq(Nat) /\ lost \in SUBSET Nat
    <3>1. rest \in Seq(Nat)
      BY <1>2, <2>2
    <3> HIDE DEF rest
    <3>2. lost \subseteq 1 .. n + 1
      BY <2>3 DEF Books
    <3> QED BY <3>1, <3>2
  <2> HIDE DEF u, rest, lost
  <2>5. /\ u \in Terminals /\ u.gone = lost /\ u.passes = t.passes /\ u.at = t.at
        /\ u.follow = t.follow /\ u.screen = t.screen /\ u.pending = rest /\ u.auto = t.auto
    BY <2>1, <2>4 DEF Terminals
  <2> QED BY <2>3, <2>5 DEF Ledger, Stays, Reader, u
<1> QED BY <1>3, <1>4, <1>5

(* The start of a forced follow.                                            *)
LEMMA FollowingLeads ==
  ASSUME NEW s, NEW t \in Terminals
  PROVE  Leads(s, t, Following(t))
  BY DEF Leads, Following, Snapped, Terminals

(* detachSlot.                                                              *)
LEMMA DetachedLeads ==
  ASSUME NEW s, NEW t \in Terminals
  PROVE  Leads(s, t, Detached(t)) /\ Stays(t, Detached(t))
<1> DEFINE u == [t EXCEPT !.place = "away", !.waits = @ \ {"pane"}]
<1>1. Leads(s, t, u) /\ Stays(t, u)
  BY DEF Leads, Stays, Reader, Terminals
<1>2. Leads(s, t, t) /\ Stays(t, t)
  BY LeadsSelf DEF Stays
<1> HIDE DEF u
<1>3. Detached(t) \in {t, u}
  BY DEF Detached, u
<1> QED BY <1>1, <1>2, <1>3

(* attachToSlot takes only the readers of Codex sessions to the bottom.     *)
LEMMA InSlotLeads ==
  ASSUME NEW s, NEW t \in Terminals, NEW resized
  PROVE  /\ Leads(s, t, InSlot(s, t, resized))
         /\ s \notin Codex => Stays(t, InSlot(s, t, resized))
<1> DEFINE u == [t EXCEPT !.place = "pane", !.handler = IF @ = "none" THEN "pane" ELSE @]
           waiting == [u EXCEPT !.waits = @ \cup {"pane"}]
           flushed == Sized(FlushPending(u, "plain", FALSE), resized)
           shown == IF ~t.made THEN t ELSE IF t.place = "none" THEN waiting ELSE flushed
           stuck == [Snapped(shown) EXCEPT
                       !.passes = @ \/ (view # "detached" /\ t.place # "none")]
<1>1. Leads(s, t, u) /\ Stays(t, u) /\ u \in Terminals
  <2>1. u \in Terminals
    BY DEF Terminals
  <2>2. /\ u.screen = t.screen /\ u.pending = t.pending /\ u.gone = t.gone
        /\ u.passes = t.passes /\ u.at = t.at /\ u.follow = t.follow /\ u.auto = t.auto
    BY DEF Terminals
  <2> HIDE DEF u
  <2> QED BY <2>1, <2>2 DEF Leads, Stays, Reader
<1>2. InSlot(s, t, resized) = IF s \in Codex /\ t.made THEN stuck ELSE shown
  BY DEF InSlot
<1> HIDE DEF u
<1>3. Leads(s, u, waiting) /\ Stays(u, waiting)
  BY <1>1 DEF Leads, Stays, Reader, Terminals
<1>4. Leads(s, u, flushed) /\ Stays(u, flushed)
  <2>1. /\ Leads(s, u, FlushPending(u, "plain", FALSE))
        /\ Stays(u, FlushPending(u, "plain", FALSE))
    BY <1>1, FlushLeads
  <2>2. /\ Leads(s, FlushPending(u, "plain", FALSE), flushed)
        /\ Stays(FlushPending(u, "plain", FALSE), flushed)
    BY <2>1, SizedLeads DEF Leads
  <2> QED BY <2>1, <2>2, LeadsAlong DEF Stays
<1> HIDE DEF waiting, flushed
<1>5. Leads(s, t, shown) /\ Stays(t, shown)
  <2>1. Leads(s, t, waiting) /\ Stays(t, waiting)
    BY <1>1, <1>3, LeadsAlong DEF Stays
  <2>2. Leads(s, t, flushed) /\ Stays(t, flushed)
    BY <1>1, <1>4, LeadsAlong DEF Stays
  <2>3. Leads(s, t, t) /\ Stays(t, t)
    BY LeadsSelf DEF Stays
  <2>4. shown \in {t, waiting, flushed}
    OBVIOUS
  <2> HIDE DEF shown
  <2> QED BY <2>1, <2>2, <2>3, <2>4
<1> HIDE DEF shown
<1>6. ASSUME s \in Codex PROVE Leads(s, t, stuck)
  <2> DEFINE v == Snapped(shown)
             more == v.passes \/ (view # "detached" /\ t.place # "none")
  <2>1. Leads(s, shown, v) /\ v \in Terminals
    BY <1>5, SnappedLeads DEF Leads
  <2>2. more \in BOOLEAN
    OBVIOUS
  <2>3. stuck = [v EXCEPT !.passes = more]
    OBVIOUS
  <2> HIDE DEF more, v, stuck
  <2>4. Leads(s, v, stuck)
    BY <1>6, <2>1, <2>2, <2>3 DEF Leads, Terminals
  <2> QED BY <1>5, <2>1, <2>4, LeadsAlong
<1> QED BY <1>2, <1>5, <1>6

-----------------------------------------------------------------------------
(* All terminals, and the grid.                                             *)
(* A step of all terminals of which only the readers of X may be disturbed. *)
Keeps(X, a, b) ==
  /\ a \in [Sessions -> Terminals] /\ b \in [Sessions -> Terminals]
  /\ \A o \in Sessions : Leads(o, a[o], b[o])
  /\ \A o \in Sessions : o \notin X => Stays(a[o], b[o])

(* Such steps compose.                                                      *)
LEMMA KeepsAlong ==
  ASSUME NEW X, NEW Y, NEW a, NEW b, NEW c, Keeps(X, a, b), Keeps(Y, b, c)
  PROVE  Keeps(X \cup Y, a, c)
<1>1. ASSUME NEW o \in Sessions PROVE Leads(o, a[o], c[o])
  BY LeadsAlong DEF Keeps
<1>2. ASSUME NEW o \in Sessions, o \notin X \cup Y PROVE Stays(a[o], c[o])
  BY <1>2 DEF Keeps, Stays
<1> QED BY <1>1, <1>2 DEF Keeps

(* More readers may be disturbed than are.                                  *)
LEMMA KeepsMore ==
  ASSUME NEW X, NEW Y, X \subseteq Y, NEW a, NEW b, Keeps(X, a, b)
  PROVE  Keeps(Y, a, b)
  BY DEF Keeps

(* Nothing happened.                                                        *)
LEMMA KeepsSelf ==
  ASSUME NEW a \in [Sessions -> Terminals]
  PROVE  Keeps({}, a, a)
  BY LeadsSelf DEF Keeps, Stays

(* A step of one terminal.                                                  *)
LEMMA KeepsOne ==
  ASSUME NEW X, NEW a \in [Sessions -> Terminals], NEW s, NEW u,
         s \in Sessions => Leads(s, a[s], u),
         s \in Sessions /\ s \notin X => Stays(a[s], u)
  PROVE  Keeps(X, a, [a EXCEPT ![s] = u])
<1> DEFINE b == [a EXCEPT ![s] = u]
<1>1. \A o \in Sessions : b[o] = IF o = s THEN u ELSE a[o]
  OBVIOUS
<1>2. s \in Sessions => u \in Terminals
  BY DEF Leads
<1>3. b \in [Sessions -> Terminals]
  BY <1>2
<1> HIDE DEF b
<1>4. ASSUME NEW o \in Sessions PROVE Leads(o, a[o], b[o])
  <2>1. Leads(o, a[o], a[o])
    BY LeadsSelf
  <2> QED BY <1>1, <2>1
<1>5. ASSUME NEW o \in Sessions, o \notin X PROVE Stays(a[o], b[o])
  BY <1>1, <1>5 DEF Stays
<1> QED BY <1>3, <1>4, <1>5 DEF Keeps, b

(* attachTerminal disturbs the reader of the session it attaches.           *)
LEMMA AttachedKeeps ==
  ASSUME NEW s, NEW tm \in [Sessions -> Terminals], NEW resized
  PROVE  Keeps({s}, tm, Attached(s, tm, resized))
<1> DEFINE away == [o \in Sessions |-> IF tm[o].place = "area"
                                       THEN [tm[o] EXCEPT !.place = "away"]
                                       ELSE tm[o]]
           t == [away[s] EXCEPT !.made = TRUE, !.auto = TRUE]
           u == IF t.place = "none"
                THEN [t EXCEPT !.place = "area", !.waits = @ \cup {"area"}]
                ELSE FlushPending(t, "attach", resized)
<1>1. ASSUME NEW o \in Sessions PROVE Leads(o, tm[o], away[o]) /\ Stays(tm[o], away[o])
  <2>1. /\ Leads(o, tm[o], [tm[o] EXCEPT !.place = "away"])
        /\ Stays(tm[o], [tm[o] EXCEPT !.place = "away"])
    <3> DEFINE v == tm[o]
    <3>1. v \in Terminals
      OBVIOUS
    <3> HIDE DEF v
    <3>2. /\ Leads(o, v, [v EXCEPT !.place = "away"])
          /\ Stays(v, [v EXCEPT !.place = "away"])
      BY <3>1 DEF Leads, Stays, Reader, Terminals
    <3> QED BY <3>2 DEF v
  <2>2. Leads(o, tm[o], tm[o]) /\ Stays(tm[o], tm[o])
    BY LeadsSelf DEF Stays
  <2> QED BY <2>1, <2>2
<1>2. Keeps({}, tm, away)
  <2>1. \A o \in Sessions : away[o] \in Terminals
    BY <1>1 DEF Leads
  <2>2. away \in [Sessions -> Terminals]
    BY <2>1
  <2> HIDE DEF away
  <2> QED BY <1>1, <2>2 DEF Keeps
<1>3. Attached(s, tm, resized) = [away EXCEPT ![s] = u]
  BY DEF Attached
<1> HIDE DEF away
<1>4. ASSUME s \in Sessions PROVE Leads(s, away[s], u)
  <2> DEFINE v == away[s]
  <2>1. v \in Terminals
    BY <1>2, <1>4 DEF Keeps
  <2> HIDE DEF v
  <2>2. Leads(s, v, [v EXCEPT !.made = TRUE, !.auto = TRUE])
    BY <2>1 DEF Leads, Terminals
  <2>3. t = [v EXCEPT !.made = TRUE, !.auto = TRUE]
    BY DEF v
  <2> HIDE DEF t
  <2>4. t \in Terminals
    BY <2>2, <2>3 DEF Leads
  <2>5. Leads(s, t, [t EXCEPT !.place = "area", !.waits = @ \cup {"area"}])
    BY <2>4 DEF Leads, Terminals
  <2>6. Leads(s, t, FlushPending(t, "attach", resized))
    BY <2>4, FlushLeads
  <2>7. Leads(s, t, u)
    BY <2>5, <2>6
  <2>8. Leads(s, v, u)
    BY <2>2, <2>3, <2>7, LeadsAlong
  <2> QED BY <2>8 DEF v
<1> HIDE DEF t, u
<1>5. Keeps({s}, away, [away EXCEPT ![s] = u])
  <2>1. away \in [Sessions -> Terminals]
    BY <1>2 DEF Keeps
  <2> QED BY <1>4, <2>1, KeepsOne
<1>6. Keeps({} \cup {s}, tm, [away EXCEPT ![s] = u])
  BY <1>2, <1>5, KeepsAlong
<1> QED BY <1>3, <1>6, KeepsMore

(* ensureTerminal.                                                          *)
LEMMA MadeKeeps ==
  ASSUME NEW s, NEW tm \in [Sessions -> Terminals]
  PROVE  Keeps({}, tm, Made(s, tm))
<1> DEFINE t == tm[s]
           u == [t EXCEPT !.made = TRUE]
<1>1. Made(s, tm) = [tm EXCEPT ![s] = u]
  BY DEF Made
<1>2. s \in Sessions => t \in Terminals
  OBVIOUS
<1> HIDE DEF t
<1>3. s \in Sessions => Leads(s, t, u) /\ Stays(t, u)
  BY <1>2 DEF Leads, Stays, Reader, Terminals
<1> HIDE DEF u
<1>4. s \in Sessions => Leads(s, tm[s], u) /\ Stays(tm[s], u)
  BY <1>3 DEF t
<1>5. Keeps({}, tm, [tm EXCEPT ![s] = u])
  BY <1>4, KeepsOne
<1> QED BY <1>1, <1>5

(* Taking the grid down disturbs nobody.                                    *)
LEMMA TeardownKeeps ==
  ASSUME NEW tm \in [Sessions -> Terminals]
  PROVE  Keeps({}, tm, Teardown(tm))
<1>1. \A o \in Sessions : /\ Leads(o, tm[o], Detached(tm[o]))
                          /\ Stays(tm[o], Detached(tm[o]))
  BY DetachedLeads
<1>2. \A o \in Sessions : Detached(tm[o]) \in Terminals
  BY <1>1 DEF Leads
<1>3. Teardown(tm) \in [Sessions -> Terminals]
      /\ \A o \in Sessions : Teardown(tm)[o] = Detached(tm[o])
  BY <1>2 DEF Teardown
<1> QED BY <1>1, <1>3 DEF Keeps

(* Filling the panes disturbs only readers of Codex sessions.               *)
LEMMA ShownKeeps ==
  ASSUME NEW sl, NEW tm \in [Sessions -> Terminals], NEW resized
  PROVE  Keeps(Codex, tm, Shown(sl, tm, resized))
<1> DEFINE um == Shown(sl, tm, resized)
<1>1. \A o \in Sessions : um[o] = InSlot(o, tm[o], resized) \/ um[o] = tm[o]
  BY DEF Shown
<1>2. ASSUME NEW o \in Sessions
      PROVE  Leads(o, tm[o], um[o]) /\ (o \notin Codex => Stays(tm[o], um[o]))
  <2>1. /\ Leads(o, tm[o], InSlot(o, tm[o], resized))
        /\ o \notin Codex => Stays(tm[o], InSlot(o, tm[o], resized))
    BY InSlotLeads
  <2>2. Leads(o, tm[o], tm[o]) /\ Stays(tm[o], tm[o])
    BY LeadsSelf DEF Stays
  <2> HIDE DEF um
  <2> QED BY <1>1, <2>1, <2>2
<1>3. \A o \in Sessions : um[o] \in Terminals
  BY <1>2 DEF Leads
<1>4. um \in [Sessions -> Terminals]
  BY <1>3 DEF Shown
<1> HIDE DEF um
<1> QED BY <1>2, <1>4 DEF Keeps, um

(* activateSessionForMultiPane disturbs the session it follows.             *)
LEMMA ForMultiKeeps ==
  ASSUME NEW s, NEW tm \in [Sessions -> Terminals]
  PROVE  Keeps({s}, tm, ForMultiPane(s, tm))
<1> DEFINE u == Following(tm[s])
<1>1. s \in Sessions => Leads(s, tm[s], u)
  BY FollowingLeads
<1> HIDE DEF u
<1>2. Keeps({s}, tm, [tm EXCEPT ![s] = u])
  BY <1>1, KeepsOne
<1>3. Keeps({s}, tm, tm)
  BY KeepsSelf, KeepsMore
<1>4. ForMultiPane(s, tm) \in {tm, [tm EXCEPT ![s] = u]}
  BY DEF ForMultiPane, u
<1> QED BY <1>2, <1>3, <1>4

(* Taking the grid down and filling it again.                               *)
LEMMA RebuiltKeeps ==
  ASSUME NEW sl, NEW tm \in [Sessions -> Terminals], NEW resized
  PROVE  Keeps(Codex, tm, Shown(sl, Teardown(tm), resized))
<1>1. Keeps({}, tm, Teardown(tm))
  BY TeardownKeeps
<1>2. Keeps(Codex, Teardown(tm), Shown(sl, Teardown(tm), resized))
  BY <1>1, ShownKeeps DEF Keeps
<1>3. Keeps({} \cup Codex, tm, Shown(sl, Teardown(tm), resized))
  BY <1>1, <1>2, KeepsAlong
<1> QED BY <1>3, KeepsMore

(* activateSession disturbs the session that becomes the active one.        *)
LEMMA ActivateKeeps ==
  ASSUME NEW s, NEW tm \in [Sessions -> Terminals], NEW resized,
         ActivateSession(s, tm, resized)
  PROVE  Keeps({s}, tm, term') /\ active' = s /\ (view = "detached" => view' = "detached")
<1>1. CASE view = "multi"
  BY <1>1, ForMultiKeeps DEF ActivateSession
<1>2. CASE view # "multi"
  <2> DEFINE um == Attached(s, Made(s, tm), resized)
             u == Fronted(um[s])
  <2>1. active' = s /\ (view = "detached" => view' = "detached")
    BY <1>2 DEF ActivateSession
  <2>10. term' = [um EXCEPT ![s] = u]
    BY <1>2 DEF ActivateSession
  <2>2. Keeps({}, tm, Made(s, tm))
    BY MadeKeeps
  <2>3. Keeps({s}, Made(s, tm), um)
    BY <2>2, AttachedKeeps DEF Keeps
  <2>4. um \in [Sessions -> Terminals]
    BY <2>3 DEF Keeps
  <2> HIDE DEF um
  <2>5. s \in Sessions => Leads(s, um[s], u)
    <3> DEFINE v == um[s]
               w == Following(v)
               b == w.stick \/ view # "detached"
    <3> SUFFICES ASSUME s \in Sessions PROVE Leads(s, um[s], u)
      OBVIOUS
    <3>1. v \in Terminals
      BY <2>4
    <3>2. u = [w EXCEPT !.stick = b]
      BY DEF Fronted
    <3>3. b \in BOOLEAN
      OBVIOUS
    <3> HIDE DEF u, v, b
    <3>4. Leads(s, v, w) /\ w \in Terminals
      BY <3>1, FollowingLeads DEF Leads
    <3> HIDE DEF w
    <3>5. Leads(s, w, u)
      BY <3>2, <3>3, <3>4 DEF Leads, Terminals
    <3>6. Leads(s, v, u)
      BY <3>4, <3>5, LeadsAlong
    <3> QED BY <3>6 DEF v
  <2> HIDE DEF u
  <2>6. Keeps({s}, um, [um EXCEPT ![s] = u])
    BY <2>4, <2>5, KeepsOne
  <2>7. Keeps({} \cup {s}, tm, um)
    BY <2>2, <2>3, KeepsAlong
  <2>8. Keeps(({} \cup {s}) \cup {s}, tm, [um EXCEPT ![s] = u])
    BY <2>6, <2>7, KeepsAlong
  <2>9. Keeps({s}, tm, [um EXCEPT ![s] = u])
    BY <2>8, KeepsMore
  <2> QED BY <2>1, <2>9, <2>10
<1> QED BY <1>1, <1>2

(* render of the Multi grid.                                                *)
LEMMA MultiKeeps ==
  ASSUME NEW kn, NEW out, NEW ord, NEW n, NEW tm \in [Sessions -> Terminals], NEW resized,
         RenderMulti(kn, out, ord, n, tm, resized)
  PROVE  Keeps(Codex, tm, term')
<1> DEFINE sl == SlotsOf(Known(ord, kn \ out, Ascending), kn \ out, n)
<1>1. term' = Shown(sl, Teardown(tm), resized)
  BY DEF RenderMulti
<1> HIDE DEF sl
<1> QED BY <1>1, RebuiltKeeps

(* render of the page disturbs readers of Codex sessions, or activates a    *)
(* session where none is active.                                            *)
LEMMA RenderKeeps ==
  ASSUME NEW kn, NEW tm \in [Sessions -> Terminals], NEW resized, Render(kn, tm, resized)
  PROVE  /\ view = "detached" => view' = "detached"
         /\ \/ Keeps(Codex, tm, term')
            \/ active = None /\ \E s : active' = s /\ Keeps({s}, tm, term')
<1>1. CASE active = None /\ kn # {}
  <2>1. PICK s \in kn : ActivateSession(s, tm, resized)
    BY <1>1 DEF Render
  <2> QED BY <1>1, <2>1, ActivateKeeps
<1>2. CASE ~(active = None /\ kn # {})
  <2>1. view' = view
    BY <1>2 DEF Render
  <2>2. CASE view = "multi"
    <3>1. RenderMulti(kn, leaving, order, size, tm, resized)
      BY <1>2, <2>2 DEF Render
    <3> QED BY <2>1, <3>1, MultiKeeps
  <2>3. CASE view # "multi"
    <3>1. term' = tm
      BY <1>2, <2>3 DEF Render
    <3>2. Keeps(Codex, tm, tm)
      BY KeepsSelf, KeepsMore
    <3> QED BY <2>1, <3>1, <3>2
  <2> QED BY <2>2, <2>3
<1> QED BY <1>1, <1>2

(* focusSlot disturbs at most the session it activates.                     *)
LEMMA FocusKeeps ==
  ASSUME NEW i, NEW sl, NEW tm \in [Sessions -> Terminals], FocusSlot(i, sl, tm)
  PROVE  Keeps({}, tm, term') \/ \E s : active' = s /\ Keeps({s}, tm, term')
<1>1. CASE term' = tm
  BY <1>1, KeepsSelf
<1>2. CASE active' = sl[i] /\ term' = ForMultiPane(sl[i], tm)
  <2>1. Keeps({sl[i]}, tm, term')
    BY <1>2, ForMultiKeeps
  <2> QED BY <1>2, <2>1
<1> QED BY <1>1, <1>2 DEF FocusSlot

-----------------------------------------------------------------------------
(* The page: every action keeps the invariant, and the readers.             *)
(* The inductive invariant: the types, the ledger of every terminal, forced *)
(* passes only for Codex sessions, and no reader under a follow but in a    *)
(* detached window, whose buttons do not stop one.                          *)
Sound(tm, n) ==
  /\ tm \in [Sessions -> Terminals] /\ n \in Nat
  /\ \A s \in Sessions :
       /\ Ledger(tm[s], n)
       /\ tm[s].passes = TRUE => s \in Codex
       /\ tm[s].at = "read" /\ tm[s].follow = TRUE => view = "detached"

Inv == Sound(term, sent)

(* What ReadersStay allows to disturb a reader.                             *)
Excused(s) ==
  \/ Fetched(s) \/ HistoryReset(s) \/ RemoveLocalSession(s) \/ Reopened
  \/ term[s].stick \/ Attaching(term[s])
  \/ view = "detached" /\ term[s].follow
  \/ s \in Codex /\ (Rebuilt \/ ForcedPass(s))

(* What every step has to do: keep the invariant and disturb no reader      *)
(* without excuse.                                                          *)
Good ==
  /\ Inv'
  /\ \A s \in Sessions : Reader(term[s]) => Reader(term'[s]) \/ Excused(s)

(* The invariant needs no more of a step of the terminals.                  *)
LEMMA SoundKept ==
  ASSUME NEW X, NEW a, NEW b, NEW n, Sound(a, n), Keeps(X, a, b)
  PROVE  Sound(b, n)
<1> SUFFICES ASSUME NEW s \in Sessions
             PROVE  /\ Ledger(b[s], n)
                    /\ b[s].passes = TRUE => s \in Codex
                    /\ b[s].at = "read" /\ b[s].follow = TRUE => view = "detached"
  BY DEF Sound, Keeps
<1>1. Leads(s, a[s], b[s]) /\ Ledger(a[s], n)
  BY DEF Sound, Keeps
<1>2. Ledger(b[s], n)
  BY <1>1, LedgerLed
<1> QED BY <1>1, <1>2 DEF Sound, Leads

(* A detached window stays one, so that the invariant passes to the next    *)
(* state.                                                                   *)
LEMMA SoundNext ==
  ASSUME Sound(term', sent'), view = "detached" => view' = "detached"
  PROVE  Inv'
  BY DEF Sound, Inv, Ledger, Books

(* A step of the terminals, without a chunk, that disturbs only those with  *)
(* an excuse.                                                               *)
LEMMA QuietIsGood ==
  ASSUME Inv, sent' = sent, view = "detached" => view' = "detached",
         NEW X, Keeps(X, term, term'),
         \A o \in Sessions : o \in X /\ Reader(term[o]) => Excused(o)
  PROVE  Good
<1>1. Sound(term', sent)
  BY SoundKept DEF Inv
<1>2. Inv'
  BY <1>1, SoundNext
<1>3. \A o \in Sessions : Reader(term[o]) => Reader(term'[o]) \/ Excused(o)
  BY DEF Keeps, Stays
<1> QED BY <1>2, <1>3 DEF Good

(* The same of one terminal.                                                *)
LEMMA OneIsGood ==
  ASSUME Inv, sent' = sent, view = "detached" => view' = "detached",
         NEW s, NEW u, term' = [term EXCEPT ![s] = u],
         s \in Sessions => Leads(s, term[s], u),
         s \in Sessions => Stays(term[s], u) \/ (Reader(term[s]) => Excused(s))
  PROVE  Good
<1>1. term \in [Sessions -> Terminals]
  BY DEF Inv, Sound
<1>2. CASE s \in Sessions => Stays(term[s], u)
  <2>1. Keeps({}, term, [term EXCEPT ![s] = u])
    BY <1>1, <1>2, KeepsOne
  <2> DEFINE X == {}
  <2>2. Keeps(X, term, term')
    BY <2>1
  <2>3. \A o \in Sessions : o \in X /\ Reader(term[o]) => Excused(o)
    OBVIOUS
  <2> HIDE DEF X
  <2> QED BY <2>2, <2>3, QuietIsGood
<1>3. CASE Reader(term[s]) => Excused(s)
  <2>1. Keeps({s}, term, [term EXCEPT ![s] = u])
    BY <1>1, KeepsOne
  <2>2. Keeps({s}, term, term')
    BY <2>1
  <2>3. \A o \in Sessions : o \in {s} /\ Reader(term[o]) => Excused(o)
    BY <1>3
  <2> QED BY <2>2, <2>3, QuietIsGood
<1> QED BY <1>2, <1>3

(* A step that leaves the terminals alone.                                  *)
LEMMA SameIsGood ==
  ASSUME Inv, UNCHANGED <<term, sent, view>>
  PROVE  Good
<1>1. Keeps({}, term, term')
  BY KeepsSelf DEF Inv, Sound
<1> QED BY <1>1, QuietIsGood

(* A chunk for another session.                                             *)
LEMMA LedgerGrows ==
  ASSUME NEW t, NEW n \in Nat, Ledger(t, n)
  PROVE  Ledger(t, n + 1)
<1>1. \A k : k \in 1 .. n => k \in 1 .. n + 1
  OBVIOUS
<1> QED BY <1>1 DEF Ledger, Books

(* pty_data: the chunk gets the next number, so it is new to every          *)
(* terminal.                                                                *)
LEMMA ChunkIsGood ==
  ASSUME Inv, NEW s \in Sessions, Chunk(s)
  PROVE  Good
<1> DEFINE v == term[s]
           t == [v EXCEPT !.made = TRUE]
           u == IF WouldWrite(s) THEN Written(t, <<sent + 1>>) ELSE Queued(t, sent + 1)
           n == sent
<1>1. term' = [term EXCEPT ![s] = u] /\ sent' = sent + 1 /\ view' = view
  BY DEF Chunk
<1>2. /\ term \in [Sessions -> Terminals] /\ n \in Nat /\ v \in Terminals /\ Ledger(v, n)
      /\ v.passes = TRUE => s \in Codex
      /\ v.at = "read" /\ v.follow = TRUE => view = "detached"
  BY DEF Inv, Sound
<1> HIDE DEF v
<1>3. Leads(s, v, t) /\ Stays(v, t) /\ t \in Terminals
  BY <1>2 DEF Leads, Stays, Reader, Terminals
<1> HIDE DEF t
<1>4. Ledger(t, n)
  BY <1>2, <1>3, LedgerLed
<1> HIDE DEF n
<1>5. /\ u \in Terminals /\ Ledger(u, n + 1) /\ Stays(t, u)
      /\ u.passes = TRUE => t.passes = TRUE \/ s \in Codex
      /\ u.at = "read" /\ u.follow = TRUE =>
           view = "detached" \/ (t.at = "read" /\ t.follow = TRUE)
  <2>1. u = Written(t, <<n + 1>>) \/ u = Queued(t, n + 1)
    BY DEF n
  <2> HIDE DEF u
  <2> QED BY <1>2, <1>3, <1>4, <2>1, ChunkWritten, ChunkQueued
<1> HIDE DEF u
<1>6. /\ u.passes = TRUE => s \in Codex
      /\ u.at = "read" /\ u.follow = TRUE => view = "detached"
  BY <1>2, <1>3, <1>5 DEF Leads
<1>7. \A o \in Sessions : term'[o] = IF o = s THEN u ELSE term[o]
  BY <1>1, <1>2
<1>8. term' \in [Sessions -> Terminals]
  BY <1>1, <1>2, <1>5
<1>9. ASSUME NEW o \in Sessions
      PROVE  /\ Ledger(term'[o], n + 1)
             /\ term'[o].passes = TRUE => o \in Codex
             /\ term'[o].at = "read" /\ term'[o].follow = TRUE => view = "detached"
  <2>1. CASE o = s
    BY <1>5, <1>6, <1>7, <2>1
  <2>2. CASE o # s
    <3>1. /\ Ledger(term[o], n) /\ (term[o].passes = TRUE => o \in Codex)
          /\ (term[o].at = "read" /\ term[o].follow = TRUE => view = "detached")
      BY DEF Inv, Sound, n
    <3>2. Ledger(term[o], n + 1)
      BY <1>2, <3>1, LedgerGrows
    <3> QED BY <1>7, <2>2, <3>1, <3>2
  <2> QED BY <2>1, <2>2
<1>10. Sound(term', n + 1)
  <2> DEFINE m == n + 1
  <2>1. m \in Nat
    BY <1>2
  <2>2. \A o \in Sessions :
          /\ Ledger(term'[o], m)
          /\ term'[o].passes = TRUE => o \in Codex
          /\ term'[o].at = "read" /\ term'[o].follow = TRUE => view = "detached"
    BY <1>9
  <2> HIDE DEF m
  <2>3. Sound(term', m)
    BY <1>8, <2>1, <2>2 DEF Sound
  <2> QED BY <2>3 DEF m
<1>11. Inv'
  BY <1>1, <1>10, SoundNext DEF n
<1>12. Stays(v, u)
  BY <1>3, <1>5 DEF Stays
<1> QED BY <1>7, <1>11, <1>12 DEF Good, Stays, v

(* A callback, a frame or a timer of one terminal.                          *)
LEMMA OnlyIsGood ==
  ASSUME Inv, NEW s \in Sessions, NEW u, Only(s, u), Leads(s, term[s], u),
         Stays(term[s], u) \/ (Reader(term[s]) => Excused(s))
  PROVE  Good
<1>1. term' = [term EXCEPT ![s] = u] /\ sent' = sent /\ view' = view
  BY DEF Only
<1> QED BY <1>1, OneIsGood

(* New dimensions at the end of a step.                                     *)
LEMMA SizedAfter ==
  ASSUME NEW s, NEW t, NEW u, NEW resized, Leads(s, t, u)
  PROVE  Leads(s, t, Sized(u, resized)) /\ (Stays(t, u) => Stays(t, Sized(u, resized)))
<1>1. Leads(s, u, Sized(u, resized)) /\ Stays(u, Sized(u, resized))
  BY SizedLeads DEF Leads
<1> QED BY <1>1, LeadsAlong DEF Stays

(* A flush at the end of a step.                                            *)
LEMMA FlushAfter ==
  ASSUME NEW s, NEW t, NEW u, NEW then \in {"attach", "plain"}, NEW resized, Leads(s, t, u),
         Stays(t, u)
  PROVE  /\ Leads(s, t, FlushPending(u, then, resized))
         /\ then # "attach" => Stays(t, FlushPending(u, then, resized))
<1>1. u \in Terminals
  BY DEF Leads
<1>2. /\ Leads(s, u, FlushPending(u, then, resized))
      /\ then # "attach" => Stays(u, FlushPending(u, then, resized))
  BY <1>1, FlushLeads
<1> QED BY <1>2, LeadsAlong DEF Stays

(* finish of flushPending.                                                  *)
LEMMA FlushEndsIsGood ==
  ASSUME Inv, NEW s \in Sessions, FlushEnds(s)
  PROVE  Good
<1> DEFINE v == term[s]
           then == v.flight
           t == [v EXCEPT !.flight = "none"]
           left == [t EXCEPT !.frames = @ \cup {then}]
<1>1. v \in Terminals
  BY DEF Inv, Sound
<1>2. /\ then # "none"
      /\ \/ Only(s, left)
         \/ Only(s, Kept(t))
         \/ then = "attach" /\ \E resized \in BOOLEAN : Only(s, Placed(Kept(t), resized))
  BY DEF FlushEnds
<1>3. v.flight = "attach" => Excused(s)
  BY DEF Excused, Attaching
<1> HIDE DEF v
<1>4. then \in {"none", "attach", "plain"}
  BY <1>1 DEF Terminals
<1>5. Leads(s, v, t) /\ Stays(v, t) /\ t \in Terminals
  <2>1. t \in Terminals
    BY <1>1 DEF Terminals
  <2>2. /\ t.screen = v.screen /\ t.pending = v.pending /\ t.gone = v.gone
        /\ t.passes = v.passes /\ t.at = v.at /\ t.follow = v.follow /\ t.auto = v.auto
    BY <1>1 DEF Terminals
  <2> HIDE DEF t
  <2> QED BY <2>1, <2>2 DEF Leads, Stays, Reader
<1> HIDE DEF then, t
<1>6. Leads(s, t, left) /\ Stays(t, left)
  BY <1>2, <1>4, <1>5 DEF Leads, Stays, Reader, Terminals
<1> HIDE DEF left
<1>7. Leads(s, t, Kept(t)) /\ Stays(t, Kept(t)) /\ Kept(t) \in Terminals
  BY <1>5, KeptLeads DEF Leads
<1>8. Leads(s, v, left) /\ Stays(v, left) /\ Leads(s, v, Kept(t)) /\ Stays(v, Kept(t))
  BY <1>5, <1>6, <1>7, LeadsAlong DEF Stays
<1>9. CASE Only(s, left) \/ Only(s, Kept(t))
  BY <1>8, <1>9, OnlyIsGood DEF v
<1>10. CASE then = "attach" /\ \E resized \in BOOLEAN : Only(s, Placed(Kept(t), resized))
  <2>1. PICK resized \in BOOLEAN : Only(s, Placed(Kept(t), resized))
    BY <1>10
  <2>2. Leads(s, Kept(t), Placed(Kept(t), resized))
    BY <1>7, PlacedLeads
  <2>3. Leads(s, v, Placed(Kept(t), resized))
    BY <1>8, <2>2, LeadsAlong
  <2>4. Excused(s)
    BY <1>3, <1>10 DEF then
  <2> QED BY <2>1, <2>3, <2>4, OnlyIsGood DEF v
<1> QED BY <1>2, <1>9, <1>10

(* The frame a finished flush has left its work to.                         *)
LEMMA FrameFlushIsGood ==
  ASSUME Inv, NEW s \in Sessions, FrameFlush(s)
  PROVE  Good
<1>1. PICK then \in term[s].frames, resized \in BOOLEAN :
        Only(s, FlushPending([term[s] EXCEPT !.frames = @ \ {then}],
                             IF active = s THEN then ELSE "plain", resized))
  BY DEF FrameFlush
<1> DEFINE v == term[s]
           t == [v EXCEPT !.frames = @ \ {then}]
           what == IF active = s THEN then ELSE "plain"
<1>2. v \in Terminals
  BY DEF Inv, Sound
<1>3. what = "attach" => Excused(s)
  BY DEF Excused, Attaching
<1>4. then \in v.frames
  BY <1>1
<1> HIDE DEF v
<1>5. what \in {"attach", "plain"}
  BY <1>2, <1>4 DEF Terminals
<1>6. Leads(s, v, t) /\ Stays(v, t)
  BY <1>2 DEF Leads, Stays, Reader, Terminals
<1>7. Only(s, FlushPending(t, what, resized))
  BY <1>1 DEF v
<1> HIDE DEF t, what
<1>8. /\ Leads(s, v, FlushPending(t, what, resized))
      /\ what # "attach" => Stays(v, FlushPending(t, what, resized))
  BY <1>5, <1>6, FlushAfter
<1> QED BY <1>3, <1>7, <1>8, OnlyIsGood DEF v

(* A container that is opened, in the single view or in a pane, and the end *)
(* of a batch.                                                              *)
LEMMA ReadyIsGood ==
  ASSUME Inv, NEW s \in Sessions, LayoutReady(s) \/ PaneReady(s) \/ BatchTimer(s)
  PROVE  Good
<1> DEFINE v == term[s]
           more == v.passes \/ (s \in Codex /\ view = "multi")
           hand == IF v.handler = "none" THEN "area" ELSE v.handler
           area == [v EXCEPT !.waits = @ \ {"area"}, !.opened = TRUE, !.handler = hand]
           pane == [v EXCEPT !.waits = @ \ {"pane"}, !.opened = TRUE, !.passes = more]
           over == [v EXCEPT !.batch = "off"]
<1>1. \E t \in {area, pane, over} :
        \/ Only(s, FlushPending(t, "plain", FALSE))
        \/ \E resized \in BOOLEAN : Only(s, Sized(FlushPending(t, "plain", FALSE), resized))
  BY DEF LayoutReady, PaneReady, BatchTimer
<1>2. v \in Terminals
  BY DEF Inv, Sound
<1> HIDE DEF v
<1>3. hand \in {"none", "pane", "area"} /\ more \in BOOLEAN
      /\ (more = TRUE => v.passes = TRUE \/ s \in Codex)
  BY <1>2 DEF Terminals
<1> HIDE DEF hand, more
<1>4. Leads(s, v, area) /\ Stays(v, area)
  <2>1. area \in Terminals
    BY <1>2, <1>3 DEF Terminals
  <2>2. /\ area.screen = v.screen /\ area.pending = v.pending /\ area.gone = v.gone
        /\ area.passes = v.passes /\ area.at = v.at /\ area.follow = v.follow
        /\ area.auto = v.auto
    BY <1>2 DEF Terminals
  <2> HIDE DEF area
  <2> QED BY <2>1, <2>2 DEF Leads, Stays, Reader
<1>5. Leads(s, v, pane) /\ Stays(v, pane)
  BY <1>2, <1>3 DEF Leads, Stays, Reader, Terminals
<1>6. Leads(s, v, over) /\ Stays(v, over)
  BY <1>2 DEF Leads, Stays, Reader, Terminals
<1> HIDE DEF area, pane, over
<1>7. PICK t \in {area, pane, over} :
        \/ Only(s, FlushPending(t, "plain", FALSE))
        \/ \E resized \in BOOLEAN : Only(s, Sized(FlushPending(t, "plain", FALSE), resized))
  BY <1>1
<1> DEFINE u == FlushPending(t, "plain", FALSE)
<1>8. Leads(s, v, u) /\ Stays(v, u)
  BY <1>4, <1>5, <1>6, FlushAfter
<1> HIDE DEF u
<1>9. \A resized \in BOOLEAN : Leads(s, v, Sized(u, resized)) /\ Stays(v, Sized(u, resized))
  BY <1>8, SizedAfter
<1>10. Only(s, u) \/ \E resized \in BOOLEAN : Only(s, Sized(u, resized))
  BY <1>7 DEF u
<1> QED BY <1>8, <1>9, <1>10, OnlyIsGood DEF v

(* Forced passes run only for Codex sessions; a follow meets a reader only  *)
(* in a detached window.                                                    *)
LEMMA TimersAreGood ==
  ASSUME Inv, NEW s \in Sessions, ForcedPass(s) \/ BatchOver(s) \/ Snap(s)
  PROVE  Good
<1> DEFINE v == term[s]
           w == Snapped(v)
           batched == [v EXCEPT !.batch = "over"]
           passed(more) == [w EXCEPT !.passes = more]
           followed(more) == [w EXCEPT !.follow = more]
<1>1. v \in Terminals /\ (v.passes = TRUE => s \in Codex)
      /\ (v.at = "read" /\ v.follow = TRUE => view = "detached")
  BY DEF Inv, Sound
<1>2. CASE ForcedPass(s)
  <2>1. v.passes /\ \E more \in BOOLEAN : Only(s, passed(more))
    BY <1>2 DEF ForcedPass
  <2>2. PICK more \in BOOLEAN : Only(s, passed(more))
    BY <2>1
  <2>3. v.passes = TRUE
    <3> HIDE DEF v
    <3> QED BY <1>1, <2>1 DEF Terminals
  <2>4. s \in Codex /\ Excused(s)
    BY <1>1, <1>2, <2>3 DEF Excused
  <2> HIDE DEF v
  <2>5. Leads(s, v, w) /\ w \in Terminals
    BY <1>1, SnappedLeads DEF Leads
  <2> HIDE DEF w
  <2>6. Leads(s, w, passed(more))
    BY <2>4, <2>5 DEF Leads, Terminals
  <2>7. Leads(s, v, passed(more))
    BY <2>5, <2>6, LeadsAlong
  <2> HIDE DEF passed
  <2> QED BY <2>2, <2>4, <2>7, OnlyIsGood DEF v
<1>3. CASE BatchOver(s)
  <2>1. Only(s, batched)
    BY <1>3 DEF BatchOver
  <2> HIDE DEF v
  <2>2. Leads(s, v, batched) /\ Stays(v, batched)
    BY <1>1 DEF Leads, Stays, Reader, Terminals
  <2> HIDE DEF batched
  <2> QED BY <2>1, <2>2, OnlyIsGood DEF v
<1>4. CASE Snap(s)
  <2>1. v.follow /\ \E more \in BOOLEAN : Only(s, followed(more))
    BY <1>4 DEF Snap
  <2>2. PICK more \in BOOLEAN : Only(s, followed(more))
    BY <2>1
  <2>3. v.follow = TRUE
    <3> HIDE DEF v
    <3> QED BY <1>1, <2>1 DEF Terminals
  <2>4. Reader(v) => Excused(s)
    BY <1>1, <2>3 DEF Excused, Reader
  <2> HIDE DEF v
  <2>5. Leads(s, v, w) /\ w \in Terminals /\ w.at = "bottom"
    BY <1>1, SnappedLeads DEF Leads
  <2> HIDE DEF w
  <2>6. Leads(s, w, followed(more))
    BY <2>5 DEF Leads, Terminals
  <2>7. Leads(s, v, followed(more))
    BY <2>5, <2>6, LeadsAlong
  <2> HIDE DEF followed
  <2> QED BY <2>2, <2>4, <2>7, OnlyIsGood DEF v
<1> QED BY <1>2, <1>3, <1>4

(* The frame a keystroke or an activation has left.                         *)
LEMMA StickIsGood ==
  ASSUME Inv, NEW s \in Sessions, StickFrame(s)
  PROVE  Good
<1> DEFINE v == term[s]
           t == [v EXCEPT !.stick = FALSE]
<1>1. v \in Terminals
  BY DEF Inv, Sound
<1>2. v.stick /\ \/ Only(s, t) \/ Only(s, Kept(t)) \/ Only(s, Following(Sized(t, TRUE)))
  BY DEF StickFrame
<1>3. Excused(s)
  BY <1>2 DEF Excused
<1> HIDE DEF v
<1>4. Leads(s, v, t) /\ t \in Terminals
  BY <1>1 DEF Leads, Terminals
<1> HIDE DEF t
<1>5. Leads(s, t, Kept(t)) /\ Leads(s, t, Sized(t, TRUE)) /\ Sized(t, TRUE) \in Terminals
  BY <1>4, KeptLeads, SizedLeads DEF Leads
<1>6. Leads(s, Sized(t, TRUE), Following(Sized(t, TRUE)))
  BY <1>5, FollowingLeads
<1>7. Leads(s, v, Kept(t)) /\ Leads(s, v, Following(Sized(t, TRUE)))
  BY <1>4, <1>5, <1>6, LeadsAlong
<1> QED BY <1>2, <1>3, <1>4, <1>7, OnlyIsGood DEF v

(* All that callbacks, frames and timers do.                                *)
LEMMA RunsAreGood ==
  ASSUME Inv, NEW s \in Sessions, Runs(s)
  PROVE  Good
  BY FlushEndsIsGood, FrameFlushIsGood, ReadyIsGood, TimersAreGood, StickIsGood DEF Runs

(* pty_resize.                                                              *)
LEMMA RemoteResizeIsGood ==
  ASSUME Inv, NEW s \in Sessions, RemoteResize(s)
  PROVE  Good
<1> DEFINE v == term[s]
           w == Kept(v)
           u == [w EXCEPT !.batch = "on"]
<1>1. v \in Terminals
  BY DEF Inv, Sound
<1>2. term' = [term EXCEPT ![s] = u] /\ sent' = sent /\ view' = view
  BY DEF RemoteResize
<1> HIDE DEF v
<1>3. Leads(s, v, w) /\ Stays(v, w) /\ w \in Terminals
  BY <1>1, KeptLeads DEF Leads
<1> HIDE DEF w
<1>4. Leads(s, w, u) /\ Stays(w, u)
  BY <1>3 DEF Leads, Stays, Reader, Terminals
<1>5. Leads(s, v, u) /\ Stays(v, u)
  BY <1>3, <1>4, LeadsAlong DEF Stays
<1> HIDE DEF u
<1> QED BY <1>2, <1>5, OneIsGood DEF v

(* The window is resized.                                                   *)
LEMMA ResizeIsGood ==
  ASSUME Inv, NEW s \in Sessions, Resize(s)
  PROVE  Good
<1> DEFINE v == term[s]
           u == Sized(Kept(v), TRUE)
<1>1. v \in Terminals
  BY DEF Inv, Sound
<1>2. term' = [term EXCEPT ![s] = u] /\ sent' = sent /\ view' = view
  BY DEF Resize
<1> HIDE DEF v
<1>3. Leads(s, v, u) /\ Stays(v, u)
  BY <1>1, KeptLeads, SizedAfter
<1> HIDE DEF u
<1> QED BY <1>2, <1>3, OneIsGood DEF v

(* The button to the bottom.                                                *)
LEMMA ScrollDownIsGood ==
  ASSUME Inv, NEW s \in Sessions, ScrollDown(s)
  PROVE  Good
<1>1. Excused(s)
  BY DEF Excused, Fetched
<1>2. PICK more \in BOOLEAN : term' = [term EXCEPT ![s] = ToBottom(term[s], more)]
  BY DEF ScrollDown
<1>3. sent' = sent /\ view' = view
  BY DEF ScrollDown
<1> DEFINE v == term[s]
           w == Snapped(v)
           b == w.follow \/ more
           u == ToBottom(v, more)
<1>4. v \in Terminals
  BY DEF Inv, Sound
<1> HIDE DEF v
<1>5. u = [w EXCEPT !.follow = b] /\ b \in BOOLEAN
  BY DEF ToBottom
<1>6. Leads(s, v, w) /\ w \in Terminals /\ w.at = "bottom"
  BY <1>4, SnappedLeads DEF Leads
<1> HIDE DEF w, b, u
<1>7. Leads(s, w, u)
  BY <1>5, <1>6 DEF Leads, Terminals
<1>8. Leads(s, v, u)
  BY <1>6, <1>7, LeadsAlong
<1>9. term' = [term EXCEPT ![s] = u]
  BY <1>2 DEF u, v
<1> QED BY <1>1, <1>3, <1>8, <1>9, OneIsGood DEF v

(* Typing sticks to the bottom only who is there.                           *)
LEMMA TypeIsGood ==
  ASSUME Inv, Type
  PROVE  Good
<1> DEFINE s == active
           v == term[s]
           u == [v EXCEPT !.auto = TRUE, !.stick = TRUE]
<1>1. s \in Sessions => v \in Terminals
  BY DEF Inv, Sound
<1>2. v.auto \/ v.at = "bottom"
  BY DEF Type
<1>3. term' = [term EXCEPT ![s] = u] /\ sent' = sent /\ view' = view
  BY DEF Type
<1> HIDE DEF v, s
<1>4. s \in Sessions => Leads(s, v, u)
  BY <1>1 DEF Leads, Terminals
<1>5. Stays(v, u)
  BY <1>2 DEF Stays, Reader
<1> HIDE DEF u
<1> QED BY <1>3, <1>4, <1>5, OneIsGood DEF v

(* A manual scroll stops every follow and disturbs no reader.               *)
LEMMA ManualKeeps ==
  ASSUME Inv, NEW s, ManualScroll(s)
  PROVE  Keeps({}, term, term')
<1> DEFINE f == [o \in Sessions |-> [(IF o = s THEN ToTop(term[o]) ELSE term[o])
                                      EXCEPT !.follow = FALSE]]
<1>1. term' = f
  BY DEF ManualScroll
<1>2. term \in [Sessions -> Terminals]
  BY DEF Inv, Sound
<1>3. ASSUME NEW o \in Sessions PROVE Leads(o, term[o], f[o]) /\ Stays(term[o], f[o])
  <2> DEFINE v == term[o]
             w == IF o = s THEN ToTop(v) ELSE v
             u == [w EXCEPT !.follow = FALSE]
  <2>1. v \in Terminals /\ f[o] = u
    BY <1>2
  <2> HIDE DEF f, v
  <2>2. ToTop(v) = [v EXCEPT !.auto = FALSE, !.at = "read"]
    BY DEF ToTop
  <2> DEFINE top == ToTop(v)
  <2>3. /\ top \in Terminals /\ top.screen = v.screen /\ top.pending = v.pending
        /\ top.gone = v.gone /\ top.passes = v.passes /\ Reader(top)
    BY <2>1, <2>2 DEF Terminals, Reader
  <2> HIDE DEF top
  <2>4. /\ w \in Terminals /\ w.screen = v.screen /\ w.pending = v.pending
        /\ w.gone = v.gone /\ w.passes = v.passes /\ Stays(v, w)
    BY <2>1, <2>3 DEF Stays, top
  <2> HIDE DEF w
  <2>5. /\ u \in Terminals /\ u.screen = w.screen /\ u.pending = w.pending
        /\ u.gone = w.gone /\ u.passes = w.passes /\ u.follow = FALSE /\ Stays(w, u)
    BY <2>4 DEF Terminals, Stays, Reader
  <2> HIDE DEF u
  <2>6. Leads(o, v, u) /\ Stays(v, u)
    BY <2>4, <2>5 DEF Leads, Stays
  <2> QED BY <2>1, <2>6 DEF v
<1>4. \A o \in Sessions : f[o] \in Terminals
  BY <1>3 DEF Leads
<1>5. f \in [Sessions -> Terminals]
  BY <1>4
<1> HIDE DEF f
<1> QED BY <1>1, <1>2, <1>3, <1>5 DEF Keeps

(* The wheel and the buttons of the panes.                                  *)
LEMMA ScrollsAreGood ==
  ASSUME Inv, NEW s \in Sessions, ScrollUp(s) \/ PaneScroll(s) \/ DetachedScroll(s)
  PROVE  Good
<1>1. sent' = sent /\ view' = view
  BY DEF ScrollUp, PaneScroll, DetachedScroll
<1>2. CASE ManualScroll(s)
  <2>1. Keeps({}, term, term')
    BY <1>2, ManualKeeps
  <2> DEFINE X == {}
  <2>2. Keeps(X, term, term')
    BY <2>1
  <2>3. \A o \in Sessions : o \in X /\ Reader(term[o]) => Excused(o)
    OBVIOUS
  <2> HIDE DEF X
  <2> QED BY <1>1, <2>2, <2>3, QuietIsGood
<1>3. CASE ~ManualScroll(s)
  <2> DEFINE v == term[s]
             top == ToTop(v)
  <2>1. Excused(s)
    BY <1>3 DEF Excused, Fetched, ScrollUp
  <2>2. \/ term' = [term EXCEPT ![s] = Snapped(v)]
        \/ view = "detached" /\ term' = [term EXCEPT ![s] = top]
    BY <1>3 DEF ScrollUp, PaneScroll, DetachedScroll
  <2>3. v \in Terminals
    BY DEF Inv, Sound
  <2> HIDE DEF v
  <2>4. Leads(s, v, Snapped(v))
    BY <2>3, SnappedLeads
  <2>5. view = "detached" => Leads(s, v, top)
    BY <2>3 DEF Leads, Terminals, ToTop
  <2> HIDE DEF top
  <2>6. CASE term' = [term EXCEPT ![s] = Snapped(v)]
    BY <1>1, <2>1, <2>4, <2>6, OneIsGood DEF v
  <2>7. CASE view = "detached" /\ term' = [term EXCEPT ![s] = top]
    BY <1>1, <2>1, <2>5, <2>7, OneIsGood DEF v
  <2> QED BY <2>2, <2>6, <2>7
<1> QED BY <1>2, <1>3

(* A splitter of the grid.                                                  *)
LEMMA SplittersAreGood ==
  ASSUME Inv, MoveSplitter \/ MoveDetachedSplitter
  PROVE  Good
<1>1. sent' = sent /\ view' = view
  BY DEF MoveSplitter, MoveDetachedSplitter
<1>2. term \in [Sessions -> Terminals]
  BY DEF Inv, Sound
<1>3. PICK some : term' \in {[s \in Sessions |-> IF s \in some THEN Sized(Kept(term[s]), TRUE)
                                                 ELSE term[s]],
                             [s \in Sessions |-> IF s \in some THEN Sized(term[s], TRUE)
                                                 ELSE term[s]]}
  BY DEF MoveSplitter, MoveDetachedSplitter
<1>4. \A s \in Sessions : term'[s] \in {Sized(Kept(term[s]), TRUE), Sized(term[s], TRUE), term[s]}
  BY <1>3
<1>5. ASSUME NEW s \in Sessions PROVE Leads(s, term[s], term'[s]) /\ Stays(term[s], term'[s])
  <2> DEFINE v == term[s]
  <2>1. v \in Terminals
    BY <1>2
  <2>2. term'[s] \in {Sized(Kept(v), TRUE), Sized(v, TRUE), v}
    BY <1>4
  <2> HIDE DEF v
  <2>3. Leads(s, v, v) /\ Stays(v, v)
    BY <2>1, LeadsSelf DEF Stays
  <2>4. Leads(s, v, Sized(v, TRUE)) /\ Stays(v, Sized(v, TRUE))
    BY <2>1, SizedLeads
  <2>5. Leads(s, v, Sized(Kept(v), TRUE)) /\ Stays(v, Sized(Kept(v), TRUE))
    BY <2>1, KeptLeads, SizedAfter
  <2>6. Leads(s, v, term'[s]) /\ Stays(v, term'[s])
    BY <2>2, <2>3, <2>4, <2>5
  <2> QED BY <2>6 DEF v
<1>6. \A s \in Sessions : term'[s] \in Terminals
  BY <1>5 DEF Leads
<1>7. term' \in [Sessions -> Terminals]
  BY <1>3, <1>6
<1> DEFINE X == {}
<1>8. Keeps(X, term, term')
  BY <1>2, <1>5, <1>7 DEF Keeps
<1>9. \A o \in Sessions : o \in X /\ Reader(term[o]) => Excused(o)
  OBVIOUS
<1> HIDE DEF X
<1> QED BY <1>1, <1>8, <1>9, QuietIsGood

(* Terminals made or emptied anew, with an excuse for each.                 *)
LEMMA SomeAnewIsGood ==
  ASSUME Inv, sent' = sent, view' = view, term' \in [Sessions -> Terminals],
         NEW X, \A o \in Sessions : o \in X => Excused(o),
         \A o \in Sessions : o \notin X => term'[o] = term[o],
         \A o \in Sessions : o \in X =>
           /\ Ledger(term'[o], sent) /\ term'[o].at = "bottom"
           /\ term'[o].passes = TRUE => o \in Codex
  PROVE  Good
<1>1. ASSUME NEW o \in Sessions
      PROVE  /\ Ledger(term'[o], sent)
             /\ term'[o].passes = TRUE => o \in Codex
             /\ term'[o].at = "read" /\ term'[o].follow = TRUE => view = "detached"
  BY DEF Inv, Sound
<1>2. Sound(term', sent)
  BY <1>1 DEF Inv, Sound
<1>3. Inv'
  BY <1>2, SoundNext
<1> QED BY <1>3 DEF Good

(* One of them.                                                             *)
LEMMA AnewIsGood ==
  ASSUME Inv, sent' = sent, view' = view, NEW s \in Sessions, NEW u \in Terminals,
         term' = [term EXCEPT ![s] = u], Excused(s),
         Ledger(u, sent), u.at = "bottom", u.passes = TRUE => s \in Codex
  PROVE  Good
<1> DEFINE X == {s}
<1>1. \A o \in Sessions : term'[o] = IF o = s THEN u ELSE term[o]
  BY DEF Inv, Sound
<1>2. term' \in [Sessions -> Terminals]
  BY DEF Inv, Sound
<1>3. /\ \A o \in Sessions : o \in X => Excused(o)
      /\ \A o \in Sessions : o \notin X => term'[o] = term[o]
      /\ \A o \in Sessions : o \in X =>
           /\ Ledger(term'[o], sent) /\ term'[o].at = "bottom"
           /\ term'[o].passes = TRUE => o \in Codex
  BY <1>1
<1> HIDE DEF X
<1> QED BY <1>2, <1>3, SomeAnewIsGood

(* A terminal that is emptied has an empty ledger, and its reader is at the *)
(* bottom.                                                                  *)
LEMMA EmptiedSound ==
  ASSUME NEW v \in Terminals, NEW n \in Nat, Ledger(v, n)
  PROVE  /\ Emptied(v) \in Terminals /\ Ledger(Emptied(v), n)
         /\ Emptied(v).at = "bottom" /\ (Emptied(v).passes = TRUE => v.passes = TRUE)
<1> DEFINE lost == v.gone \cup {v.screen[k] : k \in DOMAIN v.screen}
                          \cup {v.pending[k] : k \in DOMAIN v.pending}
           t == [v EXCEPT !.gone = lost, !.screen = <<>>, !.pending = <<>>]
           u == Emptied(v)
<1>4. u = Snapped(t)
  BY DEF Emptied
<1>5. lost \subseteq 1 .. n
  <2> DEFINE a == v.screen
             b == v.pending
  <2>1. a \in Seq(Nat) /\ b \in Seq(Nat) /\ Books(a \o b, n, v.gone)
    BY DEF Ledger, Terminals
  <2>2. v.gone \subseteq 1 .. n
    BY <2>1 DEF Books
  <2> HIDE DEF a, b
  <2>3. /\ Len(a \o b) = Len(a) + Len(b)
        /\ \A k \in 1 .. Len(a) : (a \o b)[k] = a[k]
        /\ \A k \in 1 .. Len(b) : (a \o b)[Len(a) + k] = b[k]
    BY <2>1, Joined
  <2> DEFINE q == a \o b
             la == Len(a)
             lb == Len(b)
  <2>4. la \in Nat /\ lb \in Nat /\ DOMAIN a = 1 .. la /\ DOMAIN b = 1 .. lb
    BY <2>1
  <2>5. \A k \in 1 .. la + lb : q[k] \in 1 .. n
    BY <2>1, <2>3 DEF Books
  <2> HIDE DEF q, la, lb
  <2>6. \A k \in 1 .. la : a[k] \in 1 .. n
    <3> SUFFICES ASSUME NEW k \in 1 .. la PROVE a[k] \in 1 .. n
      OBVIOUS
    <3>1. k \in 1 .. la + lb /\ q[k] = a[k]
      BY <2>3, <2>4 DEF q, la
    <3> QED BY <2>5, <3>1
  <2>7. \A k \in 1 .. lb : b[k] \in 1 .. n
    <3> SUFFICES ASSUME NEW k \in 1 .. lb PROVE b[k] \in 1 .. n
      OBVIOUS
    <3>1. la + k \in 1 .. la + lb /\ q[la + k] = b[k]
      BY <2>3, <2>4 DEF q, la, lb
    <3> QED BY <2>5, <3>1
  <2>8. lost = v.gone \cup {a[k] : k \in 1 .. la} \cup {b[k] : k \in 1 .. lb}
    BY <2>4 DEF a, b
  <2> HIDE DEF lost
  <2> QED BY <2>2, <2>6, <2>7, <2>8
<1> HIDE DEF u
<1>6. /\ t \in Terminals /\ t.screen = <<>> /\ t.pending = <<>> /\ t.gone = lost
      /\ t.passes = v.passes
  <2> DEFINE none == <<>>
  <2>1. none \in Seq(Nat)
    OBVIOUS
  <2>2. lost \in SUBSET Nat
    BY <1>5
  <2>3. t = [v EXCEPT !.gone = lost, !.screen = none, !.pending = none]
    OBVIOUS
  <2> HIDE DEF none, lost, t
  <2>4. /\ t \in Terminals /\ t.screen = none /\ t.pending = none /\ t.gone = lost
        /\ t.passes = v.passes
    BY <2>1, <2>2, <2>3 DEF Terminals
  <2> QED BY <2>4 DEF none
<1> HIDE DEF t, lost
<1>7. /\ t \in Terminals /\ u.at = "bottom" /\ u \in Terminals
      /\ u.passes = t.passes /\ u.screen = <<>> /\ u.pending = <<>> /\ u.gone = lost
  BY <1>4, <1>6 DEF Snapped, Terminals
<1> HIDE DEF t, lost
<1>8. Ledger(u, n)
  <2>1. <<>> \o <<>> = <<>> /\ <<>> \in Seq(Nat) /\ Len(<<>>) = 0
    OBVIOUS
  <2> QED BY <1>5, <1>7, <2>1 DEF Ledger, Books
<1> QED BY <1>6, <1>7, <1>8 DEF u

(* session_history_reset drops what is written and what waits: they become  *)
(* chunks that are gone, and the ledger starts empty.                       *)
LEMMA HistoryResetIsGood ==
  ASSUME Inv, NEW s \in Sessions, HistoryReset(s)
  PROVE  Good
<1> DEFINE u == Emptied(term[s])
<1>1. term' = [term EXCEPT ![s] = u] /\ sent' = sent /\ view' = view
  BY DEF HistoryReset
<1>2. Excused(s)
  BY DEF Excused
<1>3. u \in Terminals /\ Ledger(u, sent) /\ u.at = "bottom" /\ (u.passes = TRUE => s \in Codex)
  BY EmptiedSound DEF Inv, Sound
<1> HIDE DEF u
<1> QED BY <1>1, <1>2, <1>3, AnewIsGood

(* The session an act of the user brings to the front has an excuse.        *)
LEMMA FrontExcused ==
  ASSUME NEW o \in Sessions, active' = o,
         \/ active # o \/ OpenTerminal \/ OpenMulti
         \/ \E i \in 1..Panes : \/ ClickPane(i) \/ CloseSlot(i)
                                \/ \E j \in 1..Panes : ReorderSlots(i, j)
  PROVE  Excused(o)
  BY DEF Excused, Fetched

(* So has a Codex session whose grid is rebuilt.                            *)
LEMMA CodexExcused ==
  ASSUME NEW o \in Sessions, o \in Codex, Rebuilt
  PROVE  Excused(o)
  BY DEF Excused

(* render of the page.                                                      *)
LEMMA RenderIsGood ==
  ASSUME Inv, Rebuilt, sent' = sent, NEW kn, NEW tm, NEW resized, Keeps(Codex, term, tm),
         Render(kn, tm, resized)
  PROVE  Good
<1>1. tm \in [Sessions -> Terminals]
  BY DEF Keeps
<1>2. view = "detached" => view' = "detached"
  BY <1>1, RenderKeeps
<1>3. CASE Keeps(Codex, tm, term')
  <2>1. Keeps(Codex \cup Codex, term, term')
    BY <1>3, KeepsAlong
  <2>2. Keeps(Codex, term, term')
    BY <2>1, KeepsMore
  <2> QED BY <1>2, <2>2, CodexExcused, QuietIsGood
<1>4. CASE active = None /\ \E s : active' = s /\ Keeps({s}, tm, term')
  <2>1. PICK s : active' = s /\ Keeps({s}, tm, term')
    BY <1>4
  <2> DEFINE X == Codex \cup {s}
  <2>2. Keeps(X, term, term')
    BY <2>1, KeepsAlong
  <2>3. ASSUME NEW o \in Sessions, o \in X PROVE Excused(o)
    <3>1. CASE o \in Codex
      BY <3>1, CodexExcused
    <3>2. CASE o = s
      <4>1. active' = o /\ active # o
        BY <1>4, <2>1, <3>2, OutputAssumption DEF OutputAssumption
      <4> QED BY <4>1, FrontExcused
    <3> QED BY <2>3, <3>1, <3>2
  <2> HIDE DEF X
  <2> QED BY <1>2, <2>2, <2>3, QuietIsGood
<1> QED BY <1>1, <1>3, <1>4, RenderKeeps

(* A session_update of a new session.                                       *)
LEMMA ArriveIsGood ==
  ASSUME Inv, NEW s \in Sessions, Arrive(s)
  PROVE  Good
<1>1. PICK resized \in BOOLEAN :
        LET mine == view = "detached" /\ \E i \in DOMAIN order : i <= size /\ order[i] = s
            tm == IF mine THEN [term EXCEPT ![s] = InSlot(s, term[s], resized)] ELSE term
        IN Render(known', tm, resized)
  BY DEF Arrive
<1>2. PICK tm \in {[term EXCEPT ![s] = InSlot(s, term[s], resized)], term} :
        Render(known', tm, resized)
  BY <1>1
<1>3. term \in [Sessions -> Terminals]
  BY DEF Inv, Sound
<1>4. /\ Leads(s, term[s], InSlot(s, term[s], resized))
      /\ s \notin Codex => Stays(term[s], InSlot(s, term[s], resized))
  BY <1>3, InSlotLeads
<1>5. Keeps(Codex, term, [term EXCEPT ![s] = InSlot(s, term[s], resized)])
  BY <1>3, <1>4, KeepsOne
<1>6. Keeps(Codex, term, term)
  BY <1>3, KeepsSelf, KeepsMore
<1>7. Keeps(Codex, term, tm)
  BY <1>5, <1>6
<1>8. sent' = sent /\ Rebuilt
  BY DEF Arrive, Rebuilt
<1> QED BY <1>2, <1>7, <1>8, RenderIsGood

(* A session_update of a known one.                                         *)
LEMMA UpdateIsGood ==
  ASSUME Inv, Update
  PROVE  Good
<1>1. PICK resized \in BOOLEAN : Render(known, term, resized)
  BY DEF Update
<1>2. Keeps(Codex, term, term)
  BY KeepsSelf, KeepsMore DEF Inv, Sound
<1>3. sent' = sent /\ Rebuilt
  BY DEF Update, Rebuilt
<1> QED BY <1>1, <1>2, <1>3, RenderIsGood

(* removeLocalSession: the terminal is gone, and the neighbour that takes   *)
(* the place of the active session was not active.                          *)
LEMMA RemoveIsGood ==
  ASSUME Inv, NEW s \in Sessions, RemoveLocalSession(s)
  PROVE  Good
<1> DEFINE tm == [term EXCEPT ![s] = Absent]
           n == sent
<1>1. term \in [Sessions -> Terminals] /\ n \in Nat
  BY DEF Inv, Sound
<1>2. Absent \in Terminals /\ Ledger(Absent, n) /\ Absent.passes = FALSE /\ Absent.at = "bottom"
  <2> DEFINE none == <<>>
             t == [made |-> FALSE, place |-> "none", opened |-> FALSE, waits |-> {},
                   pending |-> none, flight |-> "none", frames |-> {},
                   batch |-> "off", screen |-> none, gone |-> {},
                   auto |-> TRUE, at |-> "bottom", follow |-> FALSE,
                   stick |-> FALSE, passes |-> FALSE, handler |-> "none"]
  <2>1. none \in Seq(Nat) /\ none \o none = none /\ Len(none) = 0
    OBVIOUS
  <2>2. Absent = t
    BY DEF Absent
  <2> HIDE DEF none
  <2>3. /\ t \in Terminals /\ t.screen = none /\ t.pending = none /\ t.gone = {}
        /\ t.passes = FALSE /\ t.at = "bottom"
    BY <2>1 DEF Terminals
  <2> HIDE DEF t
  <2>4. Ledger(t, n)
    BY <1>1, <2>1, <2>3 DEF Ledger, Books
  <2> QED BY <2>2, <2>3, <2>4
<1>3. tm \in [Sessions -> Terminals]
  BY <1>1, <1>2
<1>4. \A o \in Sessions : tm[o] = IF o = s THEN Absent ELSE term[o]
  BY <1>1
<1>5. /\ sent' = sent /\ known' = known \ {s}
      /\ IF active = s /\ known' # {}
         THEN \E m \in known', resized \in BOOLEAN : ActivateSession(m, tm, resized)
         ELSE /\ view' = view
              /\ IF view = "multi"
                 THEN RenderMulti(known', leaving, order, size, tm, FALSE)
                 ELSE term' = tm
  BY DEF RemoveLocalSession
<1> HIDE DEF tm, n
<1>6. Sound(tm, n)
  <2>1. ASSUME NEW o \in Sessions
        PROVE  /\ Ledger(tm[o], n)
               /\ tm[o].passes = TRUE => o \in Codex
               /\ tm[o].at = "read" /\ tm[o].follow = TRUE => view = "detached"
    <3>1. CASE o = s
      BY <1>2, <1>4, <3>1
    <3>2. CASE o # s
      BY <1>4, <3>2 DEF Inv, Sound, n
    <3> QED BY <3>1, <3>2
  <2> QED BY <1>1, <1>3, <2>1 DEF Sound
<1>7. /\ view = "detached" => view' = "detached"
      /\ \/ Keeps(Codex, tm, term')
         \/ \E m : active' = m /\ active # m /\ Keeps({m}, tm, term')
  <2>1. CASE active = s /\ known' # {}
    <3>1. PICK m \in known', resized \in BOOLEAN : ActivateSession(m, tm, resized)
      BY <1>5, <2>1
    <3>2. m # s
      BY <1>5
    <3>3. /\ Keeps({m}, tm, term') /\ active' = m
          /\ view = "detached" => view' = "detached"
      BY <1>3, <3>1, ActivateKeeps
    <3> QED BY <2>1, <3>2, <3>3
  <2>2. CASE ~(active = s /\ known' # {}) /\ view = "multi"
    <3>1. view' = view /\ RenderMulti(known', leaving, order, size, tm, FALSE)
      BY <1>5, <2>2
    <3> QED BY <1>3, <3>1, MultiKeeps
  <2>3. CASE ~(active = s /\ known' # {}) /\ view # "multi"
    <3>1. view' = view /\ term' = tm
      BY <1>5, <2>3
    <3>2. Keeps(Codex, tm, tm)
      BY <1>3, KeepsSelf, KeepsMore
    <3> QED BY <3>1, <3>2
  <2> QED BY <2>1, <2>2, <2>3
<1>8. PICK X : Keeps(X, tm, term') /\ \A o \in Sessions : o \in X => Excused(o)
  <2>1. CASE Keeps(Codex, tm, term')
    <3>1. Rebuilt
      BY DEF Rebuilt
    <3> QED BY <2>1, <3>1, CodexExcused
  <2>2. CASE \E m : active' = m /\ active # m /\ Keeps({m}, tm, term')
    <3>1. PICK m : active' = m /\ active # m /\ Keeps({m}, tm, term')
      BY <2>2
    <3>2. ASSUME NEW o \in Sessions, o \in {m} PROVE Excused(o)
      <4>1. active' = o /\ active # o
        BY <3>1, <3>2
      <4> QED BY <4>1, FrontExcused
    <3> QED BY <3>1, <3>2
  <2> QED BY <1>7, <2>1, <2>2
<1>9. Inv'
  <2>1. Sound(term', n)
    BY <1>6, <1>8, SoundKept
  <2> QED BY <1>5, <1>7, <2>1, SoundNext DEF n
<1>10. ASSUME NEW o \in Sessions, Reader(term[o]) PROVE Reader(term'[o]) \/ Excused(o)
  <2>1. CASE o = s
    <3>1. RemoveLocalSession(o)
      BY <2>1
    <3> QED BY <3>1 DEF Excused
  <2>2. CASE o # s
    <3>1. tm[o] = term[o]
      BY <1>4, <2>2
    <3> QED BY <1>8, <1>10, <3>1 DEF Keeps, Stays
  <2> QED BY <2>1, <2>2
<1> QED BY <1>9, <1>10 DEF Good

(* A rebuilt grid.                                                          *)
LEMMA CodexIsGood ==
  ASSUME Inv, Rebuilt, sent' = sent, view = "detached" => view' = "detached",
         Keeps(Codex, term, term')
  PROVE  Good
  BY CodexExcused, QuietIsGood

(* A step that brings a session to the front, alone                         *)
LEMMA AloneIsGood ==
  ASSUME Inv, sent' = sent, view = "detached" => view' = "detached",
         \A o \in Sessions : active' = o => Excused(o),
         NEW s, active' = s, Keeps({s}, term, term')
  PROVE  Good
<1> DEFINE X == {s}
<1>1. \A o \in Sessions : o \in X => Excused(o)
  OBVIOUS
<1>2. Keeps(X, term, term')
  OBVIOUS
<1> HIDE DEF X
<1> QED BY <1>1, <1>2, QuietIsGood

(* or with a rebuilt grid.                                                  *)
LEMMA FrontIsGood ==
  ASSUME Inv, Rebuilt, sent' = sent, view = "detached" => view' = "detached",
         \A o \in Sessions : active' = o => Excused(o),
         NEW s, active' = s, Keeps(Codex \cup {s}, term, term')
  PROVE  Good
<1> DEFINE X == Codex \cup {s}
<1>1. \A o \in Sessions : o \in X => Excused(o)
  BY CodexExcused
<1>2. Keeps(X, term, term')
  OBVIOUS
<1> HIDE DEF X
<1> QED BY <1>1, <1>2, QuietIsGood

(* A session card is clicked.                                               *)
LEMMA ClickCardIsGood ==
  ASSUME Inv, NEW s \in Sessions, ClickCard(s)
  PROVE  Good
<1>1. PICK resized \in BOOLEAN : ActivateSession(s, term, resized)
  BY DEF ClickCard
<1>2. sent' = sent
  BY DEF ClickCard
<1>3. term \in [Sessions -> Terminals]
  BY DEF Inv, Sound
<1>4. Keeps({s}, term, term') /\ (view = "detached" => view' = "detached")
  BY <1>1, <1>3, ActivateKeeps
<1>5. Excused(s)
  BY DEF Excused, Fetched
<1> QED BY <1>2, <1>4, <1>5, QuietIsGood

(* A pane is clicked.                                                       *)
LEMMA ClickPaneIsGood ==
  ASSUME Inv, NEW i \in 1..Panes, ClickPane(i)
  PROVE  Good
<1>1. FocusSlot(i, slots, term) /\ sent' = sent /\ view' = view
  BY DEF ClickPane
<1>2. \A o \in Sessions : active' = o => Excused(o)
  BY FrontExcused
<1>3. Keeps({}, term, term') \/ \E s : active' = s /\ Keeps({s}, term, term')
  BY <1>1, FocusKeeps DEF Inv, Sound
<1>4. CASE Keeps({}, term, term')
  <2> DEFINE X == {}
  <2>1. Keeps(X, term, term') /\ \A o \in Sessions : o \in X => Excused(o)
    BY <1>4
  <2> HIDE DEF X
  <2> QED BY <1>1, <2>1, QuietIsGood
<1>5. CASE \E s : active' = s /\ Keeps({s}, term, term')
  BY <1>1, <1>2, <1>5, AloneIsGood
<1> QED BY <1>3, <1>4, <1>5

(* The Multi tab is opened.                                                 *)
LEMMA OpenMultiIsGood ==
  ASSUME Inv, OpenMulti
  PROVE  Good
<1> DEFINE sl == SlotsOf(Known(order, known \ leaving, Ascending), known \ leaving, size)
           i == IF focused \in DOMAIN sl THEN focused ELSE 1
           tm(resized) == Shown(sl, Teardown(term), resized)
<1>1. /\ \E resized \in BOOLEAN : FocusSlot(i, sl, tm(resized))
      /\ sent' = sent /\ view \in {"terminal", "other"} /\ Rebuilt
  BY DEF OpenMulti, Rebuilt
<1>2. PICK resized \in BOOLEAN : FocusSlot(i, sl, tm(resized))
  BY <1>1
<1> DEFINE um == tm(resized)
<1>3. Keeps(Codex, term, um) /\ um \in [Sessions -> Terminals]
  BY RebuiltKeeps DEF Inv, Sound, Keeps
<1>4. \A o \in Sessions : active' = o => Excused(o)
  BY FrontExcused
<1>5. FocusSlot(i, sl, um)
  BY <1>2
<1> HIDE DEF um, tm, i, sl
<1>6. Keeps({}, um, term') \/ \E s : active' = s /\ Keeps({s}, um, term')
  BY <1>3, <1>5, FocusKeeps
<1>7. CASE Keeps({}, um, term')
  <2>1. Keeps(Codex \cup {}, term, term')
    BY <1>3, <1>7, KeepsAlong
  <2>2. Keeps(Codex, term, term')
    BY <2>1, KeepsMore
  <2> QED BY <1>1, <2>2, CodexIsGood
<1>8. CASE \E s : active' = s /\ Keeps({s}, um, term')
  <2>1. PICK s : active' = s /\ Keeps({s}, um, term')
    BY <1>8
  <2>2. Keeps(Codex \cup {s}, term, term')
    BY <1>3, <2>1, KeepsAlong
  <2> QED BY <1>1, <1>4, <2>1, <2>2, FrontIsGood
<1> QED BY <1>6, <1>7, <1>8

(* The terminal tab is opened.                                              *)
LEMMA OpenTerminalIsGood ==
  ASSUME Inv, OpenTerminal
  PROVE  Good
<1> DEFINE s == active
           tm(resized) == IF view = "multi" THEN Attached(s, Teardown(term), resized) ELSE term
           fronted(t) == IF t.made /\ t.place = "area"
                         THEN [t EXCEPT !.auto = TRUE, !.stick = TRUE] ELSE t
<1>1. /\ \E resized \in BOOLEAN :
           term' = [tm(resized) EXCEPT ![s] = fronted(tm(resized)[s])]
      /\ sent' = sent /\ view \in {"other", "multi"} /\ active' = s
  BY DEF OpenTerminal
<1>2. PICK resized \in BOOLEAN : term' = [tm(resized) EXCEPT ![s] = fronted(tm(resized)[s])]
  BY <1>1
<1> DEFINE um == tm(resized)
           v == um[s]
           u == fronted(v)
<1>3. Keeps({s}, term, um)
  <2>1. term \in [Sessions -> Terminals]
    BY DEF Inv, Sound
  <2>2. Keeps({}, term, Teardown(term)) /\ Teardown(term) \in [Sessions -> Terminals]
    BY <2>1, TeardownKeeps DEF Keeps
  <2>3. Keeps({s}, Teardown(term), Attached(s, Teardown(term), resized))
    BY <2>2, AttachedKeeps
  <2>4. Keeps({} \cup {s}, term, Attached(s, Teardown(term), resized))
    BY <2>2, <2>3, KeepsAlong
  <2>5. Keeps({s}, term, Attached(s, Teardown(term), resized))
    BY <2>4, KeepsMore
  <2>6. Keeps({s}, term, term)
    BY <2>1, KeepsSelf, KeepsMore
  <2> QED BY <2>5, <2>6
<1>4. term' = [um EXCEPT ![s] = u]
  BY <1>2
<1>5. \A o \in Sessions : active' = o => Excused(o)
  BY FrontExcused
<1>6. um \in [Sessions -> Terminals] /\ (s \in Sessions => v \in Terminals)
  BY <1>3 DEF Keeps
<1> HIDE DEF um, v
<1>7. s \in Sessions => Leads(s, v, u)
  <2>1. s \in Sessions => Leads(s, v, [v EXCEPT !.auto = TRUE, !.stick = TRUE])
    BY <1>6 DEF Leads, Terminals
  <2>2. s \in Sessions => Leads(s, v, v)
    BY <1>6, LeadsSelf
  <2> QED BY <2>1, <2>2
<1> HIDE DEF u, fronted, tm
<1>8. s \in Sessions => Leads(s, um[s], u)
  BY <1>7 DEF v
<1>9. Keeps({s}, um, [um EXCEPT ![s] = u])
  BY <1>6, <1>8, KeepsOne
<1>10. Keeps({s} \cup {s}, term, term')
  BY <1>3, <1>4, <1>9, KeepsAlong
<1>11. Keeps({s}, term, term')
  BY <1>10, KeepsMore
<1> QED BY <1>1, <1>5, <1>11, AloneIsGood

(* Leaving the grid, rendering the detached window again, another layout.   *)
LEMMA RebuildsAreGood ==
  ASSUME Inv, OpenOther \/ DetachedRender \/ \E n \in Layouts : SetLayout(n)
  PROVE  Good
<1>1. term \in [Sessions -> Terminals]
  BY DEF Inv, Sound
<1>2. sent' = sent /\ (view = "detached" => view' = "detached")
  BY DEF OpenOther, DetachedRender, SetLayout
<1>3. CASE OpenOther
  <2> DEFINE X == {}
  <2>1. term' = Teardown(term) \/ term' = term
    BY <1>3 DEF OpenOther
  <2>2. Keeps(X, term, term') /\ \A o \in Sessions : o \in X => Excused(o)
    BY <1>1, <2>1, TeardownKeeps, KeepsSelf
  <2> HIDE DEF X
  <2> QED BY <1>2, <2>2, QuietIsGood
<1>4. CASE DetachedRender
  <2>1. PICK resized \in BOOLEAN :
          term' = Shown(SlotsOf(order, known, size), Teardown(term), resized)
    BY <1>4 DEF DetachedRender
  <2>2. Keeps(Codex, term, term')
    BY <1>1, <2>1, RebuiltKeeps
  <2>3. Rebuilt
    BY <1>4 DEF Rebuilt
  <2> QED BY <1>2, <2>2, <2>3, CodexIsGood
<1>5. CASE \E n \in Layouts : SetLayout(n)
  <2>1. PICK n \in Layouts, resized \in BOOLEAN :
          RenderMulti(known, leaving, order, n, term, resized)
    BY <1>5 DEF SetLayout
  <2>2. Keeps(Codex, term, term')
    BY <1>1, <2>1, MultiKeeps
  <2>3. Rebuilt
    BY <1>5 DEF Rebuilt
  <2> QED BY <1>2, <2>2, <2>3, CodexIsGood
<1> QED BY <1>3, <1>4, <1>5

(* A pane is dragged.                                                       *)
LEMMA ReorderIsGood ==
  ASSUME Inv, NEW i \in 1..Panes, NEW j \in 1..Panes, ReorderSlots(i, j)
  PROVE  Good
<1> DEFINE s == slots[i]
           tm == ForMultiPane(s, term)
           now == Moved(order, i, j)
<1>1. PICK resized \in BOOLEAN :
        IF view = "multi"
        THEN RenderMulti(known, leaving, now, size, tm, resized)
        ELSE term' = Shown(SlotsOf(now, known, size), Teardown(tm), resized)
  BY DEF ReorderSlots
<1>2. sent' = sent /\ view' = view /\ active' = s /\ Rebuilt
  BY DEF ReorderSlots, Rebuilt
<1>3. \A o \in Sessions : active' = o => Excused(o)
  BY FrontExcused
<1>4. Keeps({s}, term, tm) /\ tm \in [Sessions -> Terminals]
  BY ForMultiKeeps DEF Inv, Sound, Keeps
<1> HIDE DEF s, tm, now
<1>5. Keeps(Codex, tm, term')
  BY <1>1, <1>4, MultiKeeps, RebuiltKeeps
<1>6. Keeps({s} \cup Codex, term, term')
  BY <1>4, <1>5, KeepsAlong
<1>7. Keeps(Codex \cup {s}, term, term')
  BY <1>6, KeepsMore
<1> QED BY <1>2, <1>3, <1>7, FrontIsGood

(* A pane is closed.                                                        *)
LEMMA CloseSlotIsGood ==
  ASSUME Inv, NEW i \in 1..Panes, CloseSlot(i)
  PROVE  Good
<1>1. PICK out, s, tm :
        /\ \/ active' = s /\ tm = ForMultiPane(s, term)
           \/ tm = term
        /\ RenderMulti(known, out, order, size, tm, FALSE)
  BY DEF CloseSlot
<1>2. sent' = sent /\ view' = view /\ Rebuilt
  BY DEF CloseSlot, Rebuilt
<1>3. \A o \in Sessions : active' = o => Excused(o)
  BY FrontExcused
<1>4. term \in [Sessions -> Terminals]
  BY DEF Inv, Sound
<1>5. CASE active' = s /\ tm = ForMultiPane(s, term)
  <2>1. Keeps({s}, term, tm) /\ tm \in [Sessions -> Terminals]
    BY <1>4, <1>5, ForMultiKeeps DEF Keeps
  <2>2. Keeps(Codex, tm, term')
    BY <1>1, <2>1, MultiKeeps
  <2>3. Keeps({s} \cup Codex, term, term')
    BY <2>1, <2>2, KeepsAlong
  <2>4. Keeps(Codex \cup {s}, term, term')
    BY <2>3, KeepsMore
  <2> QED BY <1>2, <1>3, <1>5, <2>4, FrontIsGood
<1>6. CASE tm = term
  <2>1. Keeps(Codex, term, term')
    BY <1>1, <1>4, <1>6, MultiKeeps
  <2> QED BY <1>2, <2>1, CodexIsGood
<1> QED BY <1>1, <1>5, <1>6

(* A lost socket takes the terminal of the single view off the page.        *)
LEMMA SocketLostIsGood ==
  ASSUME Inv, SocketLost
  PROVE  Good
<1> DEFINE away(t) == [t EXCEPT !.place = "away"]
           X == {}
<1>1. /\ sent' = sent /\ view' = view
      /\ term' = [o \in Sessions |-> IF term[o].place = "area" THEN away(term[o]) ELSE term[o]]
  BY DEF SocketLost
<1>2. \A t \in Terminals, o \in Sessions : Leads(o, t, away(t)) /\ Stays(t, away(t))
                                        /\ Leads(o, t, t) /\ Stays(t, t)
  BY DEF Leads, Terminals, Stays, Reader
<1>3. \A o \in Sessions : term[o] \in Terminals
  BY DEF Inv, Sound
<1> HIDE DEF away
<1>4. ASSUME NEW o \in Sessions PROVE Leads(o, term[o], term'[o]) /\ Stays(term[o], term'[o])
  BY <1>1, <1>2, <1>3
<1>5. term' \in [Sessions -> Terminals]
  BY <1>1, <1>4 DEF Leads
<1>6. Keeps(X, term, term') /\ \A o \in Sessions : o \in X => Excused(o)
  BY <1>4, <1>5 DEF Keeps, Inv, Sound
<1> HIDE DEF X
<1> QED BY <1>1, <1>6, QuietIsGood

(* A new socket empties the terminals.                                      *)
LEMMA ReopenedIsGood ==
  ASSUME Inv, Reopened
  PROVE  Good
<1> DEFINE X == {o \in Sessions : term[o].made}
<1>1. /\ sent' = sent /\ view' = view
      /\ term' = [o \in Sessions |-> IF term[o].made THEN Emptied(term[o]) ELSE term[o]]
  BY DEF Reopened
<1>2. ASSUME NEW o \in Sessions
      PROVE  /\ term[o] \in Terminals /\ Emptied(term[o]) \in Terminals
             /\ Ledger(Emptied(term[o]), sent) /\ Emptied(term[o]).at = "bottom"
             /\ Emptied(term[o]).passes = TRUE => o \in Codex
  BY EmptiedSound DEF Inv, Sound
<1>3. term' \in [Sessions -> Terminals]
  BY <1>1, <1>2
<1>4. /\ \A o \in Sessions : o \in X => Excused(o)
      /\ \A o \in Sessions : o \notin X => term'[o] = term[o]
      /\ \A o \in Sessions : o \in X => term'[o] = Emptied(term[o])
  BY <1>1 DEF Excused
<1> HIDE DEF X
<1>5. \A o \in Sessions : o \in X =>
        /\ Ledger(term'[o], sent) /\ term'[o].at = "bottom"
        /\ term'[o].passes = TRUE => o \in Codex
  <2> SUFFICES ASSUME NEW o \in Sessions, o \in X
               PROVE  /\ Ledger(term'[o], sent) /\ term'[o].at = "bottom"
                      /\ term'[o].passes = TRUE => o \in Codex
    OBVIOUS
  <2>1. term'[o] = Emptied(term[o])
    BY <1>4
  <2> QED BY ONLY <1>2, <2>1, o \in Sessions
<1> QED BY <1>1, <1>3, <1>4, <1>5, SomeAnewIsGood

(* The snapshot fetches the session that was active, or renders the page.   *)
LEMMA SnapshotIsGood ==
  ASSUME Inv, NEW kn \in SUBSET Sessions, NEW resized \in BOOLEAN, Snapshot(kn, resized)
  PROVE  Good
<1>1. sent' = sent /\ Rebuilt
  BY DEF Snapshot, Rebuilt
<1>2. term \in [Sessions -> Terminals]
  BY DEF Inv, Sound
<1>3. CASE link.want \in kn
  <2> DEFINE s == link.want
             tm == ForMultiPane(s, term)
  <2>1. OpenPending(kn, s, resized)
    BY <1>3 DEF Snapshot
  <2>2. \A o \in Sessions : active' = o => Excused(o)
    <3>1. active' = s
      BY <2>1 DEF OpenPending, ActivateSession
    <3>2. s \in Sessions => Fetched(s)
      BY <1>3 DEF Fetched
    <3> QED BY <3>1, <3>2 DEF Excused
  <2>3. CASE view = "multi"
    <3>1. /\ active' = s /\ view' = view
          /\ RenderMulti(kn, leaving, order, size, tm, resized)
      BY <2>1, <2>3 DEF OpenPending
    <3>2. Keeps({s}, term, tm) /\ tm \in [Sessions -> Terminals]
      BY <1>2, ForMultiKeeps DEF Keeps
    <3> HIDE DEF tm, s
    <3>3. Keeps({s} \cup Codex, term, term')
      BY <3>1, <3>2, MultiKeeps, KeepsAlong
    <3>4. Keeps(Codex \cup {s}, term, term')
      BY <3>3, KeepsMore
    <3> QED BY <1>1, <2>2, <3>1, <3>4, FrontIsGood
  <2>4. CASE view # "multi"
    <3>1. ActivateSession(s, term, resized)
      BY <2>1, <2>4 DEF OpenPending
    <3> HIDE DEF s
    <3> QED BY <1>1, <1>2, <2>2, <3>1, ActivateKeeps, AloneIsGood
  <2> QED BY <2>3, <2>4
<1>4. CASE link.want \notin kn
  <2>1. Render(kn, term, resized)
    BY <1>4 DEF Snapshot
  <2>2. Keeps(Codex, term, term)
    BY <1>2, KeepsSelf, KeepsMore
  <2> QED BY <1>1, <2>1, <2>2, RenderIsGood
<1> QED BY <1>3, <1>4

(* At the start no terminal has any output.                                 *)
LEMMA StartIsSound ==
  ASSUME Init
  PROVE  Inv
<1> DEFINE none == <<>>
           t == [made |-> FALSE, place |-> "none", opened |-> FALSE, waits |-> {},
                 pending |-> none, flight |-> "none", frames |-> {},
                 batch |-> "off", screen |-> none, gone |-> {},
                 auto |-> TRUE, at |-> "bottom", follow |-> FALSE,
                 stick |-> FALSE, passes |-> FALSE, handler |-> "none"]
<1>1. none \in Seq(Nat) /\ none \o none = none /\ Len(none) = 0
  OBVIOUS
<1>2. term = [s \in Sessions |-> t] /\ sent = 0
  BY DEF Init, Absent
<1> HIDE DEF none
<1>3. /\ t \in Terminals /\ t.screen = none /\ t.pending = none /\ t.gone = {}
      /\ t.passes = FALSE /\ t.at = "bottom"
  BY <1>1 DEF Terminals
<1> HIDE DEF t
<1>4. Ledger(t, 0)
  BY <1>1, <1>3 DEF Ledger, Books
<1> QED BY <1>2, <1>3, <1>4 DEF Inv, Sound

(* Every step is good.                                                      *)
LEMMA StepIsGood ==
  ASSUME Inv, [Next]_vars
  PROVE  Good
<1>1. CASE UNCHANGED vars
  BY <1>1, SameIsGood DEF vars
<1>2. CASE Heard
  BY <1>2, ChunkIsGood, ArriveIsGood, RemoveIsGood, RemoteResizeIsGood, HistoryResetIsGood,
     UpdateIsGood DEF Heard
<1>3. CASE User
  <2>1. CASE \E s \in Sessions : Moves(s)
    BY <2>1, ClickCardIsGood, ScrollsAreGood, ScrollDownIsGood, ResizeIsGood DEF Moves
  <2>2. CASE OpenMulti \/ OpenTerminal \/ OpenOther \/ Type \/ MoveSplitter
             \/ MoveDetachedSplitter \/ \E n \in Layouts : SetLayout(n)
    BY <2>2, OpenMultiIsGood, OpenTerminalIsGood, RebuildsAreGood, TypeIsGood, SplittersAreGood
  <2>3. CASE \E i \in 1..Panes : ClickPane(i) \/ CloseSlot(i)
    BY <2>3, ClickPaneIsGood, CloseSlotIsGood
  <2>4. CASE \E i, j \in 1..Panes : ReorderSlots(i, j)
    BY <2>4, ReorderIsGood
  <2> QED BY <1>3, <2>1, <2>2, <2>3, <2>4 DEF User
<1>4. CASE DetachedRender
  BY <1>4, RebuildsAreGood
<1>5. CASE \E s \in Sessions : Runs(s)
  BY <1>5, RunsAreGood
<1>6. CASE Socket
  BY <1>6, SocketLostIsGood, ReopenedIsGood, SnapshotIsGood DEF Socket
<1> QED BY <1>1, <1>2, <1>3, <1>4, <1>5, <1>6 DEF Next

(* The types of the terminals, their ledgers, and who may be followed while *)
(* reading, in every reachable state.                                       *)
THEOREM TerminalsAreSound == Spec => []Inv
<1>1. Init => Inv
  BY StartIsSound
<1>2. Inv /\ [Next]_vars => Inv'
  BY StepIsGood DEF Good
<1> QED BY <1>1, <1>2, PTL DEF Spec

(* No chunk is written twice, written and queued, or written after it was   *)
(* dropped, for any number of sessions, chunks and acts and any limits of   *)
(* queue and batch.                                                         *)
THEOREM OutputOnce == Spec => []WrittenOnce
<1>1. Inv => WrittenOnce
  <2> SUFFICES ASSUME Inv, NEW s \in Sessions
               PROVE  LET all == term[s].screen \o term[s].pending IN
                      /\ \A j, k \in DOMAIN all : all[j] = all[k] => j = k
                      /\ \A k \in DOMAIN all : all[k] \notin term[s].gone
    BY DEF WrittenOnce
  <2> DEFINE all == term[s].screen \o term[s].pending
             gone == term[s].gone
  <2>1. Books(all, sent, gone)
    BY DEF Inv, Sound, Ledger
  <2> HIDE DEF all, gone
  <2>2. DOMAIN all = 1 .. Len(all)
    BY <2>1 DEF Books
  <2>3. /\ \A j, k \in DOMAIN all : all[j] = all[k] => j = k
        /\ \A k \in DOMAIN all : all[k] \notin gone
    BY <2>1, <2>2 DEF Books
  <2> QED BY <2>3 DEF all, gone
<1> QED BY <1>1, TerminalsAreSound, PTL

(* No output, resize, layout or timer takes a reader to the bottom or makes *)
(* the terminal follow it again, but for the exceptions the property names, *)
(* for any number of sessions, panes and acts.                              *)
THEOREM ReadersAreLeft == Spec => ReadersStay
<1> DEFINE Left == \A s \in Sessions :
                     Reading(s) /\ ~Reading(s)'
                       => \/ Fetched(s) \/ HistoryReset(s) \/ RemoveLocalSession(s) \/ Reopened
                          \/ term[s].stick \/ Attaching(term[s])
                          \/ view = "detached" /\ term[s].follow
                          \/ s \in Codex /\ (Rebuilt \/ ForcedPass(s))
<1>1. Inv /\ [Next]_vars => Left
  <2> SUFFICES ASSUME Inv, [Next]_vars, NEW s \in Sessions, Reading(s), ~Reading(s)'
               PROVE  Excused(s)
    BY DEF Excused
  <2>1. Good
    BY StepIsGood
  <2>2. term[s].auto \in BOOLEAN /\ term'[s].auto \in BOOLEAN
    <3>1. term \in [Sessions -> Terminals] /\ term' \in [Sessions -> Terminals]
      BY <2>1 DEF Good, Inv, Sound
    <3>2. term[s] \in Terminals /\ term'[s] \in Terminals
      BY <3>1
    <3> QED BY <3>2 DEF Terminals
  <2>3. Reader(term[s]) /\ ~Reader(term'[s])
    BY <2>2 DEF Reading, Reader
  <2> QED BY <2>1, <2>3 DEF Good
<1> QED BY <1>1, TerminalsAreSound, PTL DEF Spec, ReadersStay

=============================================================================

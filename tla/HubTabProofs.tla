---------------------------- MODULE HubTabProofs ----------------------------
(***************************************************************************)
(* A tab shows nothing of an older Hub and misses nothing of its own, for  *)
(* any number of sessions, connections, Hub processes and events.          *)
(***************************************************************************)
EXTENDS HubTab, FiniteSetTheorems, TLAPS

-----------------------------------------------------------------------------
(* Sequences are looked at as the set of what they hold.                    *)
In(q) == {q[n] : n \in DOMAIN q}

(* A queue that gets one more element at its end, *)
LEMMA InAppend ==
  ASSUME NEW S, NEW q \in Seq(S), NEW m \in S
  PROVE  Append(q, m) \in Seq(S) /\ In(Append(q, m)) = In(q) \cup {m}
<1>1. /\ Append(q, m) \in Seq(S) /\ Len(Append(q, m)) = Len(q) + 1 /\ Len(q) \in Nat
      /\ DOMAIN q = 1 .. Len(q) /\ DOMAIN Append(q, m) = 1 .. Len(q) + 1
  OBVIOUS
<1>2. /\ \A n \in 1 .. Len(q) : Append(q, m)[n] = q[n]
      /\ Append(q, m)[Len(q) + 1] = m
  OBVIOUS
<1>3. \A n \in 1 .. Len(q) + 1 : n \in 1 .. Len(q) \/ n = Len(q) + 1
  BY <1>1
<1>4. 1 .. Len(q) \subseteq 1 .. Len(q) + 1 /\ Len(q) + 1 \in 1 .. Len(q) + 1
  BY <1>1
<1>5. ASSUME NEW x PROVE x \in In(Append(q, m)) <=> x \in In(q) \/ x = m
  <2>1. x \in In(Append(q, m)) <=> \E n \in 1 .. Len(q) + 1 : x = Append(q, m)[n]
    BY <1>1 DEF In
  <2>2. x \in In(q) <=> \E n \in 1 .. Len(q) : x = q[n]
    BY <1>1 DEF In
  <2> QED BY <2>1, <2>2, <1>2, <1>3, <1>4
<1> QED BY <1>1, <1>5

(* one that loses its head, *)
LEMMA InTail ==
  ASSUME NEW S, NEW q \in Seq(S), q # << >>
  PROVE  /\ Tail(q) \in Seq(S) /\ Head(q) \in S
         /\ In(q) = {Head(q)} \cup In(Tail(q))
<1>1. /\ Tail(q) \in Seq(S) /\ Head(q) = q[1] /\ Len(q) \in Nat \ {0}
      /\ DOMAIN q = 1 .. Len(q) /\ DOMAIN Tail(q) = 1 .. Len(q) - 1
      /\ q[1] \in S
  OBVIOUS
<1>2. \A n \in 1 .. Len(q) - 1 : Tail(q)[n] = q[n + 1] /\ n + 1 \in 1 .. Len(q)
  OBVIOUS
<1>3. \A n \in 1 .. Len(q) : n = 1 \/ (n - 1 \in 1 .. Len(q) - 1 /\ Tail(q)[n - 1] = q[n])
  OBVIOUS
<1>4. 1 \in 1 .. Len(q)
  BY <1>1
<1>5. ASSUME NEW x PROVE x \in In(q) <=> x = Head(q) \/ x \in In(Tail(q))
  <2>1. x \in In(q) <=> \E n \in 1 .. Len(q) : x = q[n]
    BY <1>1 DEF In
  <2>2. x \in In(Tail(q)) <=> \E n \in 1 .. Len(q) - 1 : x = Tail(q)[n]
    BY <1>1 DEF In
  <2>3. x \in In(q) => x = Head(q) \/ x \in In(Tail(q))
    BY <2>1, <2>2, <1>1, <1>3
  <2>4. x \in In(Tail(q)) => x \in In(q)
    BY <2>1, <2>2, <1>2
  <2> QED BY <2>1, <2>3, <2>4, <1>1, <1>4
<1> QED BY <1>1, <1>5

(* two in a row, *)
LEMMA InConcat ==
  ASSUME NEW S, NEW p \in Seq(S), NEW q \in Seq(S)
  PROVE  p \o q \in Seq(S) /\ In(p \o q) = In(p) \cup In(q)
<1>1. /\ p \o q \in Seq(S) /\ Len(p) \in Nat /\ Len(q) \in Nat
      /\ DOMAIN p = 1 .. Len(p) /\ DOMAIN q = 1 .. Len(q)
      /\ DOMAIN (p \o q) = 1 .. Len(p) + Len(q)
  OBVIOUS
<1>2. \A n \in 1 .. Len(p) : (p \o q)[n] = p[n] /\ n \in 1 .. Len(p) + Len(q)
  OBVIOUS
<1>3. \A n \in 1 .. Len(q) : /\ (p \o q)[n + Len(p)] = q[n]
                             /\ n + Len(p) \in 1 .. Len(p) + Len(q)
  OBVIOUS
<1>4. \A n \in 1 .. Len(p) + Len(q) :
        n \in 1 .. Len(p) \/ (n - Len(p) \in 1 .. Len(q) /\ (p \o q)[n] = q[n - Len(p)])
  OBVIOUS
<1>5. ASSUME NEW x PROVE x \in In(p \o q) <=> x \in In(p) \/ x \in In(q)
  <2>1. x \in In(p \o q) <=> \E n \in 1 .. Len(p) + Len(q) : x = (p \o q)[n]
    BY <1>1 DEF In
  <2>2. /\ x \in In(p) <=> \E n \in 1 .. Len(p) : x = p[n]
        /\ x \in In(q) <=> \E n \in 1 .. Len(q) : x = q[n]
    BY <1>1 DEF In
  <2> QED BY <2>1, <2>2, <1>2, <1>3, <1>4
<1> QED BY <1>1, <1>5

(* and the short ones. *)
LEMMA InShort ==
  /\ In(<< >>) = {}
  /\ \A S : << >> \in Seq(S)
  /\ \A S : \A m \in S : <<m>> \in Seq(S) /\ In(<<m>>) = {m} /\ Head(<<m>>) = m
  /\ \A S : \A q \in Seq(S) : In(q) \subseteq S /\ (In(q) = {} => q = << >>)
<1>1. In(<< >>) = {}
  BY DEF In
<1>2. ASSUME NEW S, NEW m \in S PROVE <<m>> \in Seq(S) /\ In(<<m>>) = {m} /\ Head(<<m>>) = m
  <2>1. <<m>> \in Seq(S) /\ DOMAIN <<m>> = {1} /\ <<m>>[1] = m /\ Head(<<m>>) = m
    OBVIOUS
  <2> QED BY <2>1 DEF In
<1>3. ASSUME NEW S, NEW q \in Seq(S) PROVE In(q) \subseteq S /\ (In(q) = {} => q = << >>)
  <2>1. DOMAIN q = 1 .. Len(q) /\ \A n \in 1 .. Len(q) : q[n] \in S
    OBVIOUS
  <2>2. q # << >> => 1 \in 1 .. Len(q)
    OBVIOUS
  <2> QED BY <2>1, <2>2 DEF In
<1>4. \A S : << >> \in Seq(S)
  OBVIOUS
<1> QED BY <1>1, <1>2, <1>3, <1>4

-----------------------------------------------------------------------------
(* Messages.                                                               *)
Chunk == [h : Nat, n : Nat]

Message ==
  [t : {"update"}, id : Ids, st : {"running"}]
    \cup [t : {"end"}, id : Ids, st : {"disconnected", "completed"}]
    \cup [t : {"removed"}, id : Ids]
    \cup [t : {"pty"}, id : Ids, cs : Seq(Chunk)]
    \cup [t : {"snapshot"}, h : Nat, cards : [Ids -> States]]

(* What the Hub writes is a message. *)
LEMMA Written ==
  /\ \A i \in Ids :
       /\ Update(i, "running") \in Message /\ Update(i, "running").t = "update"
       /\ Update(i, "running").id = i
       /\ Removed(i) \in Message /\ Removed(i).t = "removed" /\ Removed(i).id = i
       /\ \A s \in {"disconnected", "completed"} :
            /\ End(i, s) \in Message /\ End(i, s).t = "end"
            /\ End(i, s).id = i /\ End(i, s).st = s
       /\ \A cs \in Seq(Chunk) :
            /\ Pty(i, cs) \in Message /\ Pty(i, cs).t = "pty"
            /\ Pty(i, cs).id = i /\ Pty(i, cs).cs = cs
  /\ \A h \in Nat, c \in [Ids -> States] :
       /\ Snapshot(h, c) \in Message /\ Snapshot(h, c).t = "snapshot"
       /\ Snapshot(h, c).h = h /\ Snapshot(h, c).cards = c
BY DEF Message, Update, Removed, End, Pty, Snapshot

(* What the tab reads in one. *)
LEMMA Read ==
  ASSUME NEW m \in Message
  PROVE  /\ m.t \in {"update", "end", "removed", "pty"} => m.id \in Ids
         /\ m.t = "update" => m.st = "running"
         /\ m.t = "end" => m.st \in {"disconnected", "completed"}
         /\ m.t = "pty" => m.cs \in Seq(Chunk)
         /\ m.t = "snapshot" => m.h \in Nat /\ m.cards \in [Ids -> States]
         /\ m.t \in {"update", "end", "removed", "pty", "snapshot"}
BY DEF Message

-----------------------------------------------------------------------------
(* Types.                                                                  *)
HubType ==
  /\ hub \in Nat \ {0} /\ up \in BOOLEAN
  /\ live \in [Ids -> States] /\ buf \in [Ids -> Seq(Chunk)]
  /\ outbox \in [Ids -> Seq(Message)] /\ ending \in [Ids -> Seq(Message)]
  /\ removing \in Seq(Ids) /\ unknown \subseteq Ids /\ events \in Nat

SocketType ==
  /\ srv \in [Sockets -> {"none", "register", "added", "captured", "sent", "ui", "gone"}]
  /\ snap \in [Sockets -> [Ids -> States]] /\ rpl \in [Sockets -> [Ids -> Seq(Chunk)]]
  /\ chan \in [Sockets -> Seq(Message)] /\ req \in [Sockets -> Seq(Ids)]
  /\ st \in [Sockets -> {"new", "connecting", "open", "zombie", "closing", "closed"}]
  /\ of \in Nat /\ cur \in Sockets /\ retry \in BOOLEAN /\ synced \in BOOLEAN
  /\ seen \subseteq Nat

Pages == [cards : [Ids -> States], active : Ids \cup {None}, pend : Ids \cup {None},
          auto : BOOLEAN, local : [Ids -> Nat], text : [Ids -> Seq(Chunk)],
          timers : SUBSET Ids]

TabType ==
  /\ Page \in Pages /\ lastActive \in Ids \cup {None} /\ inst \in Nat
  /\ purged \in BOOLEAN

TypeOK == HubType /\ SocketType /\ TabType

(* The sockets are numbered, None is no session. *)
LEMMA Numbers ==
  /\ MaxSocket \in Nat \ {0} /\ Sockets \subseteq Nat \ {0} /\ 1 \in Sockets
  /\ Ids \subseteq Nat /\ None \notin Ids /\ None \in Nat /\ IsFiniteSet(Ids)
BY HubTabAssumption DEF MaxSocket, Sockets, None

(* The functions of a start. *)
LEMMA Blank ==
  /\ NoText \in [Ids -> Seq(Chunk)] /\ NoText \in [Ids -> Seq(Message)]
  /\ NoSession \in [Ids -> States]
  /\ \A i \in Ids : NoText[i] = << >> /\ NoSession[i] = "none"
BY InShort DEF NoText, NoSession, States

(* The order of the dismissals is a sequence of sessions: each place up to  *)
(* the number of them is taken by the one with that many up to it.          *)
LEMMA Ranked ==
  ASSUME NEW is \in SUBSET Ids
  PROVE  [n \in 1 .. Cardinality(is) |->
            CHOOSE i \in is : Cardinality({j \in is : j <= i}) = n] \in Seq(Ids)
<1> DEFINE below(i) == {j \in is : j <= i}
           rank == [i \in is |-> Cardinality(below(i))]
           size == Cardinality(is)
<1>1. is \subseteq Nat /\ IsFiniteSet(is) /\ size \in Nat
  BY Numbers, FS_Subset, FS_CardinalityType
<1>2. ASSUME NEW i \in is
      PROVE  IsFiniteSet(below(i)) /\ Cardinality(below(i)) \in 1 .. size
  <2>1. below(i) \in SUBSET is /\ i \in below(i)
    BY <1>1
  <2>2. IsFiniteSet(below(i)) /\ Cardinality(below(i)) <= size
    BY <1>1, <2>1, FS_Subset
  <2>3. Cardinality(below(i)) \in Nat /\ Cardinality(below(i)) # 0
    BY <2>1, <2>2, FS_CardinalityType, FS_EmptySet
  <2> HIDE DEF below, size
  <2> QED BY <1>1, <2>2, <2>3
<1>3. ASSUME NEW i \in is, NEW k \in is, i < k
      PROVE  Cardinality(below(i)) # Cardinality(below(k))
  <2>1. below(i) \in SUBSET below(k) /\ k \in below(k) /\ k \notin below(i)
    <3>1. i \in Nat /\ k \in Nat /\ \A j \in is : j \in Nat
      BY <1>1
    <3>2. \A j \in is : j <= i => j <= k
      BY <3>1, <1>3
    <3>3. k <= k /\ ~(k <= i)
      BY <3>1, <1>3
    <3> QED BY <3>2, <3>3
  <2>2. IsFiniteSet(below(k))
    BY <1>2
  <2> HIDE DEF below
  <2> QED BY <2>1, <2>2, FS_Subset
<1>4. rank \in Injection(is, 1 .. size)
  <2>1. rank \in [is -> 1 .. size]
    BY <1>2
  <2>2. ASSUME NEW i \in is, NEW k \in is, rank[i] = rank[k] PROVE i = k
    <3>1. Cardinality(below(i)) = Cardinality(below(k))
      BY <2>2
    <3>2. i \in Nat /\ k \in Nat /\ (i < k \/ k < i \/ i = k)
      BY <1>1
    <3> HIDE DEF below
    <3> QED BY <3>1, <3>2, <1>3
  <2> HIDE DEF rank, size
  <2> QED BY <2>1, <2>2 DEF Injection, IsInjective
<1>5. IsFiniteSet(1 .. size) /\ Cardinality(1 .. size) = size
  <2> HIDE DEF size
  <2> QED BY <1>1, FS_Interval
<1>6. rank \in Surjection(is, 1 .. size)
  <2> HIDE DEF rank
  <2> QED BY <1>1, <1>4, <1>5, FS_Injection
<1>7. ASSUME NEW n \in 1 .. size PROVE \E i \in is : Cardinality(below(i)) = n
  <2>1. \E i \in is : rank[i] = n
    BY <1>6, <1>7 DEF Surjection
  <2> QED BY <2>1
<1>8. ASSUME NEW n \in 1 .. size
      PROVE  (CHOOSE i \in is : Cardinality(below(i)) = n) \in Ids
  BY <1>7
<1> DEFINE order == [n \in 1 .. size |-> CHOOSE i \in is : Cardinality(below(i)) = n]
<1>9. order \in [1 .. size -> Ids]
  BY <1>8
<1>10. order \in Seq(Ids)
  <2> HIDE DEF order, size
  <2> QED BY <1>1, <1>9
<1> QED BY <1>10

(* So a request keeps the types. *)
LEMMA DismissType ==
  ASSUME SocketType, NEW is \in SUBSET Ids, Dismissing(is)
  PROVE  req' \in [Sockets -> Seq(Ids)]
<1> DEFINE order == [n \in 1 .. Cardinality(is) |->
                       CHOOSE i \in is : Cardinality({j \in is : j <= i}) = n]
<1>1. order \in Seq(Ids)
  BY Ranked
<1>2. req' = [req EXCEPT ![cur] = @ \o order] \/ req' = req
  BY DEF Dismissing
<1> HIDE DEF order
<1>3. req[cur] \o order \in Seq(Ids)
  BY <1>1 DEF SocketType
<1> QED BY <1>2, <1>3 DEF SocketType

-----------------------------------------------------------------------------
(* The functions of the tab.                                               *)
LEMMA PageFields ==
  /\ Page.cards = cards /\ Page.active = active /\ Page.pend = pendingOpen
  /\ Page.auto = autoSwitch /\ Page.local = local /\ Page.text = text
  /\ Page.timers = timers
BY DEF Page

(* The fields of a page have their types, *)
LEMMA FieldTypes ==
  ASSUME NEW p \in Pages
  PROVE  /\ p.cards \in [Ids -> States] /\ p.active \in Ids \cup {None}
         /\ p.pend \in Ids \cup {None} /\ p.auto \in BOOLEAN /\ p.local \in [Ids -> Nat]
         /\ p.text \in [Ids -> Seq(Chunk)] /\ p.timers \in SUBSET Ids
BY DEF Pages

(* and a page of fields that have theirs is one. *)
LEMMA NextFields ==
  ASSUME cards' \in [Ids -> States], active' \in Ids \cup {None},
         pendingOpen' \in Ids \cup {None}, autoSwitch' \in BOOLEAN,
         local' \in [Ids -> Nat], text' \in [Ids -> Seq(Chunk)], timers' \in SUBSET Ids
  PROVE  Page' \in Pages
BY DEF Page, Pages

(* The page after a handler is the one it has built. *)
LEMMA BecomePage ==
  ASSUME NEW p \in Pages, Become(p)
  PROVE  Page' = p
BY DEF Become, Page, Pages

(* Terminals come from the Hub reached last, or are gone. *)
Tended(p, q) == \A j \in Ids : q.local[j] \in {p.local[j], 0, of}

(* ensureTerminal marks a terminal with the Hub reached last. *)
LEMMA EnsureShape ==
  ASSUME NEW p \in Pages, NEW i \in Ids, of \in Nat
  PROVE  LET q == EnsureTerminal(p, i)
         IN  /\ q \in Pages /\ q.cards = p.cards /\ q.text = p.text /\ q.pend = p.pend
             /\ \A j \in Ids : q.local[j] \in {p.local[j], of}
<1> DEFINE l == [p.local EXCEPT ![i] = of]
           q == [p EXCEPT !.local = l]
<1>1. l \in [Ids -> Nat] /\ \A j \in Ids : l[j] \in {p.local[j], of}
  BY FieldTypes
<1>2. EnsureTerminal(p, i) \in {p, q}
  BY DEF EnsureTerminal, Pages
<1> HIDE DEF l
<1>3. q \in Pages /\ q.cards = p.cards /\ q.text = p.text /\ q.pend = p.pend /\ q.local = l
  BY <1>1 DEF Pages
<1> HIDE DEF q
<1> QED BY <1>1, <1>2, <1>3

(* So does activateSession. *)
LEMMA ActivateShape ==
  ASSUME NEW p \in Pages, NEW i \in Ids, of \in Nat
  PROVE  LET q == ActivateSession(p, i)
         IN  /\ q \in Pages /\ q.cards = p.cards /\ q.text = p.text /\ q.pend = p.pend
             /\ \A j \in Ids : q.local[j] \in {p.local[j], of}
<1> DEFINE e == EnsureTerminal(p, i)
           q == [e EXCEPT !.active = i]
<1>1. e \in Pages /\ e.cards = p.cards /\ e.text = p.text /\ e.pend = p.pend
      /\ \A j \in Ids : e.local[j] \in {p.local[j], of}
  BY EnsureShape
<1> HIDE DEF e
<1>2. q \in Pages /\ q.cards = e.cards /\ q.text = e.text /\ q.pend = e.pend /\ q.local = e.local
  BY <1>1 DEF Pages
<1>3. ActivateSession(p, i) = q
  BY DEF ActivateSession, e
<1> HIDE DEF q
<1> QED BY <1>1, <1>2, <1>3

(* removeLocalSession takes one card and its text away, and no other. *)
LEMMA RemoveShape ==
  ASSUME NEW p \in Pages, NEW i \in Ids, of \in Nat, NEW r \in RemoveLocal(p, i)
  PROVE  /\ r \in Pages /\ Tended(p, r)
         /\ \A j \in Ids \ {i} : r.cards[j] = p.cards[j] /\ r.text[j] = p.text[j]
         /\ r.text[i] = << >>
<1> DEFINE cs == [p.cards EXCEPT ![i] = "none"]
           ls == [p.local EXCEPT ![i] = 0]
           ts == [p.text EXCEPT ![i] = << >>]
           act == IF p.active = i THEN None ELSE p.active
           q == [p EXCEPT !.cards = cs, !.local = ls, !.text = ts,
                          !.timers = p.timers \ {i}, !.active = act]
           left == {j \in Ids : q.cards[j] # "none"}
<1>1. /\ cs \in [Ids -> States] /\ ls \in [Ids -> Nat] /\ ts \in [Ids -> Seq(Chunk)]
      /\ p.timers \ {i} \in SUBSET Ids /\ act \in Ids \cup {None}
  <2>1. "none" \in States /\ << >> \in Seq(Chunk)
    BY InShort DEF States
  <2> QED BY <2>1, FieldTypes
<1>2. /\ \A j \in Ids : ls[j] \in {p.local[j], 0}
      /\ \A j \in Ids \ {i} : cs[j] = p.cards[j] /\ ts[j] = p.text[j]
      /\ ts[i] = << >>
  BY FieldTypes
<1>3. r \in {q} \cup {ActivateSession(q, j) : j \in left}
  BY DEF RemoveLocal, Pages
<1> HIDE DEF cs, ls, ts, act
<1>4. q.cards = cs /\ q.local = ls /\ q.text = ts
  BY DEF Pages
<1>5. q \in Pages
  BY <1>1 DEF Pages
<1> HIDE DEF q
<1>6. /\ \A j \in Ids : q.local[j] \in {p.local[j], 0}
      /\ \A j \in Ids \ {i} : q.cards[j] = p.cards[j] /\ q.text[j] = p.text[j]
      /\ q.text[i] = << >>
  BY <1>2, <1>4
<1>7. CASE r = q
  BY <1>5, <1>6, <1>7 DEF Tended
<1>8. ASSUME NEW j \in left, r = ActivateSession(q, j)
      PROVE  /\ r \in Pages /\ r.cards = q.cards /\ r.text = q.text
             /\ \A k \in Ids : r.local[k] \in {q.local[k], of}
  BY <1>5, <1>8, ActivateShape
<1>9. CASE \E j \in left : r = ActivateSession(q, j)
  <2>1. /\ r \in Pages /\ r.cards = q.cards /\ r.text = q.text
        /\ \A k \in Ids : r.local[k] \in {q.local[k], of}
    BY <1>8, <1>9
  <2> HIDE DEF left
  <2> QED BY <2>1, <1>6 DEF Tended
<1> QED BY <1>3, <1>7, <1>9

(* A snapshot of another Hub empties the page first. *)
LEMMA PurgeShape ==
  ASSUME NEW p \in Pages
  PROVE  /\ Purge(p) \in Pages /\ Purge(p).text = NoText
         /\ \A j \in Ids : Purge(p).local[j] = 0
<1> DEFINE known == {i \in Ids : p.local[i] # 0 \/ p.cards[i] # "none"}
           zero == [i \in Ids |-> 0]
           q == [p EXCEPT !.cards = NoSession, !.active = None, !.timers = p.timers \ known,
                          !.local = zero, !.text = NoText]
<1>1. Purge(p) = q
  BY DEF Purge, Pages
<1> HIDE DEF known
<1>2. zero \in [Ids -> Nat] /\ \A j \in Ids : zero[j] = 0
  OBVIOUS
<1>3. p.timers \ known \in SUBSET Ids
  BY FieldTypes
<1> HIDE DEF zero
<1>4. q \in Pages /\ q.local = zero /\ q.text = NoText
  BY <1>2, <1>3, Blank DEF Pages
<1> HIDE DEF q
<1> QED BY <1>1, <1>2, <1>4

(* A snapshot gives a card to each session that has not completed. *)
LEMMA AppliedShape ==
  ASSUME NEW p \in Pages, NEW arr \in [Ids -> States]
  PROVE  /\ Applied(p, arr) \in Pages
         /\ Applied(p, arr).text = p.text /\ Applied(p, arr).local = p.local
         /\ \A i \in Ids : Applied(p, arr).cards[i] =
              IF arr[i] \in Listed \ {"completed"} THEN arr[i] ELSE p.cards[i]
<1> DEFINE cs == [i \in Ids |-> IF arr[i] \in Listed \ {"completed"} THEN arr[i] ELSE p.cards[i]]
           q == [p EXCEPT !.cards = cs]
<1>1. cs \in [Ids -> States]
  BY FieldTypes
<1>2. Applied(p, arr) = q
  BY DEF Applied
<1>3. \A i \in Ids : cs[i] = IF arr[i] \in Listed \ {"completed"} THEN arr[i] ELSE p.cards[i]
  OBVIOUS
<1> HIDE DEF cs
<1>4. q \in Pages /\ q.text = p.text /\ q.local = p.local /\ q.cards = cs
  BY <1>1 DEF Pages
<1> HIDE DEF q
<1> QED BY <1>2, <1>3, <1>4

(* A session a notification asked for is opened. *)
LEMMA PendingShape ==
  ASSUME NEW p \in Pages, of \in Nat
  PROVE  LET q == OpenPending(p)
         IN  /\ q \in Pages /\ q.cards = p.cards /\ q.text = p.text
             /\ \A j \in Ids : q.local[j] \in {p.local[j], of}
<1>1. CASE p.pend # None /\ p.cards[p.pend] # "none"
  <2> DEFINE a == ActivateSession(p, p.pend)
             q == [a EXCEPT !.pend = None]
  <2>1. p.pend \in Ids
    BY <1>1, FieldTypes
  <2>2. a \in Pages /\ a.cards = p.cards /\ a.text = p.text
        /\ \A j \in Ids : a.local[j] \in {p.local[j], of}
    BY <2>1, ActivateShape
  <2>3. OpenPending(p) = q
    BY <1>1 DEF OpenPending
  <2> HIDE DEF a
  <2>4. q \in Pages /\ q.cards = a.cards /\ q.text = a.text /\ q.local = a.local
    BY <2>2 DEF Pages
  <2> HIDE DEF q
  <2> QED BY <2>2, <2>3, <2>4
<1>2. CASE ~(p.pend # None /\ p.cards[p.pend] # "none")
  <2>1. OpenPending(p) = p
    BY <1>2 DEF OpenPending
  <2> QED BY <2>1
<1> QED BY <1>1, <1>2

-----------------------------------------------------------------------------
(* What the steps do to the channels and the page.                         *)
LEMMA SendShape ==
  ASSUME SocketType, NEW m \in Message, Send(m)
  PROVE  /\ chan' \in [Sockets -> Seq(Message)]
         /\ \A k \in Sockets :
              In(chan'[k]) = IF Hears(k) THEN In(chan[k]) \cup {m} ELSE In(chan[k])
<1>1. ASSUME NEW k \in Sockets
      PROVE  /\ chan[k] \in Seq(Message)
             /\ Append(chan[k], m) \in Seq(Message)
             /\ In(Append(chan[k], m)) = In(chan[k]) \cup {m}
  <2>1. chan[k] \in Seq(Message)
    BY DEF SocketType
  <2> QED BY <2>1, InAppend
<1>2. chan' = [k \in Sockets |-> IF Hears(k) THEN Append(chan[k], m) ELSE chan[k]]
  BY DEF Send
<1> QED BY <1>1, <1>2

(* The tab takes the head of its channel. *)
LEMMA ReceiveShape ==
  ASSUME SocketType, NEW type, Receive(type)
  PROVE  LET m == Head(chan[cur])
         IN  /\ m \in Message /\ m.t = type
             /\ chan' \in [Sockets -> Seq(Message)]
             /\ In(chan[cur]) = {m} \cup In(chan'[cur])
<1>1. chan[cur] \in Seq(Message) /\ chan[cur] # << >> /\ cur \in Sockets
  BY DEF SocketType, Receive
<1>2. /\ Tail(chan[cur]) \in Seq(Message) /\ Head(chan[cur]) \in Message
      /\ In(chan[cur]) = {Head(chan[cur])} \cup In(Tail(chan[cur]))
  BY <1>1, InTail
<1>3. chan' = [chan EXCEPT ![cur] = Tail(@)] /\ Head(chan[cur]).t = type
  BY DEF Receive
<1>4. chan'[cur] = Tail(chan[cur]) /\ chan' \in [Sockets -> Seq(Message)]
  BY <1>1, <1>2, <1>3 DEF SocketType
<1> QED BY <1>2, <1>3, <1>4

(* Terminals on the page are of the Hub reached last or stay what they were; *)
(* a session keeps its card and its text.                                    *)
LocalStep == \A j \in Ids : local'[j] \in {local[j], 0, of}
Kept(j) == (cards[j] # "none" => cards'[j] # "none") /\ In(text[j]) \subseteq In(text'[j])
NoNewText == \A j \in Ids : In(text'[j]) \subseteq In(text[j])

(* Output is shown under its number. *)
LEMMA PtyEffect ==
  ASSUME TypeOK, OnPty
  PROVE  LET m == Head(chan[cur])
         IN  /\ Page' \in Pages /\ LocalStep
             /\ \A j \in Ids : Kept(j) /\ In(text'[j]) \subseteq In(text[j]) \cup In(m.cs)
             /\ In(m.cs) \subseteq In(text'[m.id])
<1> DEFINE m == Head(chan[cur])
           e == EnsureTerminal(Page, m.id)
           p == [e EXCEPT !.text = [e.text EXCEPT ![m.id] = @ \o m.cs]]
<1>1. m \in Message /\ m.t = "pty"
  BY ReceiveShape DEF TypeOK, OnPty
<1>2. m.id \in Ids /\ m.cs \in Seq(Chunk)
  BY SMTT(20), <1>1, Read
<1>3. Become([e EXCEPT !.text[m.id] = @ \o m.cs])
  BY DEF OnPty
<1> HIDE DEF m
<1>4. /\ e \in Pages /\ e.cards = cards /\ e.text = text
      /\ \A j \in Ids : e.local[j] \in {local[j], of}
  BY <1>2, EnsureShape, PageFields DEF TypeOK, TabType, SocketType
<1>5. Become(p)
  BY <1>3, <1>4 DEF Pages
<1> HIDE DEF e
<1>6. text \in [Ids -> Seq(Chunk)] /\ text[m.id] \in Seq(Chunk)
  BY <1>2, <1>4, FieldTypes
<1>7. text[m.id] \o m.cs \in Seq(Chunk) /\ In(text[m.id] \o m.cs) = In(text[m.id]) \cup In(m.cs)
  BY <1>2, <1>6, InConcat
<1> DEFINE ts == [text EXCEPT ![m.id] = @ \o m.cs]
<1>8. ts \in [Ids -> Seq(Chunk)]
  BY <1>6, <1>7
<1>9. \A j \in Ids : In(ts[j]) = In(text[j]) \cup (IF j = m.id THEN In(m.cs) ELSE {})
  BY <1>6, <1>7
<1>10. p = [e EXCEPT !.text = ts]
  BY <1>4
<1> HIDE DEF ts, p
<1>11. p \in Pages /\ p.text = ts /\ p.cards = cards /\ p.local = e.local
  BY <1>4, <1>8, <1>10 DEF Pages
<1>12. Page' = p /\ text' = ts /\ cards' = cards /\ local' = e.local
  BY <1>5, <1>11, BecomePage DEF Become
<1> QED BY SMTT(20), <1>2, <1>4, <1>9, <1>11, <1>12 DEF LocalStep, Kept, m

(* A snapshot of another Hub leaves no terminal of an older one. *)
LEMMA SnapshotEffect ==
  ASSUME TypeOK, OnSnapshot
  PROVE  LET m == Head(chan[cur])
             other == inst # 0 /\ inst # m.h
         IN  /\ Page' \in Pages /\ NoNewText
             /\ other => \A j \in Ids : local'[j] \in {0, of}
             /\ ~other => /\ LocalStep
                          /\ \A j \in Ids :
                               /\ Kept(j)
                               /\ m.cards[j] \in {"running", "disconnected"} => cards'[j] # "none"
<1> DEFINE m == Head(chan[cur])
           other == inst # 0 /\ inst # m.h
           p == IF other THEN Purge(Page) ELSE Page
           a == Applied(p, m.cards)
           q == OpenPending(a)
<1>1. m \in Message /\ m.t = "snapshot"
  BY ReceiveShape DEF TypeOK, OnSnapshot
<1>2. m.cards \in [Ids -> States] /\ Page \in Pages /\ of \in Nat
  BY <1>1, Read DEF TypeOK, TabType, SocketType
<1>3. Become(q)
  BY DEF OnSnapshot
<1> HIDE DEF m, other
<1>4. /\ p \in Pages
      /\ other => p.text = NoText /\ \A j \in Ids : p.local[j] = 0
      /\ ~other => p = Page
  BY <1>2, PurgeShape
<1> HIDE DEF p
<1>5. /\ a \in Pages /\ a.text = p.text /\ a.local = p.local
      /\ \A i \in Ids : a.cards[i] = IF m.cards[i] \in Listed \ {"completed"} THEN m.cards[i]
                                                                            ELSE p.cards[i]
  BY <1>2, <1>4, AppliedShape
<1> HIDE DEF a
<1>6. /\ q \in Pages /\ q.cards = a.cards /\ q.text = a.text
      /\ \A j \in Ids : q.local[j] \in {a.local[j], of}
  BY <1>2, <1>5, PendingShape
<1> HIDE DEF q
<1>7. Page' = q /\ text' = q.text /\ cards' = q.cards /\ local' = q.local
  BY <1>3, <1>6, BecomePage DEF Become
<1>8. NoNewText
  <2>1. other => \A j \in Ids : In(text'[j]) = {}
    BY <1>4, <1>5, <1>6, <1>7, Blank, InShort
  <2>2. ~other => text' = text
    BY <1>4, <1>5, <1>6, <1>7, PageFields
  <2> QED BY <2>1, <2>2 DEF NoNewText
<1>9. other => \A j \in Ids : local'[j] \in {0, of}
  BY <1>4, <1>5, <1>6, <1>7
<1>10. ASSUME ~other
       PROVE  /\ LocalStep
              /\ \A j \in Ids :
                   /\ Kept(j)
                   /\ m.cards[j] \in {"running", "disconnected"} => cards'[j] # "none"
  <2>1. text' = text /\ \A j \in Ids : local'[j] \in {local[j], of}
    BY <1>4, <1>5, <1>6, <1>7, <1>10, PageFields
  <2>2. ASSUME NEW j \in Ids
        PROVE  cards'[j] = IF m.cards[j] \in Listed \ {"completed"} THEN m.cards[j] ELSE cards[j]
    BY <1>4, <1>5, <1>6, <1>7, <1>10, PageFields
  <2>3. \A s \in Listed \ {"completed"} : s # "none"
    BY DEF Listed
  <2>4. {"running", "disconnected"} \subseteq Listed \ {"completed"}
    BY DEF Listed
  <2> QED BY <2>1, <2>2, <2>3, <2>4 DEF LocalStep, Kept
<1> QED BY <1>6, <1>7, <1>8, <1>9, <1>10 DEF m, other

(* An update gives a card. *)
LEMMA UpdateEffect ==
  ASSUME TypeOK, OnUpdate
  PROVE  /\ Page' \in Pages /\ LocalStep /\ NoNewText
         /\ \A j \in Ids : Kept(j)
         /\ cards'[Head(chan[cur]).id] # "none"
<1> DEFINE m == Head(chan[cur])
           cs == [cards EXCEPT ![m.id] = m.st]
           q == [Page EXCEPT !.cards = cs]
           a == [q EXCEPT !.auto = FALSE]
<1>1. m \in Message /\ m.t = "update"
  BY ReceiveShape DEF TypeOK, OnUpdate
<1>2. m.id \in Ids /\ m.st = "running" /\ Page \in Pages /\ of \in Nat
  BY <1>1, Read DEF TypeOK, TabType, SocketType
<1>3. Become(q) \/ Become(ActivateSession(a, m.id))
  <2>1. [Page EXCEPT !.cards[m.id] = m.st] = q
    BY <1>2, PageFields DEF Pages
  <2> QED BY <2>1 DEF OnUpdate
<1> HIDE DEF m
<1>4. cards \in [Ids -> States] /\ cs \in [Ids -> States] /\ cs[m.id] = "running"
      /\ \A j \in Ids : cs[j] = "running" \/ cs[j] = cards[j]
  <2>1. cards \in [Ids -> States] /\ "running" \in States
    BY <1>2, PageFields, FieldTypes DEF States
  <2> QED BY <1>2, <2>1
<1> HIDE DEF cs
<1>5. q \in Pages /\ q.cards = cs /\ q.text = text /\ q.local = local
  BY <1>2, <1>4, PageFields DEF Pages
<1> HIDE DEF q
<1>6. a \in Pages /\ a.cards = cs /\ a.text = text /\ a.local = local
  BY <1>5 DEF Pages
<1> HIDE DEF a
<1>7. \E r \in Pages : /\ Become(r) /\ r.cards = cs /\ r.text = text
                       /\ \A j \in Ids : r.local[j] \in {local[j], of}
  <2>1. CASE Become(q)
    BY <2>1, <1>5
  <2>2. CASE Become(ActivateSession(a, m.id))
    <3>1. LET r == ActivateSession(a, m.id)
          IN  /\ r \in Pages /\ r.cards = a.cards /\ r.text = a.text
              /\ \A j \in Ids : r.local[j] \in {a.local[j], of}
      BY <1>2, <1>6, ActivateShape
    <3> QED BY <2>2, <3>1, <1>6
  <2> QED BY <1>3, <2>1, <2>2
<1>8. Page' \in Pages /\ cards' = cs /\ text' = text
      /\ \A j \in Ids : local'[j] \in {local[j], of}
  BY <1>7, BecomePage DEF Become
<1> QED BY <1>4, <1>8 DEF LocalStep, Kept, NoNewText, m

(* One session is removed from the page, with its card and its text. *)
LEMMA RemoveEffect ==
  ASSUME TypeOK, NEW i \in Ids, \E p \in RemoveLocal(Page, i) : Become(p)
  PROVE  /\ Page' \in Pages /\ LocalStep /\ NoNewText
         /\ \A j \in Ids \ {i} : Kept(j)
<1>1. PICK p \in RemoveLocal(Page, i) : Become(p)
  OBVIOUS
<1>2. Page \in Pages /\ of \in Nat
  BY DEF TypeOK, TabType, SocketType
<1>3. /\ p \in Pages /\ Tended(Page, p)
      /\ \A j \in Ids \ {i} : p.cards[j] = cards[j] /\ p.text[j] = text[j]
      /\ p.text[i] = << >>
  BY <1>1, <1>2, RemoveShape, PageFields
<1>4. Page' = p /\ cards' = p.cards /\ text' = p.text /\ local' = p.local
  BY <1>1, <1>3, BecomePage DEF Become
<1>5. LocalStep
  BY <1>3, <1>4, PageFields DEF Tended, LocalStep
<1>6. NoNewText
  <2>1. In(text'[i]) = {}
    BY <1>3, <1>4, InShort
  <2> QED BY <1>3, <1>4, <2>1 DEF NoNewText
<1> QED BY <1>3, <1>4, <1>5, <1>6 DEF Kept

(* The end of a session takes its card only if it has completed. *)
LEMMA EndEffect ==
  ASSUME TypeOK, OnEnd
  PROVE  LET m == Head(chan[cur])
         IN  /\ Page' \in Pages /\ LocalStep /\ NoNewText
             /\ \A j \in Ids : Kept(j) \/ (m.st = "completed" /\ j = m.id)
<1> DEFINE m == Head(chan[cur])
<1>1. m \in Message /\ m.t = "end"
  BY ReceiveShape DEF TypeOK, OnEnd
<1>2. m.id \in Ids /\ m.st \in {"disconnected", "completed"} /\ Page \in Pages /\ of \in Nat
  BY <1>1, Read DEF TypeOK, TabType, SocketType
<1>3. CASE m.st = "completed"
  <2>1. \E p \in RemoveLocal(Page, m.id) : Become(p)
    BY <1>3 DEF OnEnd
  <2> HIDE DEF m
  <2> QED BY <1>2, <1>3, <2>1, RemoveEffect DEF m
<1>4. CASE m.st = "disconnected"
  <2> DEFINE cs == [cards EXCEPT ![m.id] = IF @ = "none" THEN @ ELSE m.st]
             p == [Page EXCEPT !.cards = cs, !.timers = timers \cup {m.id}]
  <2>1. Become(p)
    <3>1. [Page EXCEPT !.cards[m.id] = IF @ = "none" THEN @ ELSE m.st,
                       !.timers = @ \cup {m.id}] = p
      BY <1>2, PageFields DEF Pages
    <3> QED BY <1>4, <3>1 DEF OnEnd
  <2> HIDE DEF m
  <2>2. cards \in [Ids -> States] /\ timers \in SUBSET Ids
    BY <1>2, PageFields, FieldTypes
  <2>3. cs \in [Ids -> States] /\ timers \cup {m.id} \in SUBSET Ids
        /\ \A j \in Ids : cards[j] # "none" => cs[j] # "none"
    BY <1>2, <1>4, <2>2 DEF States
  <2> HIDE DEF cs
  <2>4. p \in Pages /\ p.cards = cs /\ p.text = text /\ p.local = local
    BY <1>2, <2>3, PageFields DEF Pages
  <2> HIDE DEF p
  <2>5. Page' = p /\ cards' = cs /\ text' = text /\ local' = local
    BY <2>1, <2>4, BecomePage DEF Become
  <2> QED BY <2>3, <2>4, <2>5 DEF LocalStep, Kept, NoNewText
<1> QED BY <1>2, <1>3, <1>4

(* A removal takes one card. *)
LEMMA RemovedEffect ==
  ASSUME TypeOK, OnRemoved
  PROVE  LET m == Head(chan[cur])
         IN  /\ Page' \in Pages /\ LocalStep /\ NoNewText
             /\ \A j \in Ids : Kept(j) \/ j = m.id
<1> DEFINE m == Head(chan[cur])
<1>1. m \in Message /\ m.t = "removed"
  BY ReceiveShape DEF TypeOK, OnRemoved
<1>2. m.id \in Ids
  BY <1>1, Read
<1>3. \E p \in RemoveLocal(Page, m.id) : Become(p)
  BY DEF OnRemoved
<1> HIDE DEF m
<1> QED BY <1>2, <1>3, RemoveEffect DEF m

(* The user takes none. *)
LEMMA ActivateEffect ==
  ASSUME TypeOK, NEW i \in Ids, Activate(i)
  PROVE  Page' \in Pages /\ LocalStep /\ NoNewText /\ \A j \in Ids : Kept(j)
<1> DEFINE q == ActivateSession(Page, i)
<1>1. Page \in Pages /\ of \in Nat
  BY DEF TypeOK, TabType, SocketType
<1>2. q \in Pages /\ q.cards = cards /\ q.text = text
      /\ \A j \in Ids : q.local[j] \in {local[j], of}
  BY <1>1, ActivateShape, PageFields
<1>3. Become(q)
  BY DEF Activate
<1> HIDE DEF q
<1>4. Page' = q /\ cards' = cards /\ text' = text /\ local' = q.local
  BY <1>2, <1>3, BecomePage DEF Become
<1> QED BY <1>2, <1>4 DEF LocalStep, Kept, NoNewText

-----------------------------------------------------------------------------
(* What a step of the Hub leaves alone, and what a step of the tab does.    *)
Hubs == HubStep \/ HubStarts \/ (\E k \in Sockets : HubWork(k)) \/ Broadcasts
Replaces == EnsureAlive \/ RetryFires
Closes == ConnectFails \/ \E k \in Sockets : Lost(k) \/ OnClose(k)
Elsewhere == \/ \E i \in Ids : TimerFires(i) \/ DismissSession(i) \/ OpenFromNotification(i)
             \/ SpawnPending

(* The next-state relation by who acts. *)
LEMMA Steps ==
  ASSUME Next
  PROVE  \/ Hubs \/ Replaces \/ Open \/ Closes \/ Watchdog \/ Cut \/ Messages \/ Elsewhere
         \/ \E i \in Ids : Activate(i)
BY DEF Next, Hubs, Replaces, Closes, Elsewhere, Connection, User

(* The Hub changes nothing of the tab. *)
LEMMA HubSide == Hubs => UNCHANGED <<socket, page, purged>>
<1> SUFFICES ASSUME Hubs PROVE UNCHANGED <<socket, page, purged>>
  OBVIOUS
<1>1. CASE HubStep
  BY <1>1 DEF HubStep, Begin, Output, Drop, Complete, Ends, Return, HubStops
<1>2. CASE HubStarts
  BY <1>2 DEF HubStarts
<1>3. ASSUME NEW k \in Sockets, HubWork(k) PROVE UNCHANGED <<socket, page, purged>>
  BY <1>3 DEF HubWork, AddUI, Capture, SendSnapshot, Replay, Serve, RemoveUI, HandleDismiss
<1>4. CASE Broadcasts
  BY <1>4 DEF Broadcasts, BroadcastRemoved, Broadcast, BroadcastEnd
<1> QED BY <1>1, <1>2, <1>3, <1>4 DEF Hubs

(* A message, a timer or an act of the user leaves the Hub alone. *)
LEMMA MessageSide ==
  Messages => /\ UNCHANGED <<session, server, unknown, events, st, of, cur, retry, lastActive>>
              /\ st[cur] = "open" /\ chan[cur] # << >>
              /\ chan' = [chan EXCEPT ![cur] = Tail(@)]
<1>1. Messages => \E type : Receive(type)
  BY Zenon DEF Messages, OnPty, OnSnapshot, OnUpdate, OnEnd, OnRemoved
<1>2. ASSUME NEW type, Receive(type)
      PROVE  /\ UNCHANGED <<session, server, unknown, events, st, of, cur, retry, lastActive>>
             /\ st[cur] = "open" /\ chan[cur] # << >>
             /\ chan' = [chan EXCEPT ![cur] = Tail(@)]
  BY <1>2, Zenon DEF Receive, session, server
<1> QED BY <1>1, <1>2

(* A timer or an act of the user changes no connection and no session. *)
LEMMA ElsewhereSide ==
  Elsewhere => UNCHANGED <<session, server, unknown, chan, socket, cards, active, lastActive,
                           inst, local, text, purged>>
BY DEF Elsewhere, TimerFires, DismissSession, OpenFromNotification, SpawnPending, page

-----------------------------------------------------------------------------
(* Types are kept.                                                         *)
LEMMA InitType == Init => TypeOK
<1> SUFFICES ASSUME Init PROVE TypeOK
  OBVIOUS
<1>1. HubType
  BY Blank, InShort, HubTabAssumption DEF Init, HubType
<1>2. SocketType
  BY Blank, InShort, Numbers DEF Init, SocketType
<1>3. TabType
  <2>1. Page = [cards |-> NoSession, active |-> None, pend |-> None, auto |-> FALSE,
                local |-> [i \in Ids |-> 0], text |-> NoText, timers |-> {}]
    BY DEF Init, Page
  <2>2. [i \in Ids |-> 0] \in [Ids -> Nat]
    OBVIOUS
  <2>3. Page \in Pages
    BY <2>1, <2>2, Blank DEF Pages
  <2> QED BY <2>3 DEF Init, TabType
<1> QED BY <1>1, <1>2, <1>3 DEF TypeOK

(* The Hub's side. *)
LEMMA HubTypeStep ==
  ASSUME TypeOK, Hubs
  PROVE  HubType' /\ SocketType' /\ TabType'
<1>0. TabType' /\ UNCHANGED <<st, of, cur, retry, synced, seen>>
  BY HubSide DEF TypeOK, TabType, Page, socket, page
<1> DEFINE Quiet1 == UNCHANGED <<srv, snap, rpl, chan, req>>
           Quiet2 == UNCHANGED <<hub, up, live, buf, outbox, ending, removing, unknown, events>>
<1>1. Quiet1 => SocketType'
  BY <1>0 DEF TypeOK, SocketType
<1>2. Quiet2 => HubType'
  BY DEF TypeOK, HubType
<1>3. ASSUME NEW i \in Ids
      PROVE  /\ buf[i] \in Seq(Chunk) /\ outbox[i] \in Seq(Message) /\ ending[i] \in Seq(Message)
             /\ \A m \in Message : <<m>> \in Seq(Message) /\ Append(ending[i], m) \in Seq(Message)
             /\ outbox[i] # << >> => /\ Head(outbox[i]) \in Message
                                     /\ Tail(outbox[i]) \in Seq(Message)
             /\ ending[i] # << >> => /\ Head(ending[i]) \in Message
                                     /\ Tail(ending[i]) \in Seq(Message)
  <2>1. buf[i] \in Seq(Chunk) /\ outbox[i] \in Seq(Message) /\ ending[i] \in Seq(Message)
    BY DEF TypeOK, HubType
  <2> QED BY <2>1, InAppend, InTail, InShort
<1>4. ASSUME NEW i \in Ids, Begin(i) \/ Return(i) PROVE HubType' /\ Quiet1
  <2>1. Update(i, "running") \in Message /\ "running" \in States
    BY Written DEF States
  <2>2. <<Update(i, "running")>> \in Seq(Message)
    BY <1>3, <2>1
  <2> QED BY <1>4, <2>1, <2>2 DEF Begin, Return, TypeOK, HubType, server
<1>5. ASSUME NEW i \in Ids, Output(i) PROVE HubType' /\ Quiet1
  <2> DEFINE c == [h |-> hub, n |-> events + 1]
  <2>1. c \in Chunk
    BY DEF Chunk, TypeOK, HubType
  <2>2. Append(buf[i], c) \in Seq(Chunk) /\ <<c>> \in Seq(Chunk)
    BY <1>3, <2>1, InAppend, InShort
  <2>3. <<Pty(i, <<c>>)>> \in Seq(Message)
    BY <1>3, <2>2, Written
  <2>4. /\ buf' = [buf EXCEPT ![i] = Append(@, c)]
        /\ outbox' = [outbox EXCEPT ![i] = <<Pty(i, <<c>>)>>] /\ events' = events + 1
    BY <1>5 DEF Output, Happens
  <2> HIDE DEF c
  <2>5. Quiet1 /\ UNCHANGED <<hub, up, live, ending, removing, unknown>>
    BY <1>5 DEF Output, server
  <2> QED BY <2>2, <2>3, <2>4, <2>5 DEF TypeOK, HubType
<1>6. ASSUME NEW i \in Ids, Drop(i) \/ Complete(i) PROVE HubType' /\ Quiet1
  <2>1. PICK s \in {"disconnected", "completed"} : Ends(i, s)
    BY <1>6 DEF Drop, Complete
  <2>2. End(i, s) \in Message /\ s \in States
    BY Written DEF States
  <2>3. Append(ending[i], End(i, s)) \in Seq(Message)
    BY <1>3, <2>2
  <2>4. events' \in Nat
    BY <1>6 DEF Drop, Complete, Happens, TypeOK, HubType
  <2>5. /\ live' = [live EXCEPT ![i] = s] /\ ending' = [ending EXCEPT ![i] = Append(@, End(i, s))]
        /\ Quiet1 /\ UNCHANGED <<hub, up, buf, outbox, removing, unknown>>
    BY <2>1 DEF Ends, server
  <2> QED BY <2>2, <2>3, <2>4, <2>5 DEF TypeOK, HubType
<1>7. CASE HubStops
  <2>1. HubType'
    <3>1. /\ live' = NoSession /\ buf' = NoText /\ outbox' = NoText /\ ending' = NoText
          /\ removing' = << >> /\ unknown' = {} /\ hub' = hub /\ up' = FALSE
          /\ events' = events + 1
      BY <1>7 DEF HubStops, Happens
    <3>2. << >> \in Seq(Ids)
      BY InShort
    <3>3. up' \in BOOLEAN
      BY <3>1
    <3>4. /\ live' \in [Ids -> States] /\ buf' \in [Ids -> Seq(Chunk)]
          /\ outbox' \in [Ids -> Seq(Message)] /\ ending' \in [Ids -> Seq(Message)]
      BY <3>1, Blank
    <3>5. hub' \in Nat \ {0} /\ events' \in Nat /\ removing' \in Seq(Ids)
          /\ unknown' \subseteq Ids
      BY <3>1, <3>2 DEF TypeOK, HubType
    <3> QED BY <3>3, <3>4, <3>5 DEF HubType
  <2>2. SocketType'
    <3>1. << >> \in Seq(Ids) /\ chan' = chan
      BY <1>7, InShort DEF HubStops
    <3>2. srv' \in [Sockets -> {"none", "register", "added", "captured", "sent", "ui", "gone"}]
      BY <1>7 DEF HubStops
    <3>3. /\ snap' = [k \in Sockets |-> NoSession] /\ rpl' = [k \in Sockets |-> NoText]
          /\ req' = [k \in Sockets |-> << >>]
      BY <1>7 DEF HubStops
    <3> QED BY <1>0, <3>1, <3>2, <3>3, Blank DEF TypeOK, SocketType
  <2> QED BY <1>0, <2>1, <2>2
<1>8. CASE HubStarts
  <2>1. HubType'
    BY <1>8 DEF HubStarts, TypeOK, HubType, session
  <2>2. Quiet1
    BY <1>8 DEF HubStarts
  <2> QED BY <1>0, <2>1, <2>2, <1>1
<1>9. ASSUME NEW k \in Sockets, HubWork(k) PROVE HubType' /\ SocketType'
  <2>1. CASE AddUI(k) \/ Capture(k) \/ Serve(k) \/ RemoveUI(k)
    <3>1. Quiet2
      BY <2>1 DEF AddUI, Capture, Serve, RemoveUI, session
    <3>2. buf \in [Ids -> Seq(Chunk)] /\ live \in [Ids -> States]
      BY DEF TypeOK, HubType
    <3>3. srv' \in [Sockets -> {"none", "register", "added", "captured", "sent", "ui", "gone"}]
          /\ chan' = chan
      BY <2>1 DEF AddUI, Capture, Serve, RemoveUI, TypeOK, SocketType
    <3>4. snap' \in [Sockets -> [Ids -> States]]
      BY <2>1, <3>2, Blank, ZenonT(40) DEF AddUI, Capture, Serve, RemoveUI, TypeOK, SocketType
    <3>5. rpl' \in [Sockets -> [Ids -> Seq(Chunk)]]
      BY <2>1, <3>2, Blank, ZenonT(40) DEF AddUI, Capture, Serve, RemoveUI, TypeOK, SocketType
    <3>6. req' \in [Sockets -> Seq(Ids)]
      <4>1. << >> \in Seq(Ids)
        BY InShort
      <4> QED BY <2>1, <4>1 DEF AddUI, Capture, Serve, RemoveUI, TypeOK, SocketType
    <3>7. SocketType'
      BY <1>0, <3>3, <3>4, <3>5, <3>6 DEF TypeOK, SocketType
    <3> QED BY <3>1, <3>7, <1>2
  <2>2. CASE SendSnapshot(k)
    <3>1. Quiet2
      BY <2>2 DEF SendSnapshot, session
    <3>2. snap[k] \in [Ids -> States] /\ hub \in Nat
      BY DEF TypeOK, HubType, SocketType
    <3>3. Append(chan[k], Snapshot(hub, snap[k])) \in Seq(Message)
      BY <3>2, Written, InAppend DEF TypeOK, SocketType
    <3>4. SocketType'
      BY <1>0, <2>2, <3>3, Blank DEF SendSnapshot, TypeOK, SocketType
    <3> QED BY <3>1, <3>4, <1>2
  <2>3. CASE Replay(k)
    <3>1. Quiet2
      BY <2>3 DEF Replay, session
    <3>2. PICK i \in Ids : /\ chan' = [chan EXCEPT ![k] = Append(@, Pty(i, rpl[k][i]))]
                           /\ rpl' = [rpl EXCEPT ![k][i] = << >>]
      BY <2>3 DEF Replay
    <3>3. rpl[k] \in [Ids -> Seq(Chunk)] /\ rpl[k][i] \in Seq(Chunk)
      BY DEF TypeOK, SocketType
    <3>4. Append(chan[k], Pty(i, rpl[k][i])) \in Seq(Message)
      BY <3>3, Written, InAppend DEF TypeOK, SocketType
    <3>5. [rpl[k] EXCEPT ![i] = << >>] \in [Ids -> Seq(Chunk)]
      BY <3>3, InShort
    <3>6. chan' \in [Sockets -> Seq(Message)] /\ rpl' \in [Sockets -> [Ids -> Seq(Chunk)]]
      BY <3>2, <3>4, <3>5 DEF TypeOK, SocketType
    <3>7. UNCHANGED <<srv, snap, req>>
      BY <2>3 DEF Replay
    <3> QED BY <1>0, <1>2, <3>1, <3>6, <3>7 DEF TypeOK, SocketType
  <2>4. CASE HandleDismiss(k)
    <3> DEFINE i == Head(req[k])
    <3>1. req[k] \in Seq(Ids) /\ req[k] # << >>
      BY <2>4 DEF HandleDismiss, TypeOK, SocketType
    <3>2. i \in Ids /\ Tail(req[k]) \in Seq(Ids)
      BY <3>1, InTail
    <3>3. /\ live' = [live EXCEPT ![i] = IF @ \in Listed THEN "dismissed" ELSE @]
          /\ buf' = [buf EXCEPT ![i] = << >>] /\ removing' = Append(removing, i)
          /\ ending' = IF live[i] = "running"
                       THEN [ending EXCEPT ![i] = Append(@, End(i, "disconnected"))] ELSE ending
          /\ unknown' = IF live[i] = "none" THEN unknown \cup {i} ELSE unknown
          /\ req' = [req EXCEPT ![k] = Tail(@)]
          /\ UNCHANGED <<hub, up, outbox, srv, snap, rpl, chan, events>>
      BY <2>4 DEF HandleDismiss, server
    <3> HIDE DEF i
    <3>4. Append(ending[i], End(i, "disconnected")) \in Seq(Message)
      BY <1>3, <3>2, Written
    <3>5. Append(removing, i) \in Seq(Ids) /\ "dismissed" \in States
      BY <3>2, InAppend DEF TypeOK, HubType, States
    <3>6. HubType'
      BY <3>2, <3>3, <3>4, <3>5, InShort DEF TypeOK, HubType
    <3>7. SocketType'
      BY <1>0, <3>2, <3>3 DEF TypeOK, SocketType
    <3> QED BY <3>6, <3>7
  <2> QED BY <1>9, <2>1, <2>2, <2>3, <2>4 DEF HubWork
<1>10. CASE Broadcasts
  <2>1. CASE BroadcastRemoved
    <3>1. removing \in Seq(Ids) /\ removing # << >>
      BY <2>1 DEF BroadcastRemoved, TypeOK, HubType
    <3>2. Tail(removing) \in Seq(Ids) /\ Removed(Head(removing)) \in Message
      BY <3>1, InTail, Written
    <3>3. chan' \in [Sockets -> Seq(Message)]
      BY <2>1, <3>2, SendShape DEF BroadcastRemoved, TypeOK
    <3>4. HubType'
      BY <2>1, <3>2 DEF BroadcastRemoved, TypeOK, HubType, server
    <3> QED BY <1>0, <2>1, <3>3, <3>4 DEF BroadcastRemoved, TypeOK, SocketType, server
  <2>2. ASSUME NEW i \in Ids, Broadcast(i) PROVE HubType' /\ SocketType'
    <3>1. chan' \in [Sockets -> Seq(Message)]
      BY <2>2, <1>3, SendShape DEF Broadcast, TypeOK
    <3>2. HubType'
      BY <2>2, <1>3 DEF Broadcast, TypeOK, HubType, server
    <3> QED BY <1>0, <2>2, <3>1, <3>2 DEF Broadcast, TypeOK, SocketType, server
  <2>3. ASSUME NEW i \in Ids, BroadcastEnd(i) PROVE HubType' /\ SocketType'
    <3>1. chan' \in [Sockets -> Seq(Message)]
      BY <2>3, <1>3, SendShape DEF BroadcastEnd, TypeOK
    <3>2. HubType'
      BY <2>3, <1>3 DEF BroadcastEnd, TypeOK, HubType, server
    <3> QED BY <1>0, <2>3, <3>1, <3>2 DEF BroadcastEnd, TypeOK, SocketType, server
  <2> QED BY <1>0, <1>10, <2>1, <2>2, <2>3 DEF Broadcasts
<1>11. CASE HubStep
  BY <1>0, <1>1, <1>4, <1>5, <1>6, <1>7, <1>11 DEF HubStep
<1> HIDE DEF Quiet1, Quiet2
<1>12. Hubs => HubStep \/ HubStarts \/ (\E k \in Sockets : HubWork(k)) \/ Broadcasts
  BY DEF Hubs
<1> QED BY <1>0, <1>8, <1>9, <1>10, <1>11, <1>12

(* The tab's side: a connection begins, *)
LEMMA ReplaceShape ==
  ASSUME TypeOK, Replaces
  PROVE  /\ cur' = (IF st[cur] = "new" THEN cur ELSE cur + 1) /\ cur' \in Sockets
         /\ st' = [st EXCEPT ![cur'] = "connecting"] /\ st[cur] \in {"new", "closing", "closed"}
         /\ synced' = FALSE /\ purged' = FALSE /\ retry' = FALSE
         /\ UNCHANGED <<of, seen, session, server, unknown, chan, req, page>>
<1>1. ASSUME NewSocket(NextSocket), NextSocket \in Sockets
      PROVE  /\ cur' = (IF st[cur] = "new" THEN cur ELSE cur + 1) /\ cur' \in Sockets
             /\ st' = [st EXCEPT ![cur'] = "connecting"]
             /\ synced' = FALSE /\ purged' = FALSE /\ retry' = FALSE
  BY <1>1 DEF NewSocket, NextSocket
<1>2. CASE EnsureAlive
  BY <1>1, <1>2, Zenon DEF EnsureAlive
<1>3. CASE RetryFires
  BY <1>1, <1>3, Zenon DEF RetryFires
<1> QED BY <1>2, <1>3 DEF Replaces

(* opens, *)
LEMMA OpenedShape ==
  Open => /\ st[cur] = "connecting" /\ up /\ srv[cur] = "none"
          /\ st' = [st EXCEPT ![cur] = "open"] /\ of' = hub /\ retry' = FALSE
          /\ pendingOpen' = (IF pendingOpen = None THEN lastActive ELSE pendingOpen)
          /\ text' = NoText /\ srv' = [srv EXCEPT ![cur] = "register"]
          /\ UNCHANGED <<cur, synced, seen, hub, up, snap, rpl, session, unknown, chan, req,
                         cards, active, lastActive, autoSwitch, inst, local, timers, purged>>
BY Zenon DEF Open

(* or closes. *)
LEMMA CloseShape ==
  ASSUME TypeOK, Closes
  PROVE  \E k \in Sockets, s \in {"new", "closed"} :
           /\ s = "new" => k = cur /\ st[k] = "connecting"
           /\ s = "closed" => (st[k] = "closing" \/ (st[k] = "open" /\ srv[k] = "gone"))
           /\ st' = [st EXCEPT ![k] = s] /\ chan' = [chan EXCEPT ![k] = << >>]
           /\ \/ k = cur /\ cards' = NoSession /\ timers' = {} /\ active' = None
              \/ UNCHANGED <<cards, timers, active>>
           /\ lastActive' \in {lastActive, active} /\ retry' \in {TRUE, retry}
           /\ UNCHANGED <<of, cur, synced, seen, server, session, unknown, pendingOpen,
                          autoSwitch, inst, local, text, purged, req>>
<1>1. ASSUME NEW k, NEW s, Closed(k, s)
      PROVE  /\ st' = [st EXCEPT ![k] = s] /\ chan' = [chan EXCEPT ![k] = << >>]
             /\ \/ k = cur /\ cards' = NoSession /\ timers' = {} /\ active' = None
                \/ UNCHANGED <<cards, timers, active>>
             /\ lastActive' \in {lastActive, active} /\ retry' \in {TRUE, retry}
             /\ UNCHANGED <<of, cur, synced, seen, server, session, unknown, pendingOpen,
                            autoSwitch, inst, local, text, purged, req>>
  BY <1>1 DEF Closed
<1>2. cur \in Sockets
  BY DEF TypeOK, SocketType
<1>3. PICK k \in Sockets, s \in {"new", "closed"} :
        /\ s = "new" => k = cur /\ st[k] = "connecting"
        /\ s = "closed" => (st[k] = "closing" \/ (st[k] = "open" /\ srv[k] = "gone"))
        /\ Closed(k, s)
  BY <1>2, Zenon DEF Closes, ConnectFails, Lost, OnClose
<1> HIDE DEF Closed
<1> QED BY <1>1, <1>3

(* Only Happens counts. *)
LEMMA EventStep ==
  ASSUME TypeOK, Next
  PROVE  events' \in Nat
<1>1. events \in Nat /\ (Happens => events' \in Nat)
  BY DEF TypeOK, HubType, Happens
<1>2. Hubs => events' \in Nat
  BY HubTypeStep DEF HubType
<1>3. RetryFires \/ Open \/ Closes \/ Watchdog => events' = events
  BY Zenon DEF RetryFires, Open, Closes, ConnectFails, Lost, OnClose, Closed, Watchdog
<1>4. User \/ Cut => Happens
  BY DEF User, Cut
<1>5. Messages => events' = events
  BY MessageSide
<1>6. \A i \in Ids : TimerFires(i) => events' = events
  BY DEF TimerFires
<1> QED BY <1>1, <1>2, <1>3, <1>4, <1>5, <1>6, Zenon DEF Next, Hubs, Closes, Connection

(* Every step keeps the types. *)
LEMMA TypeStep == TypeOK /\ [Next]_vars => TypeOK'
<1> SUFFICES ASSUME TypeOK, [Next]_vars PROVE TypeOK'
  OBVIOUS
<1> DEFINE Same == UNCHANGED <<hub, up, live, buf, outbox, ending, removing, unknown>>
<1>0. Next /\ Same => HubType'
  BY EventStep DEF TypeOK, HubType
<1>1. CASE Hubs
  BY <1>1, HubTypeStep DEF TypeOK
<1>2. CASE Replaces /\ Next
  <2>1. Same /\ UNCHANGED page /\ purged' \in BOOLEAN
    BY <1>2, ReplaceShape DEF session, server
  <2>2. st' \in [Sockets -> {"new", "connecting", "open", "zombie", "closing", "closed"}]
        /\ cur' \in Sockets /\ synced' \in BOOLEAN /\ retry' \in BOOLEAN
    BY <1>2, ReplaceShape DEF TypeOK, SocketType
  <2>3. UNCHANGED <<of, seen, srv, snap, rpl, chan, req>>
    BY <1>2, ReplaceShape DEF server
  <2>4. SocketType'
    BY <2>2, <2>3 DEF TypeOK, SocketType
  <2>5. TabType'
    BY <2>1 DEF TypeOK, TabType, page, Page
  <2> QED BY <1>0, <1>2, <2>1, <2>4, <2>5 DEF TypeOK
<1>3. CASE Open /\ Next
  <2>1. Same
    BY <1>3, OpenedShape DEF session
  <2>2. /\ st' \in [Sockets -> {"new", "connecting", "open", "zombie", "closing", "closed"}]
        /\ srv' \in [Sockets -> {"none", "register", "added", "captured", "sent", "ui", "gone"}]
        /\ of' \in Nat /\ retry' \in BOOLEAN
    BY <1>3, OpenedShape DEF TypeOK, SocketType, HubType
  <2>3. UNCHANGED <<cur, synced, seen, snap, rpl, chan, req>>
    BY <1>3, OpenedShape
  <2>4. SocketType'
    BY <2>2, <2>3 DEF TypeOK, SocketType
  <2>5. TabType'
    <3>1. /\ lastActive \in Ids \cup {None} /\ pendingOpen \in Ids \cup {None}
          /\ cards \in [Ids -> States] /\ active \in Ids \cup {None} /\ autoSwitch \in BOOLEAN
          /\ local \in [Ids -> Nat] /\ timers \in SUBSET Ids
      BY PageFields, FieldTypes DEF TypeOK, TabType
    <3>2. pendingOpen' \in Ids \cup {None} /\ text' \in [Ids -> Seq(Chunk)]
      BY <1>3, <3>1, OpenedShape, Blank
    <3>3. UNCHANGED <<cards, active, autoSwitch, local, timers>>
      BY <1>3, OpenedShape
    <3>4. Page' \in Pages
      BY <3>1, <3>2, <3>3, NextFields
    <3>5. UNCHANGED <<lastActive, inst, purged>>
      BY <1>3, OpenedShape
    <3> QED BY <3>1, <3>3, <3>4, <3>5 DEF TypeOK, TabType
  <2> QED BY <1>0, <1>3, <2>1, <2>4, <2>5 DEF TypeOK
<1>4. CASE Closes /\ Next
  <2>1. PICK k \in Sockets, s \in {"new", "closed"} :
           /\ st' = [st EXCEPT ![k] = s] /\ chan' = [chan EXCEPT ![k] = << >>]
           /\ \/ cards' = NoSession /\ timers' = {} /\ active' = None
              \/ UNCHANGED <<cards, timers, active>>
           /\ lastActive' \in {lastActive, active} /\ retry' \in {TRUE, retry}
           /\ UNCHANGED <<of, cur, synced, seen, server, session, unknown, pendingOpen,
                          autoSwitch, inst, local, text, purged, req>>
    BY <1>4, CloseShape
  <2>2. Same /\ UNCHANGED <<srv, snap, rpl>>
    BY <2>1 DEF session, server
  <2>3. SocketType'
    <3>1. << >> \in Seq(Message)
      BY InShort
    <3>2. chan' \in [Sockets -> Seq(Message)]
          /\ st' \in [Sockets -> {"new", "connecting", "open", "zombie", "closing", "closed"}]
          /\ retry' \in BOOLEAN
      BY <2>1, <3>1 DEF TypeOK, SocketType
    <3> QED BY <2>1, <2>2, <3>2 DEF TypeOK, SocketType
  <2>4. TabType'
    <3>1. /\ lastActive \in Ids \cup {None} /\ pendingOpen \in Ids \cup {None}
          /\ cards \in [Ids -> States] /\ active \in Ids \cup {None} /\ autoSwitch \in BOOLEAN
          /\ local \in [Ids -> Nat] /\ timers \in SUBSET Ids /\ text \in [Ids -> Seq(Chunk)]
      BY PageFields, FieldTypes DEF TypeOK, TabType
    <3>2. /\ cards' \in [Ids -> States] /\ active' \in Ids \cup {None}
          /\ timers' \in SUBSET Ids /\ lastActive' \in Ids \cup {None}
      BY <2>1, <3>1, Blank
    <3>3. UNCHANGED <<pendingOpen, autoSwitch, local, text, inst, purged>>
      BY <2>1
    <3>4. Page' \in Pages
      BY <3>1, <3>2, <3>3, NextFields
    <3> QED BY <3>2, <3>3, <3>4 DEF TypeOK, TabType
  <2> QED BY <1>0, <1>4, <2>2, <2>3, <2>4 DEF TypeOK
<1>5. CASE (Watchdog \/ Cut) /\ Next
  <2>1. /\ st' \in {[st EXCEPT ![cur] = "closing"], [st EXCEPT ![cur] = "zombie"]}
        /\ chan' \in {chan, [chan EXCEPT ![cur] = << >>]}
        /\ UNCHANGED <<of, cur, retry, synced, seen, session, server, unknown, req, page, purged>>
    BY <1>5 DEF Watchdog, Cut
  <2>2. Same /\ UNCHANGED <<srv, snap, rpl>>
    BY <2>1 DEF session, server
  <2>3. << >> \in Seq(Message)
    BY InShort
  <2>4. chan' \in [Sockets -> Seq(Message)]
        /\ st' \in [Sockets -> {"new", "connecting", "open", "zombie", "closing", "closed"}]
    BY <2>1, <2>3 DEF TypeOK, SocketType
  <2>5. SocketType'
    BY <2>1, <2>2, <2>4 DEF TypeOK, SocketType
  <2>6. TabType'
    BY <2>1 DEF TypeOK, TabType, page, Page
  <2> QED BY <1>0, <1>5, <2>2, <2>5, <2>6 DEF TypeOK
<1>6. CASE Messages /\ Next
  <2>1. Same /\ UNCHANGED <<srv, snap, rpl, st, of, cur, retry, lastActive>>
    BY <1>6, MessageSide DEF session, server
  <2>2. chan' \in [Sockets -> Seq(Message)]
    <3>1. \E type : Receive(type)
      BY <1>6, Zenon DEF Messages, OnPty, OnSnapshot, OnUpdate, OnEnd, OnRemoved
    <3> QED BY <3>1, ReceiveShape DEF TypeOK
  <2>3. Page' \in Pages
    BY <1>6, PtyEffect, SnapshotEffect, UpdateEffect, EndEffect, RemovedEffect DEF Messages
  <2>4. req' \in [Sockets -> Seq(Ids)] /\ synced' \in BOOLEAN /\ seen' \subseteq Nat
        /\ inst' \in Nat /\ purged' \in BOOLEAN
    <3>1. CASE OnPty \/ OnUpdate \/ OnRemoved
      BY <3>1 DEF OnPty, OnUpdate, OnRemoved, TypeOK, SocketType, TabType
    <3>2. CASE OnSnapshot
      <4>1. Head(chan[cur]).h \in Nat
        BY <3>2, ReceiveShape, Read DEF OnSnapshot, TypeOK
      <4>2. req' \in [Sockets -> Seq(Ids)]
        <5>1. \E is \in SUBSET Ids : Dismissing(is)
          BY <3>2 DEF OnSnapshot
        <5> QED BY <5>1, DismissType DEF TypeOK
      <4>3. synced' \in BOOLEAN /\ seen' \subseteq Nat
        BY <3>2 DEF OnSnapshot, TypeOK, SocketType
      <4>4. inst' \in Nat /\ purged' \in BOOLEAN
        BY <3>2, <4>1 DEF OnSnapshot, TypeOK, TabType
      <4> QED BY <4>2, <4>3, <4>4
    <3>3. CASE OnEnd
      <4>1. Head(chan[cur]).id \in Ids
        BY <3>3, ReceiveShape, Read DEF OnEnd, TypeOK
      <4>2. Dismissing({Head(chan[cur]).id}) \/ req' = req
        BY <3>3 DEF OnEnd
      <4>3. req' \in [Sockets -> Seq(Ids)]
        BY <4>1, <4>2, DismissType DEF TypeOK, SocketType
      <4> QED BY <3>3, <4>3 DEF OnEnd, TypeOK, SocketType, TabType
    <3> QED BY SMTT(20), <1>6, <3>1, <3>2, <3>3 DEF Messages
  <2>5. SocketType'
    BY <2>1, <2>2, <2>4 DEF TypeOK, SocketType
  <2>6. TabType'
    BY <2>1, <2>3, <2>4 DEF TypeOK, TabType
  <2> QED BY <1>0, <1>6, <2>1, <2>5, <2>6 DEF TypeOK
<1>7. CASE Elsewhere /\ Next
  <2>1. Same /\ UNCHANGED <<srv, snap, rpl, chan, socket, inst, lastActive, purged>>
    BY <1>7, ElsewhereSide DEF session, server
  <2>2. req' \in [Sockets -> Seq(Ids)]
    <3>1. (\E is \in SUBSET Ids : Dismissing(is)) \/ req' = req
      BY <1>7, Zenon DEF Elsewhere, TimerFires, DismissSession, OpenFromNotification, SpawnPending
    <3> QED BY <3>1, DismissType DEF TypeOK, SocketType
  <2>3. SocketType'
    BY <2>1, <2>2 DEF TypeOK, SocketType, socket
  <2>4. TabType'
    <3>1. /\ pendingOpen \in Ids \cup {None} /\ cards \in [Ids -> States]
          /\ active \in Ids \cup {None} /\ autoSwitch \in BOOLEAN
          /\ local \in [Ids -> Nat] /\ timers \in SUBSET Ids /\ text \in [Ids -> Seq(Chunk)]
      BY PageFields, FieldTypes DEF TypeOK, TabType
    <3>2. pendingOpen' \in Ids \cup {None} /\ autoSwitch' \in BOOLEAN /\ timers' \in SUBSET Ids
      BY <1>7, <3>1 DEF Elsewhere, TimerFires, DismissSession, OpenFromNotification, SpawnPending,
                        page
    <3>3. UNCHANGED <<cards, active, local, text>>
      BY <1>7, ElsewhereSide
    <3>4. Page' \in Pages
      BY <3>1, <3>2, <3>3, NextFields
    <3> QED BY <2>1, <3>4 DEF TypeOK, TabType
  <2> QED BY <1>0, <1>7, <2>1, <2>3, <2>4 DEF TypeOK
<1>8. ASSUME Next, NEW i \in Ids, Activate(i) PROVE TypeOK'
  <2>1. Same /\ UNCHANGED <<srv, snap, rpl, chan, req, socket, inst, lastActive, purged>>
    BY <1>8 DEF Activate, session, server
  <2>2. SocketType'
    BY <2>1 DEF TypeOK, SocketType, socket
  <2>3. TabType'
    BY <1>8, <2>1, ActivateEffect DEF TypeOK, TabType
  <2> QED BY <1>0, <1>8, <2>1, <2>2, <2>3 DEF TypeOK
<1>9. CASE UNCHANGED vars
  BY <1>9 DEF TypeOK, HubType, SocketType, TabType, Page, vars, session, server, socket, page
<1> HIDE DEF Same
<1> QED BY <1>1, <1>2, <1>3, <1>4, <1>5, <1>6, <1>7, <1>8, <1>9, Steps

(* TypeOK is an invariant. *)
THEOREM TypeCorrect == Spec => []TypeOK
BY InitType, TypeStep, PTL DEF Spec

-----------------------------------------------------------------------------
(* The connections: the tab uses one socket after the other, the Hub serves *)
(* an open one, and what it serves reached this Hub.                        *)
Serves(k) == srv[k] \notin {"none", "gone"}

Links ==
  /\ \A k \in Sockets : /\ k > cur => st[k] = "new"
                        /\ k < cur => st[k] \in {"closing", "closed"}
                        /\ st[k] \in {"new", "connecting"} => srv[k] = "none" /\ chan[k] = << >>
  /\ ~up => \A k \in Sockets : ~Serves(k)
  /\ Serves(cur) => of = hub
  /\ of <= hub /\ (st[cur] = "open" => of # 0)


(* What the Hub does with a connection. *)
LEMMA WorkShape ==
  ASSUME TypeOK, Links, NEW k \in Sockets, HubWork(k)
  PROVE  /\ srv[k] \notin {"none", "gone"} /\ st[k] \notin {"new", "connecting"}
         /\ srv' = srv \/ \E s \in {"added", "captured", "sent", "ui", "gone"} :
                             srv' = [srv EXCEPT ![k] = s]
         /\ \A j \in Sockets \ {k} : chan'[j] = chan[j]
         /\ hub' = hub /\ up' = up
<1>1. srv[k] \notin {"none", "gone"}
  BY Zenon DEF HubWork, AddUI, Capture, SendSnapshot, Replay, Serve, RemoveUI, HandleDismiss
<1>2. st[k] \notin {"new", "connecting"}
  BY <1>1 DEF Links
<1>3. srv' = srv \/ \E s \in {"added", "captured", "sent", "ui", "gone"} :
                       srv' = [srv EXCEPT ![k] = s]
  BY Zenon DEF HubWork, AddUI, Capture, SendSnapshot, Replay, Serve, RemoveUI, HandleDismiss, server
<1>4. chan' = chan \/ \E m : chan' = [chan EXCEPT ![k] = m]
  BY Zenon DEF HubWork, AddUI, Capture, SendSnapshot, Replay, Serve, RemoveUI, HandleDismiss, server
<1>5. \A j \in Sockets \ {k} : chan'[j] = chan[j]
  BY <1>4 DEF TypeOK, SocketType
<1>6. hub' = hub /\ up' = up
  BY Zenon DEF HubWork, AddUI, Capture, SendSnapshot, Replay, Serve, RemoveUI, HandleDismiss, server
<1> QED BY <1>1, <1>2, <1>3, <1>5, <1>6

(* What the sessions and the broadcasts leave alone. *)
LEMMA SessionShape ==
  ASSUME \/ \E i \in Ids : Begin(i) \/ Output(i) \/ Drop(i) \/ Complete(i) \/ Return(i)
         \/ Broadcasts
  PROVE  /\ UNCHANGED <<server, req>>
         /\ \A k \in Sockets : ~Hears(k) => chan'[k] = chan[k]
<1>1. CASE \E i \in Ids : Begin(i) \/ Output(i) \/ Drop(i) \/ Complete(i) \/ Return(i)
  <2>1. UNCHANGED <<server, req, chan>>
    BY <1>1, Zenon DEF Begin, Output, Drop, Complete, Ends, Return
  <2> QED BY <2>1
<1>2. CASE Broadcasts
  <2>1. UNCHANGED <<server, req>> /\ \E m : Send(m)
    BY <1>2, Zenon DEF Broadcasts, BroadcastRemoved, Broadcast, BroadcastEnd
  <2> QED BY <2>1 DEF Send
<1> QED BY <1>1, <1>2

(* Every step keeps the connections in order. *)
LEMMA LinksStep == TypeOK /\ Links /\ [Next]_vars => Links'
<1> SUFFICES ASSUME TypeOK, Links, [Next]_vars PROVE Links'
  OBVIOUS
<1>0. /\ cur \in Nat /\ hub \in Nat \ {0} /\ of \in Nat /\ cur \in Sockets /\ Sockets \subseteq Nat
      /\ srv = [k \in Sockets |-> srv[k]] /\ st = [k \in Sockets |-> st[k]]
      /\ chan = [k \in Sockets |-> chan[k]]
  BY Numbers DEF TypeOK, HubType, SocketType
<1>1. CASE HubStep
  <2>1. UNCHANGED <<st, cur, of>>
    BY <1>1, HubSide DEF Hubs, socket
  <2>2. CASE HubStops
    BY <1>0, <2>1, <2>2 DEF HubStops, Links, Serves
  <2>3. CASE \E i \in Ids : Begin(i) \/ Output(i) \/ Drop(i) \/ Complete(i) \/ Return(i)
    <3>1. UNCHANGED <<hub, up, srv>> /\ \A k \in Sockets : ~Hears(k) => chan'[k] = chan[k]
      BY <2>3, SessionShape DEF server
    <3>2. \A k \in Sockets : st[k] \in {"new", "connecting"} => ~Hears(k)
      BY DEF Hears
    <3> QED BY <2>1, <3>1, <3>2 DEF Links, Serves
  <2> QED BY <1>1, <2>2, <2>3 DEF HubStep
<1>2. CASE Broadcasts
  <2>1. UNCHANGED <<st, cur, of>>
    BY <1>2, HubSide DEF Hubs, socket
  <2>2. UNCHANGED <<hub, up, srv>> /\ \A k \in Sockets : ~Hears(k) => chan'[k] = chan[k]
    BY <1>2, SessionShape DEF server
  <2>3. \A k \in Sockets : st[k] \in {"new", "connecting"} => ~Hears(k)
    BY DEF Hears
  <2> QED BY <2>1, <2>2, <2>3 DEF Links, Serves
<1>3. CASE HubStarts
  <2>1. UNCHANGED <<st, cur, of>>
    BY <1>3, HubSide DEF Hubs, socket
  <2>2. UNCHANGED <<srv, chan>> /\ hub' = hub + 1 /\ ~up
    BY <1>3 DEF HubStarts
  <2> QED BY <1>0, <2>1, <2>2 DEF Links, Serves
<1>4. ASSUME NEW k \in Sockets, HubWork(k) PROVE Links'
  <2>1. UNCHANGED <<st, cur, of, hub, up>>
    BY <1>4, HubSide, WorkShape DEF Hubs, socket
  <2>2. /\ Serves(k) /\ st[k] \notin {"new", "connecting"}
        /\ \A j \in Sockets \ {k} : chan'[j] = chan[j] /\ srv'[j] = srv[j]
        /\ srv'[k] \in {srv[k], "added", "captured", "sent", "ui", "gone"}
    BY <1>0, <1>4, WorkShape DEF Serves
  <2>3. \A j \in Sockets : Serves(j)' => Serves(j)
    BY <2>2 DEF Serves
  <2>4. ASSUME NEW j \in Sockets, st[j] \in {"new", "connecting"}
        PROVE  srv'[j] = "none" /\ chan'[j] = << >>
    BY <2>2, <2>4 DEF Links
  <2> QED BY <1>0, <2>1, <2>3, <2>4 DEF Links
<1>5. CASE Replaces
  <2>1. /\ cur' = (IF st[cur] = "new" THEN cur ELSE cur + 1) /\ cur' \in Sockets
        /\ st' = [st EXCEPT ![cur'] = "connecting"] /\ st[cur] \in {"new", "closing", "closed"}
        /\ UNCHANGED <<of, hub, up, srv, chan>>
    BY <1>5, ReplaceShape DEF server
  <2>2. st[cur'] = "new" /\ srv[cur'] = "none" /\ chan[cur'] = << >>
    BY <1>0, <2>1 DEF Links
  <2>3. \A k \in Sockets : st'[k] = IF k = cur' THEN "connecting" ELSE st[k]
    BY <1>0, <2>1
  <2>4. ASSUME NEW k \in Sockets
        PROVE  /\ k > cur' => st'[k] = "new"
               /\ k < cur' => st'[k] \in {"closing", "closed"}
               /\ st'[k] \in {"new", "connecting"} => srv[k] = "none" /\ chan[k] = << >>
    <3>1. k \in Nat /\ (k > cur' => k > cur /\ k # cur')
          /\ (k < cur' => k # cur' /\ (k < cur \/ (k = cur /\ st[k] # "new")))
      BY <1>0, <2>1
    <3> QED BY <2>1, <2>2, <2>3, <3>1 DEF Links
  <2> QED BY <2>1, <2>2, <2>3, <2>4 DEF Links, Serves
<1>6. CASE Open
  <2>1. /\ st[cur] = "connecting" /\ up /\ of' = hub
        /\ \A k \in Sockets : /\ st'[k] = IF k = cur THEN "open" ELSE st[k]
                              /\ srv'[k] = IF k = cur THEN "register" ELSE srv[k]
        /\ UNCHANGED <<cur, hub, up, chan>>
    BY <1>0, <1>6, OpenedShape
  <2> QED BY <1>0, <2>1 DEF Links, Serves
<1>7. CASE Closes
  <2>1. PICK k \in Sockets, s \in {"new", "closed"} :
           /\ s = "new" => k = cur /\ st[k] = "connecting"
           /\ s = "closed" => (st[k] = "closing" \/ (st[k] = "open" /\ srv[k] = "gone"))
           /\ st' = [st EXCEPT ![k] = s] /\ chan' = [chan EXCEPT ![k] = << >>]
           /\ UNCHANGED <<of, cur, server>>
    BY <1>7, CloseShape
  <2>2. \A j \in Sockets : /\ st'[j] = IF j = k THEN s ELSE st[j]
                           /\ chan'[j] = IF j = k THEN << >> ELSE chan[j]
    BY <1>0, <2>1
  <2>3. UNCHANGED <<of, cur, hub, up, srv>>
    BY <2>1 DEF server
  <2>4. ASSUME NEW j \in Sockets
        PROVE  /\ j > cur => st'[j] = "new"
               /\ j < cur => st'[j] \in {"closing", "closed"}
               /\ st'[j] \in {"new", "connecting"} => srv[j] = "none" /\ chan'[j] = << >>
    <3>1. CASE j # k
      BY <2>2, <3>1 DEF Links
    <3>2. CASE j = k
      <4>1. ~(j > cur) \/ s = "new"
        BY <2>1, <3>2 DEF Links
      <4>2. s = "new" => j = cur /\ srv[j] = "none"
        BY <2>1, <3>2 DEF Links
      <4> QED BY <1>0, <2>2, <3>2, <4>1, <4>2
    <3> QED BY <3>1, <3>2
  <2>5. st'[cur] = "open" => st[cur] = "open"
    BY <1>0, <2>2
  <2> QED BY <2>3, <2>4, <2>5 DEF Links, Serves
<1>8. CASE Watchdog \/ Cut
  <2>1. /\ st[cur] \in {"open", "zombie"}
        /\ \E s \in {"zombie", "closing"} : st' = [st EXCEPT ![cur] = s]
        /\ chan' \in {chan, [chan EXCEPT ![cur] = << >>]}
        /\ UNCHANGED <<of, cur, hub, up, srv>>
    BY <1>8 DEF Watchdog, Cut, server
  <2>2. /\ st'[cur] \in {"zombie", "closing"}
        /\ \A k \in Sockets \ {cur} : st'[k] = st[k] /\ chan'[k] = chan[k]
    BY <1>0, <2>1
  <2> QED BY <1>0, <2>1, <2>2 DEF Links, Serves
<1>9. CASE Messages
  <2>1. /\ st[cur] = "open" /\ UNCHANGED <<st, of, cur, hub, up, srv>>
        /\ \A k \in Sockets \ {cur} : chan'[k] = chan[k]
    BY <1>0, <1>9, MessageSide DEF server
  <2> QED BY <2>1 DEF Links, Serves
<1>10. CASE Elsewhere \/ (\E i \in Ids : Activate(i)) \/ UNCHANGED vars
  <2>1. UNCHANGED <<st, of, cur, hub, up, srv, chan>>
    BY <1>10, ElsewhereSide DEF Activate, vars, server, socket
  <2> QED BY <2>1 DEF Links, Serves
<1> QED
  BY <1>1, <1>2, <1>3, <1>4, <1>5, <1>6, <1>7, <1>8, <1>9, <1>10, Steps DEF Hubs

-----------------------------------------------------------------------------
(* Output and snapshots are of the Hub that holds or has sent them.         *)
From(m, h) == /\ m.t = "pty" => \A c \in In(m.cs) : c.h = h
              /\ m.t = "snapshot" => m.h = h

FreshQueues ==
  /\ \A i \in Ids : /\ \A c \in In(buf[i]) : c.h = hub
                    /\ \A m \in In(outbox[i]) : From(m, hub)
                    /\ \A m \in In(ending[i]) : m.t = "end"
                    /\ \A k \in Sockets : \A c \in In(rpl[k][i]) : c.h = hub
                    /\ ~up => /\ In(buf[i]) = {} /\ In(outbox[i]) = {} /\ In(ending[i]) = {}
                              /\ \A k \in Sockets : In(rpl[k][i]) = {}
  /\ ~up => In(removing) = {}

FreshTab ==
  st[cur] = "open" => /\ \A m \in In(chan[cur]) : From(m, of)
                      /\ \A i \in Ids : \A c \in In(text[i]) : c.h = of


(* What the Hub writes to the tab comes from one of its queues. *)
Source(m) == \/ \E i \in Ids : m \in In(outbox[i]) \/ m \in In(ending[i])
             \/ \E i \in In(removing) : m = Removed(i)
             \/ srv[cur] = "captured" /\ m = Snapshot(hub, snap[cur])
             \/ \E i \in Ids : m = Pty(i, rpl[cur][i])

(* One message at most reaches the tab, from one of these. *)
LEMMA Posted ==
  ASSUME TypeOK, Hubs
  PROVE  \/ In(chan'[cur]) = In(chan[cur])
         \/ \E m \in Message : /\ In(chan'[cur]) = In(chan[cur]) \cup {m}
                               /\ Serves(cur) /\ st[cur] = "open" /\ Source(m)
<1>0. cur \in Sockets /\ chan[cur] \in Seq(Message)
  BY DEF TypeOK, SocketType
<1>1. ASSUME NEW m \in Message, Send(m), Source(m)
      PROVE  \/ In(chan'[cur]) = In(chan[cur])
             \/ \E n \in Message : /\ In(chan'[cur]) = In(chan[cur]) \cup {n}
                                   /\ Serves(cur) /\ st[cur] = "open" /\ Source(n)
  <2>1. In(chan'[cur]) = IF Hears(cur) THEN In(chan[cur]) \cup {m} ELSE In(chan[cur])
    BY <1>0, <1>1, SendShape DEF TypeOK
  <2>2. Hears(cur) => Serves(cur) /\ st[cur] = "open"
    BY DEF Hears, Connected, Serves
  <2> QED BY <1>1, <2>1, <2>2
<1>2. CASE HubStep \/ HubStarts
  <2>1. chan' = chan
    BY <1>2, Zenon DEF HubStep, HubStarts, HubStops, Begin, Output, Drop, Complete, Ends, Return
  <2> QED BY <2>1
<1>3. CASE Broadcasts
  <2>1. CASE BroadcastRemoved
    <3>1. removing \in Seq(Ids) /\ removing # << >> /\ Send(Removed(Head(removing)))
      BY <2>1 DEF BroadcastRemoved, TypeOK, HubType
    <3>2. Head(removing) \in Ids /\ Head(removing) \in In(removing)
      BY <3>1, InTail
    <3>3. Removed(Head(removing)) \in Message /\ Source(Removed(Head(removing)))
      BY <3>2, Written DEF Source
    <3> QED BY <1>1, <3>1, <3>3
  <2>2. ASSUME NEW i \in Ids, Broadcast(i) \/ BroadcastEnd(i)
        PROVE  \E m \in Message : Send(m) /\ Source(m)
    <3>1. outbox[i] \in Seq(Message) /\ ending[i] \in Seq(Message)
      BY DEF TypeOK, HubType
    <3>2. \/ outbox[i] # << >> /\ Send(Head(outbox[i]))
          \/ ending[i] # << >> /\ Send(Head(ending[i]))
      BY <2>2 DEF Broadcast, BroadcastEnd
    <3>3. /\ outbox[i] # << >> => Head(outbox[i]) \in Message /\ Head(outbox[i]) \in In(outbox[i])
          /\ ending[i] # << >> => Head(ending[i]) \in Message /\ Head(ending[i]) \in In(ending[i])
      BY <3>1, InTail
    <3> QED BY <3>2, <3>3 DEF Source
  <2> QED BY <1>1, <1>3, <2>1, <2>2 DEF Broadcasts
<1>4. ASSUME NEW k \in Sockets, HubWork(k)
      PROVE  \/ In(chan'[cur]) = In(chan[cur])
             \/ \E m \in Message : /\ In(chan'[cur]) = In(chan[cur]) \cup {m}
                                   /\ Serves(cur) /\ st[cur] = "open" /\ Source(m)
  <2>1. CASE SendSnapshot(k)
    <3>1. /\ chan' = [chan EXCEPT ![k] = Append(@, Snapshot(hub, snap[k]))]
          /\ srv[k] = "captured" /\ st[k] = "open"
      BY <2>1 DEF SendSnapshot
    <3>2. Snapshot(hub, snap[k]) \in Message
      BY Written DEF TypeOK, HubType, SocketType
    <3>3. CASE k = cur
      <4>1. chan'[cur] = Append(chan[cur], Snapshot(hub, snap[cur]))
        BY <1>0, <3>1, <3>3 DEF TypeOK, SocketType
      <4>2. In(chan'[cur]) = In(chan[cur]) \cup {Snapshot(hub, snap[cur])}
        BY <1>0, <3>2, <3>3, <4>1, InAppend
      <4> QED BY <3>1, <3>2, <3>3, <4>2 DEF Source, Serves
    <3>4. CASE k # cur
      BY <1>0, <3>1, <3>4 DEF TypeOK, SocketType
    <3> QED BY <3>3, <3>4
  <2>2. CASE Replay(k)
    <3>1. PICK i \in Ids : chan' = [chan EXCEPT ![k] = Append(@, Pty(i, rpl[k][i]))]
      BY <2>2 DEF Replay
    <3>2. Pty(i, rpl[k][i]) \in Message
      BY Written DEF TypeOK, SocketType
    <3>3. srv[k] = "sent" /\ st[k] = "open"
      BY <2>2 DEF Replay
    <3>4. CASE k = cur
      <4>1. chan'[cur] = Append(chan[cur], Pty(i, rpl[cur][i]))
        BY <1>0, <3>1, <3>4 DEF TypeOK, SocketType
      <4>2. In(chan'[cur]) = In(chan[cur]) \cup {Pty(i, rpl[cur][i])}
        BY <1>0, <3>2, <3>4, <4>1, InAppend
      <4> QED BY <3>2, <3>3, <3>4, <4>2 DEF Source, Serves
    <3>5. CASE k # cur
      BY <1>0, <3>1, <3>5 DEF TypeOK, SocketType
    <3> QED BY <3>4, <3>5
  <2>3. CASE AddUI(k) \/ Capture(k) \/ Serve(k) \/ RemoveUI(k) \/ HandleDismiss(k)
    <3>1. chan' = chan
      BY <2>3, Zenon DEF AddUI, Capture, Serve, RemoveUI, HandleDismiss
    <3> QED BY <3>1
  <2> QED BY <1>4, <2>1, <2>2, <2>3 DEF HubWork
<1> QED BY <1>2, <1>3, <1>4 DEF Hubs

(* The queues of the Hub after its steps. *)
LEMMA Emptied ==
  ASSUME HubStops
  PROVE  /\ live' = NoSession /\ removing' = << >> /\ unknown' = {} /\ up' = FALSE /\ hub' = hub
         /\ \A i \in Ids : In(buf'[i]) = {} /\ In(outbox'[i]) = {} /\ In(ending'[i]) = {}
         /\ \A k \in Sockets : /\ \A i \in Ids : In(rpl'[k][i]) = {}
                               /\ srv'[k] \in {"none", "gone"}
<1>1. /\ live' = NoSession /\ removing' = << >> /\ unknown' = {} /\ up' = FALSE /\ hub' = hub
      /\ buf' = NoText /\ outbox' = NoText /\ ending' = NoText
      /\ rpl' = [k \in Sockets |-> NoText]
      /\ srv' = [k \in Sockets |-> IF srv[k] = "none" THEN "none" ELSE "gone"]
  BY DEF HubStops
<1> QED BY <1>1, Blank, InShort

(* One session begins, prints, ends or returns. *)
LEMMA Grown ==
  ASSUME TypeOK, \E j \in Ids : Begin(j) \/ Output(j) \/ Drop(j) \/ Complete(j) \/ Return(j)
  PROVE  /\ up /\ UNCHANGED <<hub, up, removing, unknown, chan>>
         /\ \E i \in Ids :
              /\ \A j \in Ids \ {i} : /\ buf'[j] = buf[j] /\ outbox'[j] = outbox[j]
                                      /\ ending'[j] = ending[j] /\ live'[j] = live[j]
              /\ \/ /\ live[i] \in {"none", "disconnected"} /\ live'[i] = "running"
                    /\ In(buf'[i]) = In(buf[i]) /\ In(ending'[i]) = In(ending[i])
                    /\ In(outbox'[i]) = {Update(i, "running")}
                    /\ live[i] = "disconnected" => In(outbox[i]) = {}
                 \/ \E c \in Chunk :
                      /\ live[i] = "running" /\ live'[i] = "running" /\ In(outbox[i]) = {}
                      /\ c.h = hub /\ In(buf'[i]) = In(buf[i]) \cup {c}
                      /\ In(outbox'[i]) = {Pty(i, <<c>>)} /\ In(ending'[i]) = In(ending[i])
                 \/ \E s \in {"disconnected", "completed"} :
                      /\ live[i] = "running" /\ live'[i] = s
                      /\ In(buf'[i]) = In(buf[i]) /\ In(outbox'[i]) = In(outbox[i])
                      /\ In(ending'[i]) = In(ending[i]) \cup {End(i, s)}
<1>1. PICK i \in Ids : Begin(i) \/ Output(i) \/ Drop(i) \/ Complete(i) \/ Return(i)
  OBVIOUS
<1>2. up /\ UNCHANGED <<hub, up, removing, unknown, chan>>
  BY <1>1, Zenon DEF Begin, Output, Drop, Complete, Ends, Return, server
<1>3. /\ buf[i] \in Seq(Chunk) /\ outbox[i] \in Seq(Message) /\ ending[i] \in Seq(Message)
      /\ live = [j \in Ids |-> live[j]] /\ buf = [j \in Ids |-> buf[j]]
      /\ outbox = [j \in Ids |-> outbox[j]] /\ ending = [j \in Ids |-> ending[j]]
  BY DEF TypeOK, HubType
<1>4. CASE Begin(i) \/ Return(i)
  <2>1. /\ live[i] \in {"none", "disconnected"} /\ live' = [live EXCEPT ![i] = "running"]
        /\ outbox' = [outbox EXCEPT ![i] = <<Update(i, "running")>>]
        /\ live[i] = "disconnected" => outbox[i] = << >>
        /\ UNCHANGED <<buf, ending>>
    BY <1>4 DEF Begin, Return
  <2>2. In(<<Update(i, "running")>>) = {Update(i, "running")}
    BY InShort, Written
  <2> QED BY <1>2, <1>3, <2>1, <2>2, InShort
<1>5. CASE Output(i)
  <2> DEFINE c == [h |-> hub, n |-> events + 1]
  <2>1. c \in Chunk /\ c.h = hub
    BY DEF Chunk, TypeOK, HubType
  <2>2. /\ live[i] = "running" /\ live' = live /\ outbox[i] = << >> /\ ending' = ending
        /\ buf' = [buf EXCEPT ![i] = Append(@, c)]
        /\ outbox' = [outbox EXCEPT ![i] = <<Pty(i, <<c>>)>>]
    BY <1>5 DEF Output
  <2> HIDE DEF c
  <2>3. <<c>> \in Seq(Chunk) /\ In(Append(buf[i], c)) = In(buf[i]) \cup {c}
    BY <1>3, <2>1, InAppend, InShort
  <2>4. In(<<Pty(i, <<c>>)>>) = {Pty(i, <<c>>)}
    BY <2>3, InShort, Written
  <2> QED BY <1>2, <1>3, <2>1, <2>2, <2>3, <2>4, InShort
<1>6. CASE Drop(i) \/ Complete(i)
  <2>1. PICK s \in {"disconnected", "completed"} : Ends(i, s)
    BY <1>6 DEF Drop, Complete
  <2>2. /\ live[i] = "running" /\ live' = [live EXCEPT ![i] = s] /\ UNCHANGED <<buf, outbox>>
        /\ ending' = [ending EXCEPT ![i] = Append(@, End(i, s))]
    BY <2>1 DEF Ends
  <2>3. In(Append(ending[i], End(i, s))) = In(ending[i]) \cup {End(i, s)}
    BY <1>3, Written, InAppend
  <2> QED BY <1>2, <1>3, <2>2, <2>3
<1> QED BY <1>1, <1>4, <1>5, <1>6

(* A broadcast moves a message from its queue to the channel. *)
LEMMA Drained ==
  ASSUME TypeOK, Broadcasts
  PROVE  /\ UNCHANGED <<live, buf, unknown, server, req>>
         /\ In(removing') \subseteq In(removing)
         /\ \A i \in Ids : /\ In(outbox'[i]) \subseteq In(outbox[i])
                           /\ In(ending'[i]) \subseteq In(ending[i])
                           /\ Hears(cur) =>
                                In(outbox[i]) \subseteq In(outbox'[i]) \cup In(chan'[cur])
         /\ In(chan[cur]) \subseteq In(chan'[cur])
<1>0. /\ cur \in Sockets
      /\ outbox = [j \in Ids |-> outbox[j]] /\ ending = [j \in Ids |-> ending[j]]
      /\ \A j \in Ids : outbox[j] \in Seq(Message) /\ ending[j] \in Seq(Message)
      /\ removing \in Seq(Ids)
  BY DEF TypeOK, HubType, SocketType
<1>1. UNCHANGED <<live, buf, unknown, server, req>>
  BY Zenon DEF Broadcasts, BroadcastRemoved, Broadcast, BroadcastEnd
<1>2. In(chan[cur]) \subseteq In(chan'[cur])
  BY Posted DEF Hubs
<1>3. CASE BroadcastRemoved
  <2>1. UNCHANGED <<outbox, ending>> /\ removing # << >> /\ removing' = Tail(removing)
    BY <1>3 DEF BroadcastRemoved
  <2>2. In(removing') \subseteq In(removing)
    BY <1>0, <2>1, InTail
  <2> QED BY <1>1, <1>2, <2>1, <2>2
<1>4. ASSUME NEW i \in Ids, Broadcast(i)
      PROVE  /\ UNCHANGED <<ending, removing>> /\ \A j \in Ids \ {i} : outbox'[j] = outbox[j]
             /\ In(outbox'[i]) \subseteq In(outbox[i])
             /\ Hears(cur) => In(outbox[i]) \subseteq In(outbox'[i]) \cup In(chan'[cur])
  <2>1. /\ outbox[i] # << >> /\ outbox' = [outbox EXCEPT ![i] = Tail(@)]
        /\ Send(Head(outbox[i])) /\ UNCHANGED <<ending, removing>>
    BY <1>4 DEF Broadcast
  <2>2. outbox[i] \in Seq(Message)
    BY <1>0
  <2>3. /\ Head(outbox[i]) \in Message
        /\ In(outbox[i]) = {Head(outbox[i])} \cup In(Tail(outbox[i]))
    BY <2>1, <2>2, InTail
  <2>4. Hears(cur) => Head(outbox[i]) \in In(chan'[cur])
    BY <1>0, <2>1, <2>3, SendShape DEF TypeOK
  <2>5. outbox'[i] = Tail(outbox[i]) /\ \A j \in Ids \ {i} : outbox'[j] = outbox[j]
    BY <1>0, <2>1
  <2> QED BY <2>1, <2>3, <2>4, <2>5
<1>5. ASSUME NEW i \in Ids, BroadcastEnd(i)
      PROVE  /\ UNCHANGED <<outbox, removing>> /\ \A j \in Ids \ {i} : ending'[j] = ending[j]
             /\ In(ending'[i]) \subseteq In(ending[i])
  <2>1. /\ ending[i] # << >> /\ ending' = [ending EXCEPT ![i] = Tail(@)]
        /\ UNCHANGED <<outbox, removing>>
    BY <1>5 DEF BroadcastEnd
  <2>2. ending[i] \in Seq(Message)
    BY <1>0
  <2>3. In(ending[i]) = {Head(ending[i])} \cup In(Tail(ending[i]))
    BY <2>1, <2>2, InTail
  <2>4. ending'[i] = Tail(ending[i]) /\ \A j \in Ids \ {i} : ending'[j] = ending[j]
    BY <1>0, <2>1
  <2> QED BY <2>1, <2>3, <2>4
<1>6. CASE \E i \in Ids : Broadcast(i)
  <2>1. PICK i \in Ids : Broadcast(i)
    BY <1>6
  <2> QED BY <1>1, <1>2, <1>4, <2>1
<1>7. CASE \E i \in Ids : BroadcastEnd(i)
  <2>1. PICK i \in Ids : BroadcastEnd(i)
    BY <1>7
  <2> QED BY <1>1, <1>2, <1>5, <2>1
<1> QED BY <1>3, <1>6, <1>7 DEF Broadcasts

(* A dismissal ends a session, or remembers a number not given out. *)
LEMMA DismissShape ==
  ASSUME TypeOK, NEW k \in Sockets, HandleDismiss(k)
  PROVE  \E i \in Ids :
           /\ \A j \in Ids \ {i} : live'[j] = live[j] /\ buf'[j] = buf[j] /\ ending'[j] = ending[j]
           /\ live'[i] = (IF live[i] = "none" THEN "none" ELSE "dismissed")
           /\ unknown' = (IF live[i] = "none" THEN unknown \cup {i} ELSE unknown)
           /\ In(buf'[i]) = {} /\ In(removing') = In(removing) \cup {i}
           /\ In(ending'[i]) \subseteq In(ending[i]) \cup {End(i, "disconnected")}
           /\ Serves(k) /\ UNCHANGED <<outbox, server, chan>>
<1> DEFINE i == Head(req[k])
<1>1. req[k] \in Seq(Ids) /\ req[k] # << >>
  BY DEF HandleDismiss, TypeOK, SocketType
<1>2. i \in Ids
  BY <1>1, InTail
<1>3. /\ live' = [live EXCEPT ![i] = IF @ \in Listed THEN "dismissed" ELSE @]
      /\ buf' = [buf EXCEPT ![i] = << >>] /\ removing' = Append(removing, i)
      /\ ending' = IF live[i] = "running"
                   THEN [ending EXCEPT ![i] = Append(@, End(i, "disconnected"))] ELSE ending
      /\ unknown' = IF live[i] = "none" THEN unknown \cup {i} ELSE unknown
      /\ Serves(k) /\ UNCHANGED <<outbox, server, chan>>
  BY DEF HandleDismiss, Serves
<1> HIDE DEF i
<1>4. /\ live = [j \in Ids |-> live[j]] /\ buf = [j \in Ids |-> buf[j]]
      /\ ending = [j \in Ids |-> ending[j]] /\ ending[i] \in Seq(Message)
      /\ removing \in Seq(Ids) /\ live[i] \in States
  BY <1>2 DEF TypeOK, HubType
<1>5. live'[i] = (IF live[i] = "none" THEN "none" ELSE "dismissed")
  BY <1>2, <1>3, <1>4 DEF States, Listed
<1>6. In(buf'[i]) = {} /\ In(removing') = In(removing) \cup {i}
  BY <1>2, <1>3, <1>4, InShort, InAppend
<1>7. In(Append(ending[i], End(i, "disconnected"))) = In(ending[i]) \cup {End(i, "disconnected")}
  BY <1>2, <1>4, Written, InAppend
<1>8. \A j \in Ids \ {i} : live'[j] = live[j] /\ buf'[j] = buf[j] /\ ending'[j] = ending[j]
  BY <1>3, <1>4
<1>9. In(ending'[i]) \subseteq In(ending[i]) \cup {End(i, "disconnected")}
  BY <1>2, <1>3, <1>4, <1>7
<1> QED BY <1>2, <1>3, <1>5, <1>6, <1>8, <1>9

(* A replay is captured from the buffer, sent or dropped. *)
LEMMA ReplayShape ==
  ASSUME TypeOK, NEW k \in Sockets, HubWork(k), NEW j \in Sockets, NEW i \in Ids
  PROVE  \/ In(rpl'[j][i]) \subseteq In(rpl[j][i])
         \/ j = k /\ AddUI(k) /\ rpl'[j] = buf
<1>0. rpl = [l \in Sockets |-> rpl[l]] /\ rpl[k] \in [Ids -> Seq(Chunk)]
  BY DEF TypeOK, SocketType
<1>1. CASE AddUI(k)
  BY <1>0, <1>1 DEF AddUI
<1>2. CASE Replay(k)
  <2>1. PICK n \in Ids : rpl' = [rpl EXCEPT ![k][n] = << >>]
    BY <1>2 DEF Replay
  <2>2. rpl'[j][i] \in {rpl[j][i], << >>}
    BY <1>0, <2>1
  <2> QED BY <2>2, InShort
<1>3. CASE RemoveUI(k)
  <2>1. rpl' = [rpl EXCEPT ![k] = NoText]
    BY <1>3 DEF RemoveUI
  <2>2. rpl'[j][i] \in {rpl[j][i], << >>}
    BY <1>0, <2>1, Blank
  <2> QED BY <2>2, InShort
<1>4. CASE Capture(k) \/ SendSnapshot(k) \/ Serve(k) \/ HandleDismiss(k)
  <2>1. rpl' = rpl
    BY <1>4, Zenon DEF Capture, SendSnapshot, Serve, HandleDismiss, server
  <2> QED BY <2>1
<1> QED BY <1>1, <1>2, <1>3, <1>4 DEF HubWork

(* The tab's side leaves the sessions and the broadcasts of the Hub alone. *)
LEMMA TabSide ==
  ASSUME TypeOK,
         \/ Replaces \/ Open \/ Closes \/ Watchdog \/ Cut \/ Messages \/ Elsewhere
         \/ (\E i \in Ids : Activate(i)) \/ UNCHANGED vars
  PROVE  UNCHANGED <<session, unknown, hub, up, snap, rpl>>
<1>1. CASE Replaces
  BY <1>1, ReplaceShape DEF server
<1>2. CASE Open
  BY <1>2, OpenedShape
<1>3. CASE Closes
  BY <1>3, CloseShape DEF server
<1>4. CASE Watchdog \/ Cut
  BY <1>4, Zenon DEF Watchdog, Cut, server
<1>5. CASE Messages
  BY <1>5, MessageSide DEF server
<1>6. CASE Elsewhere
  BY <1>6, ElsewhereSide DEF server
<1>7. CASE (\E i \in Ids : Activate(i)) \/ UNCHANGED vars
  BY <1>7, Zenon DEF Activate, vars, server
<1> QED BY <1>1, <1>2, <1>3, <1>4, <1>5, <1>6, <1>7

(* The queues hold nothing of an older Hub, *)
LEMMA QueuesStep ==
  ASSUME TypeOK, Links, FreshQueues, [Next]_vars
  PROVE  FreshQueues'
<1>1. CASE \E j \in Ids : Begin(j) \/ Output(j) \/ Drop(j) \/ Complete(j) \/ Return(j)
  <2>1. up /\ UNCHANGED <<hub, up, rpl>>
    BY <1>1, Grown, SessionShape DEF server
  <2>2. ASSUME NEW i \in Ids
        PROVE  /\ \A c \in In(buf'[i]) : c.h = hub
               /\ \A m \in In(outbox'[i]) : From(m, hub)
               /\ \A m \in In(ending'[i]) : m.t = "end"
    <3>1. /\ From(Update(i, "running"), hub)
          /\ \A c \in Chunk : c.h = hub => From(Pty(i, <<c>>), hub)
          /\ \A s \in {"disconnected", "completed"} : End(i, s).t = "end"
      <4>1. \A c \in Chunk : <<c>> \in Seq(Chunk) /\ In(<<c>>) = {c}
        BY InShort
      <4>2. From(Update(i, "running"), hub)
        BY DEF From, Update
      <4>3. ASSUME NEW c \in Chunk, c.h = hub PROVE From(Pty(i, <<c>>), hub)
        BY <4>1, <4>3 DEF From, Pty
      <4>4. \A s \in {"disconnected", "completed"} : End(i, s).t = "end"
        BY DEF End
      <4> QED BY <4>2, <4>3, <4>4
    <3>2. \/ In(buf'[i]) = In(buf[i])
          \/ \E c \in Chunk : c.h = hub /\ In(buf'[i]) = In(buf[i]) \cup {c}
      BY <1>1, Grown
    <3>3. \/ In(outbox'[i]) = In(outbox[i]) \/ In(outbox'[i]) = {Update(i, "running")}
          \/ \E c \in Chunk : c.h = hub /\ In(outbox'[i]) = {Pty(i, <<c>>)}
      BY <1>1, Grown
    <3>4. \/ In(ending'[i]) = In(ending[i])
          \/ \E s \in {"disconnected", "completed"} :
               In(ending'[i]) = In(ending[i]) \cup {End(i, s)}
      BY <1>1, Grown
    <3>5. /\ \A c \in In(buf[i]) : c.h = hub
          /\ \A m \in In(ending[i]) : m.t = "end"
      BY DEF FreshQueues
    <3>6. \A m \in In(outbox[i]) : From(m, hub)
      BY DEF FreshQueues
    <3>7. \A c \in In(buf'[i]) : c.h = hub
      BY <3>2, <3>5
    <3>8. \A m \in In(outbox'[i]) : From(m, hub)
      BY <3>1, <3>3, <3>6
    <3>9. \A m \in In(ending'[i]) : m.t = "end"
      BY <3>1, <3>4, <3>5
    <3> QED BY <3>7, <3>8, <3>9
  <2> QED BY <2>1, <2>2 DEF FreshQueues, From
<1>2. CASE HubStops
  BY <1>2, Emptied, InShort DEF FreshQueues
<1>3. CASE HubStarts
  <2>1. ~up /\ up' /\ UNCHANGED <<buf, outbox, ending, removing, rpl>>
    BY <1>3 DEF HubStarts, session
  <2> QED BY <2>1 DEF FreshQueues
<1>4. CASE Broadcasts
  <2>1. UNCHANGED <<hub, up, buf, rpl>>
    BY <1>4, Drained DEF server
  <2> QED BY <1>4, <2>1, Drained DEF FreshQueues, From
<1>5. ASSUME NEW k \in Sockets, HubWork(k) PROVE FreshQueues'
  <2>1. up /\ UNCHANGED <<hub, up>>
    BY <1>5, WorkShape DEF Links, Serves
  <2>2. ASSUME NEW i \in Ids
        PROVE  /\ In(buf'[i]) \subseteq In(buf[i]) /\ outbox'[i] = outbox[i]
               /\ In(ending'[i]) \subseteq In(ending[i]) \cup {End(i, "disconnected")}
    <3>1. CASE HandleDismiss(k)
      <4>1. PICK j \in Ids :
              /\ \A l \in Ids \ {j} : buf'[l] = buf[l] /\ ending'[l] = ending[l]
              /\ In(buf'[j]) = {}
              /\ In(ending'[j]) \subseteq In(ending[j]) \cup {End(j, "disconnected")}
              /\ outbox' = outbox
        BY <3>1, DismissShape
      <4> QED BY <4>1
    <3>2. CASE ~HandleDismiss(k)
      <4>1. UNCHANGED <<buf, outbox, ending>>
        BY <1>5, <3>2, Zenon DEF HubWork, AddUI, Capture, SendSnapshot, Replay, Serve, RemoveUI,
                                 session
      <4> QED BY <4>1
    <3> QED BY <3>1, <3>2
  <2>3. ASSUME NEW i \in Ids, NEW j \in Sockets
        PROVE  In(rpl'[j][i]) \subseteq In(rpl[j][i]) \cup In(buf[i])
    BY <1>5, ReplayShape
  <2>4. \A i \in Ids : End(i, "disconnected").t = "end"
    BY Written
  <2>5. ASSUME NEW i \in Ids
        PROVE  /\ \A c \in In(buf'[i]) : c.h = hub
               /\ \A m \in In(outbox'[i]) : From(m, hub)
    BY <2>2 DEF FreshQueues
  <2>6. ASSUME NEW i \in Ids, NEW m \in In(ending'[i]) PROVE m.t = "end"
    BY <2>2, <2>4, <2>6 DEF FreshQueues
  <2>7. ASSUME NEW i \in Ids, NEW j \in Sockets, NEW c \in In(rpl'[j][i]) PROVE c.h = hub
    BY <2>3, <2>7 DEF FreshQueues
  <2> QED BY <2>1, <2>5, <2>6, <2>7 DEF FreshQueues, From
<1>6. CASE \/ Replaces \/ Open \/ Closes \/ Watchdog \/ Cut \/ Messages \/ Elsewhere
           \/ (\E i \in Ids : Activate(i)) \/ UNCHANGED vars
  <2>1. UNCHANGED <<buf, outbox, ending, removing, hub, up, rpl>>
    BY <1>6, TabSide DEF session
  <2> QED BY <2>1 DEF FreshQueues, From
<1> QED BY <1>1, <1>2, <1>3, <1>4, <1>5, <1>6, Steps DEF Hubs, HubStep

(* so the tab is sent and shows nothing of one. *)
LEMMA FreshStep ==
  ASSUME TypeOK, Links, FreshQueues, FreshTab, [Next]_vars
  PROVE  FreshTab'
<1>0. cur \in Sockets /\ chan = [k \in Sockets |-> chan[k]] /\ st = [k \in Sockets |-> st[k]]
  BY DEF TypeOK, SocketType
<1>1. CASE Hubs
  <2>1. UNCHANGED <<st, cur, of, text>>
    BY <1>1, HubSide DEF socket, page
  <2>2. ASSUME NEW m \in Message, Source(m) PROVE From(m, hub)
    <3>1. ASSUME NEW i \in Ids, m \in In(outbox[i]) \/ m \in In(ending[i]) PROVE From(m, hub)
      BY <3>1 DEF FreshQueues, From
    <3>2. ASSUME NEW i \in In(removing), m = Removed(i) PROVE From(m, hub)
      BY <3>2 DEF Removed, From
    <3>3. ASSUME m = Snapshot(hub, snap[cur]) PROVE From(m, hub)
      BY <3>3 DEF Snapshot, From
    <3>4. ASSUME NEW i \in Ids, m = Pty(i, rpl[cur][i]) PROVE From(m, hub)
      <4>1. \A c \in In(rpl[cur][i]) : c.h = hub
        BY <1>0 DEF FreshQueues
      <4> QED BY <3>4, <4>1 DEF Pty, From
    <3> QED BY <2>2, <3>1, <3>2, <3>3, <3>4 DEF Source
  <2>3. \/ In(chan'[cur]) = In(chan[cur])
        \/ \E m \in Message : In(chan'[cur]) = In(chan[cur]) \cup {m} /\ From(m, hub) /\ of = hub
    BY <1>1, <2>2, Posted DEF Links
  <2> QED BY <2>1, <2>3 DEF FreshTab, From
<1>2. CASE Replaces
  <2>1. st'[cur'] = "connecting"
    BY <1>0, <1>2, ReplaceShape
  <2> QED BY <2>1 DEF FreshTab
<1>3. CASE Open
  <2>1. text' = NoText /\ chan' = chan /\ cur' = cur /\ st[cur] = "connecting"
    BY <1>3, OpenedShape
  <2>2. chan[cur] = << >>
    BY <1>0, <2>1 DEF Links
  <2> QED BY <2>1, <2>2, Blank, InShort DEF FreshTab
<1>4. CASE Closes
  <2>1. PICK k \in Sockets, s \in {"new", "closed"} :
           /\ st' = [st EXCEPT ![k] = s] /\ chan' = [chan EXCEPT ![k] = << >>]
           /\ UNCHANGED <<of, cur, text>>
    BY <1>4, CloseShape
  <2>2. st'[cur] = "open" => st[cur] = "open" /\ chan'[cur] = chan[cur]
    BY <1>0, <2>1
  <2> QED BY <2>1, <2>2 DEF FreshTab, From
<1>5. CASE Watchdog \/ Cut
  <2>1. /\ \E s \in {"zombie", "closing"} : st' = [st EXCEPT ![cur] = s]
        /\ cur' = cur
    BY <1>5 DEF Watchdog, Cut
  <2>2. st'[cur'] # "open"
    BY <1>0, <2>1
  <2> QED BY <2>2 DEF FreshTab
<1>6. CASE Messages
  <2>1. st[cur] = "open" /\ UNCHANGED <<st, of, cur>>
    BY <1>6, MessageSide
  <2>2. PICK type : Receive(type)
    BY <1>6, Zenon DEF Messages, OnPty, OnSnapshot, OnUpdate, OnEnd, OnRemoved
  <2>3. In(chan[cur]) = {Head(chan[cur])} \cup In(chan'[cur])
    BY <2>2, ReceiveShape DEF TypeOK
  <2>4. CASE OnPty
    <3>1. Head(chan[cur]).t = "pty"
      BY <2>4, ReceiveShape DEF OnPty, TypeOK
    <3>2. \A c \in In(Head(chan[cur]).cs) : c.h = of
      BY <2>1, <2>3, <3>1 DEF FreshTab, From
    <3>3. \A j \in Ids : In(text'[j]) \subseteq In(text[j]) \cup In(Head(chan[cur]).cs)
      BY <2>4, PtyEffect
    <3> QED BY SMTT(20), <2>1, <2>3, <3>2, <3>3 DEF FreshTab, From
  <2>5. CASE OnSnapshot \/ OnUpdate \/ OnEnd \/ OnRemoved
    <3>1. \A j \in Ids : In(text'[j]) \subseteq In(text[j])
      BY <2>5, SnapshotEffect, UpdateEffect, EndEffect, RemovedEffect DEF NoNewText
    <3> QED BY <2>1, <2>3, <3>1 DEF FreshTab, From
  <2> QED BY <1>6, <2>4, <2>5 DEF Messages
<1>7. CASE Elsewhere \/ UNCHANGED vars
  <2>1. UNCHANGED <<st, of, cur, text, chan>>
    BY <1>7, ElsewhereSide DEF vars, socket, page
  <2> QED BY <2>1 DEF FreshTab, From
<1>8. CASE \E i \in Ids : Activate(i)
  <2>1. UNCHANGED <<st, of, cur, chan>>
    BY <1>8, Zenon DEF Activate, socket
  <2>2. \A j \in Ids : In(text'[j]) \subseteq In(text[j])
    BY <1>8, ActivateEffect DEF NoNewText
  <2> QED BY <2>1, <2>2 DEF FreshTab, From
<1> QED BY <1>1, <1>2, <1>3, <1>4, <1>5, <1>6, <1>7, <1>8, Steps

-----------------------------------------------------------------------------
(* The instance recorded is the last whose snapshot was applied; a terminal *)
(* from any other Hub that was ever in sync is gone.                        *)
Recorded ==
  /\ inst <= of /\ seen \subseteq 1 .. inst
  /\ synced => inst = of /\ st[cur] \notin {"new", "connecting"}
  /\ \A i \in Ids : local[i] \in seen => local[i] = inst

(* Only a snapshot of the Hub reached changes the instance recorded. *)
LEMMA RecordedStep ==
  ASSUME TypeOK, Links, FreshTab, Recorded, [Next]_vars
  PROVE  Recorded'
<1>0. /\ cur \in Sockets /\ st = [k \in Sockets |-> st[k]] /\ of \in Nat /\ inst \in Nat
      /\ seen \subseteq Nat /\ hub \in Nat
  BY DEF TypeOK, SocketType, TabType, HubType
<1>1. CASE Hubs \/ Elsewhere \/ UNCHANGED vars
  <2>1. UNCHANGED <<inst, of, seen, synced, st, cur, local>>
    BY <1>1, HubSide, ElsewhereSide DEF vars, socket, page
  <2> QED BY <2>1 DEF Recorded
<1>2. CASE Replaces
  <2>1. synced' = FALSE /\ UNCHANGED <<inst, of, seen, local>>
    BY <1>2, ReplaceShape DEF page
  <2> QED BY <2>1 DEF Recorded
<1>3. CASE Open
  <2>1. /\ st[cur] = "connecting" /\ of' = hub /\ st' = [st EXCEPT ![cur] = "open"]
        /\ UNCHANGED <<cur, synced, seen, inst, local>>
    BY <1>3, OpenedShape
  <2>2. ~synced /\ inst <= of' /\ inst \in Nat
    BY <1>0, <2>1 DEF Recorded, Links
  <2> QED BY <2>1, <2>2 DEF Recorded
<1>4. CASE Closes
  <2>1. PICK k \in Sockets, s \in {"new", "closed"} :
           /\ s = "new" => k = cur /\ st[k] = "connecting"
           /\ st' = [st EXCEPT ![k] = s]
           /\ UNCHANGED <<of, cur, synced, seen, inst, local>>
    BY <1>4, CloseShape
  <2>2. st[cur] \notin {"new", "connecting"} => st'[cur] \notin {"new", "connecting"}
    BY <1>0, <2>1
  <2> QED BY <2>1, <2>2 DEF Recorded
<1>5. CASE Watchdog \/ Cut
  <2>1. /\ \E s \in {"zombie", "closing"} : st' = [st EXCEPT ![cur] = s]
        /\ UNCHANGED <<of, cur, synced, seen, inst, local>>
    BY <1>5 DEF Watchdog, Cut, page
  <2>2. st'[cur] \notin {"new", "connecting"}
    BY <1>0, <2>1
  <2> QED BY <2>1, <2>2 DEF Recorded
<1>6. CASE Messages
  <2>1. st[cur] = "open" /\ UNCHANGED <<st, of, cur>>
    BY <1>6, MessageSide
  <2>2. CASE OnSnapshot
    <3> DEFINE m == Head(chan[cur])
    <3>1. inst' = m.h /\ seen' = seen \cup {of} /\ Receive("snapshot")
      BY <2>2 DEF OnSnapshot
    <3>2. m.t = "snapshot" /\ m \in In(chan[cur])
      BY <3>1, ReceiveShape DEF TypeOK
    <3>3. inst' = of /\ m.h = of /\ of # 0
      BY <2>1, <3>1, <3>2 DEF FreshTab, From, Links
    <3>4. CASE inst # 0 /\ inst # m.h
      <4>1. \A j \in Ids : local'[j] \in {0, of}
        BY <2>2, <3>4, SnapshotEffect
      <4> QED BY <1>0, <2>1, <3>1, <3>3, <4>1 DEF Recorded
    <3>5. CASE ~(inst # 0 /\ inst # m.h)
      <4>1. \A j \in Ids : local'[j] \in {local[j], 0, of}
        BY <2>2, <3>5, SnapshotEffect DEF LocalStep
      <4> QED BY <1>0, <2>1, <3>1, <3>3, <3>5, <4>1 DEF Recorded
    <3> QED BY <3>4, <3>5
  <2>3. CASE OnPty \/ OnUpdate \/ OnEnd \/ OnRemoved
    <3>1. UNCHANGED <<inst, synced, seen>>
      BY <2>3, Zenon DEF OnPty, OnUpdate, OnEnd, OnRemoved
    <3>2. \A j \in Ids : local'[j] \in {local[j], 0, of}
      BY <2>3, PtyEffect, UpdateEffect, EndEffect, RemovedEffect DEF LocalStep
    <3> QED BY <1>0, <2>1, <3>1, <3>2 DEF Recorded
  <2> QED BY <1>6, <2>2, <2>3 DEF Messages
<1>7. CASE \E i \in Ids : Activate(i)
  <2>1. UNCHANGED <<inst, of, seen, synced, st, cur>>
    BY <1>7, Zenon DEF Activate, socket
  <2>2. \A j \in Ids : local'[j] \in {local[j], 0, of}
    BY <1>7, ActivateEffect DEF LocalStep
  <2> QED BY <1>0, <2>1, <2>2 DEF Recorded
<1> QED BY <1>1, <1>2, <1>3, <1>4, <1>5, <1>6, <1>7, Steps

(* All of it at once. *)
OwnInv == TypeOK /\ Links /\ FreshQueues /\ FreshTab /\ Recorded

(* It holds at the start, *)
LEMMA OwnInit == Init => OwnInv
<1> SUFFICES ASSUME Init PROVE OwnInv
  OBVIOUS
<1>1. TypeOK
  BY InitType
<1>2. /\ up /\ hub = 1 /\ of = 0 /\ cur = 1 /\ inst = 0 /\ seen = {} /\ synced = FALSE
      /\ buf = NoText /\ outbox = NoText /\ ending = NoText
      /\ rpl = [k \in Sockets |-> NoText]
      /\ srv = [k \in Sockets |-> "none"] /\ chan = [k \in Sockets |-> << >>]
      /\ st = [k \in Sockets |-> IF k = 1 THEN "connecting" ELSE "new"]
  BY DEF Init
<1>3. Links
  BY <1>2, Numbers DEF Links, Serves
<1>4. FreshQueues
  <2>1. \A i \in Ids : buf[i] = << >> /\ outbox[i] = << >> /\ ending[i] = << >>
    BY <1>2, Blank
  <2>2. \A k \in Sockets, i \in Ids : rpl[k][i] = << >>
    BY <1>2, Blank
  <2> QED BY <1>2, <2>1, <2>2, InShort DEF FreshQueues
<1>5. FreshTab /\ Recorded
  BY <1>2, Numbers DEF FreshTab, Recorded
<1> QED BY <1>1, <1>3, <1>4, <1>5 DEF OwnInv

(* and every step keeps it. *)
LEMMA OwnStep == OwnInv /\ [Next]_vars => OwnInv'
  BY TypeStep, LinksStep, QueuesStep, FreshStep, RecordedStep DEF OwnInv

(* NoForeignState: once the snapshot of the Hub reached has been applied, the
   tab shows output of that Hub only, and no terminal is left under a number
   from another Hub whose snapshot it had applied (ws-client.ts 73-77). *)
THEOREM NoForeign == Spec => []NoForeignState
<1>1. OwnInv => NoForeignState
  <2> SUFFICES ASSUME OwnInv, st[cur] = "open", synced, NEW i \in Ids
               PROVE  /\ local[i] \in seen => local[i] = of
                      /\ \A n \in DOMAIN text[i] : text[i][n].h = of
    BY Zenon DEF NoForeignState, Synced
  <2>1. \A c \in In(text[i]) : c.h = of
    BY DEF OwnInv, FreshTab
  <2>2. \A n \in DOMAIN text[i] : text[i][n] \in In(text[i])
    BY DEF In
  <2>3. local[i] \in seen => local[i] = of
    BY DEF OwnInv, Recorded
  <2> QED BY <2>1, <2>2, <2>3
<1> QED BY <1>1, OwnInit, OwnStep, PTL DEF Spec

-----------------------------------------------------------------------------
(* A number is settled when its session has ended for good, or when its     *)
(* dismissal was answered too early; only then may a message take its card. *)
Settled(i) == i \in unknown \/ live[i] \in {"completed", "dismissed"}
Takes(m) == m.t = "removed" \/ (m.t = "end" /\ m.st = "completed")

FinalQueues ==
  /\ \A i \in Ids : /\ \A m \in In(outbox[i]) : ~Takes(m)
                    /\ \A m \in In(ending[i]) : Takes(m) => Settled(m.id)
  /\ \A i \in In(removing) : Settled(i)

FinalTab ==
  Serves(cur) /\ st[cur] = "open" => \A m \in In(chan[cur]) : Takes(m) => Settled(m.id)

(* Which of them do. *)
LEMMA Taking ==
  /\ \A i \in Ids : ~Takes(Update(i, "running")) /\ ~Takes(End(i, "disconnected"))
  /\ \A i \in Ids : \A cs : ~Takes(Pty(i, cs))
  /\ \A h, c : ~Takes(Snapshot(h, c))
<1>1. \A i \in Ids : ~Takes(Update(i, "running")) /\ ~Takes(End(i, "disconnected"))
  BY DEF Takes, Update, End
<1>2. \A i \in Ids : \A cs : ~Takes(Pty(i, cs))
  BY DEF Takes, Pty
<1>3. \A h, c : ~Takes(Snapshot(h, c))
  BY DEF Takes, Snapshot
<1> QED BY <1>1, <1>2, <1>3

(* What waits at the Hub is about its sessions. *)
LEMMA Queued ==
  ASSUME TypeOK
  PROVE  /\ \A i \in Ids : \A m \in In(outbox[i]) \cup In(ending[i]) : m \in Message
         /\ \A i \in Ids : \A m \in In(ending[i]) : m.t \in {"end", "removed"} => m.id \in Ids
         /\ \A k \in Sockets : \A m \in In(chan[k]) :
              m \in Message /\ (m.t \in {"end", "removed"} => m.id \in Ids)
         /\ In(removing) \subseteq Ids
<1>1. \A i \in Ids : In(outbox[i]) \subseteq Message /\ In(ending[i]) \subseteq Message
  BY InShort DEF TypeOK, HubType
<1>2. \A k \in Sockets : In(chan[k]) \subseteq Message
  BY InShort DEF TypeOK, SocketType
<1>3. In(removing) \subseteq Ids
  BY InShort DEF TypeOK, HubType
<1> QED BY <1>1, <1>2, <1>3, Read

(* A number stays settled as long as the Hub runs. *)
LEMMA SettledStays ==
  ASSUME TypeOK, Links, [Next]_vars, ~HubStops
  PROVE  \A i \in Ids : Settled(i) => Settled(i)'
<1>1. CASE \E j \in Ids : Begin(j) \/ Output(j) \/ Drop(j) \/ Complete(j) \/ Return(j)
  <2>1. /\ unknown' = unknown
        /\ \E i \in Ids : /\ \A j \in Ids \ {i} : live'[j] = live[j]
                          /\ live[i] \notin {"completed", "dismissed"}
    BY <1>1, Grown
  <2> QED BY <2>1 DEF Settled
<1>2. CASE HubStarts
  BY <1>2 DEF HubStarts, session, Settled
<1>3. CASE Broadcasts
  BY <1>3, Drained DEF Settled
<1>4. ASSUME NEW k \in Sockets, HubWork(k) PROVE \A i \in Ids : Settled(i) => Settled(i)'
  <2>1. CASE HandleDismiss(k)
    <3>1. PICK i \in Ids :
            /\ \A j \in Ids \ {i} : live'[j] = live[j]
            /\ live'[i] = (IF live[i] = "none" THEN "none" ELSE "dismissed")
            /\ unknown' = (IF live[i] = "none" THEN unknown \cup {i} ELSE unknown)
      BY <2>1, DismissShape
    <3> QED BY <3>1 DEF Settled
  <2>2. CASE ~HandleDismiss(k)
    <3>1. UNCHANGED <<live, unknown>>
      BY <1>4, <2>2, Zenon DEF HubWork, AddUI, Capture, SendSnapshot, Replay, Serve, RemoveUI,
                               session
    <3> QED BY <3>1 DEF Settled
  <2> QED BY <2>1, <2>2
<1>5. CASE \/ Replaces \/ Open \/ Closes \/ Watchdog \/ Cut \/ Messages \/ Elsewhere
           \/ (\E i \in Ids : Activate(i)) \/ UNCHANGED vars
  BY <1>5, TabSide DEF session, Settled
<1> QED BY <1>1, <1>2, <1>3, <1>4, <1>5, Steps DEF Hubs, HubStep

(* What waits to take a card is about settled numbers, *)
LEMMA FinalQueuesStep ==
  ASSUME TypeOK, Links, FinalQueues, [Next]_vars
  PROVE  FinalQueues'
<1>1. CASE \E j \in Ids : Begin(j) \/ Output(j) \/ Drop(j) \/ Complete(j) \/ Return(j)
  <2>1. ~HubStops /\ removing' = removing
    BY <1>1, Grown, Emptied
  <2>2. \A i \in Ids : Settled(i) => Settled(i)'
    BY <2>1, SettledStays
  <2>3. ASSUME NEW i \in Ids, NEW m \in In(outbox'[i]) PROVE ~Takes(m)
    <3>1. \/ In(outbox'[i]) = In(outbox[i]) \/ In(outbox'[i]) = {Update(i, "running")}
          \/ \E c \in Chunk : In(outbox'[i]) = {Pty(i, <<c>>)}
      BY <1>1, Grown
    <3>2. \/ m \in In(outbox[i]) \/ m = Update(i, "running")
          \/ \E c \in Chunk : m = Pty(i, <<c>>)
      BY <2>3, <3>1
    <3> QED BY <3>2, Taking DEF FinalQueues
  <2>4. ASSUME NEW i \in Ids, NEW m \in In(ending'[i]), Takes(m) PROVE Settled(m.id)'
    <3>1. \/ In(ending'[i]) = In(ending[i])
          \/ \E s \in {"disconnected", "completed"} :
               live'[i] = s /\ In(ending'[i]) = In(ending[i]) \cup {End(i, s)}
      BY <1>1, Grown
    <3>2. CASE m \in In(ending[i])
      <4>1. m.id \in Ids
        BY <2>4, <3>2, Queued DEF Takes
      <4> QED BY <2>2, <2>4, <3>2, <4>1 DEF FinalQueues
    <3>3. CASE m \notin In(ending[i])
      <4>1. PICK s \in {"disconnected", "completed"} : live'[i] = s /\ m = End(i, s)
        BY <2>4, <3>1, <3>3
      <4>2. s = "completed" /\ m.id = i
        BY <2>4, <4>1, Taking, Written
      <4> QED BY <4>1, <4>2 DEF Settled
    <3> QED BY <3>2, <3>3
  <2> QED BY <2>1, <2>2, <2>3, <2>4, Queued DEF FinalQueues, Takes
<1>2. CASE HubStops
  BY <1>2, Emptied, InShort DEF FinalQueues
<1>3. CASE HubStarts
  BY <1>3 DEF HubStarts, session, FinalQueues, Settled, Takes
<1>4. CASE Broadcasts
  BY <1>4, Drained DEF FinalQueues, Settled, Takes
<1>5. ASSUME NEW k \in Sockets, HubWork(k) PROVE FinalQueues'
  <2>1. CASE HandleDismiss(k)
    <3>1. up
      BY <1>5, WorkShape DEF Links, Serves
    <3>2. ~HubStops
      BY <1>5, <3>1, WorkShape, Emptied
    <3>3. \A i \in Ids : Settled(i) => Settled(i)'
      BY <3>2, SettledStays
    <3>4. PICK i \in Ids :
            /\ \A j \in Ids \ {i} : ending'[j] = ending[j]
            /\ live'[i] = (IF live[i] = "none" THEN "none" ELSE "dismissed")
            /\ unknown' = (IF live[i] = "none" THEN unknown \cup {i} ELSE unknown)
            /\ In(removing') = In(removing) \cup {i}
            /\ In(ending'[i]) \subseteq In(ending[i]) \cup {End(i, "disconnected")}
            /\ outbox' = outbox
      BY <2>1, DismissShape
    <3>5. Settled(i)'
      BY <3>4 DEF Settled
    <3>6. ASSUME NEW j \in Ids, NEW m \in In(ending'[j]), Takes(m) PROVE Settled(m.id)'
      <4>1. m \in In(ending[j])
        BY <3>4, <3>6, Taking
      <4>2. m.id \in Ids
        BY <3>6, <4>1, Queued DEF Takes
      <4> QED BY <3>3, <3>6, <4>1, <4>2 DEF FinalQueues
    <3>7. \A j \in In(removing') : Settled(j)'
      BY <3>3, <3>4, <3>5, Queued DEF FinalQueues
    <3>8. \A j \in Ids : \A m \in In(outbox'[j]) : ~Takes(m)
      BY <3>4 DEF FinalQueues
    <3> QED BY <3>6, <3>7, <3>8 DEF FinalQueues, Takes
  <2>2. CASE ~HandleDismiss(k)
    <3>1. UNCHANGED <<live, outbox, ending, removing, unknown>>
      BY <1>5, <2>2, Zenon DEF HubWork, AddUI, Capture, SendSnapshot, Replay, Serve, RemoveUI,
                               session
    <3> QED BY <3>1 DEF FinalQueues, Settled, Takes
  <2> QED BY <2>1, <2>2
<1>6. CASE \/ Replaces \/ Open \/ Closes \/ Watchdog \/ Cut \/ Messages \/ Elsewhere
           \/ (\E i \in Ids : Activate(i)) \/ UNCHANGED vars
  <2>1. UNCHANGED <<live, outbox, ending, removing, unknown>>
    BY <1>6, TabSide DEF session
  <2> QED BY <2>1 DEF FinalQueues, Settled, Takes
<1> QED BY <1>1, <1>2, <1>3, <1>4, <1>5, <1>6, Steps DEF Hubs, HubStep

(* and so is what is on the way to the tab. *)
LEMMA FinalTabStep ==
  ASSUME TypeOK, Links, FinalQueues, FinalTab, [Next]_vars
  PROVE  FinalTab'
<1>0. /\ cur \in Sockets /\ chan = [k \in Sockets |-> chan[k]] /\ st = [k \in Sockets |-> st[k]]
      /\ srv = [k \in Sockets |-> srv[k]]
  BY DEF TypeOK, SocketType
<1>1. CASE Hubs
  <2>1. UNCHANGED <<st, cur>>
    BY <1>1, HubSide DEF socket
  <2>2. Serves(cur)' => Serves(cur) /\ ~HubStops
    <3>1. HubStops => ~Serves(cur)'
      BY <1>0, <2>1, Emptied DEF Serves
    <3>2. CASE HubStep /\ ~HubStops
      <4>1. srv' = srv
        BY <3>2, SessionShape DEF HubStep, server
      <4> QED BY <2>1, <3>2, <4>1 DEF Serves
    <3>3. CASE Broadcasts \/ HubStarts
      <4>1. srv' = srv
        BY <3>3, Drained DEF HubStarts, server
      <4> QED BY <2>1, <3>1, <4>1 DEF Serves
    <3>4. ASSUME NEW k \in Sockets, HubWork(k) PROVE Serves(cur)' => Serves(cur)
      <4>1. /\ srv[k] \notin {"none", "gone"}
            /\ srv' = srv \/ \E s \in {"added", "captured", "sent", "ui", "gone"} :
                                srv' = [srv EXCEPT ![k] = s]
        BY <3>4, WorkShape
      <4>2. cur # k => srv'[cur] = srv[cur]
        BY <1>0, <4>1
      <4> QED BY <2>1, <4>1, <4>2 DEF Serves
    <3> QED BY <1>1, <3>1, <3>2, <3>3, <3>4 DEF Hubs
  <2>3. ~HubStops => \A i \in Ids : Settled(i) => Settled(i)'
    BY SettledStays
  <2>4. ASSUME NEW m, Source(m), Takes(m) PROVE Settled(m.id)
    <3>1. ASSUME NEW i \in Ids, m \in In(outbox[i]) \/ m \in In(ending[i]) PROVE Settled(m.id)
      BY <2>4, <3>1 DEF FinalQueues
    <3>2. ASSUME NEW i \in In(removing), m = Removed(i) PROVE Settled(m.id)
      BY <3>2 DEF Removed, FinalQueues
    <3>3. m # Snapshot(hub, snap[cur]) /\ \A i \in Ids : m # Pty(i, rpl[cur][i])
      BY <2>4, Taking
    <3> QED BY <2>4, <3>1, <3>2, <3>3 DEF Source
  <2>5. \/ In(chan'[cur]) = In(chan[cur])
        \/ \E m \in Message : /\ In(chan'[cur]) = In(chan[cur]) \cup {m}
                              /\ Takes(m) => Settled(m.id)
    BY <1>1, <2>4, Posted
  <2>6. ASSUME Serves(cur)', st[cur] = "open", NEW m \in In(chan'[cur]), Takes(m)
        PROVE  Settled(m.id)'
    <3>1. \A i \in Ids : Settled(i) => Settled(i)'
      BY <2>2, <2>3, <2>6
    <3>2. Settled(m.id)
      BY <2>2, <2>5, <2>6 DEF FinalTab
    <3>3. m.id \in Ids
      <4>1. m \in Message
        BY <1>0, <2>5, <2>6, Queued
      <4> QED BY <2>6, <4>1, Read DEF Takes
    <3> QED BY <3>1, <3>2, <3>3
  <2> QED BY <2>1, <2>6 DEF FinalTab, Takes
<1>2. CASE Replaces
  <2>1. st'[cur'] = "connecting"
    BY <1>0, <1>2, ReplaceShape
  <2> QED BY <2>1 DEF FinalTab
<1>3. CASE Open
  <2>1. chan' = chan /\ cur' = cur /\ st[cur] = "connecting"
    BY <1>3, OpenedShape
  <2>2. chan[cur] = << >>
    BY <1>0, <2>1 DEF Links
  <2> QED BY <2>1, <2>2, InShort DEF FinalTab
<1>4. CASE Closes
  <2>1. PICK k \in Sockets, s \in {"new", "closed"} :
           /\ st' = [st EXCEPT ![k] = s] /\ chan' = [chan EXCEPT ![k] = << >>]
           /\ UNCHANGED <<cur, srv, live, unknown>>
    BY <1>4, CloseShape DEF server, session
  <2>2. st'[cur] = "open" => st[cur] = "open" /\ chan'[cur] = chan[cur]
    BY <1>0, <2>1
  <2> QED BY <2>1, <2>2 DEF FinalTab, Serves, Settled, Takes
<1>5. CASE Watchdog \/ Cut
  <2>1. /\ \E s \in {"zombie", "closing"} : st' = [st EXCEPT ![cur] = s]
        /\ cur' = cur
    BY <1>5 DEF Watchdog, Cut
  <2>2. st'[cur'] # "open"
    BY <1>0, <2>1
  <2> QED BY <2>2 DEF FinalTab
<1>6. CASE Messages
  <2>1. st[cur] = "open" /\ UNCHANGED <<st, cur, srv, live, unknown>>
    BY <1>6, MessageSide DEF server, session
  <2>2. PICK type : Receive(type)
    BY <1>6, Zenon DEF Messages, OnPty, OnSnapshot, OnUpdate, OnEnd, OnRemoved
  <2>3. In(chan'[cur]) \subseteq In(chan[cur])
    BY <2>2, ReceiveShape DEF TypeOK
  <2> QED BY <2>1, <2>3 DEF FinalTab, Serves, Settled, Takes
<1>7. CASE Elsewhere \/ (\E i \in Ids : Activate(i)) \/ UNCHANGED vars
  <2>1. UNCHANGED <<st, cur, chan, srv, live, unknown>>
    <3>1. (\E i \in Ids : Activate(i)) => UNCHANGED <<st, cur, chan, srv, live, unknown>>
      BY Zenon DEF Activate, socket, server, session
    <3> QED BY <1>7, <3>1, ElsewhereSide DEF vars, socket, server, session
  <2> QED BY <2>1 DEF FinalTab, Serves, Settled, Takes
<1> QED BY <1>1, <1>2, <1>3, <1>4, <1>5, <1>6, <1>7, Steps

(* A number not given out has no output, and a connection served has had    *)
(* its whole replay.                                                        *)
Replayed ==
  /\ \A i \in Ids : live[i] = "none" => In(buf[i]) = {}
  /\ \A k \in Sockets : srv[k] = "ui" => rpl[k] = NoText

(* Every step keeps that. *)
LEMMA ReplayedStep ==
  ASSUME TypeOK, Links, Replayed, [Next]_vars
  PROVE  Replayed'
<1>0. cur \in Sockets /\ srv = [k \in Sockets |-> srv[k]] /\ rpl = [k \in Sockets |-> rpl[k]]
  BY DEF TypeOK, SocketType
<1>1. CASE \E j \in Ids : Begin(j) \/ Output(j) \/ Drop(j) \/ Complete(j) \/ Return(j)
  <2>1. UNCHANGED <<srv, rpl>>
    BY <1>1, SessionShape DEF server
  <2>2. PICK i \in Ids : /\ \A j \in Ids \ {i} : buf'[j] = buf[j] /\ live'[j] = live[j]
                         /\ live'[i] # "none"
    BY <1>1, Grown
  <2> QED BY <2>1, <2>2 DEF Replayed
<1>2. CASE HubStops
  BY <1>2, Emptied DEF Replayed
<1>3. CASE HubStarts \/ Broadcasts
  <2>1. UNCHANGED <<live, buf, srv, rpl>>
    BY <1>3, Drained DEF HubStarts, session, server
  <2> QED BY <2>1 DEF Replayed
<1>4. ASSUME NEW k \in Sockets, HubWork(k) PROVE Replayed'
  <2>1. CASE HandleDismiss(k)
    <3>1. UNCHANGED <<srv, rpl>>
      BY <2>1, DismissShape DEF server
    <3>2. PICK i \in Ids :
            /\ \A j \in Ids \ {i} : buf'[j] = buf[j] /\ live'[j] = live[j]
            /\ In(buf'[i]) = {}
      BY <2>1, DismissShape
    <3> QED BY <3>1, <3>2 DEF Replayed
  <2>2. CASE ~HandleDismiss(k)
    <3>1. UNCHANGED <<live, buf>>
      BY <1>4, <2>2, Zenon DEF HubWork, AddUI, Capture, SendSnapshot, Replay, Serve, RemoveUI,
                               session
    <3>2. CASE Serve(k)
      <4>1. rpl[k] = NoText /\ rpl' = rpl /\ srv' = [srv EXCEPT ![k] = "ui"]
        BY <3>2 DEF Serve
      <4>2. \A j \in Sockets \ {k} : srv'[j] = srv[j]
        BY <1>0, <4>1
      <4> QED BY <3>1, <4>1, <4>2 DEF Replayed
    <3>3. CASE AddUI(k) \/ Capture(k) \/ SendSnapshot(k) \/ RemoveUI(k)
      <4>1. /\ \E s \in {"added", "captured", "sent", "gone"} : srv' = [srv EXCEPT ![k] = s]
            /\ rpl' = rpl \/ rpl' = [rpl EXCEPT ![k] = buf] \/ rpl' = [rpl EXCEPT ![k] = NoText]
        BY <3>3 DEF AddUI, Capture, SendSnapshot, RemoveUI
      <4>2. srv'[k] # "ui" /\ \A j \in Sockets \ {k} : srv'[j] = srv[j] /\ rpl'[j] = rpl[j]
        BY <1>0, <4>1
      <4> QED BY <3>1, <4>2 DEF Replayed
    <3>4. CASE Replay(k)
      <4>1. srv[k] = "sent" /\ srv' = srv /\ \E i \in Ids : rpl' = [rpl EXCEPT ![k][i] = << >>]
        BY <3>4 DEF Replay
      <4>2. \A j \in Sockets \ {k} : rpl'[j] = rpl[j]
        BY <1>0, <4>1
      <4> QED BY <3>1, <4>1, <4>2 DEF Replayed
    <3> QED BY <1>4, <2>2, <3>2, <3>3, <3>4 DEF HubWork
  <2> QED BY <2>1, <2>2
<1>5. CASE Open
  <2>1. srv' = [srv EXCEPT ![cur] = "register"] /\ UNCHANGED <<live, buf, rpl>>
    BY <1>5, OpenedShape DEF session
  <2>2. \A k \in Sockets : srv'[k] = "ui" => srv[k] = "ui"
    BY <1>0, <2>1
  <2> QED BY <2>1, <2>2 DEF Replayed
<1>6. CASE \/ Replaces \/ Closes \/ Watchdog \/ Cut \/ Messages \/ Elsewhere
           \/ (\E i \in Ids : Activate(i)) \/ UNCHANGED vars
  <2>1. UNCHANGED <<live, buf, rpl>>
    BY <1>6, TabSide DEF session
  <2>2. srv' = srv
    <3>1. Watchdog \/ Cut \/ (\E i \in Ids : Activate(i)) => srv' = srv
      BY Zenon DEF Watchdog, Cut, Activate, server
    <3> QED BY <1>6, <3>1, ReplaceShape, CloseShape, MessageSide, ElsewhereSide DEF server, vars
  <2> QED BY <2>1, <2>2 DEF Replayed
<1> QED BY <1>1, <1>2, <1>3, <1>4, <1>5, <1>6, Steps DEF Hubs, HubStep

-----------------------------------------------------------------------------
(* A session that is alive has its card, or something on the way gives one; *)
(* a chunk the Hub would replay is shown, or is on the way.                 *)
Alive(i) == i \notin unknown /\ live[i] \in {"running", "disconnected"}
OnWay(i) == In(outbox[i]) \cup In(chan[cur])
Gives(m, i) == \/ m.t = "update" /\ m.id = i
               \/ m.t = "snapshot" /\ m.cards[i] \in {"running", "disconnected"}
Prints(m, i, c) == m.t = "pty" /\ m.id = i /\ c \in In(m.cs)

Carded(i) == \/ cards[i] # "none"
             \/ srv[cur] = "captured" /\ snap[cur][i] \in {"running", "disconnected"}
             \/ \E m \in OnWay(i) : Gives(m, i)
Shown(i, c) == \/ c \in In(text[i]) \/ c \in In(rpl[cur][i])
               \/ \E m \in OnWay(i) : Prints(m, i, c)

Holds(i) == /\ srv[cur] \in {"captured", "sent", "ui"} => Carded(i)
            /\ srv[cur] \in {"added", "captured", "sent", "ui"} =>
                 \A c \in In(buf[i]) : Shown(i, c)

Delivered == st[cur] = "open" /\ ~purged => \A i \in Ids : Alive(i) => Holds(i)

(* A step that takes nothing away leaves a session what it has. *)
LEMMA HoldsOn ==
  ASSUME NEW i \in Ids, Holds(i), Kept(i), In(buf'[i]) \subseteq In(buf[i]),
         OnWay(i) \subseteq OnWay(i)', cur' = cur, srv'[cur] = srv[cur],
         snap'[cur] = snap[cur], rpl'[cur] = rpl[cur]
  PROVE  Holds(i)'
<1>1. Carded(i) => Carded(i)'
  BY DEF Carded, Kept, Gives
<1>2. \A c : Shown(i, c) => Shown(i, c)'
  BY DEF Shown, Kept, Prints
<1> QED BY <1>1, <1>2 DEF Holds

(* So does a message that leaves the channel and shows what it says. *)
LEMMA HeadShown ==
  ASSUME NEW i \in Ids, NEW m, Holds(i), Kept(i), OnWay(i) = {m} \cup OnWay(i)',
         UNCHANGED <<cur, srv, snap, rpl, buf>>,
         ~Gives(m, i) \/ cards'[i] # "none",
         \A c : Prints(m, i, c) => c \in In(text'[i])
  PROVE  Holds(i)'
<1>1. Carded(i) => Carded(i)'
  BY DEF Carded, Kept, Gives
<1>2. \A c : Shown(i, c) => Shown(i, c)'
  BY DEF Shown, Kept, Prints
<1> QED BY <1>1, <1>2 DEF Holds

(* The sessions change. *)
LEMMA SessionDelivers ==
  ASSUME TypeOK, Replayed, Delivered, st[cur] = "open", ~purged, NEW i \in Ids, Alive(i)',
         \E j \in Ids : Begin(j) \/ Output(j) \/ Drop(j) \/ Complete(j) \/ Return(j)
  PROVE  Holds(i)'
<1>1. UNCHANGED <<cur, srv, snap, rpl, cards, text, chan, unknown>>
  BY SessionShape, Grown, HubSide DEF server, Hubs, HubStep, socket, page
<1>2. PICK j \in Ids :
        /\ \A l \in Ids \ {j} : /\ buf'[l] = buf[l] /\ outbox'[l] = outbox[l]
                                /\ live'[l] = live[l]
        /\ \/ /\ live[j] \in {"none", "disconnected"} /\ live'[j] = "running"
              /\ In(buf'[j]) = In(buf[j]) /\ In(outbox'[j]) = {Update(j, "running")}
              /\ live[j] = "disconnected" => In(outbox[j]) = {}
           \/ \E c \in Chunk :
                /\ live[j] = "running" /\ live'[j] = "running" /\ In(outbox[j]) = {}
                /\ In(buf'[j]) = In(buf[j]) \cup {c} /\ In(outbox'[j]) = {Pty(j, <<c>>)}
           \/ \E s \in {"disconnected", "completed"} :
                /\ live[j] = "running" /\ live'[j] = s
                /\ In(buf'[j]) = In(buf[j]) /\ In(outbox'[j]) = In(outbox[j])
  BY Grown
<1>3. Kept(i)
  BY <1>1 DEF Kept
<1>4. CASE i # j
  <2>1. Alive(i)
    BY <1>1, <1>2, <1>4 DEF Alive
  <2>2. OnWay(i)' = OnWay(i) /\ buf'[i] = buf[i]
    BY <1>1, <1>2, <1>4 DEF OnWay
  <2> QED BY <1>1, <1>3, <2>1, <2>2, HoldsOn DEF Delivered
<1>5. CASE i = j /\ live[i] = "none"
  <2>1. Update(i, "running") \in OnWay(i)'
    BY <1>2, <1>5 DEF OnWay
  <2>2. Carded(i)'
    BY <2>1, Written DEF Carded, Gives
  <2>3. In(buf'[i]) = {}
    BY <1>2, <1>5 DEF Replayed
  <2> QED BY <2>2, <2>3 DEF Holds
<1>6. CASE i = j /\ live[i] # "none"
  <2>1. Alive(i)
    BY <1>1, <1>2, <1>6 DEF Alive
  <2>2. OnWay(i) \subseteq OnWay(i)'
    BY <1>1, <1>2, <1>6 DEF OnWay
  <2>3. CASE In(buf'[i]) = In(buf[i])
    BY <1>1, <1>3, <2>1, <2>2, <2>3, HoldsOn DEF Delivered
  <2>4. ASSUME NEW c \in Chunk, In(buf'[i]) = In(buf[i]) \cup {c},
               In(outbox'[i]) = {Pty(i, <<c>>)}
        PROVE  Holds(i)'
    <3>1. Shown(i, c)'
      <4>1. Pty(i, <<c>>) \in OnWay(i)'
        BY <2>4 DEF OnWay
      <4>2. <<c>> \in Seq(Chunk) /\ In(<<c>>) = {c}
        BY InShort
      <4>3. Prints(Pty(i, <<c>>), i, c)
        BY <4>2 DEF Prints, Pty
      <4>4. Shown(i, c)' <=> \/ c \in In(text'[i]) \/ c \in In(rpl'[cur'][i])
                            \/ \E m \in OnWay(i)' : Prints(m, i, c)
        BY DEF Shown, Prints
      <4> QED BY <4>1, <4>3, <4>4
    <3>2. Holds(i)
      BY <2>1 DEF Delivered
    <3>3. \A d : Shown(i, d) => Shown(i, d)'
      BY <1>1, <2>2 DEF Shown, Prints
    <3>4. Carded(i) => Carded(i)'
      BY <1>1, <2>2 DEF Carded, Gives
    <3> QED BY <1>1, <2>4, <3>1, <3>2, <3>3, <3>4 DEF Holds
  <2> QED BY <1>2, <1>6, <2>3, <2>4
<1> QED BY <1>4, <1>5, <1>6

(* The Hub works on a connection. *)
LEMMA WorkDelivers ==
  ASSUME TypeOK, Links, Delivered, st[cur] = "open", ~purged, NEW i \in Ids, Alive(i)',
         NEW k \in Sockets, HubWork(k)
  PROVE  Holds(i)'
<1>0. /\ cur \in Sockets /\ srv = [l \in Sockets |-> srv[l]] /\ rpl = [l \in Sockets |-> rpl[l]]
      /\ snap = [l \in Sockets |-> snap[l]] /\ rpl[cur] = [j \in Ids |-> rpl[cur][j]]
      /\ chan[cur] \in Seq(Message) /\ snap[cur] \in [Ids -> States]
      /\ rpl[cur] \in [Ids -> Seq(Chunk)]
      /\ chan = [l \in Sockets |-> chan[l]] /\ hub \in Nat
  BY DEF TypeOK, SocketType, HubType
<1>1. UNCHANGED <<cur, cards, text>> /\ Kept(i)
  BY HubSide DEF Hubs, socket, page, Kept
<1>2. CASE HandleDismiss(k)
  <2>1. UNCHANGED <<outbox, srv, snap, rpl, chan>>
    BY <1>2, DismissShape DEF server
  <2>2. PICK j \in Ids :
          /\ \A l \in Ids \ {j} : live'[l] = live[l] /\ buf'[l] = buf[l]
          /\ live'[j] \in {"none", "dismissed"} /\ unknown \subseteq unknown'
    BY <1>2, DismissShape
  <2>3. i # j /\ Alive(i) /\ buf'[i] = buf[i]
    BY <2>2 DEF Alive
  <2>4. OnWay(i)' = OnWay(i)
    BY <1>1, <2>1 DEF OnWay
  <2> QED BY <1>1, <2>1, <2>3, <2>4, HoldsOn DEF Delivered
<1>3. ASSUME ~HandleDismiss(k)
      PROVE  UNCHANGED <<live, buf, outbox, unknown>> /\ Alive(i) /\ Holds(i)
  <2>1. UNCHANGED <<live, buf, outbox, unknown>>
    BY <1>3, Zenon DEF HubWork, AddUI, Capture, SendSnapshot, Replay, Serve, RemoveUI, session
  <2> QED BY <2>1 DEF Alive, Delivered
<1>4. CASE ~HandleDismiss(k) /\ k # cur
  <2>1. /\ srv' = srv \/ \E s : srv' = [srv EXCEPT ![k] = s]
        /\ snap' = snap \/ \E s : snap' = [snap EXCEPT ![k] = s]
        /\ chan' = chan \/ \E s : chan' = [chan EXCEPT ![k] = s]
    BY <1>4 DEF HubWork, AddUI, Capture, SendSnapshot, Replay, Serve, RemoveUI
  <2>2. rpl' = rpl \/ (\E s : rpl' = [rpl EXCEPT ![k] = s])
                   \/ \E n \in Ids : rpl' = [rpl EXCEPT ![k][n] = << >>]
    BY <1>4 DEF HubWork, AddUI, Capture, SendSnapshot, Replay, Serve, RemoveUI
  <2>3. /\ srv'[cur] = srv[cur] /\ snap'[cur] = snap[cur] /\ rpl'[cur] = rpl[cur]
        /\ chan'[cur] = chan[cur]
    BY <1>0, <1>4, <2>1, <2>2
  <2>4. OnWay(i)' = OnWay(i)
    BY <1>1, <1>3, <1>4, <2>3 DEF OnWay
  <2> QED BY <1>1, <1>3, <1>4, <2>3, <2>4, HoldsOn
<1>5. CASE k = cur /\ AddUI(k)
  <2>1. srv'[cur] = "added" /\ rpl'[cur] = buf
    BY <1>0, <1>5 DEF AddUI
  <2>2. buf' = buf
    BY <1>5 DEF AddUI, session
  <2> QED BY <1>1, <2>1, <2>2 DEF Holds, Shown
<1>6. CASE k = cur /\ Capture(k)
  <2>1. /\ srv[cur] = "added" /\ srv'[cur] = "captured" /\ snap'[cur] = live
        /\ UNCHANGED <<rpl, chan, buf, outbox, live, unknown>>
    BY <1>0, <1>6 DEF Capture, session
  <2>2. Alive(i) /\ Holds(i)
    BY <2>1 DEF Alive, Delivered
  <2>3. Carded(i)'
    BY <1>1, <2>1, <2>2 DEF Carded, Alive
  <2>4. \A c : Shown(i, c) => Shown(i, c)'
    BY <1>1, <2>1 DEF Shown, OnWay, Prints
  <2> QED BY <1>1, <2>1, <2>2, <2>3, <2>4 DEF Holds
<1>7. CASE k = cur /\ SendSnapshot(k)
  <2> DEFINE m == Snapshot(hub, snap[cur])
  <2>1. /\ srv[cur] = "captured" /\ srv'[cur] = "sent" /\ chan'[cur] = Append(chan[cur], m)
        /\ UNCHANGED <<rpl, buf, outbox, live, unknown>>
    BY <1>0, <1>7 DEF SendSnapshot, session
  <2>2. Alive(i) /\ Holds(i)
    BY <2>1 DEF Alive, Delivered
  <2>3. m \in Message /\ m.t = "snapshot" /\ m.cards = snap[cur]
    BY <1>0, Written
  <2> HIDE DEF m
  <2>4. In(chan'[cur]) = In(chan[cur]) \cup {m}
    BY <1>0, <2>1, <2>3, InAppend
  <2>5. OnWay(i)' = OnWay(i) \cup {m}
    BY <1>1, <2>1, <2>4 DEF OnWay
  <2>6. Carded(i)'
    BY <1>1, <2>1, <2>2, <2>3, <2>5 DEF Holds, Carded, Gives
  <2>7. \A c : Shown(i, c) => Shown(i, c)'
    BY <1>1, <2>1, <2>5 DEF Shown, Prints
  <2> QED BY <1>1, <2>1, <2>2, <2>6, <2>7 DEF Holds
<1>8. CASE k = cur /\ Replay(k)
  <2>1. PICK n \in Ids : /\ chan' = [chan EXCEPT ![k] = Append(@, Pty(n, rpl[k][n]))]
                         /\ rpl' = [rpl EXCEPT ![k][n] = << >>]
    BY <1>8 DEF Replay
  <2> DEFINE m == Pty(n, rpl[cur][n])
  <2>2. UNCHANGED <<srv, snap, buf, outbox, live, unknown>>
    BY <1>8 DEF Replay, session
  <2>3. Alive(i) /\ Holds(i)
    BY <2>2 DEF Alive, Delivered
  <2>4. m \in Message /\ m.t = "pty" /\ m.id = n /\ m.cs = rpl[cur][n]
    BY <1>0, Written
  <2>5. chan'[cur] = Append(chan[cur], m)
    BY <1>0, <1>8, <2>1
  <2>6. rpl'[cur] = [rpl[cur] EXCEPT ![n] = << >>]
    BY <1>0, <1>8, <2>1
  <2> HIDE DEF m
  <2>7. OnWay(i)' = OnWay(i) \cup {m}
    BY <1>0, <1>1, <2>2, <2>4, <2>5, InAppend DEF OnWay
  <2>8. Carded(i) => Carded(i)'
    BY <1>1, <2>2, <2>7 DEF Carded, Gives
  <2>9. ASSUME NEW c, Shown(i, c) PROVE Shown(i, c)'
    <3>1. CASE i = n /\ c \in In(rpl[cur][i])
      BY <2>4, <2>7, <3>1 DEF Shown, Prints
    <3>2. CASE i # n /\ c \in In(rpl[cur][i])
      <4>1. rpl'[cur][i] = rpl[cur][i]
        BY <1>0, <2>6, <3>2
      <4> QED BY <1>1, <3>2, <4>1 DEF Shown
    <3>3. CASE c \notin In(rpl[cur][i])
      BY <1>1, <2>7, <2>9, <3>3 DEF Shown, Prints
    <3> QED BY <3>1, <3>2, <3>3
  <2> QED BY <1>1, <2>2, <2>3, <2>8, <2>9 DEF Holds
<1>9. CASE k = cur /\ Serve(k)
  <2>1. /\ srv[cur] = "sent" /\ srv'[cur] = "ui"
        /\ UNCHANGED <<rpl, chan, snap, buf, outbox, live, unknown>>
    BY <1>0, <1>9 DEF Serve, session
  <2>2. Alive(i) /\ Holds(i)
    BY <2>1 DEF Alive, Delivered
  <2>3. OnWay(i)' = OnWay(i)
    BY <1>1, <2>1 DEF OnWay
  <2>4. Carded(i) => Carded(i)'
    BY <1>1, <2>1, <2>3 DEF Carded, Gives
  <2>5. \A c : Shown(i, c) => Shown(i, c)'
    BY <1>1, <2>1, <2>3 DEF Shown, Prints
  <2> QED BY <1>1, <2>1, <2>2, <2>4, <2>5 DEF Holds
<1>10. CASE k = cur /\ RemoveUI(k)
  <2>1. st[k] \in {"zombie", "closing", "closed"}
    BY <1>10, Zenon DEF RemoveUI
  <2> QED BY <1>10, <2>1
<1> QED BY <1>2, <1>4, <1>5, <1>6, <1>7, <1>8, <1>9, <1>10, Zenon DEF HubWork

(* Which message a handler handles. *)
LEMMA Heads ==
  /\ OnPty => Head(chan[cur]).t = "pty"
  /\ OnSnapshot => Head(chan[cur]).t = "snapshot"
  /\ OnUpdate => Head(chan[cur]).t = "update"
  /\ OnEnd => Head(chan[cur]).t = "end"
  /\ OnRemoved => Head(chan[cur]).t = "removed"
  BY Zenon DEF OnPty, OnSnapshot, OnUpdate, OnEnd, OnRemoved, Receive

(* The tab takes the head of its channel and shows what it says. *)
LEMMA MessageDelivers ==
  ASSUME TypeOK, FinalTab, Delivered, Messages, ~purged', NEW i \in Ids, Alive(i)'
  PROVE  Holds(i)'
<1> DEFINE m == Head(chan[cur])
<1>1. /\ st[cur] = "open" /\ chan[cur] # << >>
      /\ UNCHANGED <<cur, srv, snap, rpl, buf, outbox, live, unknown>>
  BY MessageSide DEF server, session
<1>2. PICK type : Receive(type)
  BY Zenon DEF Messages, OnPty, OnSnapshot, OnUpdate, OnEnd, OnRemoved
<1>3. m \in Message /\ m.t = type /\ In(chan[cur]) = {m} \cup In(chan'[cur])
  <2>1. SocketType
    BY DEF TypeOK
  <2> QED BY <1>2, <2>1, ReceiveShape
<1>4. ~purged
  <2>1. CASE OnSnapshot
    BY <2>1, Zenon DEF OnSnapshot
  <2>2. CASE OnPty \/ OnUpdate \/ OnEnd \/ OnRemoved
    <3>1. purged' = purged
      BY <2>2, Zenon DEF OnPty, OnUpdate, OnEnd, OnRemoved
    <3> QED BY <3>1
  <2> QED BY <2>1, <2>2 DEF Messages
<1>5. Alive(i) /\ Holds(i)
  BY <1>1, <1>4 DEF Alive, Delivered
<1>6. OnWay(i) = {m} \cup OnWay(i)'
  BY <1>1, <1>3 DEF OnWay
<1>7. Serves(cur) => (Takes(m) => Settled(m.id))
  BY <1>1, <1>3 DEF FinalTab
<1>8. Serves(cur) => ~(Takes(m) /\ m.id = i)
  BY <1>5, <1>7 DEF Settled, Alive
<1>9. CASE ~Serves(cur)
  BY <1>1, <1>9 DEF Serves, Holds
<1>10. CASE Serves(cur) /\ (OnPty \/ OnUpdate \/ OnEnd \/ OnRemoved)
  <2>1. Kept(i)
    <3>1. CASE OnPty \/ OnUpdate
      BY <3>1, PtyEffect, UpdateEffect
    <3>2. CASE OnEnd
      <4>1. m.t = "end"
        BY <3>2, Heads
      <4> QED BY <1>8, <1>10, <3>2, <4>1, EndEffect DEF Takes
    <3>3. CASE OnRemoved
      <4>1. m.t = "removed"
        BY <3>3, Heads
      <4> QED BY <1>8, <1>10, <3>3, <4>1, RemovedEffect DEF Takes
    <3> QED BY <1>10, <3>1, <3>2, <3>3
  <2>2. ~Gives(m, i) \/ cards'[i] # "none"
    <3>1. CASE OnUpdate
      <4>1. cards'[m.id] # "none"
        BY <3>1, UpdateEffect
      <4>2. m.t # "snapshot"
        BY <3>1, Heads
      <4>3. Gives(m, i) => m.id = i
        BY <4>2 DEF Gives
      <4> QED BY <4>1, <4>3
    <3>2. CASE OnPty \/ OnEnd \/ OnRemoved
      <4>1. m.t \notin {"update", "snapshot"}
        BY <3>2, Heads
      <4> QED BY <4>1 DEF Gives
    <3> QED BY <1>10, <3>1, <3>2
  <2>3. \A c : Prints(m, i, c) => c \in In(text'[i])
    <3>1. CASE OnPty
      BY <3>1, PtyEffect DEF Prints
    <3>2. CASE OnUpdate \/ OnEnd \/ OnRemoved
      <4>1. m.t # "pty"
        BY <3>2, Heads
      <4> QED BY <4>1 DEF Prints
    <3> QED BY <1>10, <3>1, <3>2
  <2> QED BY <1>1, <1>5, <1>6, <2>1, <2>2, <2>3, HeadShown
<1>11. CASE OnSnapshot
  <2>1. ~(inst # 0 /\ inst # m.h)
    BY <1>11 DEF OnSnapshot
  <2>2. Kept(i) /\ (m.cards[i] \in {"running", "disconnected"} => cards'[i] # "none")
    BY <1>11, <2>1, SnapshotEffect
  <2>3. m.t = "snapshot"
    BY <1>11, Heads
  <2>4. ~Gives(m, i) \/ cards'[i] # "none"
    BY <2>2, <2>3 DEF Gives
  <2>5. \A c : Prints(m, i, c) => c \in In(text'[i])
    BY <2>3 DEF Prints
  <2> QED BY <1>1, <1>5, <1>6, <2>2, <2>4, <2>5, HeadShown
<1> QED BY <1>9, <1>10, <1>11 DEF Messages

(* So whatever the step is, a session keeps what it has. *)
LEMMA DeliveredStep ==
  ASSUME TypeOK, Links, Replayed, FinalTab, Delivered, [Next]_vars
  PROVE  Delivered'
<1>0. cur \in Sockets /\ chan = [k \in Sockets |-> chan[k]] /\ st = [k \in Sockets |-> st[k]]
      /\ srv = [k \in Sockets |-> srv[k]]
  BY DEF TypeOK, SocketType
<1> SUFFICES ASSUME st'[cur'] = "open", ~purged', NEW i \in Ids, Alive(i)' PROVE Holds(i)'
  BY DEF Delivered
<1>1. ASSUME Hubs PROVE st[cur] = "open" /\ ~purged /\ cur' = cur /\ Kept(i)
  BY <1>1, HubSide DEF socket, page, Kept
<1>2. CASE \E j \in Ids : Begin(j) \/ Output(j) \/ Drop(j) \/ Complete(j) \/ Return(j)
  BY <1>1, <1>2, SessionDelivers DEF Hubs, HubStep
<1>3. CASE HubStops
  BY <1>0, <1>1, <1>3, Emptied DEF Hubs, HubStep, Holds
<1>4. CASE HubStarts
  <2>1. UNCHANGED <<srv, snap, rpl, chan, buf, outbox, live, unknown>>
    BY <1>4 DEF HubStarts, session
  <2>2. OnWay(i)' = OnWay(i)
    BY <1>1, <1>4, <2>1 DEF OnWay, Hubs
  <2>3. Alive(i)
    BY <2>1 DEF Alive
  <2> QED BY <1>1, <1>4, <2>1, <2>2, <2>3, HoldsOn DEF Delivered, Hubs
<1>5. CASE Broadcasts
  <2>1. /\ UNCHANGED <<srv, snap, rpl, buf, live, unknown>>
        /\ Hears(cur) => In(outbox[i]) \subseteq In(outbox'[i]) \cup In(chan'[cur])
        /\ In(chan[cur]) \subseteq In(chan'[cur])
    BY <1>5, Drained DEF server
  <2>2. Alive(i) /\ cur' = cur /\ st[cur] = "open" /\ ~purged /\ Kept(i)
    BY <1>1, <1>5, <2>1 DEF Alive, Hubs
  <2>3. CASE Connected(cur)
    <3>1. OnWay(i) \subseteq OnWay(i)'
      BY <2>1, <2>2, <2>3 DEF OnWay, Hears
    <3> QED BY <2>1, <2>2, <3>1, HoldsOn DEF Delivered
  <2>4. CASE ~Connected(cur)
    BY <2>1, <2>2, <2>4 DEF Connected, Holds
  <2> QED BY <2>3, <2>4
<1>6. ASSUME NEW k \in Sockets, HubWork(k) PROVE Holds(i)'
  BY <1>1, <1>6, WorkDelivers DEF Hubs
<1>7. CASE Replaces
  <2>1. st'[cur'] = "connecting"
    BY <1>0, <1>7, ReplaceShape
  <2> QED BY <2>1
<1>8. CASE Open
  <2>1. srv'[cur'] = "register"
    BY <1>0, <1>8, OpenedShape
  <2> QED BY <2>1 DEF Holds
<1>9. CASE Closes
  <2>1. PICK k \in Sockets, s \in {"new", "closed"} :
           /\ st' = [st EXCEPT ![k] = s] /\ chan' = [chan EXCEPT ![k] = << >>]
           /\ k = cur \/ cards' = cards
           /\ UNCHANGED <<cur, srv, snap, rpl, buf, outbox, live, unknown, text, purged>>
    BY <1>9, CloseShape DEF server, session
  <2>2. k # cur /\ st[cur] = "open" /\ chan'[cur] = chan[cur]
    BY <1>0, <2>1
  <2>3. Alive(i) /\ Kept(i) /\ OnWay(i)' = OnWay(i) /\ ~purged
    BY <2>1, <2>2 DEF Alive, Kept, OnWay
  <2> QED BY <2>1, <2>2, <2>3, HoldsOn DEF Delivered
<1>10. CASE Watchdog \/ Cut
  <2>1. /\ \E s \in {"zombie", "closing"} : st' = [st EXCEPT ![cur] = s]
        /\ cur' = cur
    BY <1>10 DEF Watchdog, Cut
  <2> QED BY <1>0, <2>1
<1>11. CASE Messages
  BY <1>11, MessageDelivers
<1>12. CASE Elsewhere \/ (\E j \in Ids : Activate(j)) \/ UNCHANGED vars
  <2>1. UNCHANGED <<st, cur, chan, srv, snap, rpl, buf, outbox, live, unknown, purged>>
    <3>1. (\E j \in Ids : Activate(j)) =>
            UNCHANGED <<st, cur, chan, srv, snap, rpl, buf, outbox, live, unknown, purged>>
      BY Zenon DEF Activate, socket, server, session
    <3> QED BY <1>12, <3>1, ElsewhereSide DEF vars, socket, server, session
  <2>2. Kept(i)
    BY <1>12, ElsewhereSide, ActivateEffect DEF vars, page, Kept
  <2>3. Alive(i) /\ OnWay(i)' = OnWay(i) /\ st[cur] = "open" /\ ~purged
    BY <2>1 DEF Alive, OnWay
  <2> QED BY <2>1, <2>2, <2>3, HoldsOn DEF Delivered
<1> QED BY <1>2, <1>3, <1>4, <1>5, <1>6, <1>7, <1>8, <1>9, <1>10, <1>11, <1>12, Steps
        DEF Hubs, HubStep

(* All of it at once. *)
WholeInv == OwnInv /\ FinalQueues /\ FinalTab /\ Replayed /\ Delivered

(* It holds at the start, *)
LEMMA WholeInit == Init => WholeInv
<1> SUFFICES ASSUME Init PROVE WholeInv
  OBVIOUS
<1>1. /\ cur = 1 /\ live = NoSession /\ removing = << >>
      /\ buf = NoText /\ outbox = NoText /\ ending = NoText
      /\ srv = [k \in Sockets |-> "none"]
      /\ st = [k \in Sockets |-> IF k = 1 THEN "connecting" ELSE "new"]
  BY DEF Init
<1>2. /\ \A i \in Ids : buf[i] = << >> /\ outbox[i] = << >> /\ ending[i] = << >>
      /\ st[cur] = "connecting" /\ \A k \in Sockets : srv[k] = "none"
  BY <1>1, Blank, Numbers
<1>3. FinalQueues
  BY <1>1, <1>2, InShort DEF FinalQueues
<1>4. FinalTab /\ Replayed /\ Delivered
  BY <1>2, InShort DEF FinalTab, Replayed, Delivered
<1> QED BY <1>3, <1>4, OwnInit DEF WholeInv

(* and every step keeps it. *)
LEMMA WholeStep == WholeInv /\ [Next]_vars => WholeInv'
<1> SUFFICES ASSUME WholeInv, [Next]_vars PROVE WholeInv'
  OBVIOUS
<1>1. OwnInv'
  BY OwnStep DEF WholeInv
<1>2. TypeOK /\ Links /\ FinalQueues /\ FinalTab /\ Replayed /\ Delivered
  BY DEF WholeInv, OwnInv
<1> QED BY <1>1, <1>2, FinalQueuesStep, FinalTabStep, ReplayedStep, DeliveredStep DEF WholeInv

(* NothingMissing: when everything has been delivered, a tab that did not
   purge on this connection has a card for every session of the Hub and shows
   every chunk the Hub would replay, but for numbers whose dismissal the Hub
   answered before it gave them out (server.go 1486-1489). *)
THEOREM NothingMissed == Spec => []NothingMissing
<1>1. WholeInv => NothingMissing
  <2> SUFFICES ASSUME WholeInv, Quiet, ~purged, NEW i \in Ids \ unknown,
                      live[i] \in {"running", "disconnected"}
               PROVE  /\ cards[i] # "none"
                      /\ \A n \in DOMAIN buf[i] :
                           \E x \in DOMAIN text[i] : text[i][x] = buf[i][n]
    BY Zenon DEF NothingMissing
  <2>1. /\ st[cur] = "open" /\ srv[cur] = "ui" /\ chan[cur] = << >> /\ outbox[i] = << >>
    BY DEF Quiet, Synced
  <2>2. cur \in Sockets /\ rpl[cur] = NoText
    BY <2>1 DEF WholeInv, OwnInv, TypeOK, SocketType, Replayed
  <2>3. OnWay(i) = {} /\ In(rpl[cur][i]) = {}
    BY <2>1, <2>2, Blank, InShort DEF OnWay
  <2>4. Holds(i)
    BY <2>1 DEF WholeInv, Delivered, Alive
  <2>5. Carded(i) /\ \A c \in In(buf[i]) : Shown(i, c)
    BY <2>1, <2>4 DEF Holds
  <2>6. cards[i] # "none"
    BY <2>1, <2>3, <2>5 DEF Carded
  <2>7. \A c \in In(buf[i]) : c \in In(text[i])
    BY <2>3, <2>5 DEF Shown
  <2>8. /\ \A n \in DOMAIN buf[i] : buf[i][n] \in In(buf[i])
        /\ \A c \in In(text[i]) : \E x \in DOMAIN text[i] : text[i][x] = c
    BY DEF In
  <2> QED BY <2>6, <2>7, <2>8
<1> QED BY <1>1, WholeInit, WholeStep, PTL DEF Spec

=============================================================================

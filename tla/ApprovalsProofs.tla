--------------------------- MODULE ApprovalsProofs ---------------------------
(***************************************************************************)
(* Proofs about Approvals, for any sessions, any prompts of any kind and   *)
(* any number of events: what is kept of the prompts agrees, and the       *)
(* automatic switch leaves a session that waits on the screen.             *)
(*                                                                         *)
(* A handler is a function of the record w, made of up to a dozen others.  *)
(* Good(c, w) is what every one of them keeps: w is sound, and the session *)
(* in front when the handler began, c.from, is still in front or has       *)
(* stopped waiting.  The second part makes the switch safe inside helpers  *)
(* that change whether a session waits after it may have happened.         *)
(* There is a lemma for each helper, one for each handler that takes it    *)
(* from one state to the next, and the theorems put them together.         *)
(***************************************************************************)
EXTENDS Approvals, TLAPS, WellFoundedInduction

Fields ==
  {"tail", "cache", "go", "src", "visible", "consumed", "sigTimer", "answered", "supp",
   "rescan", "check", "recheck", "confirm", "trusted", "h9", "h9Timer", "bg", "bgTimer",
   "cand", "ripe", "mq", "mqOff", "latch", "seq", "hid", "sel", "multi", "attached", "dead"}

(* What is kept of a session: the source kept is that of the prompt in the  *)
(* cache.  It is none, or the one the Hub gave last.                        *)
Kept(x, given) ==
  /\ DOMAIN x = Fields /\ x.visible \in BOOLEAN
  /\ x.src # NoSource => x.src.sig = x.cache
  /\ x.src \in {NoSource, given}

(* y keeps what x does, and is waiting when x is.                           *)
Like(x, y, g) == Kept(y, g) /\ y.visible = x.visible

(* What two steps keep in turn, they keep together.                         *)
LEMMA LikeAlong ==
  ASSUME NEW x, NEW y, NEW z, NEW g, Like(x, y, g), Like(y, z, g)
  PROVE  Like(x, z, g)
  BY DEF Like

(* Dropping an unconfirmed sighting leaves the cache and its source.        *)
LEMMA CancelConfirmLike ==
  ASSUME NEW x, NEW g, Kept(x, g)
  PROVE  Like(x, CancelApprovalHintConfirm(x), g) /\ CancelApprovalHintConfirm(x).cache = x.cache
         /\ CancelApprovalHintConfirm(x).src = x.src
  BY DEF CancelApprovalHintConfirm, Like, Kept, Fields

(* So does counting the misses from the start again.                        *)
LEMMA ResetBgLike ==
  ASSUME NEW x, NEW g, Kept(x, g)
  PROVE  Like(x, ResetBgApprovalMisses(x), g) /\ ResetBgApprovalMisses(x).cache = x.cache
         /\ ResetBgApprovalMisses(x).src = x.src
  BY DEF ResetBgApprovalMisses, Like, Kept, Fields

(* So does the end of the time in which an answered prompt is ignored.      *)
LEMMA ForgetConsumedLike ==
  ASSUME NEW x, NEW g, Kept(x, g)
  PROVE  Like(x, ForgetConsumed(x), g) /\ ForgetConsumed(x).cache = x.cache
         /\ ForgetConsumed(x).src = x.src
  BY DEF ForgetConsumed, Like, Kept, Fields

(* So does the end of the looks at a bar restored from the cache.           *)
LEMMA CancelH9Like ==
  ASSUME NEW x, NEW g, Kept(x, g)
  PROVE  Like(x, CancelH9(x), g) /\ CancelH9(x).cache = x.cache /\ CancelH9(x).src = x.src
  BY DEF CancelH9, Like, Kept, Fields

(* So does the first of two questions.                                      *)
LEMMA SequentialLike ==
  ASSUME NEW x, NEW g, Kept(x, g)
  PROVE  Like(x, Sequential(x), g)
  BY DEF Sequential, Like, Kept, Fields

(* An empty cache has no source.                                            *)
LEMMA ClearLike ==
  ASSUME NEW x, NEW g, Kept(x, g)
  PROVE  Like(x, ClearApprovalOptions(x), g)
  BY DEF ClearApprovalOptions, Like, Kept, Fields

(* A prompt the tab found itself has no source.                             *)
LEMMA CacheFoundLike ==
  ASSUME NEW x, NEW g, Kept(x, g), NEW p
  PROVE  /\ Like(x, CacheApprovalOptions(x, p, FALSE), g)
         /\ CacheApprovalOptions(x, p, FALSE).src = NoSource
  BY DEF CacheApprovalOptions, Like, Kept, Fields

(* One the Hub made the options of keeps its source, if it was of that      *)
(* prompt.                                                                  *)
LEMMA CacheToldLike ==
  ASSUME NEW x, NEW g, Kept(x, g), NEW p, NEW go, x.src = NoSource \/ x.src.sig = p
  PROVE  Like(x, CacheApprovalOptions(x, p, go), g)
  BY DEF CacheApprovalOptions, Like, Kept, Fields

(* A sighting waits for its confirmation: the record is kept.               *)
LEMMA ScheduleLike ==
  ASSUME NEW x, NEW g, Kept(x, g), NEW p
  PROVE  Like(x, ScheduleApprovalHintConfirm(x, p), g)
<1> DEFINE y == CancelApprovalHintConfirm(ResetBgApprovalMisses(x))
<1>1. Like(x, y, g)
  BY ResetBgLike, CancelConfirmLike, LikeAlong DEF Like
<1> HIDE DEF y
<1>2. Like(y, [y EXCEPT !.confirm = p], g)
  BY <1>1 DEF Like, Kept, Fields
<1> QED BY <1>1, <1>2, LikeAlong DEF ScheduleApprovalHintConfirm, y

(* What hideActionBar stops: the confirmation and the counts of misses.     *)
LEMMA QuietLike ==
  ASSUME NEW x, NEW g, Kept(x, g)
  PROVE  Like(x, CancelH9(ResetBgApprovalMisses(CancelApprovalHintConfirm(x))), g)
<1> DEFINE y == CancelApprovalHintConfirm(x)
           z == ResetBgApprovalMisses(y)
<1>1. Like(x, y, g) /\ Kept(y, g)
  BY CancelConfirmLike DEF Like
<1> HIDE DEF y
<1>2. Like(x, z, g) /\ Kept(z, g)
  BY <1>1, ResetBgLike, LikeAlong DEF Like
<1> HIDE DEF z
<1>3. Like(x, CancelH9(z), g)
  BY <1>2, CancelH9Like, LikeAlong
<1> QED BY <1>3 DEF z, y

-----------------------------------------------------------------------------
(* The queue.                                                               *)
Once(q) == \A m, n \in DOMAIN q : q[m] = q[n] => m = n

(* A set of numbers has a least one (the first good place in the queue).    *)
LEMMA MinIsIn ==
  ASSUME NEW I \in SUBSET Nat, I # {}
  PROVE  Min(I) \in I /\ \A k \in I : Min(I) <= k
<1> DEFINE R == {ss \in Nat \X Nat : ss[1] < ss[2]}
<1>1. OpToRel(<, Nat) = R
  BY DEF OpToRel
<1>2. IsWellFoundedOn(R, Nat)
  BY <1>1, NatLessThanWellFounded
<1>3. \A k, m \in Nat : <<k, m>> \in R <=> k < m
  OBVIOUS
<1> HIDE DEF R
<1>4. \E m \in I : \A k \in I : ~ (<<k, m>> \in R)
  BY <1>2, WFMin
<1>5. \E m \in I : \A k \in I : m <= k
  <2>1. PICK m \in I : \A k \in I : ~ (<<k, m>> \in R)
    BY <1>4
  <2>2. ASSUME NEW k \in I PROVE m <= k
    <3>1. k \in Nat /\ m \in Nat
      OBVIOUS
    <3>2. ~ (k < m)
      BY <1>3, <2>1, <3>1
    <3> QED BY <3>1, <3>2
  <2> QED BY <2>2
<1> QED BY <1>5 DEF Min

(* A session taken out of a queue that had it once is gone from it.         *)
LEMMA RemovedIsGone ==
  ASSUME NEW T, NEW q \in Seq(T), NEW e, Once(q)
  PROVE  LET r == RemoveFirst(q, e) IN
         /\ r \in Seq(T) /\ Once(r)
         /\ \A n \in DOMAIN r : r[n] # e /\ \E m \in DOMAIN q : r[n] = q[m]
<1>1. CASE ~ \E i \in 1 .. Len(q) : q[i] = e
  BY <1>1 DEF RemoveFirst, Once
<1>2. CASE \E i \in 1 .. Len(q) : q[i] = e
  <2> DEFINE I == {i \in 1 .. Len(q) : q[i] = e}
  <2>1. I \in SUBSET Nat /\ I # {}
    BY <1>2
  <2>2. SelectInSeq(q, LAMBDA v : v = e) = Min(I)
    BY <2>1 DEF SelectInSeq
  <2>3. Min(I) \in I
    BY <2>1, MinIsIn
  <2> DEFINE k == Min(I)
             a == SubSeq(q, 1, k - 1)
             b == SubSeq(q, k + 1, Len(q))
             r == a \o b
  <2>4. k \in 1 .. Len(q) /\ q[k] = e
    BY <2>3
  <2>5. RemoveFirst(q, e) = r
    BY <1>2, <2>2 DEF RemoveFirst, RemoveAt
  <2>13. k \in 1 .. Len(q) /\ k \in Nat /\ Len(q) \in Nat
    BY <2>4
  <2> HIDE DEF k
  <2>6. a \in Seq(T) /\ Len(a) = k - 1 /\ \A n \in 1 .. k - 1 : a[n] = q[n]
    BY <2>4
  <2>7. b \in Seq(T) /\ Len(b) = Len(q) - k /\ \A n \in 1 .. Len(q) - k : b[n] = q[k + n]
    BY <2>4
  <2> HIDE DEF a, b
  <2>8. r \in Seq(T) /\ Len(r) = Len(q) - 1
    <3>1. r \in Seq(T) /\ Len(r) = Len(a) + Len(b)
      BY <2>6, <2>7
    <3>2. (k - 1) + (Len(q) - k) = Len(q) - 1
      BY <2>13
    <3> HIDE DEF r
    <3> QED BY <2>6, <2>7, <3>1, <3>2
  <2>9. ASSUME NEW n \in 1 .. Len(q) - 1
        PROVE  r[n] = IF n < k THEN q[n] ELSE q[n + 1]
    <3>1. CASE n < k
      BY <2>4, <2>6, <2>7, <3>1
    <3>2. CASE n >= k
      <4> DEFINE j == n - (k - 1)
      <4>1. r[n] = b[j] /\ j \in 1 .. Len(q) - k
        BY <2>4, <2>6, <2>7, <3>2
      <4>2. k + j = n + 1 /\ ~ (n < k)
        BY <2>13, <3>2
      <4> HIDE DEF j
      <4> QED BY <2>7, <4>1, <4>2
    <3>3. n < k \/ n >= k
      BY <2>13
    <3> QED BY <3>1, <3>2, <3>3
  <2> HIDE DEF r
  <2>10. DOMAIN r = 1 .. Len(q) - 1 /\ DOMAIN q = 1 .. Len(q) /\ Len(q) \in Nat
    BY <2>8
  <2>11. Once(r)
    BY <2>4, <2>9, <2>10 DEF Once
  <2>12. \A n \in DOMAIN r : r[n] # e /\ \E m \in DOMAIN q : r[n] = q[m]
    <3>1. TAKE n \in DOMAIN r
    <3>2. n \in DOMAIN q /\ n + 1 \in DOMAIN q
      BY <2>10
    <3>3. n # k => q[n] # e
      BY <2>4, <2>10, <3>2 DEF Once
    <3>4. n + 1 # k => q[n + 1] # e
      BY <2>4, <2>10, <3>2 DEF Once
    <3> QED BY <2>4, <2>9, <2>10, <3>2, <3>3, <3>4
  <2> QED BY <2>5, <2>8, <2>11, <2>12
<1> QED BY <1>1, <1>2

-----------------------------------------------------------------------------
(* The page, between two calls of one handler.                              *)
PageFields == {"s", "active", "bar", "queue", "sessions", "typed", "left"}

Sound(w, c) ==
  /\ DOMAIN w = PageFields /\ DOMAIN w.s = Ids
  /\ \A j \in Ids : Kept(w.s[j], c.given[j])
  /\ w.active \in w.sessions \cup {0} /\ w.sessions \subseteq Ids /\ w.sessions \subseteq c.known
  /\ w.queue \in Seq(Ids) /\ Once(w.queue)
  /\ \A n \in DOMAIN w.queue : w.queue[n] \in c.known /\ w.s[w.queue[n]].visible = TRUE

(* The session that was in front when the handler began is still there, or  *)
(* waits for nothing.                                                       *)
Away(from, w) == from # 0 => w.active = from \/ w.s[from].visible = FALSE

(* What all calls of the handler keep.  c is the start of the handler, with  *)
(* the sessions that may be queued.                                         *)
Good(c, w) ==
  /\ c.from \in Ids \cup {0}
  /\ Sound(w, c) /\ w.sessions = c.sessions /\ Away(c.from, w)

(* Only the sessions, the one in front and the queue matter.                *)
LEMMA SameGood ==
  ASSUME NEW c, NEW w, Good(c, w), NEW v, DOMAIN v = PageFields, v.s = w.s,
         v.active = w.active, v.queue = w.queue, v.sessions = w.sessions
  PROVE  Good(c, v)
  BY DEF Good, Sound, Away

Stays(c, w, v) == Good(c, v) /\ v.active = w.active

(* Two calls that leave the session in front, one after the other.          *)
LEMMA StaysAlong ==
  ASSUME NEW c, NEW w, NEW v, NEW u, Stays(c, w, v), Stays(c, v, u)
  PROVE  Stays(c, w, u)
  BY DEF Stays

Put(w, i, y) == [w EXCEPT !.s[i] = y]

(* The fields of the record of a handler.                                   *)
LEMMA ShapeOf ==
  ASSUME NEW c, NEW w, Good(c, w)
  PROVE  DOMAIN w = PageFields /\ DOMAIN w.s = Ids
  BY DEF Good, Sound

(* A new record for one session, waiting when the old one was.              *)
LEMMA PutStays ==
  ASSUME NEW c, NEW w, Good(c, w), NEW i \in Ids, NEW y, Like(w.s[i], y, c.given[i])
  PROVE  Stays(c, w, Put(w, i, y)) /\ Put(w, i, y).s[i] = y
<1> DEFINE v == Put(w, i, y)
<1>0. DOMAIN w = PageFields /\ DOMAIN w.s = Ids
  BY DEF Good, Sound
<1>1. /\ DOMAIN v = PageFields /\ v.s = [w.s EXCEPT ![i] = y] /\ v.active = w.active
      /\ v.queue = w.queue /\ v.sessions = w.sessions
  BY <1>0 DEF PageFields, Put
<1>2. DOMAIN v.s = Ids /\ v.s[i] = y /\ \A j \in Ids \ {i} : v.s[j] = w.s[j]
  BY <1>0, <1>1
<1> HIDE DEF v
<1>3. \A j \in Ids : v.s[j].visible = w.s[j].visible
  BY <1>2 DEF Like
<1>4. \A j \in Ids : Kept(v.s[j], c.given[j])
  BY <1>2 DEF Like, Good, Sound
<1>5. \A n \in DOMAIN w.queue : w.queue[n] \in Ids
  BY DEF Good, Sound
<1>6. Sound(v, c) /\ Away(c.from, v)
  BY <1>1, <1>2, <1>3, <1>4, <1>5 DEF Good, Sound, Away
<1> QED BY <1>1, <1>2, <1>6 DEF Good, Stays, v

(* The record of one session is sound.                                      *)
LEMMA KeptOf ==
  ASSUME NEW c, NEW w, Good(c, w), NEW i \in Ids
  PROVE  Kept(w.s[i], c.given[i]) /\ w.s[i].visible \in BOOLEAN
  BY DEF Good, Sound, Kept

(* Whatever the bar shows.                                                  *)
LEMMA BarStays ==
  ASSUME NEW c, NEW w, Good(c, w), NEW b
  PROVE  Stays(c, w, [w EXCEPT !.bar = b])
<1> DEFINE v == [w EXCEPT !.bar = b]
<1>0. DOMAIN w = PageFields
  BY ShapeOf
<1>1. DOMAIN v = PageFields /\ v.s = w.s /\ v.active = w.active /\ v.queue = w.queue
      /\ v.sessions = w.sessions
  BY <1>0 DEF PageFields
<1> HIDE DEF v
<1> QED BY <1>1, SameGood DEF Stays, v

(* showActionBar only changes the bar and the prompt that is hidden.        *)
LEMMA ShowActionBarStays ==
  ASSUME NEW c, NEW w, Good(c, w), NEW i \in Ids, NEW p
  PROVE  Stays(c, w, ShowActionBar(w, i, p))
<1> DEFINE y == [w.s[i] EXCEPT !.hid = None]
           v == Put(w, i, y)
           u == [v EXCEPT !.bar = [of |-> i, p |-> p]]
<1>1. Like(w.s[i], y, c.given[i])
  BY KeptOf DEF Like, Kept, Fields
<1>2. v = [w EXCEPT !.s[i].hid = None]
  BY DEF Put
<1> HIDE DEF y
<1>3. Stays(c, w, v)
  BY <1>1, PutStays
<1> HIDE DEF v
<1>4. Stays(c, v, u)
  BY <1>3, BarStays DEF Stays
<1>5. ShowActionBar(w, i, p) \in {w, u}
  BY <1>2 DEF ShowActionBar, ShowBatchActionBar
<1> HIDE DEF u
<1> QED BY <1>3, <1>4, <1>5, StaysAlong DEF Stays

(* The options go to the cache and to the bar.                              *)
LEMMA ShowOptionsStays ==
  ASSUME NEW c, NEW w, Good(c, w), NEW i \in Ids, NEW p, NEW go,
         Like(w.s[i], CacheApprovalOptions(w.s[i], p, go), c.given[i])
  PROVE  Stays(c, w, ShowOptions(w, i, p, go))
<1> DEFINE v == Put(w, i, CacheApprovalOptions(w.s[i], p, go))
<1>1. Stays(c, w, v)
  BY PutStays
<1>2. ShowOptions(w, i, p, go) = ShowActionBar(v, i, p)
  BY DEF ShowOptions, Put
<1> HIDE DEF v
<1>3. Stays(c, v, ShowActionBar(v, i, p))
  BY <1>1, ShowActionBarStays DEF Stays
<1> QED BY <1>1, <1>2, <1>3, StaysAlong

(* A prompt that the tab found itself.                                      *)
LEMMA ShowFoundStays ==
  ASSUME NEW c, NEW w, Good(c, w), NEW i \in Ids, NEW p
  PROVE  Stays(c, w, ShowOptions(w, i, p, FALSE))
<1>1. Like(w.s[i], CacheApprovalOptions(w.s[i], p, FALSE), c.given[i])
  BY KeptOf, CacheFoundLike
<1> QED BY <1>1, ShowOptionsStays

(* One the Hub told of, which is the one its source names.                  *)
LEMMA ShowToldStays ==
  ASSUME NEW c, NEW w, Good(c, w), NEW i \in Ids, NEW p, NEW go,
         w.s[i].src = NoSource \/ w.s[i].src.sig = p
  PROVE  Stays(c, w, ShowOptions(w, i, p, go))
<1>1. Like(w.s[i], CacheApprovalOptions(w.s[i], p, go), c.given[i])
  BY KeptOf, CacheToldLike
<1> QED BY <1>1, ShowOptionsStays

(* A session may begin to wait only as the one in front, or before the      *)
(* handler has gone anywhere else; when it stops, it leaves the queue.      *)
Marks(c, w, i, y, u) ==
  /\ Kept(y, c.given[i])
  /\ DOMAIN u = PageFields /\ u.s = [w.s EXCEPT ![i] = y]
  /\ u.active = w.active /\ u.sessions = w.sessions
  /\ u.queue \in Seq(Ids) /\ Once(u.queue)
  /\ \A n \in DOMAIN u.queue :
        /\ \E m \in DOMAIN w.queue : u.queue[n] = w.queue[m]
        /\ u.queue[n] # i \/ y.visible = TRUE
  /\ y.visible = FALSE \/ w.active = i \/ w.active = c.from

(* A session that begins or stops to wait.                                  *)
LEMMA MarksGood ==
  ASSUME NEW c, NEW w, Good(c, w), NEW i \in Ids, NEW y, NEW u, Marks(c, w, i, y, u)
  PROVE  Good(c, u)
<1>1. DOMAIN u.s = Ids /\ u.s[i] = y /\ \A j \in Ids \ {i} : u.s[j] = w.s[j]
  BY DEF Good, Sound, Marks
<1>2. \A j \in Ids : Kept(u.s[j], c.given[j])
  BY <1>1 DEF Good, Sound, Marks
<1>3. ASSUME NEW n \in DOMAIN u.queue
      PROVE  u.queue[n] \in c.known /\ u.s[u.queue[n]].visible = TRUE
  <2>1. \A m \in DOMAIN w.queue :
          w.queue[m] \in Ids /\ w.queue[m] \in c.known /\ w.s[w.queue[m]].visible = TRUE
    BY DEF Good, Sound
  <2> QED BY <1>1, <2>1 DEF Marks
<1>4. Away(c.from, u)
  BY <1>1 DEF Good, Away, Marks
<1> QED BY <1>2, <1>3, <1>4, <1>1 DEF Good, Sound, Marks

(* setApprovalVisible(true), the automatic switch apart.                    *)
LEMMA ShownGood ==
  ASSUME NEW c, NEW w, Good(c, w), NEW i \in Ids, w.active = i \/ w.active = c.from
  PROVE  /\ Stays(c, w, Shown(w, i, TRUE))
         /\ Shown(w, i, TRUE).s[i].visible = TRUE
<1> DEFINE y == [w.s[i] EXCEPT !.visible = TRUE]
           u == Shown(w, i, TRUE)
<1>0. DOMAIN w = PageFields
  BY ShapeOf
<1>1. /\ DOMAIN u = PageFields /\ u.s = [w.s EXCEPT ![i] = y] /\ u.active = w.active
      /\ u.queue = w.queue /\ u.sessions = w.sessions
  <2>1. u = [w EXCEPT !.s[i].visible = TRUE, !.queue = w.queue]
    BY DEF Shown
  <2> HIDE DEF u
  <2> QED BY <1>0, <2>1 DEF PageFields
<1>2. Kept(y, c.given[i]) /\ y.visible = TRUE
  BY KeptOf DEF Kept, Fields
<1>3. DOMAIN w.s = Ids /\ w.queue \in Seq(Ids) /\ Once(w.queue)
  BY DEF Good, Sound
<1> HIDE DEF y, u
<1>5. u.queue \in Seq(Ids) /\ Once(u.queue)
  BY <1>1, <1>3
<1>6. \A n \in DOMAIN u.queue :
         /\ \E m \in DOMAIN w.queue : u.queue[n] = w.queue[m]
         /\ u.queue[n] # i \/ y.visible = TRUE
  BY <1>1, <1>2
<1>4. Good(c, u)
  <2>1. Marks(c, w, i, y, u)
    BY <1>1, <1>2, <1>5, <1>6 DEF Marks
  <2> QED BY <2>1, MarksGood
<1> QED BY <1>1, <1>2, <1>3, <1>4 DEF u, Stays

(* setApprovalVisible(false): the session leaves the queue.                 *)
LEMMA UnshownGood ==
  ASSUME NEW c, NEW w, Good(c, w), NEW i \in Ids
  PROVE  /\ Stays(c, w, Shown(w, i, FALSE))
         /\ \A n \in DOMAIN Shown(w, i, FALSE).queue : Shown(w, i, FALSE).queue[n] # i
         /\ Shown(w, i, FALSE).s[i].visible = FALSE
<1> DEFINE y == [w.s[i] EXCEPT !.visible = FALSE]
           u == Shown(w, i, FALSE)
           r == RemoveFirst(w.queue, i)
<1>0. DOMAIN w = PageFields
  BY ShapeOf
<1>1. /\ DOMAIN u = PageFields /\ u.s = [w.s EXCEPT ![i] = y] /\ u.active = w.active
      /\ u.queue = r /\ u.sessions = w.sessions
  <2>1. u = [w EXCEPT !.s[i].visible = FALSE, !.queue = r]
    BY DEF Shown
  <2> HIDE DEF u
  <2> QED BY <1>0, <2>1 DEF PageFields
<1>2. Kept(y, c.given[i]) /\ y.visible = FALSE
  BY KeptOf DEF Kept, Fields
<1>3. DOMAIN w.s = Ids /\ w.queue \in Seq(Ids) /\ Once(w.queue)
  BY DEF Good, Sound
<1>4. /\ r \in Seq(Ids) /\ Once(r)
      /\ \A n \in DOMAIN r : r[n] # i /\ \E m \in DOMAIN w.queue : r[n] = w.queue[m]
  BY <1>3, RemovedIsGone
<1> HIDE DEF y, u, r
<1>6. u.queue \in Seq(Ids) /\ Once(u.queue)
  BY <1>1, <1>4
<1>7. \A n \in DOMAIN u.queue :
         /\ \E m \in DOMAIN w.queue : u.queue[n] = w.queue[m]
         /\ u.queue[n] # i \/ y.visible = TRUE
  BY <1>1, <1>4
<1>5. Good(c, u)
  <2>1. Marks(c, w, i, y, u)
    BY <1>1, <1>2, <1>6, <1>7 DEF Marks
  <2> QED BY <2>1, MarksGood
<1> QED BY <1>1, <1>2, <1>3, <1>4, <1>5 DEF u, Stays

(* hideActionBar up to the automatic switch: cache and source go together.  *)
LEMMA HideBarStays ==
  ASSUME NEW c, NEW w, Good(c, w), NEW i \in Ids
  PROVE  Stays(c, w, HideBar(w, i))
<1> DEFINE z == CancelH9(ResetBgApprovalMisses(CancelApprovalHintConfirm(w.s[i])))
           x == [z EXCEPT !.hid = None, !.cand = None, !.ripe = FALSE, !.seq = 0,
                          !.sel = None, !.multi = None, !.sigTimer = TRUE]
           v == Put(w, i, x)
           hidden == [v EXCEPT !.bar = NoBar]
           g == c.given[i]
<1>1. Like(w.s[i], z, g)
  BY KeptOf, QuietLike
<1> HIDE DEF z
<1>2. Kept(z, g)
  BY <1>1 DEF Like
<1>3. Like(w.s[i], x, g)
  <2>1. DOMAIN z = Fields
    BY <1>2 DEF Kept
  <2>2. DOMAIN x = Fields /\ x.src = z.src /\ x.cache = z.cache /\ x.visible = z.visible
    BY <2>1 DEF Fields
  <2> HIDE DEF x
  <2> QED BY <1>1, <1>2, <2>2 DEF Like, Kept
<1> HIDE DEF x
<1>4. Stays(c, w, v)
  BY <1>3, PutStays
<1>5. [w EXCEPT !.bar = NoBar, !.s[i] = x] = hidden
  BY ShapeOf DEF PageFields, Put
<1> HIDE DEF v
<1>6. Stays(c, v, hidden)
  BY <1>4, BarStays DEF Stays
<1> HIDE DEF hidden
<1>7. Stays(c, w, hidden)
  BY <1>4, <1>6, StaysAlong
<1> DEFINE u == Shown(hidden, i, FALSE)
           n == [ClearApprovalOptions(u.s[i]) EXCEPT !.tail = None]
<1>8. Stays(c, hidden, u)
  BY <1>7, UnshownGood DEF Stays
<1> HIDE DEF u
<1>9. Like(u.s[i], n, g)
  <2> DEFINE k == ClearApprovalOptions(u.s[i])
  <2>1. Like(u.s[i], k, g)
    BY <1>8, KeptOf, ClearLike DEF Stays
  <2> HIDE DEF k
  <2>2. Like(k, [k EXCEPT !.tail = None], g)
    BY <2>1 DEF Like, Kept, Fields
  <2>3. Like(u.s[i], [k EXCEPT !.tail = None], g)
    BY <2>1, <2>2, LikeAlong
  <2> QED BY <2>3 DEF k
<1>10. [u EXCEPT !.s[i] = [ClearApprovalOptions(@) EXCEPT !.tail = None]] = Put(u, i, n)
  BY DEF Put
<1> HIDE DEF n
<1>11. Stays(c, u, Put(u, i, n))
  BY <1>8, <1>9, PutStays DEF Stays
<1>12. HideBar(w, i) \in {hidden, Put(u, i, n)}
  BY <1>5, <1>10 DEF HideBar, x, z, u
<1> QED BY <1>7, <1>8, <1>11, <1>12, StaysAlong

-----------------------------------------------------------------------------
(* The session in front is looked at.                                       *)
LEMMA LeftStays ==
  ASSUME NEW c, NEW w, Good(c, w), NEW b
  PROVE  Stays(c, w, [w EXCEPT !.left = b])
<1> DEFINE v == [w EXCEPT !.left = b]
<1>0. DOMAIN w = PageFields
  BY ShapeOf
<1>1. DOMAIN v = PageFields /\ v.s = w.s /\ v.active = w.active /\ v.queue = w.queue
      /\ v.sessions = w.sessions
  BY <1>0 DEF PageFields
<1> HIDE DEF v
<1> QED BY <1>1, SameGood DEF Stays, v

(* A bar closed from the session in front.                                  *)
LEMMA CloseStays ==
  ASSUME NEW c, NEW w, Good(c, w), NEW i \in Ids
  PROVE  Stays(c, w, Close(w, i))
  BY HideBarStays, LeftStays, StaysAlong DEF Close, Stays

Seen(w, i) == Shown([w EXCEPT !.s[i] = CancelApprovalHintConfirm(@)], i, TRUE)

(* A prompt first shown: the session begins to wait.                        *)
LEMMA SeenStays ==
  ASSUME NEW c, NEW w, Good(c, w), NEW i \in Ids, w.active = i
  PROVE  Stays(c, w, Seen(w, i))
<1> DEFINE v == Put(w, i, CancelApprovalHintConfirm(w.s[i]))
<1>1. Like(w.s[i], CancelApprovalHintConfirm(w.s[i]), c.given[i])
  BY KeptOf, CancelConfirmLike
<1>2. Stays(c, w, v)
  BY <1>1, PutStays
<1>3. [w EXCEPT !.s[i] = CancelApprovalHintConfirm(@)] = v
  BY DEF Put
<1> HIDE DEF v
<1>4. Stays(c, v, Shown(v, i, TRUE))
  BY <1>2, ShownGood DEF Stays
<1> QED BY <1>2, <1>3, <1>4, StaysAlong DEF Seen

(* A prompt of the tail found in front.                                     *)
LEMMA FirstSightStays ==
  ASSUME NEW c, NEW w, Good(c, w), NEW i \in Ids, w.active = i, NEW p
  PROVE  Stays(c, w, FirstSight(w, i, p))
<1> DEFINE v == ShowOptions(w, i, p, FALSE)
           u == Seen(v, i)
<1>1. Stays(c, w, v)
  BY ShowFoundStays
<1>2. FirstSight(w, i, p) \in {v, u}
  BY DEF FirstSight, Seen
<1> HIDE DEF v
<1>3. Stays(c, v, u)
  BY <1>1, SeenStays DEF Stays
<1> HIDE DEF u
<1> QED BY <1>1, <1>2, <1>3, StaysAlong

(* A bar restored from the cache.                                           *)
LEMMA RestoredStays ==
  ASSUME NEW c, NEW w, Good(c, w), NEW i \in Ids, NEW y, Like(w.s[i], y, c.given[i]),
         y.cache = w.s[i].cache, y.src = w.s[i].src, NEW go
  PROVE  Stays(c, w, ShowOptions(Put(w, i, y), i, w.s[i].cache, go))
<1> DEFINE v == Put(w, i, y)
<1>1. Stays(c, w, v) /\ v.s[i] = y
  BY PutStays
<1> HIDE DEF v
<1>2. v.s[i].src = NoSource \/ v.s[i].src.sig = w.s[i].cache
  BY <1>1, KeptOf DEF Kept
<1>3. Stays(c, v, ShowOptions(v, i, w.s[i].cache, go))
  BY <1>1, <1>2, ShowToldStays DEF Stays
<1> QED BY <1>1, <1>3, StaysAlong DEF v

(* Nothing found: the bar is restored from the cache, or closed.            *)
LEMMA NoPromptStays ==
  ASSUME NEW c, NEW w, Good(c, w), NEW i \in Ids
  PROVE  Stays(c, w, NoPrompt(w, i))
<1> DEFINE x == w.s[i]
           g == c.given[i]
           y == CancelH9(x)
           z == [x EXCEPT !.h9 = @ + 1, !.h9Timer = TRUE]
           v == Put(w, i, y)
           u == Put(w, i, z)
<1>1. Kept(x, g)
  BY KeptOf
<1>2. Like(x, y, g) /\ y.cache = x.cache /\ y.src = x.src
  BY <1>1, CancelH9Like
<1>3. Like(x, z, g) /\ z.cache = x.cache /\ z.src = x.src
  BY <1>1 DEF Like, Kept, Fields
<1>4. [w EXCEPT !.s[i].h9 = @ + 1, !.s[i].h9Timer = TRUE] = u
  BY ShapeOf DEF Put
<1>5. [w EXCEPT !.s[i] = CancelH9(@)] = v
  BY DEF Put
<1> HIDE DEF y, z
<1>6. Stays(c, w, ShowOptions(v, i, x.cache, x.go))
  BY <1>2, RestoredStays
<1>7. Stays(c, w, ShowOptions(u, i, x.cache, x.go))
  BY <1>3, RestoredStays
<1>8. Stays(c, w, Close(w, i))
  BY CloseStays
<1>9. Stays(c, w, Close(v, i))
  <2>1. Stays(c, w, v)
    BY <1>2, PutStays
  <2> HIDE DEF v
  <2>2. Stays(c, v, Close(v, i))
    BY <2>1, CloseStays DEF Stays
  <2> QED BY <2>1, <2>2, StaysAlong
<1> HIDE DEF u, v
<1>10. NoPrompt(w, i) \in {Close(w, i), Close(v, i), ShowOptions(v, i, x.cache, x.go),
                           ShowOptions(u, i, x.cache, x.go)}
  BY <1>4, <1>5 DEF NoPrompt
<1> QED BY <1>6, <1>7, <1>8, <1>9, <1>10

(* Changes that touch neither the prompt nor the mark.                      *)
LEMMA OtherLike ==
  ASSUME NEW x, NEW g, Kept(x, g), NEW y, DOMAIN y = DOMAIN x,
         y.cache = x.cache, y.src = x.src, y.visible = x.visible
  PROVE  Like(x, y, g)
  BY DEF Like, Kept

(* A native prompt, shown at once, held back for 700 ms, or an echo of an   *)
(* answer.                                                                  *)
LEMMA NativePromptStays ==
  ASSUME NEW c, NEW w, Good(c, w), NEW i \in Ids, w.active = i, NEW f
  PROVE  Stays(c, w, NativePrompt(w, i, f))
<1> DEFINE x == w.s[i]
           g == c.given[i]
           other == x.visible /\ x.cache # None /\ ~ IsA(x.cache, {"batch"}) /\ x.cache # f
           y == IF other THEN CacheApprovalOptions(x, f, FALSE) ELSE x
           z == [CancelH9(y) EXCEPT !.cand = IF x.visible THEN None ELSE @,
                                    !.ripe = IF x.visible THEN FALSE ELSE @]
           m == [x EXCEPT !.sigTimer = TRUE]
           n == [x EXCEPT !.cand = f, !.ripe = FALSE]
           shown == ShowActionBar(Put(w, i, z), i, f)
           seen == Seen(shown, i)
           held == Put(w, i, n)
           used == Put(w, i, m)
<1>1. Kept(x, g)
  BY KeptOf
<1>2. Like(x, m, g) /\ Like(x, n, g)
  BY <1>1 DEF Like, Kept, Fields
<1>3. Like(x, z, g)
  <2>1. Like(x, x, g) /\ Like(x, CacheApprovalOptions(x, f, FALSE), g)
    BY <1>1, CacheFoundLike DEF Like
  <2>2. Like(x, y, g)
    BY <2>1
  <2> HIDE DEF y
  <2> DEFINE u == CancelH9(y)
  <2>3. Like(x, u, g)
    BY <2>2, CancelH9Like, LikeAlong DEF Like
  <2> HIDE DEF u
  <2>4. Kept(u, g) /\ DOMAIN u = Fields
    BY <2>3 DEF Like, Kept
  <2>5. DOMAIN z = Fields /\ z.cache = u.cache /\ z.src = u.src /\ z.visible = u.visible
    BY <2>4 DEF Fields, u
  <2> HIDE DEF z
  <2>6. Like(u, z, g)
    BY <2>4, <2>5, OtherLike
  <2> QED BY <2>3, <2>6, LikeAlong
<1>4. [w EXCEPT !.s[i].cand = f, !.s[i].ripe = FALSE] = held
  BY ShapeOf DEF Put
<1>5. [w EXCEPT !.s[i].sigTimer = TRUE] = used /\ [w EXCEPT !.s[i] = z] = Put(w, i, z)
  BY DEF Put
<1>6. NativePrompt(w, i, f) \in
        {Close(used, i), ShowActionBar(held, i, x.cache), ShowActionBar(w, i, x.cache), shown, seen}
  <2> HIDE DEF z, held, used
  <2> QED BY <1>4, <1>5 DEF NativePrompt, z, Seen
<1> HIDE DEF m, n, z
<1>7. Stays(c, w, used) /\ Stays(c, w, held) /\ Stays(c, w, Put(w, i, z))
  BY <1>2, <1>3, PutStays
<1> HIDE DEF used, held
<1>8. Stays(c, w, Close(used, i))
  BY <1>7, CloseStays, StaysAlong DEF Stays
<1>9. Stays(c, w, ShowActionBar(held, i, x.cache)) /\ Stays(c, w, ShowActionBar(w, i, x.cache))
  BY <1>7, ShowActionBarStays, StaysAlong DEF Stays
<1>10. Stays(c, w, shown)
  BY <1>7, ShowActionBarStays, StaysAlong DEF Stays
<1> HIDE DEF shown
<1>11. Stays(c, w, seen)
  <2>1. Stays(c, shown, seen)
    BY <1>10, SeenStays DEF Stays
  <2> QED BY <1>10, <2>1, StaysAlong
<1> QED BY <1>6, <1>8, <1>9, <1>10, <1>11

(* The kinds of prompts in the order detectApproval tries them.             *)
LEMMA DetectPromptStays ==
  ASSUME NEW c, NEW w, Good(c, w), NEW i \in Ids, w.active = i
  PROVE  Stays(c, w, DetectPrompt(w, i))
<1> DEFINE x == w.s[i]
           g == c.given[i]
           t == x.tail
           b == Buffer(i, x)
           plain == Put(w, i, [x EXCEPT !.seq = 0])
           fresh == Put(w, i, ForgetConsumed(x))
           third == Put(w, i, Sequential(x))
           q == SequentialIn(t, b)
           f == NativeIn(x, b)
<1>1. Kept(x, g)
  BY KeptOf
<1>2. Like(x, [x EXCEPT !.seq = 0], g) /\ [x EXCEPT !.seq = 0].cache = x.cache
      /\ [x EXCEPT !.seq = 0].src = x.src
  BY <1>1 DEF Like, Kept, Fields
<1>3. Stays(c, w, plain) /\ Stays(c, w, ShowOptions(plain, i, x.cache, x.go))
  <2> DEFINE y == [x EXCEPT !.seq = 0]
  <2> HIDE DEF y
  <2>1. Like(x, y, g) /\ y.cache = x.cache /\ y.src = x.src
    BY <1>2 DEF y
  <2>2. Stays(c, w, Put(w, i, y))
    BY <2>1, PutStays
  <2>3. Stays(c, w, ShowOptions(Put(w, i, y), i, x.cache, x.go))
    BY <2>1, RestoredStays
  <2> QED BY <2>2, <2>3 DEF y
<1>4. Stays(c, w, fresh) /\ Stays(c, w, third)
  BY <1>1, ForgetConsumedLike, SequentialLike, PutStays
<1>5. [w EXCEPT !.s[i].seq = 0] = plain /\ [w EXCEPT !.s[i] = ForgetConsumed(@)] = fresh
      /\ [w EXCEPT !.s[i] = Sequential(@)] = third
  BY DEF Put
<1>6. DetectPrompt(w, i) \in
        {w, FirstSight(fresh, i, t), FirstSight(third, i, q), ShowOptions(plain, i, x.cache, x.go),
         NoPrompt(plain, i), NativePrompt(plain, i, f)}
  <2> HIDE DEF plain, fresh, third
  <2> QED BY <1>5 DEF DetectPrompt
<1> HIDE DEF plain, fresh, third, q, f, b
<1>7. Stays(c, w, FirstSight(fresh, i, t)) /\ Stays(c, w, FirstSight(third, i, q))
  <2>1. Stays(c, fresh, FirstSight(fresh, i, t)) /\ Stays(c, third, FirstSight(third, i, q))
    BY <1>4, FirstSightStays DEF Stays
  <2> QED BY <1>4, <2>1, StaysAlong
<1>8. Stays(c, w, NoPrompt(plain, i)) /\ Stays(c, w, NativePrompt(plain, i, f))
  <2>1. Stays(c, plain, NoPrompt(plain, i)) /\ Stays(c, plain, NativePrompt(plain, i, f))
    BY <1>3, NoPromptStays, NativePromptStays DEF Stays
  <2> QED BY <1>3, <2>1, StaysAlong
<1>9. Stays(c, w, w)
  BY DEF Stays
<1> QED BY <1>3, <1>6, <1>7, <1>8, <1>9

(* detectApproval leaves the session in front where it is.                  *)
LEMMA DetectInFrontStays ==
  ASSUME NEW c, NEW w, Good(c, w), NEW i \in Ids
  PROVE  Stays(c, w, DetectInFront(w, i))
<1> DEFINE x == w.s[i]
           g == c.given[i]
           la == [x EXCEPT !.latch = TRUE, !.mq = TRUE, !.multi = None]
           form == [Put(w, i, la) EXCEPT !.bar = NoBar]
           lb == [x EXCEPT !.latch = TRUE, !.mq = FALSE]
           asked1 == Put(w, i, lb)
           lc == [x EXCEPT !.mq = FALSE, !.mqOff = FALSE]
           over == Put(w, i, lc)
           later == Put(w, i, [x EXCEPT !.rescan = TRUE])
<1>1. Kept(x, g)
  BY KeptOf
<1>2. Like(x, la, g) /\ Like(x, lb, g) /\ Like(x, lc, g) /\ Like(x, [x EXCEPT !.rescan = TRUE], g)
  BY <1>1 DEF Like, Kept, Fields
<1>3. [w EXCEPT !.bar = NoBar, !.s[i].latch = TRUE, !.s[i].mq = TRUE, !.s[i].multi = None] = form
  BY ShapeOf DEF PageFields, Put
<1>4. [w EXCEPT !.s[i].latch = TRUE, !.s[i].mq = FALSE] = asked1
  BY ShapeOf DEF Put
<1>5. [w EXCEPT !.s[i].mq = FALSE, !.s[i].mqOff = FALSE] = over
  BY ShapeOf DEF Put
<1>6. [w EXCEPT !.s[i].rescan = TRUE] = later
  BY DEF Put
<1> HIDE DEF la, lb, lc
<1>7. Stays(c, w, Put(w, i, la)) /\ Stays(c, w, asked1) /\ Stays(c, w, over) /\ Stays(c, w, later)
  BY <1>2, PutStays
<1>8. Stays(c, w, form)
  <2>1. Stays(c, Put(w, i, la), form)
    BY <1>7, BarStays DEF Stays
  <2> QED BY <1>7, <2>1, StaysAlong
<1> HIDE DEF form, asked1, over, later
<1>9. \/ DetectInFront(w, i) \in {w, later, form}
      \/ /\ w.active = i
         /\ DetectInFront(w, i) \in {Shown(form, i, TRUE), DetectPrompt(asked1, i),
               DetectPrompt(Shown(over, i, FALSE), i), DetectPrompt(w, i)}
  BY <1>3, <1>4, <1>5, <1>6 DEF DetectInFront
<1>10. Stays(c, w, w)
  BY DEF Stays
<1>11. ASSUME w.active = i
       PROVE  Stays(c, w, Shown(form, i, TRUE)) /\ Stays(c, w, DetectPrompt(asked1, i))
              /\ Stays(c, w, DetectPrompt(w, i))
  <2>1. Stays(c, form, Shown(form, i, TRUE))
    BY <1>8, <1>11, ShownGood DEF Stays
  <2>2. Stays(c, asked1, DetectPrompt(asked1, i))
    BY <1>7, <1>11, DetectPromptStays DEF Stays
  <2>3. Stays(c, w, DetectPrompt(w, i))
    BY <1>11, DetectPromptStays
  <2> QED BY <1>7, <1>8, <2>1, <2>2, <2>3, StaysAlong
<1>12. ASSUME w.active = i
       PROVE  Stays(c, w, DetectPrompt(Shown(over, i, FALSE), i))
  <2> DEFINE v == Shown(over, i, FALSE)
  <2>1. Stays(c, over, v)
    <3>1. Good(c, over)
      BY <1>7 DEF Stays
    <3> QED BY <3>1, UnshownGood
  <2>2. Stays(c, w, v)
    BY <1>7, <2>1, StaysAlong
  <2> HIDE DEF v
  <2>3. Stays(c, v, DetectPrompt(v, i))
    BY <1>12, <2>2, DetectPromptStays DEF Stays
  <2> QED BY <2>2, <2>3, StaysAlong DEF v
<1> QED BY <1>7, <1>8, <1>9, <1>10, <1>11, <1>12

-----------------------------------------------------------------------------
(* The automatic switch.                                                    *)
LEMMA QueueStays ==
  ASSUME NEW c, NEW w, Good(c, w), NEW q \in Seq(Ids), Once(q),
         \A n \in DOMAIN q : q[n] \in c.known /\ w.s[q[n]].visible = TRUE
  PROVE  Stays(c, w, [w EXCEPT !.queue = q])
<1> DEFINE v == [w EXCEPT !.queue = q]
<1>1. DOMAIN v = PageFields /\ v.s = w.s /\ v.active = w.active /\ v.queue = q
      /\ v.sessions = w.sessions
  BY ShapeOf DEF PageFields
<1> HIDE DEF v
<1> QED BY <1>1 DEF Stays, Good, Sound, Away, v

(* A session comes to the front when the one before it waits for nothing.   *)
LEMMA ToFrontGood ==
  ASSUME NEW c, NEW w, Good(c, w), NEW i \in w.sessions,
         c.from = 0 \/ c.from = i \/ w.s[c.from].visible = FALSE
  PROVE  Good(c, ToFront(w, i))
<1> DEFINE y == [w.s[i] EXCEPT !.attached = TRUE, !.check = TRUE]
           v == Put(w, i, y)
           u == [v EXCEPT !.active = i]
<1>0. i \in Ids /\ w.sessions = c.sessions
  BY DEF Good, Sound
<1>1. Like(w.s[i], y, c.given[i])
  BY <1>0, KeptOf DEF Like, Kept, Fields
<1>2. [w EXCEPT !.active = i, !.s[i].attached = TRUE, !.s[i].check = TRUE] = u
  <2>1. DOMAIN w = PageFields /\ DOMAIN w.s = Ids
    BY ShapeOf
  <2> QED BY <1>0, <2>1 DEF PageFields, Put
<1>3. Stays(c, w, v) /\ v.s[i] = y
  BY <1>0, <1>1, PutStays
<1>4. v.s = [w.s EXCEPT ![i] = y]
  BY ShapeOf DEF PageFields, Put
<1> HIDE DEF y
<1>5. c.from = 0 \/ c.from = i \/ v.s[c.from].visible = FALSE
  BY <1>4
<1> HIDE DEF v
<1>6. DOMAIN u = PageFields /\ u.s = v.s /\ u.active = i /\ u.queue = v.queue
      /\ u.sessions = v.sessions
  BY <1>3, ShapeOf DEF PageFields, Stays
<1> HIDE DEF u
<1>7. Good(c, u)
  BY <1>0, <1>3, <1>5, <1>6 DEF Good, Sound, Away, Stays
<1>8. ToFront(w, i) = DetectInFront(u, i)
  BY <1>2 DEF ToFront
<1> QED BY <1>0, <1>7, <1>8, DetectInFrontStays DEF Stays

(* The automatic switch: the session it leaves waits for nothing.           *)
LEMMA MaybeAutoSwitchGood ==
  ASSUME NEW c, NEW w, Good(c, w)
  PROVE  Good(c, MaybeAutoSwitch(w))
<1> DEFINE q == w.queue
           good == {n \in DOMAIN q : /\ q[n] \in w.sessions \ {w.active}
                                     /\ w.s[q[n]].visible}
           n == Min(good)
           r == SubSeq(q, n + 1, Len(q))
           none == [w EXCEPT !.queue = <<>>]
           cut == [w EXCEPT !.queue = r]
           there == ToFront(cut, q[n])
           now == [there EXCEPT !.left = FALSE]
<1>1. q \in Seq(Ids) /\ Once(q) /\ DOMAIN q = 1 .. Len(q) /\ Len(q) \in Nat
      /\ \A k \in DOMAIN q : q[k] \in Ids /\ q[k] \in c.known /\ w.s[q[k]].visible = TRUE
  BY DEF Good, Sound
<1>2. Stays(c, w, none)
  <2> DEFINE e == <<>>
  <2>1. e \in Seq(Ids) /\ Once(e) /\ DOMAIN e = {}
    BY DEF Once
  <2> HIDE DEF e
  <2> QED BY <2>1, QueueStays DEF e
<1>3. CASE /\ ~ (w.active = 0 \/ w.bar # NoBar) /\ ~ w.s[w.active].visible
           /\ good # {}
  <2>1. good \in SUBSET Nat
    BY <1>1
  <2>2. n \in good
    BY <1>3, <2>1, MinIsIn
  <2>3. n \in 1 .. Len(q) /\ q[n] \in Ids /\ q[n] \in w.sessions
    BY <1>1, <2>2
  <2> HIDE DEF n, good
  <2>4. r \in Seq(Ids) /\ Len(r) = Len(q) - n /\ \A k \in 1 .. Len(q) - n : r[k] = q[n + k]
    BY <1>1, <2>3
  <2> HIDE DEF r
  <2>5. DOMAIN r = 1 .. Len(q) - n /\ \A k \in DOMAIN r : n + k \in DOMAIN q /\ r[k] = q[n + k]
    BY <1>1, <2>3, <2>4
  <2>6. Once(r)
    <3>1. ASSUME NEW j \in DOMAIN r, NEW k \in DOMAIN r, r[j] = r[k]
          PROVE  j = k
      <4>1. q[n + j] = q[n + k] /\ n + j \in DOMAIN q /\ n + k \in DOMAIN q
        BY <2>5, <3>1
      <4>2. n + j = n + k
        BY <1>1, <4>1 DEF Once
      <4>3. j \in Nat /\ k \in Nat /\ n \in Nat
        BY <1>1, <2>3, <2>5
      <4> QED BY <4>2, <4>3
    <3> QED BY <3>1 DEF Once
  <2>7. Stays(c, w, cut)
    BY <1>1, <2>4, <2>5, <2>6, QueueStays
  <2>8. cut.s = w.s /\ cut.sessions = w.sessions
    BY ShapeOf DEF PageFields
  <2>9. c.from = 0 \/ w.s[c.from].visible = FALSE
    <3>1. w.active \in Ids
      BY <1>3 DEF Good, Sound
    <3>2. w.s[w.active].visible = FALSE
      BY <1>3, <3>1, KeptOf
    <3> QED BY <3>2 DEF Good, Away
  <2> HIDE DEF cut
  <2>10. Good(c, there)
    BY <2>3, <2>7, <2>8, <2>9, ToFrontGood DEF Stays
  <2> HIDE DEF there
  <2>11. Good(c, now)
    BY <2>10, LeftStays DEF Stays
  <2>12. MaybeAutoSwitch(w) = now
    BY <1>3 DEF MaybeAutoSwitch, now, there, cut, r, n, good
  <2> QED BY <2>11, <2>12
<1>4. CASE ~ (/\ ~ (w.active = 0 \/ w.bar # NoBar) /\ ~ w.s[w.active].visible
              /\ good # {})
  <2>1. MaybeAutoSwitch(w) \in {w, none}
    BY <1>4 DEF MaybeAutoSwitch
  <2> HIDE DEF none
  <2>2. Good(c, none)
    BY <1>2 DEF Stays
  <2>3. MaybeAutoSwitch(w) = w \/ MaybeAutoSwitch(w) = none
    BY <2>1
  <2> QED BY <2>2, <2>3, Zenon
<1> QED BY <1>3, <1>4

(* A waiting session is queued once.                                        *)
LEMMA EnqueueGood ==
  ASSUME NEW c, NEW w, Good(c, w), NEW i \in Ids, w.s[i].visible = TRUE
  PROVE  Good(c, EnqueueApprovalAutoSwitch(w, i))
<1> DEFINE q == w.queue
           r == IF i \in ToSet(q) THEN q ELSE Append(q, i)
           more == [w EXCEPT !.queue = r]
<1>1. q \in Seq(Ids) /\ Once(q) /\ DOMAIN q = 1 .. Len(q) /\ Len(q) \in Nat
      /\ \A k \in DOMAIN q : q[k] \in Ids /\ q[k] \in c.known /\ w.s[q[k]].visible = TRUE
  BY DEF Good, Sound
<1>2. CASE i \in w.sessions
  <2> DEFINE Fit(u) == /\ u \in Seq(Ids) /\ Once(u)
                       /\ \A k \in DOMAIN u : u[k] \in c.known /\ w.s[u[k]].visible = TRUE
  <2>1. ASSUME i \in ToSet(q) PROVE Fit(r)
    <3>1. r = q
      BY <2>1
    <3> HIDE DEF r
    <3>2. Fit(r)
      BY <1>1, <3>1
    <3> QED BY <3>2
  <2>2. ASSUME i \notin ToSet(q) PROVE Fit(r)
    <3>1. \A k \in DOMAIN q : q[k] # i
      BY <2>2 DEF ToSet
    <3> DEFINE a == Append(q, i)
    <3>2. a \in Seq(Ids) /\ DOMAIN a = 1 .. Len(q) + 1 /\ a[Len(q) + 1] = i
          /\ \A k \in 1 .. Len(q) : a[k] = q[k]
      BY <1>1
    <3> HIDE DEF a
    <3>3. \A k \in DOMAIN a : k = Len(q) + 1 \/ k \in DOMAIN q
      BY <1>1, <3>2
    <3>4. Once(a)
      BY <1>1, <3>1, <3>2, <3>3 DEF Once
    <3>5. \A k \in DOMAIN a : a[k] \in c.known /\ w.s[a[k]].visible = TRUE
      <4>1. i \in c.known
        BY <1>2 DEF Good, Sound
      <4> QED BY <1>1, <3>2, <3>3, <4>1
    <3>6. r = a
      BY <2>2 DEF a
    <3> HIDE DEF r
    <3>7. Fit(r)
      BY <3>2, <3>4, <3>5, <3>6
    <3> QED BY <3>7
  <2>3. Good(c, more)
    <3>1. Fit(r)
      BY <2>1, <2>2
    <3> HIDE DEF r
    <3> QED BY <3>1, QueueStays DEF Stays
  <2> HIDE DEF more
  <2>4. EnqueueApprovalAutoSwitch(w, i) \in {w, MaybeAutoSwitch(more)}
    BY DEF EnqueueApprovalAutoSwitch, more
  <2> QED BY <2>3, <2>4, MaybeAutoSwitchGood
<1>3. CASE i \notin w.sessions
  BY <1>3 DEF EnqueueApprovalAutoSwitch
<1> QED BY <1>2, <1>3

(* setApprovalVisible(true) with the automatic switch.                      *)
LEMMA SetVisibleGood ==
  ASSUME NEW c, NEW w, Good(c, w), NEW i \in Ids, w.active = i \/ w.active = c.from
  PROVE  Good(c, SetApprovalVisible(w, i, TRUE))
<1> DEFINE v == Shown(w, i, TRUE)
<1>1. Good(c, v) /\ v.s[i].visible = TRUE
  BY ShownGood DEF Stays
<1>2. SetApprovalVisible(w, i, TRUE) \in {w, EnqueueApprovalAutoSwitch(v, i)}
  BY DEF SetApprovalVisible
<1> HIDE DEF v
<1>3. Good(c, EnqueueApprovalAutoSwitch(v, i))
  BY <1>1, EnqueueGood
<1> QED BY <1>2, <1>3

(* setApprovalVisible(false).                                               *)
LEMMA SetInvisibleGood ==
  ASSUME NEW c, NEW w, Good(c, w), NEW i \in Ids
  PROVE  Stays(c, w, SetApprovalVisible(w, i, FALSE))
<1>1. SetApprovalVisible(w, i, FALSE) \in {w, Shown(w, i, FALSE)}
  BY DEF SetApprovalVisible
<1>2. Stays(c, w, Shown(w, i, FALSE)) /\ Stays(c, w, w)
  BY UnshownGood DEF Stays
<1> QED BY <1>1, <1>2

(* hideActionBar with the automatic switch.                                 *)
LEMMA HideActionBarGood ==
  ASSUME NEW c, NEW w, Good(c, w), NEW i \in Ids
  PROVE  Good(c, HideActionBar(w, i))
  BY HideBarStays, MaybeAutoSwitchGood DEF HideActionBar, Stays

(* The switch that a closed bar calls for.                                  *)
LEMMA FoundGood ==
  ASSUME NEW c, NEW w, Good(c, w)
  PROVE  Good(c, IF w.left THEN MaybeAutoSwitch([w EXCEPT !.left = FALSE]) ELSE w)
<1> DEFINE v == [w EXCEPT !.left = FALSE]
<1>1. Good(c, v)
  BY LeftStays DEF Stays
<1> HIDE DEF v
<1>2. Good(c, MaybeAutoSwitch(v))
  BY <1>1, MaybeAutoSwitchGood
<1>3. CASE w.left
  BY <1>2, <1>3 DEF v
<1>4. CASE ~ w.left
  BY <1>4
<1> QED BY <1>3, <1>4

(* detectApproval with the automatic switch.                                *)
LEMMA DetectApprovalGood ==
  ASSUME NEW c, NEW w, Good(c, w), NEW i \in Ids
  PROVE  Good(c, DetectApproval(w, i))
<1>1. Good(c, DetectInFront(w, i))
  BY DetectInFrontStays DEF Stays
<1> QED BY <1>1, FoundGood DEF DetectApproval

(* activateSession, for the user or for a session that went away.           *)
LEMMA ActivateGood ==
  ASSUME NEW c, NEW w, Good(c, w), NEW i \in w.sessions, c.from = 0
  PROVE  Good(c, Activate(w, i))
<1>1. Good(c, ToFront(w, i))
  BY ToFrontGood
<1> QED BY <1>1, FoundGood DEF Activate

-----------------------------------------------------------------------------
(* A session that prints.                                                   *)
LEMMA TrackNativeStays ==
  ASSUME NEW c, NEW w, Good(c, w), NEW i \in Ids, NEW f
  PROVE  Stays(c, w, TrackNative(w, i, f))
<1> DEFINE x == w.s[i]
           g == c.given[i]
           y == ResetBgApprovalMisses(x)
           n == CacheApprovalOptions(y, f, FALSE)
           m == [x EXCEPT !.sigTimer = TRUE]
<1>1. Kept(x, g)
  BY KeptOf
<1>2. Like(x, m, g)
  BY <1>1 DEF Like, Kept, Fields
<1>3. Like(x, y, g) /\ Kept(y, g)
  BY <1>1, ResetBgLike DEF Like
<1> HIDE DEF y
<1>4. Like(x, n, g) /\ Kept(n, g)
  BY <1>3, CacheFoundLike, LikeAlong DEF Like
<1> HIDE DEF n
<1>5. Like(x, ScheduleApprovalHintConfirm(y, f), g) /\ Like(x, ScheduleApprovalHintConfirm(n, f), g)
  BY <1>3, <1>4, ScheduleLike, LikeAlong
<1>6. TrackNative(w, i, f) \in
        {Put(w, i, z) : z \in {m, y, n, ScheduleApprovalHintConfirm(y, f),
                               ScheduleApprovalHintConfirm(n, f)}}
  <2> DEFINE z == IF x.visible /\ x.cache # None /\ ~ IsA(x.cache, {"batch"}) /\ x.cache # f
                  THEN y ELSE n
  <2>1. z \in {y, n}
    OBVIOUS
  <2>2. TrackNative(w, i, f) \in
          {Put(w, i, m), Put(w, i, z), Put(w, i, ScheduleApprovalHintConfirm(z, f))}
    BY DEF TrackNative, Put, y, n
  <2> HIDE DEF z, m
  <2> QED BY <2>1, <2>2
<1> HIDE DEF m
<1> QED BY <1>2, <1>3, <1>4, <1>5, <1>6, PutStays

(* A miss of a session in the background.                                   *)
LEMMA BgMissLike ==
  ASSUME NEW x, NEW g, Kept(x, g)
  PROVE  Like(x, TrackBgApprovalMiss(x), g)
<1>1. Like(x, ResetBgApprovalMisses(x), g)
  BY ResetBgLike
<1>2. Like(x, [x EXCEPT !.bg = @ + 1], g) /\ Like(x, [x EXCEPT !.bg = MissLimit, !.bgTimer = TRUE], g)
  BY DEF Like, Kept, Fields
<1> QED BY <1>1, <1>2 DEF TrackBgApprovalMiss

(* A chunk in which nothing is found.                                       *)
LEMMA TrackNothingStays ==
  ASSUME NEW c, NEW w, Good(c, w), NEW i \in Ids
  PROVE  Stays(c, w, TrackNothing(w, i))
<1> DEFINE x == w.s[i]
           g == c.given[i]
           y == IF x.trusted THEN x ELSE CancelApprovalHintConfirm(x)
           z == IF x.visible \/ x.trusted THEN y ELSE ClearApprovalOptions(y)
           n == IF i # w.active /\ x.visible /\ ~ x.trusted /\ x.cache # None
                THEN TrackBgApprovalMiss(z) ELSE z
<1>1. Kept(x, g)
  BY KeptOf
<1>2. Like(x, y, g)
  BY <1>1, CancelConfirmLike DEF Like
<1> HIDE DEF y
<1>3. Like(x, z, g)
  BY <1>2, ClearLike, LikeAlong DEF Like
<1> HIDE DEF z
<1>4. Like(x, n, g)
  BY <1>3, BgMissLike, LikeAlong DEF Like
<1>5. TrackNothing(w, i) = Put(w, i, n)
  BY DEF TrackNothing, Put, y, z
<1> HIDE DEF n
<1> QED BY <1>4, <1>5, PutStays

(* A prompt that is on its way to the bar.                                  *)
LEMMA ScheduledLike ==
  ASSUME NEW x, NEW y, NEW g, Like(x, y, g), NEW p
  PROVE  Like(x, ScheduleApprovalHintConfirm(CacheApprovalOptions(y, p, FALSE), p), g)
<1> DEFINE z == CacheApprovalOptions(y, p, FALSE)
<1>1. Like(x, z, g)
  BY CacheFoundLike, LikeAlong DEF Like
<1> HIDE DEF z
<1>2. Like(z, ScheduleApprovalHintConfirm(z, p), g)
  BY <1>1, ScheduleLike DEF Like
<1>3. Like(x, ScheduleApprovalHintConfirm(z, p), g)
  BY <1>1, <1>2, LikeAlong
<1> QED BY <1>3 DEF z

(* The kinds of prompts in the order a chunk is searched for them.          *)
LEMMA TrackPromptStays ==
  ASSUME NEW c, NEW w, Good(c, w), NEW i \in Ids
  PROVE  Stays(c, w, TrackPrompt(w, i))
<1> DEFINE x == w.s[i]
           g == c.given[i]
           t == x.tail
           b == Buffer(i, x)
           q == SequentialIn(t, IF i = w.active \/ IsA(t, {"native"}) THEN b ELSE None)
           f == NativeIn(x, b)
           plain == Put(w, i, [x EXCEPT !.seq = 0])
           used == Put(w, i, [x EXCEPT !.sigTimer = TRUE])
           tr == [ForgetConsumed(x) EXCEPT !.trusted = TRUE]
           fa == ScheduleApprovalHintConfirm(CacheApprovalOptions(tr, t, FALSE), t)
           fb == ScheduleApprovalHintConfirm(CacheApprovalOptions(Sequential(x), q, FALSE), q)
<1>1. Kept(x, g)
  BY KeptOf
<1>2. Like(x, [x EXCEPT !.seq = 0], g) /\ Like(x, [x EXCEPT !.sigTimer = TRUE], g)
  BY <1>1 DEF Like, Kept, Fields
<1>3. Like(x, tr, g)
  <2> DEFINE k == ForgetConsumed(x)
  <2>1. Like(x, k, g)
    BY <1>1, ForgetConsumedLike
  <2> HIDE DEF k
  <2>2. Like(k, [k EXCEPT !.trusted = TRUE], g)
    BY <2>1 DEF Like, Kept, Fields
  <2>3. Like(x, [k EXCEPT !.trusted = TRUE], g)
    BY <2>1, <2>2, LikeAlong
  <2> QED BY <2>3 DEF k
<1>4. Like(x, Sequential(x), g)
  BY <1>1, SequentialLike
<1>5. Stays(c, w, plain)
  BY <1>2, PutStays
<1>6. Stays(c, w, used)
  BY <1>2, PutStays
<1>7. Stays(c, w, Put(w, i, fa))
  <2>1. Like(x, fa, g)
    BY <1>3, ScheduledLike
  <2> HIDE DEF fa
  <2> QED BY <2>1, PutStays
<1>8. Stays(c, w, Put(w, i, fb))
  <2>1. Like(x, fb, g)
    BY <1>4, ScheduledLike
  <2> HIDE DEF fb
  <2> QED BY <2>1, PutStays
<1>9. [w EXCEPT !.s[i].seq = 0] = plain /\ [w EXCEPT !.s[i].sigTimer = TRUE] = used
      /\ [w EXCEPT !.s[i] = fa] = Put(w, i, fa) /\ [w EXCEPT !.s[i] = fb] = Put(w, i, fb)
  BY DEF Put
<1>10. TrackPrompt(w, i) \in {w, plain, used, Put(w, i, fa), Put(w, i, fb), TrackNothing(plain, i),
                              TrackNative(plain, i, f)}
  <2> HIDE DEF plain, used
  <2> QED BY <1>9 DEF TrackPrompt
<1> HIDE DEF plain, used, fa, fb, q, f
<1>11. Stays(c, w, TrackNothing(plain, i)) /\ Stays(c, w, TrackNative(plain, i, f))
  <2>1. Good(c, plain)
    BY <1>5 DEF Stays
  <2>2. Stays(c, plain, TrackNothing(plain, i)) /\ Stays(c, plain, TrackNative(plain, i, f))
    BY <2>1, TrackNothingStays, TrackNativeStays
  <2> QED BY <1>5, <2>2, StaysAlong
<1>12. Stays(c, w, w)
  BY DEF Stays
<1> QED BY <1>5, <1>6, <1>7, <1>8, <1>10, <1>11, <1>12

(* trackApprovalHintFromChunk, for any session.                             *)
LEMMA TrackGood ==
  ASSUME NEW c, NEW w, Good(c, w), NEW i \in Ids, w.active = c.from
  PROVE  Good(c, TrackApprovalHintFromChunk(w, i))
<1> DEFINE x == w.s[i]
           g == c.given[i]
           l == [x EXCEPT !.latch = TRUE]
           k == CancelApprovalHintConfirm(l)
           cleared == ClearApprovalOptions(k)
           form == [cleared EXCEPT !.mq = TRUE]
           later == Put(w, i, [x EXCEPT !.rescan = TRUE])
           again == Put(w, i, cleared)
           shown == Put(w, i, form)
           seen == Put(w, i, l)
<1>1. Kept(x, g)
  BY KeptOf
<1>2. Like(x, l, g) /\ Like(x, [x EXCEPT !.rescan = TRUE], g)
  BY <1>1 DEF Like, Kept, Fields
<1> HIDE DEF l
<1>3. Like(x, k, g)
  BY <1>2, CancelConfirmLike, LikeAlong DEF Like
<1> HIDE DEF k
<1>4. Like(x, cleared, g)
  BY <1>3, ClearLike, LikeAlong DEF Like
<1> HIDE DEF cleared
<1>5. Like(x, form, g)
  <2>1. Like(cleared, form, g)
    BY <1>4 DEF Like, Kept, Fields
  <2> QED BY <1>4, <2>1, LikeAlong
<1> HIDE DEF form
<1>6. Stays(c, w, later) /\ Stays(c, w, again) /\ Stays(c, w, seen)
  BY <1>2, <1>4, PutStays
<1>7. Stays(c, w, shown)
  BY <1>5, PutStays
<1>8. [w EXCEPT !.s[i].rescan = TRUE] = later /\ [w EXCEPT !.s[i] = cleared] = again
      /\ [w EXCEPT !.s[i] = form] = shown /\ [w EXCEPT !.s[i].latch = TRUE] = seen
  BY DEF Put, l
<1> HIDE DEF later, again, shown, seen
<1>9. TrackApprovalHintFromChunk(w, i) \in
        {w, later, again, SetApprovalVisible(shown, i, TRUE), TrackPrompt(seen, i), TrackPrompt(w, i)}
  BY <1>8 DEF TrackApprovalHintFromChunk, cleared, k, l, form
<1>10. Good(c, SetApprovalVisible(shown, i, TRUE))
  <2>1. Good(c, shown) /\ shown.active = c.from
    BY <1>7 DEF Stays
  <2> QED BY <2>1, SetVisibleGood
<1>11. Good(c, TrackPrompt(seen, i)) /\ Good(c, TrackPrompt(w, i))
  <2>1. Good(c, seen) /\ Good(c, later) /\ Good(c, again)
    BY <1>6 DEF Stays
  <2> QED BY <2>1, TrackPromptStays DEF Stays
<1>12. Good(c, later) /\ Good(c, again)
  BY <1>6 DEF Stays
<1> QED BY <1>9, <1>10, <1>11, <1>12

-----------------------------------------------------------------------------
(* An answer.                                                               *)
LEMMA TypedStays ==
  ASSUME NEW c, NEW w, Good(c, w), NEW i
  PROVE  \A b \in BOOLEAN : Stays(c, w, [w EXCEPT !.typed[i] = b])
<1>1. TAKE b \in BOOLEAN
<1> DEFINE v == [w EXCEPT !.typed[i] = b]
<1>2. DOMAIN v = PageFields /\ v.s = w.s /\ v.active = w.active /\ v.queue = w.queue
      /\ v.sessions = w.sessions
  BY ShapeOf DEF PageFields
<1> HIDE DEF v
<1> QED BY <1>2, SameGood DEF Stays, v

(* The answer typed, the bar closed, and the session left alone for a while.*)
Answered(w, i, x) ==
  [HideActionBar([w EXCEPT !.s[i] = x, !.typed[i] = TRUE], i) EXCEPT
     !.s[i].supp = TRUE, !.s[i].recheck = TRUE]

(* The bar closes and another session may come to the front.                *)
LEMMA AnsweredGood ==
  ASSUME NEW c, NEW w, Good(c, w), NEW i \in Ids, NEW x, Like(w.s[i], x, c.given[i])
  PROVE  Good(c, Answered(w, i, x))
<1> DEFINE v == Put(w, i, x)
           sent == [v EXCEPT !.typed[i] = TRUE]
           u == HideActionBar(sent, i)
           y == [u.s[i] EXCEPT !.supp = TRUE, !.recheck = TRUE]
<1>1. Stays(c, w, v)
  BY PutStays
<1>2. [w EXCEPT !.s[i] = x, !.typed[i] = TRUE] = sent
  BY ShapeOf DEF Put, PageFields
<1> HIDE DEF v
<1>3. Good(c, sent)
  BY <1>1, TypedStays DEF Stays
<1> HIDE DEF sent
<1>4. Good(c, u)
  BY <1>3, HideActionBarGood
<1> HIDE DEF u
<1>5. Like(u.s[i], y, c.given[i])
  BY <1>4, KeptOf DEF Like, Kept, Fields
<1>6. [u EXCEPT !.s[i].supp = TRUE, !.s[i].recheck = TRUE] = Put(u, i, y)
  BY <1>4, ShapeOf DEF Put, PageFields
<1> HIDE DEF y
<1>7. Good(c, Put(u, i, y))
  BY <1>4, <1>5, PutStays DEF Stays
<1> QED BY <1>2, <1>6, <1>7 DEF u, Answered

(* An answer is typed: the prompt in the cache counts as answered.          *)
LEMMA AnswerGood ==
  ASSUME NEW c, NEW w, Good(c, w), NEW i \in Ids
  PROVE  Good(c, Answer(w, i))
<1> DEFINE p == w.s[i].cache
           x == [w.s[i] EXCEPT !.consumed = IF p = None THEN @ ELSE p,
                               !.answered = IF IsA(p, Markers) THEN @ \cup {p} ELSE @]
<1>1. Like(w.s[i], x, c.given[i])
  <2>1. DOMAIN w.s[i] = Fields
    BY KeptOf DEF Kept
  <2>2. DOMAIN x = DOMAIN w.s[i] /\ x.cache = w.s[i].cache /\ x.src = w.s[i].src
        /\ x.visible = w.s[i].visible
    BY <2>1 DEF Fields
  <2> HIDE DEF x
  <2> QED BY <2>2, KeptOf, OtherLike
<1>2. Answer(w, i) = Answered(w, i, x)
  BY DEF Answer, Answered
<1> HIDE DEF x
<1> QED BY <1>1, <1>2, AnsweredGood

(* A choice: refused, the first of two, or an answer.                       *)
LEMMA SendChoiceGood ==
  ASSUME NEW c, NEW w, Good(c, w), NEW i \in Ids, NEW n, NEW confirmed
  PROVE  Good(c, SendChoice(w, i, n, confirmed))
<1> DEFINE x == w.s[i]
           v == Put(w, i, [x EXCEPT !.seq = 2])
           y == [x EXCEPT !.seq = 0, !.mqOff = FALSE, !.latch = FALSE]
           u == Put(w, i, y)
<1>1. Like(x, [x EXCEPT !.seq = 2], c.given[i]) /\ Like(x, y, c.given[i])
  BY KeptOf DEF Like, Kept, Fields
<1>2. Good(c, v)
  BY <1>1, PutStays DEF Stays
<1>3. Good(c, u)
  BY <1>1, PutStays DEF Stays
<1>4. [w EXCEPT !.s[i].seq = 2] = v
      /\ [w EXCEPT !.s[i].seq = 0, !.s[i].mqOff = FALSE, !.s[i].latch = FALSE] = u
  BY ShapeOf DEF Put
<1> HIDE DEF v, u
<1>5. SendChoice(w, i, n, confirmed)
      \in {w, ShowOptions(v, i, x.cache, FALSE), Answer(u, i), Answer(w, i)}
  BY <1>4 DEF SendChoice
<1>6. /\ Good(c, ShowOptions(v, i, x.cache, FALSE)) /\ Good(c, Answer(u, i))
      /\ Good(c, Answer(w, i))
  BY <1>2, <1>3, ShowFoundStays, AnswerGood DEF Stays
<1> QED BY <1>5, <1>6

-----------------------------------------------------------------------------
(* From one state to the next.                                              *)
Sources == [j \in Ids |-> s[j].src]

(* A handler starts with the session in front, the sessions there are,      *)
(* those that may be queued and the sources that are kept.                  *)
Start == [from |-> active, sessions |-> sessions, known |-> Known, given |-> Sources]
Inv == Sound(W, Start)

(* Without the socket there are no sessions.                                *)
Out ==
  /\ lost.had \subseteq Ids /\ lost.last \in Ids \cup {0}
  /\ lost.st # "up" => sessions = {}

(* c is the start of a handler that adds no session.                        *)
At(c) ==
  /\ c.sessions \subseteq sessions
  /\ c.known = IF lost.st = "down" THEN lost.had ELSE c.sessions

(* Between handlers the state is where the next one starts.                 *)
LEMMA WGood ==
  ASSUME Inv
  PROVE  /\ Good(Start, W) /\ Start.from = active /\ Start.given = Sources
         /\ Start.sessions = sessions /\ W.active = active /\ W.s = s /\ W.queue = queue
         /\ W.sessions = sessions /\ sessions \subseteq Ids /\ active \in Ids \cup {0}
         /\ active \in sessions \cup {0} /\ At(Start) /\ Start.known = Known
<1>1. W.active = active /\ W.s = s /\ W.sessions = sessions /\ W.queue = queue
  BY DEF W
<1>2. Start.from = active /\ Start.sessions = sessions /\ Start.given = Sources
      /\ Start.known = Known
  BY DEF Start
<1>3. sessions \subseteq Ids /\ active \in sessions \cup {0}
  BY <1>1 DEF Inv, Sound
<1>4. Good(Start, W)
  BY <1>1, <1>2, <1>3 DEF Inv, Good, Away
<1>5. At(Start)
  BY <1>2 DEF At, Known
<1> QED BY <1>1, <1>2, <1>3, <1>4, <1>5

(* What a handler ends with is sound in the next state.                     *)
LEMMA BecomeSound ==
  ASSUME NEW c, NEW w, Good(c, w), Become(w), c.known = Known'
  PROVE  Inv'
<1>1. s' = w.s /\ active' = w.active /\ queue' = w.queue /\ sessions' = w.sessions
  BY DEF Become
<1>2. /\ DOMAIN w.s = Ids /\ \A j \in Ids : Kept(w.s[j], c.given[j])
      /\ w.active \in w.sessions \cup {0} /\ w.sessions \subseteq Ids
      /\ w.sessions \subseteq c.known /\ w.queue \in Seq(Ids) /\ Once(w.queue)
      /\ \A n \in DOMAIN w.queue : w.queue[n] \in c.known /\ w.s[w.queue[n]].visible = TRUE
  BY DEF Good, Sound
<1>3. /\ W'.s = s' /\ W'.active = active' /\ W'.queue = queue' /\ W'.sessions = sessions'
      /\ DOMAIN W' = PageFields /\ Start'.known = Known' /\ Start'.given = Sources'
  BY DEF W, PageFields, Start
<1>4. \A j \in Ids : Kept(w.s[j], w.s[j].src)
  BY <1>2 DEF Kept
<1>5. Sources' = [j \in Ids |-> w.s[j].src]
  BY <1>1 DEF Sources
<1>6. \A j \in Ids : Kept(W'.s[j], Sources'[j])
  BY <1>1, <1>3, <1>4, <1>5
<1> QED BY <1>1, <1>2, <1>3, <1>6 DEF Inv, Sound

(* A step that leaves the socket as it is.                                  *)
Same == lost'.st = lost.st /\ lost'.had = lost.had

LEMMA BecomeInv ==
  ASSUME NEW c, NEW w, Good(c, w), At(c), Become(w)
  PROVE  (Same => Inv') /\ sessions' \subseteq sessions
<1>1. sessions' = c.sessions
  BY DEF Become, Good
<1>2. Same => c.known = Known'
  BY <1>1 DEF At, Same, Known
<1> QED BY <1>1, <1>2, BecomeSound DEF At

(* The caches and the session in front, after a step.                       *)
Fine ==
  /\ Same => Inv'
  /\ sessions' \subseteq sessions
  /\ active' # active /\ active \in sessions' => s'[active].visible = FALSE

(* The same with the focus, when the handler began in front of a session.   *)
LEMMA BecomeFine ==
  ASSUME ApprovalsAssumption, NEW c, NEW w, Good(c, w), At(c), Become(w),
         c.from = active \/ active \notin c.sessions
  PROVE  Fine
<1>1. s' = w.s /\ active' = w.active /\ sessions' = w.sessions
  BY DEF Become
<1>2. /\ w.sessions = c.sessions /\ w.sessions \subseteq Ids
      /\ c.from # 0 => w.active = c.from \/ w.s[c.from].visible = FALSE
  BY DEF Good, Sound, Away
<1>3. 0 \notin Ids
  BY DEF ApprovalsAssumption
<1> QED BY <1>1, <1>2, <1>3, BecomeInv DEF Fine

(* A step that is not the tab's.                                            *)
LEMMA StillFine ==
  ASSUME Inv, s' = s, sessions' = sessions, active' = active, queue' = queue
  PROVE  Fine
<1>1. W.active = active /\ W.s = s /\ W.sessions = sessions /\ W.queue = queue
  BY DEF W
<1>2. /\ W'.s = s' /\ W'.active = active' /\ W'.queue = queue' /\ W'.sessions = sessions'
      /\ DOMAIN W' = PageFields
  BY DEF W, PageFields
<1>3. Sources' = Sources
  BY DEF Sources
<1>4. Same => Start'.known = Start.known
  BY DEF Start, Same, Known
<1>5. Start'.given = Start.given
  BY <1>3 DEF Start
<1> QED BY <1>1, <1>2, <1>4, <1>5 DEF Inv, Sound, Fine

(* The CLI prints, asks, or takes an answer; the Hub replays.               *)
LEMMA CliFine ==
  ASSUME ApprovalsAssumption, Inv, NEW i \in Ids, Cli(i) \/ Replay(i)
  PROVE  Fine
<1>1. ASSUME NEW tail, Become(Heard(i, tail)), i \in sessions PROVE Fine
  <2> DEFINE y == [s[i] EXCEPT !.tail = tail]
             v == Put(W, i, y)
             u == TrackApprovalHintFromChunk(v, i)
             z == [u.s[i] EXCEPT !.check = TRUE]
  <2>1. Like(W.s[i], y, Start.given[i]) /\ W.s = s
    BY WGood, KeptOf DEF Like, Kept, Fields
  <2>2. [W EXCEPT !.s[i].tail = tail] = v
    BY <2>1 DEF Put
  <2> HIDE DEF y
  <2>3. Stays(Start, W, v)
    BY <2>1, WGood, PutStays
  <2> HIDE DEF v
  <2>4. Good(Start, u)
    BY <2>3, WGood, TrackGood DEF Stays
  <2> HIDE DEF u
  <2>5. Like(u.s[i], z, Start.given[i])
    BY <2>4, KeptOf DEF Like, Kept, Fields
  <2>6. [u EXCEPT !.s[i].check = TRUE] = Put(u, i, z)
    BY DEF Put
  <2> HIDE DEF z
  <2>7. Good(Start, Put(u, i, z)) /\ Good(Start, W)
    BY <2>4, <2>5, PutStays, WGood DEF Stays
  <2>8. Heard(i, tail) \in {W, u, Put(u, i, z)}
    BY <2>2, <2>6 DEF Heard, u
  <2>9. Good(Start, Heard(i, tail))
    BY <2>4, <2>7, <2>8
  <2> QED BY <1>1, <2>9, WGood, BecomeFine
<1>2. CASE (\E p \in Prompts : Ask(i, p)) \/ Redraw(i) \/ Output(i) \/ Spinner(i) \/ Replay(i)
  <2>1. i \in sessions /\ \E tail : Become(Heard(i, tail))
    BY <1>2 DEF Ask, Redraw, Output, Spinner, Replay, Chunk
  <2> QED BY <1>1, <2>1
<1>3. CASE TakesAnswer(i) \/ AnsweredElsewhere(i)
  BY <1>3, StillFine DEF TakesAnswer, AnsweredElsewhere
<1> QED BY <1>2, <1>3 DEF Cli

(* A session that gets a source from the Hub.                               *)
LEMMA GivenGood ==
  ASSUME Inv, NEW i \in Ids, NEW g, NEW y, Kept(y, g), y.visible = s[i].visible
  PROVE  /\ Good([Start EXCEPT !.given = [Sources EXCEPT ![i] = g]], Put(W, i, y))
         /\ At([Start EXCEPT !.given = [Sources EXCEPT ![i] = g]])
<1> DEFINE c == [Start EXCEPT !.given = [Sources EXCEPT ![i] = g]]
           v == Put(W, i, y)
<1>1. /\ c.from = active /\ c.sessions = sessions /\ c.given = [Sources EXCEPT ![i] = g]
      /\ c.known = Known
  BY DEF Start
<1>2. /\ DOMAIN v = PageFields /\ v.s = [s EXCEPT ![i] = y] /\ v.active = active
      /\ v.queue = queue /\ v.sessions = sessions
  BY DEF W, Put, PageFields
<1>3. /\ DOMAIN s = Ids /\ \A j \in Ids : Kept(s[j], Sources[j])
      /\ active \in sessions \cup {0} /\ active \in Ids \cup {0}
      /\ sessions \subseteq Ids /\ sessions \subseteq Known
      /\ queue \in Seq(Ids) /\ Once(queue)
      /\ \A n \in DOMAIN queue : queue[n] \in Ids /\ queue[n] \in Known
                                 /\ s[queue[n]].visible = TRUE
  <2>1. Good(Start, W) /\ W.s = s /\ W.queue = queue /\ W.sessions = sessions
        /\ W.active = active /\ Start.given = Sources /\ Start.known = Known
        /\ active \in Ids \cup {0}
    BY WGood
  <2>2. \A n \in DOMAIN queue : queue[n] \in Ids
    BY <2>1 DEF Good, Sound
  <2> QED BY <2>1, <2>2 DEF Good, Sound
<1> HIDE DEF c, v
<1>4. DOMAIN v.s = Ids /\ v.s[i] = y /\ \A j \in Ids \ {i} : v.s[j] = s[j]
  BY <1>2, <1>3
<1>5. DOMAIN Sources = Ids /\ c.given[i] = g /\ \A j \in Ids \ {i} : c.given[j] = Sources[j]
  BY <1>1 DEF Sources
<1>6. \A j \in Ids : Kept(v.s[j], c.given[j])
  BY <1>3, <1>4, <1>5
<1>7. \A j \in Ids : v.s[j].visible = s[j].visible
  BY <1>4
<1>8. At(c)
  BY <1>1 DEF At, Known
<1> QED BY <1>1, <1>2, <1>3, <1>4, <1>6, <1>7, <1>8 DEF Good, Sound, Away, c, v

(* The Hub may have found the prompt first, in a session the bar does not   *)
(* show; what the switch then finds in it has no source, or this one.       *)
LEMMA DetectedFine ==
  ASSUME ApprovalsAssumption, Inv, NEW i \in Ids, HandleGoApprovalDetected(i)
  PROVE  Fine
<1> DEFINE p == asked[i]
           g == [by |-> "go", sig |-> p]
           z == ResetBgApprovalMisses(CancelApprovalHintConfirm(s[i]))
           x == CacheApprovalOptions(z, p, TRUE)
           y == [x EXCEPT !.cand = None, !.ripe = FALSE, !.consumed = None, !.src = g]
           c == [Start EXCEPT !.given = [Sources EXCEPT ![i] = g]]
           v == Put(W, i, y)
           w == SetApprovalVisible(v, i, TRUE)
           u == ShowOptions(w, i, p, TRUE)
<1>1. Kept(s[i], Sources[i])
  BY WGood, KeptOf
<1>2. Like(s[i], z, Sources[i])
  <2> DEFINE k == CancelApprovalHintConfirm(s[i])
  <2>1. Like(s[i], k, Sources[i])
    BY <1>1, CancelConfirmLike
  <2> HIDE DEF k
  <2>2. Like(k, ResetBgApprovalMisses(k), Sources[i])
    BY <2>1, ResetBgLike DEF Like
  <2>3. Like(s[i], ResetBgApprovalMisses(k), Sources[i])
    BY <2>1, <2>2, LikeAlong
  <2> QED BY <2>3 DEF k
<1> HIDE DEF z
<1>3. DOMAIN x = Fields /\ x.cache = p /\ x.visible = s[i].visible
  BY <1>2 DEF Like, Kept, Fields, CacheApprovalOptions
<1> HIDE DEF x
<1>4. DOMAIN y = Fields /\ y.src = g /\ y.cache = p /\ y.visible = s[i].visible
  BY <1>3 DEF Fields
<1>5. g.sig = p
  OBVIOUS
<1> HIDE DEF y, g
<1>6. Kept(y, g) /\ y.visible = s[i].visible
  BY <1>1, <1>4, <1>5 DEF Kept
<1>7. Good(c, v) /\ At(c)
  BY <1>6, GivenGood
<1>8. c.from = active /\ c.given[i] = g
  BY DEF Start, Sources
<1>9. v.active = active
  BY DEF Put, W
<1>10. [W EXCEPT !.s[i] = y] = v
  BY DEF Put
<1> HIDE DEF c, v
<1>11. Good(c, w)
  BY <1>7, <1>8, <1>9, SetVisibleGood
<1>12. Become(IF i = w.active THEN u ELSE w)
  BY <1>10 DEF HandleGoApprovalDetected, Told, p, g, x, y, z
<1> HIDE DEF w
<1>13. w.s[i].src = NoSource \/ w.s[i].src.sig = p
  BY <1>5, <1>8, <1>11, KeptOf DEF Kept
<1> DEFINE go == TRUE
<1> HIDE DEF go
<1>14. Stays(c, w, ShowOptions(w, i, p, go))
  BY <1>11, <1>13, ShowToldStays
<1>15. Good(c, u)
  BY <1>14 DEF Stays, go
<1> HIDE DEF u
<1>16. Good(c, IF i = w.active THEN u ELSE w)
  BY <1>11, <1>15
<1> QED BY <1>7, <1>8, <1>12, <1>16, BecomeFine

(* A marker the Hub announces, answered before or not.                      *)
LEMMA MarkerFine ==
  ASSUME ApprovalsAssumption, Inv, NEW i \in Ids, HandleHubApprovalMarker(i)
  PROVE  Fine
<1> DEFINE p == asked[i]
           g == [by |-> "hub", sig |-> p]
           f == ForgetConsumed(s[i])
           z == ResetBgApprovalMisses(CancelApprovalHintConfirm(f))
           x == CacheApprovalOptions(z, p, FALSE)
           y == [x EXCEPT !.cand = None, !.ripe = FALSE, !.src = g]
           c == [Start EXCEPT !.given = [Sources EXCEPT ![i] = g]]
           v == Put(W, i, y)
           w == SetApprovalVisible(v, i, TRUE)
           u == ShowOptions(w, i, p, FALSE)
<1>1. Kept(s[i], Sources[i])
  BY WGood, KeptOf
<1>2. Like(s[i], z, Sources[i])
  <2>1. Like(s[i], f, Sources[i])
    BY <1>1, ForgetConsumedLike
  <2> HIDE DEF f
  <2> DEFINE k == CancelApprovalHintConfirm(f)
  <2>2. Like(s[i], k, Sources[i])
    BY <2>1, CancelConfirmLike, LikeAlong DEF Like
  <2> HIDE DEF k
  <2>3. Like(s[i], ResetBgApprovalMisses(k), Sources[i])
    BY <2>2, ResetBgLike, LikeAlong DEF Like
  <2> QED BY <2>3 DEF k
<1> HIDE DEF z
<1>3. DOMAIN x = Fields /\ x.cache = p /\ x.visible = s[i].visible
  BY <1>2 DEF Like, Kept, Fields, CacheApprovalOptions
<1> HIDE DEF x
<1>4. DOMAIN y = Fields /\ y.src = g /\ y.cache = p /\ y.visible = s[i].visible
  BY <1>3 DEF Fields
<1>5. g.sig = p
  OBVIOUS
<1> HIDE DEF y, g
<1>6. Kept(y, g) /\ y.visible = s[i].visible
  BY <1>1, <1>4, <1>5 DEF Kept
<1>7. Good(c, v) /\ At(c)
  BY <1>6, GivenGood
<1>8. c.from = active
  BY DEF Start
<1>9. v.active = active
  BY DEF Put, W
<1>10. [W EXCEPT !.s[i] = y] = v
  BY DEF Put
<1> HIDE DEF c, v
<1>11. Good(c, w)
  BY <1>7, <1>8, <1>9, SetVisibleGood
<1>12. Become(W) \/ Become(u) \/ Become(w)
  <2>1. Become(IF p \in s[i].answered \/ s[i].consumed = p THEN W
               ELSE IF i = w.active THEN u ELSE w)
    BY <1>10 DEF HandleHubApprovalMarker, Told, p, f, g, x, y, z
  <2> HIDE DEF w, u
  <2> QED BY <2>1
<1> HIDE DEF w
<1>13. Good(c, u)
  BY <1>11, ShowFoundStays DEF Stays
<1> HIDE DEF u
<1>14. CASE Become(W)
  BY <1>14, WGood, BecomeFine
<1>15. CASE Become(u) \/ Become(w)
  BY <1>7, <1>8, <1>11, <1>13, <1>15, BecomeFine
<1> QED BY <1>12, <1>14, <1>15

(* The Hub takes a prompt back: only if it is the one its source names.     *)
LEMMA ClearedFine ==
  ASSUME ApprovalsAssumption, Inv, NEW i \in Ids, HandleGoApprovalCleared(i)
  PROVE  Fine
<1> DEFINE x == ResetBgApprovalMisses(CancelApprovalHintConfirm(ClearApprovalOptions(s[i])))
           y == [x EXCEPT !.cand = None, !.ripe = FALSE]
           v == Put(W, i, y)
           w == SetApprovalVisible(v, i, FALSE)
           u == HideActionBar(w, i)
           g == Start.given[i]
<1>1. Kept(s[i], g)
  BY WGood, KeptOf
<1>2. Like(s[i], x, g)
  <2> DEFINE j == ClearApprovalOptions(s[i])
  <2>1. Like(s[i], j, g)
    BY <1>1, ClearLike
  <2> HIDE DEF j
  <2> DEFINE k == CancelApprovalHintConfirm(j)
  <2>2. Like(s[i], k, g)
    BY <2>1, CancelConfirmLike, LikeAlong DEF Like
  <2> HIDE DEF k
  <2>3. Like(s[i], ResetBgApprovalMisses(k), g)
    BY <2>2, ResetBgLike, LikeAlong DEF Like
  <2> QED BY <2>3 DEF k, j
<1> HIDE DEF x
<1>3. Like(s[i], y, g)
  <2>1. Like(x, y, g)
    BY <1>2 DEF Like, Kept, Fields
  <2> QED BY <1>2, <2>1, LikeAlong
<1>4. [W EXCEPT !.s[i] = y] = v
  BY DEF Put
<1> HIDE DEF y
<1>5. Good(Start, v)
  <2>1. Like(W.s[i], y, g) /\ Good(Start, W)
    BY <1>3, WGood
  <2> QED BY <2>1, PutStays DEF Stays
<1> HIDE DEF v
<1>6. Good(Start, w)
  BY <1>5, SetInvisibleGood DEF Stays
<1>7. Become(W) \/ Become(u) \/ Become(w)
  <2>1. Become(IF IsA(hub[i], Markers) \/ s[i].src # [by |-> "go", sig |-> hub[i]] THEN W
               ELSE IF i = active THEN u ELSE w)
    BY <1>4 DEF HandleGoApprovalCleared, Told, x, y
  <2> HIDE DEF w, u
  <2> QED BY <2>1
<1> HIDE DEF w
<1>8. Good(Start, u)
  BY <1>6, HideActionBarGood
<1> HIDE DEF u
<1> QED BY <1>6, <1>7, <1>8, WGood, BecomeFine

(* A change of one session's record with nothing else.                      *)
LEMMA PutFromW ==
  ASSUME Inv, NEW i \in Ids, NEW y, DOMAIN y = DOMAIN s[i], y.cache = s[i].cache,
         y.src = s[i].src, y.visible = s[i].visible
  PROVE  Good(Start, Put(W, i, y))
<1>1. Kept(s[i], Start.given[i]) /\ W.s = s /\ Good(Start, W)
  BY WGood, KeptOf
<1>2. Like(s[i], y, Start.given[i])
  BY <1>1, OtherLike
<1> QED BY <1>1, <1>2, PutStays DEF Stays

(* The fields of a session's record.                                        *)
LEMMA FieldsOf ==
  ASSUME Inv, NEW i \in Ids
  PROVE  DOMAIN s[i] = Fields
  BY WGood, KeptOf DEF Kept

(* A sighting confirmed: it is still the prompt in the cache.               *)
LEMMA ConfirmFine ==
  ASSUME ApprovalsAssumption, Inv, NEW i \in Ids, ConfirmFires(i)
  PROVE  Fine
<1> DEFINE p == s[i].confirm
           y == [s[i] EXCEPT !.confirm = None, !.trusted = FALSE]
           w == Put(W, i, y)
           v == SetApprovalVisible(w, i, TRUE)
           u == ShowOptions(v, i, p, s[i].go)
<1>1. DOMAIN y = DOMAIN s[i] /\ y.cache = s[i].cache /\ y.src = s[i].src
      /\ y.visible = s[i].visible
  BY FieldsOf DEF Fields
<1>2. [W EXCEPT !.s[i].confirm = None, !.s[i].trusted = FALSE] = w
  BY WGood, ShapeOf DEF Put
<1> HIDE DEF y
<1>3. Good(Start, w)
  BY <1>1, PutFromW
<1>4. w.active = Start.from
  BY WGood DEF Put, W
<1> HIDE DEF w
<1>5. Good(Start, v)
  BY <1>3, <1>4, SetVisibleGood
<1>6. Become(w) \/ (s[i].cache = p /\ Become(u)) \/ Become(v)
  <2>1. Become(IF s[i].cache # p THEN w ELSE IF i = v.active THEN u ELSE v)
    BY <1>2 DEF ConfirmFires, Later, Later2
  <2> HIDE DEF v, u
  <2> QED BY <2>1
<1> HIDE DEF v
<1>7. ASSUME s[i].cache = p PROVE Good(Start, u)
  <2>1. Kept(v.s[i], Start.given[i]) /\ Start.given[i] = s[i].src /\ Kept(s[i], Start.given[i])
    BY <1>5, WGood, KeptOf DEF Sources
  <2>2. v.s[i].src = NoSource \/ v.s[i].src.sig = p
    BY <1>7, <2>1 DEF Kept
  <2> QED BY <1>5, <2>2, ShowToldStays DEF Stays
<1> HIDE DEF u, p
<1> QED BY <1>3, <1>5, <1>6, <1>7, WGood, BecomeFine

(* A session in the background that has stopped asking.                     *)
LEMMA BgFine ==
  ASSUME ApprovalsAssumption, Inv, NEW i \in Ids, BgSettles(i)
  PROVE  Fine
<1> DEFINE y == ResetBgApprovalMisses(s[i])
           w == Put(W, i, y)
           v == Put(w, i, ClearApprovalOptions(w.s[i]))
           u == SetApprovalVisible(v, i, FALSE)
           g == Start.given[i]
<1>1. Like(s[i], y, g) /\ W.s = s
  BY WGood, KeptOf, ResetBgLike
<1>2. [W EXCEPT !.s[i] = ResetBgApprovalMisses(@)] = w
  BY <1>1 DEF Put
<1> HIDE DEF y
<1>3. Good(Start, w)
  BY <1>1, WGood, PutStays DEF Stays
<1>4. [w EXCEPT !.s[i] = ClearApprovalOptions(@)] = v
  BY DEF Put
<1> HIDE DEF w
<1>5. Good(Start, v)
  <2>1. Like(w.s[i], ClearApprovalOptions(w.s[i]), g)
    BY <1>3, KeptOf, ClearLike
  <2> QED BY <1>3, <2>1, PutStays DEF Stays
<1> HIDE DEF v
<1>6. Good(Start, u)
  BY <1>5, SetInvisibleGood DEF Stays
<1>7. Become(w) \/ Become(u)
  <2>1. Become(IF ~ s[i].visible \/ i = active THEN w ELSE u)
    BY <1>2, <1>4 DEF BgSettles, Later, Later2
  <2> HIDE DEF u
  <2> QED BY <2>1
<1> HIDE DEF u
<1> QED BY <1>3, <1>6, <1>7, WGood, BecomeFine

(* The timers that look again.                                              *)
LEMMA LooksFine ==
  ASSUME ApprovalsAssumption, Inv, NEW i \in Ids,
         CheckFires(i) \/ H9Fires(i) \/ RescanFires(i) \/ RecheckFires(i)
  PROVE  Fine
<1> DEFINE a == [s[i] EXCEPT !.check = FALSE]
           b == [s[i] EXCEPT !.h9Timer = FALSE]
           d == [s[i] EXCEPT !.rescan = FALSE]
           e == [s[i] EXCEPT !.recheck = FALSE]
<1>1. \A y \in {a, b, d, e} : DOMAIN y = DOMAIN s[i] /\ y.cache = s[i].cache
                              /\ y.src = s[i].src /\ y.visible = s[i].visible
  BY FieldsOf DEF Fields
<1>2. /\ [W EXCEPT !.s[i].check = FALSE] = Put(W, i, a)
      /\ [W EXCEPT !.s[i].h9Timer = FALSE] = Put(W, i, b)
      /\ [W EXCEPT !.s[i].rescan = FALSE] = Put(W, i, d)
      /\ [W EXCEPT !.s[i].recheck = FALSE] = Put(W, i, e)
  BY WGood DEF Put
<1> HIDE DEF a, b, d, e
<1>3. \E y \in {a, b, d, e} :
         \/ Become(DetectApproval(Put(W, i, y), i))
         \/ Become(MaybeAutoSwitch(DetectApproval(Put(W, i, y), i)))
  BY <1>2 DEF CheckFires, H9Fires, RescanFires, RecheckFires, Later, Later2
<1>4. PICK y \in {a, b, d, e} :
         \/ Become(DetectApproval(Put(W, i, y), i))
         \/ Become(MaybeAutoSwitch(DetectApproval(Put(W, i, y), i)))
  BY <1>3
<1>5. Good(Start, Put(W, i, y))
  BY <1>1, <1>4, PutFromW
<1>6. Good(Start, DetectApproval(Put(W, i, y), i))
  BY <1>5, DetectApprovalGood
<1>7. Good(Start, MaybeAutoSwitch(DetectApproval(Put(W, i, y), i)))
  BY <1>6, MaybeAutoSwitchGood
<1> QED BY <1>4, <1>6, <1>7, WGood, BecomeFine

(* The windows that close with time.                                        *)
LEMMA PassesFine ==
  ASSUME ApprovalsAssumption, Inv, NEW i \in Ids, Passes(i)
  PROVE  Fine
<1> DEFINE a == [s[i] EXCEPT !.supp = FALSE]
           b == ForgetConsumed(s[i])
           d == [s[i] EXCEPT !.latch = FALSE]
           e == [s[i] EXCEPT !.ripe = TRUE]
<1>1. \A y \in {a, b, d, e} : DOMAIN y = DOMAIN s[i] /\ y.cache = s[i].cache
                              /\ y.src = s[i].src /\ y.visible = s[i].visible
  BY FieldsOf DEF Fields, ForgetConsumed
<1>2. /\ [W EXCEPT !.s[i].supp = FALSE] = Put(W, i, a)
      /\ [W EXCEPT !.s[i] = ForgetConsumed(@)] = Put(W, i, b)
      /\ [W EXCEPT !.s[i].latch = FALSE] = Put(W, i, d)
      /\ [W EXCEPT !.s[i].ripe = TRUE] = Put(W, i, e)
  BY WGood DEF Put
<1> HIDE DEF a, b, d, e
<1>3. PICK y \in {a, b, d, e} : Become(Put(W, i, y))
  BY <1>2 DEF Passes, Later, Later2
<1>4. Good(Start, Put(W, i, y))
  BY <1>1, <1>3, PutFromW
<1> QED BY <1>3, <1>4, WGood, BecomeFine

(* A session is one of the numbers.                                         *)
LEMMA BarOf ==
  ASSUME Inv, NEW i \in sessions
  PROVE  i \in Ids
  BY WGood

(* The answers.                                                             *)
LEMMA ChoiceFine ==
  ASSUME ApprovalsAssumption, Inv, NEW i \in sessions, NEW n, NEW confirmed,
         Become(SendChoice(W, i, n, confirmed))
  PROVE  Fine
<1>1. Good(Start, W) /\ i \in Ids /\ Start.from = active
  BY WGood
<1>2. Good(Start, SendChoice(W, i, n, confirmed))
  BY <1>1, SendChoiceGood
<1> QED BY <1>1, <1>2, WGood, BecomeFine

(* Answers from the bar, free text, batches and multiple choices.           *)
LEMMA SendsFine ==
  ASSUME ApprovalsAssumption, Inv, NEW i \in sessions,
         Sends(W, i) \/ Sends([W EXCEPT !.s[i].latch = FALSE], i)
  PROVE  Fine
<1> DEFINE x == [s[i] EXCEPT !.mqOff = FALSE]
           y == [s[i] EXCEPT !.latch = FALSE, !.mqOff = FALSE]
<1>1. Good(Start, W) /\ i \in Ids /\ Start.from = active /\ W.s = s /\ At(Start)
  BY WGood
<1>2. \A z \in {x, y} : DOMAIN z = DOMAIN s[i] /\ z.cache = s[i].cache /\ z.src = s[i].src
                        /\ z.visible = s[i].visible
  BY <1>1, FieldsOf DEF Fields
<1>3. [W EXCEPT !.s[i].mqOff = FALSE] = Put(W, i, x)
  BY <1>1 DEF Put
<1>4. [[W EXCEPT !.s[i].latch = FALSE] EXCEPT !.s[i].mqOff = FALSE] = Put(W, i, y)
  BY <1>1, ShapeOf DEF Put, PageFields
<1> HIDE DEF x, y
<1>5. PICK z \in {x, y} : Become(Answer(Put(W, i, z), i))
  BY <1>3, <1>4 DEF Sends, Act
<1>6. Good(Start, Put(W, i, z))
  BY <1>1, <1>2, <1>5, PutFromW
<1>7. Good(Start, Answer(Put(W, i, z), i))
  BY <1>1, <1>6, AnswerGood
<1> QED BY <1>1, <1>5, <1>7, BecomeFine

(* A change of what is selected.                                            *)
LEMMA PickFine ==
  ASSUME ApprovalsAssumption, Inv, NEW i \in Ids, NEW y, DOMAIN y = DOMAIN s[i],
         y.cache = s[i].cache, y.src = s[i].src, y.visible = s[i].visible, Become(Put(W, i, y))
  PROVE  Fine
  BY PutFromW, WGood, BecomeFine

(* The options of a batch and of a multiple choice.                         *)
LEMMA SelectsFine ==
  ASSUME ApprovalsAssumption, Inv, NEW i \in Ids,
         SelectBatchOption(i) \/ ToggleMultiSelectOption(i)
  PROVE  Fine
<1>1. PICK chosen : \/ Become([W EXCEPT !.s[i].sel = chosen])
                    \/ Become([W EXCEPT !.s[i].multi = chosen])
  BY DEF SelectBatchOption, ToggleMultiSelectOption, Later, Later2
<1> DEFINE a == [s[i] EXCEPT !.sel = chosen]
           b == [s[i] EXCEPT !.multi = chosen]
<1>2. \A y \in {a, b} : DOMAIN y = DOMAIN s[i] /\ y.cache = s[i].cache /\ y.src = s[i].src
                        /\ y.visible = s[i].visible
  BY FieldsOf DEF Fields
<1>3. [W EXCEPT !.s[i].sel = chosen] = Put(W, i, a) /\ [W EXCEPT !.s[i].multi = chosen] = Put(W, i, b)
  BY WGood DEF Put
<1> HIDE DEF a, b
<1>4. Become(Put(W, i, a)) \/ Become(Put(W, i, b))
  BY <1>1, <1>3
<1> QED BY <1>2, <1>4, PickFine

(* A message from the input field closes the bar as an answer does.         *)
LEMMA SendFine ==
  ASSUME ApprovalsAssumption, Inv, NEW record, DoSend(record)
  PROVE  Fine
<1> DEFINE i == active
           x == s[i]
           y == [x EXCEPT !.consumed = IF x.cache = None THEN @ ELSE x.cache, !.mqOff = FALSE,
                          !.latch = FALSE,
                          !.answered = IF record /\ IsA(x.cache, Markers)
                                       THEN @ \cup {x.cache} ELSE @]
<1>1. i \in Ids /\ Good(Start, W) /\ Start.from = active /\ W.s = s
  BY WGood DEF DoSend
<1>2. DOMAIN y = DOMAIN x /\ y.cache = x.cache /\ y.src = x.src /\ y.visible = x.visible
  BY <1>1, FieldsOf DEF Fields
<1>3. Become(Answered(W, i, y))
  BY DEF DoSend, Act, Answered
<1> HIDE DEF y
<1>4. Like(W.s[i], y, Start.given[i])
  <2>1. Kept(x, Start.given[i])
    BY <1>1, KeptOf
  <2>2. Like(x, y, Start.given[i])
    BY <1>2, <2>1, OtherLike
  <2> QED BY <1>1, <2>2
<1>5. Good(Start, Answered(W, i, y))
  BY <1>1, <1>4, AnsweredGood
<1> QED BY <1>1, <1>3, <1>5, WGood, BecomeFine

(* The controls of the bar.                                                 *)
LEMMA HidesFine ==
  ASSUME ApprovalsAssumption, Inv, ManuallyHideActionBar
  PROVE  Fine
<1> DEFINE i == active
           y == [s[i] EXCEPT !.hid = IF s[i].cache = None THEN @ ELSE s[i].cache]
           v == Put(W, i, y)
           u == [v EXCEPT !.bar = NoBar]
<1>1. i \in Ids
  BY WGood DEF ManuallyHideActionBar
<1>2. DOMAIN y = DOMAIN s[i] /\ y.cache = s[i].cache /\ y.src = s[i].src
      /\ y.visible = s[i].visible
  BY <1>1, FieldsOf DEF Fields
<1>3. [W EXCEPT !.bar = NoBar,
                !.s[i].hid = IF s[i].cache = None THEN @ ELSE s[i].cache] = u
  BY WGood, ShapeOf DEF Put, PageFields
<1> HIDE DEF y
<1>4. Good(Start, v)
  BY <1>1, <1>2, PutFromW
<1> HIDE DEF v
<1>5. Good(Start, u)
  BY <1>4, BarStays DEF Stays
<1> HIDE DEF u
<1>6. Become(u)
  BY <1>3 DEF ManuallyHideActionBar, Control, Act
<1> QED BY <1>5, <1>6, WGood, BecomeFine

(* The bar is shown again.                                                  *)
LEMMA ReshowFine ==
  ASSUME ApprovalsAssumption, Inv, ReshowActionBar
  PROVE  Fine
<1> DEFINE i == active
           y == [s[i] EXCEPT !.hid = None]
           v == Put(W, i, y)
<1>1. i \in Ids
  BY WGood DEF ReshowActionBar
<1>2. DOMAIN y = DOMAIN s[i] /\ y.cache = s[i].cache /\ y.src = s[i].src
      /\ y.visible = s[i].visible
  BY <1>1, FieldsOf DEF Fields
<1>3. [W EXCEPT !.s[i].hid = None] = v
  BY WGood DEF Put
<1> HIDE DEF y
<1>4. Good(Start, v)
  BY <1>1, <1>2, PutFromW
<1> HIDE DEF v
<1>5. Good(Start, DetectApproval(v, i))
  BY <1>1, <1>4, DetectApprovalGood
<1>6. Become(DetectApproval(v, i))
  BY <1>3 DEF ReshowActionBar, Control, Act
<1> QED BY <1>5, <1>6, WGood, BecomeFine

(* The cross on the bar; the bar folded and unfolded.                       *)
LEMMA DismissFine ==
  ASSUME ApprovalsAssumption, Inv, Dismiss \/ ToggleActionBarCollapsed
  PROVE  Fine
<1> DEFINE i == bar.of
           w == HideActionBar(W, i)
           y == [w.s[i] EXCEPT !.supp = TRUE]
<1>1. i \in sessions
  BY DEF Dismiss, ToggleActionBarCollapsed
<1>2. i \in Ids /\ Good(Start, W) /\ Start.from = active
  BY <1>1, WGood
<1>3. Good(Start, w)
  BY <1>2, HideActionBarGood
<1>4. Good(Start, ShowActionBar(W, i, s[i].cache))
  BY <1>2, ShowActionBarStays DEF Stays
<1> HIDE DEF w
<1>5. Like(w.s[i], y, Start.given[i])
  BY <1>2, <1>3, KeptOf DEF Like, Kept, Fields
<1>6. [w EXCEPT !.s[i].supp = TRUE] = Put(w, i, y)
  BY DEF Put
<1> HIDE DEF y
<1>7. Good(Start, Put(w, i, y))
  BY <1>2, <1>3, <1>5, PutStays DEF Stays
<1>8. CASE Dismiss
  <2>1. Become(Put(w, i, y))
    BY <1>6, <1>8 DEF Dismiss, Control, Act, w
  <2> QED BY <1>2, <1>7, <2>1, WGood, BecomeFine
<1>9. CASE ToggleActionBarCollapsed
  <2>1. Become(ShowActionBar(W, i, s[i].cache))
    BY <1>9 DEF ToggleActionBarCollapsed, Control, Act
  <2> QED BY <1>2, <1>4, <2>1, WGood, BecomeFine
<1> QED BY <1>8, <1>9

(* The banner of a form of questions is closed.                             *)
LEMMA BannerFine ==
  ASSUME ApprovalsAssumption, Inv, CloseBanner
  PROVE  Fine
<1> DEFINE i == active
           off == Put(W, i, [W.s[i] EXCEPT !.mqOff = TRUE])
           shut == Put(off, i, [off.s[i] EXCEPT !.mq = FALSE])
           v == Put(shut, i, [shut.s[i] EXCEPT !.latch = FALSE])
           u == SetApprovalVisible(v, i, FALSE)
<1>1. i \in Ids /\ Good(Start, W)
  BY WGood DEF CloseBanner
<1>2. Become(IF s[i].visible /\ s[i].cache = None THEN u ELSE v)
  BY DEF CloseBanner, Control, Act, Put
<1>3. Good(Start, off)
  <2>1. Like(W.s[i], [W.s[i] EXCEPT !.mqOff = TRUE], Start.given[i])
    BY <1>1, KeptOf DEF Like, Kept, Fields
  <2> QED BY <1>1, <2>1, PutStays DEF Stays
<1> HIDE DEF off
<1>4. Good(Start, shut)
  <2>1. Like(off.s[i], [off.s[i] EXCEPT !.mq = FALSE], Start.given[i])
    BY <1>1, <1>3, KeptOf DEF Like, Kept, Fields
  <2> QED BY <1>1, <1>3, <2>1, PutStays DEF Stays
<1> HIDE DEF shut
<1>5. Good(Start, v)
  <2>1. Like(shut.s[i], [shut.s[i] EXCEPT !.latch = FALSE], Start.given[i])
    BY <1>1, <1>4, KeptOf DEF Like, Kept, Fields
  <2> QED BY <1>1, <1>4, <2>1, PutStays DEF Stays
<1> HIDE DEF v
<1>6. Good(Start, u)
  BY <1>1, <1>5, SetInvisibleGood DEF Stays
<1> HIDE DEF u
<1> QED BY <1>2, <1>5, <1>6, WGood, BecomeFine

(* Sessions that end, start over, go away or come to the front.             *)
LEMMA EndFine ==
  ASSUME ApprovalsAssumption, Inv, NEW i \in Ids, SessionEnd(i)
  PROVE  Fine
<1> DEFINE z == CancelApprovalHintConfirm(s[i])
           x == [z EXCEPT !.mq = FALSE, !.latch = FALSE, !.dead = TRUE]
           v == Put(W, i, x)
           u == Shown(v, i, FALSE)
           w == [u EXCEPT !.typed[i] = FALSE]
           g == Start.given[i]
<1>1. Good(Start, W) /\ Start.from = active /\ W.s = s /\ Kept(s[i], g)
  BY WGood, KeptOf
<1>2. Like(s[i], z, g)
  BY <1>1, CancelConfirmLike
<1>3. Like(s[i], x, g)
  <2> HIDE DEF z
  <2>1. Like(z, x, g)
    BY <1>2 DEF Like, Kept, Fields
  <2> QED BY <1>2, <2>1, LikeAlong
<1>4. [W EXCEPT !.s[i] = x] = v
  BY DEF Put
<1> HIDE DEF z, x
<1>5. Good(Start, v)
  BY <1>1, <1>3, PutStays DEF Stays
<1> HIDE DEF v
<1>6. Good(Start, u)
  BY <1>5, UnshownGood DEF Stays
<1> HIDE DEF u
<1>7. Good(Start, w)
  <2>1. \A b \in BOOLEAN : Good(Start, [u EXCEPT !.typed[i] = b])
    BY <1>6, TypedStays DEF Stays
  <2> QED BY <2>1
<1> HIDE DEF w
<1>8. Good(Start, MaybeAutoSwitch(w))
  BY <1>7, MaybeAutoSwitchGood
<1>9. Become(MaybeAutoSwitch(w))
  BY <1>4 DEF SessionEnd, w, u, x, z
<1> QED BY <1>1, <1>8, <1>9, WGood, BecomeFine

(* A session whose history is gone holds no prompt.                         *)
LEMMA ForgottenKept ==
  ASSUME NEW x, NEW g, Kept(x, g), NEW h
  PROVE  Kept(Forgotten(x), h) /\ Forgotten(x).visible = FALSE /\ Forgotten(x).src = NoSource
         /\ DOMAIN Forgotten(x) = Fields
  BY DEF Kept, Fields, Forgotten

(* The history of a session starts over.                                    *)
LEMMA ResetFine ==
  ASSUME ApprovalsAssumption, Inv, NEW i \in Ids, ResetLocalSessionHistory(i)
  PROVE  Fine
<1> DEFINE v == Shown(W, i, FALSE)
           y == Forgotten(v.s[i])
           x == [y EXCEPT !.answered = s[i].answered]
           u == Put(v, i, x)
           w == [u EXCEPT !.bar = NoBar]
           g == Start.given[i]
<1>1. Good(Start, W) /\ Start.from = active /\ W.s = s
  BY WGood
<1>2. Good(Start, v)
  BY <1>1, UnshownGood DEF Stays
<1>3. v.s[i].visible = FALSE /\ Kept(v.s[i], g)
  BY <1>1, <1>2, UnshownGood, KeptOf
<1>6. Become(IF i = active THEN w ELSE u)
  BY DEF ResetLocalSessionHistory, Put
<1> HIDE DEF v
<1>4. Kept(y, g) /\ y.visible = FALSE /\ y.src = NoSource /\ DOMAIN y = Fields
  BY <1>3, ForgottenKept
<1> HIDE DEF y
<1>9. Like(v.s[i], x, g)
  BY <1>3, <1>4 DEF Like, Kept, Fields
<1> HIDE DEF x
<1>5. Good(Start, u)
  BY <1>2, <1>9, PutStays DEF Stays
<1> HIDE DEF u
<1>7. Good(Start, w)
  BY <1>5, BarStays DEF Stays
<1> HIDE DEF w
<1>8. Good(Start, IF i = active THEN w ELSE u)
  BY <1>5, <1>7
<1> QED BY <1>1, <1>6, <1>8, WGood, BecomeFine

(* A new record holds no prompt.                                            *)
LEMMA FreshKept ==
  ASSUME NEW b \in BOOLEAN, NEW g
  PROVE  Kept([Fresh EXCEPT !.attached = b], g)
  BY DEF Fresh, Kept, Fields

(* Neither does what is left of one, whether its process is there or not.   *)
LEMMA RemovedKept ==
  ASSUME NEW x, NEW g
  PROVE  /\ Kept(Removed(x), g) /\ Removed(x).visible = FALSE
         /\ \A b : Kept([Removed(x) EXCEPT !.dead = b], g)
  BY DEF Fresh, Removed, Kept, Fields

(* A session goes away; it leaves the queue with its caches, and if it was  *)
(* in front another one comes.                                              *)
LEMMA RemoveFine ==
  ASSUME ApprovalsAssumption, Inv, NEW i \in Ids, RemoveLocalSession(i)
  PROVE  Fine
<1> DEFINE u == Shown(W, i, FALSE)
           y == Removed(s[i])
           gone == [u EXCEPT !.s[i] = y, !.sessions = @ \ {i}]
           w == [gone EXCEPT !.active = 0, !.bar = NoBar]
           c == [from |-> IF i = active THEN 0 ELSE active, sessions |-> sessions \ {i},
                 known |-> IF lost.st = "down" THEN lost.had ELSE sessions \ {i},
                 given |-> Sources]
<1>1. Good(Start, W) /\ Start.from = active /\ Start.given = Sources /\ W.active = active
      /\ Start.sessions = sessions /\ Start.known = Known /\ 0 \notin Ids
      /\ active \in sessions \cup {0} /\ sessions \subseteq Ids
  BY WGood DEF ApprovalsAssumption
<1>2. Good(Start, u) /\ u.active = active /\ \A n \in DOMAIN u.queue : u.queue[n] # i
  <2>1. Good(Start, W)
    BY <1>1
  <2>2. Stays(Start, W, u) /\ \A n \in DOMAIN u.queue : u.queue[n] # i
    BY <2>1, UnshownGood
  <2> HIDE DEF u
  <2> QED BY <1>1, <2>2 DEF Stays
<1>3. Kept(y, Sources[i]) /\ y.visible = FALSE
  BY RemovedKept
<1>4. c.from = (IF i = active THEN 0 ELSE active) /\ c.sessions = sessions \ {i}
      /\ c.known = (IF lost.st = "down" THEN lost.had ELSE sessions \ {i}) /\ c.given = Sources
  OBVIOUS
<1>5. Become(IF i # active THEN MaybeAutoSwitch(gone)
             ELSE IF w.sessions = {} THEN w ELSE Activate(w, CHOOSE j \in w.sessions : TRUE))
  BY DEF RemoveLocalSession
<1> HIDE DEF u, y, c
<1>6. /\ DOMAIN gone = PageFields /\ gone.s = [u.s EXCEPT ![i] = y] /\ gone.active = active
      /\ gone.queue = u.queue /\ gone.sessions = sessions \ {i}
  BY <1>1, <1>2 DEF Good, Sound, PageFields
<1> HIDE DEF gone
<1>7. DOMAIN gone.s = Ids /\ gone.s[i] = y /\ \A j \in Ids \ {i} : gone.s[j] = u.s[j]
  BY <1>2, <1>6 DEF Good, Sound
<1>8. \A j \in Ids : Kept(gone.s[j], c.given[j])
  BY <1>1, <1>2, <1>3, <1>4, <1>7 DEF Good, Sound
<1>9. /\ u.queue \in Seq(Ids) /\ Once(u.queue) /\ sessions \subseteq Known
      /\ \A n \in DOMAIN u.queue : u.queue[n] \in Ids /\ u.queue[n] \in Known
                                   /\ u.s[u.queue[n]].visible = TRUE
  BY <1>1, <1>2 DEF Good, Sound
<1>10. Known \ {i} \subseteq c.known
  BY <1>4 DEF Known
<1>11. \A n \in DOMAIN gone.queue : gone.queue[n] \in c.known
                                    /\ gone.s[gone.queue[n]].visible = TRUE
  BY <1>2, <1>6, <1>7, <1>9, <1>10
<1>12. At(c) /\ (c.from = active \/ active \notin c.sessions)
  BY <1>4 DEF At
<1>13. CASE i # active
  <2>1. Become(MaybeAutoSwitch(gone))
    BY <1>5, <1>13
  <2>2. gone.active \in gone.sessions \cup {0} /\ gone.sessions \subseteq c.known
    BY <1>1, <1>6, <1>9, <1>10, <1>13
  <2>3. Good(c, gone)
    BY <1>1, <1>4, <1>6, <1>7, <1>8, <1>9, <1>11, <1>13, <2>2, WGood DEF Good, Sound, Away
  <2> QED BY <1>12, <2>1, <2>3, MaybeAutoSwitchGood, BecomeFine
<1>14. CASE i = active
  <2>1. /\ DOMAIN w = PageFields /\ w.s = gone.s /\ w.active = 0 /\ w.queue = gone.queue
        /\ w.sessions = gone.sessions
    BY <1>6 DEF PageFields
  <2> HIDE DEF w
  <2>2. c.from = 0 /\ w.sessions \subseteq c.known
    BY <1>4, <1>6, <1>9, <1>10, <1>14, <2>1
  <2>3. Good(c, w)
    BY <1>1, <1>4, <1>6, <1>7, <1>8, <1>9, <1>11, <2>1, <2>2 DEF Good, Sound, Away
  <2>4. CASE w.sessions = {}
    BY <1>5, <1>12, <1>14, <2>3, <2>4, BecomeFine
  <2>5. CASE w.sessions # {}
    <3> DEFINE j == CHOOSE j \in w.sessions : TRUE
    <3>1. j \in w.sessions
      BY <2>5
    <3>2. Become(Activate(w, j))
      BY <1>5, <1>14, <2>5
    <3> HIDE DEF j
    <3>3. Good(c, Activate(w, j))
      BY <2>2, <2>3, <3>1, ActivateGood
    <3> QED BY <1>12, <3>2, <3>3, BecomeFine
  <2> QED BY <2>4, <2>5
<1> QED BY <1>13, <1>14

(* The user changes the session: the caches stay sound, the focus moves.    *)
LEMMA ActivateInv ==
  ASSUME ApprovalsAssumption, Inv, NEW i \in Ids, ActivateSession(i)
  PROVE  (Same => Inv') /\ sessions' \subseteq sessions
<1> DEFINE c == [Start EXCEPT !.from = 0]
<1>1. Good(Start, W) /\ At(Start)
  BY WGood
<1>2. /\ c.from = 0 /\ c.sessions = Start.sessions /\ c.given = Start.given
      /\ c.known = Start.known
  BY DEF Start
<1> HIDE DEF c
<1>3. Good(c, W) /\ At(c)
  BY <1>1, <1>2 DEF Good, Sound, Away, At
<1>4. i \in W.sessions
  BY WGood DEF ActivateSession
<1>5. Good(c, Activate(W, i))
  BY <1>2, <1>3, <1>4, ActivateGood
<1>6. Become(Activate(W, i))
  BY DEF ActivateSession, Control, Act
<1> QED BY <1>3, <1>5, <1>6, BecomeInv

(* A held button and a swiped card change nothing yet.                      *)
LEMMA AsksFine ==
  ASSUME ApprovalsAssumption, Inv,
         NEW i \in Ids, RequestHighRiskConfirmation(i) \/ SwipeReject(i)
  PROVE  Fine
<1>1. Become(W)
  BY DEF RequestHighRiskConfirmation, SwipeReject, Act
<1> QED BY <1>1, WGood, BecomeFine

(* The confirmation and the end of the grace time: the session may be       *)
(* gone.                                                                    *)
LEMMA LateFine ==
  ASSUME ApprovalsAssumption, Inv, NEW ok \in BOOLEAN, HighRiskConfirmed(ok) \/ UndoGraceEnds(ok)
  PROVE  Fine
<1>1. \/ Become(W)
      \/ risk \in sessions /\ Become(SendChoice(W, risk, 1, TRUE))
      \/ undo \in sessions /\ Become(SendChoice(W, undo, 2, FALSE))
  BY DEF HighRiskConfirmed, UndoGraceEnds, Later2
<1>2. CASE Become(W)
  BY <1>2, WGood, BecomeFine
<1> DEFINE yes == TRUE
           no == FALSE
<1> HIDE DEF yes, no
<1>3. CASE risk \in sessions /\ Become(SendChoice(W, risk, 1, TRUE))
  <2>1. Become(SendChoice(W, risk, 1, yes))
    BY <1>3 DEF yes
  <2> QED BY <1>3, <2>1, ChoiceFine
<1>4. CASE undo \in sessions /\ Become(SendChoice(W, undo, 2, FALSE))
  <2>1. Become(SendChoice(W, undo, 2, no))
    BY <1>4 DEF no
  <2> QED BY <1>4, <2>1, ChoiceFine
<1> QED BY <1>1, <1>2, <1>3, <1>4

(* A button of the bar or of a card.                                        *)
LEMMA ClickFine ==
  ASSUME ApprovalsAssumption, Inv, NEW n, Click(n) \/ \E i \in Ids : CardClick(i, n)
  PROVE  Fine
<1>1. \E i \in sessions : Become(SendChoice(W, i, n, FALSE))
  BY DEF Click, CardClick, OnCard, Act
<1>2. PICK i \in sessions : Become(SendChoice(W, i, n, FALSE))
  BY <1>1
<1> DEFINE no == FALSE
<1> HIDE DEF no
<1>3. Become(SendChoice(W, i, n, no))
  BY <1>2 DEF no
<1> QED BY <1>3, ChoiceFine

(* The other ways to answer.                                                *)
LEMMA AnswersFine ==
  ASSUME ApprovalsAssumption, Inv,
         \/ SendSingleFreeText
         \/ \E i \in Ids : SendBatchChoices(i) \/ SendMultiSelectChoices(i)
  PROVE  Fine
<1>1. \E i \in sessions : Sends(W, i) \/ Sends([W EXCEPT !.s[i].latch = FALSE], i)
  BY DEF SendSingleFreeText, SendBatchChoices, SendMultiSelectChoices, Act
<1> QED BY <1>1, SendsFine

(* The user, but for a change of session that he asks for himself.          *)
LEMMA UserFine ==
  ASSUME ApprovalsAssumption, Inv, User, ~ \E i \in Ids : ActivateSession(i)
  PROVE  Fine
<1>1. CASE \E n \in 1 .. 2 : Click(n) \/ \E i \in Ids : CardClick(i, n)
  BY <1>1, ClickFine
<1>2. CASE SendSingleFreeText \/ \E i \in Ids : SendBatchChoices(i) \/ SendMultiSelectChoices(i)
  BY <1>2, AnswersFine
<1>3. CASE ManuallyHideActionBar \/ ReshowActionBar \/ Dismiss \/ ToggleActionBarCollapsed
           \/ CloseBanner
  BY <1>3, HidesFine, ReshowFine, DismissFine, BannerFine
<1>4. CASE \E i \in Ids : SelectBatchOption(i) \/ ToggleMultiSelectOption(i)
                          \/ SwipeReject(i) \/ RequestHighRiskConfirmation(i)
  BY <1>4, SelectsFine, AsksFine
<1>5. CASE \E i \in Ids : SessionEnd(i) \/ RemoveLocalSession(i) \/ ResetLocalSessionHistory(i)
  BY <1>5, EndFine, RemoveFine, ResetFine
<1>6. CASE \E ok \in BOOLEAN : HighRiskConfirmed(ok) \/ UndoGraceEnds(ok) \/ DoSend(ok)
  BY <1>6, LateFine, SendFine
<1> QED BY <1>1, <1>2, <1>3, <1>4, <1>5, <1>6 DEF User

(* A step of the page, with the socket as it is.                            *)
LEMMA PageFine ==
  ASSUME ApprovalsAssumption, Inv, Page
  PROVE  (Same => Inv') /\ sessions' \subseteq sessions
         /\ (Fine \/ \E i \in Ids : ActivateSession(i))
<1>1. CASE \E i \in Ids : ActivateSession(i)
  BY <1>1, ActivateInv
<1>2. CASE User /\ ~ \E i \in Ids : ActivateSession(i)
  BY <1>2, UserFine DEF Fine
<1>3. CASE \E i \in Ids : Cli(i)
  BY <1>3, CliFine DEF Fine
<1>4. CASE \E i \in Ids : Announced(i)
  BY <1>4, DetectedFine, MarkerFine, ClearedFine DEF Fine, Announced
<1>5. CASE \E i \in Ids : Timers(i)
  BY <1>5, ConfirmFine, BgFine, LooksFine, PassesFine DEF Fine, Timers
<1> QED BY <1>1, <1>2, <1>3, <1>4, <1>5 DEF Page

(* The queue outlives the sessions: it holds sessions the tab had.          *)
LEMMA LostHolds ==
  ASSUME Inv, Out, SocketLost
  PROVE  Inv' /\ Out'
<1>1. /\ sessions' = {} /\ active' = 0 /\ s' = s /\ queue' = queue
      /\ lost'.st = "down" /\ lost'.had = (IF lost.st = "up" THEN sessions ELSE lost.had)
      /\ lost'.last = (IF active = 0 THEN lost.last ELSE active) /\ lost.st # "down"
  BY DEF SocketLost
<1>2. Known \subseteq lost'.had /\ Known' = lost'.had
  BY <1>1 DEF Known, Out
<1>3. sessions \subseteq Ids /\ active \in Ids \cup {0}
  BY WGood
<1>4. Out'
  BY <1>1, <1>3 DEF Out
<1>5. W.s = s /\ W.queue = queue /\ Start.known = Known /\ Start.given = Sources
  BY WGood
<1>6. /\ DOMAIN s = Ids /\ \A j \in Ids : Kept(s[j], Sources[j])
      /\ queue \in Seq(Ids) /\ Once(queue)
      /\ \A n \in DOMAIN queue : queue[n] \in Known /\ s[queue[n]].visible = TRUE
  BY <1>5 DEF Inv, Sound
<1>7. /\ W'.s = s' /\ W'.active = active' /\ W'.queue = queue' /\ W'.sessions = sessions'
      /\ DOMAIN W' = PageFields /\ Start'.known = Known' /\ Start'.given = Sources'
  BY DEF W, PageFields, Start
<1>8. Sources' = Sources
  BY <1>1 DEF Sources
<1>9. Inv'
  BY <1>1, <1>2, <1>6, <1>7, <1>8 DEF Inv, Sound
<1> QED BY <1>4, <1>9

(* The open socket empties the queue and forgets what is kept.              *)
LEMMA ReopenedHolds ==
  ASSUME Inv, Out, Reopened
  PROVE  Inv' /\ Out' /\ sessions' = {}
<1>1. /\ sessions' = {} /\ active' = active /\ s' = [j \in Ids |-> Forgotten(s[j])]
      /\ queue' = <<>> /\ lost'.st = "opened" /\ lost'.had = lost.had /\ lost'.last = lost.last
  BY DEF Reopened, Out
<1>2. active' \in sessions' \cup {0}
  BY <1>1, WGood DEF Reopened
<1>3. Out'
  BY <1>1 DEF Out
<1>4. \A j \in Ids : Kept(s[j], Sources[j])
  BY WGood DEF Inv, Sound
<1>5. \A j \in Ids : Kept(s'[j], Sources'[j])
  BY <1>1, <1>4, ForgottenKept
<1>6. /\ W'.s = s' /\ W'.active = active' /\ W'.queue = queue' /\ W'.sessions = sessions'
      /\ DOMAIN W' = PageFields /\ Start'.known = Known' /\ Start'.given = Sources'
  BY DEF W, PageFields, Start
<1>7. queue' \in Seq(Ids) /\ DOMAIN queue' = {}
  BY <1>1
<1>8. Once(queue')
  BY <1>7 DEF Once
<1>9. Inv'
  BY <1>1, <1>2, <1>5, <1>6, <1>7, <1>8 DEF Inv, Sound
<1> QED BY <1>1, <1>3, <1>9

(* The sessions come back to an empty queue, and one of them to the front.  *)
LEMMA SnapshotHolds ==
  ASSUME ApprovalsAssumption, Inv, Out,
         NEW present, NEW another \in BOOLEAN, Snapshot(present, another)
  PROVE  Inv' /\ Out' /\ active = 0
<1> DEFINE x(i) == IF ~ another THEN s[i] ELSE [Removed(s[i]) EXCEPT !.dead = i \notin present]
           f == [i \in Ids |-> x(i)]
           w == [W EXCEPT !.s = f, !.sessions = present]
           c == [from |-> 0, sessions |-> present, known |-> present, given |-> Sources]
<1>1. /\ lost.st = "opened" /\ present \subseteq lost.had
      /\ lost'.st = "up" /\ lost'.had = {} /\ lost'.last = lost.last
      /\ Become(IF lost.last \in present THEN Activate(w, lost.last) ELSE w)
  BY DEF Snapshot
<1>2. sessions = {} /\ present \subseteq Ids /\ active = 0
  BY <1>1, WGood DEF Out
<1>3. /\ \A j \in Ids : Kept(s[j], Sources[j])
      /\ queue \in Seq(Ids) /\ Once(queue) /\ \A n \in DOMAIN queue : queue[n] \in Known
  BY WGood DEF Inv, Sound
<1>4. DOMAIN queue = {}
  BY <1>1, <1>2, <1>3 DEF Known
<1>5. \A j \in Ids : Kept(x(j), Sources[j])
  BY <1>3, RemovedKept
<1>6. /\ DOMAIN w = PageFields /\ w.s = f /\ w.active = 0 /\ w.queue = queue
      /\ w.sessions = present
  BY <1>2 DEF W, PageFields
<1>7. DOMAIN f = Ids /\ \A j \in Ids : Kept(f[j], Sources[j])
  BY <1>5
<1>8. c.from = 0 /\ c.sessions = present /\ c.known = present /\ c.given = Sources
  OBVIOUS
<1> HIDE DEF w, f, x, c
<1>9. Good(c, w)
  BY <1>2, <1>3, <1>4, <1>6, <1>7, <1>8 DEF Good, Sound, Away
<1> DEFINE v == IF lost.last \in present THEN Activate(w, lost.last) ELSE w
<1>10. Good(c, v)
  <2>1. CASE lost.last \in present
    BY <1>6, <1>8, <1>9, <2>1, ActivateGood
  <2>2. CASE lost.last \notin present
    BY <1>9, <2>2
  <2> QED BY <2>1, <2>2
<1>11. Become(v)
  BY <1>1
<1> HIDE DEF v
<1>12. sessions' = present
  BY <1>8, <1>10, <1>11 DEF Become, Good
<1>13. Known' = c.known
  BY <1>1, <1>8, <1>12 DEF Known
<1>14. Inv'
  BY <1>10, <1>11, <1>13, BecomeSound
<1>15. Out'
  BY <1>1 DEF Out
<1> QED BY <1>2, <1>14, <1>15

(* What the focus is about.                                                 *)
Focus == active' # active /\ active \in sessions' => s'[active].visible = FALSE

(* Every step.                                                              *)
LEMMA NextFine ==
  ASSUME ApprovalsAssumption, Inv, Out, [Next]_vars
  PROVE  Inv' /\ Out' /\ (Focus \/ \E i \in Ids : ActivateSession(i))
<1>1. ASSUME Same, lost'.last = lost.last, lost'.st = lost.st, Same => Inv',
             sessions' \subseteq sessions
      PROVE  Inv' /\ Out'
  BY <1>1 DEF Out, Same
<1>2. CASE UNCHANGED vars
  <2>1. Fine /\ lost' = lost
    BY <1>2, StillFine DEF vars
  <2> QED BY <1>1, <2>1 DEF Fine, Same, Focus
<1>3. CASE Page /\ UNCHANGED lost
  BY <1>1, <1>3, PageFine DEF Fine, Same, Focus
<1>4. CASE \E i \in Ids : Replay(i)
  <2>1. Fine
    BY <1>4, CliFine
  <2>2. Same /\ lost'.last = lost.last /\ lost'.st = lost.st
    BY <1>4 DEF Replay, Same
  <2> QED BY <1>1, <2>1, <2>2 DEF Fine, Focus
<1>5. CASE \E i \in Ids, p \in Prompts : AsksUnseen(i, p)
  <2>1. Fine
    BY <1>5, StillFine DEF AsksUnseen
  <2>2. Same /\ lost'.last = lost.last /\ lost'.st = lost.st
    BY <1>5 DEF AsksUnseen, Same
  <2> QED BY <1>1, <2>1, <2>2 DEF Fine, Focus
<1>6. CASE SocketLost
  BY <1>6, LostHolds DEF Focus, SocketLost
<1>7. CASE Reopened
  BY <1>7, ReopenedHolds DEF Focus
<1>8. CASE \E present \in SUBSET Ids, another \in BOOLEAN : Snapshot(present, another)
  <2>1. Inv' /\ Out' /\ active = 0
    BY <1>8, SnapshotHolds
  <2>2. active \notin sessions'
    BY <2>1 DEF ApprovalsAssumption, Inv, Sound, W
  <2> QED BY <2>1, <2>2 DEF Focus
<1> QED BY <1>2, <1>3, <1>4, <1>5, <1>6, <1>7, <1>8 DEF Next, Socket

(* The tab starts with nothing asked.                                       *)
LEMMA InitInv ==
  ASSUME ApprovalsAssumption, Init
  PROVE  Inv /\ Out
<1>1. /\ W.active = active /\ W.s = s /\ W.sessions = sessions /\ W.queue = queue
      /\ DOMAIN W = PageFields /\ Start.known = Known /\ Start.given = Sources
  BY DEF W, PageFields, Start
<1>2. \A j \in Ids : s[j] = [Fresh EXCEPT !.attached = j = active]
  BY DEF Init
<1>3. ASSUME NEW j \in Ids PROVE Kept(s[j], Sources[j])
  <2> DEFINE b == j = active
  <2>1. b \in BOOLEAN
    OBVIOUS
  <2>2. s[j] = [Fresh EXCEPT !.attached = b]
    BY <1>2
  <2> HIDE DEF b
  <2> QED BY <2>1, <2>2, FreshKept
<1>4. DOMAIN s = Ids /\ sessions = Ids /\ active \in Ids /\ queue = <<>>
  BY DEF Init
<1>5. queue \in Seq(Ids) /\ DOMAIN queue = {}
  BY <1>4
<1>6. Once(queue)
  BY <1>5 DEF Once
<1>7. lost.st = "up" /\ lost.had = {} /\ lost.last = 0
  BY DEF Init
<1>8. Known = Ids
  BY <1>4, <1>7 DEF Known
<1> QED BY <1>1, <1>3, <1>4, <1>5, <1>6, <1>7, <1>8 DEF Inv, Sound, Out

-----------------------------------------------------------------------------
(* The caches of every session are sound between two handlers, and the      *)
(* queue holds each waiting session at most once, with the socket or        *)
(* without it (approvalSourceCache, approvalRawOptionsCache,                *)
(* approvalAutoSwitchQueue).                                                *)
THEOREM CachesAreSound == Spec => [](Inv /\ Out)
<1>1. Init => Inv /\ Out
  BY InitInv, ApprovalsAssumption
<1>2. Inv /\ Out /\ [Next]_vars => Inv' /\ Out'
  BY NextFine, ApprovalsAssumption
<1> QED BY <1>1, <1>2, PTL DEF Spec

(* What is kept agrees, from the inductive invariant.                       *)
LEMMA InvBookkeeping ==
  ASSUME Inv
  PROVE  Bookkeeping
<1>1. /\ \A j \in Ids : Kept(s[j], Sources[j])
      /\ sessions \subseteq Ids
      /\ \A n \in DOMAIN queue : queue[n] \in Known /\ s[queue[n]].visible = TRUE
  BY WGood DEF Inv, Sound
<1> QED BY <1>1 DEF Bookkeeping, SourceMatchesCache, QueueIsPending, Kept

(* The source kept for a prompt is the source of the prompt in the cache,   *)
(* and only waiting sessions of the tab are queued: those it had, while the *)
(* socket is lost, none when it is open again, and those it has after the   *)
(* snapshot (handleGoApprovalCleared, setApprovalVisible, the handlers of   *)
(* the socket).                                                             *)
THEOREM BookkeepingHolds == Spec => []Bookkeeping
  BY CachesAreSound, InvBookkeeping, PTL

(* The automatic switch never takes the screen from a session that waits    *)
(* (maybeAutoSwitchToNextApproval): on the way through a handler the        *)
(* session it began in is in front or has stopped waiting.                  *)
THEOREM FocusKept == Spec => FocusStays
<1>1. Inv /\ Out /\ [Next]_vars
      => [ \A i \in sessions' : /\ active = i /\ active' # i
                                /\ ~ \E j \in Ids : ActivateSession(j)
                                => ~ s'[i].visible ]_vars
  BY NextFine, ApprovalsAssumption DEF Focus
<1> QED BY <1>1, CachesAreSound, PTL DEF Spec, FocusStays

=============================================================================

----------------------------- MODULE InputProofs -----------------------------
(***************************************************************************)
(* Proofs about the way of an input: Compose, from the input field of the  *)
(* tab to the message, and InputGate, from the message to the wrapper.     *)
(*                                                                         *)
(* Compose, for any sessions and any number of events: no message is sent  *)
(* that was not asked for, no more Enters are fired than bodies were       *)
(* pasted, and a draft stays with its session.  A handler is a function of *)
(* the record p of the variables it changes.  The lemmas say what each     *)
(* helper does to fields of it: "due" and the reservations for the first   *)
(* two theorems, the input field for the third.  The theorems follow by    *)
(* cases on the actions.                                                   *)
(*                                                                         *)
(* InputGate, for any number of senders, flush goroutines, inputs and      *)
(* reattachments and any queue limit: nothing is lost or doubled, and the  *)
(* path implements one ordered queue wherever no goroutine goes on with a  *)
(* session object that was replaced.                                       *)
(***************************************************************************)
EXTENDS Compose, InputGate, FiniteSetTheorems, TLAPS

Fields == {"inp", "up", "deferred", "sweep", "line", "recent", "due", "owed"}

(* Every reserved Enter is owed: more bodies were pasted than Enters fired. *)
Booked(d, o) ==
  /\ DOMAIN d = Ids /\ o \in [Ids -> Int]
  /\ \A i \in Ids : o[i] >= IF d[i].stage = "enter" THEN 1 ELSE 0

Sound(p) ==
  /\ DOMAIN p = Fields /\ p = [x \in Fields |-> p[x]]
  /\ p.due \in Int /\ Booked(p.deferred, p.owed)

(* The requests still on their way: a press during a composition, the timer *)
(* after it, the question for shells.                                       *)
AtComposition == IF pendingSend = TRUE THEN 1 ELSE 0
AtTimer == IF endTimer = TRUE THEN 1 ELSE 0
AtQuestion == IF dialog = None THEN 0 ELSE 1

(* The strengthening: each request under way is backed by a press of its    *)
(* own, and a composition that is not running has none waiting.             *)
Backed ==
  /\ pendingSend \in BOOLEAN /\ endTimer \in BOOLEAN
  /\ due >= AtComposition + AtTimer + AtQuestion
  /\ pendingSend => composing

Numbered ==
  /\ sessions \subseteq Ids /\ {active, last} \subseteq Ids \cup {0}
  /\ dialog # None => dialog.id \in Ids

ComposeInv == /\ due \in Int /\ Booked(deferred, owed)
       /\ Backed /\ Numbered

-----------------------------------------------------------------------------
(* The helpers.                                                             *)

(* A reservation gives way to anything that is no Enter ... *)
LEMMA BookedWithout ==
  ASSUME NEW d, NEW o, Booked(d, o), NEW i \in Ids, NEW x, x.stage # "enter"
  PROVE  Booked([d EXCEPT ![i] = x], o)
BY DEF Booked

(* ... or to one more Enter for one more body. *)
LEMMA BookedAgain ==
  ASSUME NEW d, NEW o, Booked(d, o), NEW i \in Ids
  PROVE  Booked([d EXCEPT ![i] = EnterDue], [o EXCEPT ![i] = @ + 1])
<1> DEFINE e == [d EXCEPT ![i] = EnterDue]
           n == [o EXCEPT ![i] = @ + 1]
<1>1. DOMAIN e = Ids /\ n \in [Ids -> Int]
  BY DEF Booked
<1>2. ASSUME NEW j \in Ids PROVE n[j] >= IF e[j].stage = "enter" THEN 1 ELSE 0
  <2>1. CASE j = i
    <3>1. o[i] \in Int /\ o[i] >= 0  BY DEF Booked
    <3>2. n[j] = o[i] + 1  BY <2>1 DEF Booked
    <3>3. QED  BY <3>1, <3>2
  <2>2. CASE j # i
    <3>1. n[j] = o[j] /\ e[j] = d[j]  BY <2>2 DEF Booked
    <3>2. QED  BY <3>1 DEF Booked
  <2>3. QED  BY <2>1, <2>2
<1>3. QED  BY <1>1, <1>2 DEF Booked

(* An Enter that fires was owed, and its reservation goes with it. *)
LEMMA BookedFired ==
  ASSUME NEW d, NEW o, Booked(d, o), NEW i \in Ids, d[i].stage = "enter"
  PROVE  Booked([d EXCEPT ![i] = Nothing], [o EXCEPT ![i] = @ - 1])
<1> DEFINE e == [d EXCEPT ![i] = Nothing]
           n == [o EXCEPT ![i] = @ - 1]
<1>1. DOMAIN e = Ids /\ n \in [Ids -> Int]
  BY DEF Booked
<1>2. ASSUME NEW j \in Ids PROVE n[j] >= IF e[j].stage = "enter" THEN 1 ELSE 0
  <2>1. CASE j = i
    <3>1. o[i] \in Int /\ o[i] >= 1  BY DEF Booked
    <3>2. n[j] = o[i] - 1 /\ e[j].stage = "none"  BY <2>1 DEF Booked, Nothing
    <3>3. QED  BY <3>1, <3>2
  <2>2. CASE j # i
    <3>1. n[j] = o[j] /\ e[j] = d[j]  BY <2>2 DEF Booked
    <3>2. QED  BY <3>1 DEF Booked
  <2>3. QED  BY <2>1, <2>2
<1>3. QED  BY <1>1, <1>2 DEF Booked

(* CancelDeferredEnter only empties a reservation. *)
LEMMA CancelSound ==
  ASSUME NEW p, Sound(p), NEW i \in Ids
  PROVE  /\ Sound(CancelDeferredEnter(p, i))
         /\ CancelDeferredEnter(p, i).due = p.due
<1> DEFINE q == CancelDeferredEnter(p, i)
<1>1. /\ DOMAIN q = Fields /\ q = [x \in Fields |-> q[x]]
      /\ q.due = p.due /\ q.owed = p.owed
      /\ q.deferred = [p.deferred EXCEPT ![i] = Nothing]
  BY DEF Sound, CancelDeferredEnter, Fields
<1> HIDE DEF q
<1>2. Booked(p.deferred, p.owed) /\ Nothing.stage # "enter"
  BY DEF Sound, Nothing
<1>3. Booked(q.deferred, q.owed)
  BY <1>1, <1>2, BookedWithout
<1>4. QED  BY <1>1, <1>3 DEF Sound, q

(* SendText touches neither the reservations nor the requests. *)
LEMMA SendTextSound ==
  ASSUME NEW p, Sound(p), NEW i, NEW s
  PROVE  Sound(SendText(p, i, s)) /\ SendText(p, i, s).due = p.due
BY DEF Sound, SendText, Fields

(* Nor does SendEnter: what it confirms is already in the line. *)
LEMMA SendEnterSound ==
  ASSUME NEW p, Sound(p), NEW i
  PROVE  Sound(SendEnter(p, i)) /\ SendEnter(p, i).due = p.due
BY DEF Sound, SendEnter, Fields

(* Nor does the reservation of a sweep. *)
LEMMA SweepSound ==
  ASSUME NEW p, Sound(p), NEW i, NEW s
  PROVE  /\ Sound(ScheduleResidueSweep(p, i, s))
         /\ ScheduleResidueSweep(p, i, s).due = p.due
BY DEF Sound, ScheduleResidueSweep, Fields

(* A scheduled Enter is owed by the body just pasted. *)
LEMMA ScheduleSound ==
  ASSUME NEW p, Sound(p), NEW i \in Ids
  PROVE  /\ Sound(ScheduleDeferredEnter(p, i))
         /\ ScheduleDeferredEnter(p, i).due = p.due
<1> DEFINE q == CancelDeferredEnter(p, i)
<1>1. Sound(q) /\ q.due = p.due
  BY CancelSound
<1> HIDE DEF q
<1>2. ScheduleDeferredEnter(p, i) = [q EXCEPT !.deferred[i] = EnterDue, !.owed[i] = @ + 1]
  BY DEF ScheduleDeferredEnter, q
<1> DEFINE r == ScheduleDeferredEnter(p, i)
<1>3. /\ DOMAIN r = Fields /\ r = [x \in Fields |-> r[x]] /\ r.due = q.due
      /\ r.deferred = [q.deferred EXCEPT ![i] = EnterDue]
      /\ r.owed = [q.owed EXCEPT ![i] = @ + 1]
  BY <1>1, <1>2 DEF Sound, Fields
<1>4. Booked(r.deferred, r.owed)
  BY <1>1, <1>3, BookedAgain DEF Sound
<1>5. QED  BY <1>1, <1>3, <1>4 DEF Sound

(* A body whose turn comes after the injected files is not an Enter yet. *)
LEMMA BodySound ==
  ASSUME NEW p, Sound(p), NEW i \in Ids, NEW s
  PROVE  LET q == [p EXCEPT !.deferred[i] = [stage |-> "body", body |-> s]]
         IN  Sound(q) /\ q.due = p.due
BY DEF Sound, Fields, Booked

(* Taking the draft out of the input field. *)
LEMMA TakeSound ==
  ASSUME NEW p, Sound(p), NEW i
  PROVE  LET q == [p EXCEPT !.inp.text = << >>, !.inp.pastes = << >>, !.up[i].busy = FALSE]
         IN  Sound(q) /\ q.due = p.due
BY DEF Sound, Fields

(* sendSubmittedBody: at most one Enter is reserved, for the body it pastes. *)
LEMMA SubmittedSound ==
  ASSUME NEW p, Sound(p), NEW i \in Ids, NEW body
  PROVE  /\ Sound(SendSubmittedBody(p, i, body))
         /\ SendSubmittedBody(p, i, body).due = p.due
<1> DEFINE q == CancelDeferredEnter(p, i)
           t == SendText(q, i, body)
           r == IF Raw(i, body) THEN SendEnter(t, i) ELSE ScheduleDeferredEnter(t, i)
<1>1. Sound(q) /\ q.due = p.due  BY CancelSound
<1> HIDE DEF q
<1>2. Sound(t) /\ t.due = p.due  BY <1>1, SendTextSound
<1> HIDE DEF t
<1>3. Sound(r) /\ r.due = p.due  BY <1>2, SendEnterSound, ScheduleSound
<1> HIDE DEF r
<1>4. SendSubmittedBody(p, i, body) = ScheduleResidueSweep(r, i, body)
  BY DEF SendSubmittedBody, r, t, q
<1>5. QED  BY <1>3, <1>4, SweepSound

(* The end of doSend: the same, for the draft and the uploaded files. *)
LEMMA SubmitSound ==
  ASSUME NEW p, Sound(p), NEW i \in Ids, NEW inj
  PROVE  Sound(SubmitDraft(p, i, inj)) /\ SubmitDraft(p, i, inj).due = p.due
<1> DEFINE body == p.inp.pastes \o p.inp.text
           q == [p EXCEPT !.inp.text = << >>, !.inp.pastes = << >>, !.up[i].busy = FALSE]
           a == SendText(q, i, inj \o body)
           b == SendText(q, i, body)
           c == SendText(q, i, inj)
           d == [c EXCEPT !.deferred[i] = [stage |-> "body", body |-> body]]
           r == IF Raw(i, body) THEN SendEnter(a, i)
                ELSE IF inj = << >> THEN ScheduleDeferredEnter(b, i) ELSE d
<1>1. Sound(q) /\ q.due = p.due  BY TakeSound
<1> HIDE DEF q, body
<1>2. /\ Sound(a) /\ a.due = p.due
      /\ Sound(b) /\ b.due = p.due
      /\ Sound(c) /\ c.due = p.due
  BY <1>1, SendTextSound
<1> HIDE DEF a, b, c
<1>3. Sound(d) /\ d.due = p.due  BY <1>2, BodySound
<1> HIDE DEF d
<1>4. Sound(r) /\ r.due = p.due  BY <1>2, <1>3, SendEnterSound, ScheduleSound
<1> HIDE DEF r
<1>5. SubmitDraft(p, i, inj) = ScheduleResidueSweep(r, i, body)
  BY DEF SubmitDraft, r, d, c, b, a, q, body
<1>6. QED  BY <1>4, <1>5, SweepSound

(* The uploads are noted in their own variable. *)
LEMMA ReplySound ==
  ASSUME NEW p, Sound(p), NEW u
  PROVE  /\ Sound([p EXCEPT !.up = u]) /\ [p EXCEPT !.up = u].due = p.due
         /\ [p EXCEPT !.up = u].inp = p.inp
BY DEF Sound, Fields

(* Past its guards doSend uses up one request. *)
LEMMA BeginSound ==
  ASSUME NEW p, Sound(p), NEW i \in Ids
  PROVE  Sound(Begin(p, i)) /\ Begin(p, i).due = p.due - 1
<1> DEFINE todo == p.inp.files \o LongPastes(p.inp)
           c == Picked(p.inp.pastes, DOMAIN p.inp.pastes \ LongOnes(p.inp.pastes))
           q == [p EXCEPT !.recent = TRUE, !.due = @ - 1, !.inp.files = << >>,
                          !.inp.pastes = c, !.up[i].busy = TRUE]
           v == [p.up EXCEPT ![i].busy = TRUE]
           w == [v EXCEPT ![i].runs = Append(@, [todo |-> todo, inj |-> << >>])]
           o == [q EXCEPT !.up = w]
<1>1. Begin(p, i) = IF todo = << >> THEN SubmitDraft(q, i, << >>) ELSE o
  BY DEF Begin, Sound, Fields
<1> HIDE DEF c, w
<1>2. /\ DOMAIN q = Fields /\ q = [x \in Fields |-> q[x]]
      /\ q.due = p.due - 1 /\ q.deferred = p.deferred /\ q.owed = p.owed
  BY DEF Sound, Fields
<1> HIDE DEF q, todo
<1>3. Sound(q)
  <2>1. p.due - 1 \in Int  BY DEF Sound
  <2>2. QED  BY <1>2, <2>1 DEF Sound
<1>4. Sound(o) /\ o.due = q.due  BY <1>3, ReplySound
<1> HIDE DEF o
<1>5. QED  BY <1>1, <1>2, <1>3, <1>4, SubmitSound

-----------------------------------------------------------------------------
(* The steps.                                                               *)

(* What becomes of the variables "work" stands for. *)
LEMMA BecomeSound ==
  ASSUME NEW p, Sound(p), Become(p)
  PROVE  due' = p.due /\ due' \in Int /\ Booked(deferred, owed)'
BY DEF Become, Sound, Booked

(* What a handler starts from is sound, with one more request after a press. *)
LEMMA WorkSound ==
  ASSUME ComposeInv
  PROVE  /\ Sound(Work) /\ Work.due = due
         /\ Sound(Asked) /\ Asked.due = due + 1
<1>1. Sound(Work) /\ Work.due = due
  BY DEF ComposeInv, Sound, Work, Fields
<1>2. /\ DOMAIN Asked = Fields /\ Asked = [x \in Fields |-> Asked[x]]
      /\ Asked.due = due + 1 /\ Asked.deferred = deferred /\ Asked.owed = owed
  BY DEF Asked, Work, Fields
<1>3. due + 1 \in Int /\ Booked(deferred, owed)
  BY DEF ComposeInv
<1>4. QED  BY <1>1, <1>2, <1>3 DEF Sound

(* doSend uses up a request only when it passes one on, to the question for *)
(* shells or to the session.                                                *)
LEMMA DoSendSound ==
  ASSUME NEW p, Sound(p), NEW i \in Ids, DoSend(p, i)
  PROVE  /\ due' \in Int /\ Booked(deferred, owed)'
         /\ \/ due' = p.due /\ UNCHANGED dialog
            \/ due' = p.due /\ dialog = None
            \/ due' = p.due - 1 /\ UNCHANGED dialog
         /\ \/ UNCHANGED dialog
            \/ dialog'.id \in Ids
<1> DEFINE q == CancelDeferredEnter(p, i)
<1>1. Sound(q) /\ q.due = p.due  BY CancelSound
<1>2. Sound(Begin(q, i)) /\ Begin(q, i).due = p.due - 1  BY <1>1, BeginSound
<1>3. \/ Become(p) /\ UNCHANGED dialog
      \/ Become(q) /\ UNCHANGED dialog
      \/ Become(q) /\ dialog = None /\ dialog'.id \in Ids
      \/ Become(Begin(q, i)) /\ UNCHANGED dialog
  BY DEF DoSend
<1> HIDE DEF q
<1>4. QED  BY <1>1, <1>2, <1>3, BecomeSound

-----------------------------------------------------------------------------
(* The theorems.                                                            *)

(* The page starts without a composition, a question or a reserved Enter.   *)
LEMMA ComposeInitInv == ComposeInit => ComposeInv
<1> SUFFICES ASSUME ComposeInit PROVE ComposeInv  OBVIOUS
<1>1. Booked(deferred, owed)  BY DEF ComposeInit, Booked, Nothing
<1>2. AtComposition = 0 /\ AtTimer = 0 /\ AtQuestion = 0
  BY Zenon DEF ComposeInit, AtComposition, AtTimer, AtQuestion
<1>3. pendingSend \in BOOLEAN /\ endTimer \in BOOLEAN /\ (pendingSend => composing)
  BY Zenon DEF ComposeInit
<1>4. due = 0 /\ Numbered  BY DEF ComposeInit, Numbered
<1>5. QED  BY <1>1, <1>2, <1>3, <1>4 DEF ComposeInv, Backed

(* Each of the three places holds at most one request: flags and one dialog. *)
LEMMA CountsTyped ==
  AtComposition \in {0, 1} /\ AtTimer \in {0, 1} /\ AtQuestion \in {0, 1}
BY DEF AtComposition, AtTimer, AtQuestion

(* Nothing counted changes. *)
LEMMA RestInv ==
  ASSUME ComposeInv, UNCHANGED <<ime, dialog, due>>, Booked(deferred, owed)', Numbered'
  PROVE  ComposeInv'
<1>1. Backed'
  BY DEF ComposeInv, Backed, AtComposition, AtTimer, AtQuestion, ime
<1>2. QED  BY <1>1 DEF ComposeInv

(* A handler that only writes: no request is used up. *)
LEMMA WriteInv ==
  ASSUME ComposeInv, NEW p, Sound(p), p.due = due, Become(p), UNCHANGED <<gone, ime, dialog>>
  PROVE  ComposeInv'
<1>1. due' = due /\ Booked(deferred, owed)'  BY BecomeSound
<1>2. Numbered'  BY DEF ComposeInv, Numbered, gone
<1>3. QED  BY <1>1, <1>2, RestInv

(* Sessions come and go, and drafts change. *)
LEMMA DraftInv ==
  ASSUME ComposeInv, UNCHANGED <<ime, dialog, deferred, due, owed>>, Numbered'
  PROVE  ComposeInv'
BY RestInv DEF ComposeInv, Booked

(* Editing the input field (its handlers in app.ts) leaves all of it alone.  *)
LEMMA EditInv ==
  ASSUME ComposeInv, NEW d, Edit(d)
  PROVE  ComposeInv'
BY DraftInv DEF Edit, ComposeInv, Numbered, gone

(* A press adds a request; during a composition it waits for its end. *)
LEMMA PressInv == ComposeInv /\ Press => ComposeInv'
<1> SUFFICES ASSUME ComposeInv, Press PROVE ComposeInv'  OBVIOUS
<1>1. /\ Sound(Asked) /\ Asked.due = due + 1 /\ due \in Int
      /\ due >= AtComposition + AtTimer + AtQuestion
      /\ pendingSend \in BOOLEAN /\ endTimer \in BOOLEAN /\ (pendingSend => composing)
  BY WorkSound DEF ComposeInv, Backed
<1>2. active \in Ids /\ Numbered /\ UNCHANGED <<sessions, active, last>>
  BY DEF ComposeInv, Numbered, Press, gone
<1>3. CASE composing
  <2>1. /\ pendingSend' = TRUE /\ Become(Asked) /\ UNCHANGED <<endTimer, dialog, composing>>
    BY <1>3 DEF Press
  <2>2. due' = due + 1 /\ due' \in Int /\ Booked(deferred, owed)'
    BY <1>1, <2>1, BecomeSound
  <2>3. due \in Int /\ due >= AtComposition + AtTimer + AtQuestion
    BY <1>1
  <2>4. due' >= AtComposition' + AtTimer' + AtQuestion'
    BY <2>1, <2>2, <2>3 DEF AtComposition, AtTimer, AtQuestion
  <2>5. /\ pendingSend' \in BOOLEAN /\ endTimer' \in BOOLEAN
        /\ pendingSend' => composing'
    BY <1>1, <1>3, <2>1, Zenon
  <2>6. Numbered'  BY <1>2, <2>1 DEF Numbered
  <2>7. QED  BY <2>2, <2>4, <2>5, <2>6 DEF ComposeInv, Backed
<1>4. CASE ~composing
  <2>1. /\ endTimer' = FALSE /\ pendingSend' = FALSE
        /\ DoSend(Asked, active) /\ UNCHANGED composing
    BY <1>4 DEF Press
  <2>2. /\ due' \in Int /\ Booked(deferred, owed)' /\ (dialog' # None => dialog'.id \in Ids)
        /\ \/ due' = due + 1 /\ UNCHANGED dialog
           \/ due' = due + 1 /\ dialog = None
           \/ due' = due /\ UNCHANGED dialog
    BY <1>1, <1>2, <2>1, DoSendSound DEF Numbered
  <2>3. due \in Int /\ due >= AtComposition + AtTimer + AtQuestion
    BY <1>1
  <2>4. due' >= AtComposition' + AtTimer' + AtQuestion'
    BY <2>1, <2>2, <2>3 DEF AtComposition, AtTimer, AtQuestion
  <2>5. /\ pendingSend' \in BOOLEAN /\ endTimer' \in BOOLEAN
        /\ pendingSend' => composing'
    BY <2>1, Zenon
  <2>6. Numbered'  BY <1>2, <2>2 DEF Numbered
  <2>7. QED  BY <2>2, <2>4, <2>5, <2>6 DEF ComposeInv, Backed
<1>5. QED  BY <1>3, <1>4

(* The timer after a composition passes its request on. *)
LEMMA EndTimerFiresInv == ComposeInv /\ EndTimerFires => ComposeInv'
<1> SUFFICES ASSUME ComposeInv, EndTimerFires PROVE ComposeInv'  OBVIOUS
<1>1. Sound(Work) /\ Work.due = due /\ due \in Int  BY WorkSound DEF ComposeInv
<1>2. due >= AtComposition + AtTimer + AtQuestion /\ Numbered  BY DEF ComposeInv, Backed
<1>3. /\ endTimer = TRUE /\ endTimer' = FALSE /\ pendingSend' = pendingSend
      /\ composing' = composing
  BY DEF EndTimerFires, ComposeInv, Backed
<1>4. /\ due' \in Int /\ Booked(deferred, owed)' /\ (dialog' # None => dialog'.id \in Ids)
      /\ \/ due' = due /\ UNCHANGED dialog
         \/ due' = due /\ dialog = None
         \/ due' = due - 1 /\ UNCHANGED dialog
  <2>1. CASE active = 0
    BY <2>1 DEF EndTimerFires, work, ComposeInv, Numbered, Booked
  <2>2. CASE active # 0
    <3>1. active \in Ids /\ DoSend(Work, active)
      BY <2>2, <1>2 DEF EndTimerFires, Numbered
    <3>2. QED  BY <1>1, <1>2, <3>1, DoSendSound DEF Numbered
  <2>3. QED  BY <2>1, <2>2
<1>5. due' >= AtComposition' + AtTimer' + AtQuestion'
  BY <1>1, <1>2, <1>3, <1>4 DEF AtComposition, AtTimer, AtQuestion
<1>6. /\ pendingSend' \in BOOLEAN /\ endTimer' \in BOOLEAN
      /\ pendingSend' => composing'
  BY <1>3, Zenon DEF ComposeInv, Backed
<1>7. Numbered'  BY <1>2, <1>4 DEF Numbered, EndTimerFires, gone
<1>8. QED  BY <1>4, <1>5, <1>6, <1>7 DEF ComposeInv, Backed

(* The answer to the question uses its request up, or drops it. *)
LEMMA AnswerDialogInv == ComposeInv /\ AnswerDialog => ComposeInv'
<1> SUFFICES ASSUME ComposeInv, AnswerDialog PROVE ComposeInv'  OBVIOUS
<1>1. Sound(Work) /\ Work.due = due /\ due \in Int  BY WorkSound DEF ComposeInv
<1>2. due >= AtComposition + AtTimer + AtQuestion /\ Numbered  BY DEF ComposeInv, Backed
<1>3. dialog # None /\ dialog' = None /\ UNCHANGED <<gone, composing, pendingSend, endTimer>>
  BY DEF AnswerDialog, ime
<1>4. due' \in {due, due - 1} /\ due' \in Int /\ Booked(deferred, owed)'
  <2>1. dialog.id \in Ids  BY <1>2, <1>3 DEF Numbered
  <2>2. Sound(Begin(Work, dialog.id)) /\ Begin(Work, dialog.id).due = due - 1
    BY <1>1, <2>1, BeginSound
  <2>3. Become(Work) \/ Become(Begin(Work, dialog.id))  BY DEF AnswerDialog
  <2>4. QED  BY <1>1, <2>2, <2>3, BecomeSound
<1>5. due' >= AtComposition' + AtTimer' + AtQuestion'
  BY <1>1, <1>2, <1>3, <1>4 DEF AtComposition, AtTimer, AtQuestion
<1>6. /\ pendingSend' \in BOOLEAN /\ endTimer' \in BOOLEAN
      /\ pendingSend' => composing'
  BY <1>3, Zenon DEF ComposeInv, Backed
<1>7. Numbered'  BY <1>2, <1>3 DEF Numbered, gone
<1>8. QED  BY <1>4, <1>5, <1>6, <1>7 DEF ComposeInv, Backed

(* The end of a composition hands its request to the timer. *)
LEMMA CompositionEndInv == ComposeInv /\ CompositionEnd => ComposeInv'
<1> SUFFICES ASSUME ComposeInv, CompositionEnd PROVE ComposeInv'  OBVIOUS
<1>1. /\ due \in Int /\ due >= AtComposition + AtTimer + AtQuestion
      /\ due' = due /\ dialog' = dialog /\ Booked(deferred, owed)' /\ Numbered'
  BY DEF CompositionEnd, ComposeInv, Backed, Numbered, gone, work, Booked
<1>2. /\ pendingSend' = FALSE /\ endTimer' \in BOOLEAN
      /\ endTimer' = TRUE => endTimer = TRUE \/ pendingSend = TRUE
  BY Zenon DEF CompositionEnd, ComposeInv, Backed
<1>3. due' >= AtComposition' + AtTimer' + AtQuestion'
  BY <1>1, <1>2 DEF AtComposition, AtTimer, AtQuestion
<1>4. QED  BY <1>1, <1>2, <1>3 DEF ComposeInv, Backed

(* compositionstart begins no request and drops none: nothing waits in it yet. *)
LEMMA CompositionStartInv == ComposeInv /\ CompositionStart => ComposeInv'
<1> SUFFICES ASSUME ComposeInv, CompositionStart PROVE ComposeInv'  OBVIOUS
<1>1. /\ due' = due /\ UNCHANGED <<dialog, pendingSend, endTimer>>
      /\ Booked(deferred, owed)' /\ Numbered' /\ composing' = TRUE
  BY DEF CompositionStart, ComposeInv, Numbered, gone, work, Booked
<1>2. due' >= AtComposition' + AtTimer' + AtQuestion'
  BY <1>1 DEF ComposeInv, Backed, AtComposition, AtTimer, AtQuestion
<1>3. QED  BY <1>1, <1>2 DEF ComposeInv, Backed

(* A reservation fires once: the Enter it sends is one that is owed. *)
LEMMA FireInv ==
  ASSUME ComposeInv, NEW i \in Ids, Fire(i)
  PROVE  ComposeInv'
<1> DEFINE q == CancelDeferredEnter(Work, i)
           e == [SendEnter(q, i) EXCEPT !.owed[i] = @ - 1]
           b == ScheduleDeferredEnter(SendText(q, i, deferred[i].body), i)
<1>1. Sound(Work) /\ Work.due = due  BY WorkSound
<1>2. Sound(q) /\ q.due = due  BY <1>1, CancelSound
<1>3. Sound(b) /\ b.due = due
  <2> HIDE DEF q
  <2>1. QED  BY <1>2, SendTextSound, ScheduleSound
<1>4. ASSUME deferred[i].stage = "enter"
      PROVE  Sound(e) /\ e.due = due
  <2>1. /\ q.deferred = [deferred EXCEPT ![i] = Nothing] /\ q.owed = owed
    BY DEF CancelDeferredEnter, Work
  <2> DEFINE r == SendEnter(q, i)
  <2> HIDE DEF q
  <2>2. /\ Sound(r) /\ r.due = due
        /\ r.deferred = [deferred EXCEPT ![i] = Nothing] /\ r.owed = owed
    BY <1>2, <2>1, SendEnterSound DEF SendEnter, Sound, Fields
  <2> HIDE DEF r
  <2>3. /\ DOMAIN e = Fields /\ e = [x \in Fields |-> e[x]] /\ e.due = due
        /\ e.deferred = [deferred EXCEPT ![i] = Nothing]
        /\ e.owed = [owed EXCEPT ![i] = @ - 1]
    <3>1. e = [r EXCEPT !.owed[i] = @ - 1]  BY DEF r
    <3> HIDE DEF e
    <3>2. QED  BY <2>2, <3>1 DEF Sound, Fields
  <2>4. Booked(e.deferred, e.owed)
    <3>1. Booked(deferred, owed)  BY DEF ComposeInv
    <3> HIDE DEF e
    <3>2. QED  BY <1>4, <2>3, <3>1, BookedFired
  <2>5. QED  BY <1>2, <2>2, <2>3, <2>4 DEF Sound
<1>5. \/ Become(q)
      \/ deferred[i].stage = "enter" /\ Become(e)
      \/ Become(b)
  BY DEF Fire
<1>6. UNCHANGED <<gone, ime, dialog>>  BY DEF Fire
<1> HIDE DEF q, e, b
<1>7. QED  BY <1>2, <1>3, <1>4, <1>5, <1>6, WriteInv

(* An upload notes its reply, or it was the last one and the message goes.  *)
LEMMA UploadBecomes ==
  ASSUME NEW i \in Ids, Upload(i), Sound(Work)
  PROVE  \E p, inj : /\ Sound(p) /\ p.due = Work.due /\ p.inp = Work.inp
                     /\ Become(p) \/ Become(SubmitDraft(p, i, inj))
<1>1. PICK n, r, inj :
        \/ Become([Work EXCEPT !.up[i].runs[n] = r])
        \/ Become(SubmitDraft([Work EXCEPT !.up[i].runs = RemoveAt(@, n)], i, inj))
  BY DEF Upload
<1> DEFINE w == Work
           u == [w.up EXCEPT ![i].runs[n] = r]
           v == [w.up EXCEPT ![i].runs = RemoveAt(@, n)]
<1>2. /\ [Work EXCEPT !.up[i].runs[n] = r] = [w EXCEPT !.up = u]
      /\ [Work EXCEPT !.up[i].runs = RemoveAt(@, n)] = [w EXCEPT !.up = v]
  BY DEF Sound, Fields
<1>3. Become([w EXCEPT !.up = u]) \/ Become(SubmitDraft([w EXCEPT !.up = v], i, inj))
  BY <1>1, <1>2
<1>4. Sound(w)  OBVIOUS
<1> HIDE DEF u, v
<1>5. QED  BY <1>3, <1>4, ReplySound

(* An upload ends; after the last one the message goes out. *)
LEMMA UploadInv ==
  ASSUME ComposeInv, NEW i \in Ids, Upload(i)
  PROVE  ComposeInv'
<1>1. Sound(Work) /\ Work.due = due  BY WorkSound
<1>2. PICK p, inj : /\ Sound(p) /\ p.due = due
                    /\ Become(p) \/ Become(SubmitDraft(p, i, inj))
  BY <1>1, UploadBecomes
<1>3. UNCHANGED <<gone, ime, dialog>>  BY DEF Upload
<1>4. QED  BY <1>2, <1>3, SubmitSound, WriteInv

(* The sweeps and the button that empties the line write no body. *)
LEMMA SweepInv ==
  ASSUME ComposeInv, NEW i \in Ids, SweepFires(i) \/ SweepGivesUp(i)
  PROVE  ComposeInv'
BY DraftInv DEF SweepFires, SweepGivesUp, Become, Work, ComposeInv, Numbered, gone

(* The button's Ctrl-U is written past the reservations.                    *)
LEMMA InputClearInv ==
  ASSUME ComposeInv, InputClear
  PROVE  ComposeInv'
BY DraftInv DEF InputClear, Become, Work, ComposeInv, Numbered, gone

(* A quick command books the Enter of its own body only.                    *)
LEMMA QuickCommandInv ==
  ASSUME ComposeInv, NEW k, QuickCommand(k)
  PROVE  ComposeInv'
<1>1. active \in Ids  BY DEF ComposeInv, Numbered, QuickCommand
<1>2. Sound(Work) /\ Work.due = due  BY WorkSound
<1> DEFINE q == SendSubmittedBody(Work, active, <<New(k)>>)
<1>3. Sound(q) /\ q.due = due  BY <1>1, <1>2, SubmittedSound
<1>4. Become(q) /\ UNCHANGED <<gone, ime, dialog>>  BY DEF QuickCommand
<1> HIDE DEF q
<1>5. QED  BY <1>3, <1>4, WriteInv

(* A removed session takes its reservation along. *)
LEMMA RemoveSessionInv ==
  ASSUME ComposeInv, NEW i \in Ids, RemoveSession(i)
  PROVE  ComposeInv'
<1>1. /\ deferred' = [deferred EXCEPT ![i] = Nothing] /\ owed' = owed
      /\ UNCHANGED <<ime, dialog, due, last>> /\ sessions' = sessions \ {i}
      /\ active' \in {active, 0} \cup sessions
  BY DEF RemoveSession
<1>2. Booked(deferred, owed)'
  BY <1>1, BookedWithout DEF ComposeInv, Nothing
<1>3. Numbered'  BY <1>1 DEF ComposeInv, Numbered
<1>4. QED  BY <1>1, <1>2, <1>3, RestInv

(* A switch, a lost socket and its return only move drafts and sessions.    *)
LEMMA SessionsInv ==
  ASSUME ComposeInv, (\E i \in Ids : Switch(i)) \/ Disconnect \/ Reconnect
  PROVE  ComposeInv'
<1>1. UNCHANGED <<ime, dialog, deferred, due, owed>>
  BY DEF Switch, Disconnect, Reconnect, Same
<1>2. Numbered'
  BY DEF Switch, Disconnect, Reconnect, Activate, Same, ComposeInv, Numbered
<1>3. QED  BY <1>1, <1>2, DraftInv

(* What only changes the input field. *)
LEMMA FillInv ==
  ASSUME ComposeInv, (\E k \in Kinds : Type(k) \/ StagePaste(k))
              \/ (\E c \in 1 .. MaxChips : ExpandChip(c) \/ RemoveChip(c) \/ RemoveFile(c))
              \/ StageAttach \/ (\E f \in loading : AttachRead(f))
  PROVE  ComposeInv'
BY EditInv DEF Type, StagePaste, ExpandChip, RemoveChip, RemoveFile, StageAttach, AttachRead

(* The end of the guard against a double Enter only lets the next press in.  *)
LEMMA GuardEndsInv == ComposeInv /\ GuardEnds => ComposeInv'
BY DraftInv DEF GuardEnds, ComposeInv, Numbered, gone

(* Every step keeps the invariant, by cases on the actions.                 *)
LEMMA StepInv == ComposeInv /\ [ComposeNext]_composeVars => ComposeInv'
<1> SUFFICES ASSUME ComposeInv, [ComposeNext]_composeVars PROVE ComposeInv'  OBVIOUS
<1>1. CASE User
  <2>1. CASE \E k \in {"text", "key"} : Type(k) \/ QuickCommand(k)
    BY <2>1, FillInv, QuickCommandInv DEF Kinds
  <2>2. CASE \E k \in {"chip", "long"} : StagePaste(k)
    BY <2>2, FillInv DEF Kinds
  <2>3. CASE \E c \in 1 .. MaxChips : ExpandChip(c) \/ RemoveChip(c) \/ RemoveFile(c)
    BY <2>3, FillInv
  <2>4. CASE StageAttach \/ Press \/ CompositionStart \/ InputClear
    BY <2>4, FillInv, PressInv, CompositionStartInv, InputClearInv
  <2>5. CASE (\E i \in Ids : Switch(i) \/ RemoveSession(i)) \/ Disconnect
    BY <2>5, SessionsInv, RemoveSessionInv
  <2>6. QED  BY <1>1, <2>1, <2>2, <2>3, <2>4, <2>5 DEF User
<1>2. CASE Timers
  BY <1>2, FireInv, SweepInv DEF Timers
<1>3. CASE Answers
  BY <1>3, UploadInv, FillInv DEF Answers
<1>4. CASE AnswerDialog \/ CompositionEnd \/ EndTimerFires \/ GuardEnds \/ Reconnect
  BY <1>4, AnswerDialogInv, CompositionEndInv, EndTimerFiresInv, GuardEndsInv, SessionsInv
<1>5. CASE UNCHANGED composeVars
  BY <1>5, DraftInv DEF composeVars, gone, ime, work, ComposeInv, Numbered
<1>6. QED  BY <1>1, <1>2, <1>3, <1>4, <1>5 DEF ComposeNext

(* The invariant the two theorems rest on. *)
THEOREM Invariance == ComposeSpec => []ComposeInv
BY ComposeInitInv, StepInv, PTL DEF ComposeSpec

(* No message is sent that the user did not ask for: a composition, its     *)
(* timer and the question for shells pass one request on and never double   *)
(* it (doSend, compositionend, maybeNudgeAiCliLaunchInShell).               *)
THEOREM NothingUnasked == ComposeSpec => []NoUnaskedSend
<1>1. ComposeInv => NoUnaskedSend
  BY CountsTyped DEF ComposeInv, Backed, NoUnaskedSend
<1>2. QED  BY <1>1, Invariance, PTL

(* No more Enters are fired than bodies were pasted (deferred-enter.ts).    *)
THEOREM NoStrayEnter == ComposeSpec => []OneEnterPerBody
<1>1. ComposeInv => OneEnterPerBody  BY DEF ComposeInv, Booked, OneEnterPerBody
<1>2. QED  BY <1>1, Invariance, PTL

-----------------------------------------------------------------------------
(* Drafts.  What is in a row of the input field is looked at as a set.      *)
Piece == [by : Ids, n : Nat, kind : Kinds]
In(q) == {q[n] : n \in DOMAIN q}

(* A row with one piece more, *)
LEMMA InAppend ==
  ASSUME NEW q \in Seq(Piece), NEW t \in Piece
  PROVE  /\ Append(q, t) \in Seq(Piece) /\ In(Append(q, t)) = In(q) \cup {t}
         /\ <<t>> \o q \in Seq(Piece) /\ In(<<t>> \o q) = In(q) \cup {t}
<1>1. /\ Append(q, t) \in Seq(Piece) /\ Len(Append(q, t)) = Len(q) + 1
      /\ \A n \in 1 .. Len(q) : Append(q, t)[n] = q[n]
      /\ Append(q, t)[Len(q) + 1] = t
  OBVIOUS
<1>2. /\ <<t>> \o q \in Seq(Piece) /\ Len(<<t>> \o q) = Len(q) + 1
      /\ \A n \in 1 .. Len(q) : (<<t>> \o q)[n + 1] = q[n]
      /\ (<<t>> \o q)[1] = t
  OBVIOUS
<1>3. /\ DOMAIN q = 1 .. Len(q) /\ Len(q) \in Nat
      /\ DOMAIN Append(q, t) = 1 .. Len(q) + 1 /\ DOMAIN (<<t>> \o q) = 1 .. Len(q) + 1
  BY <1>1, <1>2
<1> DEFINE a == Append(q, t)
           b == <<t>> \o q
<1>4. In(a) = In(q) \cup {t}
  <2>1. DOMAIN a = 1 .. Len(q) + 1 /\ a[Len(q) + 1] = t /\ \A n \in 1 .. Len(q) : a[n] = q[n]
    BY <1>1, <1>3
  <2> HIDE DEF a
  <2> QED BY <1>3, <2>1 DEF In
<1>5. In(b) = In(q) \cup {t}
  <2>1. DOMAIN b = 1 .. Len(q) + 1 /\ b[1] = t /\ \A n \in 1 .. Len(q) : b[n + 1] = q[n]
    BY <1>2, <1>3
  <2> HIDE DEF b
  <2>2. In(b) \subseteq In(q) \cup {t}
    <3>1. ASSUME NEW n \in 1 .. Len(q) + 1 PROVE b[n] \in In(q) \cup {t}
      <4>1. n = 1 \/ (n - 1 \in 1 .. Len(q) /\ b[(n - 1) + 1] = q[n - 1])
        BY <1>3, <2>1, <3>1
      <4>2. n = 1 \/ (n - 1 \in 1 .. Len(q) /\ b[n] = q[n - 1])
        BY <1>3, <3>1, <4>1
      <4> QED BY <1>3, <2>1, <4>2 DEF In
    <3> QED BY <2>1, <3>1 DEF In
  <2>3. In(q) \cup {t} \subseteq In(b)
    <3>1. ASSUME NEW n \in 1 .. Len(q) PROVE q[n] \in In(b)
      <4>1. n + 1 \in DOMAIN b /\ b[n + 1] = q[n]
        BY <1>3, <2>1, <3>1
      <4> QED BY <4>1 DEF In
    <3>2. t \in In(b)
      BY <1>3, <2>1 DEF In
    <3> QED BY <1>3, <3>1, <3>2 DEF In
  <2> QED BY <2>2, <2>3
<1> QED BY <1>1, <1>2, <1>4, <1>5

(* and with one piece less. *)
LEMMA InLess ==
  ASSUME NEW q \in Seq(Piece)
  PROVE  /\ q # << >> => Tail(q) \in Seq(Piece) /\ In(Tail(q)) \subseteq In(q)
         /\ \A c \in DOMAIN q : /\ RemoveAt(q, c) \in Seq(Piece)
                                /\ In(RemoveAt(q, c)) \subseteq In(q) /\ q[c] \in In(q)
         /\ << >> \in Seq(Piece) /\ In(<< >>) = {}
<1>1. ASSUME q # << >>
      PROVE  Tail(q) \in Seq(Piece) /\ In(Tail(q)) \subseteq In(q)
  <2>1. /\ Tail(q) \in Seq(Piece) /\ DOMAIN q = 1 .. Len(q) /\ Len(q) \in Nat
        /\ DOMAIN Tail(q) = 1 .. Len(q) - 1
        /\ \A n \in 1 .. Len(q) - 1 : n + 1 \in 1 .. Len(q) /\ Tail(q)[n] = q[n + 1]
    BY <1>1
  <2> QED BY <2>1 DEF In
<1>2. ASSUME NEW c \in DOMAIN q
      PROVE  RemoveAt(q, c) \in Seq(Piece) /\ In(RemoveAt(q, c)) \subseteq In(q)
  <2> DEFINE f == SubSeq(q, 1, c - 1)
             g == SubSeq(q, c + 1, Len(q))
  <2>1. /\ Len(q) \in Nat /\ c \in 1 .. Len(q) /\ DOMAIN q = 1 .. Len(q)
    BY <1>2
  <2>2. f \in Seq(Piece) /\ Len(f) = c - 1 /\ \A n \in 1 .. c - 1 : f[n] = q[n]
    BY <2>1
  <2>3. /\ g \in Seq(Piece) /\ Len(g) = Len(q) - c
        /\ \A n \in 1 .. Len(q) - c : g[n] = q[n + c]
    BY <2>1
  <2>4. RemoveAt(q, c) = f \o g
    BY DEF RemoveAt
  <2> HIDE DEF f, g
  <2> DEFINE h == f \o g
  <2>5. /\ h \in Seq(Piece) /\ DOMAIN h = 1 .. Len(f) + Len(g)
        /\ \A n \in 1 .. Len(f) + Len(g) : h[n] = IF n <= Len(f) THEN f[n] ELSE g[n - Len(f)]
    <3>1. f \in Seq(Piece) /\ g \in Seq(Piece)
      BY <2>2, <2>3
    <3> QED BY <3>1
  <2> HIDE DEF h
  <2>6. ASSUME NEW n \in DOMAIN h PROVE h[n] \in In(q)
    <3>1. CASE n <= c - 1
      <4>1. h[n] = q[n] /\ n \in DOMAIN q
        BY <2>1, <2>2, <2>3, <2>5, <2>6, <3>1
      <4> QED BY <4>1 DEF In
    <3>2. CASE n > c - 1
      <4>0. Len(f) = c - 1 /\ Len(g) = Len(q) - c
        BY <2>2, <2>3
      <4>1. /\ n - (c - 1) \in 1 .. Len(q) - c /\ h[n] = g[n - (c - 1)]
        <5>1. n \in 1 .. (c - 1) + (Len(q) - c)
          BY <2>5, <2>6, <4>0
        <5>2. h[n] = g[n - (c - 1)]
          BY <2>1, <2>5, <3>2, <4>0, <5>1
        <5> QED BY <2>1, <3>2, <5>1, <5>2
      <4>2. h[n] = q[(n - (c - 1)) + c] /\ (n - (c - 1)) + c \in DOMAIN q
        BY <2>1, <2>3, <4>1
      <4> QED BY <4>2 DEF In
    <3> QED BY <2>1, <2>5, <2>6, <3>1, <3>2
  <2> QED BY <2>4, <2>5, <2>6 DEF In, h
<1>3. \A c \in DOMAIN q : q[c] \in In(q)
  BY DEF In
<1>4. << >> \in Seq(Piece) /\ In(<< >>) = {}
  BY DEF In
<1> QED BY <1>1, <1>2, <1>3, <1>4

(* The chips picked are chips of the row: each place up to the number of    *)
(* them is taken by the one with that many up to it.                        *)
LEMMA PickedOf ==
  ASSUME NEW q \in Seq(Piece), NEW is \in SUBSET DOMAIN q
  PROVE  Picked(q, is) \in Seq(Piece) /\ In(Picked(q, is)) \subseteq In(q)
<1> DEFINE below(i) == {j \in is : j <= i}
           rank == [i \in is |-> Cardinality(below(i))]
           size == Cardinality(is)
<1>1. is \subseteq Nat /\ IsFiniteSet(is) /\ size \in Nat
  <2>1. DOMAIN q = 1 .. Len(q) /\ Len(q) \in Nat
    OBVIOUS
  <2>2. IsFiniteSet(DOMAIN q)
    BY <2>1, FS_Interval
  <2> QED BY <2>1, <2>2, FS_Subset, FS_CardinalityType
<1>2. ASSUME NEW i \in is
      PROVE  IsFiniteSet(below(i)) /\ Cardinality(below(i)) \in 1 .. size
  <2>1. below(i) \in SUBSET is /\ i \in below(i)
    BY <1>1
  <2>2. IsFiniteSet(below(i)) /\ Cardinality(below(i)) <= size
    BY <1>1, <2>1, FS_Subset
  <2>3. Cardinality(below(i)) \in Nat /\ Cardinality(below(i)) # 0
    BY <2>1, <2>2, FS_CardinalityType, FS_EmptySet
  <2> HIDE DEF below, size
  <2> QED BY <1>1, <2>2, <2>3
<1>3. ASSUME NEW i \in is, NEW k \in is, i < k
      PROVE  Cardinality(below(i)) # Cardinality(below(k))
  <2>1. below(i) \in SUBSET below(k) /\ k \in below(k) /\ k \notin below(i)
    <3>1. i \in Nat /\ k \in Nat /\ \A j \in is : j \in Nat
      BY <1>1
    <3>2. \A j \in is : j <= i => j <= k
      BY <3>1, <1>3
    <3>3. k <= k /\ ~(k <= i)
      BY <3>1, <1>3
    <3> QED BY <3>2, <3>3
  <2>2. IsFiniteSet(below(k))
    BY <1>2
  <2> HIDE DEF below
  <2> QED BY <2>1, <2>2, FS_Subset
<1>4. rank \in Injection(is, 1 .. size)
  <2>1. rank \in [is -> 1 .. size]
    BY <1>2
  <2>2. ASSUME NEW i \in is, NEW k \in is, rank[i] = rank[k] PROVE i = k
    <3>1. Cardinality(below(i)) = Cardinality(below(k))
      BY <2>2
    <3>2. i \in Nat /\ k \in Nat /\ (i < k \/ k < i \/ i = k)
      BY <1>1
    <3> HIDE DEF below
    <3> QED BY <3>1, <3>2, <1>3
  <2> HIDE DEF rank, size
  <2> QED BY <2>1, <2>2 DEF Injection, IsInjective
<1>5. IsFiniteSet(1 .. size) /\ Cardinality(1 .. size) = size
  <2> HIDE DEF size
  <2> QED BY <1>1, FS_Interval
<1>6. rank \in Surjection(is, 1 .. size)
  <2> HIDE DEF rank
  <2> QED BY <1>1, <1>4, <1>5, FS_Injection
<1>7. ASSUME NEW n \in 1 .. size PROVE \E i \in is : Cardinality(below(i)) = n
  <2>1. \E i \in is : rank[i] = n
    BY <1>6, <1>7 DEF Surjection
  <2> QED BY <2>1
<1> DEFINE p == Picked(q, is)
<1>8. p = [n \in 1 .. size |-> q[CHOOSE i \in is : Cardinality(below(i)) = n]]
  BY DEF Picked
<1>9. ASSUME NEW n \in 1 .. size PROVE p[n] \in In(q) /\ p[n] \in Piece
  <2>1. (CHOOSE i \in is : Cardinality(below(i)) = n) \in is
    BY <1>7
  <2>2. p[n] = q[CHOOSE i \in is : Cardinality(below(i)) = n]
    BY <1>8
  <2> HIDE DEF p, below, size
  <2>3. \A i \in is : q[i] \in In(q) /\ q[i] \in Piece
    BY DEF In
  <2> QED BY <2>1, <2>2, <2>3
<1>10. DOMAIN p = 1 .. size /\ p \in [1 .. size -> Piece]
  <2> HIDE DEF size, below
  <2>1. p = [n \in 1 .. size |-> p[n]]
    BY <1>8
  <2> HIDE DEF p
  <2> QED BY <1>9, <2>1
<1> HIDE DEF p, size
<1>11. p \in Seq(Piece) /\ In(p) \subseteq In(q)
  BY <1>1, <1>9, <1>10 DEF In
<1> QED BY <1>11 DEF p

(* A draft, what it holds, and whose it is.  Files may be another's: their  *)
(* bytes are awaited (attachments.ts).                                      *)
Draft(d) ==
  /\ DOMAIN d = {"text", "pastes", "files"}
  /\ d = [x \in {"text", "pastes", "files"} |-> d[x]]
  /\ d.text \in Seq(Piece) /\ d.pastes \in Seq(Piece)

Own(d, i) == Draft(d) /\ \A t \in In(d.text) \cup In(d.pastes) : t.by = i

Less(e, d) == /\ Draft(e)
              /\ In(e.text) \cup In(e.pastes) \subseteq In(d.text) \cup In(d.pastes)

(* A handler that changes a row of a draft leaves the others: the text, *)
LEMMA TextChanged ==
  ASSUME NEW f, Draft(f), NEW t \in Seq(Piece)
  PROVE  /\ Draft([f EXCEPT !.text = t]) /\ [f EXCEPT !.text = t].text = t
         /\ [f EXCEPT !.text = t].pastes = f.pastes
BY DEF Draft

(* the chips, *)
LEMMA PastesChanged ==
  ASSUME NEW f, Draft(f), NEW c \in Seq(Piece)
  PROVE  /\ Draft([f EXCEPT !.pastes = c]) /\ [f EXCEPT !.pastes = c].pastes = c
         /\ [f EXCEPT !.pastes = c].text = f.text
BY DEF Draft

(* or the files. *)
LEMMA FilesChanged ==
  ASSUME NEW f, Draft(f), NEW w
  PROVE  /\ Draft([f EXCEPT !.files = w]) /\ [f EXCEPT !.files = w].pastes = f.pastes
         /\ [f EXCEPT !.files = w].text = f.text
BY DEF Draft

(* The draft in the field is the active session's, those kept aside are     *)
(* each their session's; without an active session the field is left as     *)
(* it was, until activateSession replaces it.                               *)
Home ==
  /\ events \in Nat /\ Draft(inp) /\ (active # 0 => Own(inp, active))
  /\ saved = [i \in Ids |-> saved[i]]
  /\ \A i \in Ids : saved[i] # None => Own(saved[i].d, i)

(* Writing to a session leaves the field alone. *)
LEMMA FieldKept ==
  ASSUME NEW p, Sound(p), NEW i \in Ids, NEW s
  PROVE  /\ CancelDeferredEnter(p, i).inp = p.inp /\ SendText(p, i, s).inp = p.inp
         /\ SendEnter(p, i).inp = p.inp /\ ScheduleResidueSweep(p, i, s).inp = p.inp
         /\ ScheduleDeferredEnter(p, i).inp = p.inp
         /\ [p EXCEPT !.deferred[i] = s].inp = p.inp
<1>1. DOMAIN p = Fields /\ "inp" \in Fields
  BY DEF Sound, Fields
<1>2. \A x, y \in Fields : y # x => \A z : [p EXCEPT ![x] = z][y] = p[y]
  BY <1>1
<1>3. CancelDeferredEnter(p, i).inp = p.inp
  BY <1>1 DEF CancelDeferredEnter
<1>4. SendText(p, i, s).inp = p.inp
  BY <1>1 DEF SendText
<1>5. SendEnter(p, i).inp = p.inp
  BY <1>1 DEF SendEnter
<1>6. ScheduleResidueSweep(p, i, s).inp = p.inp
  BY <1>1 DEF ScheduleResidueSweep
<1>7. ScheduleDeferredEnter(p, i).inp = p.inp
  <2> DEFINE q == CancelDeferredEnter(p, i)
  <2>1. Sound(q)
    BY CancelSound
  <2> HIDE DEF q
  <2>2. DOMAIN q = Fields /\ [q EXCEPT !.deferred[i] = EnterDue, !.owed[i] = @ + 1].inp = q.inp
    BY <1>1, <2>1 DEF Sound
  <2> QED BY <1>3, <2>2 DEF ScheduleDeferredEnter, q
<1>8. [p EXCEPT !.deferred[i] = s].inp = p.inp
  BY <1>1
<1> QED BY <1>3, <1>4, <1>5, <1>6, <1>7, <1>8

(* sendSubmittedBody too. *)
LEMMA SubmittedKept ==
  ASSUME NEW p, Sound(p), NEW i \in Ids, NEW body
  PROVE  SendSubmittedBody(p, i, body).inp = p.inp
<1> DEFINE q == CancelDeferredEnter(p, i)
           t == SendText(q, i, body)
           r == IF Raw(i, body) THEN SendEnter(t, i) ELSE ScheduleDeferredEnter(t, i)
<1>1. Sound(q) /\ q.inp = p.inp  BY CancelSound, FieldKept
<1> HIDE DEF q
<1>2. Sound(t) /\ t.inp = p.inp  BY <1>1, SendTextSound, FieldKept
<1> HIDE DEF t
<1>3. Sound(r) /\ r.inp = p.inp  BY <1>2, SendEnterSound, ScheduleSound, FieldKept
<1> HIDE DEF r
<1>4. SendSubmittedBody(p, i, body) = ScheduleResidueSweep(r, i, body)
  BY DEF SendSubmittedBody, r, t, q
<1>5. QED  BY <1>3, <1>4, FieldKept

(* doSend takes the draft out of the field, whoever's it is by then, *)
LEMMA SubmitLess ==
  ASSUME NEW p, Sound(p), NEW i \in Ids, NEW inj, Draft(p.inp)
  PROVE  Less(SubmitDraft(p, i, inj).inp, p.inp)
<1> DEFINE body == p.inp.pastes \o p.inp.text
           e == [p.inp EXCEPT !.text = << >>, !.pastes = << >>]
           q == [p EXCEPT !.inp.text = << >>, !.inp.pastes = << >>, !.up[i].busy = FALSE]
           a == SendText(q, i, inj \o body)
           b == SendText(q, i, body)
           c == SendText(q, i, inj)
           d == [c EXCEPT !.deferred[i] = [stage |-> "body", body |-> body]]
           r == IF Raw(i, body) THEN SendEnter(a, i)
                ELSE IF inj = << >> THEN ScheduleDeferredEnter(b, i) ELSE d
<1>0. Less(e, p.inp)
  <2>1. p.inp.text \in Seq(Piece)
    BY DEF Draft
  <2>2. << >> \in Seq(Piece) /\ In(<< >>) = {}
    BY <2>1, InLess
  <2>3. Draft(e) /\ e.text = << >> /\ e.pastes = << >>
    <3> DEFINE f == p.inp
               g == [f EXCEPT !.text = << >>]
    <3>1. Draft(f)
      OBVIOUS
    <3> HIDE DEF f
    <3>2. Draft(g) /\ g.text = << >>
      BY <2>2, <3>1, TextChanged
    <3>3. e = [g EXCEPT !.pastes = << >>]
      BY <3>1 DEF f, Draft
    <3> HIDE DEF g, e
    <3> QED BY <2>2, <3>2, <3>3, PastesChanged
  <2> HIDE DEF e
  <2> QED BY <2>2, <2>3 DEF Less
<1>1. Sound(q) /\ q.inp = e
  <2> DEFINE v == [p EXCEPT !.inp = e]
  <2>1. v.inp = e /\ DOMAIN v = Fields
    BY DEF Sound, Fields
  <2>2. q = [v EXCEPT !.up[i].busy = FALSE]
    BY DEF Sound, Fields
  <2> HIDE DEF v, q
  <2>3. q.inp = e
    BY <2>1, <2>2 DEF Fields
  <2> QED BY <2>3, TakeSound DEF q
<1> HIDE DEF q, body
<1>2. /\ Sound(a) /\ a.inp = q.inp /\ Sound(b) /\ b.inp = q.inp /\ Sound(c) /\ c.inp = q.inp
  BY <1>1, SendTextSound, FieldKept
<1> HIDE DEF a, b, c
<1>3. Sound(d) /\ d.inp = q.inp  BY <1>2, BodySound, FieldKept
<1> HIDE DEF d
<1>4. Sound(r) /\ r.inp = q.inp  BY <1>2, <1>3, SendEnterSound, ScheduleSound, FieldKept
<1> HIDE DEF r
<1>5. SubmitDraft(p, i, inj) = ScheduleResidueSweep(r, i, body)
  BY DEF SubmitDraft, r, d, c, b, a, q, body
<1>6. SubmitDraft(p, i, inj).inp = e
  BY <1>1, <1>4, <1>5, FieldKept
<1> HIDE DEF e
<1> QED BY <1>0, <1>6

(* or only the chips that are uploaded first. *)
LEMMA BeginLess ==
  ASSUME NEW p, Sound(p), NEW i \in Ids, Draft(p.inp)
  PROVE  Less(Begin(p, i).inp, p.inp)
<1> DEFINE todo == p.inp.files \o LongPastes(p.inp)
           c == Picked(p.inp.pastes, DOMAIN p.inp.pastes \ LongOnes(p.inp.pastes))
           e == [p.inp EXCEPT !.files = << >>, !.pastes = c]
           q == [p EXCEPT !.recent = TRUE, !.due = @ - 1, !.inp.files = << >>,
                          !.inp.pastes = c, !.up[i].busy = TRUE]
           v == [p.up EXCEPT ![i].busy = TRUE]
           w == [v EXCEPT ![i].runs = Append(@, [todo |-> todo, inj |-> << >>])]
           o == [q EXCEPT !.up = w]
<1>1. Begin(p, i) = IF todo = << >> THEN SubmitDraft(q, i, << >>) ELSE o
  BY DEF Begin, Sound, Fields
<1>2. c \in Seq(Piece) /\ In(c) \subseteq In(p.inp.pastes)
  <2>1. p.inp.pastes \in Seq(Piece)
    BY DEF Draft
  <2> QED BY <2>1, PickedOf
<1> HIDE DEF c, w
<1>3. /\ DOMAIN q = Fields /\ q = [x \in Fields |-> q[x]] /\ q.inp = e
      /\ q.due = p.due - 1 /\ q.deferred = p.deferred /\ q.owed = p.owed
  BY DEF Sound, Fields
<1>4. Less(e, p.inp)
  <2>1. p.inp.text \in Seq(Piece)
    BY DEF Draft
  <2>2. Draft(e) /\ e.text = p.inp.text /\ e.pastes = c
    <3> DEFINE f == p.inp
               g == [f EXCEPT !.files = << >>]
    <3>1. Draft(f)
      OBVIOUS
    <3> HIDE DEF f
    <3>2. Draft(g) /\ g.text = f.text
      BY <3>1, FilesChanged
    <3>3. e = [g EXCEPT !.pastes = c]
      BY <3>1 DEF f, Draft
    <3> HIDE DEF g, e
    <3> QED BY <1>2, <3>2, <3>3, PastesChanged DEF f
  <2> HIDE DEF e
  <2> QED BY <1>2, <2>2 DEF Less
<1> HIDE DEF q, e, todo
<1>5. Sound(q)
  <2>1. p.due - 1 \in Int  BY DEF Sound
  <2>2. QED  BY <1>3, <2>1 DEF Sound
<1>6. Less(SubmitDraft(q, i, << >>).inp, q.inp)
  BY <1>3, <1>4, <1>5, SubmitLess DEF Less
<1>7. o.inp = q.inp  BY <1>5, ReplySound
<1> HIDE DEF o
<1> QED BY <1>1, <1>3, <1>4, <1>6, <1>7 DEF Less

(* Whatever becomes of a request, the field only loses pieces. *)
LEMMA DoSendLess ==
  ASSUME NEW p, Sound(p), NEW i \in Ids, Draft(p.inp), DoSend(p, i)
  PROVE  Less(inp', p.inp)
<1> DEFINE q == CancelDeferredEnter(p, i)
           b == Begin(q, i)
<1>1. Sound(q) /\ q.inp = p.inp
  BY CancelSound, FieldKept
<1>2. Become(p) \/ Become(q) \/ Become(b)
  BY DEF DoSend
<1> HIDE DEF q
<1>3. Less(b.inp, p.inp) /\ Less(p.inp, p.inp)
  BY <1>1, BeginLess DEF Less
<1> HIDE DEF b
<1> QED BY <1>1, <1>2, <1>3 DEF Become

(* The field may lose pieces and gain one of the active session. *)
LEMMA GrowHome ==
  ASSUME Home, Draft(inp'), NEW t, t.by = active,
         In(inp'.text) \cup In(inp'.pastes) \subseteq In(inp.text) \cup In(inp.pastes) \cup {t},
         UNCHANGED <<active, saved>>, events' \in Nat
  PROVE  Home'
<1>1. active # 0 => \A r \in In(inp'.text) \cup In(inp'.pastes) : r.by = active
  BY DEF Home, Own
<1> QED BY <1>1 DEF Home, Own

(* Nothing is gained. *)
LEMMA LessHome ==
  ASSUME Home, Less(inp', inp), UNCHANGED <<active, saved>>, events' \in Nat
  PROVE  Home'
<1>1. active # 0 => \A r \in In(inp'.text) \cup In(inp'.pastes) : r.by = active
  BY DEF Home, Own, Less
<1> QED BY <1>1 DEF Home, Own, Less

(* The field as it was. *)
LEMMA SameHome ==
  ASSUME Home, UNCHANGED <<inp, active, saved>>, events' \in Nat
  PROVE  Home'
BY LessHome DEF Less, Home

(* A keystroke or a paste belongs to the session it is made for. *)
LEMMA FillHome ==
  ASSUME ComposeInv, Home, NEW k \in Kinds, Type(k) \/ StagePaste(k), events' \in Nat
  PROVE  Home'
<1> DEFINE t == New(k)
           kept == IF Len(inp.pastes) >= MaxChips THEN Tail(inp.pastes) ELSE inp.pastes
<1>1. t \in Piece /\ t.by = active
  BY DEF ComposeInv, Numbered, Home, Type, StagePaste, New, Piece
<1> HIDE DEF t
<1>2. Draft(inp) /\ inp.text \in Seq(Piece) /\ inp.pastes \in Seq(Piece)
  BY DEF Home, Draft
<1>3. CASE Type(k)
  <2> DEFINE a == Append(inp.text, t)
  <2>1. a \in Seq(Piece) /\ In(a) = In(inp.text) \cup {t}
    BY <1>1, <1>2, InAppend
  <2>2. inp' = [inp EXCEPT !.text = a] /\ UNCHANGED <<active, saved>>
    BY <1>3 DEF Type, Edit, gone, t
  <2> HIDE DEF a
  <2>3. Draft(inp') /\ inp'.text = a /\ inp'.pastes = inp.pastes
    BY <1>2, <2>1, <2>2, TextChanged
  <2> QED BY <1>1, <2>1, <2>2, <2>3, GrowHome
<1>4. CASE StagePaste(k)
  <2> DEFINE a == Append(kept, t)
  <2>1. kept \in Seq(Piece) /\ In(kept) \subseteq In(inp.pastes)
    <3>1. Len(inp.pastes) >= MaxChips => inp.pastes # << >>
      BY DEF MaxChips
    <3> QED BY <1>2, <3>1, InLess
  <2>2. inp' = [inp EXCEPT !.pastes = a] /\ UNCHANGED <<active, saved>>
    BY <1>4 DEF StagePaste, Edit, gone, t
  <2> HIDE DEF kept
  <2>3. a \in Seq(Piece) /\ In(a) = In(kept) \cup {t}
    BY <1>1, <2>1, InAppend
  <2> HIDE DEF a
  <2>4. Draft(inp') /\ inp'.pastes = a /\ inp'.text = inp.text
    BY <1>2, <2>2, <2>3, PastesChanged
  <2> QED BY <1>1, <2>1, <2>2, <2>3, <2>4, GrowHome
<1> QED BY <1>3, <1>4

(* A chip opened into the text or taken away, a file taken away. *)
LEMMA ChipsHome ==
  ASSUME Home, NEW c, ExpandChip(c) \/ RemoveChip(c) \/ RemoveFile(c), events' \in Nat
  PROVE  Home'
<1> DEFINE r == RemoveAt(inp.pastes, c)
           a == <<inp.pastes[c]>> \o inp.text
<1>1. Draft(inp) /\ inp.text \in Seq(Piece) /\ inp.pastes \in Seq(Piece)
  BY DEF Home, Draft
<1>2. UNCHANGED <<active, saved>>
  BY DEF ExpandChip, RemoveChip, RemoveFile, Edit, gone
<1>3. ASSUME c \in DOMAIN inp.pastes
      PROVE  /\ r \in Seq(Piece) /\ In(r) \subseteq In(inp.pastes)
             /\ inp.pastes[c] \in In(inp.pastes)
  BY <1>1, <1>3, InLess
<1>4. CASE ExpandChip(c)
  <2>1. c \in DOMAIN inp.pastes /\ inp' = [inp EXCEPT !.text = a, !.pastes = r]
    BY <1>4 DEF ExpandChip, Edit
  <2>2. inp.pastes[c] \in Piece
    BY <1>1, <2>1
  <2>3. a \in Seq(Piece) /\ In(a) = In(inp.text) \cup {inp.pastes[c]}
    BY <1>1, <2>2, InAppend
  <2>4. r \in Seq(Piece) /\ In(a) \cup In(r) \subseteq In(inp.text) \cup In(inp.pastes)
    BY <1>3, <2>1, <2>3
  <2> HIDE DEF a, r
  <2> DEFINE g == [inp EXCEPT !.text = a]
  <2>5. Draft(g) /\ g.text = a
    BY <1>1, <2>3, TextChanged
  <2>6. inp' = [g EXCEPT !.pastes = r]
    BY <1>1, <2>1 DEF Draft
  <2> HIDE DEF g
  <2>7. Draft(inp') /\ inp'.pastes = r /\ inp'.text = a
    BY <2>4, <2>5, <2>6, PastesChanged
  <2> QED BY <1>2, <2>4, <2>7, LessHome DEF Less
<1>5. CASE RemoveChip(c)
  <2>1. c \in DOMAIN inp.pastes /\ inp' = [inp EXCEPT !.pastes = r]
    BY <1>5 DEF RemoveChip, Edit
  <2>2. r \in Seq(Piece) /\ In(r) \subseteq In(inp.pastes)
    BY <1>3, <2>1
  <2> HIDE DEF r
  <2>3. Draft(inp') /\ inp'.pastes = r /\ inp'.text = inp.text
    BY <1>1, <2>1, <2>2, PastesChanged
  <2> QED BY <1>2, <2>2, <2>3, LessHome DEF Less
<1>6. CASE RemoveFile(c)
  <2>1. inp' = [inp EXCEPT !.files = RemoveAt(@, c)]
    BY <1>6 DEF RemoveFile, Edit
  <2>2. Draft(inp') /\ inp'.pastes = inp.pastes /\ inp'.text = inp.text
    BY <1>1, <2>1, FilesChanged
  <2> QED BY <1>2, <2>2, LessHome DEF Less
<1> QED BY <1>4, <1>5, <1>6

(* A file lands in the input of whichever session is active by then; the    *)
(* text and the chips stay.                                                 *)
LEMMA AttachHome ==
  ASSUME Home, StageAttach \/ (\E f \in loading : AttachRead(f)), events' \in Nat
  PROVE  Home'
<1>1. inp' = inp \/ \E f : inp' = [inp EXCEPT !.files = Append(@, f)]
  BY DEF StageAttach, AttachRead, Edit
<1>2. UNCHANGED <<active, saved>> /\ Draft(inp)
  BY DEF StageAttach, AttachRead, Edit, gone, Home
<1>3. CASE inp' = inp
  BY <1>2, <1>3, SameHome
<1>4. CASE \E f : inp' = [inp EXCEPT !.files = Append(@, f)]
  <2>1. PICK w : inp' = [inp EXCEPT !.files = w]
    BY <1>4
  <2>2. Draft(inp') /\ inp'.pastes = inp.pastes /\ inp'.text = inp.text
    BY <1>2, <2>1, FilesChanged
  <2> QED BY <1>2, <2>2, LessHome DEF Less
<1> QED BY <1>1, <1>3, <1>4

(* doSend, after a press, at the end of a composition or after the question. *)
LEMMA SendHome ==
  ASSUME ComposeInv, Home, Press \/ EndTimerFires \/ AnswerDialog, events' \in Nat
  PROVE  Home'
<1>1. /\ Sound(Work) /\ Sound(Asked) /\ Work.inp = inp /\ Asked.inp = inp /\ Draft(inp)
  BY WorkSound DEF Asked, Work, Home
<1>2. Less(inp, inp)
  BY <1>1 DEF Less
<1>3. active # 0 => active \in Ids
  BY DEF ComposeInv, Numbered
<1>4. CASE Press
  <2>1. Become(Asked) \/ (active \in Ids /\ DoSend(Asked, active))
    BY <1>3, <1>4 DEF Press
  <2>2. Less(inp', inp)
    BY <1>1, <1>2, <2>1, DoSendLess DEF Become
  <2> QED BY <1>4, <2>2, LessHome DEF Press, gone
<1>5. CASE EndTimerFires
  <2>1. inp' = inp \/ (active \in Ids /\ DoSend(Work, active))
    BY <1>3, <1>5 DEF EndTimerFires, work
  <2>2. Less(inp', inp)
    BY <1>1, <1>2, <2>1, DoSendLess
  <2> QED BY <1>5, <2>2, LessHome DEF EndTimerFires, gone
<1>6. CASE AnswerDialog
  <2>1. dialog.id \in Ids /\ (Become(Work) \/ Become(Begin(Work, dialog.id)))
    BY <1>6 DEF AnswerDialog, ComposeInv, Numbered
  <2>2. Less(inp', inp)
    BY <1>1, <1>2, <2>1, BeginLess DEF Become
  <2> QED BY <1>6, <2>2, LessHome DEF AnswerDialog, gone
<1> QED BY <1>4, <1>5, <1>6

(* The message of an upload leaves the field when the last reply is in. *)
LEMMA UploadHome ==
  ASSUME ComposeInv, Home, NEW i \in Ids, Upload(i)
  PROVE  Home'
<1>1. Sound(Work) /\ Work.inp = inp /\ Draft(inp)
  BY WorkSound DEF Work, Home
<1>2. PICK p, inj : /\ Sound(p) /\ p.inp = inp
                    /\ Become(p) \/ Become(SubmitDraft(p, i, inj))
  BY <1>1, UploadBecomes
<1>3. UNCHANGED <<active, saved, events>>  BY DEF Upload, gone
<1>4. Less(inp', inp)
  BY <1>1, <1>2, SubmitLess DEF Become, Less
<1> QED BY <1>3, <1>4, LessHome DEF Home

(* A quick command, a reservation that fires and a sweep leave the field;   *)
(* the button that clears the line empties its text.                        *)
LEMMA WriteHome ==
  ASSUME ComposeInv, Home, events' \in Nat,
         \/ \E k \in Kinds : QuickCommand(k)
         \/ InputClear
         \/ \E i \in Ids : Fire(i) \/ SweepFires(i) \/ SweepGivesUp(i)
  PROVE  Home'
<1>1. Sound(Work) /\ Work.inp = inp /\ Draft(inp)
  BY WorkSound DEF Work, Home
<1>2. Less(inp, inp)
  BY <1>1 DEF Less
<1>3. CASE \E k \in Kinds : QuickCommand(k)
  <2>1. PICK k \in Kinds : QuickCommand(k)
    BY <1>3
  <2>2. active \in Ids /\ Become(SendSubmittedBody(Work, active, <<New(k)>>))
    BY <2>1 DEF QuickCommand, ComposeInv, Numbered
  <2>3. inp' = inp
    BY <1>1, <2>2, SubmittedKept DEF Become
  <2> QED BY <2>1, <2>3, SameHome DEF QuickCommand, gone
<1>4. CASE InputClear
  <2> DEFINE row == << >>
  <2>1. inp' = [inp EXCEPT !.text = row]
    BY <1>4 DEF InputClear, Become, Work
  <2>2. row \in Seq(Piece) /\ In(row) = {}
    <3>1. inp.text \in Seq(Piece)
      BY <1>1 DEF Draft
    <3> QED BY <3>1, InLess
  <2> HIDE DEF row
  <2>3. Draft(inp') /\ inp'.text = row /\ inp'.pastes = inp.pastes
    BY <1>1, <2>1, <2>2, TextChanged
  <2>4. Less(inp', inp)
    BY <2>2, <2>3 DEF Less
  <2> QED BY <1>4, <2>4, LessHome DEF InputClear, gone
<1>5. CASE \E i \in Ids : Fire(i)
  <2>1. PICK i \in Ids : Fire(i)
    BY <1>5
  <2> DEFINE q == CancelDeferredEnter(Work, i)
             e == SendEnter(q, i)
             b == SendText(q, i, deferred[i].body)
  <2>2. Sound(q) /\ q.inp = inp
    BY <1>1, CancelSound, FieldKept
  <2>3. \/ Become(q) \/ Become([e EXCEPT !.owed[i] = @ - 1])
        \/ Become(ScheduleDeferredEnter(b, i))
    BY <2>1 DEF Fire
  <2> HIDE DEF q
  <2>4. Sound(e) /\ e.inp = inp /\ Sound(b) /\ b.inp = inp
    BY <2>2, FieldKept, SendEnterSound, SendTextSound
  <2> HIDE DEF e, b
  <2>5. ScheduleDeferredEnter(b, i).inp = inp /\ [e EXCEPT !.owed[i] = @ - 1].inp = inp
    BY <2>4, FieldKept DEF Sound, Fields
  <2>6. inp' = inp
    BY <2>2, <2>3, <2>5 DEF Become
  <2> QED BY <2>1, <2>6, SameHome DEF Fire, gone
<1>6. CASE \E i \in Ids : SweepFires(i) \/ SweepGivesUp(i)
  <2>1. UNCHANGED <<inp, active, saved>>
    BY <1>6 DEF SweepFires, SweepGivesUp, Become, Work, gone
  <2> QED BY <2>1, SameHome
<1> QED BY <1>3, <1>4, <1>5, <1>6

(* The empty draft is anyone's. *)
LEMMA EmptyOwn == Draft(Empty) /\ \A i : Own(Empty, i)
<1>1. << >> \in Seq(Piece) /\ In(<< >>) = {}
  BY DEF In
<1>2. Empty.text = << >> /\ Empty.pastes = << >>
  BY DEF Empty
<1>3. /\ DOMAIN Empty = {"text", "pastes", "files"}
      /\ Empty = [x \in {"text", "pastes", "files"} |-> Empty[x]]
  BY DEF Empty
<1> QED BY <1>1, <1>2, <1>3 DEF Own, Draft

(* The draft that activateSession brings back is the session's own, and the *)
(* one it keeps is the one that was in the field for the session it leaves. *)
LEMMA ActivateHome ==
  ASSUME ComposeInv, Home, NEW i \in Ids, Activate(i), events' \in Nat
  PROVE  Home'
<1> DEFINE kept == [n |-> 1, d |-> inp]
           s == [saved EXCEPT ![active] = kept]
<1>1. Own(Empty, i)
  BY EmptyOwn
<1>2. i # 0 /\ (active # 0 => active \in Ids)
  BY ComposeAssumption DEF ComposeInv, Numbered
<1>3. active' = i
  BY DEF Activate
<1>4. CASE active = i \/ active = 0
  <2>1. saved' = saved /\ (inp' = Empty \/ (saved[i] # None /\ inp' = saved[i].d))
    BY <1>4 DEF Activate, SaveInputStateFor, RestoreInputStateFor
  <2>2. Own(inp', i)
    BY <1>1, <2>1 DEF Home
  <2> QED BY <1>3, <2>1, <2>2 DEF Home, Own
<1>5. CASE active # i /\ active # 0
  <2>1. saved' = s /\ (inp' = Empty \/ (s[i] # None /\ inp' = s[i].d))
    BY <1>5 DEF Activate, SaveInputStateFor, RestoreInputStateFor
  <2>2. kept.d = inp /\ Own(inp, active) /\ active \in Ids
    BY <1>2, <1>5 DEF Home
  <2> HIDE DEF kept
  <2>3. /\ s = [j \in Ids |-> s[j]] /\ s[active] = kept
        /\ \A j \in Ids : j # active => s[j] = saved[j]
    BY <2>2 DEF Home
  <2> HIDE DEF s
  <2>4. \A j \in Ids : s[j] # None => Own(s[j].d, j)
    BY <2>2, <2>3 DEF Home
  <2>5. Own(inp', i)
    BY <1>1, <2>1, <2>4
  <2> QED BY <1>3, <2>1, <2>3, <2>4, <2>5 DEF Home, Own
<1> QED BY <1>4, <1>5


(* removeLocalSession brings back the draft of the card that takes its      *)
(* place, whatever was in the field.                                        *)
LEMMA RemoveHome ==
  ASSUME ComposeInv, Home, NEW i \in Ids, RemoveSession(i), events' \in Nat
  PROVE  Home'
<1> DEFINE s == [saved EXCEPT ![i] = None]
<1>1. /\ s = [j \in Ids |-> s[j]] /\ s[i] = None
      /\ \A j \in Ids : j # i => s[j] = saved[j]
  BY DEF Home
<1>2. saved' = s
  BY DEF RemoveSession
<1>3. /\ active # i => UNCHANGED <<active, inp>>
      /\ active = i => \/ active' = 0 /\ UNCHANGED inp
                      \/ \E j \in sessions \ {i} :
                           active' = j /\ inp' = RestoreInputStateFor(s, j, inp)
  BY DEF RemoveSession
<1> HIDE DEF s
<1>4. \A j \in Ids : s[j] # None => Own(s[j].d, j)
  BY <1>1 DEF Home
<1>5. Draft(inp') /\ (active' # 0 => Own(inp', active'))
  <2>1. CASE active # i
    BY <1>3, <2>1 DEF Home
  <2>2. CASE active = i /\ active' = 0
    <3>1. Draft(inp) /\ Draft(Empty)
      BY EmptyOwn, ComposeAssumption DEF Home, Own
    <3>2. \A j \in sessions : j # 0
      BY ComposeAssumption DEF ComposeInv, Numbered
    <3> QED BY <1>3, <2>2, <3>1, <3>2
  <2>3. CASE active = i /\ active' # 0
    <3>1. PICK j \in Ids : active' = j /\ inp' = RestoreInputStateFor(s, j, inp)
      BY <1>3, <2>3 DEF ComposeInv, Numbered
    <3>2. inp' = Empty \/ (s[j] # None /\ inp' = s[j].d)
      BY <3>1 DEF RestoreInputStateFor
    <3>3. Own(inp', j)
      BY <1>4, <3>2, EmptyOwn
    <3> QED BY <3>1, <3>3 DEF Own
  <2> QED BY <2>1, <2>2, <2>3
<1> QED BY <1>1, <1>2, <1>4, <1>5 DEF Home

(* The page starts with nothing typed, or with a line for every session.    *)
LEMMA InitHome == ComposeInit => Home
<1> SUFFICES ASSUME ComposeInit PROVE Home  OBVIOUS
<1>1. ASSUME NEW i \in Ids PROVE Own(Typed(i), i)
  <2> DEFINE t == [by |-> i, n |-> 0, kind |-> "text"]
  <2>1. t \in Piece /\ t.by = i
    BY DEF Piece, Kinds
  <2> HIDE DEF t
  <2> DEFINE row == <<t>>
  <2>2. row \in Seq(Piece) /\ In(row) = {t} /\ Draft(Empty) /\ In(Empty.pastes) = {}
    BY <2>1, EmptyOwn DEF In, Own, Empty
  <2>3. Typed(i) = [Empty EXCEPT !.text = row]
    BY DEF Typed, t
  <2> HIDE DEF row
  <2>4. Draft(Typed(i)) /\ Typed(i).text = row /\ Typed(i).pastes = Empty.pastes
    BY <2>2, <2>3, TextChanged
  <2> QED BY <2>1, <2>2, <2>4 DEF Own
<1>2. events \in Nat /\ active \in Ids
  BY DEF ComposeInit
<1>3. CASE inp = Empty /\ saved = [i \in Ids |-> None]
  BY <1>2, <1>3, EmptyOwn DEF Home, Own
<1>4. CASE /\ inp = Typed(active)
           /\ saved = [i \in Ids |-> IF i = active THEN None ELSE [n |-> 1, d |-> Typed(i)]]
  <2>1. \A i \in Ids : saved[i] = None \/ saved[i].d = Typed(i)
    BY <1>4
  <2>2. saved = [i \in Ids |-> saved[i]]
    BY <1>4
  <2> QED BY <1>1, <1>2, <1>4, <2>1, <2>2 DEF Home, Own
<1> QED BY <1>3, <1>4 DEF ComposeInit

(* Every step keeps the drafts where they belong. *)
LEMMA StepHome == ComposeInv /\ Home /\ [ComposeNext]_composeVars => Home'
<1> SUFFICES ASSUME ComposeInv, Home, [ComposeNext]_composeVars PROVE Home'  OBVIOUS
<1>1. CASE User
  <2>0. events' \in Nat
    BY <1>1 DEF User, Happens, Home
  <2>1. CASE \E k \in {"text", "key"} : Type(k) \/ QuickCommand(k)
    BY <2>0, <2>1, FillHome, WriteHome DEF Kinds
  <2>2. CASE \E k \in {"chip", "long"} : StagePaste(k)
    BY <2>0, <2>2, FillHome DEF Kinds
  <2>3. CASE \E c \in 1 .. MaxChips : ExpandChip(c) \/ RemoveChip(c) \/ RemoveFile(c)
    BY <2>0, <2>3, ChipsHome
  <2>4. CASE StageAttach \/ Press \/ InputClear
    BY <2>0, <2>4, AttachHome, SendHome, WriteHome
  <2>5. CASE CompositionStart
    BY <2>0, <2>5, SameHome DEF CompositionStart, gone, work
  <2>6. CASE \E i \in Ids : Switch(i)
    BY <2>0, <2>6, ActivateHome DEF Switch
  <2>7. CASE \E i \in Ids : RemoveSession(i)
    BY <2>0, <2>7, RemoveHome
  <2>8. CASE Disconnect
    BY <2>0, <2>8 DEF Disconnect, Home
  <2> QED BY <1>1, <2>1, <2>2, <2>3, <2>4, <2>5, <2>6, <2>7, <2>8 DEF User
<1>2. CASE UNCHANGED events /\ (Timers \/ Answers \/ AnswerDialog \/ EndTimerFires)
  <2>1. events' \in Nat
    BY <1>2 DEF Home
  <2> QED BY <1>2, <2>1, WriteHome, UploadHome, AttachHome, SendHome DEF Timers, Answers
<1>3. CASE UNCHANGED events /\ Reconnect
  BY <1>3, ActivateHome DEF Reconnect, Home
<1>4. CASE CompositionEnd \/ GuardEnds \/ UNCHANGED composeVars
  <2>1. UNCHANGED <<inp, active, saved, events>>
    BY <1>4 DEF CompositionEnd, GuardEnds, composeVars, gone, work
  <2> QED BY <2>1, SameHome DEF Home
<1>5. ASSUME Timers \/ Answers \/ AnswerDialog \/ EndTimerFires PROVE UNCHANGED events
  <2>1. CASE Timers
    BY <2>1, Zenon DEF Timers, Fire, SweepFires, SweepGivesUp
  <2>2. CASE Answers
    BY <2>2, Zenon DEF Answers, Upload, AttachRead
  <2>3. CASE AnswerDialog \/ EndTimerFires
    BY <2>3 DEF AnswerDialog, EndTimerFires
  <2> QED BY <1>5, <2>1, <2>2, <2>3
<1> QED BY <1>1, <1>2, <1>3, <1>4, <1>5 DEF ComposeNext

(* The text and the chips in the input field, and those kept aside, are     *)
(* those the user made for that session: no switch, removal, reconnection   *)
(* or message under way moves them (saveInputStateFor, restoreInputStateFor). *)
THEOREM DraftsAtHome == ComposeSpec => []DraftsStayHome
<1>1. Home => DraftsStayHome
  BY DEF Home, DraftsStayHome, Own, Texts, In
<1>2. QED  BY <1>1, ComposeInitInv, StepInv, InitHome, StepHome, PTL DEF ComposeSpec

-----------------------------------------------------------------------------
(* The Hub. *)
USE BoundsAssumption, ThreadsAssumption

(* The limited queue is a suffix of the unlimited one. *)
LEMMA NewestSuffix ==
  ASSUME NEW q \in Seq(Items)
  PROVE  /\ Newest(q) \in Seq(Items) /\ Len(Newest(q)) <= MaxPending
         /\ \E d \in Nat : /\ Len(q) = Len(Newest(q)) + d
                           /\ \A k \in 1 .. Len(Newest(q)) : Newest(q)[k] = q[k + d]
<1>1. CASE Len(q) <= MaxPending
  <2>1. Newest(q) = q /\ Len(Newest(q)) <= MaxPending
    BY <1>1 DEF Newest
  <2>2. 0 \in Nat /\ Len(q) = Len(Newest(q)) + 0
          /\ \A k \in 1 .. Len(Newest(q)) : Newest(q)[k] = q[k + 0]
    BY <2>1
  <2> QED BY <2>1, <2>2
<1>2. CASE Len(q) > MaxPending
  <2> DEFINE d == Len(q) - MaxPending
  <2>1. d \in Nat /\ d + 1 \in 1 .. Len(q) /\ Len(q) \in Nat
    BY <1>2
  <2>2. Newest(q) = SubSeq(q, d + 1, Len(q))
    BY <1>2 DEF Newest
  <2>3. SubSeq(q, d + 1, Len(q)) \in Seq(Items)
          /\ Len(SubSeq(q, d + 1, Len(q))) = Len(q) - d
          /\ \A k \in 1 .. Len(q) - d : SubSeq(q, d + 1, Len(q))[k] = q[k + d]
    BY <2>1
  <2>4. Len(q) = Len(Newest(q)) + d /\ Len(Newest(q)) <= MaxPending
          /\ \A k \in 1 .. Len(Newest(q)) : Newest(q)[k] = q[k + d]
    BY <2>1, <2>2, <2>3
  <2> HIDE DEF d
  <2> QED BY <2>1, <2>2, <2>3, <2>4
<1> QED BY SMTT(30), <1>1, <1>2

(* An entry of two queues put together comes from one of them. *)
LEMMA ConcatShape ==
  ASSUME NEW x \in Seq(Items), NEW y \in Seq(Items)
  PROVE  x \o y \in Seq(Items) /\ Len(x \o y) = Len(x) + Len(y)
           /\ \A k \in 1 .. Len(x) + Len(y) :
                (x \o y)[k] = IF k <= Len(x) THEN x[k] ELSE y[k - Len(x)]
OBVIOUS

(* The same for a queue put together from two. *)
LEMMA NewestConcat ==
  ASSUME NEW x \in Seq(Items), NEW y \in Seq(Items)
  PROVE  /\ Newest(x \o y) \in Seq(Items) /\ Len(Newest(x \o y)) <= MaxPending
         /\ \E d \in Nat :
              /\ Len(x) + Len(y) = Len(Newest(x \o y)) + d
              /\ \A k \in 1 .. Len(Newest(x \o y)) :
                   Newest(x \o y)[k] = IF k + d <= Len(x) THEN x[k + d]
                                       ELSE y[k + d - Len(x)]
<1>1. x \o y \in Seq(Items) /\ Len(x \o y) = Len(x) + Len(y)
        /\ \A k \in 1 .. Len(x) + Len(y) :
             (x \o y)[k] = IF k <= Len(x) THEN x[k] ELSE y[k - Len(x)]
  BY ConcatShape
<1>2. PICK d \in Nat : /\ Len(x \o y) = Len(Newest(x \o y)) + d
                       /\ \A k \in 1 .. Len(Newest(x \o y)) :
                            Newest(x \o y)[k] = (x \o y)[k + d]
  BY <1>1, NewestSuffix
<1>3. Newest(x \o y) \in Seq(Items) /\ Len(Newest(x \o y)) <= MaxPending
  BY <1>1, NewestSuffix
<1> DEFINE z == Newest(x \o y)
<1>4. Len(z) \in Nat /\ Len(x) \in Nat /\ Len(y) \in Nat
  BY <1>3
<1>5. Len(x) + Len(y) = Len(z) + d
  BY <1>1, <1>2
<1>6. \A k \in 1 .. Len(z) : z[k] = IF k + d <= Len(x) THEN x[k + d] ELSE y[k + d - Len(x)]
  <2> TAKE k \in 1 .. Len(z)
  <2>1. k + d \in 1 .. Len(x) + Len(y)
    BY <1>4, <1>5
  <2>2. z[k] = (x \o y)[k + d]
    BY <1>2
  <2> QED BY <1>1, <2>1, <2>2
<1> QED BY <1>3, <1>5, <1>6

(* Writing the next piece keeps the inputs of the rest, in their order. *)
LEMMA AdvanceShape ==
  ASSUME NEW q \in Seq(Items), q # << >>
  PROVE  /\ Advance(q) \in Seq(Items)
         /\ \/ /\ q[1].part = "whole" /\ q[1].in \notin Lines
               /\ Len(Advance(q)) = Len(q)
               /\ Advance(q)[1] = Enter(q[1].in)
               /\ \A k \in 2 .. Len(q) : Advance(q)[k] = q[k]
            \/ /\ ~(q[1].part = "whole" /\ q[1].in \notin Lines)
               /\ Len(Advance(q)) = Len(q) - 1
               /\ \A k \in 1 .. Len(q) - 1 : Advance(q)[k] = q[k + 1]
<1>1. Head(q) = q[1] /\ q[1] \in Items /\ Len(q) \in Nat \ {0}
        /\ Tail(q) \in Seq(Items) /\ Len(Tail(q)) = Len(q) - 1
        /\ \A k \in 1 .. Len(q) - 1 : Tail(q)[k] = q[k + 1]
  OBVIOUS
<1>2. Enter(q[1].in) \in Items
  BY <1>1 DEF Items, Enter
<1>3. CASE q[1].part = "whole" /\ q[1].in \notin Lines
  <2> DEFINE h == <<Enter(q[1].in)>>
  <2>1. Advance(q) = h \o Tail(q)
    BY <1>1, <1>3 DEF Advance
  <2>2. h \in Seq(Items) /\ Len(h) = 1 /\ h[1] = Enter(q[1].in)
    BY <1>2
  <2>3. h \o Tail(q) \in Seq(Items) /\ Len(h \o Tail(q)) = Len(q)
          /\ \A k \in 1 .. Len(q) :
               (h \o Tail(q))[k] = IF k <= 1 THEN h[k] ELSE Tail(q)[k - 1]
    <3> HIDE DEF h
    <3> DEFINE w == Tail(q)
    <3>1. w \in Seq(Items) /\ Len(w) = Len(q) - 1
      BY <1>1
    <3> HIDE DEF w
    <3>2. h \o w \in Seq(Items) /\ Len(h \o w) = Len(h) + Len(w)
            /\ \A k \in 1 .. Len(h) + Len(w) :
                 (h \o w)[k] = IF k <= Len(h) THEN h[k] ELSE w[k - Len(h)]
      BY <2>2, <3>1, ConcatShape
    <3>3. Len(h) + Len(w) = Len(q) /\ Len(h) = 1
      BY <1>1, <2>2, <3>1
    <3>4. h \o w \in Seq(Items) /\ Len(h \o w) = Len(q)
            /\ \A k \in 1 .. Len(q) :
                 (h \o w)[k] = IF k <= 1 THEN h[k] ELSE w[k - 1]
      BY <3>2, <3>3
    <3> QED BY <3>4 DEF w
  <2> HIDE DEF h
  <2>4. \A k \in 2 .. Len(q) : (h \o Tail(q))[k] = q[k]
    BY <1>1, <2>3
  <2>5. (h \o Tail(q))[1] = Enter(q[1].in)
    BY <1>1, <2>2, <2>3
  <2> QED BY <1>3, <2>1, <2>3, <2>4, <2>5
<1>4. CASE ~(q[1].part = "whole" /\ q[1].in \notin Lines)
  <2>1. Advance(q) = Tail(q)
    BY <1>1, <1>4 DEF Advance
  <2> QED BY <1>1, <1>4, <2>1
<1> QED BY <1>3, <1>4

(* The whole input and its carriage return are entries (splitBracketedPasteSubmit). *)
LEMMA ItemFacts ==
  ASSUME NEW i \in Inputs
  PROVE  /\ Whole(i) \in Items /\ Whole(i).in = i /\ Whole(i).part = "whole"
         /\ Enter(i) \in Items /\ Enter(i).in = i /\ Enter(i).part = "cr"
BY DEF Whole, Enter, Items

(* A queue of entries holds inputs. *)
LEMMA InputsOfType ==
  ASSUME NEW q \in Seq(Items)
  PROVE  InputsOf(q) \subseteq Inputs
<1>1. \A k \in 1 .. Len(q) : q[k] \in Items
  OBVIOUS
<1> QED BY <1>1 DEF InputsOf, Items

(* What appendPendingInput evicts are inputs. *)
LEMMA EvictedType ==
  ASSUME NEW x \in Seq(Items), NEW y \in Seq(Items)
  PROVE  Evicted(x \o y) \subseteq Inputs
BY ConcatShape, InputsOfType DEF Evicted

(* Senders, flushers and the injector are goroutines; the session is none. *)
LEMMA ThreadFacts ==
  /\ Injector \in Threads /\ Senders \subseteq Threads /\ Flushers \subseteq Threads
  /\ Nobody \notin Threads
BY DEF Threads

-----------------------------------------------------------------------------
(* Type correctness, step by step. *)
LEMMA InitType == Init => TypeOK /\ BatchesOwned
<1> SUFFICES ASSUME Init PROVE TypeOK /\ BatchesOwned
  OBVIOUS
<1>1. << >> \in Seq(Items)
  OBVIOUS
<1>2. 1 \in 0 .. MaxEpoch /\ 0 \in 0 .. MaxEpoch /\ 1 \in Epochs
  BY DEF Epochs
<1>3. BatchesOwned
  BY DEF Init, BatchesOwned
<1>4. strayed \in BOOLEAN /\ late \in BOOLEAN
  BY DEF Init
<1> QED BY <1>1, <1>2, <1>3, <1>4 DEF Init, TypeOK

(* The two flags only record. *)
LEMMA FlagsStep ==
  ASSUME TypeOK, [Next]_vars
  PROVE  strayed' \in BOOLEAN /\ late' \in BOOLEAN
<1> USE DEF NoteSent, NoteLeft, NoteTaken, NoteLocked, Overtaken, Stray, overlap, history
<1>0. strayed \in BOOLEAN /\ late \in BOOLEAN
  BY DEF TypeOK
<1>1. ASSUME NEW t \in Threads, NEW i, NEW m, Capture(t, i, m)
      PROVE  strayed' \in BOOLEAN /\ late' \in BOOLEAN
  BY <1>0, <1>1 DEF Capture
<1>2. ASSUME NEW t \in Threads, Step(t) PROVE strayed' \in BOOLEAN /\ late' \in BOOLEAN
  <2>1. CASE LookUp(t) \/ SessionGone(t) \/ NothingToFlush(t) \/ SendFails(t)
    BY <1>0, <2>1 DEF LookUp, SessionGone, NothingToFlush, SendFails
  <2>2. CASE Defer(t) \/ GiveBack(t)
    <3>1. NoteLeft(t)
      BY <2>2 DEF Defer, GiveBack, PutBack
    <3> QED BY <1>0, <3>1
  <2>3. CASE Admit(t) \/ TakePending(t) \/ SendOk(t)
    BY <1>0, <2>3 DEF Admit, TakePending, SendOk
  <2> QED BY <1>2, <2>1, <2>2, <2>3 DEF Step
<1>3. ASSUME EchoSeen \/ EchoMissing \/ ClearGate PROVE strayed' \in BOOLEAN /\ late' \in BOOLEAN
  BY <1>0, <1>3 DEF EchoSeen, EchoMissing, ClearGate
<1>4. ASSUME Environment \/ UNCHANGED vars PROVE strayed' \in BOOLEAN /\ late' \in BOOLEAN
  BY <1>0, <1>4 DEF Environment, GateExpires, PeerVanishes, Unregister, Reattach, Dismiss, vars
<1> QED BY <1>1, <1>2, <1>3, <1>4, ThreadFacts DEF Next, InjectorStep, Rest, Submit, Inject

(* Where a goroutine continues after its call is a place in its code. *)
LEMMA ReturnType ==
  ASSUME TypeOK, NEW t \in Threads
  PROVE  Return(t) \in {"idle", "done", "echo"}
BY DEF Return

(* Every critical section of sessionsMu keeps the types and the queue limit. *)
LEMMA TypeStep ==
  ASSUME TypeOK, BatchesOwned, [Next]_vars
  PROVE  TypeOK'
<1> USE ThreadFacts
<1>0. strayed' \in BOOLEAN /\ late' \in BOOLEAN
  BY FlagsStep
<1> USE <1>0
<1>a. << >> \in Seq(Items) /\ Len(<< >>) <= MaxPending /\ 0 \in 0 .. MaxEpoch
  OBVIOUS
<1>1. ASSUME NEW t \in Threads, NEW i \in Inputs, NEW m \in {"submit", "bypass", "flush"},
             Capture(t, i, m)
      PROVE  TypeOK'
  <2>1. <<Whole(i)>> \in Seq(Items)
    BY ItemFacts
  <2> QED BY <1>1, <2>1 DEF TypeOK, Capture, session
<1>2. ASSUME NEW t \in Threads, LookUp(t) PROVE TypeOK'
  BY <1>2 DEF TypeOK, LookUp, session, history
<1>3. ASSUME NEW t \in Threads, SessionGone(t) PROVE TypeOK'
  <2>1. InputsOf(batch[t]) \subseteq Inputs
    BY InputsOfType DEF TypeOK
  <2> QED BY <1>3, <1>a, <2>1, ReturnType DEF TypeOK, SessionGone, session
<1>4. ASSUME NEW t \in Threads, Defer(t) PROVE TypeOK'
  <2>1. pending \in Seq(Items) /\ batch[t] \in Seq(Items)
    BY DEF TypeOK
  <2>2. /\ Newest(pending \o batch[t]) \in Seq(Items)
        /\ Len(Newest(pending \o batch[t])) <= MaxPending
        /\ Evicted(pending \o batch[t]) \subseteq Inputs
    BY <2>1, NewestConcat, EvictedType
  <2> QED BY <1>4, <1>a, <2>2, ReturnType DEF TypeOK, Defer, session
<1>5. ASSUME NEW t \in Threads, Admit(t) PROVE TypeOK'
  BY <1>5 DEF TypeOK, Admit, session, history
<1>6. ASSUME NEW t \in Threads, TakePending(t) PROVE TypeOK'
  BY <1>6, <1>a DEF TypeOK, TakePending, session, history
<1>7. ASSUME NEW t \in Threads, NothingToFlush(t) PROVE TypeOK'
  BY <1>7, ReturnType DEF TypeOK, NothingToFlush, session, history
<1>8. ASSUME NEW t \in Threads, SendOk(t) PROVE TypeOK'
  <2>1. batch[t] \in Seq(Items) /\ batch[t] # << >>
    BY <1>8 DEF TypeOK, BatchesOwned, SendOk
  <2>2. Head(batch[t]) \in Items /\ Advance(batch[t]) \in Seq(Items)
    BY <2>1, AdvanceShape
  <2>3. Append(written, Head(batch[t])) \in Seq(Items)
    BY <2>2 DEF TypeOK
  <2>4. /\ written' \in Seq(Items) /\ batch' \in [Threads -> Seq(Items)]
    BY <1>8, <2>2, <2>3 DEF TypeOK, SendOk
  <2>5. /\ pc' \in [Threads -> {"idle", "ready", "want", "send", "fail", "echo", "clear", "done"}]
        /\ inputMu' \in [Epochs -> Threads \cup {Nobody}]
    <3>1. CASE Advance(batch[t]) = << >>
      BY ZenonT(60), <1>8, <3>1, ReturnType DEF TypeOK, SendOk
    <3>2. CASE Advance(batch[t]) # << >>
      BY <1>8, <3>2 DEF TypeOK, SendOk
    <3> QED BY <3>1, <3>2
  <2> QED BY <1>8, <2>4, <2>5 DEF TypeOK, SendOk, session
<1>9. ASSUME NEW t \in Threads, SendFails(t) PROVE TypeOK'
  BY <1>9 DEF TypeOK, SendFails, session, history
<1>10. ASSUME NEW t \in Threads, GiveBack(t) PROVE TypeOK'
  <2>1. pending \in Seq(Items) /\ batch[t] \in Seq(Items)
    BY DEF TypeOK
  <2>2. /\ Newest(pending \o batch[t]) \in Seq(Items) /\ Evicted(pending \o batch[t]) \subseteq Inputs
        /\ Len(Newest(pending \o batch[t])) <= MaxPending
        /\ Len(Newest(batch[t] \o pending)) <= MaxPending
        /\ Newest(batch[t] \o pending) \in Seq(Items) /\ Evicted(batch[t] \o pending) \subseteq Inputs
    BY <2>1, NewestConcat, EvictedType
  <2>3. pending' \in Seq(Items) /\ Len(pending') <= MaxPending /\ dropped' \subseteq Inputs
    BY <1>10, <2>2 DEF TypeOK, GiveBack, PutBack
  <2> QED BY <1>10, <1>a, <2>3, ReturnType DEF TypeOK, GiveBack, PutBack, session
<1>11. ASSUME EchoSeen \/ EchoMissing PROVE TypeOK'
  BY <1>11 DEF TypeOK, EchoSeen, EchoMissing, session, history
<1>12. ASSUME ClearGate PROVE TypeOK'
  <2>1. CASE ses = 0
    BY <1>12, <2>1 DEF TypeOK, ClearGate, history
  <2>2. CASE ses # 0
    BY <1>12, <2>2 DEF TypeOK, ClearGate, history
  <2> QED BY <2>1, <2>2
<1>13. ASSUME GateExpires \/ PeerVanishes \/ Unregister PROVE TypeOK'
  BY <1>13, <1>a DEF TypeOK, GateExpires, PeerVanishes, Unregister, thread, history
<1>14. ASSUME NEW f \in Flushers, Reattach(f) PROVE TypeOK'
  <2>1. made + 1 \in Epochs /\ made + 1 \in 0 .. MaxEpoch
    BY <1>14 DEF TypeOK, Reattach, Epochs
  <2> QED BY <1>14, <2>1 DEF TypeOK, Reattach, history
<1>15. ASSUME Dismiss PROVE TypeOK'
  <2>1. InputsOf(pending) \subseteq Inputs
    BY InputsOfType DEF TypeOK
  <2> QED BY <1>15, <1>a, <2>1 DEF TypeOK, Dismiss, thread
<1>16. ASSUME UNCHANGED vars PROVE TypeOK'
  BY <1>16 DEF TypeOK, vars
<1> QED
  BY <1>1, <1>2, <1>3, <1>4, <1>5, <1>6, <1>7, <1>8, <1>9, <1>10, <1>11, <1>12, <1>13,
     <1>14, <1>15, <1>16
  DEF Next, Step, InjectorStep, Environment, Rest, Submit, Inject, Inputs

(* Batches are owned between capture and give-back (trySendInput). *)
LEMMA BatchesStep ==
  ASSUME TypeOK, BatchesOwned, [Next]_vars
  PROVE  BatchesOwned'
<1> USE ThreadFacts
<1>1. ASSUME NEW t \in Threads, NEW i \in Inputs, NEW m \in {"submit", "bypass"},
             Capture(t, i, m)
      PROVE  BatchesOwned'
  <2>1. <<Whole(i)>> # << >>
    OBVIOUS
  <2> QED BY <1>1, <2>1 DEF TypeOK, BatchesOwned, Capture
<1>2. ASSUME NEW t \in Threads, LookUp(t) PROVE BatchesOwned'
  BY <1>2 DEF TypeOK, BatchesOwned, LookUp
<1>3. ASSUME NEW t \in Threads, SessionGone(t) \/ Defer(t) \/ GiveBack(t) PROVE BatchesOwned'
  <2>1. /\ batch' = [batch EXCEPT ![t] = << >>] /\ mode' = mode
        /\ pc' = [pc EXCEPT ![t] = Return(t)]
    <3>1. CASE SessionGone(t)
      BY <3>1 DEF SessionGone
    <3>2. CASE Defer(t)
      BY <3>2 DEF Defer
    <3>3. CASE GiveBack(t)
      BY <3>3 DEF GiveBack, PutBack
    <3> QED BY <1>3, <3>1, <3>2, <3>3
  <2> QED BY <2>1, ReturnType DEF TypeOK, BatchesOwned
<1>4. ASSUME NEW t \in Threads, Admit(t) PROVE BatchesOwned'
  BY <1>4 DEF TypeOK, BatchesOwned, Admit
<1>5. ASSUME NEW t \in Threads, TakePending(t) PROVE BatchesOwned'
  BY <1>5 DEF TypeOK, BatchesOwned, TakePending
<1>6. ASSUME NEW t \in Threads, NothingToFlush(t) PROVE BatchesOwned'
  BY <1>6, ReturnType DEF TypeOK, BatchesOwned, NothingToFlush
<1>7. ASSUME NEW t \in Threads, SendOk(t) PROVE BatchesOwned'
  <2>1. CASE Advance(batch[t]) = << >>
    BY ZenonT(60), <1>7, <2>1, ReturnType DEF TypeOK, BatchesOwned, SendOk
  <2>2. CASE Advance(batch[t]) # << >>
    BY <1>7, <2>2 DEF TypeOK, BatchesOwned, SendOk
  <2> QED BY <2>1, <2>2
<1>8. ASSUME NEW t \in Threads, SendFails(t) PROVE BatchesOwned'
  BY <1>8 DEF TypeOK, BatchesOwned, SendFails
<1>9. ASSUME EchoSeen \/ EchoMissing PROVE BatchesOwned'
  BY <1>9 DEF TypeOK, BatchesOwned, EchoSeen, EchoMissing
<1>10. ASSUME ClearGate PROVE BatchesOwned'
  <2>1. CASE ses = 0
    BY <1>10, <2>1 DEF TypeOK, BatchesOwned, ClearGate
  <2>2. CASE ses # 0
    <3>1. /\ batch[Injector] = << >> /\ batch' = batch
          /\ pc' = [pc EXCEPT ![Injector] = "ready"]
          /\ mode' = [mode EXCEPT ![Injector] = "flush"]
      BY <1>10, <2>2 DEF BatchesOwned, ClearGate
    <3> QED BY <3>1 DEF TypeOK, BatchesOwned
  <2> QED BY <2>1, <2>2
<1>11. ASSUME GateExpires \/ PeerVanishes \/ Unregister \/ Dismiss \/ UNCHANGED vars
       PROVE  BatchesOwned'
  BY <1>11 DEF BatchesOwned, GateExpires, PeerVanishes, Unregister, Dismiss, thread, vars
<1>12. ASSUME NEW f \in Flushers, Reattach(f) PROVE BatchesOwned'
  BY <1>12 DEF TypeOK, BatchesOwned, Reattach
<1> QED
  BY <1>1, <1>2, <1>3, <1>4, <1>5, <1>6, <1>7, <1>8, <1>9, <1>10, <1>11, <1>12
  DEF Next, Step, InjectorStep, Environment, Rest, Submit, Inject, Inputs

(* Type correctness of the whole input path. *)
THEOREM TypeCorrect == Spec => []TypeOK
<1>1. Init => TypeOK /\ BatchesOwned
  BY InitType
<1>2. TypeOK /\ BatchesOwned /\ [Next]_vars => (TypeOK /\ BatchesOwned)'
  BY TypeStep, BatchesStep
<1> QED BY <1>1, <1>2, PTL DEF Spec

-----------------------------------------------------------------------------
(* The queues as one function of their places: the invariant's parts about  *)
(* queues, stated of such a function.                                       *)
Queues == [p \in Places |-> Queue(p)]

Apart(Q) ==
  \A p, r \in Places : \A a \in 1 .. Len(Q[p]), b \in 1 .. Len(Q[r]) :
    Q[p][a].in = Q[r][b].in => p = r /\ a = b

Unwritten(x, sub, out) ==
  /\ x.in \in sub
  /\ x.part = "whole" => \A k \in 1 .. Len(out) : out[k].in # x.in
  /\ x.part = "cr" => /\ x.in \notin Lines
                      /\ \A k \in 1 .. Len(out) : out[k] # x
                      /\ \E k \in 1 .. Len(out) : out[k] = Whole(x.in)

AllUnwritten(Q, sub, out) ==
  \A p \in Places : \A a \in 1 .. Len(Q[p]) : Unwritten(Q[p][a], sub, out)

(* Everything in Q2 comes from Q. *)
From(Q2, Q) ==
  \A p \in Places : \A a \in 1 .. Len(Q2[p]) :
    \E r \in Places : \E b \in 1 .. Len(Q[r]) : Q2[p][a] = Q[r][b]

(* Every place of the invariant holds a queue of entries. *)
LEMMA QueuesFacts ==
  /\ TypeOK => /\ Queues \in [Places -> Seq(Items)]
               /\ Queues[Nobody] = pending
               /\ \A t \in Threads : Queues[t] = batch[t]
  /\ OnePlace <=> Apart(Queues)
  /\ HeldUnwritten <=> AllUnwritten(Queues, submitted, written)
<1>1. \A p \in Places : Queues[p] = Queue(p)
  BY DEF Queues
<1>2. OnePlace <=> Apart(Queues)
  BY <1>1 DEF OnePlace, Apart
<1>3. HeldUnwritten <=> AllUnwritten(Queues, submitted, written)
  BY <1>1 DEF HeldUnwritten, AllUnwritten, Unwritten
<1>4. TypeOK => /\ Queues \in [Places -> Seq(Items)]
                /\ Queues[Nobody] = pending
                /\ \A t \in Threads : Queues[t] = batch[t]
  BY ThreadFacts DEF Queues, Queue, Places, TypeOK
<1> QED BY <1>2, <1>3, <1>4

(* The same of the next state. *)
LEMMA QueuesFactsPrimed ==
  /\ TypeOK' => /\ Queues' \in [Places -> Seq(Items)]
                /\ Queues'[Nobody] = pending'
                /\ \A t \in Threads : Queues'[t] = batch'[t]
  /\ OnePlace' <=> Apart(Queues')
  /\ HeldUnwritten' <=> AllUnwritten(Queues', submitted', written')
<1>1. \A p \in Places : Queues'[p] = Queue(p)'
  BY DEF Queues
<1>2. OnePlace' <=> Apart(Queues')
  BY <1>1 DEF OnePlace, Apart
<1>3. HeldUnwritten' <=> AllUnwritten(Queues', submitted', written')
  BY <1>1 DEF HeldUnwritten, AllUnwritten, Unwritten
<1>4. TypeOK' => /\ Queues' \in [Places -> Seq(Items)]
                 /\ Queues'[Nobody] = pending'
                 /\ \A t \in Threads : Queues'[t] = batch'[t]
  BY ThreadFacts DEF Queues, Queue, Places, TypeOK
<1> QED BY <1>2, <1>3, <1>4

(* Emptying the place t and the session's queue into the latter, within the *)
(* limit: the contents of u first, then those of v.                         *)
LEMMA Merge ==
  ASSUME NEW Q \in [Places -> Seq(Items)], NEW Q2 \in [Places -> Seq(Items)],
         NEW u \in Places, NEW v \in Places, u # v, Nobody \in {u, v},
         Q2 = [p \in Places |-> IF p = Nobody THEN Newest(Q[u] \o Q[v])
                                ELSE IF p \in {u, v} THEN << >> ELSE Q[p]],
         Apart(Q)
  PROVE  Apart(Q2) /\ From(Q2, Q)
<1> DEFINE w == Nobody
<1>0. /\ w = u \/ w = v
      /\ w \in Places /\ Q2[w] = Newest(Q[u] \o Q[v])
      /\ \A p \in Places : (p = u \/ p = v) /\ p # w => Q2[p] = << >>
      /\ \A p \in Places : p # u /\ p # v => Q2[p] = Q[p]
  BY DEF Places
<1> HIDE DEF w
<1> DEFINE x == Q[u]
           y == Q[v]
           z == Newest(x \o y)
<1>1. x \in Seq(Items) /\ y \in Seq(Items)
  OBVIOUS
<1>2. PICK d \in Nat :
        /\ Len(x) + Len(y) = Len(z) + d
        /\ \A k \in 1 .. Len(z) : z[k] = IF k + d <= Len(x) THEN x[k + d] ELSE y[k + d - Len(x)]
  BY <1>1, NewestConcat
<1>3. z \in Seq(Items) /\ Len(x) \in Nat /\ Len(y) \in Nat /\ Len(z) \in Nat
  BY <1>1, NewestConcat
<1> HIDE DEF x, y, z
<1>4. Q2[w] = z /\ Q[u] = x /\ Q[v] = y
  BY <1>0 DEF x, y, z
(* The place and the position that an element comes from. *)
<1> DEFINE P(p, a) == IF p = w THEN (IF a + d <= Len(x) THEN u ELSE v) ELSE p
           K(p, a) == IF p = w THEN (IF a + d <= Len(x) THEN a + d ELSE a + d - Len(x)) ELSE a
<1>5. ASSUME NEW p \in Places, NEW a \in 1 .. Len(Q2[p])
      PROVE  /\ P(p, a) \in Places /\ K(p, a) \in 1 .. Len(Q[P(p, a)])
             /\ Q2[p][a] = Q[P(p, a)][K(p, a)]
             /\ p # w => p \notin {u, v}
  <2>1. CASE p = w
    <3>1. a \in 1 .. Len(z) /\ Q2[p][a] = z[a]
      BY <2>1, <1>4
    <3>2. CASE a + d <= Len(x)
      BY <3>1, <3>2, <2>1, <1>2, <1>3, <1>4
    <3>3. CASE ~(a + d <= Len(x))
      BY <3>1, <3>3, <2>1, <1>2, <1>3, <1>4
    <3> QED BY <3>2, <3>3
  <2>2. CASE p # w
    <3>1. p \notin {u, v}
      <4>1. SUFFICES ASSUME p \in {u, v} PROVE FALSE
        OBVIOUS
      <4>2. Q2[p] = << >>
        BY <4>1, <2>2, <1>0
      <4> QED BY <4>2
    <3> QED BY <3>1, <2>2, <1>0
  <2> QED BY <2>1, <2>2
<1>6. From(Q2, Q)
  <2> SUFFICES ASSUME NEW p \in Places, NEW a \in 1 .. Len(Q2[p])
               PROVE  \E r \in Places : \E b \in 1 .. Len(Q[r]) : Q2[p][a] = Q[r][b]
    BY DEF From
  <2> DEFINE r == P(p, a)
             b == K(p, a)
  <2>1. r \in Places /\ b \in 1 .. Len(Q[r]) /\ Q2[p][a] = Q[r][b]
    BY <1>5
  <2> HIDE DEF r, b
  <2> QED BY <2>1
<1>7. Apart(Q2)
  <2> SUFFICES ASSUME NEW p \in Places, NEW r \in Places,
                      NEW a \in 1 .. Len(Q2[p]), NEW b \in 1 .. Len(Q2[r]),
                      Q2[p][a].in = Q2[r][b].in
               PROVE  p = r /\ a = b
    BY DEF Apart
  <2>1. P(p, a) = P(r, b) /\ K(p, a) = K(r, b)
    <3> DEFINE p1 == P(p, a)
               a1 == K(p, a)
               r1 == P(r, b)
               b1 == K(r, b)
    <3>1. p1 \in Places /\ a1 \in 1 .. Len(Q[p1]) /\ Q2[p][a] = Q[p1][a1]
      BY <1>5
    <3>2. r1 \in Places /\ b1 \in 1 .. Len(Q[r1]) /\ Q2[r][b] = Q[r1][b1]
      BY <1>5
    <3> HIDE DEF p1, a1, r1, b1
    <3>3. p1 = r1 /\ a1 = b1
      BY <3>1, <3>2 DEF Apart
    <3> QED BY <3>3 DEF p1, a1, r1, b1
  <2>2. (p # w => p \notin {u, v}) /\ (r # w => r \notin {u, v})
    BY <1>5
  <2>3. a \in Nat /\ b \in Nat
    BY <1>3, <1>4
  <2>4. p = r
    BY <2>1, <2>2, <1>0
  <2> QED BY <2>1, <2>2, <2>3, <2>4, <1>3, <1>0
<1> QED BY <1>6, <1>7

(* Emptying or keeping each place. *)
LEMMA Shrink ==
  ASSUME NEW Q, NEW Q2, \A p \in Places : Q2[p] = Q[p] \/ Q2[p] = << >>, Apart(Q)
  PROVE  Apart(Q2) /\ From(Q2, Q)
BY DEF Apart, From

(* Moving everything from the place v to the empty place u. *)
LEMMA Move ==
  ASSUME NEW Q, NEW Q2, NEW u \in Places, NEW v \in Places, u # v,
         Q2[u] = Q[v], Q2[v] = << >>,
         \A p \in Places : p # u /\ p # v => Q2[p] = Q[p],
         Apart(Q)
  PROVE  Apart(Q2) /\ From(Q2, Q)
<1> DEFINE P(p) == IF p = u THEN v ELSE p
<1>1. ASSUME NEW p \in Places, NEW a \in 1 .. Len(Q2[p])
      PROVE  p # v /\ P(p) \in Places /\ Q2[p] = Q[P(p)]
  <2>1. p # v
    <3> SUFFICES ASSUME p = v PROVE FALSE
      OBVIOUS
    <3>1. Len(Q2[p]) = 0
      OBVIOUS
    <3> QED BY <3>1
  <2> QED BY <2>1
<1>2. From(Q2, Q)
  BY <1>1 DEF From
<1>3. Apart(Q2)
  <2> SUFFICES ASSUME NEW p \in Places, NEW r \in Places,
                      NEW a \in 1 .. Len(Q2[p]), NEW b \in 1 .. Len(Q2[r]),
                      Q2[p][a].in = Q2[r][b].in
               PROVE  p = r /\ a = b
    BY DEF Apart
  <2>1. P(p) = P(r) /\ a = b
    BY SMTT(30), <1>1 DEF Apart
  <2> QED BY <1>1, <2>1
<1> QED BY <1>2, <1>3

-----------------------------------------------------------------------------
(* The inductive step: first for the steps that only move inputs about.     *)
Places3 == OnePlace /\ HeldUnwritten /\ WrittenSubmitted /\ AtMostOnce /\ EnterFollowsBody

(* Requeueing and deferring rearrange inputs and duplicate none. *)
LEMMA Rearranged ==
  ASSUME Inv, Apart(Queues'), From(Queues', Queues), UNCHANGED <<submitted, written>>
  PROVE  Places3'
<1>1. AllUnwritten(Queues, submitted, written)
  BY QueuesFacts DEF Inv
<1>2. AllUnwritten(Queues', submitted, written)
  <2> SUFFICES ASSUME NEW p \in Places, NEW a \in 1 .. Len(Queues'[p])
               PROVE  Unwritten(Queues'[p][a], submitted, written)
    BY DEF AllUnwritten
  <2>0. PICK r \in Places : \E b \in 1 .. Len(Queues[r]) : Queues'[p][a] = Queues[r][b]
    BY DEF From
  <2>1. PICK b \in 1 .. Len(Queues[r]) : Queues'[p][a] = Queues[r][b]
    BY <2>0
  <2>2. Unwritten(Queues[r][b], submitted, written)
    BY <1>1 DEF AllUnwritten
  <2> QED BY <2>1, <2>2
<1>3. OnePlace' /\ HeldUnwritten'
  BY <1>2, QueuesFactsPrimed
<1>4. (WrittenSubmitted /\ AtMostOnce /\ EnterFollowsBody)'
  BY DEF Inv, WrittenSubmitted, AtMostOnce, EnterFollowsBody
<1> QED BY <1>3, <1>4 DEF Places3

(* A step that leaves every queue alone keeps the places (session events). *)
LEMMA Unmoved ==
  ASSUME Inv, UNCHANGED <<pending, batch, submitted, written>>
  PROVE  Places3'
<1>1. Queues' = Queues
  BY DEF Queues, Queue
<1>2. Apart(Queues)
  BY QueuesFacts DEF Inv
<1>3. Apart(Queues') /\ From(Queues', Queues)
  BY <1>1, <1>2, Shrink
<1> QED BY <1>3, Rearranged

(* Deferring, taking and giving back (input_gate.go:145-254) keep the invariant. *)
LEMMA MovedStep ==
  ASSUME Inv, TypeOK', NEW t \in Threads,
         SessionGone(t) \/ Defer(t) \/ TakePending(t) \/ GiveBack(t)
  PROVE  Places3'
<1> USE ThreadFacts
<1>1. /\ Queues \in [Places -> Seq(Items)] /\ Queues' \in [Places -> Seq(Items)]
      /\ Queues[Nobody] = pending /\ Queues'[Nobody] = pending'
      /\ \A s \in Threads : Queues[s] = batch[s] /\ Queues'[s] = batch'[s]
      /\ Apart(Queues) /\ TypeOK
  BY QueuesFacts, QueuesFactsPrimed DEF Inv
<1>2. t \in Places /\ Nobody \in Places /\ t # Nobody
        /\ \A p \in Places \ {t, Nobody} : p \in Threads /\ p # t
  BY DEF Places
<1>3. CASE SessionGone(t)
  <2>0. pending' = pending /\ batch' = [batch EXCEPT ![t] = << >>]
    BY <1>3 DEF SessionGone
  <2>1. ASSUME NEW p \in Places PROVE Queues'[p] = Queues[p] \/ Queues'[p] = << >>
    <3>1. CASE p = Nobody
      BY <3>1, <2>0, <1>1
    <3>2. CASE p = t
      BY <3>2, <2>0, <1>1 DEF TypeOK
    <3>3. CASE p \in Places \ {t, Nobody}
      BY <3>3, <2>0, <1>1, <1>2 DEF TypeOK
    <3> QED BY <3>1, <3>2, <3>3
  <2>2. UNCHANGED <<submitted, written>>
    BY <1>3 DEF SessionGone
  <2> QED BY <1>1, <2>1, <2>2, Shrink, Rearranged
<1>4. CASE Defer(t)
  <2>1. Queues' = [p \in Places |-> IF p = Nobody THEN Newest(Queues[Nobody] \o Queues[t])
                                    ELSE IF p \in {Nobody, t} THEN << >> ELSE Queues[p]]
    BY <1>1, <1>2, <1>4 DEF Defer, TypeOK
  <2>2. UNCHANGED <<submitted, written>>
    BY <1>4 DEF Defer
  <2>3. Apart(Queues') /\ From(Queues', Queues)
    BY ZenonT(60), <1>1, <1>2, <2>1, Merge
  <2> QED BY <2>2, <2>3, Rearranged
<1>5. CASE TakePending(t)
  <2>1. /\ Queues'[t] = Queues[Nobody] /\ Queues[t] = << >>
        /\ Queues'[Nobody] = << >>
        /\ \A p \in Places \ {t, Nobody} : Queues'[p] = Queues[p]
    BY <1>1, <1>2, <1>5 DEF TakePending, TypeOK, Inv, BatchesOwned
  <2>2. UNCHANGED <<submitted, written>>
    BY <1>5 DEF TakePending, history
  <2>3. \A p \in Places : p # t /\ p # Nobody => Queues'[p] = Queues[p]
    BY <2>1
  <2>4. Apart(Queues') /\ From(Queues', Queues)
    BY <1>1, <1>2, <2>1, <2>3, Move
  <2> QED BY <2>2, <2>4, Rearranged
<1>6. CASE GiveBack(t)
  <2>1. ASSUME mode[t] = "flush" PROVE Apart(Queues') /\ From(Queues', Queues)
    <3>1. Queues' = [p \in Places |-> IF p = Nobody THEN Newest(Queues[t] \o Queues[Nobody])
                                      ELSE IF p \in {t, Nobody} THEN << >> ELSE Queues[p]]
      BY <1>1, <1>2, <1>6, <2>1 DEF GiveBack, PutBack, TypeOK
    <3> QED BY <1>1, <1>2, <3>1, Merge
  <2>4. ASSUME mode[t] # "flush" PROVE Apart(Queues') /\ From(Queues', Queues)
    <3>1. Queues' = [p \in Places |-> IF p = Nobody THEN Newest(Queues[Nobody] \o Queues[t])
                                      ELSE IF p \in {Nobody, t} THEN << >> ELSE Queues[p]]
      BY SMTT(30), <1>1, <1>2, <1>6, <2>4 DEF GiveBack, PutBack, TypeOK
    <3> QED BY ZenonT(60), <1>1, <1>2, <3>1, Merge
  <2>2. UNCHANGED <<submitted, written>>
    BY <1>6 DEF GiveBack, PutBack
  <2>3. Apart(Queues') /\ From(Queues', Queues)
    BY <2>1, <2>4
  <2> QED BY <2>2, <2>3, Rearranged
<1> QED BY <1>3, <1>4, <1>5, <1>6

(* A captured input is new: nowhere held and nowhere written. *)
LEMMA CaptureStep ==
  ASSUME Inv, TypeOK', NEW t \in Threads, NEW i \in Inputs, NEW m, Capture(t, i, m)
  PROVE  Places3'
<1> USE ThreadFacts
<1>1. /\ Queues[t] = << >> /\ Queues'[t] = <<Whole(i)>>
      /\ \A p \in Places : p # t => Queues'[p] = Queues[p]
      /\ Apart(Queues) /\ AllUnwritten(Queues, submitted, written)
  <2>1. batch[t] = << >> /\ batch' = [batch EXCEPT ![t] = <<Whole(i)>>] /\ pending' = pending
    BY DEF Inv, BatchesOwned, Capture
  <2>2. \A p \in Places : Queues[p] = Queue(p) /\ Queues'[p] = Queue(p)' /\ t \in Places
    BY DEF Queues, Places
  <2> QED BY ZenonT(60), <2>1, <2>2, QueuesFacts DEF Queue, Inv, TypeOK, Places
<1>2. i \notin submitted /\ submitted' = submitted \cup {i} /\ written' = written
  BY DEF Capture
<1>3. Len(<<Whole(i)>>) = 1 /\ <<Whole(i)>>[1] = Whole(i)
        /\ \A a \in 1 .. Len(<<Whole(i)>>) : a = 1
  OBVIOUS
<1>4. \A p \in Places : \A a \in 1 .. Len(Queues[p]) : Queues[p][a].in \in submitted
  BY <1>1 DEF AllUnwritten, Unwritten
<1>5. Whole(i).in = i /\ Whole(i).part = "whole"
  BY ItemFacts
<1>6. Apart(Queues')
  <2> SUFFICES ASSUME NEW p \in Places, NEW r \in Places,
                      NEW a \in 1 .. Len(Queues'[p]), NEW b \in 1 .. Len(Queues'[r]),
                      Queues'[p][a].in = Queues'[r][b].in
               PROVE  p = r /\ a = b
    BY DEF Apart
  <2>1. CASE p = t /\ r = t
    BY <2>1, <1>1, <1>3
  <2>2. CASE p = t /\ r # t
    BY <2>2, <1>1, <1>2, <1>3, <1>4, <1>5
  <2>3. CASE p # t /\ r = t
    BY <2>3, <1>1, <1>2, <1>3, <1>4, <1>5
  <2>4. CASE p # t /\ r # t
    BY <2>4, <1>1 DEF Apart
  <2> QED BY <2>1, <2>2, <2>3, <2>4
<1>7. AllUnwritten(Queues', submitted', written')
  <2> SUFFICES ASSUME NEW p \in Places, NEW a \in 1 .. Len(Queues'[p])
               PROVE  Unwritten(Queues'[p][a], submitted', written)
    BY <1>2 DEF AllUnwritten
  <2>1. CASE p = t
    <3>1. \A k \in 1 .. Len(written) : written[k].in # i
      BY <1>2 DEF Inv, WrittenSubmitted
    <3>2. Queues'[p][a] = Whole(i)
      BY <2>1, <1>1, <1>3
    <3> QED BY <3>1, <3>2, <1>2, <1>5 DEF Unwritten
  <2>2. CASE p # t
    BY <2>2, <1>1, <1>2 DEF AllUnwritten, Unwritten
  <2> QED BY <2>1, <2>2
<1>8. (WrittenSubmitted /\ AtMostOnce /\ EnterFollowsBody)'
  BY <1>2 DEF Inv, WrittenSubmitted, AtMostOnce, EnterFollowsBody
<1> QED BY <1>6, <1>7, <1>8, QueuesFactsPrimed DEF Places3

(* The next piece is written and what remains of its batch is the rest. *)
LEMMA SendStep ==
  ASSUME Inv, TypeOK', NEW t \in Threads, SendOk(t)
  PROVE  Places3'
<1> USE ThreadFacts
<1> DEFINE Q == Queues
           R == Queues'
           x == Q[t][1]
           n == Len(written)
<1>1. /\ t \in Places /\ Q \in [Places -> Seq(Items)] /\ Q[t] = batch[t] /\ batch[t] # << >>
      /\ R[t] = Advance(batch[t])
      /\ \A p \in Places : p # t => R[p] = Q[p]
      /\ Apart(Q) /\ AllUnwritten(Q, submitted, written)
  <2>1. batch' = [batch EXCEPT ![t] = Advance(batch[t])] /\ pending' = pending /\ batch[t] # << >>
    BY DEF Inv, BatchesOwned, SendOk
  <2>2. \A p \in Places : Queues[p] = Queue(p) /\ Queues'[p] = Queue(p)' /\ t \in Places
    BY DEF Queues, Places
  <2> QED BY ZenonT(60), <2>1, <2>2, QueuesFacts DEF Queue, Inv, TypeOK, Places
<1>2. /\ Q[t] \in Seq(Items) /\ Len(Q[t]) \in Nat /\ 1 \in 1 .. Len(Q[t]) /\ x \in Items
      /\ Head(batch[t]) = x
  BY <1>1
<1>3. /\ written \in Seq(Items) /\ n \in Nat /\ Len(written') = n + 1
      /\ \A k \in 1 .. n : written'[k] = written[k]
      /\ written'[n + 1] = x
      /\ submitted' = submitted
  <2>1. written' = Append(written, x) /\ submitted' = submitted
    BY <1>2 DEF SendOk
  <2>2. written \in Seq(Items)
    BY DEF Inv, TypeOK
  <2> HIDE DEF x
  <2> QED BY <2>1, <2>2, <1>2
<1>4. Unwritten(x, submitted, written)
  BY <1>1, <1>2 DEF AllUnwritten
<1>5. \/ /\ x.part = "whole" /\ x.in \notin Lines
         /\ Len(R[t]) = Len(Q[t]) /\ R[t][1] = Enter(x.in)
         /\ \A k \in 2 .. Len(Q[t]) : R[t][k] = Q[t][k]
      \/ /\ ~(x.part = "whole" /\ x.in \notin Lines)
         /\ Len(R[t]) = Len(Q[t]) - 1
         /\ \A k \in 1 .. Len(Q[t]) - 1 : R[t][k] = Q[t][k + 1]
  BY <1>1, <1>2, AdvanceShape
<1>6. /\ x.in \in Inputs /\ x.part \in {"whole", "cr"}
      /\ x.part = "whole" => x = Whole(x.in)
      /\ Enter(x.in).in = x.in /\ Enter(x.in).part = "cr" /\ Enter(x.in) # Whole(x.in)
  BY <1>2 DEF Items, Whole, Enter
<1> HIDE DEF Q, R, x, n
(* Where the elements of the queues come from. *)
<1>7. ASSUME NEW p \in Places, NEW a \in 1 .. Len(R[p])
      PROVE  \/ p = t /\ a = 1 /\ x.part = "whole" /\ x.in \notin Lines /\ R[p][a] = Enter(x.in)
             \/ /\ p = t => x.part = "whole" /\ x.in \notin Lines /\ a # 1
                /\ a \in 1 .. Len(Q[p]) /\ R[p][a] = Q[p][a]
             \/ /\ p = t /\ ~(x.part = "whole" /\ x.in \notin Lines)
                /\ a + 1 \in 1 .. Len(Q[p]) /\ R[p][a] = Q[p][a + 1] /\ a + 1 # 1
  <2>1. CASE p # t
    BY <2>1, <1>1
  <2>2. CASE p = t /\ x.part = "whole" /\ x.in \notin Lines
    BY <2>2, <1>2, <1>5
  <2>3. CASE p = t /\ ~(x.part = "whole" /\ x.in \notin Lines)
    BY <2>3, <1>2, <1>5
  <2> QED BY <2>1, <2>2, <2>3
<1>8. x = Q[t][1]
  BY DEF x
<1>9. Apart(R)
  <2> SUFFICES ASSUME NEW p \in Places, NEW r \in Places,
                      NEW a \in 1 .. Len(R[p]), NEW b \in 1 .. Len(R[r]),
                      R[p][a].in = R[r][b].in
               PROVE  p = r /\ a = b
    BY DEF Apart
  <2>0. a \in Nat /\ b \in Nat
    OBVIOUS
  <2>1. PICK a1 \in 1 .. Len(Q[p]) :
          /\ R[p][a].in = Q[p][a1].in
          /\ a1 = IF p = t /\ ~(x.part = "whole" /\ x.in \notin Lines) THEN a + 1 ELSE a
    BY <1>2, <1>6, <1>7, <1>8
  <2>2. PICK b1 \in 1 .. Len(Q[r]) :
          /\ R[r][b].in = Q[r][b1].in
          /\ b1 = IF r = t /\ ~(x.part = "whole" /\ x.in \notin Lines) THEN b + 1 ELSE b
    BY <1>2, <1>6, <1>7, <1>8
  <2>3. Q[p][a1].in = Q[r][b1].in
    BY <2>1, <2>2
  <2>4. Apart(Q)
    BY <1>1
  <2>5. p = r /\ a1 = b1
    BY <2>3, <2>4 DEF Apart
  <2> QED BY <2>0, <2>1, <2>2, <2>5
(* Whatever else is held is another input than the one being written. *)
<1>10. ASSUME NEW p \in Places, NEW a \in 1 .. Len(Q[p]), p # t \/ a # 1
       PROVE  Unwritten(Q[p][a], submitted', written')
  <2>1. Q[p][a].in # x.in
    BY <1>1, <1>2, <1>8, <1>10 DEF Apart
  <2>2. Unwritten(Q[p][a], submitted, written)
    BY <1>1 DEF AllUnwritten
  <2>3. \A k \in 1 .. n + 1 : k = n + 1 \/ k \in 1 .. n
    BY <1>3
  <2> QED BY <2>1, <2>2, <2>3, <1>3 DEF Unwritten, n
<1>11. AllUnwritten(R, submitted', written')
  <2> SUFFICES ASSUME NEW p \in Places, NEW a \in 1 .. Len(R[p])
               PROVE  Unwritten(R[p][a], submitted', written')
    BY DEF AllUnwritten
  <2>1. CASE p = t /\ a = 1 /\ x.part = "whole" /\ x.in \notin Lines /\ R[p][a] = Enter(x.in)
    <3>1. \A k \in 1 .. n : written[k].in # x.in
      BY <2>1, <1>4 DEF Unwritten, n
    <3>2. \A k \in 1 .. n + 1 : written'[k] # Enter(x.in)
      BY <2>1, <3>1, <1>3, <1>6
    <3>3. written'[n + 1] = Whole(x.in) /\ n + 1 \in 1 .. Len(written')
      BY <2>1, <1>3, <1>6
    <3>4. x.in \in submitted'
      BY <1>3, <1>4 DEF Unwritten
    <3> QED BY <2>1, <3>2, <3>3, <3>4, <1>3, <1>6 DEF Unwritten
  <2>2. CASE ~(p = t /\ a = 1 /\ x.part = "whole" /\ x.in \notin Lines /\ R[p][a] = Enter(x.in))
    BY <2>2, <1>7, <1>10
  <2> QED BY <2>1, <2>2
<1>12. WrittenSubmitted'
  BY <1>3, <1>4 DEF Inv, WrittenSubmitted, Unwritten, n
<1>13. \A k \in 1 .. n : written[k] # x
  BY <1>4, <1>6 DEF Unwritten, n
<1>14. AtMostOnce'
  <2> SUFFICES ASSUME NEW j \in 1 .. n + 1, NEW k \in 1 .. n + 1, written'[j] = written'[k]
               PROVE  j = k
    BY <1>3 DEF AtMostOnce
  <2>1. \A l \in 1 .. n + 1 : l = n + 1 \/ l \in 1 .. n
    BY <1>3
  <2>2. \A a, b \in 1 .. n : written[a] = written[b] => a = b
    BY DEF Inv, AtMostOnce, n
  <2> QED BY <2>1, <2>2, <1>3, <1>13
<1>15. EnterFollowsBody'
  <2> SUFFICES ASSUME NEW k \in 1 .. n + 1, written'[k].part = "cr"
               PROVE  \E j \in 1 .. k - 1 : written'[j] = Whole(written'[k].in)
    BY <1>3 DEF EnterFollowsBody, Whole
  <2>1. CASE k \in 1 .. n
    <3>1. PICK j \in 1 .. k - 1 : written[j] = Whole(written[k].in)
      BY <2>1, <1>3 DEF Inv, EnterFollowsBody, n
    <3> QED BY <2>1, <3>1, <1>3
  <2>2. CASE k = n + 1
    <3>1. PICK j \in 1 .. n : written[j] = Whole(x.in)
      BY <2>2, <1>3, <1>4 DEF Unwritten, n
    <3> QED BY <2>2, <3>1, <1>3
  <2>3. k \in 1 .. n \/ k = n + 1
    BY <1>3
  <2> QED BY <2>1, <2>2, <2>3
<1>16. OnePlace' /\ HeldUnwritten'
  BY <1>9, <1>11, QueuesFactsPrimed DEF R
<1> QED BY <1>12, <1>14, <1>15, <1>16 DEF Places3

(* A new session holds nothing and has written nothing. *)
LEMMA InitInv == Init => Inv /\ NothingLost
<1> SUFFICES ASSUME Init PROVE Inv /\ NothingLost
  OBVIOUS
<1>1. TypeOK /\ BatchesOwned
  BY InitType
<1>2. \A p \in Places : Queue(p) = << >>
  BY DEF Init, Queue, Places
<1>3. Len(<< >>) = 0 /\ written = << >> /\ submitted = {}
  BY DEF Init
<1> QED BY <1>1, <1>2, <1>3
        DEF Inv, OnePlace, HeldUnwritten, WrittenSubmitted, AtMostOnce, EnterFollowsBody, NothingLost

(* Every step of every goroutine keeps the inductive invariant. *)
LEMMA InvStep ==
  ASSUME Inv, [Next]_vars
  PROVE  Inv'
<1>1. TypeOK /\ BatchesOwned
  BY DEF Inv
<1>2. TypeOK' /\ BatchesOwned'
  BY <1>1, TypeStep, BatchesStep
<1>3. ASSUME NEW t \in Threads, NEW i \in Inputs, NEW m, Capture(t, i, m)
      PROVE  Places3'
  BY <1>2, <1>3, CaptureStep
<1>4. ASSUME NEW t \in Threads, Step(t) PROVE Places3'
  <2>1. CASE SessionGone(t) \/ Defer(t) \/ TakePending(t) \/ GiveBack(t)
    BY <2>1, <1>2, MovedStep
  <2>2. CASE LookUp(t) \/ Admit(t) \/ NothingToFlush(t) \/ SendFails(t)
    BY <2>2, Unmoved DEF LookUp, Admit, NothingToFlush, SendFails, history
  <2>3. CASE SendOk(t)
    BY <2>3, <1>2, SendStep
  <2> QED BY <1>4, <2>1, <2>2, <2>3 DEF Step
<1>5. ASSUME EchoSeen \/ EchoMissing \/ ClearGate PROVE Places3'
  BY <1>5, Unmoved DEF EchoSeen, EchoMissing, ClearGate, history
<1>6. ASSUME GateExpires \/ PeerVanishes \/ Unregister \/ UNCHANGED vars PROVE Places3'
  BY <1>6, Unmoved DEF GateExpires, PeerVanishes, Unregister, thread, history, vars
<1>7. ASSUME NEW f \in Flushers, Reattach(f) PROVE Places3'
  BY <1>7, Unmoved DEF Reattach, history
<1>8. ASSUME Dismiss PROVE Places3'
  <2>1. pending' = << >> /\ UNCHANGED <<batch, submitted, written>>
    BY <1>8 DEF Dismiss, thread
  <2>2. \A p \in Places : Queues'[p] = Queues[p] \/ Queues'[p] = << >>
    BY <2>1 DEF Queues, Queue
  <2>3. Apart(Queues)
    BY QueuesFacts DEF Inv
  <2>4. Apart(Queues') /\ From(Queues', Queues)
    BY <2>2, <2>3, Shrink
  <2> QED BY <2>1, <2>4, Rearranged
<1>9. Places3'
  BY <1>3, <1>4, <1>5, <1>6, <1>7, <1>8, ThreadFacts
  DEF Next, InjectorStep, Environment, Rest, Submit, Inject, Inputs
<1> QED BY <1>2, <1>9 DEF Inv, Places3

(* The inductive invariant: every input is at one position of one queue.    *)
THEOREM InductiveInvariant == Spec => []Inv
BY InitInv, InvStep, PTL DEF Spec

(* No input line reaches the wrapper twice, whatever fails in between.      *)
THEOREM WrittenAtMostOnce == Spec => []AtMostOnce
<1>1. Inv => AtMostOnce
  BY DEF Inv
<1> QED BY <1>1, InductiveInvariant, PTL

(* A carriage return is written only after the paste that it confirms.      *)
THEOREM EnterAfterBody == Spec => []EnterFollowsBody
<1>1. Inv => EnterFollowsBody
  BY DEF Inv
<1> QED BY <1>1, InductiveInvariant, PTL

-----------------------------------------------------------------------------
(* The inputs of a queue are those of its entries.                          *)
LEMMA InputsOfMembers ==
  ASSUME NEW q, NEW i
  PROVE  i \in InputsOf(q) <=> \E k \in 1 .. Len(q) : q[k].in = i
BY DEF InputsOf

(* Nothing is lost when queues are joined and cut at the limit. *)
LEMMA InputsOfConcat ==
  ASSUME NEW x \in Seq(Items), NEW y \in Seq(Items), NEW i,
         i \in InputsOf(x) \/ i \in InputsOf(y)
  PROVE  i \in InputsOf(Newest(x \o y)) \/ i \in Evicted(x \o y)
<1>1. i \in InputsOf(x \o y)
  <2>1. CASE i \in InputsOf(x)
    <3>1. PICK k \in 1 .. Len(x) : x[k].in = i
      BY <2>1 DEF InputsOf
    <3>2. k \in 1 .. Len(x) + Len(y) /\ (x \o y)[k] = x[k]
      BY <3>1, ConcatShape
    <3> QED BY <3>1, <3>2, ConcatShape, InputsOfMembers
  <2>2. CASE i \in InputsOf(y)
    <3>1. PICK k \in 1 .. Len(y) : y[k].in = i
      BY <2>2 DEF InputsOf
    <3>2. k + Len(x) \in 1 .. Len(x) + Len(y) /\ (x \o y)[k + Len(x)] = y[k]
      BY <3>1, ConcatShape
    <3> QED BY <3>1, <3>2, ConcatShape, InputsOfMembers
  <2> QED BY <2>1, <2>2
<1> QED BY <1>1 DEF Evicted

(* An input leaves its batch only when its last piece is written. *)
LEMMA InputsOfAdvance ==
  ASSUME NEW q \in Seq(Items), q # << >>, NEW i \in InputsOf(q)
  PROVE  \/ i \in InputsOf(Advance(q))
         \/ /\ i = q[1].in /\ q[1] \in Items
            /\ ~(q[1].part = "whole" /\ q[1].in \notin Lines)
<1>1. PICK k \in 1 .. Len(q) : q[k].in = i
  BY DEF InputsOf
<1>2. Len(q) \in Nat /\ q[1] \in Items
  OBVIOUS
<1>3. CASE q[1].part = "whole" /\ q[1].in \notin Lines
  <2>1. Len(Advance(q)) = Len(q) /\ Advance(q)[1] = Enter(q[1].in)
          /\ \A j \in 2 .. Len(q) : Advance(q)[j] = q[j]
    BY <1>3, AdvanceShape
  <2>2. Advance(q)[k].in = i
    BY <1>1, <1>2, <2>1 DEF Enter
  <2> QED BY <1>1, <2>1, <2>2, InputsOfMembers
<1>4. CASE ~(q[1].part = "whole" /\ q[1].in \notin Lines)
  <2>1. Len(Advance(q)) = Len(q) - 1 /\ \A j \in 1 .. Len(q) - 1 : Advance(q)[j] = q[j + 1]
    BY <1>4, AdvanceShape
  <2>2. CASE k = 1
    BY <2>2, <1>1, <1>2, <1>4
  <2>3. CASE k # 1
    <3>1. k - 1 \in 1 .. Len(Advance(q)) /\ Advance(q)[k - 1] = q[k]
      BY <2>3, <1>1, <1>2, <2>1
    <3> QED BY <1>1, <3>1, InputsOfMembers
  <2> QED BY <2>2, <2>3
<1> QED BY <1>3, <1>4

(* Steps that neither write nor touch a queue. *)
LEMMA KeptAccount ==
  ASSUME UNCHANGED <<pending, batch, submitted, written, dropped, discarded>>, NothingLost
  PROVE  NothingLost'
BY DEF NothingLost, Held, Complete

(* Every step accounts for every submitted input (input_gate.go:115-118). *)
LEMMA AccountStep ==
  ASSUME Inv, NothingLost, [Next]_vars
  PROVE  NothingLost'
<1> USE ThreadFacts
<1>1. /\ pending \in Seq(Items) /\ batch \in [Threads -> Seq(Items)]
      /\ written \in Seq(Items) /\ BatchesOwned /\ HeldUnwritten
  BY DEF Inv, TypeOK
<1>2. ASSUME NEW t \in Threads, NEW i \in Inputs, NEW m, Capture(t, i, m)
      PROVE  NothingLost'
  <2>1. /\ batch[t] = << >> /\ batch' = [batch EXCEPT ![t] = <<Whole(i)>>]
        /\ submitted' = submitted \cup {i}
        /\ UNCHANGED <<pending, written, dropped, discarded>>
    BY <1>1, <1>2 DEF Capture, BatchesOwned
  <2>2. i \in InputsOf(batch'[t])
    <3>1. batch'[t] = <<Whole(i)>>
      BY <1>1, <2>1
    <3>2. Len(<<Whole(i)>>) = 1 /\ <<Whole(i)>>[1] = Whole(i) /\ Whole(i).in = i
      BY ItemFacts
    <3> QED BY <3>1, <3>2, InputsOfMembers
  <2>3. InputsOf(<< >>) = {}
    BY DEF InputsOf
  <2>4. \A j \in submitted : Held(j) => Held(j)'
    BY <1>1, <2>1, <2>3 DEF Held
  <2> QED BY <2>1, <2>2, <2>4 DEF NothingLost, Held, Complete
<1>3. ASSUME NEW t \in Threads, SessionGone(t) PROVE NothingLost'
  <2>1. /\ batch' = [batch EXCEPT ![t] = << >>]
        /\ discarded' = discarded \cup InputsOf(batch[t])
        /\ UNCHANGED <<pending, submitted, written, dropped>>
    BY <1>3 DEF SessionGone
  <2> QED BY <1>1, <2>1 DEF NothingLost, Held, Complete
<1>4. ASSUME NEW t \in Threads, Defer(t) \/ GiveBack(t) PROVE NothingLost'
  <2>1. /\ batch' = [batch EXCEPT ![t] = << >>]
        /\ UNCHANGED <<submitted, written, discarded>>
        /\ \/ /\ pending' = Newest(pending \o batch[t])
              /\ dropped' = dropped \cup Evicted(pending \o batch[t])
           \/ /\ pending' = Newest(batch[t] \o pending)
              /\ dropped' = dropped \cup Evicted(batch[t] \o pending)
    BY <1>4 DEF Defer, GiveBack, PutBack
  <2>2. \A i \in InputsOf(pending) \cup InputsOf(batch[t]) :
          i \in InputsOf(pending') \/ i \in dropped'
    BY <1>1, <2>1, InputsOfConcat
  <2>3. dropped \subseteq dropped'
    BY <2>1
  <2>4. \A i \in submitted : Held(i) => Held(i)' \/ i \in dropped'
    BY <1>1, <2>1, <2>2 DEF Held
  <2> QED BY <2>1, <2>3, <2>4 DEF NothingLost, Complete
<1>5. ASSUME NEW t \in Threads, TakePending(t) PROVE NothingLost'
  <2>1. /\ batch[t] = << >> /\ batch' = [batch EXCEPT ![t] = pending]
        /\ UNCHANGED <<submitted, written, dropped, discarded>>
    BY <1>1, <1>5 DEF TakePending, BatchesOwned, history
  <2>2. InputsOf(<< >>) = {}
    BY DEF InputsOf
  <2>3. \A i \in submitted : Held(i) => Held(i)'
    BY <1>1, <2>1, <2>2 DEF Held
  <2> QED BY <2>1, <2>3 DEF NothingLost, Complete
<1>6. ASSUME NEW t \in Threads, SendOk(t) PROVE NothingLost'
  <2> DEFINE q == batch[t]
  <2>1. /\ q \in Seq(Items) /\ q # << >> /\ Head(q) = q[1]
        /\ written' = Append(written, q[1])
        /\ batch' = [batch EXCEPT ![t] = Advance(q)]
        /\ UNCHANGED <<pending, submitted, dropped, discarded>>
    BY <1>1, <1>6 DEF SendOk, BatchesOwned
  <2>2. /\ Len(written') = Len(written) + 1 /\ written'[Len(written) + 1] = q[1]
        /\ \A k \in 1 .. Len(written) : written'[k] = written[k]
        /\ Len(written) \in Nat
    <3>1. q[1] \in Items
      BY <2>1
    <3> HIDE DEF q
    <3> QED BY <1>1, <2>1, <3>1
  <2>3. \A i : Complete(i) => Complete(i)'
    BY <2>2 DEF Complete
  <2>4. ASSUME NEW i \in InputsOf(q), i \notin InputsOf(Advance(q))
        PROVE  Complete(i)'
    <3>1. /\ i = q[1].in /\ q[1] \in Items /\ ~(q[1].part = "whole" /\ q[1].in \notin Lines)
      BY <2>1, <2>4, InputsOfAdvance
    <3>2. q[1].part = "cr" => q[1].in \notin Lines
      <4>1. t \in Places /\ Queue(t) = q /\ 1 \in 1 .. Len(q)
        BY <2>1 DEF Places, Queue
      <4> QED BY <1>1, <4>1 DEF HeldUnwritten
    <3>3. q[1] = IF i \in Lines THEN Whole(i) ELSE Enter(i)
      BY <3>1, <3>2 DEF Items, Whole, Enter
    <3>4. Len(written) + 1 \in 1 .. Len(written')
      BY <2>2
    <3> QED BY <2>2, <3>3, <3>4 DEF Complete, Whole, Enter
  <2> HIDE DEF q
  <2>5. \A i \in submitted : Held(i) => Held(i)' \/ Complete(i)'
    <3> SUFFICES ASSUME NEW i \in submitted, Held(i) PROVE Held(i)' \/ Complete(i)'
      OBVIOUS
    <3>1. CASE i \in InputsOf(pending) \/ \E s \in Threads \ {t} : i \in InputsOf(batch[s])
      BY <3>1, <1>1, <2>1 DEF Held
    <3>2. CASE i \in InputsOf(q)
      BY <3>2, <1>1, <2>1, <2>4 DEF Held
    <3> QED BY <3>1, <3>2 DEF Held, q
  <2> QED BY <2>1, <2>3, <2>5 DEF NothingLost
<1>7. ASSUME NEW t \in Threads, LookUp(t) \/ Admit(t) \/ NothingToFlush(t) \/ SendFails(t)
      PROVE  NothingLost'
  BY <1>7, KeptAccount DEF LookUp, Admit, NothingToFlush, SendFails, history
<1>8. ASSUME EchoSeen \/ EchoMissing \/ ClearGate PROVE NothingLost'
  BY <1>8, KeptAccount DEF EchoSeen, EchoMissing, ClearGate, history
<1>9. ASSUME GateExpires \/ PeerVanishes \/ Unregister \/ UNCHANGED vars PROVE NothingLost'
  BY <1>9, KeptAccount DEF GateExpires, PeerVanishes, Unregister, thread, history, vars
<1>10. ASSUME NEW f \in Flushers, Reattach(f) PROVE NothingLost'
  BY <1>10, KeptAccount DEF Reattach, history
<1>11. ASSUME Dismiss PROVE NothingLost'
  <2>1. /\ discarded' = discarded \cup InputsOf(pending)
        /\ UNCHANGED <<batch, submitted, written, dropped>>
    BY <1>11 DEF Dismiss, thread
  <2> QED BY <2>1 DEF NothingLost, Held, Complete
<1> QED
  BY <1>2, <1>3, <1>4, <1>5, <1>6, <1>7, <1>8, <1>9, <1>10, <1>11
  DEF Next, Step, InjectorStep, Environment, Rest, Submit, Inject, Inputs

(* An input given to the Hub is held, or completely written, or was evicted *)
(* at the limit or discarded with its session (input_gate.go:115-118).      *)
THEOREM NoInputLost == Spec => []NothingLost
<1>1. Init => Inv /\ NothingLost
  BY InitInv
<1>2. Inv /\ NothingLost /\ [Next]_vars => (Inv /\ NothingLost)'
  BY InvStep, AccountStep
<1> QED BY <1>1, <1>2, PTL DEF Spec

-----------------------------------------------------------------------------
(* While the initial prompt is injected.                                    *)
OnlyPrompts(q) == \A k \in 1 .. Len(q) : q[k].in \in Prompts

Busy(t) == pc[t] \in {"ready", "want", "send", "fail"}

(* The gate of the first session object is closed, and everybody but the    *)
(* injector stands before it or has not looked yet.                         *)
BehindGate ==
  /\ gate[1] = "closed" /\ ses \in {0, 1}
  /\ \A t \in Threads \ {Injector} :
       /\ mode[t] = "submit" /\ pc[t] \in {"idle", "ready", "want"}
       /\ pc[t] = "want" => obj[t] = 1
  /\ Busy(Injector) => mode[Injector] = "bypass"
  /\ OnlyPrompts(batch[Injector]) /\ OnlyPrompts(written)

(* The injector flushes once, at its end. *)
GateHolds ==
  /\ mode[Injector] = "flush" => pc[Injector] \notin {"idle", "echo", "clear"}
  /\ Injecting => BehindGate

(* A write appends one entry, the first of a batch. *)
LEMMA PromptWrites ==
  ASSUME NEW q \in Seq(Items), q # << >>, OnlyPrompts(q),
         NEW w \in Seq(Items), OnlyPrompts(w)
  PROVE  OnlyPrompts(Advance(q)) /\ OnlyPrompts(Append(w, Head(q)))
<1>1. Len(q) \in Nat /\ 1 \in 1 .. Len(q) /\ q[1].in \in Prompts /\ Head(q) = q[1]
  BY DEF OnlyPrompts
<1>2. OnlyPrompts(Append(w, Head(q)))
  BY <1>1 DEF OnlyPrompts
<1>3. OnlyPrompts(Advance(q))
  <2>1. CASE q[1].part = "whole" /\ q[1].in \notin Lines
    <3>1. Len(Advance(q)) = Len(q) /\ Advance(q)[1] = Enter(q[1].in)
            /\ \A k \in 2 .. Len(q) : Advance(q)[k] = q[k]
      BY <2>1, AdvanceShape
    <3>2. Enter(q[1].in).in = q[1].in
      BY DEF Enter
    <3>3. \A k \in 1 .. Len(q) : k = 1 \/ k \in 2 .. Len(q)
      BY <1>1
    <3>4. \A k \in 1 .. Len(q) : Advance(q)[k].in = q[k].in
      BY <3>1, <3>2, <3>3
    <3> QED BY <1>1, <3>1, <3>4 DEF OnlyPrompts
  <2>2. CASE ~(q[1].part = "whole" /\ q[1].in \notin Lines)
    <3>1. Len(Advance(q)) = Len(q) - 1 /\ \A k \in 1 .. Len(q) - 1 : Advance(q)[k] = q[k + 1]
      BY <2>2, AdvanceShape
    <3>2. \A k \in 1 .. Len(q) - 1 : q[k + 1].in \in Prompts
      BY <1>1 DEF OnlyPrompts
    <3> QED BY <3>1, <3>2 DEF OnlyPrompts
  <2> QED BY <2>1, <2>2
<1> QED BY <1>2, <1>3

(* The gate stays closed and holds everybody back as long as the injection  *)
(* lasts (wrapper_loop.go:175-177).                                         *)
LEMMA GateStep ==
  ASSUME TypeOK, BatchesOwned, GateHolds, [Next]_vars
  PROVE  GateHolds'
<1> USE ThreadFacts
<1>a. /\ pc \in [Threads -> {"idle", "ready", "want", "send", "fail", "echo", "clear", "done"}]
      /\ mode \in [Threads -> {"submit", "bypass", "flush"}]
      /\ obj \in [Threads -> 0 .. MaxEpoch] /\ batch \in [Threads -> Seq(Items)]
      /\ made \in Nat /\ written \in Seq(Items)
  BY DEF TypeOK, Epochs
<1>1. ASSUME NEW t \in Senders, NEW i \in UserInputs, Submit(t, i) PROVE GateHolds'
  <2>1. t \in Threads /\ t # Injector
    OBVIOUS
  <2>2. /\ pc' = [pc EXCEPT ![t] = "ready"] /\ mode' = [mode EXCEPT ![t] = "submit"]
        /\ batch' = [batch EXCEPT ![t] = <<Whole(i)>>]
        /\ UNCHANGED <<ses, made, gate, obj, written>>
    BY <1>1 DEF Submit, Capture, session
  <2> QED BY <1>a, <2>1, <2>2 DEF GateHolds, Injecting, BehindGate, Busy
<1>2. ASSUME NEW i \in Prompts, Inject(i) PROVE GateHolds'
  <2>1. /\ pc[Injector] = "idle"
        /\ pc' = [pc EXCEPT ![Injector] = "ready"] /\ mode' = [mode EXCEPT ![Injector] = "bypass"]
        /\ batch' = [batch EXCEPT ![Injector] = <<Whole(i)>>]
        /\ UNCHANGED <<ses, made, gate, obj, written>>
    BY <1>2 DEF Inject, Capture, session
  <2>2. OnlyPrompts(<<Whole(i)>>)
    BY DEF OnlyPrompts, Whole
  <2>3. Injecting' => Injecting
    BY <1>a, <2>1 DEF GateHolds, Injecting
  <2> QED BY <1>a, <2>1, <2>2, <2>3 DEF GateHolds, Injecting, BehindGate, Busy
<1>3. ASSUME NEW t \in Threads, LookUp(t) PROVE GateHolds'
  BY <1>3, <1>a DEF GateHolds, Injecting, BehindGate, Busy, LookUp, session, history
<1>4. ASSUME NEW t \in Threads, SessionGone(t) \/ Defer(t) \/ GiveBack(t) PROVE GateHolds'
  <2>1. /\ batch' = [batch EXCEPT ![t] = << >>] /\ pc' = [pc EXCEPT ![t] = Return(t)]
        /\ pc[t] \in {"ready", "want", "fail"}
        /\ UNCHANGED <<ses, made, gate, mode, obj, written>>
    BY <1>4 DEF SessionGone, Defer, GiveBack, PutBack, session
  <2>2. OnlyPrompts(<< >>)
    BY DEF OnlyPrompts
  <2> QED BY <1>a, <2>1, <2>2 DEF GateHolds, Injecting, BehindGate, Busy, Return
<1>5. ASSUME NEW t \in Threads, NothingToFlush(t) PROVE GateHolds'
  <2>1. /\ pc[t] = "want" /\ mode[t] = "flush" /\ pc' = [pc EXCEPT ![t] = Return(t)]
        /\ UNCHANGED <<ses, made, gate, mode, obj, batch, written>>
    BY <1>5 DEF NothingToFlush, session, history
  <2> QED BY <1>a, <2>1 DEF GateHolds, Injecting, BehindGate, Busy, Return
<1>6. ASSUME NEW t \in Threads, Admit(t) PROVE GateHolds'
  <2>1. /\ pc[t] = "want" /\ pc' = [pc EXCEPT ![t] = "send"]
        /\ ~ (mode[t] = "submit" /\ gate[obj[t]] = "closed")
        /\ UNCHANGED <<ses, made, gate, mode, obj, batch, written>>
    BY <1>6 DEF Admit, Deferred, Gated, session, history
  <2>2. CASE t = Injector
    BY <1>a, <2>1, <2>2 DEF GateHolds, Injecting, BehindGate, Busy
  <2>3. CASE t # Injector
    <3>1. ~ Injecting
      BY <2>1, <2>3 DEF GateHolds, BehindGate
    <3> QED BY <1>a, <2>1, <2>3, <3>1 DEF GateHolds, Injecting
  <2> QED BY <2>2, <2>3
<1>7. ASSUME NEW t \in Threads, TakePending(t) PROVE GateHolds'
  <2>1. /\ pc[t] = "want" /\ mode[t] = "flush" /\ pc' = [pc EXCEPT ![t] = "send"]
        /\ UNCHANGED <<ses, made, gate, mode, obj, written>>
    BY <1>7 DEF TakePending, session, history
  <2>2. ~ Injecting
    BY <2>1 DEF GateHolds, BehindGate, Injecting
  <2> QED BY <1>a, <2>1, <2>2 DEF GateHolds, Injecting
<1>8. ASSUME NEW t \in Threads, SendOk(t) PROVE GateHolds'
  <2>1. /\ pc[t] = "send" /\ pc' \in {pc, [pc EXCEPT ![t] = Return(t)]}
        /\ written' = Append(written, Head(batch[t]))
        /\ batch' = [batch EXCEPT ![t] = Advance(batch[t])]
        /\ UNCHANGED <<ses, made, gate, mode, obj>>
    BY <1>8 DEF SendOk, session
  <2>2. CASE t = Injector
    <3>1. batch[t] \in Seq(Items) /\ batch[t] # << >>
      BY <1>a, <2>1 DEF BatchesOwned
    <3>2. Injecting => OnlyPrompts(written') /\ OnlyPrompts(Advance(batch[t]))
      BY <1>a, <2>1, <2>2, <3>1, PromptWrites DEF GateHolds, BehindGate
    <3>3. Injecting' => Injecting
      BY <1>a, <2>1, <2>2 DEF Injecting
    <3> QED BY <1>a, <2>1, <2>2, <3>2, <3>3 DEF GateHolds, Injecting, BehindGate, Busy, Return
  <2>3. CASE t # Injector
    <3>1. ~ Injecting
      BY <2>1, <2>3 DEF GateHolds, BehindGate
    <3> QED BY <1>a, <2>1, <2>3, <3>1 DEF GateHolds, Injecting
  <2> QED BY <2>2, <2>3
<1>9. ASSUME NEW t \in Threads, SendFails(t) PROVE GateHolds'
  BY <1>9, <1>a DEF GateHolds, Injecting, BehindGate, Busy, SendFails, session, history
<1>10. ASSUME EchoSeen \/ EchoMissing PROVE GateHolds'
  <2>1. /\ pc[Injector] = "echo"
        /\ \E where \in {"clear", "idle"} : pc' = [pc EXCEPT ![Injector] = where]
        /\ UNCHANGED <<ses, made, gate, mode, obj, batch, written>>
    BY <1>10 DEF EchoSeen, EchoMissing, session, history
  <2> QED BY <1>a, <2>1 DEF GateHolds, Injecting, BehindGate, Busy
<1>11. ASSUME ClearGate PROVE GateHolds'
  <2>1. ~ Injecting'
    BY <1>11, <1>a DEF ClearGate, Injecting
  <2>2. mode'[Injector] = "flush" => pc'[Injector] \in {"ready", "done"}
    BY <1>11, <1>a DEF ClearGate
  <2> QED BY <2>1, <2>2 DEF GateHolds
<1>12. ASSUME GateExpires PROVE GateHolds'
  BY <1>12, <1>a DEF GateExpires, GateHolds, Injecting, thread
<1>13. ASSUME PeerVanishes \/ Unregister \/ UNCHANGED vars PROVE GateHolds'
  BY <1>13, <1>a
  DEF PeerVanishes, Unregister, GateHolds, Injecting, BehindGate, Busy, thread, history, vars
<1>14. ASSUME NEW f \in Flushers, Reattach(f) PROVE GateHolds'
  <2>1. made' # 1
    BY <1>14 DEF Reattach, TypeOK, Epochs
  <2>2. mode'[Injector] = mode[Injector] /\ pc'[Injector] = pc[Injector]
    BY <1>14, <1>a DEF Reattach
  <2> QED BY <2>1, <2>2 DEF GateHolds, Injecting
<1>15. ASSUME Dismiss PROVE GateHolds'
  BY <1>15, <1>a DEF Dismiss, GateHolds, Injecting, BehindGate, Busy, thread
<1> QED
  BY <1>1, <1>2, <1>3, <1>4, <1>5, <1>6, <1>7, <1>8, <1>9, <1>10, <1>11, <1>12, <1>13,
     <1>14, <1>15
  DEF Next, Step, InjectorStep, Environment, Rest

(* No user input reaches the CLI before the initial prompt was echoed or    *)
(* given up, as long as the session object with the gate is not replaced.   *)
THEOREM PromptFirst == Spec => []InjectionUndisturbed
<1>1. Init => TypeOK /\ BatchesOwned /\ GateHolds
  <2>1. Init => GateHolds
    BY ThreadFacts DEF Init, GateHolds, Injecting, BehindGate, Busy, OnlyPrompts, Epochs
  <2> QED BY <2>1, InitType
<1>2. TypeOK /\ BatchesOwned /\ GateHolds /\ [Next]_vars => (TypeOK /\ BatchesOwned /\ GateHolds)'
  BY TypeStep, BatchesStep, GateStep
<1>3. GateHolds => InjectionUndisturbed
  BY DEF GateHolds, BehindGate, OnlyPrompts, InjectionUndisturbed
<1> QED BY <1>1, <1>2, <1>3, PTL DEF Spec

-----------------------------------------------------------------------------
(* The order of the inputs: InputGate implements OrderedInput, except where  *)
(* a goroutine goes on with a session object that was replaced.  The lock   *)
(* of the present object keeps everybody else from the queue: while someone *)
(* sends under it and no stray interferes, nothing waits, and what fails    *)
(* fits into the queue again.                                               *)
OneLock ==
  /\ ses \in {0, made}
  /\ \A t \in Threads :
       /\ obj[t] <= made
       /\ t \in Holders => /\ inputMu[made] = t /\ Len(batch[t]) <= MaxPending
                           /\ ~strayed => pending = << >>
       /\ pc[t] \in {"ready", "want"} /\ mode[t] # "flush" =>
            \E i \in Inputs : batch[t] = <<Whole(i)>>

(* The backlog of OrderedInput when nobody has the lock, *)
LEMMA WaitingBacklog ==
  /\ Holders = {} => Backlog = pending
  /\ Holders' = {} => Backlog' = pending'
BY DEF Backlog

(* and when somebody does. *)
LEMMA HeldBacklog ==
  ASSUME NEW h \in Threads
  PROVE  /\ Holders = {h} /\ pending = << >> /\ batch[h] \in Seq(Items) => Backlog = batch[h]
         /\ Holders' = {h} /\ pending' = << >> /\ batch'[h] \in Seq(Items)
              => Backlog' = batch'[h]
<1>1. (CHOOSE t \in {h} : TRUE) = h
  OBVIOUS
<1>2. \A q \in Seq(Items) : q \o << >> = q
  OBVIOUS
<1>3. Holders = {h} /\ pending = << >> => Backlog = batch[h] \o << >>
  BY <1>1 DEF Backlog
<1>4. Holders' = {h} /\ pending' = << >> => Backlog' = batch'[h] \o << >>
  BY <1>1 DEF Backlog
<1> QED BY <1>2, <1>3, <1>4

(* There is at most one holder of the lock. *)
LEMMA OneHolder ==
  ASSUME OneLock, NEW t \in Threads
  PROVE  /\ t \in Holders => Holders = {t} /\ inputMu[made] = t
         /\ inputMu[made] = Nobody => Holders = {}
BY ThreadFacts DEF OneLock, Holders

(* The length of what is left of a batch. *)
LEMMA AdvanceLength ==
  ASSUME NEW q \in Seq(Items), q # << >>
  PROVE  Advance(q) \in Seq(Items) /\ Len(Advance(q)) <= Len(q)
<1>1. Len(q) \in Nat
  OBVIOUS
<1> QED BY <1>1, AdvanceShape

(* One lock is enough for those who hold the present session object: a      *)
(* reattachment makes a second one, and from then on who holds the first is *)
(* a stray (inputMu of the replaced object).                                *)
LEMMA LockStep ==
  ASSUME TypeOK, BatchesOwned, OneLock, [Next]_vars
  PROVE  OneLock'
<1> USE ThreadFacts DEF Holders, Stray
<1>a. /\ pc \in [Threads -> {"idle", "ready", "want", "send", "fail", "echo", "clear", "done"}]
      /\ mode \in [Threads -> {"submit", "bypass", "flush"}]
      /\ obj \in [Threads -> 0 .. MaxEpoch] /\ batch \in [Threads -> Seq(Items)]
      /\ inputMu \in [Epochs -> Threads \cup {Nobody}]
      /\ made \in Epochs /\ pending \in Seq(Items) /\ Len(pending) <= MaxPending
      /\ strayed \in BOOLEAN
  BY DEF TypeOK
<1>1. ASSUME NEW t \in Threads, NEW i \in Inputs, NEW m, Capture(t, i, m) PROVE OneLock'
  <2>1. /\ pc[t] = "idle" /\ pc' = [pc EXCEPT ![t] = "ready"] /\ mode' = [mode EXCEPT ![t] = m]
        /\ batch' = [batch EXCEPT ![t] = <<Whole(i)>>]
        /\ UNCHANGED <<ses, made, inputMu, pending, obj, strayed>>
    BY <1>1 DEF Capture, session, overlap
  <2> QED BY <1>a, <2>1 DEF OneLock
<1>2. ASSUME NEW t \in Threads, LookUp(t) PROVE OneLock'
  <2>1. /\ pc[t] = "ready" /\ pc' = [pc EXCEPT ![t] = "want"] /\ obj' = [obj EXCEPT ![t] = made]
        /\ UNCHANGED <<ses, made, inputMu, pending, mode, batch, strayed>>
    BY <1>2 DEF LookUp, session, OneLock, history, overlap
  <2>2. made <= made
    BY <1>a DEF Epochs
  <2> QED BY <1>a, <2>1, <2>2 DEF OneLock
<1>3. ASSUME NEW t \in Threads, SessionGone(t) PROVE OneLock'
  <2>1. /\ pc[t] = "ready" /\ pc' = [pc EXCEPT ![t] = Return(t)]
        /\ batch' = [batch EXCEPT ![t] = << >>]
        /\ UNCHANGED <<ses, made, inputMu, pending, mode, obj, strayed>>
    BY <1>3 DEF SessionGone, session, overlap
  <2> QED BY ZenonT(60), <1>a, <2>1, ReturnType DEF OneLock
<1>4. ASSUME NEW t \in Threads, Defer(t) PROVE OneLock'
  <2>1. /\ pc[t] = "want" /\ inputMu[obj[t]] = Nobody /\ pc' = [pc EXCEPT ![t] = Return(t)]
        /\ batch' = [batch EXCEPT ![t] = << >>]
        /\ strayed' = (strayed \/ Stray(t))
        /\ UNCHANGED <<ses, made, inputMu, mode, obj>>
    BY <1>4 DEF Defer, session, NoteLeft
  <2>2. ~strayed' => ~strayed /\ Holders = {}
    BY <2>1, OneHolder
  <2>3. \A r \in Threads : /\ r \in Holders' => r \in Holders /\ batch'[r] = batch[r]
                           /\ pc'[r] \in {"ready", "want"} => pc'[r] = pc[r] /\ batch'[r] = batch[r]
    BY <1>a, <2>1, ReturnType
  <2> QED BY <2>1, <2>2, <2>3 DEF OneLock
<1>5. ASSUME NEW t \in Threads, Admit(t) PROVE OneLock'
  <2>1. /\ pc[t] = "want" /\ mode[t] # "flush" /\ inputMu[obj[t]] = Nobody /\ pending = << >>
        /\ pc' = [pc EXCEPT ![t] = "send"] /\ inputMu' = [inputMu EXCEPT ![obj[t]] = t]
        /\ UNCHANGED <<ses, made, pending, mode, obj, batch>>
    BY <1>5 DEF Admit, Deferred, session
  <2>2. Len(batch[t]) <= MaxPending
    <3>1. PICK i \in Inputs : batch[t] = <<Whole(i)>>
      BY <2>1 DEF OneLock
    <3>2. Len(<<Whole(i)>>) = 1
      OBVIOUS
    <3> QED BY <3>1, <3>2
  <2>3. CASE Stray(t)
    <3>1. /\ inputMu'[made] = inputMu[made]
          /\ \A r \in Threads : r \in Holders' <=> r \in Holders
          /\ \A r \in Threads : pc'[r] \in {"ready", "want"} => pc'[r] = pc[r]
      BY <1>a, <2>1, <2>3
    <3> QED BY <2>1, <3>1 DEF OneLock
  <2>4. CASE ~Stray(t)
    <3>1. Holders = {}
      BY <2>1, <2>4, OneHolder
    <3>2. /\ inputMu'[made] = t
          /\ \A r \in Threads : r \in Holders' => r = t
          /\ \A r \in Threads : pc'[r] \in {"ready", "want"} => pc'[r] = pc[r]
      BY <1>a, <2>1, <2>4, <3>1
    <3> QED BY <2>1, <2>2, <3>2 DEF OneLock
  <2> QED BY <2>3, <2>4
<1>6. ASSUME NEW t \in Threads, TakePending(t) PROVE OneLock'
  <2>1. /\ pc[t] = "want" /\ mode[t] = "flush" /\ inputMu[obj[t]] = Nobody
        /\ pc' = [pc EXCEPT ![t] = "send"] /\ inputMu' = [inputMu EXCEPT ![obj[t]] = t]
        /\ batch' = [batch EXCEPT ![t] = pending] /\ pending' = << >>
        /\ UNCHANGED <<ses, made, mode, obj>>
    BY <1>6 DEF TakePending, session
  <2>2. CASE Stray(t)
    <3>1. /\ inputMu'[made] = inputMu[made]
          /\ \A r \in Threads : r \in Holders' => r \in Holders /\ batch'[r] = batch[r]
          /\ \A r \in Threads : pc'[r] \in {"ready", "want"} => pc'[r] = pc[r] /\ batch'[r] = batch[r]
      BY <1>a, <2>1, <2>2
    <3> QED BY <2>1, <3>1 DEF OneLock
  <2>3. CASE ~Stray(t)
    <3>1. Holders = {}
      BY <2>1, <2>3, OneHolder
    <3>2. /\ inputMu'[made] = t /\ batch'[t] = pending
          /\ \A r \in Threads : r \in Holders' => r = t
          /\ \A r \in Threads : pc'[r] \in {"ready", "want"} => pc'[r] = pc[r] /\ batch'[r] = batch[r]
      BY <1>a, <2>1, <2>3, <3>1
    <3>3. pending' = << >> /\ Len(pending) <= MaxPending /\ UNCHANGED <<ses, made, mode, obj>>
      BY <1>a, <2>1
    <3> HIDE DEF Holders, Stray
    <3> QED BY <3>2, <3>3 DEF OneLock
  <2> QED BY <2>2, <2>3
<1>7. ASSUME NEW t \in Threads, NothingToFlush(t) PROVE OneLock'
  <2>1. /\ pc[t] = "want" /\ pc' = [pc EXCEPT ![t] = Return(t)]
        /\ UNCHANGED <<ses, made, inputMu, pending, mode, obj, batch, strayed>>
    BY <1>7 DEF NothingToFlush, session, history, overlap
  <2>2. \A r \in Threads : /\ r \in Holders' => r \in Holders
                           /\ pc'[r] \in {"ready", "want"} => pc'[r] = pc[r]
    BY <1>a, <2>1, ReturnType
  <2> QED BY <2>1, <2>2 DEF OneLock
<1>8. ASSUME NEW t \in Threads, SendOk(t) PROVE OneLock'
  <2>1. /\ pc[t] = "send" /\ batch[t] # << >> /\ batch[t] \in Seq(Items)
        /\ batch' = [batch EXCEPT ![t] = Advance(batch[t])]
        /\ \/ /\ pc' = [pc EXCEPT ![t] = Return(t)]
              /\ inputMu' = [inputMu EXCEPT ![obj[t]] = Nobody]
           \/ pc' = pc /\ inputMu' = inputMu
        /\ strayed' = (strayed \/ Stray(t))
        /\ UNCHANGED <<ses, made, pending, mode, obj>>
    BY <1>8, <1>a DEF SendOk, session, BatchesOwned, NoteSent
  <2>2. t \in Holders => Len(Advance(batch[t])) <= MaxPending
    <3>1. Len(Advance(batch[t])) <= Len(batch[t]) /\ Advance(batch[t]) \in Seq(Items)
      BY <2>1, AdvanceLength
    <3>2. t \in Holders => Len(batch[t]) <= MaxPending
      BY DEF OneLock
    <3> QED BY <2>1, <3>1, <3>2
  <2>3. t \in Holders => \A r \in Threads : r \in Holders => r = t
    BY OneHolder
  <2>4. CASE pc' = pc /\ inputMu' = inputMu
    <3>1. Holders' = Holders
      BY <2>1, <2>4
    <3>2. \A r \in Threads : pc[r] \in {"ready", "want"} => batch'[r] = batch[r]
      BY <1>a, <2>1
    <3>3. \A r \in Threads : r \in Holders => Len(batch'[r]) <= MaxPending
      BY <1>a, <2>1, <2>2 DEF OneLock
    <3>4. UNCHANGED <<ses, made, inputMu, pc, pending, mode, obj>> /\ (~strayed' => ~strayed)
      BY <2>1, <2>4
    <3> HIDE DEF Holders, Stray
    <3> QED BY <3>1, <3>2, <3>3, <3>4 DEF OneLock
  <2>5. CASE /\ pc' = [pc EXCEPT ![t] = Return(t)]
             /\ inputMu' = [inputMu EXCEPT ![obj[t]] = Nobody]
    <3>1. \A r \in Threads : r \in Holders' =>
            r \in Holders /\ r # t /\ batch'[r] = batch[r] /\ inputMu'[made] = inputMu[made]
      BY <1>a, <2>1, <2>3, <2>5, ReturnType
    <3>2. \A r \in Threads : pc'[r] \in {"ready", "want"} =>
            pc'[r] = pc[r] /\ batch'[r] = batch[r]
      BY <1>a, <2>1, <2>5, ReturnType
    <3>3. UNCHANGED <<ses, made, pending, mode, obj>> /\ (~strayed' => ~strayed)
      BY <2>1
    <3> HIDE DEF Holders, Stray
    <3> QED BY <3>1, <3>2, <3>3 DEF OneLock
  <2> QED BY <2>1, <2>4, <2>5
<1>9. ASSUME NEW t \in Threads, SendFails(t) PROVE OneLock'
  <2>1. /\ pc[t] = "send" /\ pc' = [pc EXCEPT ![t] = "fail"]
        /\ UNCHANGED <<ses, made, inputMu, pending, mode, obj, batch, strayed>>
    BY <1>9 DEF SendFails, session, history, overlap
  <2>2. /\ Holders' = Holders
        /\ \A r \in Threads : pc'[r] \in {"ready", "want"} => pc'[r] = pc[r]
    BY <1>a, <2>1
  <2> QED BY <2>1, <2>2 DEF OneLock
<1>10. ASSUME NEW t \in Threads, GiveBack(t) PROVE OneLock'
  <2>1. /\ pc[t] = "fail" /\ pc' = [pc EXCEPT ![t] = Return(t)]
        /\ batch' = [batch EXCEPT ![t] = << >>]
        /\ strayed' = (strayed \/ Stray(t))
        /\ UNCHANGED <<ses, made, mode, obj>> /\ inputMu' = [inputMu EXCEPT ![obj[t]] = Nobody]
    BY <1>10 DEF GiveBack, PutBack, session, NoteLeft
  <2>2. ~Stray(t) => Holders' = {}
    <3>1. ~Stray(t) => Holders = {t}
      BY <2>1, OneHolder
    <3> QED BY <1>a, <2>1, <3>1, ReturnType
  <2>3. Stray(t) => inputMu'[made] = inputMu[made]
    BY <1>a, <2>1
  <2>4. \A r \in Threads : /\ r \in Holders' => r \in Holders /\ batch'[r] = batch[r]
                           /\ pc'[r] \in {"ready", "want"} => pc'[r] = pc[r] /\ batch'[r] = batch[r]
    BY <1>a, <2>1, ReturnType
  <2>5. UNCHANGED <<ses, made, mode, obj>> /\ (~strayed' => ~strayed)
    BY <2>1
  <2>6. \A r \in Threads : ~(r \in Holders' /\ strayed' = FALSE)
    BY <2>1, <2>2
  <2>7. \A r \in Threads : r \in Holders' => inputMu'[made] = inputMu[made]
    BY <2>2, <2>3
  <2>8. strayed' \in BOOLEAN
    BY FlagsStep
  <2> HIDE DEF Holders, Stray
  <2> QED BY <2>4, <2>5, <2>6, <2>7, <2>8 DEF OneLock
<1>11. ASSUME EchoSeen \/ EchoMissing PROVE OneLock'
  <2>1. /\ pc[Injector] = "echo" /\ \E where \in {"clear", "idle"} : pc' = [pc EXCEPT ![Injector] = where]
        /\ UNCHANGED <<ses, made, inputMu, pending, mode, obj, batch, strayed>>
    BY <1>11 DEF EchoSeen, EchoMissing, session, history, overlap
  <2> QED BY <1>a, <2>1 DEF OneLock
<1>12. ASSUME ClearGate PROVE OneLock'
  <2>1. CASE ses = 0
    BY <1>12, <1>a, <2>1 DEF ClearGate, OneLock, history, overlap
  <2>2. CASE ses # 0
    <3>1. /\ pc[Injector] = "clear" /\ pc' = [pc EXCEPT ![Injector] = "ready"]
          /\ mode' = [mode EXCEPT ![Injector] = "flush"]
          /\ UNCHANGED <<ses, made, inputMu, pending, obj, batch, strayed>>
      BY <1>12, <2>2 DEF ClearGate, history, overlap
    <3> QED BY <1>a, <3>1 DEF OneLock
  <2> QED BY <2>1, <2>2
<1>13. ASSUME GateExpires \/ PeerVanishes \/ Unregister \/ UNCHANGED vars PROVE OneLock'
  BY <1>13 DEF GateExpires, PeerVanishes, Unregister, OneLock, thread, history, overlap, vars
<1>14. ASSUME NEW f \in Flushers, Reattach(f) PROVE OneLock'
  <2>1. /\ pc[f] = "idle" /\ pc' = [pc EXCEPT ![f] = "ready"] /\ mode' = [mode EXCEPT ![f] = "flush"]
        /\ ses' = made' /\ made' = made + 1
        /\ UNCHANGED <<inputMu, pending, obj, batch, strayed>>
    BY <1>14 DEF Reattach, history, overlap
  <2>2. \A t \in Threads : obj[t] <= made' /\ obj[t] # made'
    BY <1>a, <2>1 DEF OneLock, Epochs
  <2>3. Holders' = {}
    BY <2>1, <2>2
  <2> QED BY <1>a, <2>1, <2>2, <2>3 DEF OneLock
<1>15. ASSUME Dismiss PROVE OneLock'
  BY <1>15, <1>a DEF Dismiss, OneLock, thread
<1> QED
  BY <1>1, <1>2, <1>3, <1>4, <1>5, <1>6, <1>7, <1>8, <1>9, <1>10, <1>11, <1>12, <1>13,
     <1>14, <1>15
  DEF Next, Step, InjectorStep, Environment, Rest, Submit, Inject, Inputs

(* Every step is one of the queue's, or changes neither the queue nor what  *)
(* was written, or a stray has taken part: the backlog grows only by an     *)
(* input that is accepted, moves between the queue and the batch of the one *)
(* who holds the lock, and is written from its head (input_gate.go:115-123).*)
LEMMA OrderStep ==
  ASSUME TypeOK, BatchesOwned, OneLock, TypeOK', OneLock', [Next]_vars
  PROVE  [~strayed' => Ordered!Next]_<<Backlog, written>>
<1> USE ThreadFacts
<1> DEFINE Alike == UNCHANGED <<Backlog, written>>
<1>a. /\ pc \in [Threads -> {"idle", "ready", "want", "send", "fail", "echo", "clear", "done"}]
      /\ batch \in [Threads -> Seq(Items)] /\ pending \in Seq(Items) /\ Len(pending) <= MaxPending
      /\ made \in Epochs /\ strayed \in BOOLEAN
  BY DEF TypeOK
(* What a step leaves alone if nobody takes or gives up the lock. *)
<1>b. ASSUME Holders' = Holders, \A t \in Holders : batch'[t] = batch[t],
             UNCHANGED <<pending, written>>
      PROVE  Alike
  <2>1. Holders # {} => (CHOOSE t \in Holders : TRUE) \in Holders
    OBVIOUS
  <2> QED BY <1>b, <2>1 DEF Backlog
<1>1. ASSUME NEW t \in Threads, NEW i \in Inputs, NEW m, Capture(t, i, m) PROVE Alike
  <2>1. /\ pc[t] = "idle" /\ pc' = [pc EXCEPT ![t] = "ready"]
        /\ batch' = [batch EXCEPT ![t] = <<Whole(i)>>] /\ UNCHANGED <<pending, written, obj, made>>
    BY <1>1 DEF Capture, session
  <2> QED BY <1>a, <1>b, <2>1 DEF Holders, Stray
<1>2. ASSUME NEW t \in Threads, LookUp(t) \/ SessionGone(t) \/ NothingToFlush(t) \/ SendFails(t)
      PROVE  Alike
  <2>1. CASE LookUp(t)
    <3>1. /\ pc[t] = "ready" /\ pc' = [pc EXCEPT ![t] = "want"] /\ obj' = [obj EXCEPT ![t] = ses]
          /\ UNCHANGED <<pending, written, batch, made>>
      BY <2>1 DEF LookUp, session, history
    <3>2. Holders' = Holders
      BY <1>a, <3>1 DEF Holders, Stray, TypeOK
    <3> QED BY <1>b, <3>1, <3>2
  <2>2. CASE SessionGone(t)
    <3>1. /\ pc[t] = "ready" /\ pc' = [pc EXCEPT ![t] = Return(t)] /\ batch' = [batch EXCEPT ![t] = << >>]
          /\ UNCHANGED <<pending, written, obj, made>>
      BY <2>2 DEF SessionGone, session
    <3>2. Holders' = Holders /\ t \notin Holders
      BY <1>a, <3>1, ReturnType DEF Holders, Stray
    <3> QED BY <1>a, <1>b, <3>1, <3>2
  <2>3. CASE NothingToFlush(t)
    <3>1. /\ pc[t] = "want" /\ pc' = [pc EXCEPT ![t] = Return(t)]
          /\ UNCHANGED <<pending, written, batch, obj, made>>
      BY <2>3 DEF NothingToFlush, session, history
    <3>2. Holders' = Holders
      BY <1>a, <3>1, ReturnType DEF Holders, Stray
    <3> QED BY <1>b, <3>1, <3>2
  <2>4. CASE SendFails(t)
    BY <1>a, <1>b, <2>4 DEF SendFails, Holders, Stray, session, history
  <2> QED BY <1>2, <2>1, <2>2, <2>3, <2>4
<1>3. ASSUME NEW t \in Threads, Defer(t), ~strayed' PROVE \E i \in Inputs : Ordered!Accept(i)
  <2>1. /\ pc[t] = "want" /\ mode[t] # "flush" /\ inputMu[made] = Nobody
        /\ pc' = [pc EXCEPT ![t] = Return(t)] /\ pending' = Newest(pending \o batch[t])
        /\ UNCHANGED <<written, obj, made>>
    BY <1>3 DEF Defer, NoteLeft, Stray, session
  <2>2. Holders = {} /\ Holders' = {}
    BY <1>a, <2>1, OneHolder, ReturnType DEF Holders, Stray
  <2>3. PICK i \in Inputs : batch[t] = <<Whole(i)>>
    BY <2>1 DEF OneLock
  <2>4. pending \o <<Whole(i)>> = Append(pending, Whole(i))
    BY <1>a
  <2>5. Backlog = pending /\ Backlog' = Newest(Append(pending, Whole(i)))
    BY <2>1, <2>2, <2>3, <2>4, WaitingBacklog
  <2> QED BY <2>1, <2>5 DEF Ordered!Accept, Ordered!Newest, Ordered!Whole, Newest, Whole
<1>4. ASSUME NEW t \in Threads, Admit(t) PROVE Alike \/ \E i \in Inputs : Ordered!Accept(i)
  <2>1. /\ pc[t] = "want" /\ mode[t] # "flush" /\ inputMu[obj[t]] = Nobody /\ pending = << >>
        /\ pc' = [pc EXCEPT ![t] = "send"] /\ UNCHANGED <<pending, batch, written, obj, made>>
    BY <1>4 DEF Admit, Deferred, session
  <2>a. CASE Stray(t)
    <3>1. Holders' = Holders
      BY <1>a, <2>1, <2>a DEF Holders, Stray
    <3> QED BY <1>b, <2>1, <3>1
  <2>b. CASE ~Stray(t)
    <3>2. Holders = {} /\ Holders' = {t}
      BY <1>a, <2>1, <2>b, OneHolder DEF Holders, Stray
    <3>3. PICK i \in Inputs : batch[t] = <<Whole(i)>>
      BY <2>1 DEF OneLock
    <3>4. Append(<< >>, Whole(i)) = <<Whole(i)>> /\ Len(<<Whole(i)>>) = 1
      OBVIOUS
    <3>5. Newest(Append(<< >>, Whole(i))) = <<Whole(i)>>
      BY <3>4 DEF Newest
    <3>6. Backlog = << >> /\ Backlog' = <<Whole(i)>>
      BY <1>a, <2>1, <3>2, <3>3, WaitingBacklog, HeldBacklog
    <3> QED BY <2>1, <3>5, <3>6 DEF Ordered!Accept, Ordered!Newest, Ordered!Whole, Newest, Whole
  <2> QED BY <2>a, <2>b
<1>5. ASSUME NEW t \in Threads, TakePending(t), ~strayed' PROVE Alike
  <2>1. /\ pc[t] = "want" /\ inputMu[made] = Nobody /\ pc' = [pc EXCEPT ![t] = "send"]
        /\ obj[t] = made /\ batch'[t] = pending /\ pending' = << >>
        /\ UNCHANGED <<written, obj, made>>
    BY <1>5, <1>a DEF TakePending, NoteTaken, Stray, session
  <2>2. Holders = {} /\ Holders' = {t}
    BY <1>a, <2>1, OneHolder DEF Holders, Stray
  <2> QED BY <1>a, <2>1, <2>2, WaitingBacklog, HeldBacklog
<1>6. ASSUME NEW t \in Threads, SendOk(t), ~strayed' PROVE Ordered!Emit
  <2>0. t \in Holders /\ pending = << >>
    BY <1>6 DEF SendOk, NoteSent, Holders, Stray, OneLock
  <2>1. /\ pc[t] = "send" /\ batch[t] # << >> /\ pending' = pending
        /\ batch'[t] = Advance(batch[t]) /\ written' = Append(written, Head(batch[t]))
        /\ \/ Advance(batch[t]) = << >> /\ pc' = [pc EXCEPT ![t] = Return(t)]
           \/ pc' = pc
        /\ UNCHANGED <<obj, made>>
    BY <1>6, <1>a DEF SendOk, BatchesOwned, session
  <2>2. Holders = {t} /\ Backlog = batch[t]
    BY <1>a, <2>0, OneHolder, HeldBacklog
  <2>3. Backlog' = Advance(batch[t])
    <3>1. CASE pc' = pc
      <4>1. Holders' = {t} /\ batch'[t] \in Seq(Items)
        BY <2>1, <2>2, <3>1, AdvanceLength, <1>a DEF Holders, Stray
      <4> QED BY <2>0, <2>1, <4>1, HeldBacklog
    <3>2. CASE Advance(batch[t]) = << >> /\ pc' = [pc EXCEPT ![t] = Return(t)]
      <4>1. Holders' = {}
        BY <1>a, <2>1, <2>2, <3>2, ReturnType DEF Holders, Stray
      <4> QED BY <2>0, <2>1, <3>2, <4>1, WaitingBacklog
    <3> QED BY <2>1, <3>1, <3>2
  <2> QED BY <2>1, <2>2, <2>3 DEF Ordered!Emit, Ordered!Advance, Ordered!Enter, Advance, Enter
<1>7. ASSUME NEW t \in Threads, GiveBack(t), ~strayed' PROVE Alike
  <2>0. t \in Holders /\ pending = << >> /\ Len(batch[t]) <= MaxPending
    BY <1>7 DEF GiveBack, PutBack, NoteLeft, Holders, Stray, OneLock
  <2>1. /\ pc[t] = "fail" /\ pc' = [pc EXCEPT ![t] = Return(t)]
        /\ \/ pending' = Newest(batch[t] \o pending)
           \/ pending' = Newest(pending \o batch[t])
        /\ UNCHANGED <<written, obj, made>>
    BY <1>7 DEF GiveBack, PutBack, session
  <2>2. batch[t] \o << >> = batch[t] /\ << >> \o batch[t] = batch[t]
    BY <1>a
  <2>3. pending' = batch[t]
    <3>1. Newest(batch[t]) = batch[t]
      <4>1. batch[t] \in Seq(Items) /\ Len(batch[t]) \in Nat
        BY <1>a
      <4> QED BY <2>0, <4>1 DEF Newest
    <3>2. pending' = Newest(batch[t])
      BY <2>0, <2>1, <2>2
    <3> QED BY <3>1, <3>2
  <2>4. Holders = {t} /\ Holders' = {}
    BY <1>a, <2>0, <2>1, OneHolder, ReturnType DEF Holders, Stray
  <2> QED BY <1>a, <2>0, <2>1, <2>3, <2>4, WaitingBacklog, HeldBacklog
<1>8. ASSUME EchoSeen \/ EchoMissing \/ ClearGate PROVE Alike
  <2>1. /\ pc[Injector] \in {"echo", "clear"}
        /\ \E where \in {"clear", "idle", "done", "ready"} : pc' = [pc EXCEPT ![Injector] = where]
        /\ UNCHANGED <<pending, batch, written, obj, made>>
    BY <1>8 DEF EchoSeen, EchoMissing, ClearGate, session, history
  <2> QED BY <1>a, <1>b, <2>1 DEF Holders, Stray
<1>9. ASSUME GateExpires \/ PeerVanishes \/ Unregister \/ UNCHANGED vars PROVE Alike
  BY <1>9, <1>b DEF GateExpires, PeerVanishes, Unregister, Holders, Stray, thread, history, vars
(* A reattachment gives up what a goroutine is about to write. *)
<1>10. ASSUME NEW f \in Flushers, Reattach(f), ~strayed' PROVE Alike \/ Ordered!Discard
  <2>1. /\ made' = made + 1 /\ UNCHANGED <<pending, batch, written, obj>> /\ ~strayed
    BY <1>10 DEF Reattach, history, overlap
  <2>2. Holders' = {}
    <3>1. \A t \in Threads : obj[t] \in 0 .. MaxEpoch /\ obj[t] <= made
      BY DEF OneLock, TypeOK
    <3> QED BY <1>a, <2>1, <3>1 DEF Holders, Stray, Epochs
  <2>3. CASE Holders = {}
    BY <2>1, <2>2, <2>3, WaitingBacklog
  <2>4. CASE Holders # {}
    <3>1. PICK h \in Threads : h \in Holders
      BY <2>4 DEF Holders
    <3>2. pending = << >> /\ Holders = {h}
      BY <2>1, <3>1, OneHolder DEF OneLock
    <3>3. Backlog = batch[h] /\ Backlog' = << >> /\ batch[h] \in Seq(Items)
      BY <1>a, <2>1, <2>2, <3>2, WaitingBacklog, HeldBacklog
    <3>4. SubSeq(batch[h], 1, 0) = << >> /\ 0 \in 0 .. Len(batch[h])
      BY <3>3
    <3> QED BY <2>1, <3>3, <3>4 DEF Ordered!Discard
  <2> QED BY <2>3, <2>4
<1>11. ASSUME Dismiss, ~strayed' PROVE Alike \/ Ordered!Discard
  <2>1. pending' = << >> /\ UNCHANGED <<pc, batch, written, obj, made>> /\ Holders' = Holders /\ ~strayed
    BY <1>11 DEF Dismiss, Holders, Stray, thread
  <2>2. CASE Holders = {}
    <3>1. Backlog = pending /\ Backlog' = << >>
      BY <2>1, <2>2, WaitingBacklog
    <3>2. SubSeq(pending, 1, 0) = << >> /\ 0 \in 0 .. Len(pending)
      BY <1>a
    <3> QED BY <2>1, <3>1, <3>2 DEF Ordered!Discard
  <2>3. CASE Holders # {}
    <3>1. pending' = pending
      BY <2>1, <2>3 DEF Holders, OneLock
    <3> QED BY <1>b, <2>1, <3>1
  <2> QED BY <2>2, <2>3
<1> QED
  BY <1>1, <1>2, <1>3, <1>4, <1>5, <1>6, <1>7, <1>8, <1>9, <1>10, <1>11
  DEF Next, Step, InjectorStep, Environment, Rest, Submit, Inject, Inputs, Ordered!Next

(* The input path implements one ordered queue, for any number of senders,  *)
(* retries, flushes and reattachments: nothing overtakes, and no write      *)
(* comes between the body of a paste and its carriage return, unless a      *)
(* goroutine that holds a replaced session object takes part.               *)
THEOREM KeptInOrder == Spec => InOrder
<1>1. Init => TypeOK /\ BatchesOwned /\ OneLock /\ Ordered!Init
  <2> SUFFICES ASSUME Init PROVE OneLock /\ Ordered!Init
    BY InitType
  <2>1. OneLock
    <3>1. /\ ses = made /\ made = 1
          /\ \A t \in Threads : pc[t] \in {"idle", "done"} /\ obj[t] = 0
      BY DEF Init
    <3> QED BY <3>1 DEF OneLock, Holders
  <2>2. Holders = {}
    BY DEF Init, Holders
  <2>3. Backlog = << >> /\ written = << >>
    <3>1. pending = << >> /\ written = << >>
      BY DEF Init
    <3> QED BY <2>2, <3>1, WaitingBacklog
  <2> QED BY <2>1, <2>3 DEF Ordered!Init
<1>2. TypeOK /\ BatchesOwned /\ OneLock /\ [Next]_vars
        => /\ (TypeOK /\ BatchesOwned /\ OneLock)'
           /\ [~strayed' => Ordered!Next]_<<Backlog, written>>
  BY TypeStep, BatchesStep, LockStep, OrderStep
<1> QED BY <1>1, <1>2, PTL DEF Spec, InOrder

=============================================================================

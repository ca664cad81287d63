---------------------------- MODULE GitPaneProofs ----------------------------
(***************************************************************************)
(* Proofs about GitPane, for any repository, sessions and bounds: a draft  *)
(* in the commit form was asked for in that form, and what is committed is *)
(* the message that was reviewed.                                          *)
(*                                                                         *)
(* Of a step two things matter: what it does to the form, and which        *)
(* requests it sends.  Most steps leave the message alone (Mild) and send  *)
(* neither a generate nor a commit (Others).                               *)
(***************************************************************************)
EXTENDS GitPane, TLAPS

FormFields == {"no", "open", "reviewed", "busy", "generating", "ai", "msg", "asked", "seen"}
Fields == {"id", "op", "ref", "skip", "append", "wait", "session", "c", "f", "msg", "st",
           "page", "more", "wt"}

(* A generated draft on its way belongs to a form that asked for one, and   *)
(* never to a form that is opened later.                                    *)
Drafts(R, fm) ==
  \A r \in R :
    /\ DOMAIN r = Fields
    /\ r.op = "generate" => /\ r.f \in Nat /\ r.f <= fm.no
                            /\ r.f = fm.no => "draft" \in fm.asked
                            /\ r.st = "ok" => r.msg = "draft"

(* The message of a form: it was asked for, or the agent is still to send   *)
(* one that was; and what counts as reviewed is what was read.              *)
Form(fm) ==
  /\ DOMAIN fm = FormFields /\ fm.no \in Nat
  /\ fm.ai = TRUE => "ai" \in fm.asked
  /\ fm.msg \in {"draft", "ai"} => fm.msg \in fm.asked
  /\ fm.reviewed = TRUE => fm.seen = fm.msg

Inv == Form(form) /\ Drafts(req, form)

Reviewed ==
  \A r \in req' : r.op = "commit" /\ r \notin req /\ r.st = "sent" => r.msg = form.seen /\ r.msg # ""

(* Requests that are neither drafts nor commits. *)
Others(R) ==
  \A r \in R : r \in req \/ (DOMAIN r = Fields /\ r.op \notin {"generate", "commit"})

(* The message, its review and its number stay; a wait may end. *)
Mild(fm) ==
  /\ DOMAIN fm = FormFields /\ fm.no = form.no /\ fm.asked = form.asked
  /\ fm.msg = form.msg /\ fm.seen = form.seen
  /\ fm.ai = TRUE => form.ai = TRUE
  /\ fm.reviewed = TRUE => form.reviewed = TRUE

-----------------------------------------------------------------------------
(* The requests.                                                            *)

(* Sending gives a request its number and nothing else. *)
LEMMA SendOthers ==
  ASSUME NEW R, NEW b, Others(R), DOMAIN b = Fields, b.op \notin {"generate", "commit"}
  PROVE  Others(Send(R, b))
BY DEF Others, Send, Fields

(* refresh and load ask for the log and the status. *)
LEMMA ReloadOthers ==
  ASSUME NEW p, NEW R, NEW W, NEW kind, NEW then, NEW f, Others(R)
  PROVE  Others(Reload(p, R, W, kind, then, f).R)
<1> DEFINE w == FreshId(W)
           b == [Blank EXCEPT !.ref = p.ref, !.session = p.session, !.wait = w]
           c == [Blank EXCEPT !.op = "status", !.session = p.session, !.wait = w]
<1>1. DOMAIN b = Fields /\ b.op = "log"  BY DEF Blank, Fields
<1>2. DOMAIN c = Fields /\ c.op = "status"  BY DEF Blank, Fields
<1>3. Reload(p, R, W, kind, then, f).R = Send(Send(R, b), c)  BY DEF Reload
<1> HIDE DEF b, c
<1>4. Others(Send(R, b))  BY <1>1, SendOthers
<1>5. Others(Send(Send(R, b), c))  BY <1>2, <1>4, SendOthers
<1>6. QED  BY <1>3, <1>5

(* Selecting a commit asks for its detail. *)
LEMMA SelectOthers ==
  ASSUME NEW p, NEW R, NEW W, NEW c, Others(R)
  PROVE  /\ DOMAIN SelectCommit([p |-> p, R |-> R, W |-> W], c) = {"p", "R", "W"}
         /\ Others(SelectCommit([p |-> p, R |-> R, W |-> W], c).R)
<1> DEFINE b == [Blank EXCEPT !.op = "show", !.session = p.session, !.c = c]
<1>1. DOMAIN b = Fields /\ b.op = "show"  BY DEF Blank, Fields
<1>2. SelectCommit([p |-> p, R |-> R, W |-> W], c).R = Send(R, b)  BY DEF SelectCommit
<1>3. DOMAIN SelectCommit([p |-> p, R |-> R, W |-> W], c) = {"p", "R", "W"}  BY DEF SelectCommit
<1> HIDE DEF b
<1>4. QED  BY <1>1, <1>2, <1>3, SendOthers

(* A handler that goes on after its reload may ask for a detail. *)
LEMMA AwaitedOthers ==
  ASSUME NEW p, NEW R, NEW W, NEW w, Others(R)
  PROVE  Others(Awaited(w, [p |-> p, R |-> R, W |-> W]).R)
<1> DEFINE x == [p |-> p, R |-> R, W |-> W]
           p1 == RenderLog(p)
           top == <<p.ref, repo.base + repo.ours>>
           head == IF top \in InSeq(p.commits) THEN top ELSE p.commits[1]
           y == [p |-> p1, R |-> R, W |-> W]
<1>1. [x EXCEPT !.p = p1] = y /\ [x EXCEPT !.p = [p1 EXCEPT !.detail = "empty"]].R = R
  OBVIOUS
<1>2. Awaited(w, x).R \in {R, SelectCommit(y, head).R}
  BY <1>1 DEF Awaited
<1>3. Others(SelectCommit(y, head).R)  BY SelectOthers
<1>4. QED  BY <1>2, <1>3

-----------------------------------------------------------------------------
(* The steps.                                                               *)

(* What most steps do keeps the invariant and commits nothing. *)
LEMMA KeepInv ==
  ASSUME Inv, Mild(form'), Others(req')
  PROVE  Inv' /\ Reviewed
<1>1. Form(form)'  BY DEF Inv, Form, Mild
<1>2. Drafts(req, form)'  BY DEF Inv, Form, Mild, Drafts, Others
<1>3. Reviewed  BY DEF Reviewed, Others
<1>4. QED  BY <1>1, <1>2, <1>3 DEF Inv

(* A step that leaves the form alone is mild. *)
LEMMA SameMild ==
  ASSUME Inv, UNCHANGED form
  PROVE  Mild(form')
BY DEF Inv, Form, Mild

(* The requests that stay are no new ones. *)
LEMMA LessOthers ==
  ASSUME NEW R, R \subseteq req
  PROVE  Others(R)
BY DEF Others

(* After its reload a handler sets its form free and may ask for a detail. *)
LEMMA ReturnedKeeps ==
  ASSUME Inv, NEW r, NEW p, NEW R, NEW W, Others(R),
         Returned(r, [p |-> p, R |-> R, W |-> W])
  PROVE  Mild(form') /\ Others(req')
<1> DEFINE x == [p |-> p, R |-> R, W |-> W]
<1>1. CASE Waiting(r) = {}
  BY <1>1, SameMild DEF Returned, Tab
<1>2. CASE Waiting(r) # {}
  <2> DEFINE w == CHOOSE w \in Waiting(r) : TRUE
             rest == waits \ {w}
             less == rest \cup {[w EXCEPT !.left = @ \ {r.op}]}
  <2>1. \A V : [x EXCEPT !.W = V] = [p |-> p, R |-> R, W |-> V]
    OBVIOUS
  <2>2. \/ Tab([x EXCEPT !.W = less]) /\ UNCHANGED form
        \/ /\ Tab([x EXCEPT !.W = rest]) \/ Tab(Awaited(w, [x EXCEPT !.W = rest]))
           /\ form' = FormFreed(form, w.then, w.f)
    BY <1>2 DEF Returned
  <2>3. req' \in {R, Awaited(w, [p |-> p, R |-> R, W |-> rest]).R}
    BY <2>1, <2>2 DEF Tab
  <2>4. Others(Awaited(w, [p |-> p, R |-> R, W |-> rest]).R)
    BY AwaitedOthers
  <2>5. form' \in {form, [form EXCEPT !.busy = FALSE]}
    BY <2>2 DEF FormFreed
  <2>6. Mild(form')
    BY <2>5 DEF Mild, Inv, Form, FormFields
  <2>7. QED  BY <2>3, <2>4, <2>6
<1>3. QED  BY <1>1, <1>2

(* The answers to the log, to status and to show change the view only. *)
LEMMA ViewAnswers ==
  ASSUME Inv, NEW r \in req, LogAnswered(r) \/ StatusAnswered(r) \/ ShowAnswered(r) \/ ReviewAnswered(r)
  PROVE  Inv' /\ Reviewed
<1>1. Others(req \ {r})  BY LessOthers
<1>2. CASE LogAnswered(r)
  <2>1. \E p : Returned(r, [p |-> p, R |-> req \ {r}, W |-> waits])
    BY <1>2 DEF LogAnswered
  <2>2. QED  BY <1>1, <2>1, ReturnedKeeps, KeepInv
<1>3. CASE StatusAnswered(r)
  <2>1. \E p : Returned(r, [p |-> p, R |-> req \ {r}, W |-> waits])
    BY <1>3 DEF StatusAnswered
  <2>2. QED  BY <1>1, <2>1, ReturnedKeeps, KeepInv
<1>4. CASE ShowAnswered(r) \/ ReviewAnswered(r)
  <2>1. req' = req \ {r} /\ UNCHANGED form
    BY <1>4 DEF ShowAnswered, ReviewAnswered
  <2>2. QED  BY <1>1, <2>1, SameMild, KeepInv
<1>5. QED  BY <1>2, <1>3, <1>4

(* A request of another kind for the session of the view. *)
LEMMA CallOthers ==
  ASSUME NEW op, op \notin {"generate", "commit"}, NEW k
  PROVE  Others(Send(req, [Blank EXCEPT !.op = op, !.session = k]))
<1> DEFINE b == [Blank EXCEPT !.op = op, !.session = k]
<1>1. DOMAIN b = Fields /\ b.op \notin {"generate", "commit"}  BY DEF Blank, Fields
<1>2. Others(req)  BY LessOthers
<1> SUFFICES Others(Send(req, b))  OBVIOUS
<1> HIDE DEF b
<1>3. QED  BY <1>1, <1>2, SendOthers

(* Reading the log, moving in it and the remote operations leave the form   *)
(* alone and send neither drafts nor commits.                               *)
LEMMA ViewSteps ==
  ASSUME Inv,
         \/ LoadMore \/ ClickRefresh \/ Filter \/ GitFetch \/ ReviewRefresh
         \/ (\E r \in Refs : SetViewRef(r)) \/ (\E s \in Sessions : SetSessionId(s))
         \/ (\E c : Selects(c)) \/ (\E op \in {"pull", "push"} : AskRemote(op))
  PROVE  Inv' /\ Reviewed
<1>0. Others(req)  BY LessOthers
<1>1. UNCHANGED form
  BY DEF LoadMore, ClickRefresh, Filter, GitFetch, ReviewRefresh, SetViewRef, SetSessionId,
         Selects, AskRemote
<1>2. Others(req')
  <2>1. CASE LoadMore
    <3> DEFINE b == [Blank EXCEPT !.ref = pane.ref, !.session = pane.session, !.append = TRUE,
                                  !.skip = Len(pane.commits)]
    <3>1. DOMAIN b = Fields /\ b.op = "log"  BY DEF Blank, Fields
    <3>2. req' = Send(req, b)  BY <2>1 DEF LoadMore
    <3> HIDE DEF b
    <3>3. QED  BY <1>0, <3>1, <3>2, SendOthers
  <2>2. CASE ClickRefresh \/ \E r \in Refs : SetViewRef(r)
    <3>1. \E p : req' = Refresh(p, req, waits, "none", 0).R
      BY <2>2 DEF ClickRefresh, SetViewRef, Tab
    <3>2. QED  BY <1>0, <3>1, ReloadOthers DEF Refresh
  <2>3. CASE Filter \/ \E op \in {"pull", "push"} : AskRemote(op)
    BY <1>0, <2>3 DEF Filter, AskRemote
  <2>4. CASE GitFetch
    BY <2>4, CallOthers DEF GitFetch, Call
  <2>5. CASE ReviewRefresh
    BY <1>0, <2>5, CallOthers DEF ReviewRefresh
  <2>6. CASE \E s \in Sessions : SetSessionId(s)
    <3>1. PICK s : SetSessionId(s)  BY <2>6
    <3> DEFINE R1 == Load([pane EXCEPT !.session = s], req, waits).R
               b == [Blank EXCEPT !.op = "review", !.session = s]
    <3>2. req' \in {R1, Send(R1, b)}  BY <3>1 DEF SetSessionId
    <3>3. Others(R1)  BY <1>0, ReloadOthers DEF Load
    <3>4. DOMAIN b = Fields /\ b.op = "review"  BY DEF Blank, Fields
    <3> HIDE DEF R1, b
    <3>5. QED  BY <3>2, <3>3, <3>4, SendOthers
  <2>7. CASE \E c : Selects(c)
    <3>1. PICK c : Selects(c)  BY <2>7
    <3>2. QED  BY <1>0, <3>1, SelectOthers DEF Selects, Tab
  <2>8. QED  BY <2>1, <2>2, <2>3, <2>4, <2>5, <2>6, <2>7
<1>3. QED  BY <1>1, <1>2, SameMild, KeepInv

(* Fetch, pull and push, from their question to the reload after them. *)
LEMMA RemoteSteps ==
  ASSUME Inv, \/ \E yes \in BOOLEAN : Confirm(yes)
              \/ \E r \in req : RemoteAnswered(r),
         dialog \in {"", "pull", "push"}
  PROVE  Inv' /\ Reviewed
<1>1. UNCHANGED form  BY DEF Confirm, RemoteAnswered
<1>2. Others(req')
  <2>1. CASE \E yes \in BOOLEAN : Confirm(yes)
    <3>1. req' \in {req, Call(dialog)}  BY <2>1 DEF Confirm
    <3>2. QED  BY <3>1, LessOthers, CallOthers DEF Call
  <2>2. CASE \E r \in req : RemoteAnswered(r)
    <3>1. PICK r \in req : RemoteAnswered(r)  BY <2>2
    <3>2. Others(req \ {r})  BY LessOthers
    <3>3. req' \in {req \ {r}, Refresh(pane, req \ {r}, waits, r.op, 0).R}
      BY <3>1 DEF RemoteAnswered, Tab
    <3>4. Others(Refresh(pane, req \ {r}, waits, r.op, 0).R)
      BY <3>2, ReloadOthers DEF Refresh
    <3>5. QED  BY <3>2, <3>3, <3>4
  <2>3. QED  BY <2>1, <2>2
<1>3. QED  BY <1>1, <1>2, SameMild, KeepInv

(* Opening and closing the form, typing and reading the message send        *)
(* nothing.  A new form has a number no request was made for.               *)
LEMMA FormSteps ==
  ASSUME Inv, OpenCommitModal \/ CloseCommitModal \/ TypeMessage \/ ReviewMessage \/ TimerFires
  PROVE  Inv' /\ Reviewed
<1>1. req' = req
  BY DEF OpenCommitModal, CloseCommitModal, TypeMessage, ReviewMessage, TimerFires
<1>2. Reviewed  BY <1>1 DEF Reviewed
<1>3. CASE OpenCommitModal
  <2>1. form' = [NoForm EXCEPT !.no = form.no + 1, !.open = TRUE]
    BY <1>3 DEF OpenCommitModal
  <2>2. /\ DOMAIN form' = FormFields /\ form'.no = form.no + 1 /\ form'.ai # TRUE
        /\ form'.msg = "" /\ form'.reviewed # TRUE
    BY <2>1 DEF NoForm, FormFields
  <2>3. form.no \in Nat /\ form'.no \in Nat /\ form'.no > form.no
    <3>1. form.no \in Nat  BY DEF Inv, Form
    <3>2. \A n \in Nat : n + 1 \in Nat /\ n + 1 > n  OBVIOUS
    <3>3. form'.no = form.no + 1  BY <2>2
    <3>4. QED  BY Zenon, <3>1, <3>2, <3>3
  <2>4. Form(form)'  BY <2>2, <2>3 DEF Form
  <2>5. Drafts(req, form)'  BY <1>1, <2>3 DEF Inv, Drafts
  <2>6. QED  BY <1>2, <2>4, <2>5 DEF Inv
<1>4. CASE CloseCommitModal \/ TimerFires
  <2>1. form' = [form EXCEPT !.open = FALSE] \/ form' = [form EXCEPT !.ai = FALSE]
    BY <1>4 DEF CloseCommitModal, TimerFires
  <2>2. Mild(form')  BY <2>1 DEF Mild, Inv, Form, FormFields
  <2>3. QED  BY <1>1, <2>2, KeepInv, LessOthers
<1>5. CASE TypeMessage \/ ReviewMessage
  <2>1. \/ form' = [form EXCEPT !.msg = "typed", !.reviewed = FALSE]
        \/ form' = [form EXCEPT !.reviewed = TRUE, !.seen = form.msg]
    BY <1>5 DEF TypeMessage, ReviewMessage
  <2>2. /\ Form(form)'
        /\ form'.no = form.no /\ form'.asked = form.asked
    BY <2>1 DEF Inv, Form, FormFields
  <2>3. Drafts(req, form)'  BY <1>1, <2>2 DEF Inv, Drafts
  <2>4. QED  BY <1>2, <2>2, <2>3 DEF Inv
<1>6. QED  BY <1>3, <1>4, <1>5

(* What Post sends carries the number and the message of the form. *)
LEMMA PostSends ==
  ASSUME NEW op
  PROVE  \E b : /\ Post(op) = req \cup {b} /\ DOMAIN b = Fields
                /\ b.op = op /\ b.f = form.no /\ b.msg = form.msg /\ b.st = "sent"
<1> DEFINE c == [Blank EXCEPT !.op = op, !.session = pane.session, !.f = form.no, !.msg = form.msg]
           b == [c EXCEPT !.id = FreshId(req)]
<1>1. /\ DOMAIN c = Fields /\ c.op = op /\ c.f = form.no /\ c.msg = form.msg /\ c.st = "sent"
  BY DEF Blank, Fields
<1>2. Post(op) = req \cup {b}  BY DEF Post, Send
<1> HIDE DEF c
<1>3. DOMAIN b = Fields /\ b.op = op /\ b.f = form.no /\ b.msg = form.msg /\ b.st = "sent"
  BY <1>1 DEF Fields
<1> HIDE DEF b
<1>4. QED  BY <1>2, <1>3

(* The three requests of the form: a draft and an ask are booked in it, and *)
(* a commit carries the message that was reviewed.                          *)
LEMMA PostSteps ==
  ASSUME Inv, Generate \/ AskAI \/ CommitAll
  PROVE  Inv' /\ Reviewed
<1>1. CASE Generate
  <2>1. PICK b : /\ req' = req \cup {b} /\ DOMAIN b = Fields /\ b.op = "generate"
                 /\ b.f = form.no /\ b.st = "sent"
    BY <1>1, PostSends DEF Generate
  <2>2. form' = [form EXCEPT !.generating = TRUE, !.asked = form.asked \cup {"draft"}]
    BY <1>1 DEF Generate
  <2>3. /\ Form(form)' /\ form'.no = form.no /\ form'.asked = form.asked \cup {"draft"}
    BY <2>2 DEF Inv, Form, FormFields
  <2>4. Drafts(req, form)'  BY <2>1, <2>3 DEF Inv, Form, Drafts
  <2>5. Reviewed  BY <2>1 DEF Reviewed
  <2>6. QED  BY <2>3, <2>4, <2>5 DEF Inv
<1>2. CASE AskAI
  <2>1. PICK b : req' = req \cup {b} /\ DOMAIN b = Fields /\ b.op = "ask"
    BY <1>2, PostSends DEF AskAI
  <2>2. form' = [form EXCEPT !.ai = TRUE, !.asked = form.asked \cup {"ai"}]
    BY <1>2 DEF AskAI
  <2>3. /\ Form(form)' /\ form'.no = form.no /\ form'.asked = form.asked \cup {"ai"}
    BY <2>2 DEF Inv, Form, FormFields
  <2>4. Drafts(req, form)'  BY <2>1, <2>3 DEF Inv, Form, Drafts
  <2>5. Reviewed  BY <2>1 DEF Reviewed
  <2>6. QED  BY <2>3, <2>4, <2>5 DEF Inv
<1>3. CASE CommitAll
  <2>1. PICK b : req' = req \cup {b} /\ DOMAIN b = Fields /\ b.op = "commit" /\ b.msg = form.msg
    BY <1>3, PostSends DEF CommitAll
  <2>2. form' = [form EXCEPT !.busy = TRUE] /\ form.msg # "" /\ form.reviewed
    BY <1>3 DEF CommitAll
  <2>3. Mild(form')  BY <2>2 DEF Mild, Inv, Form, FormFields
  <2>4. Form(form)'  BY <2>3 DEF Inv, Form, Mild
  <2>5. Drafts(req, form)'  BY <2>1, <2>3 DEF Inv, Form, Drafts, Mild
  <2>6. form.seen = form.msg  BY <2>2 DEF Inv, Form
  <2>7. Reviewed  BY <2>1, <2>2, <2>6 DEF Reviewed
  <2>8. QED  BY <2>4, <2>5, <2>7 DEF Inv
<1>4. QED  BY <1>1, <1>2, <1>3

(* A draft arrives in the form that asked for it, and has to be reviewed. *)
LEMMA GeneratedStep ==
  ASSUME Inv, NEW r \in req, Generated(r)
  PROVE  Inv' /\ Reviewed
<1>1. req' = req \ {r} /\ r.op = "generate" /\ r.st \in {"ok", "bad"}  BY DEF Generated
<1>2. Others(req')  BY <1>1, LessOthers
<1>3. CASE r.f # form.no
  <2>1. UNCHANGED form  BY <1>3 DEF Generated
  <2>2. QED  BY <1>2, <2>1, SameMild, KeepInv
<1>4. CASE r.f = form.no
  <2>1. form' = [form EXCEPT !.generating = FALSE, !.msg = IF r.st = "ok" THEN r.msg ELSE form.msg,
                             !.reviewed = IF r.st = "ok" THEN FALSE ELSE form.reviewed]
    BY <1>4 DEF Generated
  <2>2. CASE r.st = "ok"
    <3>1. r.msg = "draft" /\ "draft" \in form.asked
      BY <1>1, <1>4, <2>2 DEF Inv, Drafts
    <3>2. /\ DOMAIN form' = FormFields /\ form'.no = form.no /\ form'.asked = form.asked
          /\ form'.ai = form.ai /\ form'.msg = "draft" /\ form'.reviewed # TRUE
      BY <2>1, <2>2, <3>1 DEF Inv, Form, FormFields
    <3>3. Form(form)'  BY <3>1, <3>2 DEF Inv, Form
    <3>4. Drafts(req, form)'  BY <1>1, <3>2 DEF Inv, Drafts
    <3>5. Reviewed  BY <1>1 DEF Reviewed
    <3>6. QED  BY <3>3, <3>4, <3>5 DEF Inv
  <2>3. CASE r.st # "ok"
    <3>1. Mild(form')  BY <2>1, <2>3 DEF Mild, Inv, Form, FormFields
    <3>2. QED  BY <1>2, <3>1, KeepInv
  <2>4. QED  BY <2>2, <2>3
<1>5. QED  BY <1>3, <1>4

(* The agent is heard only while the form waits for it, so its message was  *)
(* asked for, and it has to be reviewed.                                    *)
LEMMA AgentStep ==
  ASSUME Inv, NEW s \in Sessions, AgentPrints(s)
  PROVE  Inv' /\ Reviewed
<1>1. req' = req /\ Others(req')  BY LessOthers DEF AgentPrints
<1>2. \/ UNCHANGED form
      \/ form.ai /\ form' = [form EXCEPT !.ai = FALSE]
      \/ form.ai /\ form' = [form EXCEPT !.ai = FALSE, !.msg = "ai", !.reviewed = FALSE]
  BY DEF AgentPrints, HandleCommitMsg
<1>3. CASE UNCHANGED form
  BY <1>1, <1>3, SameMild, KeepInv
<1>4. CASE form' = [form EXCEPT !.ai = FALSE]
  <2>1. Mild(form')  BY <1>4 DEF Mild, Inv, Form, FormFields
  <2>2. QED  BY <1>1, <2>1, KeepInv
<1>5. CASE form.ai /\ form' = [form EXCEPT !.ai = FALSE, !.msg = "ai", !.reviewed = FALSE]
  <2>1. /\ DOMAIN form' = FormFields /\ form'.no = form.no /\ form'.asked = form.asked
        /\ form'.ai # TRUE /\ form'.msg = "ai" /\ form'.reviewed # TRUE
    BY <1>5 DEF Inv, Form, FormFields
  <2>2. "ai" \in form.asked  BY <1>5 DEF Inv, Form
  <2>3. Form(form)'  BY <2>1, <2>2 DEF Inv, Form
  <2>4. Drafts(req, form)'  BY <1>1, <2>1 DEF Inv, Drafts
  <2>5. Reviewed  BY <1>1 DEF Reviewed
  <2>6. QED  BY <2>3, <2>4, <2>5 DEF Inv
<1>6. QED  BY <1>2, <1>3, <1>4, <1>5

(* A failed ask ends the wait; a commit closes the form or sets it free. *)
LEMMA FormAnswers ==
  ASSUME Inv, NEW r \in req, AskAnswered(r) \/ CommitAnswered(r)
  PROVE  Inv' /\ Reviewed
<1>1. form' \in {form, [form EXCEPT !.ai = FALSE], [form EXCEPT !.open = FALSE],
                 [form EXCEPT !.busy = FALSE]}
  BY DEF AskAnswered, CommitAnswered, FormFreed
<1>2. Mild(form')  BY <1>1 DEF Mild, Inv, Form, FormFields
<1>3. Others(req \ {r})  BY LessOthers
<1>4. req' \in {req \ {r}, Refresh(pane, req \ {r}, waits, "commit", r.f).R}
  BY DEF AskAnswered, CommitAnswered, Tab
<1>5. Others(Refresh(pane, req \ {r}, waits, "commit", r.f).R)
  BY <1>3, ReloadOthers DEF Refresh
<1>6. QED  BY <1>2, <1>3, <1>4, <1>5, KeepInv

(* The Hub's answer to a generate is a draft of the same form. *)
LEMMA ServeStep ==
  ASSUME Inv, NEW r \in req, Serve(r)
  PROVE  Inv' /\ Reviewed
<1>1. UNCHANGED form  BY DEF Serve
<1>2. PICK q : /\ req' = (req \ {r}) \cup {q}
               /\ q = Served(r) \/ q = [r EXCEPT !.st = "bad"]
  BY DEF Serve
<1>3. DOMAIN r = Fields  BY DEF Inv, Drafts
<1>4. /\ DOMAIN q = Fields /\ q.op = r.op /\ q.f = r.f /\ q.st \in {"ok", "bad"}
      /\ q.op = "generate" /\ q.st = "ok" => q.msg = "draft"
  <2>1. CASE q = [r EXCEPT !.st = "bad"]
    BY <1>3, <2>1 DEF Fields
  <2>2. CASE q = Served(r)
    <3>1. \/ r.op # "generate"
             /\ \E a, b : q \in {[r EXCEPT !.st = "ok", !.page = a, !.more = b],
                                 [r EXCEPT !.st = "ok", !.wt = a], [r EXCEPT !.st = "ok"]}
          \/ r.op = "generate" /\ q = [r EXCEPT !.st = "ok", !.msg = "draft"]
      BY <2>2 DEF Served
    <3>2. QED  BY <1>3, <3>1 DEF Fields
  <2>3. QED  BY <1>2, <2>1, <2>2
<1>5. Form(form)'  BY <1>1 DEF Inv
<1>6. Drafts(req, form)'  BY <1>1, <1>2, <1>4 DEF Inv, Drafts
<1>7. Reviewed  BY <1>2, <1>4 DEF Reviewed
<1>8. QED  BY <1>5, <1>6, <1>7 DEF Inv

-----------------------------------------------------------------------------
(* The theorems.                                                            *)

(* Only pull and push are confirmed. *)
Dialog == dialog \in {"", "pull", "push"}

(* The question of a remote operation is put by AskRemote only. *)
LEMMA DialogStep == Dialog /\ [Next]_vars => Dialog'
<1> SUFFICES ASSUME Dialog, [Next]_vars PROVE Dialog'  OBVIOUS
<1>1. CASE User
  BY <1>1 DEF Dialog, User, LoadMore, ClickRefresh, Filter, GitFetch, ReviewRefresh,
     OpenCommitModal, CloseCommitModal, TypeMessage, ReviewMessage, Generate, AskAI, CommitAll,
     SetViewRef, SetSessionId, ClickCommit, JumpToCommit, Selects, AskRemote, Confirm
<1>2. CASE Answers
  BY <1>2 DEF Dialog, Answers, Answer, Serve, LogAnswered, StatusAnswered, ShowAnswered,
     ReviewAnswered, RemoteAnswered, Generated, AskAnswered, CommitAnswered
<1>3. CASE Elsewhere \/ TimerFires \/ (\E s \in Sessions : AgentPrints(s)) \/ UNCHANGED vars
  BY <1>3 DEF Dialog, Elsewhere, TimerFires, AgentPrints, vars
<1>4. QED  BY <1>1, <1>2, <1>3 DEF Next

(* At the start there is no form, and nothing is under way. *)
LEMMA InitInv == Init => Inv /\ Dialog
<1> SUFFICES ASSUME Init PROVE Inv /\ Dialog  OBVIOUS
<1>1. form = NoForm /\ req = {} /\ dialog = ""  BY DEF Init
<1>2. Form(NoForm)  BY DEF NoForm, Form, FormFields
<1>3. QED  BY <1>1, <1>2 DEF Inv, Drafts, Dialog

(* Every step keeps the invariant, and commits only what was reviewed. *)
LEMMA StepInv == Inv /\ Dialog /\ [Next]_vars => Inv' /\ Reviewed
<1> SUFFICES ASSUME Inv, Dialog, [Next]_vars PROVE Inv' /\ Reviewed  OBVIOUS
<1>1. CASE User
  <2>1. CASE LoadMore \/ ClickRefresh \/ Filter \/ GitFetch \/ ReviewRefresh
    BY <2>1, ViewSteps
  <2>2. CASE OpenCommitModal \/ CloseCommitModal \/ TypeMessage \/ ReviewMessage
    BY <2>2, FormSteps
  <2>3. CASE Generate \/ AskAI \/ CommitAll
    BY <2>3, PostSteps
  <2>4. CASE \/ (\E r \in Refs : SetViewRef(r)) \/ (\E s \in Sessions : SetSessionId(s))
             \/ (\E op \in {"pull", "push"} : AskRemote(op))
    BY <2>4, ViewSteps
  <2>5. CASE \E c \in pane.rows : ClickCommit(c) \/ JumpToCommit(c)
    <3>1. \E c : Selects(c)  BY <2>5 DEF ClickCommit, JumpToCommit
    <3>2. QED  BY <3>1, ViewSteps
  <2>6. CASE \E yes \in BOOLEAN : Confirm(yes)
    BY <2>6, RemoteSteps DEF Dialog
  <2>7. QED  BY <1>1, <2>1, <2>2, <2>3, <2>4, <2>5, <2>6 DEF User
<1>2. CASE Answers
  <2>1. PICK r \in req : Serve(r) \/ Answer(r)  BY <1>2 DEF Answers
  <2>2. CASE Serve(r)
    BY <2>2, ServeStep
  <2>3. CASE LogAnswered(r) \/ StatusAnswered(r) \/ ShowAnswered(r) \/ ReviewAnswered(r)
    BY <2>3, ViewAnswers
  <2>4. CASE RemoteAnswered(r)
    BY <2>4, RemoteSteps DEF Dialog
  <2>5. CASE Generated(r)
    BY <2>5, GeneratedStep
  <2>6. CASE AskAnswered(r) \/ CommitAnswered(r)
    BY <2>6, FormAnswers
  <2>7. QED  BY <2>1, <2>2, <2>3, <2>4, <2>5, <2>6 DEF Answer
<1>3. CASE TimerFires
  BY <1>3, FormSteps
<1>4. CASE \E s \in Sessions : AgentPrints(s)
  BY <1>4, AgentStep
<1>5. CASE Elsewhere \/ UNCHANGED vars
  <2>1. UNCHANGED <<form, req>>  BY <1>5 DEF Elsewhere, vars
  <2>2. QED  BY <2>1, SameMild, LessOthers, KeepInv
<1>6. QED  BY <1>1, <1>2, <1>3, <1>4, <1>5 DEF Next

(* A draft that is under way belongs to a form that asked for it, in every  *)
(* reachable state.                                                         *)
THEOREM Invariance == Spec => [](Inv /\ Dialog)
<1>1. Inv /\ Dialog /\ [Next]_vars => (Inv /\ Dialog)'  BY StepInv, DialogStep
<1>2. QED  BY <1>1, InitInv, PTL DEF Spec

(* No message fills a form in which nobody asked for it: a late answer      *)
(* belongs to the form that was closed meanwhile (_generateCommitMessage,   *)
(* _handleCommitMsgEvent).                                                  *)
THEOREM DraftsAsked == Spec => []DraftsWereAsked
<1>1. Inv => DraftsWereAsked  BY DEF Inv, Form, DraftsWereAsked
<1>2. QED  BY <1>1, Invariance, PTL

(* What is committed is the message reviewed last, word for word            *)
(* (_commitAll with commitModalState.reviewed).                             *)
THEOREM CommitsReviewed == Spec => CommitReviewed
<1>1. Inv /\ Dialog /\ [Next]_vars =>
        [\A r \in req' : r.op = "commit" /\ r \notin req /\ r.st = "sent"
                         => r.msg = form.seen /\ r.msg # ""]_vars
  BY StepInv DEF Reviewed
<1>2. QED  BY <1>1, Invariance, PTL DEF Spec, CommitReviewed
==============================================================================

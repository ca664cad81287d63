------------------------------- MODULE GitPane -------------------------------
(***************************************************************************)
(* One Git tab (git-view.ts) and the Review tab beside it (review-view.ts):*)
(* the commit log of a ref, read page by page, the detail of a selected    *)
(* commit, the working tree with fetch, pull and push, and the form that   *)
(* commits everything, whose message may be typed, generated by the Hub or *)
(* asked of the session's agent.  Requests are served and answered in any  *)
(* order; only the guards of the source stand between an answer and what   *)
(* is on the screen by then.                                               *)
(*                                                                         *)
(* A commit is a ref and a position on it, a message one of a few values.  *)
(* /api/git-refs and /api/git-status, always asked together and both       *)
(* silent about errors, are one request.                                   *)
(***************************************************************************)
EXTENDS Integers, Sequences, FiniteSets

CONSTANTS Sessions,        \* sessions whose directory is in this repository
          Length,          \* commits on each ref at the start
          PageLimit,       \* commits per page
          MaxReq,          \* requests under way when the user acts again
          MaxForm,         \* openings of the form
          MaxEvent         \* acts of the user and of other programs

ASSUME GitAssumption ==
  /\ Sessions # {} /\ PageLimit \in Nat \ {0} /\ {MaxReq, MaxForm, MaxEvent} \subseteq Nat
  /\ \A r \in DOMAIN Length : Length[r] \in Nat \ {0}

Refs == DOMAIN Length
NoCommit == <<"none", 0>>
Remotes == {"fetch", "pull", "push"}

VARIABLES
  repo,                    \* the repository and its remote
  pane,                    \* the view: log, selection, detail, working tree
  form,                    \* commitModalState of the last form opened
  timer,                   \* _aiCommitTimer is running
  busy, dialog,            \* buttons showing "...", the confirmation open
  review,                  \* the Review tab
  req, waits,              \* requests, and handlers that await a reload
  hub,                     \* commitMsgAwait of the sessions
  events                   \* bound

tab == <<pane, waits>>
vars == <<repo, pane, form, timer, busy, dialog, review, req, waits, hub, events>>

Blank == [id |-> 0, op |-> "log", ref |-> "HEAD", skip |-> 0, append |-> FALSE, wait |-> 0,
          session |-> 0, c |-> NoCommit, f |-> 0, msg |-> "", st |-> "sent",
          page |-> <<>>, more |-> FALSE, wt |-> <<>>]
FreshId(R) == CHOOSE k \in 1 .. Cardinality(R) + 1 : \A r \in R : r.id # k
Send(R, r) == R \cup {[r EXCEPT !.id = FreshId(R)]}
Free == dialog = "" /\ UNCHANGED events
Act == dialog = "" /\ Cardinality(req) < MaxReq /\ events < MaxEvent /\ events' = events + 1

(* What git status says: <<>> when it is not known.                         *)
Status == <<[dirty |-> repo.dirty, ahead |-> repo.ours, behind |-> repo.theirs]>>
Knows(p, field) == p.wt # <<>> /\ p.wt[1][field] > 0

-----------------------------------------------------------------------------
(* The log.  load and refresh start two requests and await both.            *)

Reload(p, R, W, kind, then, f) ==
  LET w == FreshId(W)
      R1 == Send(R, [Blank EXCEPT !.ref = p.ref, !.session = p.session, !.wait = w])
  IN  [p |-> [p EXCEPT !.commits = <<>>, !.table = "loading", !.rows = {}, !.loading = TRUE,
                       !.sel = IF kind = "refresh" THEN NoCommit ELSE @,
                       !.show = IF kind = "refresh" THEN NoCommit ELSE @],
       R |-> Send(R1, [Blank EXCEPT !.op = "status", !.session = p.session, !.wait = w]),
       W |-> W \cup {[id |-> w, kind |-> kind, then |-> then, f |-> f, left |-> {"log", "status"}]}]

Refresh(p, R, W, then, f) == Reload(p, R, W, "refresh", then, f)
Load(p, R, W) == Reload([p EXCEPT !.sel = NoCommit, !.show = NoCommit], R, W, "load", "none", 0)
Tab(x) == pane' = x.p /\ req' = x.R /\ waits' = x.W

InSeq(s) == {s[k] : k \in DOMAIN s}
RenderLog(p) ==
  [p EXCEPT !.table = "rows", !.rows = IF p.filter THEN {} ELSE InSeq(p.commits),
            !.moreBtn = p.more /\ ~p.filter]

SelectCommit(x, c) ==
  [x EXCEPT !.p.sel = c,
            !.R = Send(@, [Blank EXCEPT !.op = "show", !.session = x.p.session, !.c = c])]

(* What follows the awaited reload: the button or the form is free again.   *)
Ready(then) == busy' = busy \ {then}
FormFreed(fm, then, f) == IF then = "commit" /\ f = fm.no THEN [fm EXCEPT !.busy = FALSE] ELSE fm

(* The view after its first load: the top commit of HEAD is selected.       *)
Loaded(s) ==
  LET n == Length["HEAD"]
      page == [k \in 1 .. (IF n < PageLimit THEN n ELSE PageLimit) |-> <<"HEAD", n - k + 1>>]
  IN  [ref |-> "HEAD", session |-> s, commits |-> page, more |-> n > PageLimit,
       moreBtn |-> n > PageLimit, loading |-> FALSE, table |-> "rows", rows |-> InSeq(page),
       filter |-> FALSE, sel |-> <<"HEAD", n>>, show |-> <<"HEAD", n>>, detail |-> "commit",
       wt |-> Status]
NoForm == [no |-> 0, open |-> FALSE, reviewed |-> FALSE, busy |-> FALSE, generating |-> FALSE,
           ai |-> FALSE, msg |-> "", asked |-> {}, seen |-> ""]

Init ==
  /\ repo = [base |-> Length["HEAD"], ours |-> 0, theirs |-> 0, unseen |-> 1, dirty |-> 1]
  /\ form = NoForm /\ timer = FALSE /\ busy = {} /\ dialog = "" /\ events = 0
  /\ hub = [s \in Sessions |-> FALSE]
  /\ req = {} /\ waits = {}
  /\ LET s == CHOOSE s \in Sessions : TRUE
     IN  pane = Loaded(s) /\ review = [session |-> s, loading |-> FALSE, files |-> Status]

LoadMore ==
  /\ Act /\ pane.moreBtn /\ ~pane.loading /\ pane.more
  /\ pane' = [pane EXCEPT !.loading = TRUE]
  /\ req' = Send(req, [Blank EXCEPT !.ref = pane.ref, !.session = pane.session, !.append = TRUE,
                                    !.skip = Len(pane.commits)])
  /\ UNCHANGED <<repo, form, timer, busy, dialog, review, waits, hub>>

ClickRefresh ==
  /\ Act /\ Tab(Refresh(pane, req, waits, "none", 0))
  /\ UNCHANGED <<repo, form, timer, busy, dialog, review, hub>>

SetViewRef(r) ==
  /\ Act /\ Tab(Refresh([pane EXCEPT !.ref = r], req, waits, "none", 0))
  /\ UNCHANGED <<repo, form, timer, busy, dialog, review, hub>>

(* Another session of the repository opens the tab: both views follow.      *)
SetSessionId(s) ==
  /\ Act /\ s # pane.session
  /\ LET x == Load([pane EXCEPT !.session = s], req, waits)
     IN  /\ pane' = x.p /\ waits' = x.W
         /\ review' = [review EXCEPT !.session = s, !.loading = TRUE]
         /\ req' = IF review.loading THEN x.R
                   ELSE Send(x.R, [Blank EXCEPT !.op = "review", !.session = s])
  /\ UNCHANGED <<repo, form, timer, busy, dialog, hub>>

Filter ==
  /\ Act /\ pane' = RenderLog([pane EXCEPT !.filter = ~@])
  /\ UNCHANGED <<repo, form, timer, busy, dialog, review, req, waits, hub>>

(* What the detail shows can be clicked: the parent of its commit.          *)
DetailLinks(p) == IF p.detail = "commit" THEN {<<p.show[1], p.show[2] - 1>>} ELSE {}

Selects(c) ==
  /\ Act /\ Tab(SelectCommit([p |-> pane, R |-> req, W |-> waits], c))
  /\ UNCHANGED <<repo, form, timer, busy, dialog, review, hub>>

ClickCommit(c) == c \in pane.rows /\ Selects(c)
JumpToCommit(c) ==         \* the parent, if its row is there
  c \in DetailLinks(pane) \cap InSeq(pane.commits) \cap pane.rows /\ Selects(c)

(* The answers.  The await of a handler ends with its last answer, or with  *)
(* the log's if that one is an error.                                       *)
Page(r) ==
  LET n == (IF r.ref = "HEAD" THEN repo.base + repo.ours ELSE Length[r.ref]) - r.skip
  IN  [k \in 1 .. (IF n < 0 THEN 0 ELSE IF n < PageLimit THEN n ELSE PageLimit) |-> <<r.ref, n - k + 1>>]
More(r) ==
  (IF r.ref = "HEAD" THEN repo.base + repo.ours ELSE Length[r.ref]) > r.skip + PageLimit

Awaited(w, x) ==           \* the handler goes on after its reload
  LET p1 == RenderLog(x.p)
      top == <<x.p.ref, repo.base + repo.ours>>
      head == IF top \in InSeq(x.p.commits) THEN top ELSE x.p.commits[1]
  IN  IF w.kind = "refresh" THEN [x EXCEPT !.p = [p1 EXCEPT !.detail = "empty"]]
      ELSE IF x.p.sel = NoCommit /\ x.p.commits # <<>>
           THEN SelectCommit([x EXCEPT !.p = p1], head)
           ELSE [x EXCEPT !.p = p1]

Waiting(r) == {w \in waits : w.id = r.wait /\ r.op \in w.left}

Returned(r, x) ==          \* x: the screen with r's answer on it
  IF Waiting(r) = {} THEN Tab(x) /\ UNCHANGED <<busy, form>>
  ELSE LET w == CHOOSE w \in Waiting(r) : TRUE
           rest == waits \ {w}
           over == w.left = {r.op} \/ (r.op = "log" /\ r.st = "bad")
       IN  IF ~over
           THEN Tab([x EXCEPT !.W = rest \cup {[w EXCEPT !.left = @ \ {r.op}]}]) /\ UNCHANGED <<busy, form>>
           ELSE /\ Tab(IF r.st = "bad" /\ r.op = "log" THEN [x EXCEPT !.W = rest]
                       ELSE Awaited(w, [x EXCEPT !.W = rest]))
                /\ Ready(w.then) /\ form' = FormFreed(form, w.then, w.f)

LogAnswered(r) ==
  /\ r.op = "log" /\ r.st \in {"ok", "bad"}
  /\ LET p == [pane EXCEPT !.loading = FALSE]
         q == IF r.st = "bad" THEN (IF r.append THEN p ELSE [p EXCEPT !.table = "error", !.rows = {}])
              ELSE [p EXCEPT !.commits = IF r.append THEN @ \o r.page ELSE r.page, !.more = r.more]
     IN  Returned(r, [p |-> IF r.append /\ r.st = "ok" THEN RenderLog(q) ELSE q,
                      R |-> req \ {r}, W |-> waits])
  /\ UNCHANGED <<repo, timer, dialog, review, hub, events>>

StatusAnswered(r) ==
  /\ r.op = "status" /\ r.st \in {"ok", "bad"}
  /\ Returned(r, [p |-> [pane EXCEPT !.wt = IF r.st = "ok" THEN r.wt ELSE <<>>],
                  R |-> req \ {r}, W |-> waits])
  /\ UNCHANGED <<repo, timer, dialog, review, hub, events>>

ShowAnswered(r) ==
  /\ r.op = "show"
  /\ pane' \in {[pane EXCEPT !.show = r.c, !.detail = "commit"], [pane EXCEPT !.detail = "error"]}
  /\ req' = req \ {r}
  /\ UNCHANGED <<repo, form, timer, busy, dialog, review, waits, hub, events>>

ReviewRefresh ==
  /\ Act /\ review' = [review EXCEPT !.loading = TRUE]
  /\ req' = IF review.loading THEN req
            ELSE Send(req, [Blank EXCEPT !.op = "review", !.session = review.session])
  /\ UNCHANGED <<repo, form, timer, busy, dialog, tab, hub>>

ReviewAnswered(r) ==
  /\ r.op = "review" /\ r.st \in {"ok", "bad"} /\ req' = req \ {r}
  /\ review' = [review EXCEPT !.files = IF r.st = "ok" THEN r.wt ELSE @, !.loading = FALSE]
  /\ UNCHANGED <<repo, form, timer, busy, dialog, tab, hub, events>>

-----------------------------------------------------------------------------
(* Fetch, pull and push.  The latter two are confirmed first.               *)

Call(op) == Send(req, [Blank EXCEPT !.op = op, !.session = pane.session])

GitFetch ==
  /\ Act /\ "fetch" \notin busy
  /\ busy' = busy \cup {"fetch"} /\ req' = Call("fetch")
  /\ UNCHANGED <<repo, form, timer, dialog, review, tab, hub>>

AskRemote(op) ==
  /\ Act /\ op \notin busy
  /\ Knows(pane, IF op = "pull" THEN "behind" ELSE "ahead")
  /\ dialog' = op
  /\ UNCHANGED <<repo, form, timer, busy, review, tab, req, hub>>

Confirm(yes) ==
  /\ dialog # "" /\ dialog' = ""
  /\ IF yes THEN busy' = busy \cup {dialog} /\ req' = Call(dialog) ELSE UNCHANGED <<busy, req>>
  /\ UNCHANGED <<repo, form, timer, review, tab, hub, events>>

RemoteAnswered(r) ==
  /\ r.op \in Remotes /\ r.st \in {"ok", "bad"}
  /\ IF r.st = "ok" THEN Tab(Refresh(pane, req \ {r}, waits, r.op, 0)) /\ UNCHANGED busy
     ELSE Ready(r.op) /\ req' = req \ {r} /\ UNCHANGED tab
  /\ UNCHANGED <<repo, form, timer, dialog, review, hub, events>>

-----------------------------------------------------------------------------
(* The commit form.                                                         *)

Blocked == form.busy \/ form.generating \/ form.ai
FormAct == Act /\ form.open
InForm == Free /\ form.open

OpenCommitModal ==
  /\ Free /\ form.no < MaxForm /\ ~form.open /\ Knows(pane, "dirty")
  /\ form' = [NoForm EXCEPT !.no = form.no + 1, !.open = TRUE]
  /\ UNCHANGED <<repo, timer, busy, dialog, review, tab, req, hub>>

CloseCommitModal ==
  /\ InForm /\ form' = [form EXCEPT !.open = FALSE]
  /\ UNCHANGED <<repo, timer, busy, dialog, review, tab, req, hub>>

TypeMessage ==
  /\ InForm /\ ~form.busy /\ form.msg # "typed" /\ form' = [form EXCEPT !.msg = "typed", !.reviewed = FALSE]
  /\ UNCHANGED <<repo, timer, busy, dialog, review, tab, req, hub>>

ReviewMessage ==
  /\ InForm /\ form.msg # "" /\ ~Blocked
  /\ form' = [form EXCEPT !.reviewed = TRUE, !.seen = form.msg]
  /\ UNCHANGED <<repo, timer, busy, dialog, review, tab, req, hub>>

Post(op) == Send(req, [Blank EXCEPT !.op = op, !.session = pane.session, !.f = form.no, !.msg = form.msg])

Generate ==
  /\ FormAct /\ ~Blocked
  /\ form' = [form EXCEPT !.generating = TRUE, !.asked = @ \cup {"draft"}] /\ req' = Post("generate")
  /\ UNCHANGED <<repo, timer, busy, dialog, review, tab, hub>>

GeneratedHere(r) ==        \* mutant: the answer goes to the form on the screen
  /\ r.op = "generate" /\ r.st \in {"ok", "bad"} /\ req' = req \ {r}
  /\ form' = [form EXCEPT !.generating = FALSE, !.msg = IF r.st = "ok" THEN r.msg ELSE @,
                          !.reviewed = IF r.st = "ok" THEN FALSE ELSE @]
  /\ UNCHANGED <<repo, timer, busy, dialog, review, tab, hub, events>>

Generated(r) ==
  /\ r.op = "generate" /\ r.st \in {"ok", "bad"} /\ req' = req \ {r}
  /\ form' = IF r.f # form.no THEN form
             ELSE [form EXCEPT !.generating = FALSE, !.msg = IF r.st = "ok" THEN r.msg ELSE @,
                               !.reviewed = IF r.st = "ok" THEN FALSE ELSE @]
  /\ UNCHANGED <<repo, timer, busy, dialog, review, tab, hub, events>>

AskAI ==
  /\ FormAct /\ ~Blocked
  /\ form' = [form EXCEPT !.ai = TRUE, !.asked = @ \cup {"ai"}] /\ timer' = TRUE /\ req' = Post("ask")
  /\ UNCHANGED <<repo, busy, dialog, review, tab, hub>>

(* An error of the request ends the wait, and the timer with it: the timer  *)
(* of the view, whichever form started it.                                  *)
AskAnswered(r) ==
  /\ r.op = "ask" /\ r.st \in {"ok", "bad"} /\ req' = req \ {r}
  /\ IF r.st = "ok" THEN UNCHANGED <<form, timer>>
     ELSE /\ timer' = FALSE
          /\ form' = IF r.f = form.no THEN [form EXCEPT !.ai = FALSE] ELSE form
  /\ UNCHANGED <<repo, busy, dialog, review, tab, hub, events>>

TimerFires ==
  /\ timer /\ timer' = FALSE /\ form' = [form EXCEPT !.ai = FALSE]
  /\ UNCHANGED <<repo, busy, dialog, review, tab, req, hub, events>>

SuggestionKeepsReview(s, m) ==   \* mutant: the new message counts as reviewed
  LET heard == s = pane.session /\ form.open /\ form.ai
  IN  /\ form' = IF heard THEN [form EXCEPT !.ai = FALSE, !.msg = IF m = "error" THEN @ ELSE m] ELSE form
      /\ timer' = (timer /\ ~heard)

HandleCommitMsg(s, m) ==
  LET heard == s = pane.session /\ form.open /\ form.ai
  IN  /\ form' = IF ~heard THEN form
                 ELSE IF m = "error" THEN [form EXCEPT !.ai = FALSE]
                 ELSE [form EXCEPT !.ai = FALSE, !.msg = m, !.reviewed = FALSE]
      /\ timer' = (timer /\ ~heard)

(* The agent prints the marker, or prints anything after the deadline; the  *)
(* event may fail to reach the page.                                        *)
AgentPrints(s) ==
  /\ hub[s] /\ hub' = [hub EXCEPT ![s] = FALSE]
  /\ UNCHANGED <<form, timer>> \/ \E m \in {"ai", "error"} : HandleCommitMsg(s, m)
  /\ UNCHANGED <<repo, busy, dialog, review, tab, req, events>>

CommitAll ==
  /\ FormAct /\ form.msg # "" /\ form.reviewed /\ ~Blocked
  /\ form' = [form EXCEPT !.busy = TRUE] /\ req' = Post("commit")
  /\ UNCHANGED <<repo, timer, busy, dialog, review, tab, hub>>

CommitForgetsBusy(r) ==    \* mutant: an error leaves the form busy
  /\ r.op = "commit" /\ r.st \in {"ok", "bad"}
  /\ IF r.st = "ok"
     THEN form' = [form EXCEPT !.open = FALSE] /\ Tab(Refresh(pane, req \ {r}, waits, "commit", r.f))
     ELSE req' = req \ {r} /\ UNCHANGED <<form, tab>>
  /\ UNCHANGED <<repo, timer, busy, dialog, review, hub, events>>

CommitAnswered(r) ==
  /\ r.op = "commit" /\ r.st \in {"ok", "bad"}
  /\ IF r.st = "ok"
     THEN form' = [form EXCEPT !.open = FALSE] /\ Tab(Refresh(pane, req \ {r}, waits, "commit", r.f))
     ELSE form' = FormFreed(form, "commit", r.f) /\ req' = req \ {r} /\ UNCHANGED tab
  /\ UNCHANGED <<repo, timer, busy, dialog, review, hub, events>>

-----------------------------------------------------------------------------
(* The Hub: one git command per request, or an error.  What git show says   *)
(* of a commit never changes, so that request is served when answered.      *)

Effect(r) ==
  CASE r.op = "fetch"  -> {[repo EXCEPT !.theirs = @ + repo.unseen, !.unseen = 0]}
    [] r.op = "pull"   -> IF repo.ours > 0 /\ repo.theirs + repo.unseen > 0 THEN {}
                          ELSE {[repo EXCEPT !.base = @ + repo.theirs + repo.unseen,
                                             !.theirs = 0, !.unseen = 0]}
    [] r.op = "push"   -> IF repo.theirs + repo.unseen > 0 THEN {}
                          ELSE {[repo EXCEPT !.base = @ + repo.ours, !.ours = 0]}
    [] r.op = "commit" -> IF repo.dirty = 0 THEN {} ELSE {[repo EXCEPT !.dirty = 0, !.ours = @ + 1]}
    [] r.op \in {"generate", "ask"} -> IF repo.dirty = 0 THEN {} ELSE {repo}
    [] OTHER           -> {repo}

Served(r) ==
  CASE r.op = "log"                   -> [r EXCEPT !.st = "ok", !.page = Page(r), !.more = More(r)]
    [] r.op \in {"status", "review"}  -> [r EXCEPT !.st = "ok", !.wt = Status]
    [] r.op = "generate"              -> [r EXCEPT !.st = "ok", !.msg = "draft"]
    [] OTHER                          -> [r EXCEPT !.st = "ok"]

Serve(r) ==
  /\ r.st = "sent" /\ r.op # "show"
  /\ \/ \E e \in Effect(r) :
          /\ repo' = e /\ req' = (req \ {r}) \cup {Served(r)}
          /\ hub' = IF r.op = "ask" THEN [hub EXCEPT ![r.session] = TRUE] ELSE hub
     \/ req' = (req \ {r}) \cup {[r EXCEPT !.st = "bad"]} /\ UNCHANGED <<repo, hub>>
  /\ UNCHANGED <<form, timer, busy, dialog, review, tab, events>>

(* Other programs: a file changes, somebody pushes.                         *)
Elsewhere ==
  /\ events < MaxEvent /\ events' = events + 1
  /\ repo' \in {[repo EXCEPT !.dirty = 1], [repo EXCEPT !.unseen = 1]} \ {repo}
  /\ UNCHANGED <<form, timer, busy, dialog, review, tab, req, hub>>

User ==
  \/ LoadMore \/ ClickRefresh \/ Filter \/ GitFetch \/ ReviewRefresh
  \/ OpenCommitModal \/ CloseCommitModal \/ TypeMessage \/ ReviewMessage \/ Generate \/ AskAI \/ CommitAll
  \/ \E r \in Refs : SetViewRef(r)
  \/ \E s \in Sessions : SetSessionId(s)
  \/ \E c \in pane.rows : ClickCommit(c) \/ JumpToCommit(c)
  \/ \E op \in {"pull", "push"} : AskRemote(op)
  \/ \E yes \in BOOLEAN : Confirm(yes)

Answer(r) ==
  \/ LogAnswered(r) \/ StatusAnswered(r) \/ ShowAnswered(r) \/ ReviewAnswered(r)
  \/ RemoteAnswered(r) \/ Generated(r) \/ AskAnswered(r) \/ CommitAnswered(r)

Answers == \E r \in req : Serve(r) \/ Answer(r)

Next ==
  \/ User \/ Elsewhere \/ Answers \/ TimerFires
  \/ \E s \in Sessions : AgentPrints(s)

Spec == Init /\ [][Next]_vars

(* The Hub answers every request (gitCommandTimeout) and timers fire; the   *)
(* user owes nothing, and an agent need not print.                          *)
FairSpec == Spec /\ WF_vars(Answers) /\ WF_vars(TimerFires)

-----------------------------------------------------------------------------
(* What is committed is the message the user last reviewed in that form,    *)
(* word for word: a generated or suggested message that arrives after the   *)
(* review, on whatever path, has to be reviewed again.                      *)
CommitReviewed ==
  [][\A r \in req' : r.op = "commit" /\ r \notin req /\ r.st = "sent" => r.msg = form.seen /\ r.msg # ""]_vars

(* A message nobody asked for in this form never fills it: the answer to a  *)
(* form closed in the meantime belongs to that form.                        *)
DraftsWereAsked == form.msg \in {"draft", "ai"} => form.msg \in form.asked

(* The form is never blocked for good by a request: generating ends, and a  *)
(* commit ends with its reload.                                             *)
FormFree == []<>~(form.generating \/ form.busy)

=============================================================================

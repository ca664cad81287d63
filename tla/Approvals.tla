------------------------------ MODULE Approvals ------------------------------
(***************************************************************************)
(* Approval prompts in the tab: a CLI asks, the tab finds the question in  *)
(* the text it receives (approval.ts: trackApprovalHintFromChunk for every *)
(* session, detectApproval for the active one) or is told by the Hub,      *)
(* remembers it in half a dozen caches, shows it in the one action bar all *)
(* sessions share, and sends the answer the user picks.                    *)
(*                                                                         *)
(* A prompt is a name with a kind (how it is recognised); its text, the    *)
(* labels and the DOM are left out.  Of a terminal two things count: the   *)
(* prompt found in the tail of the raw text and the one drawn in the       *)
(* buffer, which stays there after the answer until it scrolls away.       *)
(* Handlers never wait: each is one step, a function of the record w.      *)
(* When the socket goes, so do the sessions of the tab; it comes back, and *)
(* the Hub lists them again and replays what each of them has drawn.       *)
(***************************************************************************)
EXTENDS Integers, Sequences, SequencesExt

CONSTANTS Ids,      \* session numbers
          Shells,   \* plain shells: nothing is detected in them
          Asks,     \* the prompts the CLI of a session may show
          Kind,     \* prompt -> kind
          Risky,    \* prompts with a summary of high risk
          MaxEvent, \* prompts, acts of the user
          MaxLost   \* sockets lost

Prompts == UNION {Asks[i] : i \in Ids}
Kinds == {"marker", "batch", "multi", "yesno", "seq", "native", "questions"}

ASSUME ApprovalsAssumption ==
  /\ Ids \subseteq Nat \ {0} /\ Shells \subseteq Ids /\ {MaxEvent, MaxLost} \subseteq Nat
  /\ Asks \in [Ids -> SUBSET Prompts] /\ Kind \in [Prompts -> Kinds]
  /\ Risky \subseteq {p \in Prompts : Kind[p] = "native"}

MissLimit == 2      \* H9_RESTORE_MISS_LIMIT (3) and BG_APPROVAL_MISS_LIMIT (8), scaled
None == "none"

VARIABLES
  asked, screen,    \* of a CLI: its open prompt, the one drawn in the buffer
  typed,            \* answers on their way to the CLI
  hub,              \* the prompt the Hub has announced and not yet taken back
  s,                \* per session: caches, latches and timers, see Fresh
  sessions, active, \* active = 0 for null
  bar,              \* action bar: whose prompt it shows, and which
  queue,            \* approvalAutoSwitchQueue
  risk,             \* session with a held button or an open confirmation, or 0
  undo,             \* _undoTimer: session of the swiped card waiting to be rejected
  lost,             \* the socket: up, down, or opened and waiting for the snapshot, see Init
  events            \* bound

outer == <<asked, screen, typed, hub, events>>
vars == <<outer, s, sessions, active, bar, queue, risk, undo, lost>>

NoBar == [of |-> 0, p |-> None]
NoSource == [by |-> None, sig |-> None]

Fresh ==
  [tail |-> None,                          \* pendingTextTail
   cache |-> None, go |-> FALSE,           \* approvalRawOptionsCache; options made by the Hub
   src |-> NoSource,                       \* approvalSourceCache
   visible |-> FALSE,                      \* approvalVisibleCache
   consumed |-> None, sigTimer |-> FALSE,  \* approvalConsumedSig and its timer
   answered |-> {},                        \* answeredMarkerSigs
   supp |-> FALSE, rescan |-> FALSE,       \* approvalSuppressUntil and the scan after it
   check |-> FALSE, recheck |-> FALSE,     \* approvalCheckTimers, the look after an answer
   confirm |-> None, trusted |-> FALSE,    \* approvalHintConfirmTimers, ...Trusted
   h9 |-> 0, h9Timer |-> FALSE, bg |-> 0, bgTimer |-> FALSE,
   cand |-> None, ripe |-> FALSE,          \* approvalSwitchCandidates, 700 ms old
   mq |-> FALSE, mqOff |-> FALSE, latch |-> FALSE,   \* multiQuestion caches
   seq |-> 0,                              \* sequentialChoiceCache: answers so far + 1
   hid |-> None,                           \* manualHideSig
   sel |-> None, multi |-> None,           \* the prompt the selections were made for
   attached |-> FALSE, dead |-> FALSE]

Init ==
  /\ sessions = Ids /\ active \in Ids
  /\ asked = [i \in Ids |-> None] /\ screen = asked /\ hub = asked
  /\ typed = [i \in Ids |-> FALSE]
  /\ s = [i \in Ids |-> [Fresh EXCEPT !.attached = i = active]]
  /\ bar = NoBar /\ queue = << >> /\ risk = 0 /\ undo = 0
  /\ lost = [st |-> "up", n |-> 0,
             had |-> {},       \* the sessions of the tab before the socket went
             last |-> 0,       \* _lastActiveSessionIdBeforeDisconnect
             drawn |-> screen] \* what the Hub replays, None for nothing to come
  /\ events = 0

W == [s |-> s, active |-> active, bar |-> bar, queue |-> queue, sessions |-> sessions,
      typed |-> typed, left |-> FALSE]
Become(next) ==
  \E w \in {next} :
    /\ s' = w.s /\ active' = w.active /\ bar' = w.bar /\ queue' = w.queue
    /\ sessions' = w.sessions /\ typed' = w.typed
Happens == events < MaxEvent /\ events' = events + 1

IsA(p, kinds) == p # None /\ Kind[p] \in kinds
Markers == {"marker", "batch", "multi"}
IsAIProvider(i) == i \notin Shells

-----------------------------------------------------------------------------
(* approval-ui.ts and the helpers of approval.ts, on the record x of one    *)
(* session or on w.                                                         *)

CancelApprovalHintConfirm(x) ==
  IF x.confirm = None THEN x ELSE [x EXCEPT !.confirm = None, !.trusted = FALSE]
ResetBgApprovalMisses(x) == [x EXCEPT !.bg = 0, !.bgTimer = FALSE]
CacheApprovalOptions(x, p, go) ==
  [x EXCEPT !.cache = p, !.go = go, !.src = IF go THEN @ ELSE NoSource]
ClearApprovalOptions(x) == [x EXCEPT !.cache = None, !.go = FALSE, !.src = NoSource]
ForgetConsumed(x) == [x EXCEPT !.consumed = None, !.sigTimer = FALSE]
CancelH9(x) == [x EXCEPT !.h9 = 0, !.h9Timer = FALSE]
CachedOnScreen(i, x) == screen[i] = x.cache

ScheduleApprovalHintConfirm(x, p) ==
  [CancelApprovalHintConfirm(ResetBgApprovalMisses(x)) EXCEPT !.confirm = p]

(* Every question but a multi-select becomes sections of the bar, whosever  *)
(* it was.  What was selected in a batch is reset when the number of its    *)
(* sections changes; batches have as many here.                             *)
ShowBatchActionBar(w, i, p) == [w EXCEPT !.bar = [of |-> i, p |-> p]]

(* showActionBar: nothing while the user hides this very prompt.            *)
ShowActionBar(w, i, p) ==
  IF w.s[i].hid = p THEN w ELSE ShowBatchActionBar([w EXCEPT !.s[i].hid = None], i, p)

ShowOptions(w, i, p, go) ==
  ShowActionBar([w EXCEPT !.s[i] = CacheApprovalOptions(@, p, go)], i, p)

(* setApprovalVisible without the automatic switch.                        *)
Shown(w, i, v) ==
  [w EXCEPT !.s[i].visible = v,
            !.queue = IF v THEN @ ELSE RemoveFirst(@, i)]      \* it is queued once

(* hideActionBar, up to its last line.  The bar goes whoever owns it.       *)
HideBar(w, i) ==
  LET x == [CancelH9(ResetBgApprovalMisses(CancelApprovalHintConfirm(w.s[i]))) EXCEPT
              !.hid = None, !.cand = None, !.ripe = FALSE, !.seq = 0,
              !.sel = None, !.multi = None, !.sigTimer = TRUE]
      hidden == [w EXCEPT !.bar = NoBar, !.s[i] = x]
  IN  IF ~x.visible THEN hidden
      ELSE [Shown(hidden, i, FALSE) EXCEPT !.s[i] = [ClearApprovalOptions(@) EXCEPT !.tail = None]]

(* detectApproval on the session in front.  t is the prompt in the tail,    *)
(* b the one in the buffer; left says that the bar was closed.              *)
FirstSight(w, i, p) ==
  LET shown == ShowOptions(w, i, p, FALSE)
  IN  IF w.s[i].visible THEN shown
      ELSE Shown([shown EXCEPT !.s[i] = CancelApprovalHintConfirm(@)], i, TRUE)

Buffer(i, x) == IF x.attached THEN screen[i] ELSE None

SequentialIn(t, b) ==      \* extractSequentialChoicePrompts: not next to a marker
  IF IsA(b, {"seq"}) THEN b ELSE IF IsA(t, {"seq"}) /\ ~ IsA(b, Markers) THEN t ELSE None

Sequential(x) == [x EXCEPT !.seq = IF @ = 0 THEN 1 ELSE @]

Triggered(p) == IsA(p, {"native"})    \* matchProviderApprovalTrigger, then the choices

NativeIn(x, b) ==          \* the buffer only helps while a prompt is on show
  IF Triggered(x.tail) THEN x.tail ELSE IF x.visible /\ Triggered(b) THEN b ELSE None

GoNativeActive(x) == x.src.by = "go" /\ x.visible

Close(w, i) == [HideBar(w, i) EXCEPT !.left = TRUE]

NoPromptKeepsBar(w, i) ==  \* mutant: the bar is restored whatever the buffer shows
  LET x == w.s[i] IN
  IF ~ x.visible \/ x.cache = None THEN Close(w, i)
  ELSE ShowOptions([w EXCEPT !.s[i] = CancelH9(@)], i, x.cache, x.go)

NoPrompt(w, i) ==          \* restore the bar from the cache while its options are drawn
  LET x == w.s[i] IN
  IF ~ x.visible \/ x.cache = None THEN Close(w, i)
  ELSE IF ~ x.attached \/ CachedOnScreen(i, x)
  THEN ShowOptions([w EXCEPT !.s[i] = CancelH9(@)], i, x.cache, x.go)
  ELSE IF x.h9 + 1 < MissLimit
  THEN ShowOptions([w EXCEPT !.s[i].h9 = @ + 1, !.s[i].h9Timer = TRUE], i, x.cache, x.go)
  ELSE Close([w EXCEPT !.s[i] = CancelH9(@)], i)

NativePrompt(w, i, f) ==
  LET x == w.s[i]
      other == x.visible /\ x.cache # None /\ ~ IsA(x.cache, {"batch"}) /\ x.cache # f
      y == IF other THEN CacheApprovalOptions(x, f, FALSE) ELSE x
      z == [CancelH9(y) EXCEPT !.cand = IF x.visible THEN None ELSE @,
                               !.ripe = IF x.visible THEN FALSE ELSE @]
      shown == ShowActionBar([w EXCEPT !.s[i] = z], i, f)
  IN  IF f = x.consumed THEN Close([w EXCEPT !.s[i].sigTimer = TRUE], i)
      ELSE IF other /\ x.cand # f      \* anti-flicker: a new prompt has to last 700 ms
      THEN ShowActionBar([w EXCEPT !.s[i].cand = f, !.s[i].ripe = FALSE], i, x.cache)
      ELSE IF other /\ ~ x.ripe THEN ShowActionBar(w, i, x.cache)
      ELSE IF x.visible THEN shown
      ELSE Shown([shown EXCEPT !.s[i] = CancelApprovalHintConfirm(@)], i, TRUE)

DetectPrompt(w, i) ==
  LET x == w.s[i]
      t == x.tail
      b == Buffer(i, x)
      plain == [w EXCEPT !.s[i].seq = 0]
  IN  IF IsA(t, Markers \cup {"yesno"})
      THEN IF t \in x.answered \/ x.src = [by |-> "hub", sig |-> t] \/ x.consumed = t THEN w
           ELSE FirstSight([w EXCEPT !.s[i] = ForgetConsumed(@)], i, t)
      ELSE IF SequentialIn(t, b) # None
      THEN FirstSight([w EXCEPT !.s[i] = Sequential(@)], i, SequentialIn(t, b))
      ELSE IF GoNativeActive(x) /\ x.cache # None THEN ShowOptions(plain, i, x.cache, x.go)
      ELSE IF NativeIn(x, b) = None THEN NoPrompt(plain, i)
      ELSE NativePrompt(plain, i, NativeIn(x, b))

DetectInFront(w, i) ==
  LET x == w.s[i]
      form == [w EXCEPT !.bar = NoBar, !.s[i].latch = TRUE, !.s[i].mq = TRUE,
                        !.s[i].multi = None]
      asking == IsA(x.tail, {"questions"}) \/ IsA(Buffer(i, x), {"questions"})
  IN  IF i # w.active \/ ~ IsAIProvider(i) THEN w
      ELSE IF x.supp THEN [w EXCEPT !.s[i].rescan = TRUE]
      ELSE IF asking /\ ~ x.mqOff /\ ~ (x.visible /\ x.cache # None)
      THEN IF x.mq THEN form ELSE Shown(form, i, TRUE)
      ELSE IF asking THEN DetectPrompt([w EXCEPT !.s[i].latch = TRUE, !.s[i].mq = FALSE], i)
      ELSE IF x.mq /\ x.latch THEN w
      ELSE IF x.mq
      THEN DetectPrompt(Shown([w EXCEPT !.s[i].mq = FALSE, !.s[i].mqOff = FALSE], i, FALSE), i)
      ELSE DetectPrompt(w, i)

(* activateSession, and maybeAutoSwitchToNextApproval, which runs at the    *)
(* end of many handlers but not inside itself.                              *)
ToFront(w, i) ==
  DetectInFront([w EXCEPT !.active = i, !.s[i].attached = TRUE, !.s[i].check = TRUE], i)

AutoSwitchEarly(w) ==      \* mutant: a pending prompt does not hold the focus
  LET good == {n \in DOMAIN w.queue : /\ w.queue[n] \in w.sessions \ {w.active}
                                      /\ w.s[w.queue[n]].visible}
  IN  IF w.active = 0 THEN w
      ELSE IF good = {} THEN [w EXCEPT !.queue = << >>]
      ELSE LET n == Min(good)
           IN  [ToFront([w EXCEPT !.queue = SubSeq(@, n + 1, Len(@))], w.queue[n])
                  EXCEPT !.left = FALSE]

MaybeAutoSwitch(w) ==
  LET good == {n \in DOMAIN w.queue : /\ w.queue[n] \in w.sessions \ {w.active}
                                      /\ w.s[w.queue[n]].visible}
  IN  IF w.active = 0 \/ w.bar # NoBar THEN w
      ELSE IF w.s[w.active].visible THEN w
      ELSE IF good = {} THEN [w EXCEPT !.queue = << >>]
      ELSE LET n == Min(good)
           IN  [ToFront([w EXCEPT !.queue = SubSeq(@, n + 1, Len(@))], w.queue[n])
                  EXCEPT !.left = FALSE]

EnqueueApprovalAutoSwitch(w, i) ==
  IF i = w.active \/ i \notin w.sessions THEN w
  ELSE MaybeAutoSwitch([w EXCEPT !.queue = IF i \in ToSet(@) THEN @ ELSE Append(@, i)])

SetApprovalVisible(w, i, v) ==
  LET shown == Shown(w, i, v)
  IN  IF w.s[i].visible = v THEN w
      ELSE IF v THEN EnqueueApprovalAutoSwitch(shown, i) ELSE shown

HideActionBar(w, i) == MaybeAutoSwitch(HideBar(w, i))
DetectApproval(w, i) ==
  LET found == DetectInFront(w, i)
  IN  IF found.left THEN MaybeAutoSwitch([found EXCEPT !.left = FALSE]) ELSE found
Activate(w, i) ==
  LET found == ToFront(w, i)
  IN  IF found.left THEN MaybeAutoSwitch([found EXCEPT !.left = FALSE]) ELSE found

-----------------------------------------------------------------------------
(* trackApprovalHintFromChunk, for every session that prints.               *)
TrackNative(w, i, f) ==
  LET x == w.s[i]
      y == ResetBgApprovalMisses(x)
      keep == x.visible /\ x.cache # None /\ ~ IsA(x.cache, {"batch"}) /\ x.cache # f
      z == IF keep THEN y ELSE CacheApprovalOptions(y, f, FALSE)
  IN  IF x.consumed = f THEN [w EXCEPT !.s[i].sigTimer = TRUE]
      ELSE [w EXCEPT !.s[i] = IF x.visible THEN z ELSE ScheduleApprovalHintConfirm(z, f)]

TrackBgApprovalMiss(x) ==
  IF x.tail = x.cache THEN ResetBgApprovalMisses(x)
  ELSE IF x.bg + 1 < MissLimit THEN [x EXCEPT !.bg = @ + 1]
  ELSE [x EXCEPT !.bg = MissLimit, !.bgTimer = TRUE]

TrackNothing(w, i) ==
  LET x == w.s[i]
      y == IF x.trusted THEN x ELSE CancelApprovalHintConfirm(x)
      z == IF x.visible \/ x.trusted THEN y ELSE ClearApprovalOptions(y)
  IN  [w EXCEPT !.s[i] = IF i # w.active /\ x.visible /\ ~ x.trusted /\ x.cache # None
                         THEN TrackBgApprovalMiss(z) ELSE z]

TrackPrompt(w, i) ==
  LET x == w.s[i]
      t == x.tail
      b == Buffer(i, x)
      seq == SequentialIn(t, IF i = w.active \/ IsA(t, {"native"}) THEN b ELSE None)
      found(y, p) == ScheduleApprovalHintConfirm(CacheApprovalOptions(y, p, FALSE), p)
      plain == [w EXCEPT !.s[i].seq = 0]
  IN  IF IsA(t, Markers \cup {"yesno"})
      THEN IF t \in x.answered \/ x.src = [by |-> "hub", sig |-> t] THEN w
           ELSE IF x.consumed = t THEN [w EXCEPT !.s[i].sigTimer = TRUE]
           ELSE [w EXCEPT !.s[i] = found([ForgetConsumed(x) EXCEPT !.trusted = TRUE], t)]
      ELSE IF seq # None THEN [w EXCEPT !.s[i] = found(Sequential(x), seq)]
      ELSE IF GoNativeActive(x) THEN plain
      ELSE IF NativeIn(x, b) = None THEN TrackNothing(plain, i)
      ELSE TrackNative(plain, i, NativeIn(x, b))

TrackApprovalHintFromChunk(w, i) ==
  LET x == w.s[i]
      asking == \/ IsA(x.tail, {"questions"})
                \/ i = w.active /\ IsA(Buffer(i, x), {"questions"})
      cleared == ClearApprovalOptions(CancelApprovalHintConfirm([x EXCEPT !.latch = TRUE]))
  IN  IF x.supp THEN [w EXCEPT !.s[i].rescan = TRUE]
      ELSE IF asking /\ ~ x.mqOff /\ ~ (x.visible /\ x.cache # None)
      THEN IF x.mq THEN [w EXCEPT !.s[i] = cleared]
           ELSE SetApprovalVisible([w EXCEPT !.s[i] = [cleared EXCEPT !.mq = TRUE]], i, TRUE)
      ELSE IF asking THEN TrackPrompt([w EXCEPT !.s[i].latch = TRUE], i)
      ELSE IF x.mq /\ x.latch THEN w
      ELSE TrackPrompt(w, i)

(* A chunk: the text is tracked, and the session in front looked at later.  *)
Heard(i, tail) ==
  LET w == TrackApprovalHintFromChunk([W EXCEPT !.s[i].tail = tail], i)
  IN  IF ~ IsAIProvider(i) THEN W ELSE IF i = active THEN [w EXCEPT !.s[i].check = TRUE] ELSE w

Chunk(i, tail, buffer) ==
  /\ i \in sessions /\ ~ s[i].dead
  /\ screen' = [screen EXCEPT ![i] = buffer]
  /\ Become(Heard(i, tail))
  /\ UNCHANGED <<hub, risk, undo>>

Ask(i, p) ==               \* the CLI asks
  /\ Happens /\ asked[i] = None /\ p \in Asks[i]
  /\ asked' = [asked EXCEPT ![i] = p] /\ Chunk(i, p, p)
Redraw(i) ==               \* ... draws again what is on its screen, answered or not
  /\ screen[i] # None /\ Chunk(i, screen[i], screen[i]) /\ UNCHANGED <<asked, events>>
Prints(i) == i \in sessions /\ ~ s[i].dead /\ asked[i] = None /\ ~ typed[i]
Matters(i) == Prints(i) /\ (screen[i] # None \/ Heard(i, None) # W)
Output(i) ==               \* ... or prints, pushing its old prompt out of sight
  /\ Prints(i) /\ Chunk(i, None, None) /\ UNCHANGED <<asked, events>>
Spinner(i) ==              \* a line moves below the open prompt: the tail loses it
  /\ asked[i] # None /\ Chunk(i, None, screen[i]) /\ UNCHANGED <<asked, events>>
TakesAnswer(i) ==          \* the answer reaches the CLI; it answers no prompt if none is open
  /\ typed[i] /\ typed' = [typed EXCEPT ![i] = FALSE]
  /\ asked' = [asked EXCEPT ![i] = None]
  /\ UNCHANGED <<screen, hub, events, s, sessions, active, bar, queue, risk, undo>>
AnsweredElsewhere(i) ==    \* in the terminal itself, in another tab, or by the policy
  /\ asked[i] # None /\ asked' = [asked EXCEPT ![i] = None]
  /\ UNCHANGED <<screen, typed, hub, events, s, sessions, active, bar, queue, risk, undo>>

-----------------------------------------------------------------------------
(* What the Hub says: approval_detected, approval_marker, approval_cleared. *)
Told(w) == Become(w) /\ UNCHANGED <<asked, screen, risk, undo, events>>

DetectedInFrontOnly(i) ==  \* mutant: the hint of a session in the background is not set
  LET p == asked[i]
      x == CacheApprovalOptions(ResetBgApprovalMisses(CancelApprovalHintConfirm(s[i])), p, TRUE)
      y == [x EXCEPT !.cand = None, !.ripe = FALSE, !.consumed = None,
                     !.src = [by |-> "go", sig |-> p]]
      w == [W EXCEPT !.s[i] = y]
  IN  /\ i \in sessions /\ IsA(p, {"native"}) /\ hub[i] = None
      /\ hub' = [hub EXCEPT ![i] = p]
      /\ Told(IF i = w.active THEN ShowOptions(SetApprovalVisible(w, i, TRUE), i, p, TRUE) ELSE w)

HandleGoApprovalDetected(i) ==
  LET p == asked[i]
      x == CacheApprovalOptions(ResetBgApprovalMisses(CancelApprovalHintConfirm(s[i])), p, TRUE)
      y == [x EXCEPT !.cand = None, !.ripe = FALSE, !.consumed = None,
                     !.src = [by |-> "go", sig |-> p]]
      w == SetApprovalVisible([W EXCEPT !.s[i] = y], i, TRUE)
  IN  /\ i \in sessions /\ IsA(p, {"native"}) /\ hub[i] = None
      /\ hub' = [hub EXCEPT ![i] = p]
      /\ Told(IF i = w.active THEN ShowOptions(w, i, p, TRUE) ELSE w)

HandleHubApprovalMarker(i) ==
  LET p == asked[i]
      x == CacheApprovalOptions(ResetBgApprovalMisses(CancelApprovalHintConfirm(
             ForgetConsumed(s[i]))), p, FALSE)
      y == [x EXCEPT !.cand = None, !.ripe = FALSE, !.src = [by |-> "hub", sig |-> p]]
      w == SetApprovalVisible([W EXCEPT !.s[i] = y], i, TRUE)
  IN  /\ i \in sessions /\ IsA(p, Markers) /\ hub[i] = None
      /\ hub' = [hub EXCEPT ![i] = p]
      /\ Told(IF p \in s[i].answered \/ s[i].consumed = p THEN W
              ELSE IF i = w.active THEN ShowOptions(w, i, p, FALSE) ELSE w)

HandleGoApprovalCleared(i) ==
  LET x == ResetBgApprovalMisses(CancelApprovalHintConfirm(ClearApprovalOptions(s[i])))
      y == [x EXCEPT !.cand = None, !.ripe = FALSE]
      w == SetApprovalVisible([W EXCEPT !.s[i] = y], i, FALSE)
  IN  /\ i \in sessions /\ hub[i] # None /\ asked[i] # hub[i]
      /\ hub' = [hub EXCEPT ![i] = None]
      /\ Told(IF IsA(hub[i], Markers) \/ s[i].src # [by |-> "go", sig |-> hub[i]] THEN W
              ELSE IF i = active THEN HideActionBar(w, i) ELSE w)

-----------------------------------------------------------------------------
(* Timers.                                                                  *)
Later2(w) == Become(w) /\ UNCHANGED <<asked, screen, hub, events>>
Later(w) == Later2(w) /\ UNCHANGED <<risk, undo>>

ConfirmFires(i) ==         \* 350 ms after a sighting, if it is still what is remembered
  LET p == s[i].confirm
      w == [W EXCEPT !.s[i].confirm = None, !.s[i].trusted = FALSE]
      v == SetApprovalVisible(w, i, TRUE)
  IN  /\ p # None
      /\ Later(IF s[i].cache # p THEN w
               ELSE IF i = v.active THEN ShowOptions(v, i, p, s[i].go) ELSE v)

BgSettles(i) ==
  LET w == [W EXCEPT !.s[i] = ResetBgApprovalMisses(@)]
  IN  /\ s[i].bgTimer
      /\ Later(IF ~ s[i].visible \/ i = active THEN w
               ELSE SetApprovalVisible([w EXCEPT !.s[i] = ClearApprovalOptions(@)], i, FALSE))

CheckFires(i) ==
  s[i].check /\ Later(DetectApproval([W EXCEPT !.s[i].check = FALSE], i))
H9Fires(i) ==
  s[i].h9Timer /\ Later(DetectApproval([W EXCEPT !.s[i].h9Timer = FALSE], i))
RescanFires(i) ==
  /\ s[i].rescan /\ ~ s[i].supp
  /\ Later(MaybeAutoSwitch(DetectApproval([W EXCEPT !.s[i].rescan = FALSE], i)))
RecheckFires(i) ==
  s[i].recheck /\ Later(MaybeAutoSwitch(DetectApproval([W EXCEPT !.s[i].recheck = FALSE], i)))

Passes(i) ==               \* the windows that only close with time
  \/ s[i].supp /\ Later([W EXCEPT !.s[i].supp = FALSE])
  \/ s[i].sigTimer /\ Later([W EXCEPT !.s[i] = ForgetConsumed(@)])
  \/ s[i].latch /\ Later([W EXCEPT !.s[i].latch = FALSE])
  \/ s[i].cand # None /\ ~ s[i].ripe /\ Later([W EXCEPT !.s[i].ripe = TRUE])

-----------------------------------------------------------------------------
(* Answers: the code marks as answered the prompt in the cache, whichever   *)
(* one the user had in front of him.                                        *)
Answer(w, i) ==
  LET p == w.s[i].cache
      x == [w.s[i] EXCEPT !.consumed = IF p = None THEN @ ELSE p,
                          !.answered = IF IsA(p, Markers) THEN @ \cup {p} ELSE @]
      sent == [w EXCEPT !.s[i] = x, !.typed[i] = TRUE]
      hidden == HideActionBar(sent, i)
  IN  [hidden EXCEPT !.s[i].supp = TRUE, !.s[i].recheck = TRUE]

IsHighRiskApprovalSelection(x, n) == x.cache \in Risky /\ x.go /\ n = 1

SendChoice(w, i, n, confirmed) ==
  LET x == w.s[i]
  IN  IF ~ confirmed /\ IsHighRiskApprovalSelection(x, n) THEN w
      ELSE IF x.seq = 1      \* the first of two questions: now ask the second
      THEN ShowOptions([w EXCEPT !.s[i].seq = 2], i, x.cache, FALSE)
      ELSE IF x.seq = 2
      THEN Answer([w EXCEPT !.s[i].seq = 0, !.s[i].mqOff = FALSE, !.s[i].latch = FALSE], i)
      ELSE Answer(w, i)

Act(w) == Happens /\ Become(w) /\ UNCHANGED <<asked, screen, hub>>
Singles == {"marker", "yesno", "seq", "native"}

Click(n) ==                \* a button of the bar, or Enter on it
  /\ bar.of \in sessions /\ IsA(bar.p, Singles)
  /\ Act(SendChoice(W, bar.of, n, FALSE)) /\ UNCHANGED <<risk, undo>>

Sends(w, i) == Act(Answer([w EXCEPT !.s[i].mqOff = FALSE], i)) /\ UNCHANGED <<risk, undo>>

SendSingleFreeText ==
  bar.of \in sessions /\ IsA(bar.p, {"marker"}) /\ Sends(W, bar.of)

Chooses(i, kind) == i = bar.of /\ i \in sessions /\ IsA(bar.p, {kind}) /\ bar.p = s[i].cache

SelectBatchOption(i) ==    \* every question of the batch on show answered, or none again
  /\ Chooses(i, "batch")
  /\ \E chosen \in {bar.p, None} : Later([W EXCEPT !.s[i].sel = chosen])

SendBatchChoices(i) ==     \* from a confirmation that stays open whatever the bar shows
  /\ i \in sessions /\ IsA(s[i].cache, {"batch"}) /\ s[i].sel # None
  /\ Sends(W, i)

ToggleMultiSelectOption(i) ==
  /\ Chooses(i, "multi")
  /\ \E chosen \in {bar.p, None} : Later([W EXCEPT !.s[i].multi = chosen])

SendMultiSelectChoices(i) ==   \* whatever the cache holds by now
  /\ i = bar.of /\ i \in sessions /\ IsA(bar.p, {"multi"}) /\ s[i].multi # None
  /\ Sends([W EXCEPT !.s[i].latch = FALSE], i)

OnCard(i) == i \in sessions /\ s[i].visible /\ IsA(s[i].cache, Singles)

CardClick(i, n) ==         \* a button in the list of pending approvals, or a swipe to the right
  OnCard(i) /\ Act(SendChoice(W, i, n, FALSE)) /\ UNCHANGED <<risk, undo>>

RequestHighRiskConfirmation(i) ==      \* the button is held, or the dialog opens
  /\ OnCard(i) /\ IsHighRiskApprovalSelection(s[i], 1) /\ risk = 0
  /\ risk' = i /\ Act(W) /\ UNCHANGED undo
HighRiskConfirmed(ok) ==
  /\ risk # 0 /\ risk' = 0
  /\ Later2(IF ok /\ risk \in sessions THEN SendChoice(W, risk, 1, TRUE) ELSE W)
  /\ UNCHANGED undo

SwipeReject(i) ==          \* one timer for all cards: the rejection waiting on it is dropped
  /\ OnCard(i) /\ undo' = i /\ Act(W) /\ UNCHANGED risk
UndoGraceEnds(undone) ==
  /\ undo # 0 /\ undo' = 0
  /\ Later2(IF ~ undone /\ undo \in sessions
            THEN SendChoice(W, undo, 2, FALSE) ELSE W)
  /\ UNCHANGED risk

DoSend(record) ==          \* a message from the input field, or a quick command
  LET i == active
      x == s[i]
      y == [x EXCEPT !.consumed = IF x.cache = None THEN @ ELSE x.cache, !.mqOff = FALSE,
                     !.latch = FALSE,
                     !.answered = IF record /\ IsA(x.cache, Markers) THEN @ \cup {x.cache} ELSE @]
      w == HideActionBar([W EXCEPT !.s[i] = y, !.typed[i] = TRUE], i)
  IN  /\ i # 0
      /\ Act([w EXCEPT !.s[i].supp = TRUE, !.s[i].recheck = TRUE]) /\ UNCHANGED <<risk, undo>>

-----------------------------------------------------------------------------
(* The other controls of the bar, sessions.                                 *)
Control(w) == Act(w) /\ UNCHANGED <<risk, undo>>

ManuallyHideActionBar ==
  /\ active # 0
  /\ Control([W EXCEPT !.bar = NoBar,
                       !.s[active].hid = IF s[active].cache = None THEN @ ELSE s[active].cache])
ReshowActionBar ==
  active # 0 /\ Control(DetectApproval([W EXCEPT !.s[active].hid = None], active))
Dismiss ==                 \* the cross on the bar
  /\ bar.of \in sessions
  /\ LET w == HideActionBar(W, bar.of) IN Control([w EXCEPT !.s[bar.of].supp = TRUE])
ToggleActionBarCollapsed ==
  /\ bar.of \in sessions /\ s[bar.of].cache # None
  /\ Control(ShowActionBar(W, bar.of, s[bar.of].cache))
CloseBanner ==
  /\ active # 0 /\ s[active].mq
  /\ LET w == [W EXCEPT !.s[active].mqOff = TRUE, !.s[active].mq = FALSE, !.s[active].latch = FALSE]
     IN  Control(IF s[active].visible /\ s[active].cache = None
                 THEN SetApprovalVisible(w, active, FALSE) ELSE w)

ActivateSession(i) == i \in sessions \ {active} /\ Control(Activate(W, i))

SessionEnd(i) ==
  LET x == [CancelApprovalHintConfirm(s[i]) EXCEPT !.mq = FALSE, !.latch = FALSE, !.dead = TRUE]
  IN  /\ i \in sessions /\ ~ s[i].dead /\ Happens
      /\ asked' = [asked EXCEPT ![i] = None]
      /\ Become(MaybeAutoSwitch([Shown([W EXCEPT !.s[i] = x], i, FALSE) EXCEPT !.typed[i] = FALSE]))
      /\ UNCHANGED <<screen, hub, risk, undo>>

(* What removeLocalSession leaves behind: a Hub that restarts gives the      *)
(* number to another session.                                               *)
Removed(x) ==
  [Fresh EXCEPT !.recheck = x.recheck, !.h9 = x.h9, !.h9Timer = x.h9Timer, !.bg = x.bg,
                !.bgTimer = x.bgTimer, !.cand = x.cand, !.ripe = x.ripe, !.hid = x.hid,
                !.multi = x.multi, !.dead = TRUE]

RemoveLocalSession(i) ==   \* dismissed, ended or removed
  LET gone == [Shown(W, i, FALSE) EXCEPT !.s[i] = Removed(s[i]), !.sessions = @ \ {i}]
  IN  /\ i \in sessions /\ IF s[i].dead THEN UNCHANGED events ELSE Happens
      /\ Become(IF i # active THEN MaybeAutoSwitch(gone)
                ELSE LET w == [gone EXCEPT !.active = 0, !.bar = NoBar]
                     IN  IF w.sessions = {} THEN w
                         ELSE Activate(w, CHOOSE j \in w.sessions : TRUE))
      /\ UNCHANGED <<asked, screen, hub, risk, undo>>

Forgotten(x) ==
  [x EXCEPT !.tail = None, !.visible = FALSE, !.mq = FALSE, !.mqOff = FALSE, !.latch = FALSE,
            !.seq = 0, !.cache = None, !.go = FALSE, !.src = NoSource, !.consumed = None,
            !.sigTimer = FALSE, !.answered = {}, !.cand = None, !.ripe = FALSE, !.sel = None,
            !.supp = FALSE]

ResetLocalSessionHistory(i) ==     \* what was answered is not forgotten
  LET w == [Shown(W, i, FALSE) EXCEPT !.s[i] = [Forgotten(@) EXCEPT !.answered = s[i].answered]]
  IN  /\ i \in sessions /\ Happens
      /\ Become(IF i = active THEN [w EXCEPT !.bar = NoBar] ELSE w)
      /\ screen' = [screen EXCEPT ![i] = None]
      /\ UNCHANGED <<asked, hub, risk, undo>>

-----------------------------------------------------------------------------
(* The socket.  The sessions and the one in front go with it; the queue and *)
(* what is kept of the sessions go only when it is open again, and the      *)
(* sessions come back with the snapshot.  What their CLIs ask and the Hub   *)
(* detects meanwhile, with nobody told, is put at the end of that time.     *)
SocketLost ==
  /\ lost.st # "down" /\ lost.n < MaxLost
  /\ events' = IF events < MaxEvent THEN events + 1 ELSE events   \* the bounds are shared
  /\ lost' = [st |-> "down", n |-> lost.n + 1,
              had |-> IF lost.st = "up" THEN sessions ELSE lost.had,
              last |-> IF active = 0 THEN lost.last ELSE active,
              drawn |-> [i \in Ids |-> IF lost.drawn[i] = None THEN screen[i] ELSE lost.drawn[i]]]
  /\ sessions' = {} /\ active' = 0 /\ bar' = NoBar
  /\ typed' = [i \in Ids |-> FALSE]       \* what is not there yet is lost
  /\ UNCHANGED <<asked, screen, hub, s, queue, risk, undo>>

ReopenedKeepsQueue ==      \* mutant: resetAllLocalSessionHistory leaves the queue
  /\ lost.st = "down" /\ lost' = [lost EXCEPT !.st = "opened"]
  /\ s' = [i \in Ids |-> Forgotten(s[i])]
  /\ screen' = [i \in Ids |-> None] /\ bar' = NoBar
  /\ UNCHANGED <<asked, typed, hub, events, sessions, active, queue, risk, undo>>

Reopened ==                \* resetAllLocalSessionHistory
  /\ lost.st = "down" /\ lost' = [lost EXCEPT !.st = "opened"]
  /\ s' = [i \in Ids |-> Forgotten(s[i])]
  /\ screen' = [i \in Ids |-> None] /\ queue' = << >> /\ bar' = NoBar
  /\ UNCHANGED <<asked, typed, hub, events, sessions, active, risk, undo>>

AsksUnseen(i, p) ==
  /\ Happens /\ lost.st = "opened" /\ i \in lost.had /\ ~ s[i].dead
  /\ asked[i] = None /\ p \in Asks[i] /\ asked' = [asked EXCEPT ![i] = p]
  /\ lost' = [lost EXCEPT !.drawn[i] = p]
  /\ UNCHANGED <<screen, typed, hub, s, sessions, active, bar, queue, risk, undo>>

(* Some sessions are gone.  When another Hub sends the snapshot, the tab    *)
(* forgets them all first, and that Hub has announced nothing; the same Hub *)
(* has announced what is asked, and taken back what is not.                 *)
Snapshot(present, another) ==
  LET x(i) == IF ~ another THEN s[i]
              ELSE [Removed(s[i]) EXCEPT !.dead = i \notin present]
      w == [W EXCEPT !.s = [i \in Ids |-> x(i)], !.sessions = present]
      known(i) == IF IsA(asked[i], Markers \cup {"native"}) THEN asked[i] ELSE None
  IN  /\ lost.st = "opened" /\ present \subseteq {i \in lost.had : ~ s[i].dead}
      /\ lost' = [lost EXCEPT !.st = "up", !.had = {},
                              !.drawn = [i \in Ids |-> IF i \in present THEN @[i] ELSE None]]
      /\ Become(IF lost.last \in present THEN Activate(w, lost.last) ELSE w)
      /\ hub' = [i \in Ids |-> IF another THEN None ELSE known(i)]
      /\ UNCHANGED <<asked, screen, events, risk, undo>>

Replay(i) ==               \* the prompt is at the end of it, or further up
  /\ lost.st = "up" /\ lost.drawn[i] # None
  /\ lost' = [lost EXCEPT !.drawn[i] = None]
  /\ \E tail \in {lost.drawn[i], None} : Chunk(i, tail, lost.drawn[i])
  /\ UNCHANGED <<asked, events>>

Socket ==
  \/ SocketLost \/ Reopened
  \/ \E present \in SUBSET Ids, another \in BOOLEAN : Snapshot(present, another)
  \/ \E i \in Ids : Replay(i) \/ \E p \in Prompts : AsksUnseen(i, p)

-----------------------------------------------------------------------------
Cli(i) ==
  \/ \E p \in Prompts : Ask(i, p)
  \/ Redraw(i) \/ Output(i) \/ Spinner(i) \/ TakesAnswer(i) \/ AnsweredElsewhere(i)
Announced(i) == HandleGoApprovalDetected(i) \/ HandleHubApprovalMarker(i) \/ HandleGoApprovalCleared(i)
Timers(i) ==
  \/ ConfirmFires(i) \/ BgSettles(i) \/ CheckFires(i) \/ H9Fires(i)
  \/ RescanFires(i) \/ RecheckFires(i) \/ Passes(i)
User ==
  \/ \E n \in 1 .. 2 : Click(n) \/ \E i \in Ids : CardClick(i, n)
  \/ SendSingleFreeText \/ ManuallyHideActionBar \/ ReshowActionBar
  \/ Dismiss \/ ToggleActionBarCollapsed \/ CloseBanner
  \/ \E i \in Ids : \/ SelectBatchOption(i) \/ SendBatchChoices(i) \/ SwipeReject(i)
                    \/ ToggleMultiSelectOption(i) \/ SendMultiSelectChoices(i)
                    \/ RequestHighRiskConfirmation(i) \/ ActivateSession(i)
                    \/ SessionEnd(i) \/ RemoveLocalSession(i) \/ ResetLocalSessionHistory(i)
  \/ \E ok \in BOOLEAN : HighRiskConfirmed(ok) \/ UndoGraceEnds(ok) \/ DoSend(ok)

Page == User \/ \E i \in Ids : Cli(i) \/ Announced(i) \/ Timers(i)

(* The replay follows the snapshot on the same socket, at once.             *)
Settled == lost.st = "up" => \A i \in Ids : lost.drawn[i] = None
Next == (Settled /\ Page /\ UNCHANGED lost) \/ Socket
Spec == Init /\ [][Next]_vars

(* Weak fairness with the guards written out: a CLI whose prompt is gone    *)
(* prints on; the Hub detects and takes back; timers fire; a lost socket    *)
(* comes back, with what the Hub replays.                                   *)
Fairness ==
  []<>(lost.st = "up") /\
  \A i \in Ids :
    /\ []<>~(i \in sessions /\ ~ s[i].dead /\ lost.drawn[i] # None)
    /\ []<>~Matters(i) \/ []<><<Output(i)>>_vars
    /\ []<>~typed[i]
    /\ []<>~(i \in sessions /\ IsA(asked[i], Markers \cup {"native"}) /\ hub[i] = None)
    /\ []<>~(i \in sessions /\ hub[i] # None /\ asked[i] # hub[i])
    /\ []<>(s[i].confirm = None) /\ []<>~s[i].bgTimer /\ []<>~s[i].check
    /\ []<>~s[i].h9Timer /\ []<>~(s[i].rescan /\ ~ s[i].supp) /\ []<>~s[i].recheck
    /\ []<>~s[i].supp /\ []<>~s[i].sigTimer /\ []<>~s[i].latch
    /\ []<>(s[i].cand = None \/ s[i].ripe)
FairSpec == Spec /\ Fairness

(* The source kept for a prompt is the source of the prompt in the cache:   *)
(* what the Hub said of an older prompt never decides whether a newer one   *)
(* is shown or cleared (handleGoApprovalCleared, detectApproval).           *)
SourceMatchesCache == \A i \in sessions : s[i].src # NoSource => s[i].src.sig = s[i].cache

(* approvalAutoSwitchQueue only holds sessions that still wait for an       *)
(* answer, through every way a prompt or a session can go.  A lost socket   *)
(* takes the sessions away and leaves the queue (ws-client.ts:224-256): it  *)
(* then holds sessions the tab had, and none once the socket is open again. *)
Known == IF lost.st = "down" THEN lost.had ELSE sessions
QueueIsPending == \A n \in DOMAIN queue : queue[n] \in Known /\ s[queue[n]].visible

(* What is kept of the prompts agrees, from their detection to their answer. *)
Bookkeeping == SourceMatchesCache /\ QueueIsPending

(* The automatic switch never takes the screen from a session whose own     *)
(* prompt is still open (maybeAutoSwitchToNextApproval).                    *)
FocusStays ==
  [][ \A i \in sessions' : /\ active = i /\ active' # i
                           /\ ~ \E j \in Ids : ActivateSession(j)
                           => ~ s'[i].visible ]_vars

(* A prompt the Hub detects reaches the user: its session is marked as      *)
(* waiting, in front or not, or the prompt goes first.                      *)
NativeSurfaces ==
  \A i \in Ids : IsA(asked[i], {"native"}) /\ hub[i] = None
                 ~> s[i].visible \/ ~ IsA(asked[i], {"native"}) \/ i \notin sessions

(* A session does not stay marked as waiting once its CLI has gone on: the  *)
(* misses of trackBgApprovalMiss and of the restored bar end it.  (Not so   *)
(* for a form of several questions in the background.)                      *)
HintsEnd ==
  \A i \in Ids : []<>~(s[i].visible /\ asked[i] = None /\ ~ s[i].mq /\ ~ s[i].dead)

=============================================================================

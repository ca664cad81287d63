------------------------------- MODULE Compose -------------------------------
(***************************************************************************)
(* The input field of the tab: what the user types, pastes and attaches    *)
(* for a session, kept aside and brought back when another session becomes *)
(* active, and the way of a message to its session: doSend with the        *)
(* uploads it waits for (app.ts, attachments.ts), the Enter that follows a *)
(* pasted body once the output has settled (deferred-enter.ts) and the     *)
(* sweep of a body that stuck in the line (residue-sweep.ts).              *)
(*                                                                         *)
(* A piece of input is a token that remembers the session it was meant     *)
(* for.  Between two awaits a handler runs alone: it is one step, written  *)
(* as a function of the record of the variables it changes.                *)
(***************************************************************************)
EXTENDS Integers, Sequences, FiniteSets, SequencesExt

CONSTANTS Ids,       \* session numbers
          Shells,    \* those whose provider is a plain shell
          MaxEvent   \* acts of the user, losses of the connection

ASSUME ComposeAssumption ==
  Ids \subseteq Nat \ {0} /\ Shells \subseteq Ids /\ MaxEvent \in Nat

MaxChips == 3              \* stagePastedText keeps three pastes

VARIABLES
  sessions, active,        \* sessions and activeSessionId, 0 for null
  last,                    \* the session to open again after a reconnection
  inp,                     \* input field, paste chips and pending files
  saved,                   \* sessionInputState
  loading,                 \* files whose bytes are being read
  up,                      \* doSendInFlight, and the sends with files to upload
  dialog,                  \* the question of maybeNudgeAiCliLaunchInShell
  composing, pendingSend, endTimer,    \* IME state and composeEndSendTimer
  recent,                  \* lastDoSendAt is less than DOUBLE_SEND_GUARD_MS ago
  deferred,                \* deferred-enter: pending
  sweep,                   \* residue-sweep: pending
  line,                    \* what the CLI of a session holds unconfirmed in its line
  events,                  \* bound
  due, owed            \* history, see the properties

gone == <<sessions, active, last, saved>>
ime  == <<composing, pendingSend, endTimer>>
work == <<inp, up, deferred, sweep, line, recent, due, owed>>
composeVars == <<gone, ime, work, loading, dialog, events>>

None == [n |-> 0]
Kinds == {"text", "key", "chip", "long", "file"}
Token == [by : Ids, n : 0 .. MaxEvent, kind : Kinds]
Empty == [text |-> << >>, pastes |-> << >>, files |-> << >>]
NoSend == [busy |-> FALSE, runs |-> << >>]
Nothing == [stage |-> "none", body |-> << >>]
EnterDue == [stage |-> "enter", body |-> << >>]
Happens == events < MaxEvent /\ events' = events + 1
New(k) == [by |-> active, n |-> events + 1, kind |-> k]

(* The tab starts empty, or with a line typed for every session.            *)
Typed(i) == [Empty EXCEPT !.text = <<[by |-> i, n |-> 0, kind |-> "text"]>>]

ComposeInit ==
  /\ sessions = Ids /\ active \in Ids /\ last = 0
  /\ \/ inp = Empty /\ saved = [i \in Ids |-> None]
     \/ /\ inp = Typed(active)
        /\ saved = [i \in Ids |-> IF i = active THEN None ELSE [n |-> 1, d |-> Typed(i)]]
  /\ loading = {} /\ up = [i \in Ids |-> NoSend] /\ dialog = None
  /\ composing = FALSE /\ pendingSend = FALSE /\ endTimer = FALSE /\ recent = FALSE
  /\ deferred = [i \in Ids |-> Nothing] /\ sweep = {}
  /\ line = [i \in Ids |-> << >>]
  /\ events = 0 /\ due = 0 /\ owed = [i \in Ids |-> 0]

-----------------------------------------------------------------------------
(* Filling the input field.                                                *)

Edit(d) ==                 \* only the draft changes
  /\ inp' = d
  /\ UNCHANGED <<gone, ime, up, deferred, sweep, line, recent, due, owed, dialog>>

Type(k) == active # 0 /\ Edit([inp EXCEPT !.text = Append(@, New(k))]) /\ UNCHANGED loading

StagePaste(k) ==
  /\ active # 0
  /\ LET kept == IF Len(inp.pastes) >= MaxChips THEN Tail(inp.pastes) ELSE inp.pastes
     IN  Edit([inp EXCEPT !.pastes = Append(kept, New(k))])
  /\ UNCHANGED loading

ExpandChip(c) ==
  /\ c \in DOMAIN inp.pastes
  /\ Edit([inp EXCEPT !.text = <<inp.pastes[c]>> \o @, !.pastes = RemoveAt(@, c)])
  /\ UNCHANGED loading

RemoveChip(c) ==
  /\ c \in DOMAIN inp.pastes
  /\ Edit([inp EXCEPT !.pastes = RemoveAt(@, c)]) /\ UNCHANGED loading

StageAttach ==             \* the bytes are awaited ...
  /\ active # 0 /\ loading' = loading \cup {New("file")} /\ Edit(inp)

AttachRead(f) ==           \* ... and land in the input of the session active by then
  /\ f \in loading /\ loading' = loading \ {f}
  /\ \/ Edit([inp EXCEPT !.files = Append(@, f)])
     \/ Edit(inp)          \* too large
  /\ UNCHANGED events

RemoveFile(f) ==
  /\ f \in DOMAIN inp.files
  /\ Edit([inp EXCEPT !.files = RemoveAt(@, f)]) /\ UNCHANGED loading

-----------------------------------------------------------------------------
(* Writing to a session.  p is the record of the variables of "work".       *)

Work == [inp |-> inp, up |-> up, deferred |-> deferred, sweep |-> sweep, line |-> line,
         recent |-> recent, due |-> due, owed |-> owed]

Become(p) ==
  /\ inp' = p.inp /\ up' = p.up /\ deferred' = p.deferred /\ sweep' = p.sweep
  /\ line' = p.line /\ recent' = p.recent /\ due' = p.due /\ owed' = p.owed

SendText(p, i, toks) ==    \* without a connection, or a session, it is lost
  IF i \in sessions THEN [p EXCEPT !.line[i] = @ \o toks] ELSE p
SendEnter(p, i) == IF i \in sessions THEN [p EXCEPT !.line[i] = << >>] ELSE p

(* buildBodySubmitPart: key strokes are sent with their Enter, a body is    *)
(* pasted and its Enter deferred.                                           *)
Raw(i, body) == Len(body) < 2 /\ (i \in Shells \/ \A n \in DOMAIN body : body[n].kind = "key")

CancelDeferredEnter(p, i) == [p EXCEPT !.deferred[i] = Nothing]

ScheduleResidueSweep(p, i, body) ==
  [p EXCEPT !.sweep = IF i \in Shells \/ body = << >> THEN @ \ {i} ELSE @ \cup {i}]

ScheduleDeferredEnter(p, i) ==
  [CancelDeferredEnter(p, i) EXCEPT !.deferred[i] = EnterDue, !.owed[i] = @ + 1]

(* sendSubmittedBody: quick commands and answers in free text.              *)
SendSubmittedBody(p, i, body) ==
  LET q == CancelDeferredEnter(p, i)
      r == IF Raw(i, body) THEN SendEnter(SendText(q, i, body), i)
           ELSE ScheduleDeferredEnter(SendText(q, i, body), i)
  IN  ScheduleResidueSweep(r, i, body)

(* doSend once its uploads have answered inj: the draft is read only now,   *)
(* and the session's lock released, whoever has it by then.                 *)
SubmitDraft(p, i, inj) ==
  LET body  == p.inp.pastes \o p.inp.text
      raw   == Raw(i, body)
      q     == [p EXCEPT !.inp.text = << >>, !.inp.pastes = << >>, !.up[i].busy = FALSE]
      r     == IF raw THEN SendEnter(SendText(q, i, inj \o body), i)
               ELSE IF inj = << >> THEN ScheduleDeferredEnter(SendText(q, i, body), i)
               ELSE [SendText(q, i, inj) EXCEPT !.deferred[i] = [stage |-> "body", body |-> body]]
  IN  ScheduleResidueSweep(r, i, body)

(* The chips at some places of the row, in its order.                       *)
Picked(row, places) ==
  [m \in 1 .. Cardinality(places) |->
     row[CHOOSE n \in places : Cardinality({k \in places : k <= n}) = m]]

LongOnes(row) == {n \in DOMAIN row : row[n].kind = "long"}

(* stageLongPastesAsFiles: from the last chip to the first.                 *)
LongPastes(d) == Reverse(Picked(d.pastes, LongOnes(d.pastes)))

(* Past the lock: pending files are taken out at once, and uploaded one by  *)
(* one; without any the handler runs on.                                    *)
Begin(p, i) ==
  LET todo == p.inp.files \o LongPastes(p.inp)
      q == [p EXCEPT !.recent = TRUE, !.due = @ - 1, !.inp.files = << >>,
                     !.inp.pastes = Picked(@, DOMAIN @ \ LongOnes(@)),
                     !.up[i].busy = TRUE]
  IN  IF todo = << >> THEN SubmitDraft(q, i, << >>)
      ELSE [q EXCEPT !.up[i].runs = Append(@, [todo |-> todo, inj |-> << >>])]

(* doSend: two guards; then the pending Enter is dropped, and only then is  *)
(* the message refused (route, open menu), questioned or begun.             *)
DoSend(p, i) ==
  IF recent \/ up[i].busy THEN Become(p) /\ UNCHANGED dialog
  ELSE LET q == CancelDeferredEnter(p, i)
       IN  \/ Become(q) /\ UNCHANGED dialog
           \/ i \in Shells /\ dialog = None /\ Become(q) /\ dialog' = [n |-> 1, id |-> i]
           \/ ~(dialog # None /\ dialog.id = i) /\ Become(Begin(q, i)) /\ UNCHANGED dialog

Asked == [Work EXCEPT !.due = @ + 1]

Press ==                   \* Enter or the send button; IME: after the composition
  /\ active # 0
  /\ IF composing
     THEN pendingSend' = TRUE /\ Become(Asked) /\ UNCHANGED <<endTimer, dialog>>
     ELSE endTimer' = FALSE /\ pendingSend' = FALSE /\ DoSend(Asked, active)
  /\ UNCHANGED <<gone, composing, loading>>

CompositionStart ==
  /\ ~composing /\ composing' = TRUE
  /\ UNCHANGED <<gone, work, pendingSend, endTimer, loading, dialog>>

CompositionEndKeepsPending ==    \* mutant: the request is not forgotten
  /\ composing /\ composing' = FALSE /\ UNCHANGED pendingSend
  /\ endTimer' = (endTimer \/ pendingSend)
  /\ UNCHANGED <<gone, work, loading, dialog, events>>

CompositionEnd ==
  /\ composing /\ composing' = FALSE /\ pendingSend' = FALSE
  /\ endTimer' = (endTimer \/ pendingSend)
  /\ UNCHANGED <<gone, work, loading, dialog, events>>

EndTimerFires ==
  /\ endTimer /\ endTimer' = FALSE
  /\ IF active = 0 THEN UNCHANGED <<work, dialog>> ELSE DoSend(Work, active)
  /\ UNCHANGED <<gone, composing, pendingSend, loading, events>>

GuardEnds ==
  /\ recent /\ recent' = FALSE
  /\ UNCHANGED <<gone, ime, inp, up, deferred, sweep, line, due, owed, loading, dialog,
                 events>>

AnswerDialog ==            \* a panel is opened instead, or the message goes its way
  /\ dialog # None /\ dialog' = None
  /\ Become(Work) \/ Become(Begin(Work, dialog.id))
  /\ UNCHANGED <<gone, ime, loading, events>>

Upload(i) ==               \* a failed upload is reported and left out
  /\ \E n \in DOMAIN up[i].runs, ok \in BOOLEAN :
       LET run == up[i].runs[n]
           inj == IF ok THEN Append(run.inj, Head(run.todo)) ELSE run.inj
           on  == [Work EXCEPT !.up[i].runs[n] = [todo |-> Tail(run.todo), inj |-> inj]]
       IN  Become(IF Len(run.todo) > 1 THEN on
                  ELSE SubmitDraft([Work EXCEPT !.up[i].runs = RemoveAt(@, n)], i, inj))
  /\ UNCHANGED <<gone, ime, loading, dialog, events>>

QuickCommand(k) ==
  /\ active # 0
  /\ Become(SendSubmittedBody(Work, active, <<New(k)>>))
  /\ UNCHANGED <<gone, ime, loading, dialog>>

InputClear ==              \* the draft's text and the line of the CLI
  /\ active # 0
  /\ Become([Work EXCEPT !.inp.text = << >>,
                         !.line[active] = IF active \in Shells THEN @ ELSE << >>])
  /\ UNCHANGED <<gone, ime, loading, dialog>>

-----------------------------------------------------------------------------
(* Timers.                                                                 *)

FireKeeps(i) ==            \* mutant: the reservation outlives its Enter
  /\ deferred[i] # Nothing
  /\ LET q == IF deferred[i].stage = "enter" THEN Work ELSE CancelDeferredEnter(Work, i)
     IN  Become(IF i \notin sessions THEN q
                ELSE IF deferred[i].stage = "enter"
                THEN [SendEnter(q, i) EXCEPT !.owed[i] = @ - 1]
                ELSE ScheduleDeferredEnter(SendText(q, i, deferred[i].body), i))
  /\ UNCHANGED <<gone, ime, loading, dialog, events>>

Fire(i) ==                 \* the output has settled, or the longest wait is over
  /\ deferred[i] # Nothing
  /\ LET q == CancelDeferredEnter(Work, i)
     IN  Become(IF i \notin sessions THEN q
                ELSE IF deferred[i].stage = "enter"
                THEN [SendEnter(q, i) EXCEPT !.owed[i] = @ - 1]
                ELSE ScheduleDeferredEnter(SendText(q, i, deferred[i].body), i))
  /\ UNCHANGED <<gone, ime, loading, dialog, events>>

SweepFires(i) ==           \* Ctrl+U only when the body is still seen in the line
  /\ i \in sweep /\ deferred[i] = Nothing /\ (i = active \/ i \notin sessions)
  /\ Become([Work EXCEPT !.sweep = @ \ {i}, !.line[i] = IF i \in sessions THEN << >> ELSE @])
  /\ UNCHANGED <<gone, ime, loading, dialog, events>>

SweepGivesUp(i) ==         \* MAX_RETRIES
  /\ i \in sweep /\ (deferred[i] # Nothing \/ i # active)
  /\ Become([Work EXCEPT !.sweep = @ \ {i}])
  /\ UNCHANGED <<gone, ime, loading, dialog, events>>

-----------------------------------------------------------------------------
(* The active session changes.                                             *)

SaveInputStateFor(i) ==
  IF i = 0 THEN [d |-> inp, s |-> saved]
  ELSE [d |-> Empty, s |-> [saved EXCEPT ![i] = [n |-> 1, d |-> inp]]]

RestoreInputStateFor(s, i, d) == IF s[i] = None THEN Empty ELSE s[i].d

ActivateSavesLate(i) ==    \* mutant: the active session is changed before the draft is kept
  LET k == IF active # i THEN SaveInputStateFor(i) ELSE [d |-> inp, s |-> saved]
  IN  /\ active' = i /\ saved' = k.s
      /\ inp' = RestoreInputStateFor(k.s, i, k.d)

(* activateSession: the active session's own draft is not saved, it is      *)
(* brought back from what was saved before.                                 *)
Activate(i) ==
  LET k == IF active # i THEN SaveInputStateFor(active) ELSE [d |-> inp, s |-> saved]
  IN  /\ active' = i /\ saved' = k.s
      /\ inp' = RestoreInputStateFor(k.s, i, k.d)

Same == <<up, deferred, sweep, line, recent, due, owed, ime, loading, dialog>>

Switch(i) ==               \* a card, a notification, the next approval
  /\ i \in sessions /\ Activate(i)
  /\ UNCHANGED <<sessions, last, Same>>

(* removeLocalSession with the clean-up of the session's timers and of its  *)
(* lock, but not of the uploads under way; the card next to it takes its    *)
(* place.                                                                   *)
RemoveSession(i) ==
  /\ i \in sessions /\ sessions' = sessions \ {i}
  /\ deferred' = [deferred EXCEPT ![i] = Nothing] /\ sweep' = sweep \ {i}
  /\ up' = [up EXCEPT ![i].busy = FALSE]
  /\ LET s == [saved EXCEPT ![i] = None]
         others == sessions \ {i}
     IN  IF active # i THEN saved' = s /\ UNCHANGED <<active, inp>>
         ELSE /\ saved' = s
              /\ IF others = {} THEN active' = 0 /\ UNCHANGED inp
                 ELSE \E j \in others : active' = j /\ inp' = RestoreInputStateFor(s, j, inp)
  /\ UNCHANGED <<last, line, recent, due, owed, ime, loading, dialog>>

Disconnect ==              \* onclose: no session, nothing active, the draft stays where it is
  /\ sessions # {} /\ sessions' = {} /\ active' = 0
  /\ last' = IF active = 0 THEN last ELSE active
  /\ UNCHANGED <<inp, saved, Same>>

Reconnect ==               \* onopen and snapshot: the last session is opened again
  /\ sessions = {} /\ sessions' = Ids
  /\ \E i \in Ids : (last # 0 => i = last) /\ Activate(i)
  /\ UNCHANGED <<last, Same>>

-----------------------------------------------------------------------------
User ==
  /\ Happens
  /\ \/ /\ dialog = None
        /\ \/ \E k \in {"text", "key"} : Type(k) \/ QuickCommand(k)
           \/ \E k \in {"chip", "long"} : StagePaste(k)
           \/ \E c \in 1 .. MaxChips : ExpandChip(c) \/ RemoveChip(c) \/ RemoveFile(c)
           \/ StageAttach \/ Press \/ CompositionStart \/ InputClear
     \/ \E i \in Ids : Switch(i) \/ RemoveSession(i)
     \/ Disconnect

Timers == \E i \in Ids : Fire(i) \/ SweepFires(i) \/ SweepGivesUp(i)
Answers == \/ \E i \in Ids : Upload(i)
           \/ \E f \in loading : AttachRead(f)

ComposeNext == User \/ Timers \/ Answers \/ AnswerDialog \/ CompositionEnd \/ EndTimerFires
        \/ GuardEnds \/ (Reconnect /\ UNCHANGED events)

ComposeSpec == ComposeInit /\ [][ComposeNext]_composeVars

-----------------------------------------------------------------------------
(* The text and the chips in the input field, and those kept for a session,
   are those the user made for that session: neither a switch, a removal, a
   reconnection nor a message under way moves a draft to another session
   (saveInputStateFor, restoreInputStateFor). *)
Texts(d) == {d.text[n] : n \in DOMAIN d.text} \cup {d.pastes[n] : n \in DOMAIN d.pastes}
DraftsStayHome ==
  /\ active # 0 => \A t \in Texts(inp) : t.by = active
  /\ \A i \in Ids : saved[i] # None => \A t \in Texts(saved[i].d) : t.by = i

(* No more Enters are fired than bodies were pasted: a stray Enter would
   confirm whatever the CLI asks next (deferred-enter.ts 12-13). *)
OneEnterPerBody == \A i \in Ids : owed[i] >= IF deferred[i].stage = "enter" THEN 1 ELSE 0

(* No message is sent that the user did not ask for: IME composition, its
   timer, the question for shells and the button never send twice on one
   request; a second, empty message would be a bare Enter. *)
NoUnaskedSend == due >= 0

=============================================================================

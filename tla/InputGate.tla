------------------------------ MODULE InputGate ------------------------------
(***************************************************************************)
(* The path of keyboard input from the Hub to the wrapper of ONE session   *)
(* (src/internal/hub/input_gate.go), with the goroutines that use it:      *)
(*   - Senders: handleInput and injectRaw, one goroutine per UI connection *)
(*     or notice, each handling one input at a time;                       *)
(*   - Injector: injectInitialPrompt, which retries the initial prompt of  *)
(*     an orchestration session behind a gate that holds user input back;  *)
(*   - Flushers: the flushPendingInput goroutines that reattachLoop starts.*)
(*                                                                         *)
(* sessionsMu protects single steps, so an action is one critical section  *)
(* of it.  inputMu is held across several steps and is modelled.  Every    *)
(* (re)registration creates a new session object, a new inputMu and a new  *)
(* wrapperConn: all three carry the same epoch number.                     *)
(***************************************************************************)
EXTENDS Naturals, Sequences, FiniteSets

CONSTANTS
  Senders, Injector, Flushers, Nobody,
  Pastes,          \* user inputs sent as paste body, pause, carriage return
  Lines,           \* user inputs sent in a single write
  Prompts,         \* the attempts of the initial prompt, one tag per attempt:
                   \* Cardinality(Prompts) is orchestrationInjectMaxAttempts
  MaxPending,      \* maxPendingInputPerSession (100 in the code)
  MaxEpoch,        \* bound: number of (re)registrations explored
  Faults           \* which of "loss", "reattach", "dismiss", "expiry" occur

Threads == Senders \cup Flushers \cup {Injector}
UserInputs == Pastes \cup Lines
Inputs == UserInputs \cup Prompts
Epochs == 1 .. MaxEpoch

ASSUME BoundsAssumption == MaxPending \in Nat \ {0} /\ MaxEpoch \in Nat \ {0}
ASSUME ThreadsAssumption ==
  /\ Injector \notin Senders \cup Flushers
  /\ Senders \cap Flushers = {}
  /\ Nobody \notin Threads
ASSUME InputsAssumption == Prompts \cap UserInputs = {} /\ Pastes \cap Lines = {}
ASSUME EnvironmentAssumption ==
  Faults \subseteq {"loss", "reattach", "dismiss", "expiry"}

VARIABLES
  ses,        \* epoch of sessions[id], 0 when the session is gone
  reg,        \* epoch of wrappers[id], 0 when no wrapper is registered
  made,       \* epochs created so far
  link,       \* state of each epoch's connection
  gate,       \* initialInjectPending and its age, per session object
  inputMu,    \* who holds the input lock of each session object
  pending,    \* pendingInput[id]
  pc, mode,   \* where each goroutine is, and in which function
  obj, wc,    \* the session object and the connection it captured
  batch,      \* the inputs it still has to write
  submitted,  \* inputs handed to the Hub so far
  written,    \* history: every piece a successful send handed to a socket
  dropped,    \* history: inputs evicted at the limit
  discarded,  \* history: inputs given up because the session was gone
  strayed,    \* history: since the lock of the present session object was last
              \* taken, a goroutine has used the queue under a replaced one
  late        \* history: what waits was left, after the flush of the present
              \* connection, by a goroutine that had not seen that connection

vars == <<ses, reg, made, link, gate, inputMu, pending, pc, mode, obj, wc,
          batch, submitted, written, dropped, discarded, strayed, late>>

session == <<ses, reg, made, link, gate>>
thread  == <<pc, mode, obj, wc, batch>>
overlap == <<strayed, late>>
history == <<submitted, written, dropped, discarded, overlap>>

-----------------------------------------------------------------------------
Whole(i) == [in |-> i, part |-> "whole"]
Enter(i) == [in |-> i, part |-> "cr"]
Items == [in : Inputs, part : {"whole", "cr"}]

InputsOf(q) == {q[k].in : k \in 1 .. Len(q)}

(* The queue limit: the oldest entries go first. *)
Newest(q) == IF Len(q) > MaxPending
             THEN SubSeq(q, Len(q) - MaxPending + 1, Len(q))
             ELSE q
Evicted(q) == InputsOf(q) \ InputsOf(Newest(q))

(* The rest of a batch once the next piece of its head is written: the body *)
(* of a paste leaves its carriage return, which goes out in a later send.   *)
Advance(q) == IF Head(q).part = "whole" /\ Head(q).in \notin Lines
              THEN <<Enter(Head(q).in)>> \o Tail(q)
              ELSE Tail(q)

(* Where a goroutine continues when its call returns. *)
Return(t) == IF t # Injector THEN "idle"
             ELSE IF mode[t] = "flush" THEN "done" ELSE "echo"

Gated(t) == mode[t] = "submit" /\ gate[obj[t]] = "closed"
DeferredByGate(t) == Gated(t)           \* mutant: overtakes what is waiting
DeferredByQueue(t) == pending # << >>   \* mutant: ignores the gate
Deferred(t) == Gated(t) \/ pending # << >>

(* A reattachment overlaps a goroutine that has passed the reading of       *)
(* sessions[id], or of wrappers[id]: it goes on with what it has read.      *)
Stray(t) == obj[t] # made
Overtaken(t) == reg # 0 /\ (Stray(t) \/ wc[t] # reg)
NoteLocked(t) == strayed' = (strayed /\ Stray(t)) /\ UNCHANGED late
NoteSent(t) == strayed' = (strayed \/ Stray(t)) /\ UNCHANGED late
NoteLeft(t) == strayed' = (strayed \/ Stray(t)) /\ late' = (late \/ Overtaken(t))
NoteTaken(t) == strayed' = Stray(t) /\ late' = FALSE

Init ==
  /\ ses = 1 /\ reg = 1 /\ made = 1
  /\ link = [e \in Epochs |-> IF e = 1 THEN "up" ELSE "none"]
  /\ \E gated \in BOOLEAN, injecting \in BOOLEAN :
       /\ injecting => gated
       /\ gate = [e \in Epochs |-> IF e = 1 /\ gated THEN "closed" ELSE "open"]
       /\ pc = [t \in Threads |-> IF t = Injector /\ ~injecting THEN "done" ELSE "idle"]
  /\ inputMu = [e \in Epochs |-> Nobody]
  /\ pending = << >>
  /\ mode = [t \in Threads |-> "submit"]
  /\ obj = [t \in Threads |-> 0]
  /\ wc = [t \in Threads |-> 0]
  /\ batch = [t \in Threads |-> << >>]
  /\ submitted = {} /\ written = << >> /\ dropped = {} /\ discarded = {}
  /\ strayed = FALSE /\ late = FALSE

-----------------------------------------------------------------------------
(* handleInput, injectRaw and injectRawBypassGate read wrappers[id] in one  *)
(* critical section and use it in a later one.                              *)
Capture(t, i, m) ==
  /\ pc[t] = "idle"
  /\ i \notin submitted
  /\ submitted' = submitted \cup {i}
  /\ pc' = [pc EXCEPT ![t] = "ready"]
  /\ mode' = [mode EXCEPT ![t] = m]
  /\ wc' = [wc EXCEPT ![t] = reg]
  /\ batch' = [batch EXCEPT ![t] = <<Whole(i)>>]
  /\ UNCHANGED <<session, inputMu, pending, obj, written, dropped, discarded, overlap>>

Submit(t, i) == Capture(t, i, "submit")
Inject(i) == Capture(Injector, i, "bypass")

(* sessions[id] is read before the lock is taken. *)
LookUp(t) ==
  /\ pc[t] = "ready" /\ ses # 0
  /\ obj' = [obj EXCEPT ![t] = ses]
  /\ pc' = [pc EXCEPT ![t] = "want"]
  /\ UNCHANGED <<session, inputMu, pending, mode, wc, batch, history>>

SessionGone(t) ==
  /\ pc[t] = "ready" /\ ses = 0
  /\ discarded' = discarded \cup InputsOf(batch[t])
  /\ batch' = [batch EXCEPT ![t] = << >>]
  /\ pc' = [pc EXCEPT ![t] = Return(t)]
  /\ UNCHANGED <<session, inputMu, pending, mode, obj, wc, submitted, written,
                 dropped, overlap>>

(* submitInputWithGate: gated, or something is already waiting. *)
Defer(t) ==
  /\ pc[t] = "want" /\ mode[t] # "flush" /\ inputMu[obj[t]] = Nobody
  /\ Deferred(t)
  /\ pending' = Newest(pending \o batch[t])
  /\ dropped' = dropped \cup Evicted(pending \o batch[t])
  /\ batch' = [batch EXCEPT ![t] = << >>]
  /\ pc' = [pc EXCEPT ![t] = Return(t)]
  /\ NoteLeft(t)
  /\ UNCHANGED <<session, inputMu, mode, obj, wc, submitted, written, discarded>>

Admit(t) ==
  /\ pc[t] = "want" /\ mode[t] # "flush" /\ inputMu[obj[t]] = Nobody
  /\ ~Deferred(t)
  /\ inputMu' = [inputMu EXCEPT ![obj[t]] = t]
  /\ pc' = [pc EXCEPT ![t] = "send"]
  /\ NoteLocked(t)
  /\ UNCHANGED <<session, pending, mode, obj, wc, batch, submitted, written, dropped, discarded>>

(* flushPendingInput: the whole queue becomes the goroutine's batch, and    *)
(* the connection is read under the lock.                                   *)
TakePending(t) ==
  /\ pc[t] = "want" /\ mode[t] = "flush" /\ inputMu[obj[t]] = Nobody
  /\ gate[obj[t]] # "closed" /\ pending # << >>
  /\ inputMu' = [inputMu EXCEPT ![obj[t]] = t]
  /\ batch' = [batch EXCEPT ![t] = pending]
  /\ pending' = << >>
  /\ wc' = [wc EXCEPT ![t] = reg]
  /\ pc' = [pc EXCEPT ![t] = "send"]
  /\ NoteTaken(t)
  /\ UNCHANGED <<session, mode, obj, submitted, written, dropped, discarded>>

NothingToFlush(t) ==
  /\ pc[t] = "want" /\ mode[t] = "flush" /\ inputMu[obj[t]] = Nobody
  /\ gate[obj[t]] = "closed" \/ pending = << >>
  /\ pc' = [pc EXCEPT ![t] = Return(t)]
  /\ UNCHANGED <<session, inputMu, pending, mode, obj, wc, batch, history>>

LinkOf(t) == IF wc[t] = 0 THEN "none" ELSE link[wc[t]]

(* trySendInput, one wrapperConn.send at a time.  A send on a connection    *)
(* whose peer has vanished may still succeed.                               *)
SendOk(t) ==
  /\ pc[t] = "send" /\ LinkOf(t) \in {"up", "gone"}
  /\ written' = Append(written, Head(batch[t]))
  /\ batch' = [batch EXCEPT ![t] = Advance(@)]
  /\ IF Advance(batch[t]) = << >>
     THEN /\ inputMu' = [inputMu EXCEPT ![obj[t]] = Nobody]
          /\ pc' = [pc EXCEPT ![t] = Return(t)]
     ELSE UNCHANGED <<inputMu, pc>>
  /\ NoteSent(t)
  /\ UNCHANGED <<session, pending, mode, obj, wc, submitted, dropped, discarded>>

SendFails(t) ==
  /\ pc[t] = "send" /\ LinkOf(t) # "up"
  /\ pc' = [pc EXCEPT ![t] = "fail"]
  /\ UNCHANGED <<session, inputMu, pending, mode, obj, wc, batch, history>>

(* The unsent rest: appended by a submitter, put back in front by a flush.  *)
PutBack(t, q) ==
  /\ pc[t] = "fail"
  /\ pending' = Newest(q)
  /\ dropped' = dropped \cup Evicted(q)
  /\ batch' = [batch EXCEPT ![t] = << >>]
  /\ inputMu' = [inputMu EXCEPT ![obj[t]] = Nobody]
  /\ pc' = [pc EXCEPT ![t] = Return(t)]
  /\ NoteLeft(t)
  /\ UNCHANGED <<session, mode, obj, wc, submitted, written, discarded>>

(* Mutants: the rest is put back with its body again; only a flush puts      *)
(* anything back.                                                           *)
GiveBackWhole(t) == PutBack(t, pending \o [k \in 1 .. Len(batch[t]) |-> Whole(batch[t][k].in)])
GiveBackFlushOnly(t) == PutBack(t, IF mode[t] = "flush" THEN batch[t] \o pending ELSE pending)

GiveBack(t) ==
  PutBack(t, IF mode[t] = "flush" THEN batch[t] \o pending ELSE pending \o batch[t])

-----------------------------------------------------------------------------
(* injectInitialPrompt: a prompt whose body was written may be echoed; on a *)
(* missing echo the next attempt follows, until none is left.               *)
PromptWritten == \E k \in 1 .. Len(written) : written[k].in \in Prompts

EchoSeen ==
  /\ pc[Injector] = "echo" /\ ses # 0 /\ PromptWritten
  /\ pc' = [pc EXCEPT ![Injector] = "clear"]
  /\ UNCHANGED <<session, inputMu, pending, mode, obj, wc, batch, history>>

EchoMissing ==
  /\ pc[Injector] = "echo"
  /\ pc' = [pc EXCEPT ![Injector] = IF Prompts \subseteq submitted THEN "clear" ELSE "idle"]
  /\ UNCHANGED <<session, inputMu, pending, mode, obj, wc, batch, history>>

(* Mutant: the gate opens and nobody flushes. *)
ClearGateOnly ==
  /\ pc[Injector] = "clear"
  /\ pc' = [pc EXCEPT ![Injector] = "done"]
  /\ gate' = [e \in Epochs |-> IF e = ses THEN "open" ELSE gate[e]]
  /\ UNCHANGED <<ses, reg, made, link, inputMu, pending, mode, obj, wc, batch, history>>

(* clearInitialInjectGate: open the gate of the current object, then flush. *)
ClearGate ==
  /\ pc[Injector] = "clear"
  /\ IF ses = 0
     THEN pc' = [pc EXCEPT ![Injector] = "done"] /\ UNCHANGED <<gate, mode>>
     ELSE /\ gate' = [gate EXCEPT ![ses] = "open"]
          /\ mode' = [mode EXCEPT ![Injector] = "flush"]
          /\ pc' = [pc EXCEPT ![Injector] = "ready"]
  /\ UNCHANGED <<ses, reg, made, link, inputMu, pending, obj, wc, batch, history>>

(* initialInjectGateMaxAge (90 s) passes.  An injector finishes well before *)
(* (4 attempts of at most 5 s + 3 s), so this needs a gate without one.     *)
GateExpires ==
  /\ "expiry" \in Faults
  /\ ses # 0 /\ gate[ses] = "closed" /\ pc[Injector] = "done"
  /\ gate' = [gate EXCEPT ![ses] = "expired"]
  /\ UNCHANGED <<ses, reg, made, link, inputMu, pending, thread, history>>

-----------------------------------------------------------------------------
(* The wrapper's end of the connection vanishes; later the Hub's read loop  *)
(* notices and unregisters the connection (the session card stays).         *)
PeerVanishes ==
  /\ "loss" \in Faults
  /\ reg # 0 /\ link[reg] = "up"
  /\ link' = [link EXCEPT ![reg] = "gone"]
  /\ UNCHANGED <<ses, reg, made, gate, inputMu, pending, thread, history>>

Unregister ==
  /\ reg # 0 /\ link[reg] = "gone"
  /\ link' = [link EXCEPT ![reg] = "closed"]
  /\ reg' = 0
  /\ UNCHANGED <<ses, made, gate, inputMu, pending, thread, history>>

(* reattachLoop under the same id: a new session object with an open gate,  *)
(* a new connection, and one flush goroutine.                               *)
Reattach(f) ==
  /\ "reattach" \in Faults
  /\ reg = 0 /\ made < MaxEpoch /\ pc[f] = "idle"
  /\ made' = made + 1
  /\ ses' = made + 1
  /\ reg' = made + 1
  /\ link' = [link EXCEPT ![made + 1] = "up"]
  /\ mode' = [mode EXCEPT ![f] = "flush"]
  /\ pc' = [pc EXCEPT ![f] = "ready"]
  /\ UNCHANGED <<gate, inputMu, pending, obj, wc, batch, history>>

(* handleDismiss deletes session, wrapper and queue, and closes the socket. *)
Dismiss ==
  /\ "dismiss" \in Faults
  /\ ses # 0
  /\ ses' = 0 /\ reg' = 0
  /\ link' = IF reg = 0 THEN link ELSE [link EXCEPT ![reg] = "closed"]
  /\ discarded' = discarded \cup InputsOf(pending)
  /\ pending' = << >>
  /\ late' = FALSE
  /\ UNCHANGED <<made, gate, inputMu, thread, submitted, written, dropped, strayed>>

(* Every goroutine has returned: the session waits for the next event. *)
Quiet == \A t \in Threads : pc[t] \in {"idle", "done"}
Rest == Quiet /\ UNCHANGED vars

Step(t) == \/ LookUp(t) \/ SessionGone(t) \/ Defer(t) \/ Admit(t)
           \/ TakePending(t) \/ NothingToFlush(t)
           \/ SendOk(t) \/ SendFails(t) \/ GiveBack(t)

InjectorStep == (\E i \in Prompts : Inject(i)) \/ EchoSeen \/ EchoMissing \/ ClearGate

Environment == GateExpires \/ PeerVanishes \/ Unregister
               \/ (\E f \in Flushers : Reattach(f)) \/ Dismiss

Next == \/ \E t \in Senders, i \in UserInputs : Submit(t, i)
        \/ \E t \in Threads : Step(t)
        \/ InjectorStep
        \/ Environment
        \/ Rest

Spec == Init /\ [][Next]_vars

(* The Go scheduler runs every goroutine, and sync.Mutex does not starve a  *)
(* waiter; users, wrappers and timers owe the Hub nothing.                  *)
Fairness == /\ \A t \in Threads : SF_vars(Step(t))
            /\ WF_vars(InjectorStep)

FairSpec == Spec /\ Fairness
-----------------------------------------------------------------------------
(* Type correctness of the state of input_gate.go and of the session fields *)
(* it reads; the queue stays within maxPendingInputPerSession on every path *)
(* that appends to it or puts something back.                               *)
TypeOK ==
  /\ ses \in 0 .. MaxEpoch /\ reg \in 0 .. MaxEpoch /\ made \in Epochs
  /\ link \in [Epochs -> {"none", "up", "gone", "closed"}]
  /\ gate \in [Epochs -> {"open", "closed", "expired"}]
  /\ inputMu \in [Epochs -> Threads \cup {Nobody}]
  /\ pending \in Seq(Items) /\ Len(pending) <= MaxPending
  /\ pc \in [Threads -> {"idle", "ready", "want", "send", "fail", "echo", "clear", "done"}]
  /\ mode \in [Threads -> {"submit", "bypass", "flush"}]
  /\ obj \in [Threads -> 0 .. MaxEpoch]
  /\ wc \in [Threads -> 0 .. MaxEpoch]
  /\ batch \in [Threads -> Seq(Items)]
  /\ submitted \subseteq Inputs
  /\ written \in Seq(Items)
  /\ dropped \subseteq Inputs /\ discarded \subseteq Inputs
  /\ strayed \in BOOLEAN /\ late \in BOOLEAN

(* Both copies of an input, the deferred and the sent one, never reach the  *)
(* wrapper: trySendInput hands back exactly the unsent rest, whatever fails *)
(* between the body of a paste and its carriage return, and however         *)
(* submits, flushes, reattachments and dismissals interleave.               *)
AtMostOnce ==
  \A j, k \in 1 .. Len(written) : written[j] = written[k] => j = k

(* A carriage return never confirms an input line that does not hold the    *)
(* body it belongs to: the "\r" that trySendInput hands back after a half   *)
(* sent paste is delivered after that body.                                 *)
EnterFollowsBody ==
  \A k \in 1 .. Len(written) :
    written[k].part = "cr" => \E j \in 1 .. k - 1 : written[j] = Whole(written[k].in)

(* "Never silently thrown away" (input_gate.go:115-118): an input given to  *)
(* the Hub is still held, or written to its last piece, or was evicted at   *)
(* the queue limit, or its session was gone.                                *)
Held(i) == \/ i \in InputsOf(pending)
           \/ \E t \in Threads : i \in InputsOf(batch[t])
Complete(i) == \E k \in 1 .. Len(written) :
                 written[k] = IF i \in Lines THEN Whole(i) ELSE Enter(i)
NothingLost ==
  \A i \in submitted : Held(i) \/ Complete(i) \/ i \in dropped \/ i \in discarded

(* The inductive invariant behind the three properties above.  An input is  *)
(* in one place only, at one position: the queue of the session (the place  *)
(* Nobody) or the batch of one goroutine.                                   *)
Places == Threads \cup {Nobody}
Queue(p) == IF p = Nobody THEN pending ELSE batch[p]

(* Batches exist only between capturing an input and giving it up.          *)
BatchesOwned ==
  \A t \in Threads :
    /\ pc[t] = "send" => batch[t] # << >>
    /\ pc[t] \in {"idle", "echo", "clear", "done"} => batch[t] = << >>
    /\ pc[t] \in {"ready", "want"} => (batch[t] = << >> <=> mode[t] = "flush")

OnePlace ==
  \A p, r \in Places : \A a \in 1 .. Len(Queue(p)), b \in 1 .. Len(Queue(r)) :
    Queue(p)[a].in = Queue(r)[b].in => p = r /\ a = b

(* What a place holds agrees with what was written.                         *)
HeldUnwritten ==
  \A p \in Places : \A a \in 1 .. Len(Queue(p)) :
    LET x == Queue(p)[a]
    IN /\ x.in \in submitted
       /\ x.part = "whole" => \A k \in 1 .. Len(written) : written[k].in # x.in
       /\ x.part = "cr" => /\ x.in \notin Lines
                           /\ \A k \in 1 .. Len(written) : written[k] # x
                           /\ \E k \in 1 .. Len(written) : written[k] = Whole(x.in)

WrittenSubmitted == \A k \in 1 .. Len(written) : written[k].in \in submitted

Inv == /\ TypeOK /\ BatchesOwned /\ OnePlace /\ HeldUnwritten /\ WrittenSubmitted
       /\ AtMostOnce /\ EnterFollowsBody

(* What the goroutine that holds the lock of the present session object     *)
(* still has to write comes before everything that waits.                   *)
Holders == {t \in Threads : pc[t] \in {"send", "fail"} /\ ~Stray(t)}
Backlog == IF Holders = {} THEN pending
           ELSE batch[CHOOSE t \in Holders : TRUE] \o pending
Ordered == INSTANCE OrderedInput WITH queue <- Backlog, out <- written

(* Submits, half-sent pastes, retries and flushes take the steps of one     *)
(* queue: order is kept and no write comes between a paste and its Enter    *)
(* (input_gate.go:115-123, 190-194).  That rests on inputMu, and a          *)
(* reattachment replaces it: the steps of a goroutine that goes on with the *)
(* replaced object, and of the one whose turn it was then, are excepted.    *)
InOrder == Ordered!Init /\ [][~strayed' => Ordered!Next]_<<Backlog, written>>

(* Deferred input is sent again once a wrapper is registered for good and   *)
(* the gate is open (flushPendingInput, server.go:404-407).  The code can   *)
(* strand it in one way only: a goroutine that a reattachment overtook      *)
(* leaves it when the new connection's flush has been and gone.             *)
Connected == ses # 0 /\ reg = ses /\ link[ses] = "up" /\ gate[ses] = "open"
BacklogDrains == <>[](Connected /\ ~late) => <>[](pending = << >>)

(* No user input reaches the CLI before the initial prompt was echoed or    *)
(* given up (wrapper_loop.go:175-177), as long as the session object that   *)
(* carries the gate is not replaced by a reattachment.                      *)
Injecting == made = 1 /\ pc[Injector] # "done" /\ mode[Injector] # "flush"
InjectionUndisturbed ==
  Injecting => \A k \in 1 .. Len(written) : written[k].in \in Prompts
=============================================================================

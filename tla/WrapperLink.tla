----------------------------- MODULE WrapperLink -----------------------------
(***************************************************************************)
(* The connection between the Hub and its wrapper processes, both ends:    *)
(*   - the Hub's goroutine of each connection (handleWS, wrapperLoop,      *)
(*     reattachLoop, wrapperMessageLoop in src/internal/hub), the session  *)
(*     registry they share, dismissal, kill-all, shutdown, crash, restart; *)
(*   - the wrapper's receive loop, reconnect supervisor and PTY            *)
(*     (src/internal/wrapper/wrapper.go).                                  *)
(* A connection is numbered when it is dialled.  The Hub's end is followed *)
(* in critical sections of sessionsMu, the wrapper's end from one blocking *)
(* call to the next.                                                       *)
(***************************************************************************)
EXTENDS Naturals, Sequences, FiniteSets

CONSTANTS
  Wrappers, NoWrapper,
  Inputs, NoInput,
  MaxConn,         \* bound: connections dialled
  MaxEra,          \* bound: Hub processes started one after the other
  AutoShutdown,    \* config hub.auto_shutdown
  Grace,           \* is hub.wrapper_reconnect_grace_sec positive?
  Faults           \* which of the environment's events occur

Conns == 1 .. MaxConn
Ids == 1 .. MaxConn   \* every connection raises nextID by at most one
None == 0             \* no connection, no id

ASSUME LinkBounds == MaxConn \in Nat \ {0} /\ MaxEra \in Nat \ {0}
ASSUME LinkNames == NoWrapper \notin Wrappers /\ NoInput \notin Inputs
ASSUME LinkConfig ==
  /\ AutoShutdown \in BOOLEAN /\ Grace \in BOOLEAN
  /\ Faults \subseteq {"crash", "shutdown", "killall", "dismiss", "slow"}

VARIABLES
  hub,          \* the Hub process: "up", "stopping" (100 ms to live), "down"
  era,          \* how many Hub processes there have been
  wedged,       \* sessionsMu was left locked for ever
  nextID,
  card,         \* state of sessions[id], "none" when there is no session
  owner,        \* whose session object sessions[id] is
  wrapperOf,    \* wrappers[id]
  pend,         \* pendingInput[id]
  flushing,     \* ids whose flushPendingInput has not yet read the registry
  sends,        \* goroutines that have read it and are to send what they hold
  doomed,       \* connections a dismissal or kill-all is about to close
  dialled,      \* connections dialled so far
  who, kind,    \* who dialled it, to "register" or to "reattach"
  asked,        \* the id a reattach asks for
  hpc, cid,     \* the Hub's goroutine of the connection, and its id
  net,          \* "open", or who ended it
  box,          \* messages to the wrapper, not yet received
  bye,          \* session_end sent by the wrapper, not yet received
  pty,          \* the wrapper's process: "none", "live", "dead", "gone"
  sup,          \* its main goroutine until registered, then the supervisor
  cur, sid,     \* currentConn and currentSID
  trial,        \* the connection a handshake waits on
  intentional,  \* intentionalShutdown
  notice,       \* a token in reconnectCh (capacity 1)
  readers,      \* connections with a running receive loop
  typed         \* the inputs users have typed so far

process  == <<hub, era>>
registry == <<wedged, nextID, card, owner, wrapperOf, pend, flushing, sends>>
handlers == <<hpc, cid>>
wire     == <<dialled, who, kind, asked, net, box, bye>>
wrapper  == <<pty, sup, cur, sid, trial, intentional, notice, readers>>
vars == <<process, registry, doomed, handlers, wire, wrapper, typed>>

-----------------------------------------------------------------------------
Message(type, id, i) == [type |-> type, id |-> id, in |-> i]
Ack(id) == Message("ack", id, NoInput)           \* registered, reattach_ack
PtyInput(id, i) == Message("input", id, i)
HubShutdown == Message("shutdown", None, NoInput)
ReattachReject == Message("reject", None, NoInput)
Messages == [type : {"ack", "input", "shutdown", "reject"}, id : Ids \cup {None},
             in : Inputs \cup {NoInput}]

Responsive == hub # "down" /\ ~wedged   \* sessionsMu can be taken
StillRegistered(c) == card[cid[c]] # "none" /\ wrapperOf[cid[c]] = c
Larger(m, n) == IF m > n THEN m ELSE n

Deliver(c, q) == box' = [box EXCEPT ![c] = IF net[c] = "open" THEN @ \o q ELSE @]

(* The handler of c returns; handleWS closes the socket. *)
Return(c) ==
  /\ hpc' = [hpc EXCEPT ![c] = "gone"]
  /\ net' = [net EXCEPT ![c] = IF @ = "open" THEN "hubClosed" ELSE @]

Init ==
  /\ hub = "up" /\ era = 1 /\ wedged = FALSE /\ nextID = 0
  /\ card = [id \in Ids |-> "none"] /\ owner = [id \in Ids |-> NoWrapper]
  /\ wrapperOf = [id \in Ids |-> None]
  /\ pend = [id \in Ids |-> << >>] /\ flushing = {} /\ sends = {} /\ doomed = {}
  /\ dialled = 0
  /\ who = [c \in Conns |-> NoWrapper]
  /\ kind = [c \in Conns |-> "none"] /\ asked = [c \in Conns |-> None]
  /\ hpc = [c \in Conns |-> "none"] /\ cid = [c \in Conns |-> None]
  /\ net = [c \in Conns |-> "none"] /\ box = [c \in Conns |-> << >>]
  /\ bye = [c \in Conns |-> FALSE]
  /\ pty = [w \in Wrappers |-> "none"] /\ sup = [w \in Wrappers |-> "new"]
  /\ cur = [w \in Wrappers |-> None] /\ sid = [w \in Wrappers |-> None]
  /\ trial = [w \in Wrappers |-> None]
  /\ intentional = [w \in Wrappers |-> FALSE]
  /\ notice = [w \in Wrappers |-> FALSE] /\ readers = [w \in Wrappers |-> {}]
  /\ typed = {}

-----------------------------------------------------------------------------
(* The wrapper.  Dialling succeeds when the Hub listens. *)
DialHub(w, k, id, next) ==
  /\ hub # "down" /\ dialled < MaxConn
  /\ LET c == dialled + 1
     IN /\ dialled' = c
        /\ who' = [who EXCEPT ![c] = w]
        /\ kind' = [kind EXCEPT ![c] = k]
        /\ asked' = [asked EXCEPT ![c] = id]
        /\ hpc' = [hpc EXCEPT ![c] = "request"]
        /\ net' = [net EXCEPT ![c] = "open"]
        /\ trial' = [trial EXCEPT ![w] = c]
  /\ sup' = [sup EXCEPT ![w] = next]
  /\ UNCHANGED <<process, registry, doomed, cid, box, bye, pty, cur, sid,
                 intentional, notice, readers, typed>>

Register(w) == sup[w] = "new" /\ DialHub(w, "register", None, "registering")

(* A socket the wrapper has left is read no more. *)
Unread(S) == box' = [c \in Conns |-> IF c \in S THEN << >> ELSE box[c]]

(* dialAndRegister takes the first message as the reply, whatever it is; a  *)
(* hub_shutdown carries no id.  The receive loop starts, then the           *)
(* supervisor.                                                              *)
Registered(w) ==
  LET c == trial[w] m == Head(box[c]) IN
  /\ sup[w] = "registering" /\ box[c] # << >>
  /\ box' = [box EXCEPT ![c] = Tail(@)]
  /\ pty' = [pty EXCEPT ![w] = "live"]
  /\ sup' = [sup EXCEPT ![w] = "watch"]
  /\ cur' = [cur EXCEPT ![w] = c] /\ sid' = [sid EXCEPT ![w] = m.id]
  /\ trial' = [trial EXCEPT ![w] = None]
  /\ readers' = [readers EXCEPT ![w] = {c}]
  /\ UNCHANGED <<process, registry, doomed, handlers, dialled, who, kind, asked, net,
                 bye, intentional, notice, typed>>

(* The provider does not start: session_end, and the wrapper exits. *)
StartFails(w) ==
  LET c == trial[w] IN
  /\ sup[w] = "registering" /\ box[c] # << >>
  /\ Unread({c})
  /\ bye' = [bye EXCEPT ![c] = net[c] = "open"]
  /\ net' = [net EXCEPT ![c] = IF @ = "open" THEN "peerClosed" ELSE @]
  /\ pty' = [pty EXCEPT ![w] = "gone"]
  /\ sup' = [sup EXCEPT ![w] = "over"]
  /\ trial' = [trial EXCEPT ![w] = None]
  /\ UNCHANGED <<process, registry, doomed, handlers, dialled, who, kind, asked,
                 cur, sid, intentional, notice, readers, typed>>

RegisterFails(w) ==
  /\ sup[w] = "registering" /\ net[trial[w]] # "open"
  /\ Unread({trial[w]})
  /\ pty' = [pty EXCEPT ![w] = "gone"]
  /\ sup' = [sup EXCEPT ![w] = "over"]
  /\ trial' = [trial EXCEPT ![w] = None]
  /\ UNCHANGED <<process, registry, doomed, handlers, dialled, who, kind, asked, net,
                 bye, cur, sid, intentional, notice, readers, typed>>

(* The receive loop of connection c.                                        *)
ReceiveInput(w, c) ==
  /\ pty[w] = "live" /\ c \in readers[w]
  /\ box[c] # << >> /\ Head(box[c]).type # "shutdown"
  /\ box' = [box EXCEPT ![c] = Tail(@)]
  /\ UNCHANGED <<process, registry, doomed, handlers, dialled, who, kind, asked, net,
                 bye, wrapper, typed>>

(* Mutant: the channel has no buffer, a busy supervisor gets no token. *)
LeaveLoopUnbuffered(w, c) ==
  /\ Unread({c})
  /\ cur' = [cur EXCEPT ![w] = IF @ = c THEN None ELSE @]
  /\ net' = [net EXCEPT ![c] = IF @ = "open" /\ cur[w] = c THEN "peerClosed" ELSE @]
  /\ notice' = [notice EXCEPT ![w] = sup[w] = "watch"]
  /\ readers' = [readers EXCEPT ![w] = @ \ {c}]

(* clearConn, then notifyReconnect, which never blocks. *)
LeaveLoop(w, c) ==
  /\ Unread({c})
  /\ cur' = [cur EXCEPT ![w] = IF @ = c THEN None ELSE @]
  /\ net' = [net EXCEPT ![c] = IF @ = "open" /\ cur[w] = c THEN "peerClosed" ELSE @]
  /\ notice' = [notice EXCEPT ![w] = TRUE]
  /\ readers' = [readers EXCEPT ![w] = @ \ {c}]

(* Mutant: hub_shutdown does not leave the loop, which then ends in an error. *)
ReceiveShutdownStaying(w, c) ==
  /\ pty[w] = "live" /\ c \in readers[w]
  /\ box[c] # << >> /\ Head(box[c]).type = "shutdown"
  /\ intentional' = [intentional EXCEPT ![w] = TRUE]
  /\ Unread({c})
  /\ cur' = [cur EXCEPT ![w] = IF @ = c THEN None ELSE @]
  /\ net' = [net EXCEPT ![c] = IF @ = "open" THEN "peerClosed" ELSE @]
  /\ notice' = [notice EXCEPT ![w] = TRUE]
  /\ UNCHANGED <<process, registry, doomed, handlers, dialled, who, kind, asked, bye,
                 pty, sup, sid, trial, readers, typed>>

ReceiveShutdown(w, c) ==
  /\ pty[w] = "live" /\ c \in readers[w]
  /\ box[c] # << >> /\ Head(box[c]).type = "shutdown"
  /\ intentional' = [intentional EXCEPT ![w] = TRUE]
  /\ LeaveLoop(w, c)
  /\ UNCHANGED <<process, registry, doomed, handlers, dialled, who, kind, asked, bye,
                 pty, sup, sid, trial, typed>>

(* A socket the Hub has left may be reset before everything is read.        *)
ReceiveFails(w, c) ==
  /\ pty[w] = "live" /\ c \in readers[w] /\ net[c] # "open"
  /\ LeaveLoop(w, c)
  /\ UNCHANGED <<process, registry, doomed, handlers, dialled, who, kind, asked,
                 bye, pty, sup, sid, trial, intentional, typed>>

(* The supervisor gives up: it closes the PTY and returns. *)
Kill(w) ==
  /\ pty' = [pty EXCEPT ![w] = "dead"]
  /\ sup' = [sup EXCEPT ![w] = "over"]
  /\ UNCHANGED <<process, registry, doomed, handlers, wire, cur, sid, trial,
                 intentional, readers, typed>>

(* probeHubAlive may time out at a Hub that is busy. *)
Probe(answer) == /\ answer => hub # "down"
                 /\ ~answer => hub = "down" \/ "slow" \in Faults

GivesUp(w, answer) ==
  ~Grace \/ (~intentional[w] /\ (answer \/ AutoShutdown))

Wake(w) ==
  /\ pty[w] = "live" /\ sup[w] = "watch" /\ notice[w]
  /\ notice' = [notice EXCEPT ![w] = FALSE]
  /\ \E answer \in BOOLEAN :
       /\ Probe(answer)
       /\ IF GivesUp(w, answer) THEN Kill(w)
          ELSE /\ sup' = [sup EXCEPT ![w] = "grace"]
               /\ UNCHANGED <<process, registry, doomed, handlers, wire, pty,
                    cur, sid, trial, intentional, readers, typed>>

GraceExpires(w) ==
  /\ pty[w] = "live" /\ sup[w] = "grace"
  /\ Kill(w)
  /\ UNCHANGED notice

Reattach(w) ==
  /\ pty[w] = "live" /\ sup[w] = "grace"
  /\ DialHub(w, "reattach", sid[w], "await")

(* Mutant: the wrapper keeps the number it asked for. *)
ReattachedOldNumber(w) ==
  LET c == trial[w] IN
  /\ sup[w] = "await" /\ box[c] # << >> /\ Head(box[c]).type = "ack"
  /\ box' = [box EXCEPT ![c] = Tail(@)]
  /\ cur' = [cur EXCEPT ![w] = c]
  /\ trial' = [trial EXCEPT ![w] = None]
  /\ readers' = [readers EXCEPT ![w] = @ \cup {c}]
  /\ sup' = [sup EXCEPT ![w] = "reset"]
  /\ UNCHANGED <<process, registry, doomed, handlers, dialled, who, kind, asked, net,
                 bye, pty, sid, intentional, notice, typed>>

(* swapConn and startReceiveLoop; the flag is reset in a later step. *)
Reattached(w) ==
  LET c == trial[w] m == Head(box[c]) IN
  /\ sup[w] = "await" /\ box[c] # << >> /\ m.type = "ack"
  /\ box' = [box EXCEPT ![c] = Tail(@)]
  /\ cur' = [cur EXCEPT ![w] = c] /\ sid' = [sid EXCEPT ![w] = m.id]
  /\ trial' = [trial EXCEPT ![w] = None]
  /\ readers' = [readers EXCEPT ![w] = @ \cup {c}]
  /\ sup' = [sup EXCEPT ![w] = "reset"]
  /\ UNCHANGED <<process, registry, doomed, handlers, dialled, who, kind, asked, net,
                 bye, pty, intentional, notice, typed>>

ReattachRejected(w) ==
  LET c == trial[w] m == Head(box[c]) IN
  /\ sup[w] = "await" /\ box[c] # << >> /\ m.type = "reject"
  /\ Unread({c})
  /\ net' = [net EXCEPT ![c] = IF @ = "open" THEN "peerClosed" ELSE @]
  /\ trial' = [trial EXCEPT ![w] = None]
  /\ pty' = [pty EXCEPT ![w] = "dead"]
  /\ sup' = [sup EXCEPT ![w] = "over"]
  /\ UNCHANGED <<process, registry, doomed, handlers, dialled, who, kind, asked,
                 bye, cur, sid, intentional, notice, readers, typed>>

(* "unexpected reattach response": close and try again. *)
ReattachRefused(w) ==
  LET c == trial[w] m == Head(box[c]) IN
  /\ sup[w] = "await" /\ box[c] # << >> /\ m.type \in {"input", "shutdown"}
  /\ Unread({c})
  /\ net' = [net EXCEPT ![c] = IF @ = "open" THEN "peerClosed" ELSE @]
  /\ trial' = [trial EXCEPT ![w] = None]
  /\ sup' = [sup EXCEPT ![w] = "grace"]
  /\ UNCHANGED <<process, registry, doomed, handlers, dialled, who, kind, asked,
                 bye, pty, cur, sid, intentional, notice, readers, typed>>

ReattachFails(w) ==
  /\ sup[w] = "await" /\ net[trial[w]] # "open"
  /\ Unread({trial[w]})
  /\ trial' = [trial EXCEPT ![w] = None]
  /\ sup' = [sup EXCEPT ![w] = "grace"]
  /\ UNCHANGED <<process, registry, doomed, handlers, dialled, who, kind, asked, net,
                 bye, pty, cur, sid, intentional, notice, readers, typed>>

ResetIntentional(w) ==
  /\ sup[w] = "reset"
  /\ intentional' = [intentional EXCEPT ![w] = FALSE]
  /\ sup' = [sup EXCEPT ![w] = "watch"]
  /\ UNCHANGED <<process, registry, doomed, handlers, wire, pty, cur, sid,
                 trial, notice, readers, typed>>

(* The CLI exits by itself. *)
PtyEnds(w) ==
  /\ pty[w] = "live"
  /\ pty' = [pty EXCEPT ![w] = "dead"]
  /\ UNCHANGED <<process, registry, doomed, handlers, wire, sup, cur, sid, trial,
                 intentional, notice, readers, typed>>

(* The end of Run: session_end on the current connection, if there is one;  *)
(* the exit of the process closes every socket.                             *)
WrapperExits(w) ==
  /\ pty[w] = "dead"
  /\ Unread({c \in Conns : who[c] = w})
  /\ bye' = [c \in Conns |-> bye[c] \/ (c = cur[w] /\ net[c] = "open")]
  /\ net' = [c \in Conns |-> IF who[c] = w /\ net[c] = "open" THEN "peerClosed"
                             ELSE net[c]]
  /\ pty' = [pty EXCEPT ![w] = "gone"] /\ sup' = [sup EXCEPT ![w] = "over"]
  /\ cur' = [cur EXCEPT ![w] = None] /\ trial' = [trial EXCEPT ![w] = None]
  /\ readers' = [readers EXCEPT ![w] = {}]
  /\ UNCHANGED <<process, registry, doomed, handlers, dialled, who, kind, asked,
                 sid, intentional, notice, typed>>

-----------------------------------------------------------------------------
(* The Hub's goroutine of connection c.  A register gets a fresh id.        *)
Allocate(c) ==
  /\ Responsive /\ hpc[c] = "request" /\ kind[c] = "register"
  /\ nextID' = nextID + 1
  /\ cid' = [cid EXCEPT ![c] = nextID + 1]
  /\ hpc' = [hpc EXCEPT ![c] = "numbered"]
  /\ UNCHANGED <<process, wedged, card, owner, wrapperOf, pend, flushing, sends, doomed,
                 wire, wrapper, typed>>

(* "invalid session_id" *)
Reject(c) ==
  /\ hub # "down" /\ hpc[c] = "request" /\ kind[c] = "reattach" /\ asked[c] = None
  /\ Deliver(c, <<ReattachReject>>)
  /\ Return(c)
  /\ UNCHANGED <<process, registry, doomed, cid, dialled, who, kind, asked, bye,
                 wrapper, typed>>

(* A reattach keeps its id unless a wrapper is registered under it. *)
Renumber(c) ==
  /\ Responsive /\ hpc[c] = "request" /\ kind[c] = "reattach" /\ asked[c] # None
  /\ LET id == IF wrapperOf[asked[c]] = None THEN asked[c] ELSE nextID + 1
     IN cid' = [cid EXCEPT ![c] = id] /\ nextID' = Larger(nextID, id)
  /\ hpc' = [hpc EXCEPT ![c] = "numbered"]
  /\ UNCHANGED <<process, wedged, card, owner, wrapperOf, pend, flushing, sends, doomed,
                 wire, wrapper, typed>>

(* A new session object and wrapperConn; a reattach also starts a flush.    *)
InstallWith(c, flush) ==
  LET id == cid[c] IN
  /\ Responsive /\ hpc[c] = "numbered"
  /\ card' = [card EXCEPT ![id] = "live"]
  /\ owner' = [owner EXCEPT ![id] = who[c]]
  /\ wrapperOf' = [wrapperOf EXCEPT ![id] = c]
  /\ nextID' = Larger(nextID, id)
  /\ flushing' = IF flush THEN flushing \cup {id} ELSE flushing
  /\ hpc' = [hpc EXCEPT ![c] = "installed"]
  /\ UNCHANGED <<process, wedged, pend, sends, doomed, cid, wire, wrapper, typed>>

InstallUnflushed(c) == InstallWith(c, FALSE)   \* mutant: no flush
Install(c) == InstallWith(c, kind[c] = "reattach")

(* After the slow injections: unless dismissed meanwhile, acknowledge. *)
Acknowledge(c) ==
  /\ Responsive /\ hpc[c] = "installed" /\ StillRegistered(c)
  /\ Deliver(c, <<Ack(cid[c])>>)
  /\ hpc' = [hpc EXCEPT ![c] = "acked"]
  /\ UNCHANGED <<process, registry, doomed, cid, dialled, who, kind, asked, net, bye,
                 wrapper, typed>>

Dismissed(c) ==
  /\ Responsive
  /\ hpc[c] = "installed" \/ (hpc[c] = "acked" /\ kind[c] = "register")
  /\ ~StillRegistered(c)
  /\ Return(c)
  /\ UNCHANGED <<process, registry, doomed, cid, dialled, who, kind, asked, box, bye,
                 wrapper, typed>>

(* wrapperLoop checks again before it announces; reattachLoop reads         *)
(* sessions[id] without a check.                                            *)
Announce(c) ==
  /\ Responsive /\ hpc[c] = "acked"
  /\ IF kind[c] = "register" THEN StillRegistered(c) ELSE card[cid[c]] # "none"
  /\ hpc' = [hpc EXCEPT ![c] = "serving"]
  /\ UNCHANGED <<process, registry, doomed, cid, wire, wrapper, typed>>

(* A nil session: the panic ends the goroutine, sessionsMu stays locked. *)
AnnounceNil(c) ==
  /\ Responsive /\ hpc[c] = "acked" /\ kind[c] = "reattach" /\ card[cid[c]] = "none"
  /\ wedged' = TRUE
  /\ Return(c)
  /\ UNCHANGED <<process, nextID, card, owner, wrapperOf, pend, flushing, sends, doomed,
                 cid, dialled, who, kind, asked, box, bye, wrapper, typed>>

(* wrapperMessageLoop: session_end, then the end of the connection. *)
SessionEnd(c) ==
  LET id == cid[c] IN
  /\ Responsive /\ hpc[c] = "serving" /\ bye[c] /\ net[c] # "hubClosed"
  /\ bye' = [bye EXCEPT ![c] = FALSE]
  /\ card' = [card EXCEPT ![id] = IF @ = "none" THEN @ ELSE "ended"]
  /\ UNCHANGED <<process, wedged, nextID, owner, wrapperOf, pend, flushing, sends, doomed,
                 handlers, dialled, who, kind, asked, net, box, wrapper, typed>>

Unserve(c, entry, state) ==
  /\ Responsive /\ hpc[c] = "serving" /\ net[c] # "open"
  /\ bye[c] => net[c] = "hubClosed"
  /\ wrapperOf' = [wrapperOf EXCEPT ![cid[c]] = entry]
  /\ card' = [card EXCEPT ![cid[c]] = IF @ = "live" THEN state ELSE @]
  /\ Return(c)
  /\ UNCHANGED <<process, wedged, nextID, owner, pend, flushing, sends, doomed, cid,
                 dialled, who, kind, asked, box, bye, wrapper, typed>>

Entry(c) == IF wrapperOf[cid[c]] = c THEN None ELSE wrapperOf[cid[c]]

(* Mutants: the entry is deleted whosever it is, or kept; the card stays.   *)
CleanupAnyEntry(c) == Unserve(c, None, "disconnected")
CleanupLeaving(c) == Unserve(c, wrapperOf[cid[c]], "disconnected")
CleanupSilently(c) == Unserve(c, Entry(c), "live")

Cleanup(c) == Unserve(c, Entry(c), "disconnected")

-----------------------------------------------------------------------------
(* User input (submitInput) and its retry (flushPendingInput).  Both read    *)
(* wrappers[id] first and use what they found later, whatever has been       *)
(* installed since.  What happens under inputMu is one step: InputGate       *)
(* follows it in detail.  A send to a socket the wrapper has left may still  *)
(* succeed.                                                                  *)
Reach(c) == IF c = None THEN "none" ELSE net[c]
MaySend(c) == Reach(c) \in {"open", "peerClosed"}
MayFail(c) == Reach(c) # "open"

Holding(id, q, retry) == [id |-> id, via |-> wrapperOf[id], q |-> q, retry |-> retry]

(* handleInput up to its unlock. *)
Submit(i, id) ==
  /\ Responsive /\ i \notin typed /\ card[id] # "none"
  /\ typed' = typed \cup {i}
  /\ sends' = sends \cup {Holding(id, <<i>>, FALSE)}
  /\ UNCHANGED <<process, wedged, nextID, card, owner, wrapperOf, pend, flushing,
                 doomed, handlers, wire, wrapper>>

(* flushPendingInput up to its last unlock: it takes the whole backlog. *)
Flush(id) ==
  /\ Responsive /\ id \in flushing
  /\ flushing' = flushing \ {id}
  /\ IF card[id] = "none" \/ pend[id] = << >> THEN UNCHANGED <<pend, sends>>
     ELSE /\ pend' = [pend EXCEPT ![id] = << >>]
          /\ sends' = sends \cup {Holding(id, pend[id], TRUE)}
  /\ UNCHANGED <<process, wedged, nextID, card, owner, wrapperOf, doomed, handlers,
                 wire, wrapper, typed>>

(* Input with a backlog before it is not sent but goes to its end. *)
Transmit(s) ==
  /\ MaySend(s.via) /\ (s.retry \/ pend[s.id] = << >>)
  /\ Deliver(s.via, [k \in 1 .. Len(s.q) |-> PtyInput(s.id, s.q[k])])
  /\ UNCHANGED pend

(* A retry puts what it took back in front. *)
Requeue(s) ==
  /\ Responsive /\ (MayFail(s.via) \/ (~s.retry /\ pend[s.id] # << >>))
  /\ pend' = [pend EXCEPT ![s.id] = IF s.retry THEN s.q \o @ ELSE @ \o s.q]
  /\ UNCHANGED box

(* The session was dismissed before the input came to it. *)
Discard(s) == Responsive /\ ~s.retry /\ card[s.id] = "none" /\ UNCHANGED <<pend, box>>

Finish(s) ==
  /\ hub # "down"
  /\ Transmit(s) \/ Requeue(s) \/ Discard(s)
  /\ sends' = sends \ {s}
  /\ UNCHANGED <<process, wedged, nextID, card, owner, wrapperOf, flushing, doomed,
                 handlers, dialled, who, kind, asked, net, bye, wrapper, typed>>

(* handleDismiss removes the session, later closes the connection. *)
Dismiss(id) ==
  /\ "dismiss" \in Faults /\ Responsive /\ card[id] # "none"
  /\ card' = [card EXCEPT ![id] = "none"]
  /\ wrapperOf' = [wrapperOf EXCEPT ![id] = None]
  /\ pend' = [pend EXCEPT ![id] = << >>]
  /\ doomed' = IF wrapperOf[id] = None THEN doomed ELSE doomed \cup {wrapperOf[id]}
  /\ UNCHANGED <<process, wedged, nextID, owner, flushing, sends, handlers, wire, wrapper,
                 typed>>

Entries == {wrapperOf[id] : id \in Ids} \ {None}

(* killAllWrappers: kill-all and the idle timeout; the sessions stay. *)
KillAll ==
  /\ "killall" \in Faults /\ Responsive /\ Entries # {}
  /\ doomed' = doomed \cup Entries
  /\ UNCHANGED <<process, registry, handlers, wire, wrapper, typed>>

CloseDoomed(c) ==
  /\ hub # "down" /\ c \in doomed
  /\ doomed' = doomed \ {c}
  /\ net' = [net EXCEPT ![c] = IF @ = "open" THEN "hubClosed" ELSE @]
  /\ UNCHANGED <<process, registry, handlers, dialled, who, kind, asked, box, bye, wrapper,
                 typed>>

(* handleShutdown: hub_shutdown to every wrapper; the process lives on for  *)
(* 100 ms (requestStop).                                                    *)
Shutdown ==
  /\ "shutdown" \in Faults /\ Responsive /\ hub = "up"
  /\ hub' = "stopping"
  /\ box' = [c \in Conns |-> IF c \in Entries /\ net[c] = "open"
                             THEN Append(box[c], HubShutdown) ELSE box[c]]
  /\ UNCHANGED <<era, registry, doomed, handlers, dialled, who, kind, asked, net, bye,
                 wrapper, typed>>

(* The process ends: the system closes its sockets, its memory is gone. *)
HubEnds ==
  /\ hub' = "down" /\ wedged' = FALSE /\ nextID' = 0
  /\ card' = [id \in Ids |-> "none"] /\ owner' = [id \in Ids |-> NoWrapper]
  /\ wrapperOf' = [id \in Ids |-> None]
  /\ pend' = [id \in Ids |-> << >>] /\ flushing' = {} /\ sends' = {} /\ doomed' = {}
  /\ net' = [c \in Conns |-> IF net[c] = "open" THEN "hubDied" ELSE net[c]]
  /\ hpc' = [c \in Conns |-> IF hpc[c] = "none" THEN "none" ELSE "gone"]
  /\ bye' = [c \in Conns |-> FALSE]
  /\ UNCHANGED <<era, cid, dialled, who, kind, asked, box, wrapper, typed>>

HubExits == hub = "stopping" /\ HubEnds
HubCrashes == "crash" \in Faults /\ hub = "up" /\ HubEnds

HubStarts ==
  /\ hub = "down" /\ era < MaxEra
  /\ hub' = "up" /\ era' = era + 1
  /\ UNCHANGED <<registry, doomed, handlers, wire, wrapper, typed>>

-----------------------------------------------------------------------------
Main(w) == Registered(w) \/ StartFails(w) \/ RegisterFails(w) \/ WrapperExits(w)
Reader(w) == \E c \in Conns :
               ReceiveInput(w, c) \/ ReceiveShutdown(w, c) \/ ReceiveFails(w, c)
Supervisor(w) == \/ Wake(w) \/ GraceExpires(w) \/ Reattach(w) \/ Reattached(w)
                 \/ ReattachRejected(w) \/ ReattachRefused(w) \/ ReattachFails(w) \/ ResetIntentional(w)
Handler(c) == \/ Allocate(c) \/ Reject(c) \/ Renumber(c) \/ Install(c) \/ Acknowledge(c)
              \/ Dismissed(c) \/ Announce(c) \/ AnnounceNil(c)
              \/ SessionEnd(c) \/ Cleanup(c)

(* Every wrapper has exited, or was never started. *)
Rest == (\A w \in Wrappers : sup[w] = "new" \/ pty[w] = "gone") /\ UNCHANGED vars

Next == \/ \E w \in Wrappers : Register(w) \/ Main(w) \/ Reader(w) \/ Supervisor(w)
                               \/ PtyEnds(w)
        \/ \E c \in Conns : Handler(c) \/ CloseDoomed(c)
        \/ \E i \in Inputs, id \in Ids : Submit(i, id)
        \/ \E id \in Ids : Flush(id) \/ Dismiss(id)
        \/ \E s \in sends : Finish(s)
        \/ KillAll \/ Shutdown \/ HubExits \/ HubCrashes \/ HubStarts
        \/ Rest

Spec == Init /\ [][Next]_vars

(* Goroutines run, sockets report their end, and the grace period passes;   *)
(* users, CLIs and crashes owe nothing, and nobody has to restart a Hub.    *)
Fairness == /\ \A w \in Wrappers : WF_vars(Main(w)) /\ WF_vars(Reader(w))
                                   /\ WF_vars(Supervisor(w))
            /\ \A c \in Conns : WF_vars(Handler(c)) /\ WF_vars(CloseDoomed(c))
            /\ \A id \in Ids : WF_vars(Flush(id))
            /\ WF_vars(\E s \in sends : Finish(s)) /\ WF_vars(HubExits)
FairSpec == Spec /\ Fairness
-----------------------------------------------------------------------------
(* Type correctness; ids stay in range because every connection raises      *)
(* nextID by at most one, over all Hub processes.                           *)
TypeOK ==
  /\ hub \in {"up", "stopping", "down"} /\ era \in 1 .. MaxEra
  /\ wedged \in BOOLEAN /\ nextID \in 0 .. dialled /\ dialled \in 0 .. MaxConn
  /\ card \in [Ids -> {"none", "live", "ended", "disconnected"}]
  /\ owner \in [Ids -> Wrappers \cup {NoWrapper}]
  /\ wrapperOf \in [Ids -> 0 .. dialled]
  /\ pend \in [Ids -> Seq(Inputs)] /\ flushing \subseteq Ids
  /\ sends \subseteq [id : Ids, via : 0 .. dialled, q : Seq(Inputs), retry : BOOLEAN]
  /\ doomed \subseteq 1 .. dialled
  /\ who \in [Conns -> Wrappers \cup {NoWrapper}]
  /\ kind \in [Conns -> {"none", "register", "reattach"}]
  /\ asked \in [Conns -> 0 .. dialled] /\ cid \in [Conns -> 0 .. dialled]
  /\ hpc \in [Conns -> {"none", "request", "numbered", "installed", "acked",
                        "serving", "gone"}]
  /\ net \in [Conns -> {"none", "open", "hubClosed", "hubDied", "peerClosed"}]
  /\ box \in [Conns -> Seq(Messages)] /\ bye \in [Conns -> BOOLEAN]
  /\ pty \in [Wrappers -> {"none", "live", "dead", "gone"}]
  /\ sup \in [Wrappers -> {"new", "registering", "watch", "grace", "await",
                           "reset", "over"}]
  /\ cur \in [Wrappers -> 0 .. dialled] /\ sid \in [Wrappers -> 0 .. dialled]
  /\ trial \in [Wrappers -> 0 .. dialled]
  /\ intentional \in [Wrappers -> BOOLEAN] /\ notice \in [Wrappers -> BOOLEAN]
  /\ readers \in [Wrappers -> SUBSET (1 .. dialled)]
  /\ typed \subseteq Inputs

(* notifyReconnect never blocks and the channel holds one token: that is    *)
(* enough.  While the CLI runs, either one receive loop reads the current   *)
(* connection and no token is left over from an earlier one, or none reads, *)
(* nothing is current, and the supervisor is busy or has a token to find.   *)
NoLostWakeup ==
  \A w \in Wrappers : pty[w] = "live" =>
    \/ /\ sup[w] \in {"watch", "reset"} /\ cur[w] # None
       /\ readers[w] = {cur[w]} /\ ~notice[w]
    \/ /\ sup[w] \in {"watch", "reset"} /\ cur[w] = None
       /\ readers[w] = {} /\ notice[w]
    \/ /\ sup[w] \in {"grace", "await"} /\ cur[w] = None
       /\ readers[w] = {} /\ ~notice[w]

(* The supervisor ends a CLI only after its connection is gone: no leftover *)
(* token ever kills a session that has been reattached.                     *)
Killed(w) == pty[w] = "live" /\ pty'[w] = "dead" /\ sup'[w] = "over"
KillsOnlyCutOff == [][\A w \in Wrappers : Killed(w) => cur[w] = None]_vars

(* Both ends agree on the number of a session, through renumbering and      *)
(* restarts: what a wrapper reattaches with next is where the Hub put it,   *)
(* or nothing, if hub_shutdown was taken for the reply to register.         *)
NumbersAgree ==
  \A w \in Wrappers : cur[w] # None => /\ who[cur[w]] = w
                                       /\ sid[w] \in {cid[cur[w]], None}

(* A served connection keeps its entry in the registry until it is broken,  *)
(* dismissed or killed: neither the late cleanup of an older connection nor *)
(* a stale handshake of the same wrapper takes it away.  Only a handshake   *)
(* of another wrapper, which chose the number while nobody had it and       *)
(* enters it later (wrapper_loop.go:339-348), may.                          *)
Loses(c) == hpc[c] = "serving" /\ net[c] = "open" /\ wrapperOf[cid[c]] = c /\ wrapperOf'[cid[c]] # c

EntryIsKept ==
  [][\A c \in Conns : Loses(c) =>
       \/ hub' = "down" \/ c \in doomed'
       \/ \E d \in Conns : /\ hpc[d] = "numbered" /\ hpc'[d] = "installed"
                           /\ cid[d] = cid[c] /\ who[d] # who[c]]_vars

(* Input does not come to wait behind a connection that can take it with no *)
(* goroutine to send it, whatever is installed, broken, removed or numbered *)
(* meanwhile.  Only a goroutine that had read the registry before that      *)
(* connection was entered, and comes back with input it could not send, may *)
(* leave it so: between input_gate.go:25 and 162, or 207 and 244, nothing   *)
(* looks again.  A registration starts no flush, as its number is new; but  *)
(* for another wrapper that asked for that number meanwhile.                *)
Outrun(c) == kind[c] = "register" /\ \E d \in Conns : asked[d] = cid[c] /\ who[d] # who[c]

Stranded(id) == /\ pend[id] # << >> /\ Reach(wrapperOf[id]) = "open"
                /\ id \notin flushing /\ ~Outrun(wrapperOf[id])

BacklogHasFlusher ==
  [][\A id \in Ids : ~Stranded(id) /\ Stranded(id)' =>
       \E s \in sends \ sends' : s.id = id /\ s.via # wrapperOf[id]]_vars

(* A CLI that has lost its Hub is reattached, or it is ended: the           *)
(* supervisor never leaves it running with nobody to talk to.               *)
CutOffEnds ==
  \A w \in Wrappers : pty[w] = "live" /\ cur[w] = None ~> cur[w] # None \/ pty[w] = "gone"

(* The registry forgets a broken connection, so that its number is free for *)
(* the reattach (wrapper_loop.go:339-341) and no input is sent to it.       *)
RegistryForgets ==
  \A c \in Conns : net[c] = "peerClosed" ~> c \notin Entries

(* The card of a wrapper that has exited does not stay "running".           *)
CardsSettle ==
  \A w \in Wrappers :
    pty[w] = "gone" ~> ~\E id \in Ids : owner[id] = w /\ card[id] = "live"
=============================================================================

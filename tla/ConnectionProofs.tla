-------------------------- MODULE ConnectionProofs --------------------------
(***************************************************************************)
(* The connections of the Hub.  First those of the wrappers, for any       *)
(* number of wrappers, connections and Hub processes: no wake-up of the    *)
(* reconnect supervisor is lost, and it ends only CLIs that are cut off.   *)
(* Then the registry: ids stay in range, both ends agree on the number of  *)
(* a session, an entry is kept as long as its connection is served, and    *)
(* waiting input has somebody to send it.  Last the browsers', for any set *)
(* of connections, goroutines, requests and wrappers: the idle timer gives *)
(* the wrappers up only after a whole period without a browser.            *)
(***************************************************************************)
EXTENDS WrapperLink, IdleTimer, FiniteSetTheorems, TLAPS


(* The state the argument is about, in the types it needs. *)
LocalType ==
  /\ dialled \in Nat
  /\ pty \in [Wrappers -> {"none", "live", "dead", "gone"}]
  /\ sup \in [Wrappers -> {"new", "registering", "watch", "grace", "await",
                           "reset", "over"}]
  /\ cur \in [Wrappers -> Nat]
  /\ trial \in [Wrappers -> Nat]
  /\ notice \in [Wrappers -> BOOLEAN]
  /\ readers \in [Wrappers -> SUBSET Nat]

(* Before registration there is no CLI and no token. *)
Unstarted ==
  \A w \in Wrappers : sup[w] \in {"new", "registering"} => ~notice[w]

(* A handshake waits on a connection. *)
Waiting ==
  \A w \in Wrappers : sup[w] \in {"registering", "await"} => trial[w] # None

WakeupInv == LocalType /\ Unstarted /\ Waiting /\ NoLostWakeup

(* A step of the Hub, of a user or of the environment leaves the wrappers   *)
(* and the number of connections alone (server.go, wrapper_loop.go and      *)
(* lifecycle.go reach a wrapper only through its sockets).                  *)
Elsewhere == UNCHANGED <<dialled, wrapper>>

LEMMA ElsewhereInv == WakeupInv /\ Elsewhere => WakeupInv'
  BY DEF WakeupInv, Elsewhere, wrapper, LocalType, Unstarted, Waiting, NoLostWakeup, None

(* The Hub's goroutine of a connection (wrapperLoop, reattachLoop,          *)
(* wrapperMessageLoop).                                                     *)
LEMMA HandlerElsewhere == ASSUME NEW c \in Conns, Handler(c) PROVE Elsewhere
  BY DEF Handler, Allocate, Reject, Renumber, Install, InstallWith, Acknowledge,
         Dismissed, Announce, AnnounceNil, SessionEnd, Cleanup, Unserve, Elsewhere,
         wire, wrapper

(* Dismissal, kill-all, shutdown, the end and the start of a Hub, and input. *)
LEMMA HubElsewhere ==
  ASSUME \/ \E c \in Conns : CloseDoomed(c)
         \/ \E i \in Inputs, id \in Ids : Submit(i, id)
         \/ \E id \in Ids : Flush(id) \/ Dismiss(id)
         \/ \E s \in sends : Finish(s)
         \/ KillAll \/ Shutdown \/ HubExits \/ HubCrashes \/ HubStarts \/ Rest
  PROVE  Elsewhere
  BY DEF CloseDoomed, Submit, Flush, Finish, Dismiss, KillAll, Shutdown, HubExits,
         HubCrashes, HubEnds, HubStarts, Rest, Elsewhere, wire, wrapper, vars

(* dialAndRegister, and the ends of Run (wrapper.go). *)
LEMMA MainInv ==
  ASSUME WakeupInv, NEW w \in Wrappers, Register(w) \/ Main(w) \/ PtyEnds(w)
  PROVE  WakeupInv'
<1> USE DEF WakeupInv, LocalType, Unstarted, Waiting, NoLostWakeup, None, wire, wrapper
<1>1. CASE Register(w)
  BY <1>1 DEF Register, DialHub
<1>2. CASE Registered(w)
  BY <1>2 DEF Registered
<1>3. CASE StartFails(w)
  BY <1>3 DEF StartFails
<1>4. CASE RegisterFails(w)
  BY <1>4 DEF RegisterFails
<1>5. CASE WrapperExits(w)
  BY <1>5 DEF WrapperExits
<1>6. CASE PtyEnds(w)
  BY <1>6 DEF PtyEnds
<1> QED
  BY <1>1, <1>2, <1>3, <1>4, <1>5, <1>6 DEF Main

(* startReceiveLoop: the loop that leaves puts its token into the channel. *)
LEMMA ReaderInv ==
  ASSUME WakeupInv, NEW w \in Wrappers, Reader(w)
  PROVE  WakeupInv'
<1> USE DEF WakeupInv, LocalType, Unstarted, Waiting, NoLostWakeup, None, wire, wrapper
<1> PICK c \in Conns : ReceiveInput(w, c) \/ ReceiveShutdown(w, c) \/ ReceiveFails(w, c)
  BY DEF Reader
<1>1. CASE ReceiveInput(w, c)
  BY <1>1 DEF ReceiveInput
<1>2. CASE ReceiveShutdown(w, c)
  BY ZenonT(60), <1>2 DEF ReceiveShutdown, LeaveLoop
<1>3. CASE ReceiveFails(w, c)
  BY SMTT(30), <1>3 DEF ReceiveFails, LeaveLoop
<1> QED
  BY <1>1, <1>2, <1>3

(* reconnectSupervisor.run. *)
LEMMA SupervisorInv ==
  ASSUME WakeupInv, NEW w \in Wrappers, Supervisor(w)
  PROVE  WakeupInv'
<1> USE DEF WakeupInv, LocalType, Unstarted, Waiting, NoLostWakeup, None, wire, wrapper
<1>1. CASE Wake(w)
  BY <1>1 DEF Wake, Kill
<1>2. CASE GraceExpires(w)
  BY <1>2 DEF GraceExpires, Kill
<1>3. CASE Reattach(w)
  BY <1>3 DEF Reattach, DialHub
<1>4. CASE Reattached(w)
  BY <1>4 DEF Reattached
<1>5. CASE ReattachRejected(w)
  BY <1>5 DEF ReattachRejected
<1>6. CASE ReattachRefused(w)
  BY <1>6 DEF ReattachRefused
<1>7. CASE ReattachFails(w)
  BY <1>7 DEF ReattachFails
<1>8. CASE ResetIntentional(w)
  BY <1>8 DEF ResetIntentional
<1> QED
  BY <1>1, <1>2, <1>3, <1>4, <1>5, <1>6, <1>7, <1>8 DEF Supervisor

(* Every step of the Hub and of the wrappers keeps the invariant. *)
LEMMA WakeupStep == WakeupInv /\ [Next]_vars => WakeupInv'
<1> SUFFICES ASSUME WakeupInv, [Next]_vars PROVE WakeupInv'
  OBVIOUS
<1>1. CASE \E w \in Wrappers : Register(w) \/ Main(w) \/ PtyEnds(w)
  BY <1>1, MainInv
<1>2. CASE \E w \in Wrappers : Reader(w)
  BY <1>2, ReaderInv
<1>3. CASE \E w \in Wrappers : Supervisor(w)
  BY <1>3, SupervisorInv
<1>4. CASE \E c \in Conns : Handler(c)
  BY <1>4, HandlerElsewhere, ElsewhereInv
<1>5. CASE \/ \E c \in Conns : CloseDoomed(c)
           \/ \E i \in Inputs, id \in Ids : Submit(i, id)
           \/ \E id \in Ids : Flush(id) \/ Dismiss(id)
           \/ \E s \in sends : Finish(s)
           \/ KillAll \/ Shutdown \/ HubExits \/ HubCrashes \/ HubStarts \/ Rest
  BY <1>5, HubElsewhere, ElsewhereInv
<1>6. CASE UNCHANGED vars
  BY <1>6, ElsewhereInv DEF vars, wire, Elsewhere
<1> QED
  BY <1>1, <1>2, <1>3, <1>4, <1>5, <1>6 DEF Next

(* Before the first dial nothing runs (the start of Run, wrapper.go). *)
LEMMA WakeupInit == Init => WakeupInv
  BY DEF Init, WakeupInv, LocalType, Unstarted, Waiting, NoLostWakeup, None

(* The channel of capacity one never loses the wake-up that matters: a      *)
(* running CLI has a receive loop on its current connection, or a           *)
(* supervisor that works or will find a token (wrapper.go:611-618).         *)
THEOREM WakeupNeverLost == Spec => []NoLostWakeup
<1>1. WakeupInv => NoLostWakeup
  BY DEF WakeupInv
<1> QED
  BY <1>1, WakeupInit, WakeupStep, PTL DEF Spec

(* The supervisor closes the PTY of cut-off wrappers only                   *)
(* (reconnectSupervisor.run, wrapper.go:166-239).                           *)
LEMMA KillStep ==
  WakeupInv /\ [Next]_vars => (\A w \in Wrappers : Killed(w) => cur[w] = None)
<1> SUFFICES ASSUME WakeupInv, [Next]_vars, NEW v \in Wrappers, Killed(v)
             PROVE  cur[v] = None
  OBVIOUS
<1> USE DEF WakeupInv, LocalType, NoLostWakeup, Killed
<1>1. CASE Elsewhere
  BY <1>1 DEF Elsewhere, wrapper
<1>2. CASE \E w \in Wrappers : Register(w) \/ Main(w) \/ PtyEnds(w)
  <2>1. PICK w \in Wrappers : Register(w) \/ Main(w) \/ PtyEnds(w)
    BY <1>2
  <2> QED
    BY <2>1 DEF Register, DialHub, Main, Registered, StartFails, RegisterFails,
                WrapperExits, PtyEnds
<1>3. CASE \E w \in Wrappers : Reader(w)
  BY <1>3 DEF Reader, ReceiveInput, ReceiveShutdown, ReceiveFails, LeaveLoop, wrapper
<1>4. CASE \E w \in Wrappers : Supervisor(w)
  <2>1. PICK w \in Wrappers : Supervisor(w)
    BY <1>4
  <2>2. CASE Wake(w)
    BY <2>2 DEF Wake, Kill
  <2>3. CASE GraceExpires(w) \/ ReattachRejected(w)
    BY <2>3 DEF GraceExpires, Kill, ReattachRejected
  <2>4. CASE Reattach(w) \/ Reattached(w) \/ ReattachRefused(w) \/ ReattachFails(w)
             \/ ResetIntentional(w)
    BY <2>4 DEF Reattach, DialHub, Reattached, ReattachRefused, ReattachFails,
                ResetIntentional
  <2> QED
    BY <2>1, <2>2, <2>3, <2>4 DEF Supervisor
<1>5. CASE \E c \in Conns : Handler(c)
  BY <1>5, <1>1, HandlerElsewhere
<1>6. CASE \/ \E c \in Conns : CloseDoomed(c)
           \/ \E i \in Inputs, id \in Ids : Submit(i, id)
           \/ \E id \in Ids : Flush(id) \/ Dismiss(id)
           \/ \E s \in sends : Finish(s)
           \/ KillAll \/ Shutdown \/ HubExits \/ HubCrashes \/ HubStarts \/ Rest
  BY <1>6, <1>1, HubElsewhere
<1>7. CASE UNCHANGED vars
  BY <1>7, <1>1 DEF vars, wire, Elsewhere
<1> QED
  BY <1>2, <1>3, <1>4, <1>5, <1>6, <1>7 DEF Next

(* A leftover token never ends a CLI that has been reattached.              *)
THEOREM KillOnlyCutOff == Spec => KillsOnlyCutOff
  BY WakeupInit, WakeupStep, KillStep, PTL DEF Spec, KillsOnlyCutOff

-----------------------------------------------------------------------------
(* The registry.                                                           *)
USE LinkBounds, LinkNames

-----------------------------------------------------------------------------
(* Types that do not depend on how many connections there are, in parts     *)
(* after who changes what.                                                  *)
HubType ==
  /\ hub \in {"up", "stopping", "down"} /\ era \in 1 .. MaxEra /\ wedged \in BOOLEAN
  /\ nextID \in Nat
  /\ card \in [Ids -> {"none", "live", "ended", "disconnected"}]
  /\ owner \in [Ids -> Wrappers \cup {NoWrapper}] /\ wrapperOf \in [Ids -> Conns \cup {None}]
  /\ pend \in [Ids -> Seq(Inputs)] /\ flushing \subseteq Ids /\ doomed \subseteq Conns
  /\ sends \subseteq [id : Ids, via : Conns \cup {None}, q : Seq(Inputs), retry : BOOLEAN]
  /\ typed \subseteq Inputs

WireType ==
  /\ dialled \in 0 .. MaxConn
  /\ who \in [Conns -> Wrappers \cup {NoWrapper}]
  /\ kind \in [Conns -> {"none", "register", "reattach"}]
  /\ asked \in [Conns -> Nat] /\ cid \in [Conns -> Nat]
  /\ hpc \in [Conns -> {"none", "request", "numbered", "installed", "acked", "serving", "gone"}]
  /\ net \in [Conns -> {"none", "open", "hubClosed", "hubDied", "peerClosed"}]
  /\ bye \in [Conns -> BOOLEAN]

WrapperType ==
  /\ pty \in [Wrappers -> {"none", "live", "dead", "gone"}]
  /\ sup \in [Wrappers -> {"new", "registering", "watch", "grace", "await", "reset", "over"}]
  /\ cur \in [Wrappers -> Conns \cup {None}] /\ sid \in [Wrappers -> Nat]
  /\ trial \in [Wrappers -> Conns \cup {None}]
  /\ intentional \in [Wrappers -> BOOLEAN] /\ notice \in [Wrappers -> BOOLEAN]
  /\ readers \in [Wrappers -> SUBSET Conns]

Types == HubType /\ WireType /\ WrapperType

(* A handler that has entered nothing yet. *)
Early == {"none", "request", "numbered"}

(* Connections are dialled in the order of their numbers. *)
Fresh ==
  \A c \in Conns : c > dialled => hpc[c] = "none" /\ asked[c] = None /\ net[c] = "none"

(* Connections whose handler has chosen a number.  Each raises nextID by at *)
(* most one, and a wrapper asks for no number but one it was given.         *)
Used == {c \in Conns : hpc[c] \notin {"none", "request"}}
High == Cardinality(Used)

Counted ==
  /\ nextID <= High
  /\ \A c \in Conns : cid[c] <= High /\ asked[c] <= High
  /\ \A w \in Wrappers : sid[w] <= High

(* A message to a wrapper names the number of its connection, or none. *)
MayHold(c) == [type : {"ack", "input", "shutdown", "reject"}, id : {cid[c], None},
               in : Inputs \cup {NoInput}]
Boxes ==
  /\ box = [c \in Conns |-> box[c]]
  /\ \A c \in Conns : box[c] \in Seq(MayHold(c)) /\ (box[c] # << >> => hpc[c] \notin Early)

(* A handler past its choice has a number. *)
Named ==
  \A c \in Conns : hpc[c] \in {"numbered", "installed", "acked", "serving"} => cid[c] # None

(* An entry is one of the connection with its number, also in the hands of  *)
(* a goroutine that read it.                                                *)
Linked ==
  /\ \A id \in Ids : wrapperOf[id] # None =>
       cid[wrapperOf[id]] = id /\ hpc[wrapperOf[id]] \notin Early
  /\ \A c \in doomed : hpc[c] \notin Early
  /\ \A s \in sends : s.via # None => cid[s.via] = s.id /\ hpc[s.via] \notin Early

(* A wrapper deals with connections of its own, and reattaches with the     *)
(* number of the current one.                                               *)
Own ==
  \A w \in Wrappers :
    /\ trial[w] # None => who[trial[w]] = w /\ hpc[trial[w]] # "none"
    /\ cur[w] # None => /\ who[cur[w]] = w /\ hpc[cur[w]] \notin Early
                        /\ sid[w] \in {cid[cur[w]], None}
    /\ \A c \in readers[w] : who[c] = w /\ hpc[c] \notin Early

-----------------------------------------------------------------------------
(* A connection that is dialled has the next number, and its handler begins *)
(* (dialAndRegister, tryReconnect).                                         *)
Dials(c, w, k, id, next) ==
  /\ c = dialled + 1 /\ dialled' = c /\ hub # "down"
  /\ hpc[c] = "none" /\ asked[c] = None /\ net[c] = "none"
  /\ who' = [who EXCEPT ![c] = w] /\ kind' = [kind EXCEPT ![c] = k]
  /\ asked' = [asked EXCEPT ![c] = id] /\ hpc' = [hpc EXCEPT ![c] = "request"]
  /\ net' = [net EXCEPT ![c] = "open"] /\ trial' = [trial EXCEPT ![w] = c]
  /\ sup' = [sup EXCEPT ![w] = next]
  /\ UNCHANGED <<hub, era, wedged, nextID, card, owner, wrapperOf, pend, flushing, sends, doomed,
                 cid, box, bye, pty, cur, sid, intentional, notice, readers, typed>>

(* Dialling is that, and nothing else. *)
LEMMA Dialled ==
  ASSUME WireType, Fresh, NEW w \in Wrappers, NEW k, NEW id, NEW next, DialHub(w, k, id, next)
  PROVE  \E c \in Conns : Dials(c, w, k, id, next)
<1>1. dialled + 1 \in Conns /\ dialled + 1 > dialled /\ hub # "down"
  BY DEF WireType, Conns, DialHub
<1>2. hpc[dialled + 1] = "none" /\ asked[dialled + 1] = None /\ net[dialled + 1] = "none"
  BY <1>1 DEF Fresh
<1>3. UNCHANGED <<hub, era, wedged, nextID, card, owner, wrapperOf, pend, flushing, sends, doomed,
                  cid, box, bye, pty, cur, sid, intentional, notice, readers, typed>>
  BY DEF DialHub, process, registry
<1> QED BY <1>1, <1>2, <1>3 DEF DialHub, Dials

Grows == Fresh' /\ dialled' \in 0 .. MaxConn /\ dialled <= dialled' /\ Used \subseteq Used'

(* The supervisor wakes up: it closes the PTY, or the grace period begins. *)
LEMMA Woken ==
  ASSUME NEW w \in Wrappers, Wake(w)
  PROVE  /\ pty[w] = "live" /\ sup[w] = "watch" /\ notice[w]
         /\ notice' = [notice EXCEPT ![w] = FALSE]
         /\ \/ pty' = [pty EXCEPT ![w] = "dead"] /\ sup' = [sup EXCEPT ![w] = "over"]
            \/ pty' = pty /\ sup' = [sup EXCEPT ![w] = "grace"]
         /\ UNCHANGED <<hub, era, wedged, nextID, card, owner, wrapperOf, pend, flushing, sends, doomed,
                        dialled, who, kind, asked, hpc, cid, net, box, bye,
                        cur, sid, trial, intentional, readers, typed>>
<1> PICK answer \in BOOLEAN :
       IF GivesUp(w, answer) THEN Kill(w)
       ELSE /\ sup' = [sup EXCEPT ![w] = "grace"]
            /\ UNCHANGED <<process, registry, doomed, handlers, wire, pty,
                           cur, sid, trial, intentional, readers, typed>>
  BY DEF Wake
<1>1. CASE GivesUp(w, answer)
  BY <1>1 DEF Wake, Kill, process, registry, handlers, wire
<1>2. CASE ~GivesUp(w, answer)
  BY <1>2 DEF Wake, process, registry, handlers, wire
<1> QED BY <1>1, <1>2

(* What a wrapper receives names its connection's number, or none. *)
LEMMA Received ==
  ASSUME WireType, Boxes, NEW c \in Conns, box[c] # << >>
  PROVE  /\ Head(box[c]).id \in {cid[c], None} /\ Head(box[c]).id \in Nat
         /\ Tail(box[c]) \in Seq(MayHold(c)) /\ hpc[c] \notin Early
<1>1. box[c] \in Seq(MayHold(c)) /\ hpc[c] \notin Early
  BY DEF Boxes
<1>2. Head(box[c]) \in MayHold(c) /\ Tail(box[c]) \in Seq(MayHold(c))
  BY <1>1
<1> QED BY <1>1, <1>2 DEF MayHold, WireType, None

(* What a wrapper does by itself, all but dialling, leaves the Hub's memory  *)
(* alone, and what the Hub does leaves the wrapper's alone.                 *)
Local(w) == Main(w) \/ Reader(w) \/ (Supervisor(w) /\ ~Reattach(w)) \/ PtyEnds(w)

Remote ==
  \/ \E c \in Conns : Handler(c) \/ CloseDoomed(c)
  \/ \E i \in Inputs, id \in Ids : Submit(i, id)
  \/ \E id \in Ids : Flush(id) \/ Dismiss(id)
  \/ \E s \in sends : Finish(s)
  \/ KillAll \/ Shutdown \/ HubExits \/ HubCrashes \/ HubStarts
  \/ UNCHANGED vars

HubKept ==
  /\ UNCHANGED <<hub, era, wedged, nextID, card, owner, wrapperOf, pend, flushing, sends, doomed,
                 dialled, who, kind, asked, hpc, cid, typed>>
  /\ net' = [c \in Conns |-> net'[c]]
  /\ \A c \in Conns : net'[c] = net[c] \/ (net[c] = "open" /\ net'[c] = "peerClosed")

(* A wrapper's own steps change nothing of the Hub, and of a socket only    *)
(* that it is left.                                                         *)
LEMMA LocalStep ==
  ASSUME WireType, NEW w \in Wrappers, Local(w)
  PROVE  HubKept
<1> USE DEF WireType, HubKept
<1>1. CASE Registered(w)
  BY <1>1 DEF Registered, process, registry, handlers, wire, wrapper
<1>2. CASE StartFails(w)
  BY <1>2 DEF StartFails, Unread, process, registry, handlers, wire, wrapper
<1>3. CASE RegisterFails(w)
  BY <1>3 DEF RegisterFails, Unread, process, registry, handlers, wire, wrapper
<1>4. CASE WrapperExits(w)
  BY <1>4 DEF WrapperExits, Unread, process, registry, handlers, wire, wrapper
<1>5. CASE PtyEnds(w)
  BY <1>5 DEF PtyEnds, process, registry, handlers, wire, wrapper
<1>6. CASE Wake(w)
  BY <1>6, Woken
<1>7. CASE GraceExpires(w)
  BY <1>7 DEF GraceExpires, Kill, process, registry, handlers, wire, wrapper
<1>8. CASE Reattached(w)
  BY <1>8 DEF Reattached, process, registry, handlers, wire, wrapper
<1>9. CASE ReattachRejected(w)
  BY <1>9 DEF ReattachRejected, Unread, process, registry, handlers, wire, wrapper
<1>10. CASE ReattachRefused(w)
  BY <1>10 DEF ReattachRefused, Unread, process, registry, handlers, wire, wrapper
<1>11. CASE ReattachFails(w)
  BY <1>11 DEF ReattachFails, Unread, process, registry, handlers, wire, wrapper
<1>12. CASE ResetIntentional(w)
  BY <1>12 DEF ResetIntentional, process, registry, handlers, wire, wrapper
<1>13. ASSUME NEW c \in Conns, ReceiveInput(w, c) PROVE HubKept
  BY <1>13 DEF ReceiveInput, process, registry, handlers, wire, wrapper
<1>14. ASSUME NEW c \in Conns, ReceiveShutdown(w, c) PROVE HubKept
  BY <1>14 DEF ReceiveShutdown, LeaveLoop, Unread, process, registry, handlers, wire, wrapper
<1>15. ASSUME NEW c \in Conns, ReceiveFails(w, c) PROVE HubKept
  BY <1>15 DEF ReceiveFails, LeaveLoop, Unread, process, registry, handlers, wire, wrapper
<1> QED
  BY <1>1, <1>2, <1>3, <1>4, <1>5, <1>6, <1>7, <1>8, <1>9, <1>10, <1>11, <1>12, <1>13, <1>14,
     <1>15
  DEF Local, Main, Reader, Supervisor

(* No step of the Hub changes what a wrapper knows. *)
LEMMA RemoteStep ==
  ASSUME Remote
  PROVE  UNCHANGED <<pty, sup, cur, sid, trial, intentional, notice, readers>>
<1>1. ASSUME NEW c \in Conns, Allocate(c) PROVE UNCHANGED wrapper
  BY <1>1 DEF Allocate, wrapper
<1>2. ASSUME NEW c \in Conns, Reject(c) PROVE UNCHANGED wrapper
  BY <1>2 DEF Reject, wrapper
<1>3. ASSUME NEW c \in Conns, Renumber(c) PROVE UNCHANGED wrapper
  BY <1>3 DEF Renumber, wrapper
<1>4. ASSUME NEW c \in Conns, Install(c) PROVE UNCHANGED wrapper
  BY <1>4 DEF Install, InstallWith, wrapper
<1>5. ASSUME NEW c \in Conns, Acknowledge(c) PROVE UNCHANGED wrapper
  BY <1>5 DEF Acknowledge, wrapper
<1>6. ASSUME NEW c \in Conns, Dismissed(c) PROVE UNCHANGED wrapper
  BY <1>6 DEF Dismissed, wrapper
<1>7. ASSUME NEW c \in Conns, Announce(c) PROVE UNCHANGED wrapper
  BY <1>7 DEF Announce, wrapper
<1>8. ASSUME NEW c \in Conns, AnnounceNil(c) PROVE UNCHANGED wrapper
  BY <1>8 DEF AnnounceNil, wrapper
<1>9. ASSUME NEW c \in Conns, SessionEnd(c) PROVE UNCHANGED wrapper
  BY <1>9 DEF SessionEnd, wrapper
<1>10. ASSUME NEW c \in Conns, Cleanup(c) PROVE UNCHANGED wrapper
  BY <1>10 DEF Cleanup, Unserve, wrapper
<1>11. ASSUME NEW c \in Conns, CloseDoomed(c) PROVE UNCHANGED wrapper
  BY <1>11 DEF CloseDoomed, wrapper
<1>12. ASSUME NEW i \in Inputs, NEW id \in Ids, Submit(i, id) PROVE UNCHANGED wrapper
  BY <1>12 DEF Submit, wrapper
<1>13. ASSUME NEW id \in Ids, Flush(id) PROVE UNCHANGED wrapper
  BY <1>13 DEF Flush, wrapper
<1>f. ASSUME NEW s \in sends, Finish(s) PROVE UNCHANGED wrapper
  BY <1>f DEF Finish, process, handlers, wrapper
<1>14. ASSUME NEW id \in Ids, Dismiss(id) PROVE UNCHANGED wrapper
  BY <1>14 DEF Dismiss, wrapper
<1>15. ASSUME KillAll PROVE UNCHANGED wrapper
  BY <1>15 DEF KillAll, wrapper
<1>16. ASSUME Shutdown PROVE UNCHANGED wrapper
  BY <1>16 DEF Shutdown, wrapper
<1>17. ASSUME HubEnds PROVE UNCHANGED wrapper
  BY <1>17 DEF HubEnds, wrapper
<1>18. ASSUME HubStarts PROVE UNCHANGED wrapper
  BY <1>18 DEF HubStarts, wrapper
<1>19. ASSUME UNCHANGED vars PROVE UNCHANGED wrapper
  BY <1>19 DEF vars, wrapper
<1> QED
  BY <1>f, <1>1, <1>2, <1>3, <1>4, <1>5, <1>6, <1>7, <1>8, <1>9, <1>10, <1>11, <1>12, <1>13, <1>14,
     <1>15, <1>16, <1>17, <1>18, <1>19
  DEF wrapper, Remote, Handler, HubExits, HubCrashes

(* What a handler has chosen stays: no step gives a connection another      *)
(* number, or makes its handler begin again.                                *)
Settled ==
  \A c \in Conns :
    /\ hpc[c] # "none" => /\ hpc'[c] # "none" /\ kind'[c] = kind[c]
                          /\ (net'[c] = "open" => net[c] = "open")
    /\ hpc[c] # "none" \/ asked[c] # None => who'[c] = who[c] /\ asked'[c] = asked[c]
    /\ hpc[c] \notin Early => hpc'[c] \notin Early /\ cid'[c] = cid[c]

(* A step that only takes messages out keeps what is said of them. *)
LEMMA BoxFrame ==
  ASSUME Boxes, Settled, box' = [c \in Conns |-> box'[c]],
         \A c \in Conns : \/ box'[c] = box[c] \/ box'[c] = << >>
                          \/ box[c] # << >> /\ box'[c] = Tail(box[c])
  PROVE  Boxes'
<1>1. ASSUME NEW c \in Conns
      PROVE  box'[c] \in Seq(MayHold(c)') /\ (box'[c] # << >> => hpc'[c] \notin Early)
  <2>1. box[c] \in Seq(MayHold(c)) /\ (box[c] # << >> => hpc[c] \notin Early)
    BY DEF Boxes
  <2>2. CASE box'[c] = << >>
    BY <2>2
  <2>3. CASE box'[c] # << >>
    <3>1. box[c] # << >>
      BY <2>3
    <3>2. MayHold(c)' = MayHold(c) /\ hpc'[c] \notin Early
      BY <2>1, <3>1 DEF MayHold, Settled, Early
    <3>3. Tail(box[c]) \in Seq(MayHold(c))
      BY <2>1, <3>1
    <3> QED BY <2>1, <2>3, <3>2, <3>3
  <2> QED BY <2>2, <2>3
<1> QED BY <1>1 DEF Boxes

(* So does a step that sends to one connection whose number is settled. *)
LEMMA BoxSend ==
  ASSUME Boxes, Settled, NEW c \in Conns, NEW q \in Seq(MayHold(c)), UNCHANGED cid,
         box' = box \/ box' = [box EXCEPT ![c] = @ \o q], hpc'[c] \notin Early
  PROVE  Boxes'
<1>1. \A d \in Conns : MayHold(d)' = MayHold(d)
  BY DEF MayHold
<1>2. ASSUME NEW d \in Conns
      PROVE  box'[d] \in Seq(MayHold(d)) /\ (box'[d] # << >> => hpc'[d] \notin Early)
  <2>1. box[d] \in Seq(MayHold(d)) /\ (box[d] # << >> => hpc[d] \notin Early)
    BY DEF Boxes
  <2>2. CASE box'[d] = box[d]
    BY <2>1, <2>2 DEF Settled
  <2>3. CASE d = c /\ box'[d] = box[d] \o q
    <3>1. box[d] \o q \in Seq(MayHold(d))
      BY <2>1, <2>3
    <3> QED BY <2>3, <3>1
  <2> QED BY <2>2, <2>3 DEF Boxes
<1>3. box' = [d \in Conns |-> box'[d]]
  BY DEF Boxes
<1> QED BY <1>1, <1>2, <1>3 DEF Boxes

Takes == /\ box' = [c \in Conns |-> box'[c]]
         /\ \A c \in Conns : \/ box'[c] = box[c] \/ box'[c] = << >>
                             \/ box[c] # << >> /\ box'[c] = Tail(box[c])

(* A wrapper's connections are still its own after a step of the Hub. *)
LEMMA OwnFrame ==
  ASSUME WrapperType, Own, Settled, UNCHANGED <<cur, sid, trial, readers>>
  PROVE  Own'
<1> SUFFICES ASSUME NEW w \in Wrappers
             PROVE  /\ trial[w] # None => who'[trial[w]] = w /\ hpc'[trial[w]] # "none"
                    /\ cur[w] # None => /\ who'[cur[w]] = w /\ hpc'[cur[w]] \notin Early
                                        /\ sid[w] \in {cid'[cur[w]], None}
                    /\ \A c \in readers[w] : who'[c] = w /\ hpc'[c] \notin Early
  BY DEF Own
<1>1. /\ trial[w] \in Conns \cup {None} /\ cur[w] \in Conns \cup {None} /\ readers[w] \subseteq Conns
  BY DEF WrapperType
<1> QED BY <1>1 DEF Own, Settled, Early

(* Connections keep being dialled in order, and a number once chosen by a   *)
(* handler stays chosen (allocateID, handleReattach).                       *)
LEMMA FreshStep ==
  ASSUME WireType, Fresh, [Next]_vars
  PROVE  Grows
<1> USE DEF WireType, Fresh, Used, Conns, None, Grows
<1>1. ASSUME NEW w \in Wrappers, Register(w) PROVE Grows
  <2>1. PICK c \in Conns : Dials(c, w, "register", None, "registering")
    BY <1>1, Dialled DEF Register
  <2> QED BY <1>1, <2>1 DEF Dials, Register
<1>2. ASSUME NEW w \in Wrappers, Reattach(w) PROVE Grows
  <2>1. PICK c \in Conns : Dials(c, w, "reattach", sid[w], "await")
    BY <1>2, Dialled DEF Reattach
  <2> QED BY <1>2, <2>1 DEF Dials, Reattach
<1>3. ASSUME NEW w \in Wrappers, Local(w) PROVE Grows
  BY <1>3, LocalStep DEF HubKept
<1>4. ASSUME NEW c \in Conns, Allocate(c) PROVE Grows
  BY <1>4 DEF Allocate, process, registry, handlers, wire, wrapper
<1>5. ASSUME NEW c \in Conns, Reject(c) PROVE Grows
  BY <1>5 DEF Reject, Return, Deliver, ReattachReject, process, registry, handlers, wire,
     wrapper
<1>6. ASSUME NEW c \in Conns, Renumber(c) PROVE Grows
  BY <1>6 DEF Renumber, process, registry, handlers, wire, wrapper
<1>7. ASSUME NEW c \in Conns, Install(c) PROVE Grows
  BY <1>7 DEF Install, InstallWith, process, registry, handlers, wire, wrapper
<1>8. ASSUME NEW c \in Conns, Acknowledge(c) PROVE Grows
  BY <1>8 DEF Acknowledge, Deliver, StillRegistered, Ack, process, registry, handlers, wire,
     wrapper
<1>9. ASSUME NEW c \in Conns, Dismissed(c) PROVE Grows
  BY <1>9 DEF Dismissed, Return, process, registry, handlers, wire, wrapper
<1>10. ASSUME NEW c \in Conns, Announce(c) PROVE Grows
  BY <1>10 DEF Announce, process, registry, handlers, wire, wrapper
<1>11. ASSUME NEW c \in Conns, AnnounceNil(c) PROVE Grows
  BY <1>11 DEF AnnounceNil, Return, process, registry, handlers, wire, wrapper
<1>12. ASSUME NEW c \in Conns, SessionEnd(c) PROVE Grows
  BY <1>12 DEF SessionEnd, process, registry, handlers, wire, wrapper
<1>13. ASSUME NEW c \in Conns, Cleanup(c) PROVE Grows
  BY <1>13 DEF Cleanup, Unserve, Return, Entry, process, registry, handlers, wire, wrapper
<1>14. ASSUME NEW c \in Conns, CloseDoomed(c) PROVE Grows
  BY <1>14 DEF CloseDoomed, process, registry, handlers, wire, wrapper
<1>15. ASSUME NEW i \in Inputs, NEW id \in Ids, Submit(i, id) PROVE Grows
  BY <1>15 DEF Submit, process, registry, handlers, wire, wrapper
<1>16. ASSUME NEW id \in Ids, Flush(id) PROVE Grows
  BY <1>16 DEF Flush, process, registry, handlers, wire, wrapper
<1>f. ASSUME NEW s \in sends, Finish(s) PROVE Grows
  BY <1>f DEF Finish, process, handlers, wrapper
<1>17. ASSUME NEW id \in Ids, Dismiss(id) PROVE Grows
  BY <1>17 DEF Dismiss, process, registry, handlers, wire, wrapper
<1>18. ASSUME KillAll PROVE Grows
  BY <1>18 DEF KillAll, Entries, HubShutdown, process, registry, handlers, wire, wrapper
<1>19. ASSUME Shutdown PROVE Grows
  BY <1>19 DEF Shutdown, Entries, HubShutdown, process, registry, handlers, wire, wrapper
<1>20. ASSUME HubEnds PROVE Grows
  BY <1>20 DEF HubEnds, process, registry, handlers, wire, wrapper
<1>21. ASSUME HubStarts PROVE Grows
  BY <1>21 DEF HubStarts, process, registry, handlers, wire, wrapper
<1>22. ASSUME UNCHANGED vars PROVE Grows
  BY <1>22 DEF vars, process, registry, handlers, wire, wrapper
<1> QED
  BY <1>f, <1>1, <1>2, <1>3, <1>4, <1>5, <1>6, <1>7, <1>8, <1>9, <1>10, <1>11, <1>12, <1>13,
     <1>14, <1>15, <1>16, <1>17, <1>18, <1>19, <1>20, <1>21, <1>22
  DEF Next, Local, Handler, HubExits, HubCrashes, Rest

(* The registry keeps its type: ids that are entered are ids, backlogs hold *)
(* inputs.                                                                  *)
LEMMA HubTypeStep ==
  ASSUME HubType, WireType, WrapperType, Fresh, Named, High \in Nat, High <= MaxConn, Counted,
         [Next]_vars
  PROVE  HubType'
<1> USE DEF HubType
<1>1. ASSUME NEW w \in Wrappers, Register(w) PROVE HubType'
  <2>1. PICK c \in Conns : Dials(c, w, "register", None, "registering")
    BY <1>1, Dialled DEF Register
  <2> QED BY <1>1, <2>1 DEF Dials, Register
<1>2. ASSUME NEW w \in Wrappers, Reattach(w) PROVE HubType'
  <2>1. PICK c \in Conns : Dials(c, w, "reattach", sid[w], "await")
    BY <1>2, Dialled DEF Reattach
  <2> QED BY <1>2, <2>1 DEF Dials, Reattach
<1>3. ASSUME NEW w \in Wrappers, Local(w) PROVE HubType'
  BY <1>3, LocalStep DEF HubKept
<1>4. ASSUME NEW c \in Conns, Allocate(c) PROVE HubType'
  BY <1>4 DEF Allocate, process, registry, handlers, wire, wrapper
<1>5. ASSUME NEW c \in Conns, Reject(c) PROVE HubType'
  BY <1>5 DEF Reject, Return, Deliver, ReattachReject, process, registry, handlers, wire,
     wrapper
<1>6. ASSUME NEW c \in Conns, Renumber(c) PROVE HubType'
  <2>1. asked[c] \in Nat /\ nextID' = Larger(nextID, cid'[c]) /\ cid'[c] \in {asked[c], nextID + 1}
    BY <1>6 DEF Renumber, WireType
  <2>2. nextID' \in Nat
    BY <2>1 DEF Larger
  <2> QED BY <1>6, <2>2 DEF Renumber, process
<1>7. ASSUME NEW c \in Conns, Install(c) PROVE HubType'
  <2>1. cid[c] \in Ids /\ who[c] \in Wrappers \cup {NoWrapper}
    BY <1>7 DEF Install, InstallWith, WireType, Named, Counted, Ids, None
  <2>2. nextID' \in Nat
    BY <1>7, <2>1 DEF Install, InstallWith, Larger, Ids
  <2> QED BY <1>7, <2>1, <2>2 DEF Install, InstallWith, process
<1>8. ASSUME NEW c \in Conns, Acknowledge(c) PROVE HubType'
  BY <1>8 DEF Acknowledge, Deliver, StillRegistered, Ack, process, registry, handlers, wire,
     wrapper
<1>9. ASSUME NEW c \in Conns, Dismissed(c) PROVE HubType'
  BY <1>9 DEF Dismissed, Return, process, registry, handlers, wire, wrapper
<1>10. ASSUME NEW c \in Conns, Announce(c) PROVE HubType'
  BY <1>10 DEF Announce, process, registry, handlers, wire, wrapper
<1>11. ASSUME NEW c \in Conns, AnnounceNil(c) PROVE HubType'
  BY <1>11 DEF AnnounceNil, Return, process, registry, handlers, wire, wrapper
<1>12. ASSUME NEW c \in Conns, SessionEnd(c) PROVE HubType'
  BY <1>12 DEF SessionEnd, process, registry, handlers, wire, wrapper
<1>13. ASSUME NEW c \in Conns, Cleanup(c) PROVE HubType'
  BY <1>13 DEF Cleanup, Unserve, Return, Entry, process, registry, handlers, wire, wrapper
<1>14. ASSUME NEW c \in Conns, CloseDoomed(c) PROVE HubType'
  BY <1>14 DEF CloseDoomed, process, registry, handlers, wire, wrapper
<1>15. ASSUME NEW i \in Inputs, NEW id \in Ids, Submit(i, id) PROVE HubType'
  <2>1. sends' = sends \cup {Holding(id, <<i>>, FALSE)} /\ typed' = typed \cup {i}
    BY <1>15 DEF Submit
  <2>2. <<i>> \in Seq(Inputs) /\ Holding(id, <<i>>, FALSE)
          \in [id : Ids, via : Conns \cup {None}, q : Seq(Inputs), retry : BOOLEAN]
    BY <1>15 DEF Holding
  <2>3. UNCHANGED <<hub, era, wedged, nextID, card, owner, wrapperOf, pend, flushing, doomed>>
    BY <1>15 DEF Submit, process
  <2> QED BY <2>1, <2>2, <2>3
<1>16. ASSUME NEW id \in Ids, Flush(id) PROVE HubType'
  <2>1. /\ pend' \in {pend, [pend EXCEPT ![id] = << >>]} /\ flushing' = flushing \ {id}
        /\ sends' \in {sends, sends \cup {Holding(id, pend[id], TRUE)}}
    BY <1>16 DEF Flush
  <2>2. UNCHANGED <<hub, era, wedged, nextID, card, owner, wrapperOf, typed, doomed>>
    BY <1>16 DEF Flush, process
  <2>3. << >> \in Seq(Inputs) /\ pend[id] \in Seq(Inputs)
    OBVIOUS
  <2>4. Holding(id, pend[id], TRUE)
          \in [id : Ids, via : Conns \cup {None}, q : Seq(Inputs), retry : BOOLEAN]
    BY <1>16, <2>3 DEF Holding
  <2>5. sends' \subseteq [id : Ids, via : Conns \cup {None}, q : Seq(Inputs), retry : BOOLEAN]
    BY <2>1, <2>4
  <2>6. pend' \in [Ids -> Seq(Inputs)]
    BY <2>1, <2>3
  <2> QED BY <2>1, <2>2, <2>5, <2>6
<1>f. ASSUME NEW s \in sends, Finish(s) PROVE HubType'
  <2>1. s.id \in Ids /\ s.q \in Seq(Inputs)
    OBVIOUS
  <2>2. pend' \in {pend, [pend EXCEPT ![s.id] = s.q \o @], [pend EXCEPT ![s.id] = @ \o s.q]}
        /\ sends' \subseteq sends
    BY <1>f DEF Finish, Transmit, Requeue, Discard
  <2>3. UNCHANGED <<hub, era, wedged, nextID, card, owner, wrapperOf, flushing, typed, doomed>>
    BY <1>f DEF Finish, process
  <2>4. pend[s.id] \in Seq(Inputs)
    BY <2>1
  <2>5. s.q \o pend[s.id] \in Seq(Inputs) /\ pend[s.id] \o s.q \in Seq(Inputs)
    BY <2>1, <2>4
  <2>6. pend' \in [Ids -> Seq(Inputs)]
    BY <2>1, <2>2, <2>5
  <2> QED BY <2>2, <2>3, <2>6
<1>17. ASSUME NEW id \in Ids, Dismiss(id) PROVE HubType'
  BY <1>17 DEF Dismiss, process, registry, handlers, wire, wrapper
<1>18. ASSUME KillAll PROVE HubType'
  <2>1. Entries \subseteq Conns
    BY DEF Entries, None
  <2> QED BY <1>18, <2>1 DEF KillAll, process, registry
<1>19. ASSUME Shutdown PROVE HubType'
  BY <1>19 DEF Shutdown, Entries, HubShutdown, process, registry, handlers, wire, wrapper
<1>20. ASSUME HubEnds PROVE HubType'
  <2>1. << >> \in Seq(Inputs)
    OBVIOUS
  <2> QED BY <1>20, <2>1 DEF HubEnds
<1>21. ASSUME HubStarts PROVE HubType'
  BY <1>21 DEF HubStarts, process, registry, handlers, wire, wrapper
<1>22. ASSUME UNCHANGED vars PROVE HubType'
  BY <1>22 DEF vars, process, registry, handlers, wire, wrapper
<1> QED
  BY <1>f, <1>1, <1>2, <1>3, <1>4, <1>5, <1>6, <1>7, <1>8, <1>9, <1>10, <1>11, <1>12, <1>13,
     <1>14, <1>15, <1>16, <1>17, <1>18, <1>19, <1>20, <1>21, <1>22
  DEF Next, Local, Handler, HubExits, HubCrashes, Rest

(* So does what is known of each connection. *)
LEMMA WireTypeStep ==
  ASSUME HubType, WireType, WrapperType, Fresh, Named, High \in Nat, High <= MaxConn, Counted,
         [Next]_vars
  PROVE  WireType'
<1> USE DEF HubType, WireType, WrapperType
<1>1. ASSUME NEW w \in Wrappers, Register(w) PROVE WireType'
  <2>1. PICK c \in Conns : Dials(c, w, "register", None, "registering")
    BY <1>1, Dialled DEF Register
  <2> QED BY <1>1, <2>1 DEF Dials, Register, None, Conns
<1>2. ASSUME NEW w \in Wrappers, Registered(w) PROVE WireType'
  BY <1>2 DEF Registered, process, registry, handlers, wire, wrapper
<1>3. ASSUME NEW w \in Wrappers, StartFails(w) PROVE WireType'
  BY <1>3 DEF StartFails, Unread, process, registry, handlers, wire, wrapper
<1>4. ASSUME NEW w \in Wrappers, RegisterFails(w) PROVE WireType'
  BY <1>4 DEF RegisterFails, Unread, process, registry, handlers, wire, wrapper
<1>5. ASSUME NEW w \in Wrappers, WrapperExits(w) PROVE WireType'
  BY <1>5 DEF WrapperExits, Unread, process, registry, handlers, wire, wrapper
<1>6. ASSUME NEW w \in Wrappers, PtyEnds(w) PROVE WireType'
  BY <1>6 DEF PtyEnds, process, registry, handlers, wire, wrapper
<1>7. ASSUME NEW w \in Wrappers, Wake(w) PROVE WireType'
  BY <1>7, Woken
<1>8. ASSUME NEW w \in Wrappers, GraceExpires(w) PROVE WireType'
  BY <1>8 DEF GraceExpires, Kill, process, registry, handlers, wire, wrapper
<1>9. ASSUME NEW w \in Wrappers, Reattach(w) PROVE WireType'
  <2>1. PICK c \in Conns : Dials(c, w, "reattach", sid[w], "await")
    BY <1>9, Dialled DEF Reattach
  <2> QED BY <1>9, <2>1 DEF Dials, Reattach, None, Conns
<1>10. ASSUME NEW w \in Wrappers, Reattached(w) PROVE WireType'
  BY <1>10 DEF Reattached, process, registry, handlers, wire, wrapper
<1>11. ASSUME NEW w \in Wrappers, ReattachRejected(w) PROVE WireType'
  BY <1>11 DEF ReattachRejected, Unread, process, registry, handlers, wire, wrapper
<1>12. ASSUME NEW w \in Wrappers, ReattachRefused(w) PROVE WireType'
  BY <1>12 DEF ReattachRefused, Unread, process, registry, handlers, wire, wrapper
<1>13. ASSUME NEW w \in Wrappers, ReattachFails(w) PROVE WireType'
  BY <1>13 DEF ReattachFails, Unread, process, registry, handlers, wire, wrapper
<1>14. ASSUME NEW w \in Wrappers, ResetIntentional(w) PROVE WireType'
  BY <1>14 DEF ResetIntentional, process, registry, handlers, wire, wrapper
<1>15. ASSUME NEW w \in Wrappers, NEW c \in Conns, ReceiveInput(w, c) PROVE WireType'
  BY <1>15 DEF ReceiveInput, process, registry, handlers, wire, wrapper
<1>16. ASSUME NEW w \in Wrappers, NEW c \in Conns, ReceiveShutdown(w, c) PROVE WireType'
  BY <1>16 DEF ReceiveShutdown, LeaveLoop, Unread, process, registry, handlers, wire, wrapper
<1>17. ASSUME NEW w \in Wrappers, NEW c \in Conns, ReceiveFails(w, c) PROVE WireType'
  BY <1>17 DEF ReceiveFails, LeaveLoop, Unread, process, registry, handlers, wire, wrapper
<1>18. ASSUME NEW c \in Conns, Allocate(c) PROVE WireType'
  BY <1>18 DEF Allocate, process, registry, handlers, wire, wrapper
<1>19. ASSUME NEW c \in Conns, Reject(c) PROVE WireType'
  BY <1>19 DEF Reject, Return, Deliver, ReattachReject, process, registry, handlers, wire,
     wrapper
<1>20. ASSUME NEW c \in Conns, Renumber(c) PROVE WireType'
  BY <1>20 DEF Renumber, process, registry, handlers, wire, wrapper
<1>21. ASSUME NEW c \in Conns, Install(c) PROVE WireType'
  BY <1>21 DEF Install, InstallWith, process, registry, handlers, wire, wrapper
<1>22. ASSUME NEW c \in Conns, Acknowledge(c) PROVE WireType'
  BY <1>22 DEF Acknowledge, Deliver, StillRegistered, Ack, process, registry, handlers, wire,
     wrapper
<1>23. ASSUME NEW c \in Conns, Dismissed(c) PROVE WireType'
  BY <1>23 DEF Dismissed, Return, process, registry, handlers, wire, wrapper
<1>24. ASSUME NEW c \in Conns, Announce(c) PROVE WireType'
  BY <1>24 DEF Announce, process, registry, handlers, wire, wrapper
<1>25. ASSUME NEW c \in Conns, AnnounceNil(c) PROVE WireType'
  BY <1>25 DEF AnnounceNil, Return, process, registry, handlers, wire, wrapper
<1>26. ASSUME NEW c \in Conns, SessionEnd(c) PROVE WireType'
  BY <1>26 DEF SessionEnd, process, registry, handlers, wire, wrapper
<1>27. ASSUME NEW c \in Conns, Cleanup(c) PROVE WireType'
  BY <1>27 DEF Cleanup, Unserve, Return, Entry, process, registry, handlers, wire, wrapper
<1>28. ASSUME NEW c \in Conns, CloseDoomed(c) PROVE WireType'
  BY <1>28 DEF CloseDoomed, process, registry, handlers, wire, wrapper
<1>29. ASSUME NEW i \in Inputs, NEW id \in Ids, Submit(i, id) PROVE WireType'
  BY <1>29 DEF Submit, process, registry, handlers, wire, wrapper
<1>30. ASSUME NEW id \in Ids, Flush(id) PROVE WireType'
  BY <1>30 DEF Flush, process, registry, handlers, wire, wrapper
<1>f. ASSUME NEW s \in sends, Finish(s) PROVE WireType'
  BY <1>f DEF Finish, process, handlers, wrapper
<1>31. ASSUME NEW id \in Ids, Dismiss(id) PROVE WireType'
  BY <1>31 DEF Dismiss, process, registry, handlers, wire, wrapper
<1>32. ASSUME KillAll PROVE WireType'
  BY <1>32 DEF KillAll, Entries, HubShutdown, process, registry, handlers, wire, wrapper
<1>33. ASSUME Shutdown PROVE WireType'
  BY <1>33 DEF Shutdown, Entries, HubShutdown, process, registry, handlers, wire, wrapper
<1>34. ASSUME HubEnds PROVE WireType'
  BY <1>34 DEF HubEnds, process, registry, handlers, wire, wrapper
<1>35. ASSUME HubStarts PROVE WireType'
  BY <1>35 DEF HubStarts, process, registry, handlers, wire, wrapper
<1>36. ASSUME UNCHANGED vars PROVE WireType'
  BY <1>36 DEF vars, process, registry, handlers, wire, wrapper
<1> QED
  BY <1>f, <1>1, <1>2, <1>3, <1>4, <1>5, <1>6, <1>7, <1>8, <1>9, <1>10, <1>11, <1>12, <1>13,
     <1>14, <1>15, <1>16, <1>17, <1>18, <1>19, <1>20, <1>21, <1>22, <1>23, <1>24, <1>25,
     <1>26, <1>27, <1>28, <1>29, <1>30, <1>31, <1>32, <1>33, <1>34, <1>35, <1>36
  DEF Next, Main, Reader, Supervisor, Handler, HubExits, HubCrashes, Rest

(* And the wrapper's end: an id it adopts comes out of a reply (swapConn). *)
LEMMA WrapperTypeStep ==
  ASSUME HubType, WireType, WrapperType, Fresh, Named, High \in Nat, High <= MaxConn, Counted,
         Boxes, WakeupInv, [Next]_vars
  PROVE  WrapperType'
<1> USE DEF WrapperType
<1>1. ASSUME NEW w \in Wrappers, Register(w) PROVE WrapperType'
  <2>1. PICK c \in Conns : Dials(c, w, "register", None, "registering")
    BY <1>1, Dialled DEF Register
  <2> QED BY <1>1, <2>1 DEF Dials, Register
<1>2. ASSUME NEW w \in Wrappers, Registered(w) PROVE WrapperType'
  <2>1. trial[w] \in Conns
    BY <1>2 DEF Registered, WakeupInv, Waiting
  <2>2. Head(box[trial[w]]).id \in Nat
    BY <1>2, <2>1, Received DEF Registered
  <2> QED BY <1>2, <2>1, <2>2 DEF Registered
<1>3. ASSUME NEW w \in Wrappers, StartFails(w) PROVE WrapperType'
  BY <1>3 DEF StartFails, Unread, process, registry, handlers, wire, wrapper
<1>4. ASSUME NEW w \in Wrappers, RegisterFails(w) PROVE WrapperType'
  BY <1>4 DEF RegisterFails, Unread, process, registry, handlers, wire, wrapper
<1>5. ASSUME NEW w \in Wrappers, WrapperExits(w) PROVE WrapperType'
  BY <1>5 DEF WrapperExits, Unread, process, registry, handlers, wire, wrapper
<1>6. ASSUME NEW w \in Wrappers, PtyEnds(w) PROVE WrapperType'
  BY <1>6 DEF PtyEnds, process, registry, handlers, wire, wrapper
<1>7. ASSUME NEW w \in Wrappers, Wake(w) PROVE WrapperType'
  BY <1>7, Woken
<1>8. ASSUME NEW w \in Wrappers, GraceExpires(w) PROVE WrapperType'
  BY <1>8 DEF GraceExpires, Kill, process, registry, handlers, wire, wrapper
<1>9. ASSUME NEW w \in Wrappers, Reattach(w) PROVE WrapperType'
  <2>1. PICK c \in Conns : Dials(c, w, "reattach", sid[w], "await")
    BY <1>9, Dialled DEF Reattach
  <2> QED BY <1>9, <2>1 DEF Dials, Reattach
<1>10. ASSUME NEW w \in Wrappers, Reattached(w) PROVE WrapperType'
  <2>1. trial[w] \in Conns
    BY <1>10 DEF Reattached, WakeupInv, Waiting
  <2>2. Head(box[trial[w]]).id \in Nat
    BY <1>10, <2>1, Received DEF Reattached
  <2> QED BY <1>10, <2>1, <2>2 DEF Reattached
<1>11. ASSUME NEW w \in Wrappers, ReattachRejected(w) PROVE WrapperType'
  BY <1>11 DEF ReattachRejected, Unread, process, registry, handlers, wire, wrapper
<1>12. ASSUME NEW w \in Wrappers, ReattachRefused(w) PROVE WrapperType'
  BY <1>12 DEF ReattachRefused, Unread, process, registry, handlers, wire, wrapper
<1>13. ASSUME NEW w \in Wrappers, ReattachFails(w) PROVE WrapperType'
  BY <1>13 DEF ReattachFails, Unread, process, registry, handlers, wire, wrapper
<1>14. ASSUME NEW w \in Wrappers, ResetIntentional(w) PROVE WrapperType'
  BY <1>14 DEF ResetIntentional, process, registry, handlers, wire, wrapper
<1>15. ASSUME NEW w \in Wrappers, NEW c \in Conns, ReceiveInput(w, c) PROVE WrapperType'
  BY <1>15 DEF ReceiveInput, process, registry, handlers, wire, wrapper
<1>16. ASSUME NEW w \in Wrappers, NEW c \in Conns, ReceiveShutdown(w, c) PROVE WrapperType'
  BY <1>16 DEF ReceiveShutdown, LeaveLoop, Unread, process, registry, handlers, wire, wrapper
<1>17. ASSUME NEW w \in Wrappers, NEW c \in Conns, ReceiveFails(w, c) PROVE WrapperType'
  BY <1>17 DEF ReceiveFails, LeaveLoop, Unread, process, registry, handlers, wire, wrapper
<1>18. ASSUME Remote PROVE WrapperType'
  BY <1>18, RemoteStep
<1> QED
  BY <1>1, <1>2, <1>3, <1>4, <1>5, <1>6, <1>7, <1>8, <1>9, <1>10, <1>11, <1>12, <1>13,
     <1>14, <1>15, <1>16, <1>17, <1>18
  DEF Next, Main, Reader, Supervisor, Remote, Rest

(* No step of anybody takes back what a handler has chosen: an id read from *)
(* cid after sessionsMu was released is still the one that was entered      *)
(* under it.                                                                *)
LEMMA SettledStep ==
  ASSUME WireType, Fresh, [Next]_vars
  PROVE  Settled
<1> USE DEF WireType, Settled, Early
<1>1. ASSUME NEW w \in Wrappers, Register(w) PROVE Settled
  <2>1. PICK c \in Conns : Dials(c, w, "register", None, "registering")
    BY <1>1, Dialled DEF Register
  <2> QED BY <1>1, <2>1 DEF Dials, Register
<1>2. ASSUME NEW w \in Wrappers, Reattach(w) PROVE Settled
  <2>1. PICK c \in Conns : Dials(c, w, "reattach", sid[w], "await")
    BY <1>2, Dialled DEF Reattach
  <2> QED BY <1>2, <2>1 DEF Dials, Reattach
<1>3. ASSUME NEW w \in Wrappers, Local(w) PROVE Settled
  BY <1>3, LocalStep DEF HubKept
<1>4. ASSUME NEW c \in Conns, Allocate(c) PROVE Settled
  BY <1>4 DEF Allocate, process, registry, handlers, wire, wrapper
<1>5. ASSUME NEW c \in Conns, Reject(c) PROVE Settled
  BY <1>5 DEF Reject, Return, Deliver, ReattachReject, process, registry, handlers, wire,
     wrapper
<1>6. ASSUME NEW c \in Conns, Renumber(c) PROVE Settled
  BY <1>6 DEF Renumber, process, registry, handlers, wire, wrapper
<1>7. ASSUME NEW c \in Conns, Install(c) PROVE Settled
  BY <1>7 DEF Install, InstallWith, process, registry, handlers, wire, wrapper
<1>8. ASSUME NEW c \in Conns, Acknowledge(c) PROVE Settled
  BY <1>8 DEF Acknowledge, Deliver, StillRegistered, Ack, process, registry, handlers, wire,
     wrapper
<1>9. ASSUME NEW c \in Conns, Dismissed(c) PROVE Settled
  BY <1>9 DEF Dismissed, Return, process, registry, handlers, wire, wrapper
<1>10. ASSUME NEW c \in Conns, Announce(c) PROVE Settled
  BY <1>10 DEF Announce, process, registry, handlers, wire, wrapper
<1>11. ASSUME NEW c \in Conns, AnnounceNil(c) PROVE Settled
  BY <1>11 DEF AnnounceNil, Return, process, registry, handlers, wire, wrapper
<1>12. ASSUME NEW c \in Conns, SessionEnd(c) PROVE Settled
  BY <1>12 DEF SessionEnd, process, registry, handlers, wire, wrapper
<1>13. ASSUME NEW c \in Conns, Cleanup(c) PROVE Settled
  BY <1>13 DEF Cleanup, Unserve, Return, Entry, process, registry, handlers, wire, wrapper
<1>14. ASSUME NEW c \in Conns, CloseDoomed(c) PROVE Settled
  BY <1>14 DEF CloseDoomed, process, registry, handlers, wire, wrapper
<1>15. ASSUME NEW i \in Inputs, NEW id \in Ids, Submit(i, id) PROVE Settled
  BY <1>15 DEF Submit, process, registry, handlers, wire, wrapper
<1>16. ASSUME NEW id \in Ids, Flush(id) PROVE Settled
  BY <1>16 DEF Flush, process, registry, handlers, wire, wrapper
<1>f. ASSUME NEW s \in sends, Finish(s) PROVE Settled
  BY <1>f DEF Finish, process, handlers, wrapper
<1>17. ASSUME NEW id \in Ids, Dismiss(id) PROVE Settled
  BY <1>17 DEF Dismiss, process, registry, handlers, wire, wrapper
<1>18. ASSUME KillAll PROVE Settled
  BY <1>18 DEF KillAll, Entries, HubShutdown, process, registry, handlers, wire, wrapper
<1>19. ASSUME Shutdown PROVE Settled
  BY <1>19 DEF Shutdown, Entries, HubShutdown, process, registry, handlers, wire, wrapper
<1>20. ASSUME HubEnds PROVE Settled
  BY <1>20 DEF HubEnds, process, registry, handlers, wire, wrapper
<1>21. ASSUME HubStarts PROVE Settled
  BY <1>21 DEF HubStarts, process, registry, handlers, wire, wrapper
<1>22. ASSUME UNCHANGED vars PROVE Settled
  BY <1>22 DEF vars, process, registry, handlers, wire, wrapper
<1> QED
  BY <1>f, <1>1, <1>2, <1>3, <1>4, <1>5, <1>6, <1>7, <1>8, <1>9, <1>10, <1>11, <1>12, <1>13,
     <1>14, <1>15, <1>16, <1>17, <1>18, <1>19, <1>20, <1>21, <1>22
  DEF Next, Local, Handler, HubExits, HubCrashes, Rest

(* Whoever sends to a connection (acknowledgement, input, flush,            *)
(* hub_shutdown) names that connection's number.                            *)
LEMMA BoxStep ==
  ASSUME Types, Boxes, Fresh, Linked, WakeupInv, Settled, [Next]_vars
  PROVE  Boxes'
<1> USE DEF Types, HubType, WireType, WrapperType, WakeupInv, Waiting
<1>a. box = [c \in Conns |-> box[c]]
  BY DEF Boxes
<1>1. ASSUME NEW w \in Wrappers, Register(w) PROVE Boxes'
  <2>1. PICK c \in Conns : Dials(c, w, "register", None, "registering")
    BY <1>1, Dialled DEF Register
  <2>2. Takes
      BY <1>a, <1>1, <2>1 DEF Dials, Register, Takes
  <2> QED BY <2>2, BoxFrame DEF Takes
<1>2. ASSUME NEW w \in Wrappers, Registered(w) PROVE Boxes'
  <2>1. Takes
    BY <1>a, <1>2 DEF Registered, wire, Takes
  <2> QED BY <2>1, BoxFrame DEF Takes
<1>3. ASSUME NEW w \in Wrappers, StartFails(w) PROVE Boxes'
  <2>1. Takes
    BY <1>a, <1>3 DEF StartFails, Unread, wire, Takes
  <2> QED BY <2>1, BoxFrame DEF Takes
<1>4. ASSUME NEW w \in Wrappers, RegisterFails(w) PROVE Boxes'
  <2>1. Takes
    BY <1>a, <1>4 DEF RegisterFails, Unread, wire, Takes
  <2> QED BY <2>1, BoxFrame DEF Takes
<1>5. ASSUME NEW w \in Wrappers, WrapperExits(w) PROVE Boxes'
  <2>1. Takes
    BY <1>a, <1>5 DEF WrapperExits, Unread, wire, Takes
  <2> QED BY <2>1, BoxFrame DEF Takes
<1>6. ASSUME NEW w \in Wrappers, PtyEnds(w) PROVE Boxes'
  <2>1. Takes
    BY <1>a, <1>6 DEF PtyEnds, wire, Takes
  <2> QED BY <2>1, BoxFrame DEF Takes
<1>7. ASSUME NEW w \in Wrappers, Wake(w) PROVE Boxes'
  <2>1. Takes
    BY <1>a, <1>7, Woken DEF Takes
  <2> QED BY <2>1, BoxFrame DEF Takes
<1>8. ASSUME NEW w \in Wrappers, GraceExpires(w) PROVE Boxes'
  <2>1. Takes
    BY <1>a, <1>8 DEF GraceExpires, Kill, wire, Takes
  <2> QED BY <2>1, BoxFrame DEF Takes
<1>9. ASSUME NEW w \in Wrappers, Reattach(w) PROVE Boxes'
  <2>1. PICK c \in Conns : Dials(c, w, "reattach", sid[w], "await")
    BY <1>9, Dialled DEF Reattach
  <2>2. Takes
      BY <1>a, <1>9, <2>1 DEF Dials, Reattach, Takes
  <2> QED BY <2>2, BoxFrame DEF Takes
<1>10. ASSUME NEW w \in Wrappers, Reattached(w) PROVE Boxes'
  <2>1. Takes
    BY <1>a, <1>10 DEF Reattached, wire, Takes
  <2> QED BY <2>1, BoxFrame DEF Takes
<1>11. ASSUME NEW w \in Wrappers, ReattachRejected(w) PROVE Boxes'
  <2>1. Takes
    BY <1>a, <1>11 DEF ReattachRejected, Unread, wire, Takes
  <2> QED BY <2>1, BoxFrame DEF Takes
<1>12. ASSUME NEW w \in Wrappers, ReattachRefused(w) PROVE Boxes'
  <2>1. Takes
    BY <1>a, <1>12 DEF ReattachRefused, Unread, wire, Takes
  <2> QED BY <2>1, BoxFrame DEF Takes
<1>13. ASSUME NEW w \in Wrappers, ReattachFails(w) PROVE Boxes'
  <2>1. Takes
    BY <1>a, <1>13 DEF ReattachFails, Unread, wire, Takes
  <2> QED BY <2>1, BoxFrame DEF Takes
<1>14. ASSUME NEW w \in Wrappers, ResetIntentional(w) PROVE Boxes'
  <2>1. Takes
    BY <1>a, <1>14 DEF ResetIntentional, wire, Takes
  <2> QED BY <2>1, BoxFrame DEF Takes
<1>15. ASSUME NEW w \in Wrappers, NEW c \in Conns, ReceiveInput(w, c) PROVE Boxes'
  <2>1. Takes
    BY <1>a, <1>15 DEF ReceiveInput, wire, Takes
  <2> QED BY <2>1, BoxFrame DEF Takes
<1>16. ASSUME NEW w \in Wrappers, NEW c \in Conns, ReceiveShutdown(w, c) PROVE Boxes'
  <2>1. Takes
    BY <1>a, <1>16 DEF ReceiveShutdown, LeaveLoop, Unread, wire, Takes
  <2> QED BY <2>1, BoxFrame DEF Takes
<1>17. ASSUME NEW w \in Wrappers, NEW c \in Conns, ReceiveFails(w, c) PROVE Boxes'
  <2>1. Takes
    BY <1>a, <1>17 DEF ReceiveFails, LeaveLoop, Unread, wire, Takes
  <2> QED BY <2>1, BoxFrame DEF Takes
<1>18. ASSUME NEW c \in Conns, Allocate(c) PROVE Boxes'
  <2>1. Takes
    BY <1>a, <1>18 DEF Allocate, wire, Takes
  <2> QED BY <2>1, BoxFrame DEF Takes
<1>19. ASSUME NEW c \in Conns, Reject(c) PROVE Boxes'
  <2>1. /\ box' = box \/ box' = [box EXCEPT ![c] = @ \o <<ReattachReject>>]
        /\ UNCHANGED cid /\ hpc' = [hpc EXCEPT ![c] = "gone"]
    BY <1>a, <1>19 DEF Reject, Deliver, Return
  <2>2. <<ReattachReject>> \in Seq(MayHold(c))
    BY DEF MayHold, ReattachReject, Message
  <2> QED BY <2>1, <2>2, BoxSend DEF Early
<1>20. ASSUME NEW c \in Conns, Renumber(c) PROVE Boxes'
  <2>1. Takes
    BY <1>a, <1>20 DEF Renumber, wire, Takes
  <2> QED BY <2>1, BoxFrame DEF Takes
<1>21. ASSUME NEW c \in Conns, Install(c) PROVE Boxes'
  <2>1. Takes
    BY <1>a, <1>21 DEF Install, InstallWith, wire, Takes
  <2> QED BY <2>1, BoxFrame DEF Takes
<1>22. ASSUME NEW c \in Conns, Acknowledge(c) PROVE Boxes'
  <2>1. /\ box' = box \/ box' = [box EXCEPT ![c] = @ \o <<Ack(cid[c])>>]
        /\ UNCHANGED cid /\ hpc' = [hpc EXCEPT ![c] = "acked"]
    BY <1>a, <1>22 DEF Acknowledge, Deliver
  <2>2. <<Ack(cid[c])>> \in Seq(MayHold(c))
    BY DEF MayHold, Ack, Message
  <2> QED BY <2>1, <2>2, BoxSend DEF Early
<1>23. ASSUME NEW c \in Conns, Dismissed(c) PROVE Boxes'
  <2>1. Takes
    BY <1>a, <1>23 DEF Dismissed, wire, Takes
  <2> QED BY <2>1, BoxFrame DEF Takes
<1>24. ASSUME NEW c \in Conns, Announce(c) PROVE Boxes'
  <2>1. Takes
    BY <1>a, <1>24 DEF Announce, wire, Takes
  <2> QED BY <2>1, BoxFrame DEF Takes
<1>25. ASSUME NEW c \in Conns, AnnounceNil(c) PROVE Boxes'
  <2>1. Takes
    BY <1>a, <1>25 DEF AnnounceNil, wire, Takes
  <2> QED BY <2>1, BoxFrame DEF Takes
<1>26. ASSUME NEW c \in Conns, SessionEnd(c) PROVE Boxes'
  <2>1. Takes
    BY <1>a, <1>26 DEF SessionEnd, wire, Takes
  <2> QED BY <2>1, BoxFrame DEF Takes
<1>27. ASSUME NEW c \in Conns, Cleanup(c) PROVE Boxes'
  <2>1. Takes
    BY <1>a, <1>27 DEF Cleanup, Unserve, wire, Takes
  <2> QED BY <2>1, BoxFrame DEF Takes
<1>28. ASSUME NEW c \in Conns, CloseDoomed(c) PROVE Boxes'
  <2>1. Takes
    BY <1>a, <1>28 DEF CloseDoomed, wire, Takes
  <2> QED BY <2>1, BoxFrame DEF Takes
<1>29. ASSUME NEW i \in Inputs, NEW id \in Ids, Submit(i, id) PROVE Boxes'
  <2>1. Takes
    BY <1>a, <1>29 DEF Submit, wire, Takes
  <2> QED BY <2>1, BoxFrame DEF Takes
<1>30. ASSUME NEW id \in Ids, Flush(id) PROVE Boxes'
  <2>1. Takes
    BY <1>a, <1>30 DEF Flush, wire, Takes
  <2> QED BY <2>1, BoxFrame DEF Takes
<1>f. ASSUME NEW s \in sends, Finish(s) PROVE Boxes'
  <2> DEFINE q == [k \in 1 .. Len(s.q) |-> PtyInput(s.id, s.q[k])]
  <2>1. UNCHANGED <<cid, hpc>>
    BY <1>f DEF Finish, handlers
  <2>2. CASE box' = box
    BY <1>a, <2>2, BoxFrame
  <2>3. CASE box' # box
    <3>1. MaySend(s.via) /\ Deliver(s.via, q)
      BY <1>f, <2>3 DEF Finish, Transmit, Requeue, Discard
    <3>2. /\ s.via \in Conns /\ cid[s.via] = s.id /\ hpc[s.via] \notin Early
      BY <3>1 DEF MaySend, Reach, Linked
    <3>3. q \in Seq(MayHold(s.via))
      <4>1. s.q \in Seq(Inputs)
        OBVIOUS
      <4>2. \A k \in 1 .. Len(s.q) : PtyInput(s.id, s.q[k]) \in MayHold(s.via)
        BY <3>2, <4>1 DEF MayHold, PtyInput, Message
      <4> QED BY <4>1, <4>2
    <3> HIDE DEF q
    <3>4. box' = box \/ box' = [box EXCEPT ![s.via] = @ \o q]
      BY <1>a, <3>1 DEF Deliver
    <3> QED BY <2>1, <3>2, <3>3, <3>4, BoxSend
  <2> QED BY <2>2, <2>3
<1>31. ASSUME NEW id \in Ids, Dismiss(id) PROVE Boxes'
  <2>1. Takes
    BY <1>a, <1>31 DEF Dismiss, wire, Takes
  <2> QED BY <2>1, BoxFrame DEF Takes
<1>32. ASSUME KillAll PROVE Boxes'
  <2>1. Takes
    BY <1>a, <1>32 DEF KillAll, wire, Takes
  <2> QED BY <2>1, BoxFrame DEF Takes
<1>33. ASSUME Shutdown PROVE Boxes'
  <2>1. UNCHANGED <<cid, hpc>>
    BY <1>33 DEF Shutdown, handlers
  <2>2. \A d \in Entries : d \in Conns /\ hpc[d] \notin Early
    BY DEF Entries, Linked
  <2>3. \A d \in Conns : MayHold(d)' = MayHold(d)
    BY <2>1 DEF MayHold
  <2>4. ASSUME NEW d \in Conns
        PROVE  box'[d] \in Seq(MayHold(d)) /\ (box'[d] # << >> => hpc'[d] \notin Early)
    <3>1. box[d] \in Seq(MayHold(d)) /\ (box[d] # << >> => hpc[d] \notin Early)
      BY DEF Boxes
    <3>2. CASE box'[d] = box[d]
      BY <2>1, <3>1, <3>2
    <3>3. CASE d \in Entries /\ box'[d] = Append(box[d], HubShutdown)
      <4>1. HubShutdown \in MayHold(d)
        BY DEF HubShutdown, Message, MayHold
      <4>2. Append(box[d], HubShutdown) \in Seq(MayHold(d))
        BY <3>1, <4>1
      <4> QED BY <2>1, <2>2, <3>3, <4>2
    <3> QED BY <1>33, <3>2, <3>3 DEF Shutdown
  <2>5. box' = [d \in Conns |-> box'[d]]
    BY <1>33 DEF Shutdown
  <2> QED BY <2>3, <2>4, <2>5 DEF Boxes
<1>34. ASSUME HubEnds PROVE Boxes'
  <2>1. Takes
    BY <1>a, <1>34 DEF HubEnds, wire, Takes
  <2> QED BY <2>1, BoxFrame DEF Takes
<1>35. ASSUME HubStarts PROVE Boxes'
  <2>1. Takes
    BY <1>a, <1>35 DEF HubStarts, wire, Takes
  <2> QED BY <2>1, BoxFrame DEF Takes
<1>36. ASSUME UNCHANGED vars PROVE Boxes'
  <2>1. Takes
    BY <1>a, <1>36 DEF vars, wire, Takes
  <2> QED BY <2>1, BoxFrame DEF Takes
<1> QED
  BY <1>f, <1>1, <1>2, <1>3, <1>4, <1>5, <1>6, <1>7, <1>8, <1>9, <1>10, <1>11, <1>12, <1>13,
     <1>14, <1>15, <1>16, <1>17, <1>18, <1>19, <1>20, <1>21, <1>22, <1>23, <1>24, <1>25,
     <1>26, <1>27, <1>28, <1>29, <1>30, <1>31, <1>32, <1>33, <1>34, <1>35, <1>36
  DEF Next, Main, Reader, Supervisor, Handler, HubExits, HubCrashes, Rest

(* nextID, every number in use and every number a wrapper remembers are     *)
(* bounded by the handlers that chose one, also after a restart has set     *)
(* nextID to 0.                                                             *)
LEMMA CountedStep ==
  ASSUME Types, Fresh, Boxes, WakeupInv, Counted, High \in Nat, High' \in Nat, High <= High',
         \A c \in Used' \ Used : High + 1 <= High', [Next]_vars
  PROVE  Counted'
<1> USE DEF Types, HubType, WireType, WrapperType, Counted, None
<1>1. ASSUME NEW w \in Wrappers, Register(w) PROVE Counted'
  <2>1. PICK c \in Conns : Dials(c, w, "register", None, "registering")
    BY <1>1, Dialled DEF Register
  <2> QED BY <1>1, <2>1 DEF Dials, Register
<1>2. ASSUME NEW w \in Wrappers, Registered(w) PROVE Counted'
  <2>1. trial[w] \in Conns /\ box[trial[w]] # << >>
    BY <1>2 DEF Registered, WakeupInv, Waiting
  <2>2. Head(box[trial[w]]).id \in {cid[trial[w]], None}
    BY <2>1, Received
  <2>3. UNCHANGED <<nextID, cid, asked>> /\ sid' = [sid EXCEPT ![w] = Head(box[trial[w]]).id]
    BY <1>2 DEF Registered, registry, handlers
  <2> QED BY <2>1, <2>2, <2>3
<1>3. ASSUME NEW w \in Wrappers, StartFails(w) PROVE Counted'
  BY <1>3 DEF StartFails, Unread, process, registry, handlers, wire, wrapper
<1>4. ASSUME NEW w \in Wrappers, RegisterFails(w) PROVE Counted'
  BY <1>4 DEF RegisterFails, Unread, process, registry, handlers, wire, wrapper
<1>5. ASSUME NEW w \in Wrappers, WrapperExits(w) PROVE Counted'
  BY <1>5 DEF WrapperExits, Unread, process, registry, handlers, wire, wrapper
<1>6. ASSUME NEW w \in Wrappers, PtyEnds(w) PROVE Counted'
  BY <1>6 DEF PtyEnds, process, registry, handlers, wire, wrapper
<1>7. ASSUME NEW w \in Wrappers, Wake(w) PROVE Counted'
  BY <1>7, Woken
<1>8. ASSUME NEW w \in Wrappers, GraceExpires(w) PROVE Counted'
  BY <1>8 DEF GraceExpires, Kill, process, registry, handlers, wire, wrapper
<1>9. ASSUME NEW w \in Wrappers, Reattach(w) PROVE Counted'
  <2>1. PICK c \in Conns : Dials(c, w, "reattach", sid[w], "await")
    BY <1>9, Dialled DEF Reattach
  <2> QED BY <1>9, <2>1 DEF Dials, Reattach
<1>10. ASSUME NEW w \in Wrappers, Reattached(w) PROVE Counted'
  <2>1. trial[w] \in Conns /\ box[trial[w]] # << >>
    BY <1>10 DEF Reattached, WakeupInv, Waiting
  <2>2. Head(box[trial[w]]).id \in {cid[trial[w]], None}
    BY <2>1, Received
  <2>3. UNCHANGED <<nextID, cid, asked>> /\ sid' = [sid EXCEPT ![w] = Head(box[trial[w]]).id]
    BY <1>10 DEF Reattached, registry, handlers
  <2> QED BY <2>1, <2>2, <2>3
<1>11. ASSUME NEW w \in Wrappers, ReattachRejected(w) PROVE Counted'
  BY <1>11 DEF ReattachRejected, Unread, process, registry, handlers, wire, wrapper
<1>12. ASSUME NEW w \in Wrappers, ReattachRefused(w) PROVE Counted'
  BY <1>12 DEF ReattachRefused, Unread, process, registry, handlers, wire, wrapper
<1>13. ASSUME NEW w \in Wrappers, ReattachFails(w) PROVE Counted'
  BY <1>13 DEF ReattachFails, Unread, process, registry, handlers, wire, wrapper
<1>14. ASSUME NEW w \in Wrappers, ResetIntentional(w) PROVE Counted'
  BY <1>14 DEF ResetIntentional, process, registry, handlers, wire, wrapper
<1>15. ASSUME NEW w \in Wrappers, NEW c \in Conns, ReceiveInput(w, c) PROVE Counted'
  BY <1>15 DEF ReceiveInput, process, registry, handlers, wire, wrapper
<1>16. ASSUME NEW w \in Wrappers, NEW c \in Conns, ReceiveShutdown(w, c) PROVE Counted'
  BY <1>16 DEF ReceiveShutdown, LeaveLoop, Unread, process, registry, handlers, wire, wrapper
<1>17. ASSUME NEW w \in Wrappers, NEW c \in Conns, ReceiveFails(w, c) PROVE Counted'
  BY <1>17 DEF ReceiveFails, LeaveLoop, Unread, process, registry, handlers, wire, wrapper
<1>18. ASSUME NEW c \in Conns, Allocate(c) PROVE Counted'
  <2>1. c \in Used' \ Used
    BY <1>18 DEF Allocate, Used
  <2>2. UNCHANGED <<asked, sid>> /\ nextID' = nextID + 1 /\ cid' = [cid EXCEPT ![c] = nextID + 1]
    BY <1>18 DEF Allocate, wire, wrapper
  <2> QED BY <2>1, <2>2
<1>19. ASSUME NEW c \in Conns, Reject(c) PROVE Counted'
  BY <1>19 DEF Reject, Return, Deliver, ReattachReject, process, registry, handlers, wire,
     wrapper
<1>20. ASSUME NEW c \in Conns, Renumber(c) PROVE Counted'
  <2>1. c \in Used' \ Used
    BY <1>20 DEF Renumber, Used
  <2>2. UNCHANGED <<asked, sid>> /\ nextID' = Larger(nextID, cid'[c])
        /\ (cid' = [cid EXCEPT ![c] = asked[c]] \/ cid' = [cid EXCEPT ![c] = nextID + 1])
    BY <1>20 DEF Renumber, wire, wrapper
  <2>3. cid'[c] <= High' /\ cid'[c] \in Nat
    BY <2>1, <2>2
  <2>4. nextID' <= High'
    BY <2>2, <2>3 DEF Larger
  <2>5. ASSUME NEW d \in Conns PROVE cid'[d] <= High' /\ asked'[d] <= High'
    <3>1. cid[d] \in Nat /\ cid[d] <= High /\ asked[d] \in Nat /\ asked[d] <= High
      OBVIOUS
    <3>2. cid'[d] = IF d = c THEN cid'[c] ELSE cid[d]
      BY <2>2
    <3>3. asked'[d] = asked[d]
      BY <2>2
    <3> QED BY <2>3, <3>1, <3>2, <3>3
  <2>6. ASSUME NEW w \in Wrappers PROVE sid'[w] <= High'
    BY <2>2
  <2> QED BY <2>4, <2>5, <2>6
<1>21. ASSUME NEW c \in Conns, Install(c) PROVE Counted'
  <2>1. nextID' <= High'
    BY <1>21 DEF Install, InstallWith, Larger
  <2> QED BY <1>21, <2>1 DEF Install, InstallWith, wire, wrapper
<1>22. ASSUME NEW c \in Conns, Acknowledge(c) PROVE Counted'
  BY <1>22 DEF Acknowledge, Deliver, StillRegistered, Ack, process, registry, handlers, wire,
     wrapper
<1>23. ASSUME NEW c \in Conns, Dismissed(c) PROVE Counted'
  BY <1>23 DEF Dismissed, Return, process, registry, handlers, wire, wrapper
<1>24. ASSUME NEW c \in Conns, Announce(c) PROVE Counted'
  BY <1>24 DEF Announce, process, registry, handlers, wire, wrapper
<1>25. ASSUME NEW c \in Conns, AnnounceNil(c) PROVE Counted'
  BY <1>25 DEF AnnounceNil, Return, process, registry, handlers, wire, wrapper
<1>26. ASSUME NEW c \in Conns, SessionEnd(c) PROVE Counted'
  BY <1>26 DEF SessionEnd, process, registry, handlers, wire, wrapper
<1>27. ASSUME NEW c \in Conns, Cleanup(c) PROVE Counted'
  BY <1>27 DEF Cleanup, Unserve, Return, Entry, process, registry, handlers, wire, wrapper
<1>28. ASSUME NEW c \in Conns, CloseDoomed(c) PROVE Counted'
  BY <1>28 DEF CloseDoomed, process, registry, handlers, wire, wrapper
<1>29. ASSUME NEW i \in Inputs, NEW id \in Ids, Submit(i, id) PROVE Counted'
  BY <1>29 DEF Submit, process, registry, handlers, wire, wrapper
<1>30. ASSUME NEW id \in Ids, Flush(id) PROVE Counted'
  BY <1>30 DEF Flush, process, registry, handlers, wire, wrapper
<1>f. ASSUME NEW s \in sends, Finish(s) PROVE Counted'
  BY <1>f DEF Finish, process, handlers, wrapper
<1>31. ASSUME NEW id \in Ids, Dismiss(id) PROVE Counted'
  BY <1>31 DEF Dismiss, process, registry, handlers, wire, wrapper
<1>32. ASSUME KillAll PROVE Counted'
  BY <1>32 DEF KillAll, Entries, HubShutdown, process, registry, handlers, wire, wrapper
<1>33. ASSUME Shutdown PROVE Counted'
  BY <1>33 DEF Shutdown, Entries, HubShutdown, process, registry, handlers, wire, wrapper
<1>34. ASSUME HubEnds PROVE Counted'
  BY <1>34 DEF HubEnds, process, registry, handlers, wire, wrapper
<1>35. ASSUME HubStarts PROVE Counted'
  BY <1>35 DEF HubStarts, process, registry, handlers, wire, wrapper
<1>36. ASSUME UNCHANGED vars PROVE Counted'
  BY <1>36 DEF vars, process, registry, handlers, wire, wrapper
<1> QED
  BY <1>f, <1>1, <1>2, <1>3, <1>4, <1>5, <1>6, <1>7, <1>8, <1>9, <1>10, <1>11, <1>12, <1>13,
     <1>14, <1>15, <1>16, <1>17, <1>18, <1>19, <1>20, <1>21, <1>22, <1>23, <1>24, <1>25,
     <1>26, <1>27, <1>28, <1>29, <1>30, <1>31, <1>32, <1>33, <1>34, <1>35, <1>36
  DEF Next, Main, Reader, Supervisor, Handler, HubExits, HubCrashes, Rest

(* An entry of wrappers[] is of the connection that has its number          *)
(* (wrapper_loop.go:77, 348).                                               *)
LEMMA LinkedStep ==
  ASSUME Types, Fresh, Linked, Named, Settled, WakeupInv, [Next]_vars
  PROVE  Linked'
<1> USE DEF Types, HubType, WireType, WrapperType, Linked, Settled
<1>1. ASSUME NEW w \in Wrappers, Register(w) PROVE Linked'
  <2>1. PICK c \in Conns : Dials(c, w, "register", None, "registering")
    BY <1>1, Dialled DEF Register
  <2> QED BY <1>1, <2>1 DEF Dials, Register
<1>2. ASSUME NEW w \in Wrappers, Reattach(w) PROVE Linked'
  <2>1. PICK c \in Conns : Dials(c, w, "reattach", sid[w], "await")
    BY <1>2, Dialled DEF Reattach
  <2> QED BY <1>2, <2>1 DEF Dials, Reattach
<1>3. ASSUME NEW w \in Wrappers, Local(w) PROVE Linked'
  BY <1>3, LocalStep DEF HubKept
<1>4. ASSUME NEW c \in Conns, Allocate(c) PROVE Linked'
  BY <1>4 DEF Allocate, process, registry, handlers, wire, wrapper
<1>5. ASSUME NEW c \in Conns, Reject(c) PROVE Linked'
  BY <1>5 DEF Reject, Return, Deliver, ReattachReject, process, registry, handlers, wire,
     wrapper
<1>6. ASSUME NEW c \in Conns, Renumber(c) PROVE Linked'
  BY <1>6 DEF Renumber, process, registry, handlers, wire, wrapper
<1>7. ASSUME NEW c \in Conns, Install(c) PROVE Linked'
  <2>1. wrapperOf' = [wrapperOf EXCEPT ![cid[c]] = c] /\ hpc' = [hpc EXCEPT ![c] = "installed"]
        /\ UNCHANGED <<cid, doomed, sends>>
    BY <1>7 DEF Install, InstallWith
  <2> QED BY <2>1 DEF Early
<1>8. ASSUME NEW c \in Conns, Acknowledge(c) PROVE Linked'
  BY <1>8 DEF Acknowledge, Deliver, StillRegistered, Ack, process, registry, handlers, wire,
     wrapper
<1>9. ASSUME NEW c \in Conns, Dismissed(c) PROVE Linked'
  BY <1>9 DEF Dismissed, Return, process, registry, handlers, wire, wrapper
<1>10. ASSUME NEW c \in Conns, Announce(c) PROVE Linked'
  BY <1>10 DEF Announce, process, registry, handlers, wire, wrapper
<1>11. ASSUME NEW c \in Conns, AnnounceNil(c) PROVE Linked'
  BY <1>11 DEF AnnounceNil, Return, process, registry, handlers, wire, wrapper
<1>12. ASSUME NEW c \in Conns, SessionEnd(c) PROVE Linked'
  BY <1>12 DEF SessionEnd, process, registry, handlers, wire, wrapper
<1>13. ASSUME NEW c \in Conns, Cleanup(c) PROVE Linked'
  BY <1>13 DEF Cleanup, Unserve, Return, Entry, process, registry, handlers, wire, wrapper
<1>14. ASSUME NEW c \in Conns, CloseDoomed(c) PROVE Linked'
  BY <1>14 DEF CloseDoomed, process, registry, handlers, wire, wrapper
<1>15. ASSUME NEW i \in Inputs, NEW id \in Ids, Submit(i, id) PROVE Linked'
  <2>1. sends' = sends \cup {Holding(id, <<i>>, FALSE)} /\ UNCHANGED <<wrapperOf, doomed, hpc, cid>>
    BY <1>15 DEF Submit, handlers
  <2> QED BY <2>1 DEF Holding
<1>16. ASSUME NEW id \in Ids, Flush(id) PROVE Linked'
  <2>1. /\ sends' = sends \/ sends' = sends \cup {Holding(id, pend[id], TRUE)}
        /\ UNCHANGED <<wrapperOf, doomed, hpc, cid>>
    BY <1>16 DEF Flush, handlers
  <2>2. Holding(id, pend[id], TRUE).via = wrapperOf[id] /\ Holding(id, pend[id], TRUE).id = id
    BY DEF Holding
  <2>3. ASSUME NEW s \in sends', s.via # None PROVE cid[s.via] = s.id /\ hpc[s.via] \notin Early
    <3>1. CASE s \in sends
      BY <2>3, <3>1
    <3>2. CASE s = Holding(id, pend[id], TRUE)
      <4>1. s.via = wrapperOf[id] /\ s.id = id
        BY <2>2, <3>2
      <4>2. wrapperOf[id] # None => cid[wrapperOf[id]] = id /\ hpc[wrapperOf[id]] \notin Early
        OBVIOUS
      <4> QED BY ONLY <2>3, <4>1, <4>2
    <3>3. s \in sends \/ s = Holding(id, pend[id], TRUE)
      BY ONLY <2>1, s \in sends'
    <3> QED BY <3>1, <3>2, <3>3
  <2> QED BY <2>1, <2>3
<1>f. ASSUME NEW s \in sends, Finish(s) PROVE Linked'
  <2>1. sends' \subseteq sends /\ UNCHANGED <<wrapperOf, doomed, hpc, cid>>
    BY <1>f DEF Finish, handlers
  <2> QED BY <2>1
<1>17. ASSUME NEW id \in Ids, Dismiss(id) PROVE Linked'
  BY <1>17 DEF Dismiss, process, registry, handlers, wire, wrapper
<1>18. ASSUME KillAll PROVE Linked'
  <2>1. doomed' = doomed \cup Entries /\ UNCHANGED <<wrapperOf, cid, hpc, sends>>
    BY <1>18 DEF KillAll, registry, handlers
  <2> QED BY <2>1 DEF Entries
<1>19. ASSUME Shutdown PROVE Linked'
  BY <1>19 DEF Shutdown, Entries, HubShutdown, process, registry, handlers, wire, wrapper
<1>20. ASSUME HubEnds PROVE Linked'
  BY <1>20 DEF HubEnds, process, registry, handlers, wire, wrapper
<1>21. ASSUME HubStarts PROVE Linked'
  BY <1>21 DEF HubStarts, process, registry, handlers, wire, wrapper
<1>22. ASSUME UNCHANGED vars PROVE Linked'
  BY <1>22 DEF vars, process, registry, handlers, wire, wrapper
<1> QED
  BY <1>f, <1>1, <1>2, <1>3, <1>4, <1>5, <1>6, <1>7, <1>8, <1>9, <1>10, <1>11, <1>12, <1>13,
     <1>14, <1>15, <1>16, <1>17, <1>18, <1>19, <1>20, <1>21, <1>22
  DEF Next, Local, Handler, HubExits, HubCrashes, Rest

(* A handler past its choice has a number. *)
LEMMA NamedStep ==
  ASSUME Types, Fresh, Named, [Next]_vars
  PROVE  Named'
<1> USE DEF Types, HubType, WireType, WrapperType, Named, None
<1>1. ASSUME NEW w \in Wrappers, Register(w) PROVE Named'
  <2>1. PICK c \in Conns : Dials(c, w, "register", None, "registering")
    BY <1>1, Dialled DEF Register
  <2> QED BY <1>1, <2>1 DEF Dials, Register
<1>2. ASSUME NEW w \in Wrappers, Reattach(w) PROVE Named'
  <2>1. PICK c \in Conns : Dials(c, w, "reattach", sid[w], "await")
    BY <1>2, Dialled DEF Reattach
  <2> QED BY <1>2, <2>1 DEF Dials, Reattach
<1>3. ASSUME NEW w \in Wrappers, Local(w) PROVE Named'
  BY <1>3, LocalStep DEF HubKept
<1>4. ASSUME NEW c \in Conns, Allocate(c) PROVE Named'
  BY <1>4 DEF Allocate, process, registry, handlers, wire, wrapper
<1>5. ASSUME NEW c \in Conns, Reject(c) PROVE Named'
  BY <1>5 DEF Reject, Return, Deliver, ReattachReject, process, registry, handlers, wire,
     wrapper
<1>6. ASSUME NEW c \in Conns, Renumber(c) PROVE Named'
  BY <1>6 DEF Renumber, process, registry, handlers, wire, wrapper
<1>7. ASSUME NEW c \in Conns, Install(c) PROVE Named'
  BY <1>7 DEF Install, InstallWith, process, registry, handlers, wire, wrapper
<1>8. ASSUME NEW c \in Conns, Acknowledge(c) PROVE Named'
  BY <1>8 DEF Acknowledge, Deliver, StillRegistered, Ack, process, registry, handlers, wire,
     wrapper
<1>9. ASSUME NEW c \in Conns, Dismissed(c) PROVE Named'
  BY <1>9 DEF Dismissed, Return, process, registry, handlers, wire, wrapper
<1>10. ASSUME NEW c \in Conns, Announce(c) PROVE Named'
  BY <1>10 DEF Announce, process, registry, handlers, wire, wrapper
<1>11. ASSUME NEW c \in Conns, AnnounceNil(c) PROVE Named'
  BY <1>11 DEF AnnounceNil, Return, process, registry, handlers, wire, wrapper
<1>12. ASSUME NEW c \in Conns, SessionEnd(c) PROVE Named'
  BY <1>12 DEF SessionEnd, process, registry, handlers, wire, wrapper
<1>13. ASSUME NEW c \in Conns, Cleanup(c) PROVE Named'
  BY <1>13 DEF Cleanup, Unserve, Return, Entry, process, registry, handlers, wire, wrapper
<1>14. ASSUME NEW c \in Conns, CloseDoomed(c) PROVE Named'
  BY <1>14 DEF CloseDoomed, process, registry, handlers, wire, wrapper
<1>15. ASSUME NEW i \in Inputs, NEW id \in Ids, Submit(i, id) PROVE Named'
  BY <1>15 DEF Submit, process, registry, handlers, wire, wrapper
<1>16. ASSUME NEW id \in Ids, Flush(id) PROVE Named'
  BY <1>16 DEF Flush, process, registry, handlers, wire, wrapper
<1>f. ASSUME NEW s \in sends, Finish(s) PROVE Named'
  BY <1>f DEF Finish, process, handlers, wrapper
<1>17. ASSUME NEW id \in Ids, Dismiss(id) PROVE Named'
  BY <1>17 DEF Dismiss, process, registry, handlers, wire, wrapper
<1>18. ASSUME KillAll PROVE Named'
  BY <1>18 DEF KillAll, Entries, HubShutdown, process, registry, handlers, wire, wrapper
<1>19. ASSUME Shutdown PROVE Named'
  BY <1>19 DEF Shutdown, Entries, HubShutdown, process, registry, handlers, wire, wrapper
<1>20. ASSUME HubEnds PROVE Named'
  BY <1>20 DEF HubEnds, process, registry, handlers, wire, wrapper
<1>21. ASSUME HubStarts PROVE Named'
  BY <1>21 DEF HubStarts, process, registry, handlers, wire, wrapper
<1>22. ASSUME UNCHANGED vars PROVE Named'
  BY <1>22 DEF vars, process, registry, handlers, wire, wrapper
<1> QED
  BY <1>f, <1>1, <1>2, <1>3, <1>4, <1>5, <1>6, <1>7, <1>8, <1>9, <1>10, <1>11, <1>12, <1>13,
     <1>14, <1>15, <1>16, <1>17, <1>18, <1>19, <1>20, <1>21, <1>22
  DEF Next, Local, Handler, HubExits, HubCrashes, Rest

(* A wrapper's current connection and its number belong together: swapConn  *)
(* sets both at once.                                                       *)
LEMMA OwnStep ==
  ASSUME Types, Fresh, Boxes, Own, Settled, WakeupInv, [Next]_vars
  PROVE  Own'
<1> USE DEF Types, HubType, WireType, WrapperType, Own
<1>1. ASSUME NEW w \in Wrappers, Register(w) PROVE Own'
  <2>1. PICK c \in Conns : Dials(c, w, "register", None, "registering")
    BY <1>1, Dialled DEF Register
  <2> QED BY <1>1, <2>1 DEF Dials, Register, Early, Settled, None
<1>2. ASSUME NEW w \in Wrappers, Registered(w) PROVE Own'
  <2>1. trial[w] \in Conns /\ box[trial[w]] # << >>
    BY <1>2 DEF Registered, WakeupInv, Waiting
  <2>2. Head(box[trial[w]]).id \in {cid[trial[w]], None} /\ hpc[trial[w]] \notin Early
    BY <2>1, Received
  <2>3. /\ cur' = [cur EXCEPT ![w] = trial[w]] /\ sid' = [sid EXCEPT ![w] = Head(box[trial[w]]).id]
        /\ trial' = [trial EXCEPT ![w] = None]
        /\ readers' \in {[readers EXCEPT ![w] = {trial[w]}], [readers EXCEPT ![w] = @ \cup {trial[w]}]}
        /\ UNCHANGED <<who, hpc, cid>>
    BY <1>2 DEF Registered, handlers
  <2> HIDE DEF HubType, WireType
  <2>4. ASSUME NEW v \in Wrappers, v # w
        PROVE  cur'[v] = cur[v] /\ sid'[v] = sid[v] /\ trial'[v] = trial[v] /\ readers'[v] = readers[v]
    BY <2>3, <2>4
  <2>5. /\ cur'[w] = trial[w] /\ sid'[w] = Head(box[trial[w]]).id /\ trial'[w] = None
        /\ readers'[w] \subseteq readers[w] \cup {trial[w]}
    BY <2>3
  <2>6. ASSUME NEW v \in Wrappers
        PROVE  /\ trial'[v] # None => who'[trial'[v]] = v /\ hpc'[trial'[v]] # "none"
               /\ cur'[v] # None => /\ who'[cur'[v]] = v /\ hpc'[cur'[v]] \notin Early
                                    /\ sid'[v] \in {cid'[cur'[v]], None}
               /\ \A c \in readers'[v] : who'[c] = v /\ hpc'[c] \notin Early
    <3>1. CASE v # w
      BY <2>3, <2>4, <3>1
    <3>2. CASE v = w
      <4>1. who[trial[w]] = w
        BY <2>1 DEF None, Conns
      <4> QED BY <2>2, <2>3, <2>5, <3>2, <4>1
    <3> QED BY <3>1, <3>2
  <2> QED BY <2>6
<1>3. ASSUME NEW w \in Wrappers, StartFails(w) PROVE Own'
  BY <1>3 DEF StartFails, Unread, process, registry, handlers, wire, wrapper
<1>4. ASSUME NEW w \in Wrappers, RegisterFails(w) PROVE Own'
  BY <1>4 DEF RegisterFails, Unread, process, registry, handlers, wire, wrapper
<1>5. ASSUME NEW w \in Wrappers, WrapperExits(w) PROVE Own'
  BY <1>5 DEF WrapperExits, Unread, process, registry, handlers, wire, wrapper
<1>6. ASSUME NEW w \in Wrappers, PtyEnds(w) PROVE Own'
  BY <1>6 DEF PtyEnds, process, registry, handlers, wire, wrapper
<1>7. ASSUME NEW w \in Wrappers, Wake(w) PROVE Own'
  BY <1>7, Woken
<1>8. ASSUME NEW w \in Wrappers, GraceExpires(w) PROVE Own'
  BY <1>8 DEF GraceExpires, Kill, process, registry, handlers, wire, wrapper
<1>9. ASSUME NEW w \in Wrappers, Reattach(w) PROVE Own'
  <2>1. PICK c \in Conns : Dials(c, w, "reattach", sid[w], "await")
    BY <1>9, Dialled DEF Reattach
  <2> QED BY <1>9, <2>1 DEF Dials, Reattach, Early, Settled, None
<1>10. ASSUME NEW w \in Wrappers, Reattached(w) PROVE Own'
  <2>1. trial[w] \in Conns /\ box[trial[w]] # << >>
    BY <1>10 DEF Reattached, WakeupInv, Waiting
  <2>2. Head(box[trial[w]]).id \in {cid[trial[w]], None} /\ hpc[trial[w]] \notin Early
    BY <2>1, Received
  <2>3. /\ cur' = [cur EXCEPT ![w] = trial[w]] /\ sid' = [sid EXCEPT ![w] = Head(box[trial[w]]).id]
        /\ trial' = [trial EXCEPT ![w] = None]
        /\ readers' \in {[readers EXCEPT ![w] = {trial[w]}], [readers EXCEPT ![w] = @ \cup {trial[w]}]}
        /\ UNCHANGED <<who, hpc, cid>>
    BY <1>10 DEF Reattached, handlers
  <2> HIDE DEF HubType, WireType
  <2>4. ASSUME NEW v \in Wrappers, v # w
        PROVE  cur'[v] = cur[v] /\ sid'[v] = sid[v] /\ trial'[v] = trial[v] /\ readers'[v] = readers[v]
    BY <2>3, <2>4
  <2>5. /\ cur'[w] = trial[w] /\ sid'[w] = Head(box[trial[w]]).id /\ trial'[w] = None
        /\ readers'[w] \subseteq readers[w] \cup {trial[w]}
    BY <2>3
  <2>6. ASSUME NEW v \in Wrappers
        PROVE  /\ trial'[v] # None => who'[trial'[v]] = v /\ hpc'[trial'[v]] # "none"
               /\ cur'[v] # None => /\ who'[cur'[v]] = v /\ hpc'[cur'[v]] \notin Early
                                    /\ sid'[v] \in {cid'[cur'[v]], None}
               /\ \A c \in readers'[v] : who'[c] = v /\ hpc'[c] \notin Early
    <3>1. CASE v # w
      BY <2>3, <2>4, <3>1
    <3>2. CASE v = w
      <4>1. who[trial[w]] = w
        BY <2>1 DEF None, Conns
      <4> QED BY <2>2, <2>3, <2>5, <3>2, <4>1
    <3> QED BY <3>1, <3>2
  <2> QED BY <2>6
<1>11. ASSUME NEW w \in Wrappers, ReattachRejected(w) PROVE Own'
  BY <1>11 DEF ReattachRejected, Unread, process, registry, handlers, wire, wrapper
<1>12. ASSUME NEW w \in Wrappers, ReattachRefused(w) PROVE Own'
  BY <1>12 DEF ReattachRefused, Unread, process, registry, handlers, wire, wrapper
<1>13. ASSUME NEW w \in Wrappers, ReattachFails(w) PROVE Own'
  BY <1>13 DEF ReattachFails, Unread, process, registry, handlers, wire, wrapper
<1>14. ASSUME NEW w \in Wrappers, ResetIntentional(w) PROVE Own'
  BY <1>14 DEF ResetIntentional, process, registry, handlers, wire, wrapper
<1>15. ASSUME NEW w \in Wrappers, NEW c \in Conns, ReceiveInput(w, c) PROVE Own'
  BY <1>15 DEF ReceiveInput, process, registry, handlers, wire, wrapper
<1>16. ASSUME NEW w \in Wrappers, NEW c \in Conns, ReceiveShutdown(w, c) PROVE Own'
  BY <1>16 DEF ReceiveShutdown, LeaveLoop, Unread, process, registry, handlers, wire, wrapper
<1>17. ASSUME NEW w \in Wrappers, NEW c \in Conns, ReceiveFails(w, c) PROVE Own'
  BY <1>17 DEF ReceiveFails, LeaveLoop, Unread, process, registry, handlers, wire, wrapper
<1>18. ASSUME Remote PROVE Own'
  BY <1>18, RemoteStep, OwnFrame
<1> QED
  BY <1>1, <1>2, <1>3, <1>4, <1>5, <1>6, <1>7, <1>8, <1>9, <1>10, <1>11, <1>12, <1>13,
     <1>14, <1>15, <1>16, <1>17, <1>18
  DEF Next, Main, Reader, Supervisor, Remote, Rest

(* There are no more chosen numbers than connections. *)
LEMMA HighBound ==
  ASSUME WireType, Fresh
  PROVE  High \in Nat /\ High <= dialled /\ High <= MaxConn /\ IsFiniteSet(Used)
<1>1. dialled \in 0 .. MaxConn /\ IsFiniteSet(1 .. dialled) /\ Cardinality(1 .. dialled) = dialled
  BY FS_Interval DEF WireType
<1>2. Used \subseteq 1 .. dialled
  BY DEF Used, Fresh, Conns, WireType
<1>3. High \in Nat /\ High <= dialled /\ IsFiniteSet(Used)
  BY <1>1, <1>2, FS_Subset, FS_CardinalityType DEF High
<1> QED BY <1>1, <1>3

(* The same after a step, and a handler that chooses adds one. *)
LEMMA HighStep ==
  ASSUME WireType, Fresh, Grows
  PROVE  /\ High' \in Nat /\ High' <= MaxConn /\ High <= High'
         /\ \A c \in Used' \ Used : High + 1 <= High'
<1>1. High \in Nat /\ High <= dialled /\ IsFiniteSet(Used)
  BY HighBound
<1>2. IsFiniteSet(1 .. dialled') /\ Cardinality(1 .. dialled') = dialled'
  BY FS_Interval DEF Grows
<1>3. Used' \subseteq 1 .. dialled'
  BY DEF Grows, Used, Fresh, Conns
<1>4. IsFiniteSet(Used') /\ High' \in Nat
  BY <1>2, <1>3, FS_Subset, FS_CardinalityType DEF High
<1>5. High <= High'
  BY <1>4, FS_Subset DEF High, Grows
<1>6. ASSUME NEW c \in Used' \ Used PROVE High + 1 <= High'
  <2>1. IsFiniteSet(Used \cup {c}) /\ Cardinality(Used \cup {c}) = High + 1
    BY <1>1, <1>6, FS_AddElement DEF High
  <2>2. Used \cup {c} \subseteq Used'
    BY <1>6 DEF Grows
  <2> QED BY <1>4, <2>1, <2>2, FS_Subset DEF High
<1>7. dialled' \in 0 .. MaxConn
  BY DEF Grows
<1>8. High' <= dialled'
  BY <1>2, <1>3, FS_Subset DEF High
<1>9. High' <= MaxConn
  BY <1>4, <1>7, <1>8
<1> QED BY <1>4, <1>5, <1>6, <1>9

(* The invariant all of the above is part of. *)
Base == Types /\ WakeupInv /\ Fresh /\ Counted /\ Boxes /\ Named /\ Linked /\ Own

(* Every step keeps the common invariant. *)
LEMMA BaseStep ==
  ASSUME Base, [Next]_vars
  PROVE  Base' /\ Settled /\ High' \in Nat /\ High' <= MaxConn
<1> USE DEF Base, Types
<1>1. Grows /\ Settled
  BY FreshStep, SettledStep
<1>2. /\ High \in Nat /\ High <= MaxConn
      /\ High' \in Nat /\ High' <= MaxConn /\ High <= High'
      /\ \A c \in Used' \ Used : High + 1 <= High'
  BY <1>1, HighBound, HighStep
<1>3. HubType' /\ WireType' /\ WrapperType'
  BY <1>2, HubTypeStep, WireTypeStep, WrapperTypeStep
<1>4. Fresh' /\ Counted' /\ WakeupInv'
  BY <1>1, <1>2, CountedStep, WakeupStep DEF Grows
<1>5. Boxes' /\ Named' /\ Linked' /\ Own'
  BY <1>1, BoxStep, NamedStep, LinkedStep, OwnStep
<1> QED BY <1>1, <1>2, <1>3, <1>4, <1>5

(* It holds before anything was dialled. *)
LEMMA BaseInit == Init => Base
<1> SUFFICES ASSUME Init PROVE Base
  OBVIOUS
<1>a. << >> \in Seq(Inputs) /\ \A c \in Conns : << >> \in Seq(MayHold(c))
  OBVIOUS
<1>b. HubType
  <2>1. hub = "up" /\ era \in 1 .. MaxEra /\ wedged = FALSE /\ nextID \in Nat
    BY DEF Init
  <2>2. pend \in [Ids -> Seq(Inputs)]
    BY <1>a DEF Init
  <2>3. card \in [Ids -> {"none", "live", "ended", "disconnected"}]
        /\ owner \in [Ids -> Wrappers \cup {NoWrapper}] /\ wrapperOf \in [Ids -> Conns \cup {None}]
    BY DEF Init
  <2>4. flushing = {} /\ sends = {} /\ doomed = {} /\ typed = {}
    BY DEF Init
  <2> QED BY <2>1, <2>2, <2>3, <2>4 DEF HubType
<1>c. WireType /\ WrapperType
  BY DEF Init, WireType, WrapperType, None
<1>d. Fresh /\ Boxes /\ Named
  BY <1>a DEF Init, Fresh, Boxes, Named
<1>e. Linked /\ Own
  BY DEF Init, Linked, Own
<1>1. Types /\ Fresh /\ Boxes /\ Named /\ Linked /\ Own
  BY <1>b, <1>c, <1>d, <1>e DEF Types
<1>2. Counted
  <2>1. High \in Nat
    BY <1>1, HighBound DEF Types
  <2> QED BY <2>1 DEF Init, Counted, None
<1> QED BY <1>1, <1>2, WakeupInit DEF Base

(* Only connections that were dialled are in use, and numbers stay below    *)
(* their count.                                                             *)
LEMMA BaseType == Base => TypeOK
<1> SUFFICES ASSUME Base PROVE TypeOK
  OBVIOUS
<1> USE DEF Base, Types
<1>1. High \in Nat /\ High <= dialled /\ dialled \in 0 .. MaxConn
  BY HighBound DEF WireType
<1>2. ASSUME NEW c \in Conns, hpc[c] # "none" PROVE c \in 1 .. dialled
  BY <1>1, <1>2 DEF Fresh, Conns
<1>3. nextID \in 0 .. dialled /\ asked \in [Conns -> 0 .. dialled] /\ cid \in [Conns -> 0 .. dialled]
  <2>1. /\ nextID \in Nat /\ nextID <= High
        /\ \A c \in Conns : cid[c] \in Nat /\ cid[c] <= High /\ asked[c] \in Nat /\ asked[c] <= High
    BY DEF Counted, HubType, WireType
  <2> QED BY <1>1, <2>1 DEF WireType
<1>4. sid \in [Wrappers -> 0 .. dialled]
  <2>1. \A w \in Wrappers : sid[w] \in Nat /\ sid[w] <= High
    BY DEF Counted, WrapperType
  <2> QED BY <1>1, <2>1 DEF WrapperType
<1>5. /\ wrapperOf \in [Ids -> 0 .. dialled] /\ doomed \subseteq 1 .. dialled
      /\ sends \subseteq [id : Ids, via : 0 .. dialled, q : Seq(Inputs), retry : BOOLEAN]
  <2>1. \A id \in Ids : wrapperOf[id] \in 0 .. dialled
    BY <1>1, <1>2 DEF Linked, Early, HubType, None
  <2>2. doomed \subseteq 1 .. dialled
    BY <1>2 DEF Linked, Early, HubType
  <2>4. ASSUME NEW s \in sends
        PROVE  s \in [id : Ids, via : 0 .. dialled, q : Seq(Inputs), retry : BOOLEAN]
    <3>1. s \in [id : Ids, via : Conns \cup {None}, q : Seq(Inputs), retry : BOOLEAN]
      BY DEF HubType
    <3>2. s.via \in Conns => hpc[s.via] # "none"
      BY DEF Linked, Early, Conns, None
    <3>3. s.via \in 0 .. dialled
      BY <1>1, <1>2, <3>1, <3>2 DEF None
    <3> QED BY <3>1, <3>3
  <2> QED BY <2>1, <2>2, <2>4 DEF HubType
<1>6. /\ cur \in [Wrappers -> 0 .. dialled] /\ trial \in [Wrappers -> 0 .. dialled]
      /\ readers \in [Wrappers -> SUBSET (1 .. dialled)]
  <2>1. \A w \in Wrappers : cur[w] \in 0 .. dialled /\ trial[w] \in 0 .. dialled
    BY <1>1, <1>2 DEF Own, Early, WrapperType, None
  <2>2. \A w \in Wrappers : readers[w] \subseteq 1 .. dialled
    BY <1>2 DEF Own, Early, WrapperType
  <2> QED BY <2>1, <2>2 DEF WrapperType
<1>7. box \in [Conns -> Seq(Messages)]
  <2>1. ASSUME NEW c \in Conns PROVE box[c] \in Seq(Messages)
    <3>1. cid[c] \in Ids \cup {None}
      BY <1>1, <1>3 DEF Ids, None
    <3>2. MayHold(c) \subseteq Messages
      BY <3>1 DEF MayHold, Messages
    <3>3. box[c] \in Seq(MayHold(c))
      BY DEF Boxes
    <3> QED BY <3>2, <3>3
  <2> QED BY <2>1 DEF Boxes
<1> QED BY <1>1, <1>3, <1>4, <1>5, <1>6, <1>7 DEF TypeOK, HubType, WireType, WrapperType

(* Ids and connections stay in range through all Hub processes: every       *)
(* connection raises nextID by at most one (allocateID,                     *)
(* wrapper_loop.go:340).                                                    *)
THEOREM TypeCorrect == Spec => []TypeOK
<1>1. Base /\ [Next]_vars => Base'
  BY BaseStep
<1> QED BY <1>1, BaseInit, BaseType, PTL DEF Spec

(* Both ends agree on the number of a session: what a wrapper reattaches    *)
(* with is where the Hub put it (reattach_ack, swapConn).                   *)
THEOREM Agreement == Spec => []NumbersAgree
<1>1. Base /\ [Next]_vars => Base'
  BY BaseStep
<1>2. Base => NumbersAgree
  BY DEF Base, Own, NumbersAgree
<1> QED BY <1>1, <1>2, BaseInit, PTL DEF Spec

-----------------------------------------------------------------------------
(* A wrapper waits on a connection exactly during a handshake, and has no   *)
(* current one until it ends; an exited one has none at all.                *)
Stages ==
  \A w \in Wrappers :
    /\ trial[w] # None <=> sup[w] \in {"registering", "await"}
    /\ sup[w] \in {"new", "registering", "grace", "await"} => cur[w] = None
    /\ pty[w] = "gone" => sup[w] = "over" /\ cur[w] = None

(* An open socket is the current one of its wrapper, or the one it waits on.*)
Held ==
  \A c \in Conns : net[c] = "open" =>
    who[c] \in Wrappers /\ c \in {cur[who[c]], trial[who[c]]}

(* A wrapper leaves a handshake that has no answer only by its exit. *)
Attended ==
  \A c \in Conns : hpc[c] \in {"request", "numbered"} =>
    who[c] \in Wrappers /\ (net[c] = "open" \/ pty[who[c]] = "gone")

EntryInv == Base /\ Stages /\ Held /\ Attended

(* The supervisor dials only when it has no current connection, and the end *)
(* of the PTY ends it.                                                      *)
LEMMA StagesStep ==
  ASSUME WireType, WrapperType, Fresh, WakeupInv, Stages, [Next]_vars
  PROVE  Stages'
<1> USE DEF WrapperType, WakeupInv, NoLostWakeup, Stages
<1>1. ASSUME NEW w \in Wrappers, Register(w) PROVE Stages'
  <2>1. PICK c \in Conns : Dials(c, w, "register", None, "registering")
    BY <1>1, Dialled DEF Register
  <2> QED BY <1>1, <2>1 DEF Dials, Register, None, Conns
<1>2. ASSUME NEW w \in Wrappers, Registered(w) PROVE Stages'
  BY <1>2 DEF Registered, process, registry, handlers, wire, wrapper
<1>3. ASSUME NEW w \in Wrappers, StartFails(w) PROVE Stages'
  BY <1>3 DEF StartFails, Unread, process, registry, handlers, wire, wrapper
<1>4. ASSUME NEW w \in Wrappers, RegisterFails(w) PROVE Stages'
  BY <1>4 DEF RegisterFails, Unread, process, registry, handlers, wire, wrapper
<1>5. ASSUME NEW w \in Wrappers, WrapperExits(w) PROVE Stages'
  BY <1>5 DEF WrapperExits, Unread, process, registry, handlers, wire, wrapper
<1>6. ASSUME NEW w \in Wrappers, PtyEnds(w) PROVE Stages'
  BY <1>6 DEF PtyEnds, process, registry, handlers, wire, wrapper
<1>7. ASSUME NEW w \in Wrappers, Wake(w) PROVE Stages'
  BY <1>7, Woken
<1>8. ASSUME NEW w \in Wrappers, GraceExpires(w) PROVE Stages'
  BY <1>8 DEF GraceExpires, Kill, process, registry, handlers, wire, wrapper
<1>9. ASSUME NEW w \in Wrappers, Reattach(w) PROVE Stages'
  <2>1. PICK c \in Conns : Dials(c, w, "reattach", sid[w], "await")
    BY <1>9, Dialled DEF Reattach
  <2> QED BY <1>9, <2>1 DEF Dials, Reattach, None, Conns
<1>10. ASSUME NEW w \in Wrappers, Reattached(w) PROVE Stages'
  BY <1>10 DEF Reattached, process, registry, handlers, wire, wrapper
<1>11. ASSUME NEW w \in Wrappers, ReattachRejected(w) PROVE Stages'
  BY <1>11 DEF ReattachRejected, Unread, process, registry, handlers, wire, wrapper
<1>12. ASSUME NEW w \in Wrappers, ReattachRefused(w) PROVE Stages'
  BY <1>12 DEF ReattachRefused, Unread, process, registry, handlers, wire, wrapper
<1>13. ASSUME NEW w \in Wrappers, ReattachFails(w) PROVE Stages'
  BY <1>13 DEF ReattachFails, Unread, process, registry, handlers, wire, wrapper
<1>14. ASSUME NEW w \in Wrappers, ResetIntentional(w) PROVE Stages'
  BY <1>14 DEF ResetIntentional, process, registry, handlers, wire, wrapper
<1>15. ASSUME NEW w \in Wrappers, NEW c \in Conns, ReceiveInput(w, c) PROVE Stages'
  BY <1>15 DEF ReceiveInput, process, registry, handlers, wire, wrapper
<1>16. ASSUME NEW w \in Wrappers, NEW c \in Conns, ReceiveShutdown(w, c) PROVE Stages'
  BY <1>16 DEF ReceiveShutdown, LeaveLoop, Unread, process, registry, handlers, wire, wrapper
<1>17. ASSUME NEW w \in Wrappers, NEW c \in Conns, ReceiveFails(w, c) PROVE Stages'
  BY <1>17 DEF ReceiveFails, LeaveLoop, Unread, process, registry, handlers, wire, wrapper
<1>18. ASSUME Remote PROVE Stages'
  BY <1>18, RemoteStep
<1> QED
  BY <1>1, <1>2, <1>3, <1>4, <1>5, <1>6, <1>7, <1>8, <1>9, <1>10, <1>11, <1>12, <1>13,
     <1>14, <1>15, <1>16, <1>17, <1>18
  DEF Next, Main, Reader, Supervisor, Remote, Rest

(* Every socket that is still open is held by its wrapper: none is          *)
(* forgotten open.                                                          *)
LEMMA HeldStep ==
  ASSUME Types, WakeupInv, Fresh, Own, Stages, Held, [Next]_vars
  PROVE  Held'
<1> USE DEF Types, HubType, WireType, WrapperType, Held
<1>1. ASSUME NEW w \in Wrappers, Register(w) PROVE Held'
  <2>1. PICK c \in Conns : Dials(c, w, "register", None, "registering")
    BY <1>1, Dialled DEF Register
  <2>2. sup[w] \in {"new", "grace"} /\ trial[w] = None /\ cur[w] = None
    BY <1>1 DEF Register, Stages
  <2> QED BY <2>1, <2>2 DEF Dials, None, Conns
<1>2. ASSUME NEW w \in Wrappers, Registered(w) PROVE Held'
  <2>1. /\ cur' = [cur EXCEPT ![w] = trial[w]] /\ trial' = [trial EXCEPT ![w] = None]
        /\ UNCHANGED <<who, net>> /\ cur[w] = None
    BY <1>2 DEF Registered, Stages
  <2> QED BY <2>1 DEF None, Conns
<1>3. ASSUME NEW w \in Wrappers, StartFails(w) PROVE Held'
  BY <1>3 DEF StartFails, Unread, process, registry, handlers, wire, wrapper
<1>4. ASSUME NEW w \in Wrappers, RegisterFails(w) PROVE Held'
  BY <1>4 DEF RegisterFails, Unread, process, registry, handlers, wire, wrapper
<1>5. ASSUME NEW w \in Wrappers, WrapperExits(w) PROVE Held'
  BY <1>5 DEF WrapperExits, Unread, process, registry, handlers, wire, wrapper
<1>6. ASSUME NEW w \in Wrappers, PtyEnds(w) PROVE Held'
  BY <1>6 DEF PtyEnds, process, registry, handlers, wire, wrapper
<1>7. ASSUME NEW w \in Wrappers, Wake(w) PROVE Held'
  BY <1>7, Woken
<1>8. ASSUME NEW w \in Wrappers, GraceExpires(w) PROVE Held'
  BY <1>8 DEF GraceExpires, Kill, process, registry, handlers, wire, wrapper
<1>9. ASSUME NEW w \in Wrappers, Reattach(w) PROVE Held'
  <2>1. PICK c \in Conns : Dials(c, w, "reattach", sid[w], "await")
    BY <1>9, Dialled DEF Reattach
  <2>2. sup[w] \in {"new", "grace"} /\ trial[w] = None /\ cur[w] = None
    BY <1>9 DEF Reattach, Stages
  <2> QED BY <2>1, <2>2 DEF Dials, None, Conns
<1>10. ASSUME NEW w \in Wrappers, Reattached(w) PROVE Held'
  <2>1. /\ cur' = [cur EXCEPT ![w] = trial[w]] /\ trial' = [trial EXCEPT ![w] = None]
        /\ UNCHANGED <<who, net>> /\ cur[w] = None
    BY <1>10 DEF Reattached, Stages
  <2> QED BY <2>1 DEF None, Conns
<1>11. ASSUME NEW w \in Wrappers, ReattachRejected(w) PROVE Held'
  BY <1>11 DEF ReattachRejected, Unread, process, registry, handlers, wire, wrapper
<1>12. ASSUME NEW w \in Wrappers, ReattachRefused(w) PROVE Held'
  BY <1>12 DEF ReattachRefused, Unread, process, registry, handlers, wire, wrapper
<1>13. ASSUME NEW w \in Wrappers, ReattachFails(w) PROVE Held'
  BY <1>13 DEF ReattachFails, Unread, process, registry, handlers, wire, wrapper
<1>14. ASSUME NEW w \in Wrappers, ResetIntentional(w) PROVE Held'
  BY <1>14 DEF ResetIntentional, process, registry, handlers, wire, wrapper
<1>15. ASSUME NEW w \in Wrappers, NEW c \in Conns, ReceiveInput(w, c) PROVE Held'
  BY <1>15 DEF ReceiveInput, process, registry, handlers, wire, wrapper
<1>16. ASSUME NEW w \in Wrappers, NEW c \in Conns, ReceiveShutdown(w, c) PROVE Held'
  BY <1>16 DEF ReceiveShutdown, LeaveLoop, Unread, process, registry, handlers, wire, wrapper
<1>17. ASSUME NEW w \in Wrappers, NEW c \in Conns, ReceiveFails(w, c) PROVE Held'
  BY <1>17 DEF ReceiveFails, LeaveLoop, Unread, process, registry, handlers, wire, wrapper
<1>18. ASSUME NEW c \in Conns, Allocate(c) PROVE Held'
  BY <1>18 DEF Allocate, process, registry, handlers, wire, wrapper
<1>19. ASSUME NEW c \in Conns, Reject(c) PROVE Held'
  BY <1>19 DEF Reject, Return, Deliver, ReattachReject, process, registry, handlers, wire,
     wrapper
<1>20. ASSUME NEW c \in Conns, Renumber(c) PROVE Held'
  BY <1>20 DEF Renumber, process, registry, handlers, wire, wrapper
<1>21. ASSUME NEW c \in Conns, Install(c) PROVE Held'
  BY <1>21 DEF Install, InstallWith, process, registry, handlers, wire, wrapper
<1>22. ASSUME NEW c \in Conns, Acknowledge(c) PROVE Held'
  BY <1>22 DEF Acknowledge, Deliver, StillRegistered, Ack, process, registry, handlers, wire,
     wrapper
<1>23. ASSUME NEW c \in Conns, Dismissed(c) PROVE Held'
  BY <1>23 DEF Dismissed, Return, process, registry, handlers, wire, wrapper
<1>24. ASSUME NEW c \in Conns, Announce(c) PROVE Held'
  BY <1>24 DEF Announce, process, registry, handlers, wire, wrapper
<1>25. ASSUME NEW c \in Conns, AnnounceNil(c) PROVE Held'
  BY <1>25 DEF AnnounceNil, Return, process, registry, handlers, wire, wrapper
<1>26. ASSUME NEW c \in Conns, SessionEnd(c) PROVE Held'
  BY <1>26 DEF SessionEnd, process, registry, handlers, wire, wrapper
<1>27. ASSUME NEW c \in Conns, Cleanup(c) PROVE Held'
  BY <1>27 DEF Cleanup, Unserve, Return, Entry, process, registry, handlers, wire, wrapper
<1>28. ASSUME NEW c \in Conns, CloseDoomed(c) PROVE Held'
  BY <1>28 DEF CloseDoomed, process, registry, handlers, wire, wrapper
<1>29. ASSUME NEW i \in Inputs, NEW id \in Ids, Submit(i, id) PROVE Held'
  BY <1>29 DEF Submit, process, registry, handlers, wire, wrapper
<1>30. ASSUME NEW id \in Ids, Flush(id) PROVE Held'
  BY <1>30 DEF Flush, process, registry, handlers, wire, wrapper
<1>f. ASSUME NEW s \in sends, Finish(s) PROVE Held'
  BY <1>f DEF Finish, process, handlers, wrapper
<1>31. ASSUME NEW id \in Ids, Dismiss(id) PROVE Held'
  BY <1>31 DEF Dismiss, process, registry, handlers, wire, wrapper
<1>32. ASSUME KillAll PROVE Held'
  BY <1>32 DEF KillAll, Entries, HubShutdown, process, registry, handlers, wire, wrapper
<1>33. ASSUME Shutdown PROVE Held'
  BY <1>33 DEF Shutdown, Entries, HubShutdown, process, registry, handlers, wire, wrapper
<1>34. ASSUME HubEnds PROVE Held'
  BY <1>34 DEF HubEnds, process, registry, handlers, wire, wrapper
<1>35. ASSUME HubStarts PROVE Held'
  BY <1>35 DEF HubStarts, process, registry, handlers, wire, wrapper
<1>36. ASSUME UNCHANGED vars PROVE Held'
  BY <1>36 DEF vars, process, registry, handlers, wire, wrapper
<1> QED
  BY <1>f, <1>1, <1>2, <1>3, <1>4, <1>5, <1>6, <1>7, <1>8, <1>9, <1>10, <1>11, <1>12, <1>13,
     <1>14, <1>15, <1>16, <1>17, <1>18, <1>19, <1>20, <1>21, <1>22, <1>23, <1>24, <1>25,
     <1>26, <1>27, <1>28, <1>29, <1>30, <1>31, <1>32, <1>33, <1>34, <1>35, <1>36
  DEF Next, Main, Reader, Supervisor, Handler, HubExits, HubCrashes, Rest

(* A wrapper does not close a socket before its handler has entered the     *)
(* session, but by its own exit.                                            *)
LEMMA AttendedStep ==
  ASSUME Types, WakeupInv, Fresh, Boxes, Own, Stages, Held, Attended, Linked, [Next]_vars
  PROVE  Attended'
<1> USE DEF Types, HubType, WireType, WrapperType, Attended
<1>1. ASSUME NEW w \in Wrappers, Register(w) PROVE Attended'
  <2>1. PICK c \in Conns : Dials(c, w, "register", None, "registering")
    BY <1>1, Dialled DEF Register
  <2> QED BY <1>1, <2>1 DEF Dials, Register
<1>2. ASSUME NEW w \in Wrappers, Registered(w) PROVE Attended'
  <2>1. pty[w] # "gone" /\ UNCHANGED <<hpc, net, who>> /\ pty' = [pty EXCEPT ![w] = "live"]
    BY <1>2 DEF Registered, Stages, handlers
  <2> QED BY <2>1
<1>3. ASSUME NEW w \in Wrappers, StartFails(w) PROVE Attended'
  <2>1. trial[w] \in Conns /\ hpc[trial[w]] \notin Early
    BY <1>3, Received DEF StartFails, WakeupInv, Waiting
  <2>2. pty[w] # "gone"
    BY <1>3 DEF StartFails, Stages
  <2>3. /\ net' = [net EXCEPT ![trial[w]] = IF @ = "open" THEN "peerClosed" ELSE @]
        /\ UNCHANGED <<hpc, who>>
        /\ \A v \in Wrappers : \/ pty'[v] = "gone" \/ (v = w /\ pty[v] # "gone")
                              \/ pty'[v] = pty[v]
    BY <1>3, <2>2 DEF StartFails, handlers
  <2> QED BY <2>1, <2>2, <2>3 DEF Early
<1>4. ASSUME NEW w \in Wrappers, RegisterFails(w) PROVE Attended'
  BY <1>4 DEF RegisterFails, Unread, process, registry, handlers, wire, wrapper
<1>5. ASSUME NEW w \in Wrappers, WrapperExits(w) PROVE Attended'
  BY <1>5 DEF WrapperExits, Unread, process, registry, handlers, wire, wrapper
<1>6. ASSUME NEW w \in Wrappers, PtyEnds(w) PROVE Attended'
  BY <1>6 DEF PtyEnds, process, registry, handlers, wire, wrapper
<1>7. ASSUME NEW w \in Wrappers, Wake(w) PROVE Attended'
  <2>1. pty[w] = "live" /\ pty'[w] \in {"live", "dead"} /\ (\A v \in Wrappers \ {w} : pty'[v] = pty[v])
        /\ UNCHANGED <<hpc, net, who>>
    BY <1>7, Woken
  <2> QED BY <2>1
<1>8. ASSUME NEW w \in Wrappers, GraceExpires(w) PROVE Attended'
  BY <1>8 DEF GraceExpires, Kill, process, registry, handlers, wire, wrapper
<1>9. ASSUME NEW w \in Wrappers, Reattach(w) PROVE Attended'
  <2>1. PICK c \in Conns : Dials(c, w, "reattach", sid[w], "await")
    BY <1>9, Dialled DEF Reattach
  <2> QED BY <1>9, <2>1 DEF Dials, Reattach
<1>10. ASSUME NEW w \in Wrappers, Reattached(w) PROVE Attended'
  BY <1>10 DEF Reattached, process, registry, handlers, wire, wrapper
<1>11. ASSUME NEW w \in Wrappers, ReattachRejected(w) PROVE Attended'
  <2>1. trial[w] \in Conns /\ hpc[trial[w]] \notin Early
    BY <1>11, Received DEF ReattachRejected, WakeupInv, Waiting
  <2>2. pty[w] # "gone"
    BY <1>11 DEF ReattachRejected, Stages
  <2>3. /\ net' = [net EXCEPT ![trial[w]] = IF @ = "open" THEN "peerClosed" ELSE @]
        /\ UNCHANGED <<hpc, who>>
        /\ \A v \in Wrappers : \/ pty'[v] = "gone" \/ (v = w /\ pty[v] # "gone")
                              \/ pty'[v] = pty[v]
    BY <1>11, <2>2 DEF ReattachRejected, handlers
  <2> QED BY <2>1, <2>2, <2>3 DEF Early
<1>12. ASSUME NEW w \in Wrappers, ReattachRefused(w) PROVE Attended'
  <2>1. trial[w] \in Conns /\ hpc[trial[w]] \notin Early
    BY <1>12, Received DEF ReattachRefused, WakeupInv, Waiting
  <2>2. pty[w] # "gone"
    BY <1>12 DEF ReattachRefused, Stages
  <2>3. /\ net' = [net EXCEPT ![trial[w]] = IF @ = "open" THEN "peerClosed" ELSE @]
        /\ UNCHANGED <<hpc, who>>
        /\ \A v \in Wrappers : \/ pty'[v] = "gone" \/ (v = w /\ pty[v] # "gone")
                              \/ pty'[v] = pty[v]
    BY <1>12, <2>2 DEF ReattachRefused, handlers
  <2> QED BY <2>1, <2>2, <2>3 DEF Early
<1>13. ASSUME NEW w \in Wrappers, ReattachFails(w) PROVE Attended'
  BY <1>13 DEF ReattachFails, Unread, process, registry, handlers, wire, wrapper
<1>14. ASSUME NEW w \in Wrappers, ResetIntentional(w) PROVE Attended'
  BY <1>14 DEF ResetIntentional, process, registry, handlers, wire, wrapper
<1>15. ASSUME NEW w \in Wrappers, NEW c \in Conns, ReceiveInput(w, c) PROVE Attended'
  BY <1>15 DEF ReceiveInput, process, registry, handlers, wire, wrapper
<1>16. ASSUME NEW w \in Wrappers, NEW c \in Conns, ReceiveShutdown(w, c) PROVE Attended'
  <2>1. cur[w] # None => hpc[cur[w]] \notin Early
    BY DEF Own
  <2>2. /\ net' = [net EXCEPT ![c] = IF @ = "open" /\ cur[w] = c THEN "peerClosed" ELSE @]
        /\ UNCHANGED <<hpc, who, pty>>
    BY <1>16 DEF ReceiveShutdown, LeaveLoop, handlers
  <2> QED BY <2>1, <2>2 DEF Early, None, Conns
<1>17. ASSUME NEW w \in Wrappers, NEW c \in Conns, ReceiveFails(w, c) PROVE Attended'
  BY <1>17 DEF ReceiveFails, LeaveLoop, Unread, process, registry, handlers, wire, wrapper
<1>18. ASSUME NEW c \in Conns, Allocate(c) PROVE Attended'
  BY <1>18 DEF Allocate, process, registry, handlers, wire, wrapper
<1>19. ASSUME NEW c \in Conns, Reject(c) PROVE Attended'
  BY <1>19 DEF Reject, Return, Deliver, ReattachReject, process, registry, handlers, wire,
     wrapper
<1>20. ASSUME NEW c \in Conns, Renumber(c) PROVE Attended'
  BY <1>20 DEF Renumber, process, registry, handlers, wire, wrapper
<1>21. ASSUME NEW c \in Conns, Install(c) PROVE Attended'
  BY <1>21 DEF Install, InstallWith, process, registry, handlers, wire, wrapper
<1>22. ASSUME NEW c \in Conns, Acknowledge(c) PROVE Attended'
  BY <1>22 DEF Acknowledge, Deliver, StillRegistered, Ack, process, registry, handlers, wire,
     wrapper
<1>23. ASSUME NEW c \in Conns, Dismissed(c) PROVE Attended'
  BY <1>23 DEF Dismissed, Return, process, registry, handlers, wire, wrapper
<1>24. ASSUME NEW c \in Conns, Announce(c) PROVE Attended'
  BY <1>24 DEF Announce, process, registry, handlers, wire, wrapper
<1>25. ASSUME NEW c \in Conns, AnnounceNil(c) PROVE Attended'
  BY <1>25 DEF AnnounceNil, Return, process, registry, handlers, wire, wrapper
<1>26. ASSUME NEW c \in Conns, SessionEnd(c) PROVE Attended'
  BY <1>26 DEF SessionEnd, process, registry, handlers, wire, wrapper
<1>27. ASSUME NEW c \in Conns, Cleanup(c) PROVE Attended'
  BY <1>27 DEF Cleanup, Unserve, Return, Entry, process, registry, handlers, wire, wrapper
<1>28. ASSUME NEW c \in Conns, CloseDoomed(c) PROVE Attended'
  <2>1. hpc[c] \notin Early
    BY <1>28 DEF CloseDoomed, Linked
  <2> QED BY <1>28, <2>1 DEF CloseDoomed, handlers, wrapper, Early
<1>29. ASSUME NEW i \in Inputs, NEW id \in Ids, Submit(i, id) PROVE Attended'
  BY <1>29 DEF Submit, process, registry, handlers, wire, wrapper
<1>30. ASSUME NEW id \in Ids, Flush(id) PROVE Attended'
  BY <1>30 DEF Flush, process, registry, handlers, wire, wrapper
<1>f. ASSUME NEW s \in sends, Finish(s) PROVE Attended'
  BY <1>f DEF Finish, process, handlers, wrapper
<1>31. ASSUME NEW id \in Ids, Dismiss(id) PROVE Attended'
  BY <1>31 DEF Dismiss, process, registry, handlers, wire, wrapper
<1>32. ASSUME KillAll PROVE Attended'
  BY <1>32 DEF KillAll, Entries, HubShutdown, process, registry, handlers, wire, wrapper
<1>33. ASSUME Shutdown PROVE Attended'
  BY <1>33 DEF Shutdown, Entries, HubShutdown, process, registry, handlers, wire, wrapper
<1>34. ASSUME HubEnds PROVE Attended'
  BY <1>34 DEF HubEnds, process, registry, handlers, wire, wrapper
<1>35. ASSUME HubStarts PROVE Attended'
  BY <1>35 DEF HubStarts, process, registry, handlers, wire, wrapper
<1>36. ASSUME UNCHANGED vars PROVE Attended'
  BY <1>36 DEF vars, process, registry, handlers, wire, wrapper
<1> QED
  BY <1>f, <1>1, <1>2, <1>3, <1>4, <1>5, <1>6, <1>7, <1>8, <1>9, <1>10, <1>11, <1>12, <1>13,
     <1>14, <1>15, <1>16, <1>17, <1>18, <1>19, <1>20, <1>21, <1>22, <1>23, <1>24, <1>25,
     <1>26, <1>27, <1>28, <1>29, <1>30, <1>31, <1>32, <1>33, <1>34, <1>35, <1>36
  DEF Next, Main, Reader, Supervisor, Handler, HubExits, HubCrashes, Rest

(* Who takes an entry from a served connection. *)
Keeps(c) ==
  Loses(c) => \/ hub' = "down" \/ c \in doomed'
              \/ \E d \in Conns : /\ hpc[d] = "numbered" /\ hpc'[d] = "installed"
                                  /\ cid[d] = cid[c] /\ who[d] # who[c]

(* The entry of a served connection goes by dismissal, by the end of the    *)
(* Hub, or to a handshake of another wrapper that has the same number; the  *)
(* late cleanup of an older connection never takes it.                      *)
LEMMA KeepStep ==
  ASSUME EntryInv, NEW b \in Conns, [Next]_vars
  PROVE  Keeps(b)
<1> USE DEF EntryInv, Base, Types, HubType, WireType, WrapperType, Keeps, Loses
<1>1. ASSUME NEW w \in Wrappers, Register(w) PROVE Keeps(b)
  <2>1. UNCHANGED wrapperOf
    BY <1>1 DEF Register, DialHub, registry
  <2> QED BY <2>1
<1>2. ASSUME NEW w \in Wrappers, Reattach(w) PROVE Keeps(b)
  <2>1. UNCHANGED wrapperOf
    BY <1>2 DEF Reattach, DialHub, registry
  <2> QED BY <2>1
<1>3. ASSUME NEW w \in Wrappers, Local(w) PROVE Keeps(b)
  BY <1>3, LocalStep DEF HubKept
<1>4. ASSUME NEW c \in Conns, Allocate(c) PROVE Keeps(b)
  <2>1. UNCHANGED <<wrapperOf>>
    BY <1>4 DEF Allocate, registry
  <2> QED BY <2>1
<1>5. ASSUME NEW c \in Conns, Reject(c) PROVE Keeps(b)
  <2>1. UNCHANGED <<wrapperOf>>
    BY <1>5 DEF Reject, registry
  <2> QED BY <2>1
<1>6. ASSUME NEW c \in Conns, Renumber(c) PROVE Keeps(b)
  <2>1. UNCHANGED <<wrapperOf>>
    BY <1>6 DEF Renumber, registry
  <2> QED BY <2>1
<1>7. ASSUME NEW c \in Conns, Install(c) PROVE Keeps(b)
  <2>1. SUFFICES ASSUME Loses(b), who[c] = who[b] PROVE FALSE
    <3>1. Loses(b) => cid[c] = cid[b] /\ hpc[c] = "numbered" /\ hpc'[c] = "installed"
      BY <1>7 DEF Install, InstallWith
    <3> QED BY <2>1, <3>1
  <2>2. hpc[b] = "serving" /\ net[b] = "open" /\ hpc[c] = "numbered" /\ b # c
    BY <1>7, <2>1 DEF Install, InstallWith
  <2>3. PICK w \in Wrappers : w = who[b] /\ w = who[c] /\ b \in {cur[w], trial[w]}
    BY <2>1, <2>2 DEF Held
  <2>4. b # None /\ c # None
    BY DEF None, Conns
  <2>5. /\ trial[w] # None => sup[w] \in {"registering", "await"}
        /\ sup[w] \in {"registering", "await"} => cur[w] = None
        /\ pty[w] = "gone" => sup[w] = "over" /\ cur[w] = None
    BY DEF Stages
  <2>6. pty[w] # "gone"
    BY <2>3, <2>4, <2>5
  <2>7. c \in {cur[w], trial[w]}
    BY <2>2, <2>3, <2>6 DEF Attended, Held
  <2>8. c # cur[w]
    BY <2>2, <2>3, <2>4 DEF Own, Early
  <2> QED BY <2>2, <2>3, <2>4, <2>5, <2>7, <2>8
<1>8. ASSUME NEW c \in Conns, Acknowledge(c) PROVE Keeps(b)
  <2>1. UNCHANGED <<wrapperOf>>
    BY <1>8 DEF Acknowledge, registry
  <2> QED BY <2>1
<1>9. ASSUME NEW c \in Conns, Dismissed(c) PROVE Keeps(b)
  <2>1. UNCHANGED <<wrapperOf>>
    BY <1>9 DEF Dismissed, registry
  <2> QED BY <2>1
<1>10. ASSUME NEW c \in Conns, Announce(c) PROVE Keeps(b)
  <2>1. UNCHANGED <<wrapperOf>>
    BY <1>10 DEF Announce, registry
  <2> QED BY <2>1
<1>11. ASSUME NEW c \in Conns, AnnounceNil(c) PROVE Keeps(b)
  <2>1. UNCHANGED <<wrapperOf>>
    BY <1>11 DEF AnnounceNil, registry
  <2> QED BY <2>1
<1>12. ASSUME NEW c \in Conns, SessionEnd(c) PROVE Keeps(b)
  <2>1. UNCHANGED <<wrapperOf>>
    BY <1>12 DEF SessionEnd, registry
  <2> QED BY <2>1
<1>13. ASSUME NEW c \in Conns, Cleanup(c) PROVE Keeps(b)
  <2>1. Loses(b) => b = c
    BY <1>13 DEF Cleanup, Unserve, Entry
  <2> QED BY <1>13, <2>1 DEF Cleanup, Unserve
<1>14. ASSUME NEW c \in Conns, CloseDoomed(c) PROVE Keeps(b)
  <2>1. UNCHANGED <<wrapperOf>>
    BY <1>14 DEF CloseDoomed, registry
  <2> QED BY <2>1
<1>15. ASSUME NEW i \in Inputs, NEW id \in Ids, Submit(i, id) PROVE Keeps(b)
  <2>1. UNCHANGED <<wrapperOf>>
    BY <1>15 DEF Submit, registry
  <2> QED BY <2>1
<1>16. ASSUME NEW id \in Ids, Flush(id) PROVE Keeps(b)
  <2>1. UNCHANGED <<wrapperOf>>
    BY <1>16 DEF Flush, registry
  <2> QED BY <2>1
<1>f. ASSUME NEW s \in sends, Finish(s) PROVE Keeps(b)
  BY <1>f DEF Finish, process, handlers, wrapper
<1>17. ASSUME NEW id \in Ids, Dismiss(id) PROVE Keeps(b)
  <2>1. Loses(b) => wrapperOf[id] = b
    BY <1>17 DEF Dismiss
  <2> QED BY <1>17, <2>1 DEF Dismiss, None, Conns
<1>18. ASSUME KillAll PROVE Keeps(b)
  <2>1. UNCHANGED <<wrapperOf>>
    BY <1>18 DEF KillAll, registry
  <2> QED BY <2>1
<1>19. ASSUME Shutdown PROVE Keeps(b)
  <2>1. UNCHANGED <<wrapperOf>>
    BY <1>19 DEF Shutdown, registry
  <2> QED BY <2>1
<1>20. ASSUME HubEnds PROVE Keeps(b)
  BY <1>20 DEF HubEnds
<1>21. ASSUME HubStarts PROVE Keeps(b)
  <2>1. UNCHANGED <<wrapperOf>>
    BY <1>21 DEF HubStarts, registry
  <2> QED BY <2>1
<1>22. ASSUME UNCHANGED vars PROVE Keeps(b)
  <2>1. UNCHANGED <<wrapperOf>>
    BY <1>22 DEF vars, registry
  <2> QED BY <2>1
<1> QED
  BY <1>f, <1>1, <1>2, <1>3, <1>4, <1>5, <1>6, <1>7, <1>8, <1>9, <1>10, <1>11, <1>12, <1>13,
     <1>14, <1>15, <1>16, <1>17, <1>18, <1>19, <1>20, <1>21, <1>22
  DEF Next, Local, Handler, HubExits, HubCrashes, Rest

(* Every step keeps the invariant behind the theorem on entries. *)
LEMMA EntryStep == ASSUME EntryInv, [Next]_vars PROVE EntryInv'
<1>1. Base' /\ Settled
  BY BaseStep DEF EntryInv
<1>2. Stages'
  BY StagesStep DEF EntryInv, Base, Types
<1>3. Held' /\ Attended'
  BY HeldStep, AttendedStep DEF EntryInv, Base
<1> QED BY <1>1, <1>2, <1>3 DEF EntryInv

(* It holds before anything was dialled. *)
LEMMA EntryInit == Init => EntryInv
<1>1. Init => Stages /\ Held /\ Attended
  BY DEF Init, Stages, Held, Attended
<1> QED BY <1>1, BaseInit DEF EntryInv

(* A served connection keeps its entry in wrappers[] until it is broken,    *)
(* dismissed or killed, but for a handshake of another wrapper with the     *)
(* same number (wrapper_loop.go:339-348).                                   *)
THEOREM EntryKept == Spec => EntryIsKept
<1>1. EntryInv /\ [Next]_vars => EntryInv'
  BY EntryStep
<1>2. EntryInv /\ [Next]_vars =>
       \A c \in Conns : Loses(c) =>
         \/ hub' = "down" \/ c \in doomed'
         \/ \E d \in Conns : /\ hpc[d] = "numbered" /\ hpc'[d] = "installed"
                             /\ cid[d] = cid[c] /\ who[d] # who[c]
  BY KeepStep DEF Keeps
<1> QED BY <1>1, <1>2, EntryInit, PTL DEF Spec, EntryIsKept
(* Only a session has an entry. *)
Carded == \A id \in Ids : card[id] = "none" => wrapperOf[id] = None

(* A number of a session, or of input that outlived its session.            *)
Known(id) == card[id] # "none" \/ pend[id] # << >> \/ \E s \in sends : s.id = id

(* Numbers in use are counted. *)
Issued ==
  /\ \A id \in Ids : Known(id) => id <= nextID
  /\ \A c \in Conns : hpc[c] \in {"numbered", "installed", "acked", "serving"} => cid[c] <= nextID

(* A new number is chosen again only by a reattach that asks for it. *)
Chosen ==
  \A c, e \in Conns :
    /\ c # e /\ hpc[c] = "numbered" /\ hpc[e] = "numbered" /\ cid[c] = cid[e]
    /\ kind[c] = "register"
    => kind[e] = "reattach" /\ asked[e] = cid[e]

(* A registering wrapper has no other connection. *)
Alone ==
  /\ \A w \in Wrappers : sup[w] = "new" => \A c \in Conns : who[c] # w
  /\ \A c \in Conns : kind[c] = "register" /\ hpc[c] \in {"request", "numbered"} =>
       sup[who[c]] \in {"registering", "over"} /\ \A d \in Conns \ {c} : who[d] # who[c]

(* A number known before its registration is one another wrapper asks for.  *)
Outruns ==
  \A c \in Conns : kind[c] = "register" /\ hpc[c] = "numbered" /\ Known(cid[c]) => Outrun(c)

(* A connection that was dialled registers or reattaches. *)
Dialers == \A c \in Conns : hpc[c] # "none" => kind[c] \in {"register", "reattach"}

BacklogInv == EntryInv /\ Carded /\ Issued /\ Chosen /\ Alone /\ Dialers
              /\ Outruns

(* A dismissal removes the entry with the session (handleDismiss).          *)
LEMMA CardedStep ==
  ASSUME Types, Fresh, Named, Carded, [Next]_vars
  PROVE  Carded'
<1> USE DEF Types, HubType, WireType, WrapperType, Carded
<1>1. ASSUME NEW w \in Wrappers, Register(w) PROVE Carded'
  <2>1. PICK c \in Conns : Dials(c, w, "register", None, "registering")
    BY <1>1, Dialled DEF Register
  <2> QED BY <1>1, <2>1 DEF Dials, Register
<1>2. ASSUME NEW w \in Wrappers, Reattach(w) PROVE Carded'
  <2>1. PICK c \in Conns : Dials(c, w, "reattach", sid[w], "await")
    BY <1>2, Dialled DEF Reattach
  <2> QED BY <1>2, <2>1 DEF Dials, Reattach
<1>3. ASSUME NEW w \in Wrappers, Local(w) PROVE Carded'
  BY <1>3, LocalStep DEF HubKept
<1>4. ASSUME NEW c \in Conns, Allocate(c) PROVE Carded'
  BY <1>4 DEF Allocate, process, registry, handlers, wire, wrapper
<1>5. ASSUME NEW c \in Conns, Reject(c) PROVE Carded'
  BY <1>5 DEF Reject, Return, Deliver, ReattachReject, process, registry, handlers, wire,
     wrapper
<1>6. ASSUME NEW c \in Conns, Renumber(c) PROVE Carded'
  BY <1>6 DEF Renumber, process, registry, handlers, wire, wrapper
<1>7. ASSUME NEW c \in Conns, Install(c) PROVE Carded'
  BY <1>7 DEF Install, InstallWith, process, registry, handlers, wire, wrapper
<1>8. ASSUME NEW c \in Conns, Acknowledge(c) PROVE Carded'
  BY <1>8 DEF Acknowledge, Deliver, StillRegistered, Ack, process, registry, handlers, wire,
     wrapper
<1>9. ASSUME NEW c \in Conns, Dismissed(c) PROVE Carded'
  BY <1>9 DEF Dismissed, Return, process, registry, handlers, wire, wrapper
<1>10. ASSUME NEW c \in Conns, Announce(c) PROVE Carded'
  BY <1>10 DEF Announce, process, registry, handlers, wire, wrapper
<1>11. ASSUME NEW c \in Conns, AnnounceNil(c) PROVE Carded'
  BY <1>11 DEF AnnounceNil, Return, process, registry, handlers, wire, wrapper
<1>12. ASSUME NEW c \in Conns, SessionEnd(c) PROVE Carded'
  BY <1>12 DEF SessionEnd, process, registry, handlers, wire, wrapper
<1>13. ASSUME NEW c \in Conns, Cleanup(c) PROVE Carded'
  BY <1>13 DEF Cleanup, Unserve, Return, Entry, process, registry, handlers, wire, wrapper
<1>14. ASSUME NEW c \in Conns, CloseDoomed(c) PROVE Carded'
  BY <1>14 DEF CloseDoomed, process, registry, handlers, wire, wrapper
<1>15. ASSUME NEW i \in Inputs, NEW id \in Ids, Submit(i, id) PROVE Carded'
  BY <1>15 DEF Submit
<1>16. ASSUME NEW id \in Ids, Flush(id) PROVE Carded'
  BY <1>16 DEF Flush
<1>f. ASSUME NEW s \in sends, Finish(s) PROVE Carded'
  BY <1>f DEF Finish
<1>17. ASSUME NEW id \in Ids, Dismiss(id) PROVE Carded'
  BY <1>17 DEF Dismiss, process, registry, handlers, wire, wrapper
<1>18. ASSUME KillAll PROVE Carded'
  BY <1>18 DEF KillAll, Entries, HubShutdown, process, registry, handlers, wire, wrapper
<1>19. ASSUME Shutdown PROVE Carded'
  BY <1>19 DEF Shutdown, Entries, HubShutdown, process, registry, handlers, wire, wrapper
<1>20. ASSUME HubEnds PROVE Carded'
  BY <1>20 DEF HubEnds, process, registry, handlers, wire, wrapper
<1>21. ASSUME HubStarts PROVE Carded'
  BY <1>21 DEF HubStarts, process, registry, handlers, wire, wrapper
<1>22. ASSUME UNCHANGED vars PROVE Carded'
  BY <1>22 DEF vars, process, registry, handlers, wire, wrapper
<1> QED
  BY <1>f, <1>1, <1>2, <1>3, <1>4, <1>5, <1>6, <1>7, <1>8, <1>9, <1>10, <1>11, <1>12, <1>13,
     <1>14, <1>15, <1>16, <1>17, <1>18, <1>19, <1>20, <1>21, <1>22
  DEF Next, Local, Handler, HubExits, HubCrashes, Rest

(* No number above nextID is in use: a new one cannot meet an old session. *)
LEMMA IssuedStep ==
  ASSUME Types, Fresh, Named, Issued, [Next]_vars
  PROVE  Issued'
<1> USE DEF Types, HubType, WireType, WrapperType, Issued, Known
<1>1. ASSUME NEW w \in Wrappers, Register(w) PROVE Issued'
  <2>1. PICK c \in Conns : Dials(c, w, "register", None, "registering")
    BY <1>1, Dialled DEF Register
  <2> QED BY <1>1, <2>1 DEF Dials, Register
<1>2. ASSUME NEW w \in Wrappers, Reattach(w) PROVE Issued'
  <2>1. PICK c \in Conns : Dials(c, w, "reattach", sid[w], "await")
    BY <1>2, Dialled DEF Reattach
  <2> QED BY <1>2, <2>1 DEF Dials, Reattach
<1>3. ASSUME NEW w \in Wrappers, Local(w) PROVE Issued'
  BY <1>3, LocalStep DEF HubKept
<1>4. ASSUME NEW c \in Conns, Allocate(c) PROVE Issued'
  <2>1. /\ nextID' = nextID + 1 /\ cid' = [cid EXCEPT ![c] = nextID + 1] /\ UNCHANGED <<card, pend, sends>>
        /\ hpc' = [hpc EXCEPT ![c] = "numbered"]
    BY <1>4 DEF Allocate
  <2>2. \A n \in Nat : n <= nextID => n <= nextID'
    BY <2>1
  <2>3. cid'[c] <= nextID'
    BY <2>1
  <2>4. \A id \in Ids : Known(id)' => id <= nextID
    BY <2>1
  <2> HIDE DEF Known
  <2> QED BY <2>1, <2>2, <2>3, <2>4 DEF Ids
<1>5. ASSUME NEW c \in Conns, Reject(c) PROVE Issued'
  BY <1>5 DEF Reject, Return, Deliver, ReattachReject, process, registry, handlers, wire,
     wrapper
<1>6. ASSUME NEW c \in Conns, Renumber(c) PROVE Issued'
  <2>1. /\ nextID' = Larger(nextID, cid'[c]) /\ UNCHANGED <<card, pend, sends>> /\ hpc' = [hpc EXCEPT ![c] = "numbered"]
        /\ cid' = [cid EXCEPT ![c] = cid'[c]] /\ cid'[c] \in Nat
    BY <1>6 DEF Renumber
  <2>2. cid'[c] <= nextID' /\ \A n \in Nat : n <= nextID => n <= nextID'
    BY <2>1 DEF Larger
  <2>3. \A id \in Ids : Known(id)' => id <= nextID
    BY <2>1
  <2> HIDE DEF Known
  <2> QED BY <2>1, <2>2, <2>3 DEF Ids
<1>7. ASSUME NEW c \in Conns, Install(c) PROVE Issued'
  <2>1. nextID' = nextID /\ cid[c] <= nextID
    BY <1>7 DEF Install, InstallWith, Larger
  <2>2. /\ card' = [card EXCEPT ![cid[c]] = "live"] /\ UNCHANGED <<cid, pend, sends>>
        /\ hpc[c] = "numbered" /\ hpc' = [hpc EXCEPT ![c] = "installed"]
    BY <1>7 DEF Install, InstallWith
  <2>3. \A id \in Ids : Known(id)' => Known(id) \/ id = cid[c]
    BY <2>2
  <2> HIDE DEF Known
  <2> QED BY <2>1, <2>2, <2>3
<1>8. ASSUME NEW c \in Conns, Acknowledge(c) PROVE Issued'
  BY <1>8 DEF Acknowledge, Deliver, StillRegistered, Ack, process, registry, handlers, wire,
     wrapper
<1>9. ASSUME NEW c \in Conns, Dismissed(c) PROVE Issued'
  BY <1>9 DEF Dismissed, Return, process, registry, handlers, wire, wrapper
<1>10. ASSUME NEW c \in Conns, Announce(c) PROVE Issued'
  BY <1>10 DEF Announce, process, registry, handlers, wire, wrapper
<1>11. ASSUME NEW c \in Conns, AnnounceNil(c) PROVE Issued'
  BY <1>11 DEF AnnounceNil, Return, process, registry, handlers, wire, wrapper
<1>12. ASSUME NEW c \in Conns, SessionEnd(c) PROVE Issued'
  BY <1>12 DEF SessionEnd, process, registry, handlers, wire, wrapper
<1>13. ASSUME NEW c \in Conns, Cleanup(c) PROVE Issued'
  BY <1>13 DEF Cleanup, Unserve, Return, Entry, process, registry, handlers, wire, wrapper
<1>14. ASSUME NEW c \in Conns, CloseDoomed(c) PROVE Issued'
  BY <1>14 DEF CloseDoomed, process, registry, handlers, wire, wrapper
<1>15. ASSUME NEW i \in Inputs, NEW id \in Ids, Submit(i, id) PROVE Issued'
  <2>1. /\ sends' = sends \cup {Holding(id, <<i>>, FALSE)} /\ card[id] # "none"
        /\ UNCHANGED <<card, pend, nextID, hpc, cid>>
    BY <1>15 DEF Submit, handlers
  <2> QED BY <2>1 DEF Holding
<1>16. ASSUME NEW id \in Ids, Flush(id) PROVE Issued'
  <2>1. /\ \/ pend' = pend /\ sends' = sends
           \/ pend[id] # << >> /\ pend' = [pend EXCEPT ![id] = << >>]
              /\ sends' = sends \cup {Holding(id, pend[id], TRUE)}
        /\ UNCHANGED <<card, nextID, hpc, cid>>
    BY <1>16 DEF Flush, handlers
  <2> QED BY <2>1 DEF Holding
<1>f. ASSUME NEW s \in sends, Finish(s) PROVE Issued'
  <2>1. /\ sends' \subseteq sends /\ UNCHANGED <<card, nextID, hpc, cid>>
        /\ \A id \in Ids : id # s.id => pend'[id] = pend[id]
    BY <1>f DEF Finish, Transmit, Requeue, Discard, handlers
  <2> QED BY <2>1
<1>17. ASSUME NEW id \in Ids, Dismiss(id) PROVE Issued'
  BY <1>17 DEF Dismiss, process, registry, handlers, wire, wrapper
<1>18. ASSUME KillAll PROVE Issued'
  BY <1>18 DEF KillAll, Entries, HubShutdown, process, registry, handlers, wire, wrapper
<1>19. ASSUME Shutdown PROVE Issued'
  BY <1>19 DEF Shutdown, Entries, HubShutdown, process, registry, handlers, wire, wrapper
<1>20. ASSUME HubEnds PROVE Issued'
  BY <1>20 DEF HubEnds, process, registry, handlers, wire, wrapper
<1>21. ASSUME HubStarts PROVE Issued'
  BY <1>21 DEF HubStarts, process, registry, handlers, wire, wrapper
<1>22. ASSUME UNCHANGED vars PROVE Issued'
  BY <1>22 DEF vars, process, registry, handlers, wire, wrapper
<1> QED
  BY <1>f, <1>1, <1>2, <1>3, <1>4, <1>5, <1>6, <1>7, <1>8, <1>9, <1>10, <1>11, <1>12, <1>13,
     <1>14, <1>15, <1>16, <1>17, <1>18, <1>19, <1>20, <1>21, <1>22
  DEF Next, Local, Handler, HubExits, HubCrashes, Rest

(* Two handlers hold one number before they enter it only if one of them    *)
(* reattaches with it (wrapper_loop.go:339-348).                            *)
LEMMA ChosenStep ==
  ASSUME Types, Fresh, Named, Issued, Chosen, Settled, [Next]_vars
  PROVE  Chosen'
<1> USE DEF Types, HubType, WireType, WrapperType, Chosen
<1>1. ASSUME NEW w \in Wrappers, Register(w) PROVE Chosen'
  <2>1. PICK c \in Conns : Dials(c, w, "register", None, "registering")
    BY <1>1, Dialled DEF Register
  <2> QED BY <1>1, <2>1 DEF Dials, Register
<1>2. ASSUME NEW w \in Wrappers, Reattach(w) PROVE Chosen'
  <2>1. PICK c \in Conns : Dials(c, w, "reattach", sid[w], "await")
    BY <1>2, Dialled DEF Reattach
  <2> QED BY <1>2, <2>1 DEF Dials, Reattach
<1>3. ASSUME NEW w \in Wrappers, Local(w) PROVE Chosen'
  BY <1>3, LocalStep DEF HubKept
<1>4. ASSUME NEW c \in Conns, Allocate(c) PROVE Chosen'
  <2>1. /\ cid' = [cid EXCEPT ![c] = cid'[c]] /\ UNCHANGED <<kind, asked>>
        /\ hpc' = [hpc EXCEPT ![c] = "numbered"] /\ cid'[c] = nextID + 1
    BY <1>4 DEF Allocate, wire
  <2>2. ASSUME NEW e \in Conns, e # c, hpc[e] = "numbered", cid[e] = cid'[c]
        PROVE  cid'[c] # nextID + 1
    BY <2>2 DEF Issued
  <2> QED BY <2>1, <2>2
<1>5. ASSUME NEW c \in Conns, Reject(c) PROVE Chosen'
  BY <1>5 DEF Reject, Return, Deliver, ReattachReject, process, registry, handlers, wire,
     wrapper
<1>6. ASSUME NEW c \in Conns, Renumber(c) PROVE Chosen'
  <2>1. /\ cid' = [cid EXCEPT ![c] = cid'[c]] /\ UNCHANGED <<kind, asked>>
        /\ hpc' = [hpc EXCEPT ![c] = "numbered"]
        /\ kind[c] = "reattach" /\ cid'[c] \in {asked[c], nextID + 1}
    BY <1>6 DEF Renumber, wire
  <2>2. ASSUME NEW e \in Conns, e # c, hpc[e] = "numbered", cid[e] = cid'[c]
        PROVE  cid'[c] # nextID + 1
    BY <2>2 DEF Issued
  <2> QED BY <2>1, <2>2
<1>7. ASSUME NEW c \in Conns, Install(c) PROVE Chosen'
  BY <1>7 DEF Install, InstallWith, process, registry, handlers, wire, wrapper
<1>8. ASSUME NEW c \in Conns, Acknowledge(c) PROVE Chosen'
  BY <1>8 DEF Acknowledge, Deliver, StillRegistered, Ack, process, registry, handlers, wire,
     wrapper
<1>9. ASSUME NEW c \in Conns, Dismissed(c) PROVE Chosen'
  BY <1>9 DEF Dismissed, Return, process, registry, handlers, wire, wrapper
<1>10. ASSUME NEW c \in Conns, Announce(c) PROVE Chosen'
  BY <1>10 DEF Announce, process, registry, handlers, wire, wrapper
<1>11. ASSUME NEW c \in Conns, AnnounceNil(c) PROVE Chosen'
  BY <1>11 DEF AnnounceNil, Return, process, registry, handlers, wire, wrapper
<1>12. ASSUME NEW c \in Conns, SessionEnd(c) PROVE Chosen'
  BY <1>12 DEF SessionEnd, process, registry, handlers, wire, wrapper
<1>13. ASSUME NEW c \in Conns, Cleanup(c) PROVE Chosen'
  BY <1>13 DEF Cleanup, Unserve, Return, Entry, process, registry, handlers, wire, wrapper
<1>14. ASSUME NEW c \in Conns, CloseDoomed(c) PROVE Chosen'
  BY <1>14 DEF CloseDoomed, process, registry, handlers, wire, wrapper
<1>15. ASSUME NEW i \in Inputs, NEW id \in Ids, Submit(i, id) PROVE Chosen'
  BY <1>15 DEF Submit, process, registry, handlers, wire, wrapper
<1>16. ASSUME NEW id \in Ids, Flush(id) PROVE Chosen'
  BY <1>16 DEF Flush, process, registry, handlers, wire, wrapper
<1>f. ASSUME NEW s \in sends, Finish(s) PROVE Chosen'
  BY <1>f DEF Finish, process, handlers, wrapper
<1>17. ASSUME NEW id \in Ids, Dismiss(id) PROVE Chosen'
  BY <1>17 DEF Dismiss, process, registry, handlers, wire, wrapper
<1>18. ASSUME KillAll PROVE Chosen'
  BY <1>18 DEF KillAll, Entries, HubShutdown, process, registry, handlers, wire, wrapper
<1>19. ASSUME Shutdown PROVE Chosen'
  BY <1>19 DEF Shutdown, Entries, HubShutdown, process, registry, handlers, wire, wrapper
<1>20. ASSUME HubEnds PROVE Chosen'
  BY <1>20 DEF HubEnds, process, registry, handlers, wire, wrapper
<1>21. ASSUME HubStarts PROVE Chosen'
  BY <1>21 DEF HubStarts, process, registry, handlers, wire, wrapper
<1>22. ASSUME UNCHANGED vars PROVE Chosen'
  BY <1>22 DEF vars, process, registry, handlers, wire, wrapper
<1> QED
  BY <1>f, <1>1, <1>2, <1>3, <1>4, <1>5, <1>6, <1>7, <1>8, <1>9, <1>10, <1>11, <1>12, <1>13,
     <1>14, <1>15, <1>16, <1>17, <1>18, <1>19, <1>20, <1>21, <1>22
  DEF Next, Local, Handler, HubExits, HubCrashes, Rest

(* While a wrapper registers, it has no second connection. *)
LEMMA AloneStep ==
  ASSUME Types, WakeupInv, Fresh, Boxes, Own, Stages, Attended, Held, Alone, Settled, Linked,
         [Next]_vars
  PROVE  Alone'
<1> USE DEF Types, HubType, WireType, WrapperType, Alone
<1>1. ASSUME NEW w \in Wrappers, Register(w) PROVE Alone'
  <2>1. PICK c \in Conns : Dials(c, w, "register", None, "registering")
    BY <1>1, Dialled DEF Register
  <2> QED BY <1>1, <2>1 DEF Dials, Register, None, Conns
<1>2. ASSUME NEW w \in Wrappers, Registered(w) PROVE Alone'
  <2>1. trial[w] \in Conns /\ hpc[trial[w]] \notin Early /\ who[trial[w]] = w
    BY <1>2, Received DEF Registered, WakeupInv, Waiting, Own
  <2>2. /\ sup[w] = "registering" /\ sup' = [sup EXCEPT ![w] = "watch"] /\ UNCHANGED <<who, kind, hpc>>
    BY <1>2 DEF Registered, handlers
  <2>3. ASSUME NEW c \in Conns, kind[c] = "register", hpc[c] \in {"request", "numbered"}
        PROVE  who[c] # w
    BY <2>1, <2>3 DEF Alone, Early
  <2> QED BY <2>2, <2>3
<1>3. ASSUME NEW w \in Wrappers, StartFails(w) PROVE Alone'
  BY <1>3 DEF StartFails, Unread, process, registry, handlers, wire, wrapper
<1>4. ASSUME NEW w \in Wrappers, RegisterFails(w) PROVE Alone'
  BY <1>4 DEF RegisterFails, Unread, process, registry, handlers, wire, wrapper
<1>5. ASSUME NEW w \in Wrappers, WrapperExits(w) PROVE Alone'
  BY <1>5 DEF WrapperExits, Unread, process, registry, handlers, wire, wrapper
<1>6. ASSUME NEW w \in Wrappers, PtyEnds(w) PROVE Alone'
  BY <1>6 DEF PtyEnds, process, registry, handlers, wire, wrapper
<1>7. ASSUME NEW w \in Wrappers, Wake(w) PROVE Alone'
  <2>1. /\ sup[w] = "watch" /\ UNCHANGED <<who, kind, hpc>>
        /\ (sup' = [sup EXCEPT ![w] = "over"] \/ sup' = [sup EXCEPT ![w] = "grace"])
    BY <1>7, Woken
  <2>2. \A v \in Wrappers : sup'[v] = "new" => sup[v] = "new"
    BY <2>1
  <2>3. ASSUME NEW c \in Conns, kind[c] = "register", hpc[c] \in {"request", "numbered"}
        PROVE  sup'[who[c]] = sup[who[c]]
    <3>1. who[c] \in Wrappers /\ who[c] # w
      BY <2>1, <2>3 DEF Alone, Attended
    <3> QED BY <2>1, <3>1
  <2> QED BY <2>1, <2>2, <2>3 DEF Alone
<1>8. ASSUME NEW w \in Wrappers, GraceExpires(w) PROVE Alone'
  BY <1>8 DEF GraceExpires, Kill, process, registry, handlers, wire, wrapper
<1>9. ASSUME NEW w \in Wrappers, Reattach(w) PROVE Alone'
  <2>1. PICK c \in Conns : Dials(c, w, "reattach", sid[w], "await")
    BY <1>9, Dialled DEF Reattach
  <2> QED BY <1>9, <2>1 DEF Dials, Reattach, None, Conns
<1>10. ASSUME NEW w \in Wrappers, Reattached(w) PROVE Alone'
  BY <1>10 DEF Reattached, process, registry, handlers, wire, wrapper
<1>11. ASSUME NEW w \in Wrappers, ReattachRejected(w) PROVE Alone'
  BY <1>11 DEF ReattachRejected, Unread, process, registry, handlers, wire, wrapper
<1>12. ASSUME NEW w \in Wrappers, ReattachRefused(w) PROVE Alone'
  BY <1>12 DEF ReattachRefused, Unread, process, registry, handlers, wire, wrapper
<1>13. ASSUME NEW w \in Wrappers, ReattachFails(w) PROVE Alone'
  BY <1>13 DEF ReattachFails, Unread, process, registry, handlers, wire, wrapper
<1>14. ASSUME NEW w \in Wrappers, ResetIntentional(w) PROVE Alone'
  BY <1>14 DEF ResetIntentional, process, registry, handlers, wire, wrapper
<1>15. ASSUME NEW w \in Wrappers, NEW c \in Conns, ReceiveInput(w, c) PROVE Alone'
  BY <1>15 DEF ReceiveInput, process, registry, handlers, wire, wrapper
<1>16. ASSUME NEW w \in Wrappers, NEW c \in Conns, ReceiveShutdown(w, c) PROVE Alone'
  BY <1>16 DEF ReceiveShutdown, LeaveLoop, Unread, process, registry, handlers, wire, wrapper
<1>17. ASSUME NEW w \in Wrappers, NEW c \in Conns, ReceiveFails(w, c) PROVE Alone'
  BY <1>17 DEF ReceiveFails, LeaveLoop, Unread, process, registry, handlers, wire, wrapper
<1>18. ASSUME NEW c \in Conns, Allocate(c) PROVE Alone'
  BY <1>18 DEF Allocate, process, registry, handlers, wire, wrapper
<1>19. ASSUME NEW c \in Conns, Reject(c) PROVE Alone'
  BY <1>19 DEF Reject, Return, Deliver, ReattachReject, process, registry, handlers, wire,
     wrapper
<1>20. ASSUME NEW c \in Conns, Renumber(c) PROVE Alone'
  BY <1>20 DEF Renumber, process, registry, handlers, wire, wrapper
<1>21. ASSUME NEW c \in Conns, Install(c) PROVE Alone'
  BY <1>21 DEF Install, InstallWith, process, registry, handlers, wire, wrapper
<1>22. ASSUME NEW c \in Conns, Acknowledge(c) PROVE Alone'
  BY <1>22 DEF Acknowledge, Deliver, StillRegistered, Ack, process, registry, handlers, wire,
     wrapper
<1>23. ASSUME NEW c \in Conns, Dismissed(c) PROVE Alone'
  BY <1>23 DEF Dismissed, Return, process, registry, handlers, wire, wrapper
<1>24. ASSUME NEW c \in Conns, Announce(c) PROVE Alone'
  BY <1>24 DEF Announce, process, registry, handlers, wire, wrapper
<1>25. ASSUME NEW c \in Conns, AnnounceNil(c) PROVE Alone'
  BY <1>25 DEF AnnounceNil, Return, process, registry, handlers, wire, wrapper
<1>26. ASSUME NEW c \in Conns, SessionEnd(c) PROVE Alone'
  <2>1. UNCHANGED <<who, kind, hpc, sup>>
    BY <1>26 DEF SessionEnd, handlers, wire, wrapper
  <2> QED BY <2>1
<1>27. ASSUME NEW c \in Conns, Cleanup(c) PROVE Alone'
  BY <1>27 DEF Cleanup, Unserve, Return, Entry, process, registry, handlers, wire, wrapper
<1>28. ASSUME NEW c \in Conns, CloseDoomed(c) PROVE Alone'
  <2>1. UNCHANGED <<who, kind, hpc, sup>>
    BY <1>28 DEF CloseDoomed, handlers, wire, wrapper
  <2> QED BY <2>1
<1>29. ASSUME NEW i \in Inputs, NEW id \in Ids, Submit(i, id) PROVE Alone'
  <2>1. UNCHANGED <<who, kind, hpc, sup>>
    BY <1>29 DEF Submit, handlers, wire, wrapper
  <2> QED BY <2>1
<1>30. ASSUME NEW id \in Ids, Flush(id) PROVE Alone'
  <2>1. UNCHANGED <<who, kind, hpc, sup>>
    BY <1>30 DEF Flush, handlers, wire, wrapper
  <2> QED BY <2>1
<1>f. ASSUME NEW s \in sends, Finish(s) PROVE Alone'
  BY <1>f DEF Finish, process, handlers, wrapper
<1>31. ASSUME NEW id \in Ids, Dismiss(id) PROVE Alone'
  <2>1. UNCHANGED <<who, kind, hpc, sup>>
    BY <1>31 DEF Dismiss, handlers, wire, wrapper
  <2> QED BY <2>1
<1>32. ASSUME KillAll PROVE Alone'
  <2>1. UNCHANGED <<who, kind, hpc, sup>>
    BY <1>32 DEF KillAll, handlers, wire, wrapper
  <2> QED BY <2>1
<1>33. ASSUME Shutdown PROVE Alone'
  <2>1. UNCHANGED <<who, kind, hpc, sup>>
    BY <1>33 DEF Shutdown, handlers, wire, wrapper
  <2> QED BY <2>1
<1>34. ASSUME HubEnds PROVE Alone'
  BY <1>34 DEF HubEnds, process, registry, handlers, wire, wrapper
<1>35. ASSUME HubStarts PROVE Alone'
  <2>1. UNCHANGED <<who, kind, hpc, sup>>
    BY <1>35 DEF HubStarts, handlers, wire, wrapper
  <2> QED BY <2>1
<1>36. ASSUME UNCHANGED vars PROVE Alone'
  <2>1. UNCHANGED <<who, kind, hpc, sup>>
    BY <1>36 DEF vars, handlers, wire, wrapper
  <2> QED BY <2>1
<1> QED
  BY <1>f, <1>1, <1>2, <1>3, <1>4, <1>5, <1>6, <1>7, <1>8, <1>9, <1>10, <1>11, <1>12, <1>13,
     <1>14, <1>15, <1>16, <1>17, <1>18, <1>19, <1>20, <1>21, <1>22, <1>23, <1>24, <1>25,
     <1>26, <1>27, <1>28, <1>29, <1>30, <1>31, <1>32, <1>33, <1>34, <1>35, <1>36
  DEF Next, Main, Reader, Supervisor, Handler, HubExits, HubCrashes, Rest

(* Who outran a registration stays ahead of it. *)
LEMMA OutrunStays ==
  ASSUME WireType, Settled, NEW c \in Conns, hpc[c] # "none",
         cid[c] # None, cid'[c] = cid[c], Outrun(c)
  PROVE  Outrun(c)'
<1>1. PICK d \in Conns : asked[d] = cid[c] /\ who[d] # who[c]
  BY DEF Outrun
<1>2. asked'[d] = asked[d] /\ who'[d] = who[d] /\ who'[c] = who[c] /\ kind'[c] = kind[c]
  BY <1>1 DEF Settled
<1>3. kind[c] = "register"
  BY DEF Outrun
<1> QED BY <1>1, <1>2, <1>3 DEF Outrun

(* A step that enters no session and chooses no number outruns nobody. *)
LEMMA OutrunsFrame ==
  ASSUME WireType, Settled, Named, Outruns,
         \A c \in Conns : kind'[c] = "register" /\ hpc'[c] = "numbered" =>
           kind[c] = "register" /\ hpc[c] = "numbered" /\ cid'[c] = cid[c]
             /\ (Known(cid[c])' => Known(cid[c]))
  PROVE  Outruns'
<1> SUFFICES ASSUME NEW c \in Conns, kind'[c] = "register", hpc'[c] = "numbered",
                    Known(cid[c])'
             PROVE  Outrun(c)'
  BY DEF Outruns
<1>1. kind[c] = "register" /\ hpc[c] = "numbered" /\ cid'[c] = cid[c] /\ Known(cid[c])
  OBVIOUS
<1>2. Outrun(c) /\ cid[c] # None
  BY <1>1 DEF Outruns, Named
<1> QED BY <1>1, <1>2, OutrunStays

(* The backlog of one session. *)
Served(id) ==
  pend[id] # << >> /\ Reach(wrapperOf[id]) = "open" => id \in flushing \/ Outrun(wrapperOf[id])

(* It stays served while the entry and the flush goroutine stay. *)
LEMMA ServedFrame ==
  ASSUME HubType, WireType, Settled, Linked, NEW id \in Ids, Served(id),
         wrapperOf'[id] = wrapperOf[id],
         id \in flushing => id \in flushing', pend[id] # << >>
  PROVE  Served(id)'
<1> SUFFICES ASSUME Reach(wrapperOf[id])' = "open", id \notin flushing
             PROVE  Outrun(wrapperOf[id])'
  BY DEF Served
<1>1. PICK c \in Conns : c = wrapperOf[id] /\ cid[c] = id /\ hpc[c] \notin Early /\ net'[c] = "open"
  BY DEF Reach, HubType, Linked
<1>2. hpc[c] # "none" /\ cid[c] # None /\ cid'[c] = cid[c] /\ net[c] = "open"
  BY <1>1 DEF Early, Settled, Ids, None
<1>3. Outrun(c)
  BY <1>1, <1>2 DEF Served, Reach, None, Conns
<1> QED BY <1>1, <1>2, <1>3, OutrunStays

(* What the theorem says of one session and one step. *)
Excused(id) ==
  Served(id) /\ ~Served(id)' => \E s \in sends \ sends' : s.id = id /\ s.via # wrapperOf[id]

(* A step that touches neither backlog nor entry leaves no backlog behind. *)
LEMMA BacklogFrame ==
  ASSUME Types, Settled, Linked, UNCHANGED <<pend, flushing, wrapperOf>>, NEW id \in Ids
  PROVE  Excused(id)
<1>1. CASE pend[id] = << >>
  BY <1>1 DEF Served, Excused
<1>2. CASE pend[id] # << >>
  BY <1>2, ServedFrame DEF Types, Excused
<1> QED BY <1>1, <1>2

(* A connection is of one of the two kinds that handleWS tells apart. *)
LEMMA DialersStep ==
  ASSUME Types, Fresh, Settled, Dialers, [Next]_vars
  PROVE  Dialers'
<1> USE DEF Types, HubType, WireType, WrapperType, Dialers
<1>1. ASSUME NEW w \in Wrappers, Register(w) PROVE Dialers'
  <2>1. PICK c \in Conns : Dials(c, w, "register", None, "registering")
    BY <1>1, Dialled DEF Register
  <2> QED BY <1>1, <2>1 DEF Dials, Register
<1>2. ASSUME NEW w \in Wrappers, Reattach(w) PROVE Dialers'
  <2>1. PICK c \in Conns : Dials(c, w, "reattach", sid[w], "await")
    BY <1>2, Dialled DEF Reattach
  <2> QED BY <1>2, <2>1 DEF Dials, Reattach
<1>3. ASSUME NEW w \in Wrappers, Local(w) PROVE Dialers'
  BY <1>3, LocalStep DEF HubKept
<1>4. ASSUME NEW c \in Conns, Allocate(c) PROVE Dialers'
  BY <1>4 DEF Allocate, process, registry, handlers, wire, wrapper
<1>5. ASSUME NEW c \in Conns, Reject(c) PROVE Dialers'
  BY <1>5 DEF Reject, Return, Deliver, ReattachReject, process, registry, handlers, wire,
     wrapper
<1>6. ASSUME NEW c \in Conns, Renumber(c) PROVE Dialers'
  BY <1>6 DEF Renumber, process, registry, handlers, wire, wrapper
<1>7. ASSUME NEW c \in Conns, Install(c) PROVE Dialers'
  BY <1>7 DEF Install, InstallWith, process, registry, handlers, wire, wrapper
<1>8. ASSUME NEW c \in Conns, Acknowledge(c) PROVE Dialers'
  BY <1>8 DEF Acknowledge, Deliver, StillRegistered, Ack, process, registry, handlers, wire,
     wrapper
<1>9. ASSUME NEW c \in Conns, Dismissed(c) PROVE Dialers'
  BY <1>9 DEF Dismissed, Return, process, registry, handlers, wire, wrapper
<1>10. ASSUME NEW c \in Conns, Announce(c) PROVE Dialers'
  BY <1>10 DEF Announce, process, registry, handlers, wire, wrapper
<1>11. ASSUME NEW c \in Conns, AnnounceNil(c) PROVE Dialers'
  BY <1>11 DEF AnnounceNil, Return, process, registry, handlers, wire, wrapper
<1>12. ASSUME NEW c \in Conns, SessionEnd(c) PROVE Dialers'
  BY <1>12 DEF SessionEnd, process, registry, handlers, wire, wrapper
<1>13. ASSUME NEW c \in Conns, Cleanup(c) PROVE Dialers'
  BY <1>13 DEF Cleanup, Unserve, Return, Entry, process, registry, handlers, wire, wrapper
<1>14. ASSUME NEW c \in Conns, CloseDoomed(c) PROVE Dialers'
  BY <1>14 DEF CloseDoomed, process, registry, handlers, wire, wrapper
<1>15. ASSUME NEW i \in Inputs, NEW id \in Ids, Submit(i, id) PROVE Dialers'
  BY <1>15 DEF Submit, process, registry, handlers, wire, wrapper
<1>16. ASSUME NEW id \in Ids, Flush(id) PROVE Dialers'
  BY <1>16 DEF Flush, process, registry, handlers, wire, wrapper
<1>f. ASSUME NEW s \in sends, Finish(s) PROVE Dialers'
  BY <1>f DEF Finish, process, handlers, wrapper
<1>17. ASSUME NEW id \in Ids, Dismiss(id) PROVE Dialers'
  BY <1>17 DEF Dismiss, process, registry, handlers, wire, wrapper
<1>18. ASSUME KillAll PROVE Dialers'
  BY <1>18 DEF KillAll, Entries, HubShutdown, process, registry, handlers, wire, wrapper
<1>19. ASSUME Shutdown PROVE Dialers'
  BY <1>19 DEF Shutdown, Entries, HubShutdown, process, registry, handlers, wire, wrapper
<1>20. ASSUME HubEnds PROVE Dialers'
  BY <1>20 DEF HubEnds, process, registry, handlers, wire, wrapper
<1>21. ASSUME HubStarts PROVE Dialers'
  BY <1>21 DEF HubStarts, process, registry, handlers, wire, wrapper
<1>22. ASSUME UNCHANGED vars PROVE Dialers'
  BY <1>22 DEF vars, process, registry, handlers, wire, wrapper
<1> QED
  BY <1>f, <1>1, <1>2, <1>3, <1>4, <1>5, <1>6, <1>7, <1>8, <1>9, <1>10, <1>11, <1>12, <1>13,
     <1>14, <1>15, <1>16, <1>17, <1>18, <1>19, <1>20, <1>21, <1>22
  DEF Next, Local, Handler, HubExits, HubCrashes, Rest

(* A session entered before the registration that was given its number is   *)
(* of another wrapper.                                                      *)
LEMMA OutrunsStep ==
  ASSUME Types, Fresh, Named, Issued, Chosen, Alone, Outruns, Settled, Counted', High' \in Nat,
         High' <= MaxConn, [Next]_vars
  PROVE  Outruns'
<1> USE DEF Types, HubType, WireType, WrapperType
<1>1. ASSUME NEW w \in Wrappers, Register(w) PROVE Outruns'
  <2>1. PICK e \in Conns : Dials(e, w, "register", None, "registering")
    BY <1>1, Dialled DEF Register
  <2>2. \A c \in Conns : kind'[c] = "register" /\ hpc'[c] = "numbered" =>
           kind[c] = "register" /\ hpc[c] = "numbered" /\ cid'[c] = cid[c]
             /\ (Known(cid[c])' => Known(cid[c]))
    BY <2>1 DEF Known, Dials
  <2> QED BY <2>2, OutrunsFrame
<1>2. ASSUME NEW w \in Wrappers, Reattach(w) PROVE Outruns'
  <2>1. PICK e \in Conns : Dials(e, w, "reattach", sid[w], "await")
    BY <1>2, Dialled DEF Reattach
  <2>2. \A c \in Conns : kind'[c] = "register" /\ hpc'[c] = "numbered" =>
           kind[c] = "register" /\ hpc[c] = "numbered" /\ cid'[c] = cid[c]
             /\ (Known(cid[c])' => Known(cid[c]))
    BY <2>1 DEF Known, Dials
  <2> QED BY <2>2, OutrunsFrame
<1>3. ASSUME NEW w \in Wrappers, Local(w) PROVE Outruns'
  <2>1. \A c \in Conns : kind'[c] = "register" /\ hpc'[c] = "numbered" =>
           kind[c] = "register" /\ hpc[c] = "numbered" /\ cid'[c] = cid[c]
             /\ (Known(cid[c])' => Known(cid[c]))
    BY <1>3, LocalStep DEF Known, HubKept
  <2> QED BY <2>1, OutrunsFrame
<1>4. ASSUME NEW c \in Conns, Allocate(c) PROVE Outruns'
  <2>1. /\ cid' = [cid EXCEPT ![c] = nextID + 1] /\ UNCHANGED <<kind, card, pend, sends>>
        /\ hpc' = [hpc EXCEPT ![c] = "numbered"]
    BY <1>4 DEF Allocate, wire
  <2>2. nextID + 1 \in Ids
    BY <2>1 DEF Counted, Ids
  <2>3. ~Known(nextID + 1)
    BY <2>2 DEF Issued
  <2> SUFFICES ASSUME NEW d \in Conns, kind'[d] = "register", hpc'[d] = "numbered",
                      Known(cid[d])'
               PROVE  Outrun(d)'
    BY DEF Outruns
  <2>4. d # c /\ kind[d] = "register" /\ hpc[d] = "numbered" /\ cid'[d] = cid[d] /\ Known(cid[d])
    BY <2>1, <2>3 DEF Known
  <2>5. Outrun(d) /\ cid[d] # None
    BY <2>4 DEF Outruns, Named
  <2> QED BY <2>4, <2>5, OutrunStays
<1>5. ASSUME NEW c \in Conns, Reject(c) PROVE Outruns'
  <2>1. \A d \in Conns : kind'[d] = "register" /\ hpc'[d] = "numbered" =>
           kind[d] = "register" /\ hpc[d] = "numbered" /\ cid'[d] = cid[d]
             /\ (Known(cid[d])' => Known(cid[d]))
    BY <1>5 DEF Known, Reject, Return, process, registry, handlers, wire, wrapper
  <2> QED BY <2>1, OutrunsFrame
<1>6. ASSUME NEW c \in Conns, Renumber(c) PROVE Outruns'
  <2>1. \A d \in Conns : kind'[d] = "register" /\ hpc'[d] = "numbered" =>
           kind[d] = "register" /\ hpc[d] = "numbered" /\ cid'[d] = cid[d]
             /\ (Known(cid[d])' => Known(cid[d]))
    BY <1>6 DEF Known, Renumber, process, registry, handlers, wire, wrapper
  <2> QED BY <2>1, OutrunsFrame
<1>7. ASSUME NEW c \in Conns, Install(c) PROVE Outruns'
  <2>1. /\ card' = [card EXCEPT ![cid[c]] = "live"] /\ hpc[c] = "numbered"
        /\ hpc' = [hpc EXCEPT ![c] = "installed"]
        /\ UNCHANGED <<cid, kind, who, asked, pend, sends>>
    BY <1>7 DEF Install, InstallWith, wire
  <2> SUFFICES ASSUME NEW d \in Conns, kind'[d] = "register", hpc'[d] = "numbered",
                      Known(cid[d])'
               PROVE  Outrun(d)'
    BY DEF Outruns
  <2>2. d # c /\ kind[d] = "register" /\ hpc[d] = "numbered" /\ cid[d] # None
    BY <2>1 DEF Named
  <2>3. Outrun(d)
    <3>1. CASE Known(cid[d])
      BY <2>2, <3>1 DEF Outruns
    <3>2. CASE ~Known(cid[d])
      <4>1. cid[c] = cid[d]
        BY <2>1, <3>2 DEF Known
      <4>2. asked[c] = cid[d]
        BY <2>1, <2>2, <4>1 DEF Chosen
      <4>3. who[c] # who[d]
        BY <2>2 DEF Alone
      <4> QED BY <2>2, <4>2, <4>3 DEF Outrun
    <3> QED BY <3>1, <3>2
  <2> QED BY <2>1, <2>2, <2>3, OutrunStays
<1>8. ASSUME NEW c \in Conns, Acknowledge(c) PROVE Outruns'
  <2>1. \A d \in Conns : kind'[d] = "register" /\ hpc'[d] = "numbered" =>
           kind[d] = "register" /\ hpc[d] = "numbered" /\ cid'[d] = cid[d]
             /\ (Known(cid[d])' => Known(cid[d]))
    BY <1>8 DEF Known, Acknowledge, process, registry, handlers, wire, wrapper
  <2> QED BY <2>1, OutrunsFrame
<1>9. ASSUME NEW c \in Conns, Dismissed(c) PROVE Outruns'
  <2>1. \A d \in Conns : kind'[d] = "register" /\ hpc'[d] = "numbered" =>
           kind[d] = "register" /\ hpc[d] = "numbered" /\ cid'[d] = cid[d]
             /\ (Known(cid[d])' => Known(cid[d]))
    BY <1>9 DEF Known, Dismissed, Return, process, registry, handlers, wire, wrapper
  <2> QED BY <2>1, OutrunsFrame
<1>10. ASSUME NEW c \in Conns, Announce(c) PROVE Outruns'
  <2>1. \A d \in Conns : kind'[d] = "register" /\ hpc'[d] = "numbered" =>
           kind[d] = "register" /\ hpc[d] = "numbered" /\ cid'[d] = cid[d]
             /\ (Known(cid[d])' => Known(cid[d]))
    BY <1>10 DEF Known, Announce, process, registry, handlers, wire, wrapper
  <2> QED BY <2>1, OutrunsFrame
<1>11. ASSUME NEW c \in Conns, AnnounceNil(c) PROVE Outruns'
  <2>1. \A d \in Conns : kind'[d] = "register" /\ hpc'[d] = "numbered" =>
           kind[d] = "register" /\ hpc[d] = "numbered" /\ cid'[d] = cid[d]
             /\ (Known(cid[d])' => Known(cid[d]))
    BY <1>11 DEF Known, AnnounceNil, Return, process, registry, handlers, wire, wrapper
  <2> QED BY <2>1, OutrunsFrame
<1>12. ASSUME NEW c \in Conns, SessionEnd(c) PROVE Outruns'
  <2>1. \A d \in Conns : kind'[d] = "register" /\ hpc'[d] = "numbered" =>
           kind[d] = "register" /\ hpc[d] = "numbered" /\ cid'[d] = cid[d]
             /\ (Known(cid[d])' => Known(cid[d]))
    BY <1>12 DEF Known, SessionEnd, process, registry, handlers, wire, wrapper
  <2> QED BY <2>1, OutrunsFrame
<1>13. ASSUME NEW c \in Conns, Cleanup(c) PROVE Outruns'
  <2>1. \A d \in Conns : kind'[d] = "register" /\ hpc'[d] = "numbered" =>
           kind[d] = "register" /\ hpc[d] = "numbered" /\ cid'[d] = cid[d]
             /\ (Known(cid[d])' => Known(cid[d]))
    BY <1>13 DEF Known, Cleanup, Unserve, Return, process, registry, handlers, wire, wrapper
  <2> QED BY <2>1, OutrunsFrame
<1>14. ASSUME NEW c \in Conns, CloseDoomed(c) PROVE Outruns'
  <2>1. \A d \in Conns : kind'[d] = "register" /\ hpc'[d] = "numbered" =>
           kind[d] = "register" /\ hpc[d] = "numbered" /\ cid'[d] = cid[d]
             /\ (Known(cid[d])' => Known(cid[d]))
    BY <1>14 DEF Known, CloseDoomed, process, registry, handlers, wire, wrapper
  <2> QED BY <2>1, OutrunsFrame
<1>15. ASSUME NEW i \in Inputs, NEW id \in Ids, Submit(i, id) PROVE Outruns'
  <2>1. /\ sends' = sends \cup {Holding(id, <<i>>, FALSE)} /\ card[id] # "none"
        /\ UNCHANGED <<card, pend, kind, hpc, cid>>
    BY <1>15 DEF Submit, handlers, wire
  <2> QED BY <2>1, OutrunsFrame DEF Holding, Known
<1>16. ASSUME NEW id \in Ids, Flush(id) PROVE Outruns'
  <2>1. /\ \/ pend' = pend /\ sends' = sends
           \/ pend[id] # << >> /\ pend' = [pend EXCEPT ![id] = << >>]
              /\ sends' = sends \cup {Holding(id, pend[id], TRUE)}
        /\ UNCHANGED <<card, kind, hpc, cid>>
    BY <1>16 DEF Flush, handlers, wire
  <2>2. \A m \in Ids : Known(m)' => Known(m)
    BY <2>1 DEF Holding, Known
  <2>3. \A c \in Conns : hpc[c] = "numbered" => cid[c] \in Ids
    BY <2>1 DEF Counted, Named, Ids, None
  <2> QED BY <2>1, <2>2, <2>3, OutrunsFrame
<1>f. ASSUME NEW s \in sends, Finish(s) PROVE Outruns'
  <2>1. /\ sends' \subseteq sends /\ UNCHANGED <<card, kind, hpc, cid>>
        /\ pend' \in {pend, [pend EXCEPT ![s.id] = s.q \o @], [pend EXCEPT ![s.id] = @ \o s.q]}
    BY <1>f DEF Finish, Transmit, Requeue, Discard, handlers
  <2>2. \A m \in Ids : Known(m)' => Known(m)
    BY <2>1 DEF Known
  <2>3. \A c \in Conns : hpc[c] = "numbered" => cid[c] \in Ids
    BY <2>1 DEF Counted, Named, Ids, None
  <2> QED BY <2>1, <2>2, <2>3, OutrunsFrame
<1>17. ASSUME NEW id \in Ids, Dismiss(id) PROVE Outruns'
  <2>1. \A c \in Conns : kind'[c] = "register" /\ hpc'[c] = "numbered" =>
           kind[c] = "register" /\ hpc[c] = "numbered" /\ cid'[c] = cid[c]
             /\ (Known(cid[c])' => Known(cid[c]))
    BY <1>17 DEF Known, Dismiss, process, registry, handlers, wire, wrapper
  <2> QED BY <2>1, OutrunsFrame
<1>18. ASSUME KillAll PROVE Outruns'
  <2>1. \A c \in Conns : kind'[c] = "register" /\ hpc'[c] = "numbered" =>
           kind[c] = "register" /\ hpc[c] = "numbered" /\ cid'[c] = cid[c]
             /\ (Known(cid[c])' => Known(cid[c]))
    BY <1>18 DEF Known, KillAll, process, registry, handlers, wire, wrapper
  <2> QED BY <2>1, OutrunsFrame
<1>19. ASSUME Shutdown PROVE Outruns'
  <2>1. \A c \in Conns : kind'[c] = "register" /\ hpc'[c] = "numbered" =>
           kind[c] = "register" /\ hpc[c] = "numbered" /\ cid'[c] = cid[c]
             /\ (Known(cid[c])' => Known(cid[c]))
    BY <1>19 DEF Known, Shutdown, process, registry, handlers, wire, wrapper
  <2> QED BY <2>1, OutrunsFrame
<1>20. ASSUME HubEnds PROVE Outruns'
  <2>1. \A c \in Conns : kind'[c] = "register" /\ hpc'[c] = "numbered" =>
           kind[c] = "register" /\ hpc[c] = "numbered" /\ cid'[c] = cid[c]
             /\ (Known(cid[c])' => Known(cid[c]))
    BY <1>20 DEF Known, HubEnds, process, registry, handlers, wire, wrapper
  <2> QED BY <2>1, OutrunsFrame
<1>21. ASSUME HubStarts PROVE Outruns'
  <2>1. \A c \in Conns : kind'[c] = "register" /\ hpc'[c] = "numbered" =>
           kind[c] = "register" /\ hpc[c] = "numbered" /\ cid'[c] = cid[c]
             /\ (Known(cid[c])' => Known(cid[c]))
    BY <1>21 DEF Known, HubStarts, process, registry, handlers, wire, wrapper
  <2> QED BY <2>1, OutrunsFrame
<1>22. ASSUME UNCHANGED vars PROVE Outruns'
  <2>1. \A c \in Conns : kind'[c] = "register" /\ hpc'[c] = "numbered" =>
           kind[c] = "register" /\ hpc[c] = "numbered" /\ cid'[c] = cid[c]
             /\ (Known(cid[c])' => Known(cid[c]))
    BY <1>22 DEF Known, vars, process, registry, handlers, wire, wrapper
  <2> QED BY <2>1, OutrunsFrame
<1> QED
  BY <1>f, <1>1, <1>2, <1>3, <1>4, <1>5, <1>6, <1>7, <1>8, <1>9, <1>10, <1>11, <1>12, <1>13,
     <1>14, <1>15, <1>16, <1>17, <1>18, <1>19, <1>20, <1>21, <1>22
  DEF Next, Local, Handler, HubExits, HubCrashes, Rest

(* No step leaves a backlog behind an open connection without a goroutine   *)
(* to flush it, but the end of a send aimed at another connection.          *)
LEMMA BacklogStep ==
  ASSUME Types, Linked, Named, Carded, Outruns, Dialers, Settled, NEW m \in Ids, [Next]_vars
  PROVE  Excused(m)
<1> USE DEF Types, HubType, WireType, WrapperType
<1>1. ASSUME NEW w \in Wrappers, Register(w) PROVE Excused(m)
  <2>1. UNCHANGED <<pend, flushing, wrapperOf>>
    BY <1>1 DEF Register, DialHub, registry
  <2> QED BY <2>1, BacklogFrame
<1>2. ASSUME NEW w \in Wrappers, Reattach(w) PROVE Excused(m)
  <2>1. UNCHANGED <<pend, flushing, wrapperOf>>
    BY <1>2 DEF Reattach, DialHub, registry
  <2> QED BY <2>1, BacklogFrame
<1>3. ASSUME NEW w \in Wrappers, Local(w) PROVE Excused(m)
  <2>1. UNCHANGED <<pend, flushing, wrapperOf>>
    BY <1>3, LocalStep DEF HubKept
  <2> QED BY <2>1, BacklogFrame
<1>4. ASSUME NEW c \in Conns, Allocate(c) PROVE Excused(m)
  <2>1. UNCHANGED <<pend, flushing, wrapperOf>>
    BY <1>4 DEF Allocate, registry
  <2> QED BY <2>1, BacklogFrame
<1>5. ASSUME NEW c \in Conns, Reject(c) PROVE Excused(m)
  <2>1. UNCHANGED <<pend, flushing, wrapperOf>>
    BY <1>5 DEF Reject, registry
  <2> QED BY <2>1, BacklogFrame
<1>6. ASSUME NEW c \in Conns, Renumber(c) PROVE Excused(m)
  <2>1. UNCHANGED <<pend, flushing, wrapperOf>>
    BY <1>6 DEF Renumber, registry
  <2> QED BY <2>1, BacklogFrame
<1>7. ASSUME NEW c \in Conns, Install(c) PROVE Excused(m)
  <2> SUFFICES ASSUME Served(m) PROVE Served(m)'
    BY DEF Excused
  <2>2. /\ wrapperOf' = [wrapperOf EXCEPT ![cid[c]] = c] /\ UNCHANGED <<pend, cid, kind>>
        /\ hpc[c] = "numbered"
        /\ flushing' = IF kind[c] = "reattach" THEN flushing \cup {cid[c]} ELSE flushing
    BY <1>7 DEF Install, InstallWith, wire
  <2>3. CASE pend[m] = << >>
    BY <2>2, <2>3 DEF Served
  <2>4. CASE pend[m] # << >> /\ m # cid[c]
    BY <2>2, <2>4, ServedFrame
  <2>5. CASE pend[m] # << >> /\ m = cid[c]
    <3>1. wrapperOf'[m] = c
      BY <2>2, <2>5
    <3>2. CASE kind[c] = "reattach"
      BY <2>2, <2>5, <3>2 DEF Served
    <3>3. CASE kind[c] = "register"
      <4>1. Outrun(c)
        BY <2>2, <2>5, <3>3 DEF Known, Outruns
      <4>2. cid'[c] = cid[c] /\ cid[c] # None /\ hpc[c] # "none"
        BY <2>2, <2>5 DEF Ids, None
      <4>3. Outrun(c)'
        BY <4>1, <4>2, OutrunStays
      <4> QED BY <3>1, <4>3 DEF Served
    <3>4. kind[c] \in {"register", "reattach"}
      BY <2>2 DEF Dialers
    <3> QED BY <3>2, <3>3, <3>4
  <2> QED BY <2>3, <2>4, <2>5
<1>8. ASSUME NEW c \in Conns, Acknowledge(c) PROVE Excused(m)
  <2>1. UNCHANGED <<pend, flushing, wrapperOf>>
    BY <1>8 DEF Acknowledge, registry
  <2> QED BY <2>1, BacklogFrame
<1>9. ASSUME NEW c \in Conns, Dismissed(c) PROVE Excused(m)
  <2>1. UNCHANGED <<pend, flushing, wrapperOf>>
    BY <1>9 DEF Dismissed, registry
  <2> QED BY <2>1, BacklogFrame
<1>10. ASSUME NEW c \in Conns, Announce(c) PROVE Excused(m)
  <2>1. UNCHANGED <<pend, flushing, wrapperOf>>
    BY <1>10 DEF Announce, registry
  <2> QED BY <2>1, BacklogFrame
<1>11. ASSUME NEW c \in Conns, AnnounceNil(c) PROVE Excused(m)
  <2>1. UNCHANGED <<pend, flushing, wrapperOf>>
    BY <1>11 DEF AnnounceNil, registry
  <2> QED BY <2>1, BacklogFrame
<1>12. ASSUME NEW c \in Conns, SessionEnd(c) PROVE Excused(m)
  <2>1. UNCHANGED <<pend, flushing, wrapperOf>>
    BY <1>12 DEF SessionEnd, registry
  <2> QED BY <2>1, BacklogFrame
<1>13. ASSUME NEW c \in Conns, Cleanup(c) PROVE Excused(m)
  <2> SUFFICES ASSUME Served(m) PROVE Served(m)'
    BY DEF Excused
  <2>2. (wrapperOf'[m] = None \/ wrapperOf'[m] = wrapperOf[m]) /\ UNCHANGED <<pend, flushing>>
    BY <1>13 DEF Cleanup, Unserve, Entry
  <2>3. CASE wrapperOf'[m] = None \/ pend[m] = << >>
    BY <2>2, <2>3 DEF Served, Reach
  <2>4. CASE wrapperOf'[m] = wrapperOf[m] /\ pend[m] # << >>
    BY <2>2, <2>4, ServedFrame
  <2> QED BY <2>2, <2>3, <2>4
<1>14. ASSUME NEW c \in Conns, CloseDoomed(c) PROVE Excused(m)
  <2>1. UNCHANGED <<pend, flushing, wrapperOf>>
    BY <1>14 DEF CloseDoomed, registry
  <2> QED BY <2>1, BacklogFrame
<1>15. ASSUME NEW i \in Inputs, NEW id \in Ids, Submit(i, id) PROVE Excused(m)
  <2>1. UNCHANGED <<pend, flushing, wrapperOf>>
    BY <1>15 DEF Submit
  <2> QED BY <2>1, BacklogFrame
<1>16. ASSUME NEW id \in Ids, Flush(id) PROVE Excused(m)
  <2> SUFFICES ASSUME Served(m) PROVE Served(m)'
    BY DEF Excused
  <2>2. /\ UNCHANGED wrapperOf /\ flushing' = flushing \ {id}
        /\ \/ pend' = [pend EXCEPT ![id] = << >>]
           \/ (pend' = pend /\ (card[id] = "none" \/ pend[id] = << >>))
    BY <1>16 DEF Flush
  <2>3. CASE pend'[m] = << >>
    BY <2>3 DEF Served
  <2>4. CASE m # id /\ pend[m] # << >>
    BY <2>2, <2>4, ServedFrame
  <2>5. CASE m = id /\ pend' = pend /\ pend[m] # << >>
    BY <2>2, <2>5 DEF Served, Reach, Carded
  <2>6. pend'[m] = << >> \/ (m # id /\ pend[m] # << >>)
        \/ (m = id /\ pend' = pend /\ pend[m] # << >>)
    BY <2>2
  <2> QED BY <2>3, <2>4, <2>5, <2>6
<1>f. ASSUME NEW s \in sends, Finish(s) PROVE Excused(m)
  <2>1. /\ UNCHANGED <<wrapperOf, flushing, net>> /\ sends' = sends \ {s}
        /\ m # s.id => pend'[m] = pend[m]
        /\ pend'[m] # pend[m] => MayFail(s.via) \/ pend[m] # << >>
    BY <1>f DEF Finish, Transmit, Requeue, Discard
  <2>2. CASE pend[m] # << >>
    BY <2>1, <2>2, ServedFrame DEF Excused
  <2>3. CASE pend[m] = << >> /\ pend'[m] = pend[m]
    BY <2>3 DEF Served, Excused
  <2>4. CASE pend[m] = << >> /\ pend'[m] # pend[m]
    <3>1. s.id = m /\ MayFail(s.via)
      BY <2>1, <2>4
    <3>2. s.via # wrapperOf[m] => s \in sends \ sends'
      BY <2>1
    <3>3. s.via = wrapperOf[m] => Served(m)'
      BY <2>1, <3>1 DEF Served, MayFail, Reach
    <3> QED BY <3>1, <3>2, <3>3 DEF Excused
  <2> QED BY <2>2, <2>3, <2>4
<1>17. ASSUME NEW id \in Ids, Dismiss(id) PROVE Excused(m)
  <2> SUFFICES ASSUME Served(m) PROVE Served(m)'
    BY DEF Excused
  <2>2. /\ wrapperOf' = [wrapperOf EXCEPT ![id] = None] /\ pend' = [pend EXCEPT ![id] = << >>]
        /\ UNCHANGED flushing
    BY <1>17 DEF Dismiss
  <2>3. CASE m = id
    BY <2>2, <2>3 DEF Served
  <2>4. CASE m # id
    <3>1. CASE pend[m] = << >>
      BY <2>2, <2>4, <3>1 DEF Served
    <3>2. CASE pend[m] # << >>
      BY <2>2, <2>4, <3>2, ServedFrame
    <3> QED BY <3>1, <3>2
  <2> QED BY <2>3, <2>4
<1>18. ASSUME KillAll PROVE Excused(m)
  <2>1. UNCHANGED <<pend, flushing, wrapperOf>>
    BY <1>18 DEF KillAll, registry
  <2> QED BY <2>1, BacklogFrame
<1>19. ASSUME Shutdown PROVE Excused(m)
  <2>1. UNCHANGED <<pend, flushing, wrapperOf>>
    BY <1>19 DEF Shutdown, registry
  <2> QED BY <2>1, BacklogFrame
<1>20. ASSUME HubEnds PROVE Excused(m)
  BY <1>20 DEF HubEnds, Served, Excused
<1>21. ASSUME HubStarts PROVE Excused(m)
  <2>1. UNCHANGED <<pend, flushing, wrapperOf>>
    BY <1>21 DEF HubStarts, registry
  <2> QED BY <2>1, BacklogFrame
<1>22. ASSUME UNCHANGED vars PROVE Excused(m)
  <2>1. UNCHANGED <<pend, flushing, wrapperOf>>
    BY <1>22 DEF vars, registry
  <2> QED BY <2>1, BacklogFrame
<1> QED
  BY <1>f, <1>1, <1>2, <1>3, <1>4, <1>5, <1>6, <1>7, <1>8, <1>9, <1>10, <1>11, <1>12, <1>13,
     <1>14, <1>15, <1>16, <1>17, <1>18, <1>19, <1>20, <1>21, <1>22
  DEF Next, Local, Handler, HubExits, HubCrashes, Rest

(* Every step keeps the invariant behind the theorem on waiting input. *)
LEMMA BacklogInvStep == ASSUME BacklogInv, [Next]_vars PROVE BacklogInv'
<1> USE DEF BacklogInv
<1>1. EntryInv' /\ Settled /\ High' \in Nat /\ High' <= MaxConn
  BY EntryStep, BaseStep DEF EntryInv
<1>2. Types /\ Fresh /\ Boxes /\ Own /\ Named /\ Linked /\ WakeupInv /\ Stages /\ Held /\ Attended
  BY DEF EntryInv, Base
<1>3. Counted'
  BY <1>1 DEF EntryInv, Base
<1>4. Carded' /\ Issued' /\ Chosen' /\ Dialers'
  BY <1>1, <1>2, CardedStep, IssuedStep, ChosenStep, DialersStep
<1>5. Alone'
  BY <1>1, <1>2, AloneStep
<1>6. Outruns'
  BY <1>1, <1>2, <1>3, OutrunsStep
<1> QED BY <1>1, <1>4, <1>5, <1>6

(* It holds before anything was dialled. *)
LEMMA BacklogInit == Init => BacklogInv
<1>1. Init => Carded /\ Issued /\ Chosen /\ Alone /\ Dialers /\ Outruns
  BY DEF Init, Carded, Issued, Chosen, Alone, Dialers, Outruns, Known
<1> QED BY <1>1, EntryInit DEF BacklogInv

(* Input that waited for a wrapper (pendingInput) does not come to wait      *)
(* behind a connection that can take it, without a goroutine that will send *)
(* it; but for a registration that another wrapper has outrun, and for a    *)
(* goroutine that had read the registry before the connection was entered.  *)
THEOREM BacklogSent == Spec => BacklogHasFlusher
<1>1. BacklogInv /\ [Next]_vars => BacklogInv'
  BY BacklogInvStep
<1>2. ASSUME BacklogInv, [Next]_vars, NEW id \in Ids, ~Stranded(id), Stranded(id)'
      PROVE  \E s \in sends \ sends' : s.id = id /\ s.via # wrapperOf[id]
  <2>1. Excused(id)
    BY <1>2, BaseStep, BacklogStep DEF BacklogInv, EntryInv, Base
  <2>2. Served(id) /\ ~Served(id)'
    BY <1>2 DEF Served, Stranded
  <2> QED BY <2>1, <2>2 DEF Excused
<1>3. BacklogInv /\ [Next]_vars =>
        \A id \in Ids : ~Stranded(id) /\ Stranded(id)' =>
          \E s \in sends \ sends' : s.id = id /\ s.via # wrapperOf[id]
  BY <1>2
<1> QED BY <1>1, <1>3, BacklogInit, PTL DEF Spec, BacklogHasFlusher

-----------------------------------------------------------------------------
(* The idle timer (IdleTimer).                                              *)


(* At the start there is no timer.                                          *)
LEMMA InitInv == IdleInit => Inv
  BY DEF IdleInit, Inv, IdleTypes, OnlyTimer, Older, Timeouts

(* The steps that neither start nor stop a timer, nor connect or disconnect *)
(* a browser, leave the invariant alone.                                    *)
LEMMA AsideStep ==
  ASSUME Inv,
         \/ \E u \in UIs, k \in Callers : ReadTimeout(u, k)
         \/ \E p \in Posters, min \in Timeouts : SetTimeout(p, min)
         \/ \E g \in killing : Collect(g)
         \/ \E w \in Clients : Close(w) \/ Join(w) \/ Leave(w)
         \/ UNCHANGED idleVars
  PROVE  Inv'
<1> USE DEF Inv, IdleTypes, OnlyTimer, Older, Timeouts, uis, settings, browsers, timers
<1>1. CASE \E u \in UIs, k \in Callers : ReadTimeout(u, k)
  BY <1>1 DEF ReadTimeout
<1>2. CASE \E p \in Posters, min \in Timeouts : SetTimeout(p, min)
  BY <1>2 DEF SetTimeout
<1>3. CASE \E g \in killing : Collect(g)
  BY <1>3 DEF Collect
<1>4. CASE \E w \in Clients : Close(w) \/ Join(w) \/ Leave(w)
  BY <1>4 DEF Close, Join, Leave
<1>5. CASE UNCHANGED idleVars
  BY <1>5 DEF idleVars
<1> QED
  BY <1>1, <1>2, <1>3, <1>4, <1>5

(* A browser that connects stops the timer; one that leaves last starts it. *)
LEMMA BrowserStep ==
  ASSUME Inv, NEW u \in UIs,
         AddUI(u) \/ \E k \in Callers : RemoveUI(u, k)
  PROVE  Inv'
<1> USE DEF Inv, IdleTypes, OnlyTimer, Older, Timeouts, uis, settings
<1>1. CASE AddUI(u)
  BY <1>1 DEF AddUI, StopTimer, Invalidated
<1>2. ASSUME NEW k \in Callers, RemoveUI(u, k) PROVE Inv'
  <2>1. CASE uis = {u} /\ saw[<<u, k>>] # 0 /\ timer = 0
    <3>1. Arm(idleGen, armed)
      BY <1>2, <2>1 DEF RemoveUI, StartTimer
    <3>2. /\ armed = {} /\ timer' = idleGen + 1 /\ idleGen' = idleGen + 1
          /\ armed' = {idleGen + 1}
      <4>1. armed = {}
        BY <2>1
      <4> QED
        BY <3>1, <4>1 DEF Arm
    <3>3. IdleTypes'
      BY <1>2, <3>2 DEF RemoveUI
    <3>4. OnlyTimer'
      BY <1>2, <2>1, <3>2 DEF RemoveUI
    <3>5. Older'
      BY <1>2, <3>2 DEF RemoveUI
    <3> QED
      BY <3>3, <3>4, <3>5
  <2>2. CASE ~(uis = {u} /\ saw[<<u, k>>] # 0 /\ timer = 0)
    <3>1. UNCHANGED <<idleGen, timer, armed>>
      BY <1>2, <2>2 DEF RemoveUI, StartTimer
    <3>2. IdleTypes'
      BY <1>2, <3>1 DEF RemoveUI
    <3>3. OnlyTimer'
      BY <1>2, <3>1 DEF RemoveUI
    <3>4. Older'
      BY <1>2, <3>1 DEF RemoveUI
    <3> QED
      BY <3>2, <3>3, <3>4
  <2> QED
    BY <2>1, <2>2
<1> QED
  BY <1>1, <1>2

(* A changed setting replaces the timer, or stops it.                       *)
LEMMA SettingStep ==
  ASSUME Inv, NEW p \in Posters, ApplyTimeout(p)
  PROVE  Inv'
<1> USE DEF Inv, IdleTypes, OnlyTimer, Older, Timeouts, uis, browsers
<1>1. CASE uis = {} /\ body[p] # 0
  <2>1. /\ Arm(Invalidated, armed \ {timer})
        /\ post' = [post EXCEPT ![p] = "done"]
        /\ UNCHANGED <<ui, call, saw, idleMin, body, fired, killing, wrappers, collected,
                        interrupted>>
    BY <1>1 DEF ApplyTimeout
  <2>2. /\ armed \ {timer} = {} /\ Invalidated \in Nat /\ Invalidated >= idleGen
        /\ timer' = Invalidated + 1 /\ idleGen' = Invalidated + 1
        /\ armed' = {Invalidated + 1}
    <3>1. armed \ {timer} = {}
      OBVIOUS
    <3>2. Invalidated \in Nat /\ Invalidated >= idleGen
      BY DEF Invalidated
    <3> QED
      BY <2>1, <3>1, <3>2 DEF Arm
  <2>3. IdleTypes'
    BY <2>1, <2>2
  <2>4. OnlyTimer'
    BY <1>1, <2>1, <2>2
  <2>5. Older'
    BY <2>1, <2>2
  <2> QED
    BY <2>3, <2>4, <2>5
<1>2. CASE ~(uis = {} /\ body[p] # 0)
  <2>1. /\ StopTimer
        /\ post' = [post EXCEPT ![p] = "done"]
        /\ UNCHANGED <<ui, call, saw, idleMin, body, fired, killing, wrappers, collected,
                        interrupted>>
    BY <1>2 DEF ApplyTimeout
  <2>2. /\ Invalidated \in Nat /\ Invalidated >= idleGen
        /\ timer # 0 => Invalidated > idleGen
        /\ timer' = 0 /\ idleGen' = Invalidated /\ armed' = {}
    BY <2>1 DEF StopTimer, Invalidated
  <2>3. IdleTypes'
    BY <2>1, <2>2
  <2>4. OnlyTimer'
    BY <2>2
  <2>5. Older'
    <3>1. ASSUME NEW g \in fired PROVE g \in 1 .. idleGen' /\ g # idleGen'
      <4>1. CASE timer = 0
        BY <2>1, <4>1 DEF StopTimer, Invalidated
      <4>2. CASE timer # 0
        BY <2>1, <4>2 DEF StopTimer, Invalidated
      <4> QED
        BY <4>1, <4>2
    <3>2. \A g \in interrupted : g <= idleGen'
      BY <2>2
    <3> QED
      BY <2>1, <2>2, <3>1, <3>2
  <2> QED
    BY <2>3, <2>4, <2>5
<1> QED
  BY <1>1, <1>2

(* A callback that passes its check was the only timer that counted.        *)
LEMMA CallbackStep ==
  ASSUME Inv,
         \/ \E g \in armed : Fire(g)
         \/ \E g \in fired : Stale(g) \/ Expire(g)
  PROVE  Inv'
<1> USE DEF Inv, IdleTypes, OnlyTimer, Older, Timeouts, uis, browsers, settings
<1>1. CASE \E g \in armed : Fire(g)
  BY <1>1 DEF Fire
<1>2. ASSUME NEW g \in fired, Stale(g) PROVE Inv'
  BY <1>2 DEF Stale
<1>3. ASSUME NEW g \in fired, Expire(g) PROVE Inv'
  <2>1. timer = g
    BY <1>3 DEF Expire
  <2>2. IdleTypes'
    BY <1>3 DEF Expire
  <2>3. OnlyTimer'
    BY <1>3 DEF Expire
  <2>4. Older'
    BY <1>3, <2>1 DEF Expire
  <2> QED
    BY <2>2, <2>3, <2>4
<1> QED
  BY <1>1, <1>2, <1>3

(* Every step of the Hub and of its environment keeps the invariant.        *)
LEMMA InvStep == ASSUME Inv, [IdleNext]_idleVars PROVE Inv'
  BY AsideStep, BrowserStep, SettingStep, CallbackStep DEF IdleNext, Callback

(* At most one timer counts, and only while no browser is connected:        *)
(* startIdleTimerLocked and stopIdleTimerLocked, under every interleaving.  *)
THEOREM TimerInvariant == IdleSpec => []Inv
  BY InitInv, InvStep, PTL DEF IdleSpec

(* No callback gives the wrappers up before a whole idle period has passed  *)
(* without a browser.                                                       *)
THEOREM KillNeedsFullPeriod == IdleSpec => FullPeriodAlone
<1>1. Inv => (\A g \in fired : Expire(g) => uis = {} /\ g \notin interrupted)
  BY DEF Inv, IdleTypes, OnlyTimer, Older, Expire
<1> QED
  BY <1>1, InitInv, InvStep, PTL DEF IdleSpec, FullPeriodAlone
=============================================================================

------------------------------- MODULE HubTab -------------------------------
(***************************************************************************)
(* One browser tab and the UI side of the Hub: the WebSocket of            *)
(* ws-client.ts with its back-off, watchdog and replacement, the snapshot  *)
(* and the replay the Hub sends to a new connection, the broadcasts that   *)
(* run beside them, and the cards, terminals and active session the tab    *)
(* keeps in between (state.ts, app.ts, session-list.ts).                   *)
(*                                                                         *)
(* A broadcast is one step: it reads the set of UI connections and writes  *)
(* to them.  The change it reports was made in an earlier step, so a       *)
(* connection may come up between the two.                                 *)
(***************************************************************************)
EXTENDS Naturals, Sequences, FiniteSets

CONSTANTS Ids,        \* session numbers
          MaxEvent    \* outputs, losses, restarts and acts of the user in a behaviour

ASSUME HubTabAssumption ==
  /\ Ids \subseteq Nat \ {0} /\ IsFiniteSet(Ids) /\ MaxEvent \in Nat

(* Each loss of a connection costs a socket and each restart a Hub.        *)
MaxSocket == MaxEvent + 1
MaxHub == MaxEvent + 1

VARIABLES
  hub, up,      \* number of the Hub process (instanceID) and whether it runs
  live,         \* Hub: state of each session number, "none" when not yet given out
  buf,          \* Hub: ptyBuf, the chunks replayed to a new connection
  outbox,       \* Hub: what the loop of each wrapper still has to broadcast
  ending,       \* Hub: session_end of wrapper loops that are leaving
  removing,     \* Hub: session_removed of dismissals under way
  srv,          \* Hub: what handleWS has done for each socket
  snap, rpl,    \* Hub: the captured snapshot and replay of a socket
  chan, req,    \* bytes on the way to the tab and to the Hub
  st,           \* tab: readyState of each socket
  of,           \* tab: the Hub the last socket reached
  cur, retry,   \* tab: ws and _wsReconnectTimer
  synced, seen, \* whether its snapshot has been applied, and of which Hubs one has
  cards,        \* tab: sessions
  active, lastActive, pendingOpen, autoSwitch,
  inst,         \* tab: _hubInstance
  local,        \* tab: the Hub for which a number has local state, 0 for none
  text,         \* tab: output shown under a number
  timers,       \* tab: autoDismissTimers
  events,       \* bound
  purged,       \* history: a snapshot of this connection purged
  unknown       \* history: numbers whose dismissal this Hub has answered before
                \* it gave them out

session == <<live, buf, outbox, ending, removing>>
server  == <<hub, up, srv, snap, rpl>>
socket  == <<st, of, cur, retry, synced, seen>>
page    == <<cards, active, lastActive, pendingOpen, autoSwitch, inst, local, text, timers>>
vars == <<session, server, chan, req, socket, page, events, purged, unknown>>

Sockets == 1 .. MaxSocket
None == 0
NoText == [i \in Ids |-> << >>]
NoSession == [i \in Ids |-> "none"]
States == {"none", "running", "disconnected", "completed", "dismissed"}
Listed == {"running", "disconnected", "completed"}
Chunks == [h : 1 .. MaxHub, n : 1 .. MaxEvent]
Cards == {i \in Ids : cards[i] # "none"}
Happens == events < MaxEvent /\ events' = events + 1
Connected(k) == srv[k] \in {"added", "captured", "sent", "ui"}

Update(i, s) == [t |-> "update", id |-> i, st |-> s]
End(i, s)    == [t |-> "end", id |-> i, st |-> s]
Removed(i)   == [t |-> "removed", id |-> i]
Pty(i, cs)   == [t |-> "pty", id |-> i, cs |-> cs]
Snapshot(h, c) == [t |-> "snapshot", h |-> h, cards |-> c]

Init ==
  /\ hub = 1 /\ up = TRUE
  /\ live = NoSession /\ buf = NoText
  /\ outbox = NoText /\ ending = NoText /\ removing = << >>
  /\ srv = [k \in Sockets |-> "none"]
  /\ snap = [k \in Sockets |-> live] /\ rpl = [k \in Sockets |-> buf]
  /\ chan = [k \in Sockets |-> << >>] /\ req = [k \in Sockets |-> << >>]
  /\ st = [k \in Sockets |-> IF k = 1 THEN "connecting" ELSE "new"]
  /\ of = 0 /\ cur = 1 /\ retry = FALSE /\ synced = FALSE /\ seen = {}
  /\ cards = live /\ active = None /\ lastActive = None /\ pendingOpen = None
  /\ autoSwitch = FALSE /\ inst = 0
  /\ local = [i \in Ids |-> 0] /\ text = buf /\ timers = {}
  /\ events = 0 /\ purged = FALSE /\ unknown = {}

-----------------------------------------------------------------------------
(* The sessions of the Hub.  The wrapper loop of a session broadcasts what  *)
(* it has changed before it reads the next message of its wrapper.          *)

Begin(i) ==                \* wrapperLoop
  /\ up /\ live[i] = "none"
  /\ live' = [live EXCEPT ![i] = "running"]
  /\ outbox' = [outbox EXCEPT ![i] = <<Update(i, "running")>>]
  /\ UNCHANGED <<buf, ending, removing, server, chan, req, socket, page, events, purged, unknown>>

Output(i) ==               \* "pty_data": ptyBuf now, broadcast later
  /\ up /\ live[i] = "running" /\ outbox[i] = << >> /\ Happens
  /\ LET c == [h |-> hub, n |-> events + 1]
     IN  /\ buf' = [buf EXCEPT ![i] = Append(@, c)]
         /\ outbox' = [outbox EXCEPT ![i] = <<Pty(i, <<c>>)>>]
  /\ UNCHANGED <<live, ending, removing, server, chan, req, socket, page, purged, unknown>>

Ends(i, s) ==              \* the wrapper loop leaves; its broadcast comes last
  /\ up /\ live[i] = "running" /\ outbox[i] = << >>
  /\ live' = [live EXCEPT ![i] = s]
  /\ ending' = [ending EXCEPT ![i] = Append(@, End(i, s))]
  /\ UNCHANGED <<buf, outbox, removing, server, chan, req, socket, page, purged, unknown>>

Drop(i) == Happens /\ Ends(i, "disconnected")
Complete(i) == Ends(i, "completed") /\ UNCHANGED events

Return(i) ==               \* reattachLoop, on a goroutine of its own
  /\ up /\ live[i] = "disconnected" /\ outbox[i] = << >>
  /\ live' = [live EXCEPT ![i] = "running"]
  /\ outbox' = [outbox EXCEPT ![i] = <<Update(i, "running")>>]
  /\ UNCHANGED <<buf, ending, removing, server, chan, req, socket, page, events, purged, unknown>>

-----------------------------------------------------------------------------
(* Broadcasts: each goroutine sends what it holds to the connections of the *)
(* moment.                                                                  *)

Hears(k) == Connected(k) /\ st[k] = "open"     \* what is written to a dead socket is lost

Send(m) == chan' = [k \in Sockets |-> IF Hears(k) THEN Append(chan[k], m) ELSE chan[k]]

Broadcast(i) ==
  /\ outbox[i] # << >>
  /\ Send(Head(outbox[i]))
  /\ outbox' = [outbox EXCEPT ![i] = Tail(@)]
  /\ UNCHANGED <<live, buf, ending, removing, server, req, socket, page, events, purged, unknown>>

BroadcastEnd(i) ==
  /\ ending[i] # << >>
  /\ Send(Head(ending[i]))
  /\ ending' = [ending EXCEPT ![i] = Tail(@)]
  /\ UNCHANGED <<live, buf, outbox, removing, server, req, socket, page, events, purged, unknown>>

BroadcastRemoved ==
  /\ removing # << >>
  /\ Send(Removed(Head(removing)))
  /\ removing' = Tail(removing)
  /\ UNCHANGED <<live, buf, outbox, ending, server, req, socket, page, events, purged, unknown>>

(* handleDismiss: an unknown number is answered too.                        *)
HandleDismiss(k) ==
  /\ Connected(k) /\ srv[k] = "ui" /\ req[k] # << >>
  /\ LET i == Head(req[k])
     IN  /\ live' = [live EXCEPT ![i] = IF @ \in Listed THEN "dismissed" ELSE @]
         /\ buf' = [buf EXCEPT ![i] = << >>]
         /\ removing' = Append(removing, i)
         /\ ending' = IF live[i] = "running"
                      THEN [ending EXCEPT ![i] = Append(@, End(i, "disconnected"))] ELSE ending
         /\ unknown' = IF live[i] = "none" THEN unknown \cup {i} ELSE unknown
  /\ req' = [req EXCEPT ![k] = Tail(@)]
  /\ UNCHANGED <<outbox, server, chan, socket, page, events, purged>>

-----------------------------------------------------------------------------
(* handleWS for a UI: addUIWithHistory captures the replay, sendSnapshot    *)
(* captures and sends the sessions, then the replay is sent.                *)

AddUIWithoutReplay(k) ==   \* mutant: the replay is not captured with the connection
  /\ srv[k] = "register" /\ st[k] = "open" /\ srv' = [srv EXCEPT ![k] = "added"]
  /\ UNCHANGED <<hub, up, snap, rpl, session, chan, req, socket, page, events, purged, unknown>>

AddUI(k) ==
  /\ srv[k] = "register" /\ st[k] = "open" /\ srv' = [srv EXCEPT ![k] = "added"]
  /\ rpl' = [rpl EXCEPT ![k] = buf]
  /\ UNCHANGED <<hub, up, snap, session, chan, req, socket, page, events, purged, unknown>>

Capture(k) ==
  /\ srv[k] = "added" /\ st[k] = "open" /\ srv' = [srv EXCEPT ![k] = "captured"]
  /\ snap' = [snap EXCEPT ![k] = live]
  /\ UNCHANGED <<hub, up, rpl, session, chan, req, socket, page, events, purged, unknown>>

SendSnapshot(k) ==
  /\ srv[k] = "captured" /\ st[k] = "open" /\ srv' = [srv EXCEPT ![k] = "sent"]
  /\ chan' = [chan EXCEPT ![k] = Append(@, Snapshot(hub, snap[k]))]
  /\ snap' = [snap EXCEPT ![k] = NoSession]
  /\ UNCHANGED <<hub, up, rpl, session, req, socket, page, events, purged, unknown>>

Replay(k) ==
  /\ srv[k] = "sent" /\ st[k] = "open" /\ rpl[k] # NoText
  /\ \E i \in Ids :
       /\ rpl[k][i] # << >>
       /\ chan' = [chan EXCEPT ![k] = Append(@, Pty(i, rpl[k][i]))]
       /\ rpl' = [rpl EXCEPT ![k][i] = << >>]
  /\ UNCHANGED <<hub, up, srv, snap, session, req, socket, page, events, purged, unknown>>

Serve(k) ==                \* uiLoop begins
  /\ srv[k] = "sent" /\ st[k] = "open" /\ rpl[k] = NoText
  /\ srv' = [srv EXCEPT ![k] = "ui"]
  /\ UNCHANGED <<hub, up, snap, rpl, session, chan, req, socket, page, events, purged, unknown>>

RemoveUI(k) ==             \* a write fails or the tab has closed
  /\ srv[k] \notin {"none", "gone"} /\ st[k] \in {"zombie", "closing", "closed"}
  /\ srv' = [srv EXCEPT ![k] = "gone"]
  /\ req' = [req EXCEPT ![k] = << >>]
  /\ snap' = [snap EXCEPT ![k] = NoSession] /\ rpl' = [rpl EXCEPT ![k] = NoText]
  /\ UNCHANGED <<hub, up, session, chan, socket, page, events, purged, unknown>>

HubStops ==
  /\ up /\ up' = FALSE /\ Happens
  /\ live' = NoSession /\ buf' = NoText
  /\ outbox' = NoText /\ ending' = outbox' /\ removing' = << >>
  /\ srv' = [k \in Sockets |-> IF srv[k] = "none" THEN "none" ELSE "gone"]
  /\ req' = [k \in Sockets |-> << >>]
  /\ snap' = [k \in Sockets |-> NoSession] /\ rpl' = [k \in Sockets |-> NoText]
  /\ unknown' = {}
  /\ UNCHANGED <<hub, chan, socket, page, purged>>

HubStarts ==
  /\ ~up /\ hub' = hub + 1 /\ up' = TRUE
  /\ UNCHANGED <<srv, snap, rpl, session, chan, req, socket, page, events, purged, unknown>>

-----------------------------------------------------------------------------
(* The tab.  Its page variables as one record, so that a handler can be     *)
(* written as the composition of the functions it calls.                    *)

Page == [cards |-> cards, active |-> active, pend |-> pendingOpen, auto |-> autoSwitch,
         local |-> local, text |-> text, timers |-> timers]

Become(p) ==
  /\ cards' = p.cards /\ active' = p.active /\ pendingOpen' = p.pend /\ autoSwitch' = p.auto
  /\ local' = p.local /\ text' = p.text /\ timers' = p.timers

EnsureTerminal(p, i) ==    \* local state under a number belongs to the Hub reached now
  IF p.local[i] = 0 THEN [p EXCEPT !.local[i] = of] ELSE p

ActivateSession(p, i) == [EnsureTerminal(p, i) EXCEPT !.active = i]

(* removeLocalSession: the neighbour of an active card takes its place.     *)
RemoveLocal(p, i) ==
  LET q == [p EXCEPT !.cards[i] = "none", !.local[i] = 0, !.text[i] = << >>, !.timers = @ \ {i},
                     !.active = IF @ = i THEN None ELSE @]
      left == {j \in Ids : q.cards[j] # "none"}
  IN  IF p.active = i /\ left # {}
      THEN {ActivateSession(q, j) : j \in left} ELSE {q}

Purge(p) ==                \* removeLocalSession for every number with a card or a terminal
  LET known == {i \in Ids : p.local[i] # 0 \/ p.cards[i] # "none"}
  IN  [p EXCEPT !.cards = NoSession, !.active = None, !.timers = @ \ known,
                !.local = [i \in Ids |-> 0], !.text = NoText]

Dismissing(is) ==          \* requestSessionDismiss: only on an open socket
  LET order == [n \in 1 .. Cardinality(is) |->
                  CHOOSE i \in is : Cardinality({j \in is : j <= i}) = n]
  IN  req' = IF st[cur] = "open" /\ srv[cur] # "gone" THEN [req EXCEPT ![cur] = @ \o order] ELSE req

NewSocket(k) == /\ cur' = k /\ st' = [st EXCEPT ![k] = "connecting"]
                /\ retry' = FALSE /\ synced' = FALSE /\ purged' = FALSE
NextSocket == IF st[cur] = "new" THEN cur ELSE cur + 1

EnsureAlive ==             \* visible, online or pageshow: replace a socket that has closed
  /\ st[cur] \in {"new", "closing", "closed"} /\ NextSocket \in Sockets
  /\ NewSocket(NextSocket)
  /\ UNCHANGED <<of, seen, session, server, chan, req, page, unknown>>

RetryFires ==
  /\ retry /\ st[cur] \in {"new", "closed"} /\ NextSocket \in Sockets
  /\ NewSocket(NextSocket)
  /\ UNCHANGED <<of, seen, session, server, chan, req, page, events, unknown>>

Open ==                    \* onopen: history is emptied, the Hub will replay it
  /\ st[cur] = "connecting" /\ up /\ srv[cur] = "none"
  /\ st' = [st EXCEPT ![cur] = "open"] /\ of' = hub
  /\ retry' = FALSE
  /\ pendingOpen' = IF pendingOpen = None THEN lastActive ELSE pendingOpen
  /\ text' = NoText
  /\ srv' = [srv EXCEPT ![cur] = "register"]
  /\ UNCHANGED <<cur, synced, seen, hub, up, snap, rpl, session, chan, req, cards, active, lastActive,
                 autoSwitch, inst, local, timers, events, purged, unknown>>

ClosedKeepsQuiet(k, s) ==  \* mutant: no reconnection when no session was open
  /\ st' = [st EXCEPT ![k] = s]
  /\ IF k = cur
     THEN /\ cards' = NoSession /\ timers' = {} /\ active' = None
          /\ lastActive' = IF active = None THEN lastActive ELSE active
          /\ retry' = (active # None)
     ELSE UNCHANGED <<cards, timers, active, lastActive, retry>>
  /\ chan' = [chan EXCEPT ![k] = << >>]
  /\ UNCHANGED <<of, cur, synced, seen, server, session, pendingOpen, autoSwitch, inst, local, text,
                 events, purged, req, unknown>>

Closed(k, s) ==            \* onclose: a socket that has been replaced is ignored
  /\ st' = [st EXCEPT ![k] = s]
  /\ IF k = cur
     THEN /\ cards' = NoSession /\ timers' = {} /\ active' = None
          /\ lastActive' = IF active = None THEN lastActive ELSE active
          /\ retry' = TRUE
     ELSE UNCHANGED <<cards, timers, active, lastActive, retry>>
  /\ chan' = [chan EXCEPT ![k] = << >>]
  /\ UNCHANGED <<of, cur, synced, seen, server, session, pendingOpen, autoSwitch, inst, local, text,
                 events, purged, req, unknown>>

ConnectFails == st[cur] = "connecting" /\ ~up /\ Closed(cur, "new")
Lost(k) == st[k] = "open" /\ srv[k] = "gone" /\ chan[k] = << >> /\ Closed(k, "closed")
OnClose(k) == st[k] = "closing" /\ Closed(k, "closed")

Cut ==                     \* half-open: still OPEN for the tab, nothing arrives
  /\ st[cur] = "open" /\ Happens
  /\ st' = [st EXCEPT ![cur] = "zombie"]
  /\ chan' = [chan EXCEPT ![cur] = << >>]
  /\ UNCHANGED <<of, cur, retry, synced, seen, session, server, req, page, purged, unknown>>

Watchdog ==                \* no message for WS_STALE_MS on an OPEN socket
  /\ st[cur] = "zombie" /\ st' = [st EXCEPT ![cur] = "closing"]
  /\ UNCHANGED <<of, cur, retry, synced, seen, session, server, chan, req, page, events, purged, unknown>>

-----------------------------------------------------------------------------
(* onmessage.                                                              *)

Receive(type) == /\ st[cur] = "open" /\ chan[cur] # << >> /\ Head(chan[cur]).t = type
                 /\ chan' = [chan EXCEPT ![cur] = Tail(@)]
                 /\ UNCHANGED <<st, of, cur, retry, hub, up, srv, snap, rpl, session, events, lastActive, unknown>>

OnPty ==                   \* ensureTerminal even for a number without a card
  /\ Receive("pty")
  /\ LET m == Head(chan[cur])
     IN  Become([EnsureTerminal(Page, m.id) EXCEPT !.text[m.id] = @ \o m.cs])
  /\ UNCHANGED <<req, inst, synced, seen, purged>>

Applied(p, arr) ==         \* completed sessions are dismissed, the others get a card
  [p EXCEPT !.cards = [i \in Ids |-> IF arr[i] \in Listed \ {"completed"} THEN arr[i] ELSE p.cards[i]]]

OpenPending(p) ==
  IF p.pend # None /\ p.cards[p.pend] # "none"
  THEN [ActivateSession(p, p.pend) EXCEPT !.pend = None] ELSE p

OnSnapshotKeepsState ==    \* mutant: the instance is recorded, nothing is purged
  /\ Receive("snapshot")
  /\ LET m == Head(chan[cur])
     IN  /\ Become(OpenPending(Applied(Page, m.cards)))
         /\ inst' = m.h
         /\ Dismissing({i \in Ids : m.cards[i] = "completed"})
  /\ synced' = TRUE /\ seen' = seen \cup {of} /\ UNCHANGED <<purged>>

OnSnapshot ==
  /\ Receive("snapshot")
  /\ LET m == Head(chan[cur])
         other == inst # 0 /\ inst # m.h
     IN  /\ Become(OpenPending(Applied(IF other THEN Purge(Page) ELSE Page, m.cards)))
         /\ inst' = m.h
         /\ purged' = (purged \/ other)
         /\ Dismissing({i \in Ids : m.cards[i] = "completed"})
  /\ synced' = TRUE /\ seen' = seen \cup {of}

OnUpdate ==
  /\ Receive("update")
  /\ LET m == Head(chan[cur])
         q == [Page EXCEPT !.cards[m.id] = m.st]
     IN  Become(IF Page.cards[m.id] = "none" /\ autoSwitch
                THEN ActivateSession([q EXCEPT !.auto = FALSE], m.id) ELSE q)
  /\ UNCHANGED <<req, inst, synced, seen, purged>>

OnEnd ==                   \* a disconnected card is dismissed five seconds later
  /\ Receive("end")
  /\ LET m == Head(chan[cur])
     IN  IF m.st = "completed"
         THEN /\ \E p \in RemoveLocal(Page, m.id) : Become(p)
              /\ Dismissing({m.id})
         ELSE /\ Become([Page EXCEPT !.cards[m.id] = IF @ = "none" THEN @ ELSE m.st,
                                      !.timers = @ \cup {m.id}])
              /\ UNCHANGED req
  /\ UNCHANGED <<inst, synced, seen, purged>>

OnRemoved ==
  /\ Receive("removed")
  /\ \E p \in RemoveLocal(Page, Head(chan[cur]).id) : Become(p)
  /\ UNCHANGED <<req, inst, synced, seen, purged>>

-----------------------------------------------------------------------------
(* Timers and the user.                                                    *)

TimerFires(i) ==           \* autoDismissTimers: dismissSession
  /\ i \in timers /\ timers' = timers \ {i}
  /\ Dismissing(IF cards[i] = "none" THEN {} ELSE {i})
  /\ UNCHANGED <<session, server, chan, socket, cards, active, lastActive, pendingOpen, autoSwitch,
                 inst, local, text, events, purged, unknown>>

DismissSession(i) ==
  /\ cards[i] # "none" /\ st[cur] = "open" /\ req[cur] = << >>
  /\ Dismissing({i})
  /\ UNCHANGED <<session, server, chan, socket, page, purged, unknown>>

Activate(i) ==
  /\ cards[i] # "none" /\ active # i /\ Become(ActivateSession(Page, i))
  /\ UNCHANGED <<session, server, chan, req, socket, lastActive, inst, purged, unknown>>

OpenFromNotification(i) ==
  /\ cards[i] = "none" /\ pendingOpen # i /\ pendingOpen' = i
  /\ UNCHANGED <<session, server, chan, req, socket, cards, active, lastActive, autoSwitch,
                 inst, local, text, timers, purged, unknown>>

SpawnPending ==
  /\ ~autoSwitch /\ Cards = {} /\ autoSwitch' = TRUE
  /\ UNCHANGED <<session, server, chan, req, socket, cards, active, lastActive, pendingOpen,
                 inst, local, text, timers, purged, unknown>>

HubStep == \/ \E i \in Ids : Begin(i) \/ Output(i) \/ Drop(i) \/ Complete(i) \/ Return(i)
           \/ HubStops
HubWork(k) == AddUI(k) \/ Capture(k) \/ SendSnapshot(k) \/ Replay(k) \/ Serve(k) \/ RemoveUI(k)
              \/ HandleDismiss(k)
Broadcasts == BroadcastRemoved \/ \E i \in Ids : Broadcast(i) \/ BroadcastEnd(i)
Messages == OnPty \/ OnSnapshot \/ OnUpdate \/ OnEnd \/ OnRemoved
Connection == RetryFires \/ Open \/ ConnectFails \/ Watchdog
              \/ \E k \in Sockets : Lost(k) \/ OnClose(k)
User == /\ Happens
        /\ \/ \E i \in Ids : DismissSession(i) \/ Activate(i) \/ OpenFromNotification(i)
           \/ EnsureAlive \/ SpawnPending

Next == \/ HubStep \/ HubStarts \/ (\E k \in Sockets : HubWork(k)) \/ Broadcasts
        \/ Connection \/ Messages \/ (\E i \in Ids : TimerFires(i)) \/ User \/ Cut

Spec == Init /\ [][Next]_vars

(* Goroutines and timers run; the Hub is started again; nothing is asked of  *)
(* the sessions, of the network or of the user.                             *)
Fairness ==
  /\ WF_vars(HubStarts) /\ WF_vars(Broadcasts) /\ WF_vars(Messages)
  /\ \A k \in Sockets : WF_vars(HubWork(k))
  /\ \A k \in Sockets : WF_vars(Lost(k)) /\ WF_vars(OnClose(k))
  /\ WF_vars(RetryFires) /\ WF_vars(Open) /\ WF_vars(ConnectFails) /\ WF_vars(Watchdog)

FairSpec == Spec /\ Fairness
-----------------------------------------------------------------------------
Synced == st[cur] = "open" /\ synced
Quiet == /\ up /\ Synced /\ srv[cur] = "ui" /\ chan[cur] = << >> /\ req[cur] = << >>
         /\ removing = << >>
         /\ \A i \in Ids : outbox[i] = << >> /\ ending[i] = << >>

(* Once a tab has applied the snapshot of the Hub it is connected to, no
   output of another Hub is shown, and no terminal is left under a number from
   a Hub whose snapshot the tab had applied before: the new Hub may have given
   the number to another session (ws-client.ts 73-77).  A connection that was
   lost before its snapshot leaves its terminals behind, for the instance was
   never recorded. *)
NoForeignState ==
  Synced => \A i \in Ids : /\ local[i] \in seen => local[i] = of
                           /\ \A n \in DOMAIN text[i] : text[i][n].h = of

(* When everything has been delivered, a tab that did not purge on this
   connection has a card for every session of the Hub and shows every chunk
   the Hub would replay: a session or an output that comes up while a
   connection is being added is in the snapshot, the replay or the stream.
   A number is left out when its dismissal was answered before the Hub gave it
   out (a card of an older Hub was dismissed, server.go 1486-1489): that answer
   may come after the session's first update and take its card away. *)
NothingMissing ==
  Quiet /\ ~purged =>
    \A i \in Ids \ unknown :
      live[i] \in {"running", "disconnected"} =>
        /\ cards[i] # "none"
        /\ \A n \in DOMAIN buf[i] :
             \E x \in DOMAIN text[i] : text[i][x] = buf[i][n]

(* The tab comes back: whatever closes, is cut or restarts, it is connected
   and has applied a snapshot again, without the user doing anything. *)
Reconnects == []<>Synced

=============================================================================

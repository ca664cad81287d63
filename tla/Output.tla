------------------------------- MODULE Output -------------------------------
(***************************************************************************)
(* From a chunk of PTY output to the terminals on the page:                *)
(* src/web/src/app/terminal.ts (the queue of output for terminals that are *)
(* not shown, the batching after a resize, attaching a terminal to the     *)
(* page, following the bottom), multi-pane.ts (the grid of panes of the    *)
(* Multi tab), detached-grid.ts (the same grid in a window of its own) and *)
(* the parts of ws-client.ts, session-list.ts, settings.ts and app.ts that *)
(* drive them.                                                             *)
(*                                                                         *)
(* One browser window and its socket: the cards go with it, the terminals  *)
(* stay, and are emptied for the replay when it is back.  A terminal is a record: what waits for it, the     *)
(* flush in flight (xterm parses asynchronously and calls back), the flush *)
(* a finished one has left to the next animation frame, the batch opened   *)
(* by a resize, where its container is in the page, and whether its reader *)
(* follows the bottom.  A chunk is a number; Redraws are the chunks with a *)
(* screen clear in them.                                                   *)
(*                                                                         *)
(* A superseded flush is dropped: its callback finds another sequence      *)
(* number and returns (terminal.ts:666-671), whatever it was to do next.   *)
(***************************************************************************)
EXTENDS Integers, Sequences, FiniteSets

CONSTANTS Sessions,    \* the session numbers
          Codex,       \* those whose panes are always forced to the bottom
          Panes,       \* the greatest size of the grid
          Redraws,     \* the chunks that clear the screen
          Cap,         \* TERMINAL_PENDING_MAX_BYTES, in chunks
          BatchCap,    \* LIVE_BATCH_MAX_BYTES, in chunks
          MaxChunk,    \* bound: chunks the Hub sends
          MaxAct       \* bound: acts of the user, resizes and session changes

None == 0

ASSUME OutputAssumption ==
  /\ Sessions \subseteq Nat \ {None} /\ Codex \subseteq Sessions
  /\ Panes \in Nat \ {0} /\ Cap \in Nat \ {0} /\ BatchCap \in Nat \ {0}
  /\ MaxChunk \in Nat /\ MaxAct \in Nat /\ Redraws \subseteq 1..MaxChunk

VARIABLES known,     \* sessions: the session cards
          view,      \* "terminal", "other" (the orchestration tab), "multi",
                     \* or "detached": a window of /?view=detached-grid
          active,    \* activeSessionId
          term,      \* terminals
          size,      \* cols * rows
          order,     \* MultiPaneManager.order, or the detached window's ids
          slots,     \* what the panes were last built for
          focused,   \* focusedIdx, counted from 1
          leaving,   \* dismissPendingSessionIds
          ended,     \* sessions that are gone: their numbers do not return
          sent,      \* chunks the Hub has sent
          due,       \* renders the detached window's start-up still owes
          link,      \* the socket, and the session to open when it is back
          acts

vars == <<known, view, active, term, size, order, slots, focused, leaving,
          ended, sent, due, link, acts>>

grid == <<size, order, slots, focused, leaving>>

----------------------------------------------------------------------------
(* Terminals                                                               *)

\* A terminal nobody has output for yet, and one just made by ensureTerminal.
Absent == [made |-> FALSE, place |-> "none", opened |-> FALSE, waits |-> {},
           pending |-> <<>>, flight |-> "none", frames |-> {},
           batch |-> "off", screen |-> <<>>, gone |-> {},
           auto |-> TRUE, at |-> "bottom", follow |-> FALSE,
           stick |-> FALSE, passes |-> FALSE, handler |-> "none"]

Grids == {"multi", "detached"}
InPane(t) == t.place = "pane"

\* canFitTerminal, and clientWidth > 0: the container is on the page and shown.
Visible(t) == \/ t.place = "area" /\ view = "terminal"
              \/ InPane(t) /\ view \in Grids

Snapped(t) == [t EXCEPT !.auto = TRUE, !.at = "bottom"]
Kept(t) == IF t.auto THEN Snapped(t) ELSE t

\* Where the viewport is: at the bottom, where the user has scrolled ("read"),
\* or where a redraw has dropped it ("lost").  A screen clear drops
\* it to the top.  The handler a pane installs (multi-pane.ts:462-470)
\* gives up following at once; the single view's goes back to the bottom.
Parsed(t, chunks) ==
  IF \E k \in DOMAIN chunks : chunks[k] \in Redraws
  THEN IF t.auto /\ t.handler # "pane"
       THEN Snapped(t)
       ELSE [t EXCEPT !.auto = FALSE, !.at = IF @ = "read" THEN @ ELSE "lost"]
  ELSE Kept(t)

Written(t, chunks) ==
  Parsed([t EXCEPT !.screen = @ \o chunks], chunks)

\* The callback of attachTerminal: the container goes back to the page, at the
\* bottom; the fit may find other dimensions and send them (resized), which
\* opens a batch.
Sized(t, resized) == IF resized THEN [t EXCEPT !.batch = "on"] ELSE t
Placed(t, resized) == Sized(Snapped([t EXCEPT !.place = "area"]), resized)

\* A bug that would break WrittenOnce: the queue is emptied only by trimming.
FlushKeeps(t, then, resized) ==
  IF t.pending = <<>>
  THEN IF then = "attach" THEN Placed(t, resized) ELSE Kept(t)
  ELSE [Written(t, t.pending) EXCEPT !.flight = then]

\* flushPending: everything that waits is one write; then is what to do once it
\* is parsed, "attach" for attachTerminal and "plain" for nothing.
FlushPending(t, then, resized) ==
  IF t.pending = <<>>
  THEN IF then = "attach" THEN Placed(t, resized) ELSE Kept(t)
  ELSE [Written(t, t.pending) EXCEPT !.pending = <<>>, !.flight = then]

\* queuePendingTerminalChunk: a batch is never trimmed but cut short, a queue
\* forgets its oldest chunks.
Queued(t, c) ==
  LET more == Append(t.pending, c) IN
  IF t.batch = "on"
  THEN IF Len(more) > BatchCap
       THEN FlushPending([t EXCEPT !.pending = more, !.batch = "off"],
                         "plain", FALSE)
       ELSE [t EXCEPT !.pending = more]
  ELSE LET over == IF Len(more) > Cap THEN Len(more) - Cap ELSE 0 IN
       [t EXCEPT !.pending = SubSeq(more, over + 1, Len(more)),
                 !.gone = @ \cup {more[k] : k \in 1..over}]

\* scrollTerminalToBottomSoon and its companions with force: at the bottom now
\* and again over the next frames and timers, until a manual scroll.
Following(t) == [Snapped(t) EXCEPT !.follow = TRUE]

\* attachTerminal: the page shows one terminal.
Attached(s, tm, resized) ==
  LET away == [o \in Sessions |-> IF tm[o].place = "area"
                                  THEN [tm[o] EXCEPT !.place = "away"]
                                  ELSE tm[o]]
      t == [away[s] EXCEPT !.made = TRUE, !.auto = TRUE]
  IN [away EXCEPT ![s] =
        IF t.place = "none"
        THEN [t EXCEPT !.place = "area", !.waits = @ \cup {"area"}]
        ELSE FlushPending(t, "attach", resized)]

\* ensureTerminal.
Made(s, tm) == [tm EXCEPT ![s].made = TRUE]

----------------------------------------------------------------------------
(* The grid                                                                *)

\* detachSlot: the container leaves its pane, and the frame that was to open it
\* there finds it elsewhere.
Detached(t) == IF InPane(t)
               THEN [t EXCEPT !.place = "away", !.waits = @ \ {"pane"}]
               ELSE t

Teardown(tm) == [s \in Sessions |-> Detached(tm[s])]

\* attachToSlot: a container made here is opened in the next frame, any other is
\* moved, flushed and fitted.  The Multi tab forces a Codex session to the bottom
\* again and again (_stickToBottomSoon), the detached window once.
InSlot(s, t, resized) ==
  LET u == [t EXCEPT !.place = "pane",
                     !.handler = IF @ = "none" THEN "pane" ELSE @]
      shown == IF ~t.made THEN t
               ELSE IF t.place = "none"
                    THEN [u EXCEPT !.waits = @ \cup {"pane"}]
                    ELSE Sized(FlushPending(u, "plain", FALSE), resized)
  IN IF s \in Codex /\ t.made
     THEN [Snapped(shown) EXCEPT !.passes = @ \/ (view # "detached" /\ t.place # "none")]
     ELSE shown

\* render of the Multi grid: the order keeps the sessions that are alive and not
\* on their way out, appends the others, and the first of them get the panes.
Known(ord, kn, new) ==
  SelectSeq(ord, LAMBDA s : s \in kn)
    \o SelectSeq(new, LAMBDA s : s \in kn /\ \A k \in DOMAIN ord : ord[k] # s)

Ascending == CHOOSE q \in [1..Cardinality(Sessions) -> Sessions] :
               \A j, k \in DOMAIN q : j < k => q[j] < q[k]

\* What _saveOrder may have kept of them.
Orders == {q \in [1..Cardinality(Sessions) -> Sessions] :
             \A j, k \in DOMAIN q : q[j] = q[k] => j = k}

SlotsOf(ord, kn, n) ==
  [i \in 1..n |-> IF i <= Len(ord) /\ ord[i] \in kn THEN ord[i] ELSE None]

\* The detached window's panes: a session, one still to come, or an empty one.
DetachedSlots(ord) ==
  [i \in 1..size |-> IF i <= Len(ord) THEN ord[i] ELSE None]

Shown(sl, tm, resized) ==
  [s \in Sessions |->
     IF \E i \in DOMAIN sl : sl[i] = s
     THEN InSlot(s, tm[s], resized)
     ELSE tm[s]]

RenderMulti(kn, out, ord, n, tm, resized) ==
  LET now == Known(ord, kn \ out, Ascending)
      sl == SlotsOf(now, kn \ out, n)
  IN /\ leaving' = out \cap kn
     /\ order' = now
     /\ slots' = sl
     /\ size' = n
     /\ term' = Shown(sl, Teardown(tm), resized)

\* activateSessionForMultiPane: no terminal is attached, only followed.
ForMultiPane(s, tm) ==
  IF tm[s].made THEN [tm EXCEPT ![s] = Following(@)] ELSE tm

\* refitActiveTerminalAfterLayout(true) and the follow, after attachTerminal.
Fronted(t) == [Following(t) EXCEPT !.stick = @ \/ view # "detached"]

SlotOf(s) == {i \in DOMAIN slots : slots[i] = s}

\* activateSession: with the grid open it only moves the focus, to the pane the
\* session has, if any.
ActivateSession(s, tm, resized) ==
  /\ active' = s
  /\ IF view = "multi"
     THEN /\ focused' = IF SlotOf(s) # {} THEN CHOOSE i \in SlotOf(s) : TRUE
                                          ELSE focused
          /\ term' = ForMultiPane(s, tm)
          /\ UNCHANGED <<view, size, order, slots>>
     ELSE /\ view' = IF view = "detached" THEN view ELSE "terminal"
          /\ term' = [Attached(s, Made(s, tm), resized) EXCEPT ![s] = Fronted(@)]
          /\ UNCHANGED <<size, order, slots, focused>>

\* render of the page: the first card is activated when none is, else the cards
\* are rebuilt and the grid with them.
Render(kn, tm, resized) ==
  IF active = None /\ kn # {}
  THEN \E s \in kn : ActivateSession(s, tm, resized) /\ UNCHANGED leaving
  ELSE /\ IF view = "multi"
          THEN RenderMulti(kn, leaving, order, size, tm, resized)
          ELSE term' = tm /\ UNCHANGED grid
       /\ UNCHANGED <<active, view, focused>>

----------------------------------------------------------------------------
(* Messages from the Hub                                                   *)

\* isSessionLiveRenderedInMultiPane: only the Multi tab's panes count.
InGrid(s) == /\ view = "multi"
             /\ term[s].opened /\ InPane(term[s])
             /\ \E i \in DOMAIN slots : slots[i] = s

\* pty_data: written at once for the active session and for those in the grid,
\* unless a flush is in flight or a batch is open.
WouldWrite(s) == /\ s = active \/ InGrid(s)
                 /\ term[s].flight = "none" /\ term[s].batch # "on"

Chunk(s) ==
  /\ s \in known /\ sent < MaxChunk
  /\ sent' = sent + 1
  /\ LET t == [term[s] EXCEPT !.made = TRUE] IN
     term' = [term EXCEPT ![s] = IF WouldWrite(s)
                                 THEN Written(t, <<sent + 1>>)
                                 ELSE Queued(t, sent + 1)]
  /\ UNCHANGED <<known, view, active, grid, ended, due, link, acts>>

Act == acts < MaxAct /\ acts' = acts + 1
Connected == link.st = "up"

\* session_update of a session the window does not know: a card, and in a
\* detached window the pane that waited for it (onSessionsUpdated).
Arrive(s) ==
  /\ Act /\ Connected /\ s \notin known \cup ended
  /\ known' = known \cup {s}
  /\ \E resized \in BOOLEAN :
       LET mine == view = "detached" /\ \E i \in DOMAIN order :
                      i <= size /\ order[i] = s
           tm == IF mine
                 THEN [term EXCEPT ![s] = InSlot(s, @, resized)]
                 ELSE term
       IN Render(known', tm, resized)
  /\ UNCHANGED <<ended, sent, due, link>>

\* session_update with another state of the card: all is rebuilt.
Update ==
  /\ Act /\ view = "multi" /\ known # {}
  /\ \E resized \in BOOLEAN : Render(known, term, resized)
  /\ UNCHANGED <<known, ended, sent, due, link>>

\* session_removed, removeLocalSession: a neighbour takes over the active
\* session's place, and then the page is not rendered again.
RemoveLocalSession(s) ==
  /\ Act /\ s \in known
  /\ known' = known \ {s} /\ ended' = ended \cup {s}
  /\ LET tm == [term EXCEPT ![s] = Absent] IN
     IF active = s /\ known' # {}
     THEN /\ leaving' = leaving \ {s}
          /\ \E n \in known', resized \in BOOLEAN :
               ActivateSession(n, tm, resized)
     ELSE /\ active' = IF active = s THEN None ELSE active
          /\ IF view = "multi"
             THEN RenderMulti(known', leaving, order, size, tm, FALSE)
             ELSE /\ leaving' = leaving \ {s}
                  /\ term' = tm /\ UNCHANGED <<size, order, slots>>
          /\ UNCHANGED <<view, focused>>
  /\ UNCHANGED <<sent, due, link>>

\* pty_resize, applyRemotePtyResize: another window has resized the PTY.
RemoteResize(s) ==
  /\ Act /\ Connected /\ term[s].made
  /\ term' = [term EXCEPT ![s] = [Kept(@) EXCEPT !.batch = "on"]]
  /\ UNCHANGED <<known, view, active, grid, ended, sent, due, link>>

\* session_history_reset, resetTerminalHistoryForSession.
Emptied(t) ==
  Snapped([t EXCEPT !.gone = @ \cup {t.screen[k] : k \in DOMAIN t.screen}
                               \cup {t.pending[k] : k \in DOMAIN t.pending},
                    !.screen = <<>>, !.pending = <<>>])

HistoryReset(s) ==
  /\ Act /\ Connected /\ term[s].made
  /\ term' = [term EXCEPT ![s] = Emptied(@)]
  /\ UNCHANGED <<known, view, active, grid, ended, sent, due, link>>

----------------------------------------------------------------------------
(* The socket                                                              *)

\* onclose: every card is gone and no session active, the area of the single
\* view is emptied; the grid stays as it was last built.
SocketLost ==
  /\ Act /\ Connected
  /\ known' = {} /\ active' = None
  /\ link' = [link EXCEPT !.st = "down", !.had = known,
                          !.last = IF active = None THEN @ ELSE active]
  /\ term' = [s \in Sessions |-> IF term[s].place = "area"
                                 THEN [term[s] EXCEPT !.place = "away"]
                                 ELSE term[s]]
  /\ UNCHANGED <<view, grid, ended, sent, due>>

\* onopen: what the terminals hold will be replayed (resetAllLocalSessionHistory).
Reopened ==
  /\ link.st = "down"
  /\ link' = [link EXCEPT !.st = "opened",
                          !.want = IF @ = None THEN link.last ELSE @]
  /\ term' = [s \in Sessions |-> IF term[s].made THEN Emptied(term[s]) ELSE term[s]]
  /\ UNCHANGED <<known, view, active, grid, ended, sent, due, acts>>

\* The session that was active is opened again, if it is still there, before the
\* page is rendered.
OpenPending(kn, s, resized) ==
  IF view = "multi"
  THEN /\ active' = s
       /\ focused' = IF SlotOf(s) # {} THEN CHOOSE i \in SlotOf(s) : TRUE
                                       ELSE focused
       /\ RenderMulti(kn, leaving, order, size, ForMultiPane(s, term), resized)
       /\ UNCHANGED view
  ELSE ActivateSession(s, term, resized) /\ UNCHANGED leaving

\* snapshot of the same Hub: sessions may have come (each an act) and gone.
Snapshot(kn, resized) ==
  /\ link.st = "opened"
  /\ acts' = acts + Cardinality(kn \ link.had) /\ acts' <= MaxAct
  /\ known' = kn /\ ended' = ended \cup (link.had \ kn)
  /\ link' = [link EXCEPT !.st = "up", !.had = {},
                          !.want = IF @ \in kn THEN None ELSE @]
  /\ IF link.want \in kn THEN OpenPending(kn, link.want, resized)
                          ELSE Render(kn, term, resized)
  /\ UNCHANGED <<sent, due>>

Socket == \/ SocketLost \/ Reopened
          \/ \E kn \in SUBSET (Sessions \ ended), resized \in BOOLEAN :
               Snapshot(kn, resized)

Heard == \/ \E s \in Sessions : Chunk(s) \/ Arrive(s) \/ RemoveLocalSession(s)
                                \/ RemoteResize(s) \/ HistoryReset(s)
         \/ Update

----------------------------------------------------------------------------
(* Callbacks, frames and timers                                            *)

Only(s, t) ==
  /\ term' = [term EXCEPT ![s] = t]
  /\ UNCHANGED <<known, view, active, grid, ended, sent, due, link, acts>>

\* A bug that would break PageDrains: what came meanwhile is left in the queue.
FlushEndsForgets(s) ==
  LET t == [term[s] EXCEPT !.flight = "none"] then == term[s].flight IN
  /\ then # "none"
  /\ IF then = "attach" /\ active = s
     THEN \E resized \in BOOLEAN : Only(s, Placed(Kept(t), resized))
     ELSE Only(s, Kept(t))

\* finish of flushPending: xterm has parsed the write, or the watchdog gave up
\* waiting.  What came meanwhile is left to the next frame, and so is what the
\* flush was for.
FlushEnds(s) ==
  LET t == [term[s] EXCEPT !.flight = "none"] then == term[s].flight IN
  /\ then # "none"
  /\ IF t.pending # <<>>
     THEN Only(s, [t EXCEPT !.frames = @ \cup {then}])
     ELSE IF then = "attach" /\ active = s
          THEN \E resized \in BOOLEAN : Only(s, Placed(Kept(t), resized))
          ELSE Only(s, Kept(t))

FrameFlush(s) ==
  \E then \in term[s].frames, resized \in BOOLEAN :
    LET t == [term[s] EXCEPT !.frames = @ \ {then}] IN
    Only(s, FlushPending(t, IF active = s THEN then ELSE "plain", resized))

\* whenLayoutReady, retried every frame until the container has a size.
LayoutReady(s) ==
  /\ "area" \in term[s].waits /\ Visible(term[s])
  /\ \E resized \in BOOLEAN :
       Only(s, Sized(FlushPending([term[s] EXCEPT
                        !.waits = @ \ {"area"}, !.opened = TRUE,
                        !.handler = IF @ = "none" THEN "area" ELSE @],
                        "plain", FALSE), resized))

\* The frame of attachToSlot: one try, if the container is still where it was put.
PaneReady(s) ==
  /\ "pane" \in term[s].waits /\ Visible(term[s])
  /\ \E resized \in BOOLEAN :
       Only(s, Sized(FlushPending([term[s] EXCEPT
                        !.waits = @ \ {"pane"}, !.opened = TRUE,
                        !.passes = @ \/ (s \in Codex /\ view = "multi")],
                        "plain", FALSE), resized))

\* A frame or timer of _stickToBottomSoon: no manual scroll stops it.
ForcedPass(s) ==
  /\ term[s].passes
  /\ \E more \in BOOLEAN :
       Only(s, [Snapped(term[s]) EXCEPT !.passes = more])

\* The batch is over when the clock says so, its flush comes when the timer runs.
BatchOver(s) == term[s].batch = "on" /\ Only(s, [term[s] EXCEPT !.batch = "over"])

BatchTimer(s) ==
  /\ term[s].batch = "over"
  /\ Only(s, FlushPending([term[s] EXCEPT !.batch = "off"], "plain", FALSE))

\* A pass of the forced follow, and its end.
Snap(s) ==
  /\ term[s].follow
  /\ \E more \in BOOLEAN :
       Only(s, [Snapped(term[s]) EXCEPT !.follow = more])

\* The frame of refitActiveTerminalAfterLayout(true): if the terminal really has
\* other dimensions, the follow starts again.
StickFrame(s) ==
  /\ term[s].stick
  /\ LET t == [term[s] EXCEPT !.stick = FALSE] IN
     IF active = s /\ Visible(t)
     THEN \E resized \in BOOLEAN :
            Only(s, IF resized THEN Following(Sized(t, TRUE)) ELSE Kept(t))
     ELSE Only(s, t)

\* initDetachedGridMode renders again after one second and after three.
DetachedRender ==
  /\ due > 0 /\ due' = due - 1
  /\ slots' = DetachedSlots(order)
  /\ \E resized \in BOOLEAN :
       term' = Shown(SlotsOf(order, known, size), Teardown(term), resized)
  /\ UNCHANGED <<known, view, active, size, order, focused, leaving, ended,
                 sent, link, acts>>

Runs(s) == \/ FlushEnds(s) \/ FrameFlush(s) \/ LayoutReady(s) \/ PaneReady(s)
           \/ BatchOver(s) \/ BatchTimer(s) \/ Snap(s) \/ StickFrame(s)
           \/ ForcedPass(s)

----------------------------------------------------------------------------
(* The user                                                                *)

\* A session card.  With the grid open a session without a pane is out of reach.
ClickCard(s) ==
  /\ Act /\ s \in known /\ view # "detached"
  /\ view = "multi" => SlotOf(s) # {}
  /\ \E resized \in BOOLEAN : ActivateSession(s, term, resized)
  /\ UNCHANGED <<known, leaving, ended, sent, due, link>>

\* focusSlot.
FocusSlot(i, sl, tm) ==
  /\ focused' = i
  /\ IF i \in DOMAIN sl /\ sl[i] # None /\ sl[i] \in known
     THEN active' = sl[i] /\ term' = ForMultiPane(sl[i], tm)
     ELSE term' = tm /\ UNCHANGED active

ClickPane(i) ==
  /\ Act /\ view \in Grids /\ i \in DOMAIN slots /\ slots[i] \in known
  /\ FocusSlot(i, slots, term)
  /\ UNCHANGED <<known, view, size, order, slots, leaving, ended, sent, due, link>>

\* setActiveTab.  Multi: the grid is built and its focused pane activated.
OpenMulti ==
  /\ Act /\ view \in {"terminal", "other"}
  /\ view' = "multi"
  /\ LET now == Known(order, known \ leaving, Ascending)
         sl == SlotsOf(now, known \ leaving, size)
     IN /\ order' = now /\ slots' = sl /\ leaving' = leaving \cap known
        /\ \E resized \in BOOLEAN :
             FocusSlot(IF focused \in DOMAIN sl THEN focused ELSE 1, sl,
                       Shown(sl, Teardown(term), resized))
  /\ UNCHANGED <<known, size, ended, sent, due, link>>

\* The terminal tab, and the approval tab as far as the terminal is concerned:
\* the grid's terminals leave their panes and the active one is attached.
OpenTerminal ==
  /\ Act /\ view \in {"other", "multi"} /\ active # None
  /\ view' = "terminal"
  /\ \E resized \in BOOLEAN :
       term' = LET tm == IF view = "multi"
                         THEN Attached(active, Teardown(term), resized)
                         ELSE term
               IN [tm EXCEPT ![active] =
                     IF @.made /\ @.place = "area"
                     THEN [@ EXCEPT !.auto = TRUE, !.stick = TRUE] ELSE @]
  /\ UNCHANGED <<known, active, grid, ended, sent, due, link>>

\* The orchestration tab: the same, except that nothing is attached.
OpenOther ==
  /\ Act /\ view \in {"terminal", "multi"}
  /\ view' = "other"
  /\ term' = IF view = "multi" THEN Teardown(term) ELSE term
  /\ UNCHANGED <<known, active, grid, ended, sent, due, link>>

\* The sizes the grid picker offers, and its choice (setLayout).
Layouts == 1..Panes

SetLayout(n) ==
  /\ Act /\ view = "multi"
  /\ \E resized \in BOOLEAN :
       RenderMulti(known, leaving, order, n, term, resized)
  /\ UNCHANGED <<known, view, active, focused, ended, sent, due, link>>

\* _reorderSlots: panes change places, or the dragged one goes to the end.
Moved(ord, i, j) ==
  IF j <= Len(ord)
  THEN [ord EXCEPT ![i] = ord[j], ![j] = ord[i]]
  ELSE SubSeq(ord, 1, i - 1) \o SubSeq(ord, i + 1, Len(ord)) \o <<ord[i]>>

\* A drag starts with a mousedown in the pane, which focuses it.
ReorderSlots(i, j) ==
  /\ Act /\ view \in Grids /\ i # j /\ i <= Len(order)
  /\ {i, j} \subseteq DOMAIN slots /\ slots[i] \in known
  /\ focused' = IF j < size THEN j ELSE size
  /\ active' = slots[i]
  /\ \E resized \in BOOLEAN :
       LET tm == ForMultiPane(slots[i], term) now == Moved(order, i, j) IN
       IF view = "multi"
       THEN RenderMulti(known, leaving, now, size, tm, resized)
       ELSE /\ order' = now
            /\ slots' = DetachedSlots(now)
            /\ term' = Shown(SlotsOf(now, known, size), Teardown(tm), resized)
            /\ UNCHANGED <<size, leaving>>
  /\ UNCHANGED <<known, view, ended, sent, due, link>>

\* closeSlot: the session is asked to go and its pane goes at once.
CloseSlot(i) ==
  /\ Act /\ view = "multi" /\ i \in DOMAIN slots /\ slots[i] # None
  /\ LET out == leaving \cup {slots[i]}
         rest == [slots EXCEPT ![i] = None]
         next == {k \in DOMAIN rest : rest[k] # None}
         to == IF next = {} THEN 1
               ELSE CHOOSE k \in next : \A j \in next : k <= j
         tm == IF focused = i /\ next # {} /\ rest[to] \in known
               THEN ForMultiPane(rest[to], term) ELSE term
     IN /\ focused' = IF focused = i THEN to ELSE focused
        /\ active' = IF focused = i /\ next # {} /\ rest[to] \in known
                     THEN rest[to] ELSE active
        /\ RenderMulti(known, out, order, size, tm, FALSE)
  /\ UNCHANGED <<known, view, ended, sent, due, link>>

\* A splitter of the grid is dragged: the observers of the panes fit them, at the
\* bottom for those that were there.
MoveSplitter ==
  /\ Act /\ view = "multi" /\ size > 1
  /\ \E some \in SUBSET {s \in Sessions : InPane(term[s]) /\ term[s].opened} :
       term' = [s \in Sessions |->
                  IF s \in some THEN Sized(Kept(term[s]), TRUE) ELSE term[s]]
  /\ UNCHANGED <<known, view, active, grid, ended, sent, due, link>>

\* The same in a detached window, which only fits them.
MoveDetachedSplitter ==
  /\ Act /\ view = "detached" /\ size > 1
  /\ \E some \in SUBSET {s \in Sessions : InPane(term[s]) /\ term[s].opened} :
       term' = [s \in Sessions |->
                  IF s \in some THEN Sized(term[s], TRUE) ELSE term[s]]
  /\ UNCHANGED <<known, view, active, grid, ended, sent, due, link>>

\* A bug that would break ReadersStay: the follow in progress goes on.
ScrollUpFollows(s) ==
  /\ Act /\ Visible(term[s]) /\ term[s].opened
  /\ term' = [term EXCEPT ![s].auto = FALSE, ![s].at = "read"]
  /\ UNCHANGED <<known, view, active, grid, ended, sent, due, link>>

\* markTerminalManualScrollIntent: a manual scroll stops every forced follow.
ToTop(t) == [t EXCEPT !.auto = FALSE, !.at = "read"]
ManualScroll(s) ==
  term' = [o \in Sessions |-> [(IF o = s THEN ToTop(term[o]) ELSE term[o])
                                EXCEPT !.follow = FALSE]]

\* The wheel or the scroll bar.
ScrollUp(s) ==
  /\ Act /\ Visible(term[s]) /\ term[s].opened
  /\ ManualScroll(s)
  /\ UNCHANGED <<known, view, active, grid, ended, sent, due, link>>

\* The buttons over a pane, up and down; a detached window's do not stop a follow.
PaneScroll(s) ==
  /\ Act /\ view = "multi" /\ InPane(term[s])
  /\ ManualScroll(s) \/ term' = [term EXCEPT ![s] = Snapped(@)]
  /\ UNCHANGED <<known, view, active, grid, ended, sent, due, link>>

DetachedScroll(s) ==
  /\ Act /\ view = "detached" /\ InPane(term[s])
  /\ \E move \in {ToTop(term[s]), Snapped(term[s])} :
       term' = [term EXCEPT ![s] = move]
  /\ UNCHANGED <<known, view, active, grid, ended, sent, due, link>>

\* The button to the bottom, and a message sent from the action bar.
ToBottom(t, more) == [Snapped(t) EXCEPT !.follow = @ \/ more]
ScrollDown(s) ==
  /\ Act /\ Visible(term[s]) /\ term[s].at # "bottom"
  /\ \E more \in BOOLEAN :
       term' = [term EXCEPT ![s] = ToBottom(@, more)]
  /\ UNCHANGED <<known, view, active, grid, ended, sent, due, link>>

\* Typing resizes the input box (autoExpand): who was at the bottom stays there.
Type ==
  /\ Act /\ active # None /\ Visible(term[active])
  /\ term[active].auto \/ term[active].at = "bottom"
  /\ term' = [term EXCEPT ![active].auto = TRUE, ![active].stick = TRUE]
  /\ UNCHANGED <<known, view, active, grid, ended, sent, due, link>>

\* The window is resized (resizeObserver, a pane's observer): a fit that keeps
\* the bottom and sends the dimensions.
Resize(s) ==
  /\ Act /\ term[s].opened /\ Visible(term[s])
  /\ view = "terminal" => s = active
  /\ term' = [term EXCEPT ![s] = Sized(Kept(@), TRUE)]
  /\ UNCHANGED <<known, view, active, grid, ended, sent, due, link>>

Moves(s) == \/ ClickCard(s) \/ ScrollUp(s) \/ ScrollDown(s) \/ Resize(s)
            \/ PaneScroll(s) \/ DetachedScroll(s)

User == \/ \E s \in Sessions : Moves(s)
        \/ OpenMulti \/ OpenTerminal \/ OpenOther \/ Type
        \/ MoveSplitter \/ MoveDetachedSplitter
        \/ \E i \in 1..Panes : ClickPane(i) \/ CloseSlot(i)
        \/ \E n \in Layouts : SetLayout(n)
        \/ \E i, j \in 1..Panes : ReorderSlots(i, j)

----------------------------------------------------------------------------
\* _loadLayout, _loadOrder: the grid as an earlier page left it.
LoadedGrid ==
  /\ size \in Layouts /\ order \in {<<>>} \cup Orders
  /\ slots = <<>>

\* initDetachedGridMode: the window's own sessions, in the order it was left in
\* (_applySavedOrder); one render now and two to come.
InitDetachedGridMode ==
  /\ size = Panes /\ order \in Orders
  /\ slots = DetachedSlots(order)

Init ==
  /\ known = {} /\ active = None /\ ended = {} /\ sent = 0 /\ acts = 0
  /\ term = [s \in Sessions |-> Absent]
  /\ \/ view = "terminal" /\ LoadedGrid /\ due = 0
     \/ view = "detached" /\ InitDetachedGridMode /\ due = 2
  /\ focused = 1 /\ leaving = {}
  /\ link = [st |-> "up", had |-> {}, last |-> None, want |-> None]

Next == Heard \/ Socket \/ User \/ DetachedRender \/ \E s \in Sessions : Runs(s)

Spec == Init /\ [][Next]_vars

\* Callbacks, frames and timers of a page come; the Hub and the user owe nothing.
FairSpec ==
  /\ Spec
  /\ \A s \in Sessions :
       /\ WF_vars(FlushEnds(s)) /\ WF_vars(FrameFlush(s))
       /\ WF_vars(LayoutReady(s)) /\ WF_vars(PaneReady(s))
       /\ WF_vars(BatchOver(s)) /\ WF_vars(BatchTimer(s))
  /\ WF_vars(DetachedRender)

----------------------------------------------------------------------------
(* Properties                                                              *)

\* No chunk is written twice, written and queued, or written after it was
\* dropped: flushing, trimming, batching and the frames share one queue.
WrittenOnce ==
  \A s \in Sessions :
    LET all == term[s].screen \o term[s].pending IN
    /\ \A j, k \in DOMAIN all : all[j] = all[k] => j = k
    /\ \A k \in DOMAIN all : all[k] \notin term[s].gone

\* Who has scrolled up (autoScroll is off) is neither taken back to the bottom
\* nor made to follow it by output, by a resize, by a layout or by a timer: only
\* by an act that brings the session to the front or scrolls it, by its being
\* opened again when a lost socket is back, by a frame that a keystroke left just
\* before, by the end of an activation whose flush is still being parsed, by a
\* follow that a detached window's button does not stop, by a new socket, for
\* which every terminal is emptied, or, if it is a Codex session's, by the grid
\* being rebuilt and the forced passes that follow.
Reading(s) == term[s].at = "read" /\ ~term[s].auto
Attaching(t) == t.flight = "attach" \/ "attach" \in t.frames
Fetched(s) ==
  \/ ClickCard(s) \/ PaneScroll(s) \/ DetachedScroll(s) \/ ScrollDown(s)
  \/ active' = s /\ (active # s \/ OpenTerminal \/ OpenMulti)
  \/ \E kn \in SUBSET Sessions, resized \in BOOLEAN :
       s = link.want /\ s \in kn /\ Snapshot(kn, resized)
  \/ active' = s /\ \E i \in 1..Panes : \/ ClickPane(i) \/ CloseSlot(i)
                                        \/ \E j \in 1..Panes : ReorderSlots(i, j)
Rebuilt ==
  \/ Update \/ OpenMulti \/ DetachedRender
  \/ \E s \in Sessions : Arrive(s) \/ RemoveLocalSession(s)
  \/ \E kn \in SUBSET Sessions, resized \in BOOLEAN : Snapshot(kn, resized)
  \/ \E i \in 1..Panes : CloseSlot(i) \/ \E j \in 1..Panes : ReorderSlots(i, j)
  \/ \E n \in Layouts : SetLayout(n)
ReadersStay ==
  [][\A s \in Sessions :
       Reading(s) /\ ~Reading(s)'
         => \/ Fetched(s) \/ HistoryReset(s) \/ RemoveLocalSession(s) \/ Reopened
            \/ term[s].stick \/ Attaching(term[s])
            \/ view = "detached" /\ term[s].follow
            \/ s \in Codex /\ (Rebuilt \/ ForcedPass(s))]_vars

\* What waits for a terminal on the page, the active one of the single view or
\* one the Multi tab shows live, is written.
OnPage(s) == \/ active = s /\ view = "terminal" /\ term[s].place = "area"
                /\ term[s].opened
             \/ InGrid(s)
PageDrains ==
  \A s \in Sessions :
    (OnPage(s) /\ term[s].pending # <<>>) ~> (term[s].pending = <<>> \/ ~OnPage(s))
=============================================================================

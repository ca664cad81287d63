------------------------------ MODULE IdleTimer ------------------------------
(***************************************************************************)
(* The idle timeout of the Hub (src/internal/hub/idle_state.go,            *)
(* ui_broadcast.go, settings_handlers.go): when the last browser           *)
(* connection leaves, a timer starts; when it has run, every wrapper is    *)
(* cut off, and the wrappers end their CLIs.                               *)
(* A connection is removed by any of several goroutines, a stopped timer   *)
(* may have fired already, and the setting changes meanwhile.  An action   *)
(* is one critical section, or one step between two of them.               *)
(***************************************************************************)
EXTENDS Naturals

CONSTANTS
  UIs,        \* browser connections, each of them made once
  Callers,    \* the goroutines that may find a connection dead
  Posters,    \* requests that change the setting, each made once
  Clients      \* wrapper processes: the Wrappers of WrapperLink

Timeouts == {0, 1}   \* hub.idle_timeout_min: 0 disables the timer

VARIABLES
  ui,           \* state of each browser connection; "in" means in s.uis
  call, saw,    \* the removeUI calls, and the setting each has read
  idleMin,      \* cfg.Hub.IdleTimeoutMin
  post, body,   \* the requests, and the setting each asks for
  timer,        \* generation of idleTimer, 0 for nil
  idleGen,
  armed,        \* generations of the timers that run
  fired,        \* callbacks before their check
  killing,      \* callbacks after it, before killAllWrappers locks
  wrappers,     \* registered wrappers
  collected,    \* those a kill has collected and not closed yet
  interrupted   \* history: generations during which a browser connected

browsers == <<ui, call, saw>>
settings == <<idleMin, post, body>>
timers   == <<timer, idleGen, armed, fired, killing>>
idleVars == <<browsers, settings, timers, wrappers, collected, interrupted>>

-----------------------------------------------------------------------------
uis == {u \in UIs : ui[u] = "in"}

IdleInit ==
  /\ ui = [u \in UIs |-> "new"]
  /\ call = [x \in UIs \X Callers |-> "none"] /\ saw = [x \in UIs \X Callers |-> 0]
  /\ idleMin \in Timeouts
  /\ post = [p \in Posters |-> "new"] /\ body = [p \in Posters |-> 0]
  /\ timer = 0 /\ idleGen = 0 /\ armed = {} /\ fired = {} /\ killing = {}
  /\ wrappers = {} /\ collected = {} /\ interrupted = {}

(* stopIdleTimerLocked: a running timer is stopped, a callback that has     *)
(* fired already is left behind with an old generation.                     *)
InvalidatedNever == idleGen   \* mutant: the generation is kept
Invalidated == IF timer = 0 THEN idleGen ELSE idleGen + 1

(* Mutant: idleTimer is not reset to nil. *)
StopTimerKept == /\ idleGen' = Invalidated
                 /\ timer' = timer
                 /\ armed' = armed \ {timer}

StopTimer == /\ idleGen' = Invalidated
             /\ timer' = 0
             /\ armed' = armed \ {timer}

(* startIdleTimerLocked, after a stop if "gen" and "left" say so. *)
Arm(gen, left) == /\ idleGen' = gen + 1
                  /\ timer' = gen + 1
                  /\ armed' = left \cup {gen + 1}

StartTimer(min) == IF min = 0 \/ timer # 0
                   THEN UNCHANGED <<idleGen, timer, armed>>
                   ELSE Arm(idleGen, armed)

-----------------------------------------------------------------------------
(* addUIWithHistory *)
AddUI(u) ==
  /\ ui[u] = "new"
  /\ ui' = [ui EXCEPT ![u] = "in"]
  /\ StopTimer
  /\ interrupted' = interrupted \cup armed \cup fired
  /\ UNCHANGED <<call, saw, settings, fired, killing, wrappers, collected>>

(* removeUI reads the setting before it takes sessionsMu. *)
ReadTimeout(u, k) ==
  /\ ui[u] # "new" /\ call[<<u, k>>] = "none"
  /\ call' = [call EXCEPT ![<<u, k>>] = "read"]
  /\ saw' = [saw EXCEPT ![<<u, k>>] = idleMin]
  /\ UNCHANGED <<ui, settings, timers, wrappers, collected, interrupted>>

(* Mutant: the timer starts whoever else is connected. *)
RemoveUIAlways(u, k) ==
  /\ call[<<u, k>>] = "read"
  /\ call' = [call EXCEPT ![<<u, k>>] = "done"]
  /\ ui' = [ui EXCEPT ![u] = "out"]
  /\ IF ui[u] = "in"
     THEN StartTimer(saw[<<u, k>>]) ELSE UNCHANGED <<idleGen, timer, armed>>
  /\ UNCHANGED <<saw, settings, fired, killing, wrappers, collected, interrupted>>

RemoveUI(u, k) ==
  /\ call[<<u, k>>] = "read"
  /\ call' = [call EXCEPT ![<<u, k>>] = "done"]
  /\ ui' = [ui EXCEPT ![u] = "out"]
  /\ IF uis = {u}
     THEN StartTimer(saw[<<u, k>>]) ELSE UNCHANGED <<idleGen, timer, armed>>
  /\ UNCHANGED <<saw, settings, fired, killing, wrappers, collected, interrupted>>

(* handleIdleTimeout: the setting under cfgMu, then the timer under         *)
(* sessionsMu, for the value of this request.                               *)
SetTimeout(p, min) ==
  /\ post[p] = "new"
  /\ post' = [post EXCEPT ![p] = "set"]
  /\ body' = [body EXCEPT ![p] = min]
  /\ idleMin' = min
  /\ UNCHANGED <<browsers, timers, wrappers, collected, interrupted>>

ApplyTimeout(p) ==
  /\ post[p] = "set"
  /\ post' = [post EXCEPT ![p] = "done"]
  /\ IF uis = {} /\ body[p] # 0 THEN Arm(Invalidated, armed \ {timer}) ELSE StopTimer
  /\ UNCHANGED <<browsers, idleMin, body, fired, killing, wrappers, collected, interrupted>>

-----------------------------------------------------------------------------
(* The callback: its goroutine starts, checks its generation, and then      *)
(* kills with the lock released (killAllWrappers).                          *)
Fire(g) ==
  /\ g \in armed
  /\ armed' = armed \ {g} /\ fired' = fired \cup {g}
  /\ UNCHANGED <<browsers, settings, timer, idleGen, killing, wrappers, collected, interrupted>>

Stale(g) ==
  /\ g \in fired /\ idleGen # g
  /\ fired' = fired \ {g}
  /\ UNCHANGED <<browsers, settings, timer, idleGen, armed, killing, wrappers, collected,
                 interrupted>>

Expire(g) ==
  /\ g \in fired /\ idleGen = g
  /\ fired' = fired \ {g} /\ killing' = killing \cup {g}
  /\ timer' = 0
  /\ UNCHANGED <<browsers, settings, idleGen, armed, wrappers, collected, interrupted>>

Collect(g) ==
  /\ g \in killing
  /\ killing' = killing \ {g}
  /\ collected' = collected \cup wrappers
  /\ UNCHANGED <<browsers, settings, timer, idleGen, armed, fired, wrappers, interrupted>>

Close(w) ==
  /\ w \in collected
  /\ collected' = collected \ {w} /\ wrappers' = wrappers \ {w}
  /\ UNCHANGED <<browsers, settings, timers, interrupted>>

(* Registration and the end of a session, as WrapperLink has them. *)
Join(w) == /\ w \notin wrappers
           /\ wrappers' = wrappers \cup {w}
           /\ UNCHANGED <<browsers, settings, timers, collected, interrupted>>

Leave(w) == /\ w \in wrappers
            /\ wrappers' = wrappers \ {w} /\ collected' = collected \ {w}
            /\ UNCHANGED <<browsers, settings, timers, interrupted>>

Callback == \/ \E g \in armed : Fire(g)
            \/ \E g \in fired : Stale(g) \/ Expire(g)
            \/ \E g \in killing : Collect(g)

IdleNext ==
  \/ \E u \in UIs : AddUI(u) \/ \E k \in Callers : ReadTimeout(u, k) \/ RemoveUI(u, k)
  \/ \E p \in Posters : ApplyTimeout(p) \/ \E min \in Timeouts : SetTimeout(p, min)
  \/ Callback
  \/ \E w \in Clients : Close(w) \/ Join(w) \/ Leave(w)

IdleSpec == IdleInit /\ [][IdleNext]_idleVars

(* Timers elapse, and goroutines and requests that have begun go on; nobody *)
(* has to connect or to disconnect, and no session has to end by itself.    *)
IdleFairness ==
  /\ WF_idleVars(Callback)
  /\ \A w \in Clients : WF_idleVars(Close(w))
  /\ \A p \in Posters : WF_idleVars(ApplyTimeout(p))
  /\ \A u \in UIs, k \in Callers : WF_idleVars(RemoveUI(u, k))
FairIdleSpec == IdleSpec /\ IdleFairness
-----------------------------------------------------------------------------
(* Types of the state of the timer and of the goroutines that use it. *)
IdleTypes ==
  /\ ui \in [UIs -> {"new", "in", "out"}]
  /\ call \in [UIs \X Callers -> {"none", "read", "done"}]
  /\ saw \in [UIs \X Callers -> Timeouts] /\ idleMin \in Timeouts
  /\ post \in [Posters -> {"new", "set", "done"}] /\ body \in [Posters -> Timeouts]
  /\ timer \in Nat /\ idleGen \in Nat
  /\ armed \subseteq Nat /\ fired \subseteq Nat /\ killing \subseteq Nat
  /\ wrappers \subseteq Clients /\ collected \subseteq Clients
  /\ interrupted \subseteq Nat

(* The one timer that counts: it runs or has just fired, it carries the     *)
(* latest generation, nobody is connected and nobody was since it started;  *)
(* every other callback has an older generation.                            *)
OnlyTimer == timer # 0 => /\ uis = {}
                          /\ timer = idleGen
                          /\ timer \in armed \cup fired
                          /\ timer \notin interrupted
Older == /\ armed \subseteq {timer} /\ armed \cap fired = {}
         /\ \A g \in armed \cup fired : g \in 1 .. idleGen /\ (g = idleGen => g = timer)
         /\ \A g \in interrupted : g <= idleGen

(* The types of the state of the idle timer, and the inductive invariant:   *)
(* startIdleTimerLocked and stopIdleTimerLocked keep at most one valid      *)
(* timer, and only while no browser is connected.                           *)
Inv == IdleTypes /\ OnlyTimer /\ Older

(* The wrappers are given up only after a whole idle period: when a callback *)
(* passes its check, no browser is connected, and none has been since its   *)
(* timer started, however late the callback runs (idle_state.go:156-161).   *)
FullPeriodAlone ==
  [][\A g \in fired : Expire(g) => uis = {} /\ g \notin interrupted]_idleVars

(* A Hub that everybody has left ends its sessions: while a timer is set,   *)
(* every wrapper is cut off in the end, unless a browser comes back or the  *)
(* setting changes (idle_state.go:147-167).                                 *)
AbandonedEnds ==
  \A w \in Clients :
    (timer # 0 /\ w \in wrappers)
      ~> (uis # {} \/ w \notin wrappers \/ \E p \in Posters : post[p] = "set")

=============================================================================

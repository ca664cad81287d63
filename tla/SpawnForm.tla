----------------------------- MODULE SpawnForm -----------------------------
(***************************************************************************)
(* The form that starts a session, src/web/src/app/spawn-panel.ts, with    *)
(* the windows it may open afterwards (detached-grid-launcher.ts) and the  *)
(* dialogs it shares with the rest of the page (settings.ts).              *)
(*                                                                         *)
(* The page is a record u.  A launch is an asynchronous function that      *)
(* reads the form again after each await: its record says where it waits   *)
(* and what it has read so far.  The form stays open to the user meanwhile;*)
(* only the launch button is disabled, and a check of the working          *)
(* directory that ends in time enables it again, so that a second launch   *)
(* may run beside the first.  All dialogs share one overlay: a new one     *)
(* wipes what it finds there, whose promise goes on waiting.               *)
(*                                                                         *)
(* Left out: wording, icons, the ranking and the highlighting of the       *)
(* suggestions, the options that are only sent along.                      *)
(***************************************************************************)
EXTENDS Integers, FiniteSets

CONSTANTS
  Clis,        \* the providers with a model picker
  Real,        \* what the directory field may say: a directory that exists
  Gone,        \* or something else,
  Prefixes,    \* the search prefixes among them
  Folder,      \* value -> the same without separators at its end
  Ends,        \* the values with one
  Owner,       \* model -> the provider it belongs to, or "any"
  Local,       \* models served by Ollama
  MaxBorn,     \* bound: sessions the Hub registers
  MaxAct       \* bound: acts of the user

Providers == Clis \cup {"shell"}
Models == DOMAIN Owner
Dirs == Real \cup Gone
Folders == {Folder[d] : d \in Dirs}
Launches == 1..2
None == "none"
Empty == ""
Hidden == 0                          \* the overlay shows no dialog,
Picker == 3                          \* or the model picker, or a launch's

ASSUME SpawnFormAssumption ==
  /\ Clis \subseteq {"claude", "codex"} /\ Clis # {}
  /\ Real \cap Gone = {} /\ Empty \notin Dirs /\ None \notin Dirs /\ Prefixes \subseteq Gone
  /\ DOMAIN Folder = Dirs /\ None \notin Folders /\ Ends \subseteq Dirs
  /\ Owner \in [Models -> Providers \cup {"any"}]
  /\ Empty \notin Models /\ None \notin Models /\ Local \subseteq Models
  /\ MaxBorn \in Nat /\ MaxAct \in Nat

VARIABLES u,       \* the page
          run,     \* launches in flight: where each waits and what it has read
          waits,   \* windows that wait for their sessions to register
          grids,   \* /api/spawn-grid requests in flight: prevMax of each
          born,    \* the greatest session number the page knows
          starting, \* sessions the Hub has started and the page does not know
          acts

vars == <<u, run, waits, grids, born, starting, acts>>
apart == <<run, waits, grids, born, starting>>

NoSubs == [parent |-> None, items |-> None]
Idle == [at |-> "idle"]
Chains == 1..2

----------------------------------------------------------------------------
(* The model field                                                         *)

\* isModelCompatibleWithProvider.
Fits(v, p, m) == m = Empty \/ ~v.groups \/ Owner[m] \in {p, "any"}

\* resolveRoute: only Ollama's route changes what a launch does.
IsOllama(v, p, m) == m \in Local /\ v.groups /\ Fits(v, p, m)

\* clearModelSelectionState.
ForgetPicks(v) == [v EXCEPT !.picks = [c \in Clis |-> None]]

ClearIncompatible(v) ==
  IF Fits(v, v.provider, v.model) THEN v
  ELSE ForgetPicks([v EXCEPT !.model = Empty])

ClearOllamaDefault(v) ==
  IF IsOllama(v, v.provider, v.model)
  THEN ForgetPicks([v EXCEPT !.model = Empty]) ELSE v

\* fetchModelGroups, and the end of openSpawnPanelForMode and openSpawnFor.
WantGroups(v) ==
  IF v.groups THEN ClearOllamaDefault(v) ELSE [v EXCEPT !.fetching = TRUE]

\* The change handler of the provider.
SelectProvider(v, p) ==
  ClearIncompatible([v EXCEPT !.provider = p,
                       !.picks = [c \in Clis |-> IF c = p THEN @[c] ELSE None]])

----------------------------------------------------------------------------
(* The working directory                                                   *)

\* A value gets into the field; unread tells that maybeUpdateSubdirs has not seen
\* it.
Fill(v, d) == [v EXCEPT !.cwd = d, !.unread = TRUE]

\* applyCwdInputStatus: an empty or a missing directory disables the button, and
\* anything else enables it.
ApplyStatus(v) ==
  [v EXCEPT !.disabled = v.cwd = Empty \/ v.exists[v.cwd] = "no"]

\* refreshCwdInputStatus: the Hub is asked about a directory not asked about
\* before.
RefreshStatus(v) ==
  IF v.cwd = Empty \/ v.exists[v.cwd] # "unknown"
  THEN ApplyStatus(v)
  ELSE [v EXCEPT !.checks = @ \cup {v.cwd}]

\* maybeUpdateSubdirs of a value with a separator after the folder d, or of one
\* without, d = None.
UpdateSubdirs(v, d) ==
  LET w == [v EXCEPT !.unread = FALSE] IN
  IF d = None THEN [w EXCEPT !.subs = NoSubs]
  ELSE IF v.subs.parent = d THEN w
  ELSE [w EXCEPT !.subs = [parent |-> d,
                           items |-> IF d \in v.cached THEN d ELSE None],
                 !.lists = IF d \in v.cached THEN @ ELSE @ \cup {d}]

MaybeUpdateSubdirs(v) == UpdateSubdirs(v, IF v.cwd \in Ends THEN Folder[v.cwd] ELSE None)

\* renderCwdDropdown: the rows nothing is known of are asked about together.
Suggest(v) ==
  [v EXCEPT !.rows = @ \cup {d \in v.history : v.exists[d] = "unknown"}]

\* A bug that would break LaunchNotStuck: a suggestion is taken as it is.
SelectUnchecked(v, d) == Fill(v, d)

\* selectCwdItem: the subfolders stay those of the value before.
SelectCwd(v, d) == RefreshStatus(Fill(v, d))

\* The click and the focus handler of the field.
Look(v) == Suggest(MaybeUpdateSubdirs(v))
Focus(v) == RefreshStatus(Look(v))

\* saveCwdHistory and the favourites: what the suggestions offer.
Remember(v, d) == IF d = Empty THEN v ELSE [v EXCEPT !.history = @ \cup {d}]

----------------------------------------------------------------------------
(* Opening the form                                                        *)

\* loadSpawnSettings: the provider comes back without its change handler, so the
\* model and the confirmations given for another one stay.
LoadSettings(v) ==
  IF v.saved = Idle THEN v
  ELSE [Fill(v, v.saved.cwd) EXCEPT !.provider = v.saved.provider,
                                    !.target = v.saved.target]

Show(v) == WantGroups(Focus([v EXCEPT !.hidden = FALSE]))

\* openSpawnPanelForMode: the button also closes it.
OpenSpawnPanel(v) ==
  IF ~v.hidden THEN [v EXCEPT !.hidden = TRUE]
  ELSE LET w == LoadSettings(v) IN
       IF v.saved = Idle THEN [w EXCEPT !.infos = @ \cup {None}] ELSE Show(w)

\* openSpawnFor: a shell was about to start a CLI.
OpenSpawnFor(v, p, d) ==
  LET w == LoadSettings(v) IN
  IF d = Empty /\ w.cwd = Empty THEN [w EXCEPT !.infos = @ \cup {p}]
  ELSE Show(SelectProvider(IF d = Empty THEN w ELSE Fill(w, d), p))

\* The answer of /api/info, d if it has one.
Informed(v, p, d) ==
  LET w == [Fill(v, d) EXCEPT !.infos = @ \ {p}] IN
  Show(IF p = None THEN w ELSE SelectProvider(w, p))

----------------------------------------------------------------------------
(* Launching: spawnSession                                                 *)

\* Each launch ends in its finally clause.
Ended(v) == [v EXCEPT !.disabled = FALSE]

\* isClaudeHighRisk and isCodexHighRisk, against no current model.
HighRisk(v, p, m) == m # Empty \/ v.risky[p]

\* What is sent.
Posted(l, confirmed) ==
  [at |-> "posted", provider |-> l.provider, model |-> l.model, cwd |-> l.cwd,
   high |-> l.high, confirmed |-> confirmed, own |-> 0]

Ask(v, i, l) == /\ u' = [v EXCEPT !.front = i]
                /\ run' = [run EXCEPT ![i] = l]

\* The permissions are read now; a high risk is confirmed in the picker or here.
Decide(v, i, l) ==
  LET p == l.provider
      high == p \in Clis /\ HighRisk(v, p, l.model)
      read == [l EXCEPT !.high = high]
  IN IF high /\ v.picks[p] # "confirmed"
     THEN Ask(v, i, [read EXCEPT !.at = "confirm"])
     ELSE u' = v /\ run' = [run EXCEPT ![i] = Posted(read, high)]

Launch(i) ==
  LET l == [at |-> "encoding", provider |-> u.provider, cwd |-> u.cwd,
            model |-> u.model, high |-> FALSE]
      v == [u EXCEPT !.disabled = TRUE]
  IN /\ ~u.hidden /\ ~u.disabled /\ run[i] = Idle
     /\ i = 1 \/ run[1] # Idle
     /\ IF ~Fits(u, u.provider, u.model)
        THEN u' = Ended(ForgetPicks([v EXCEPT !.model = Empty])) /\ run' = run
        ELSE IF IsOllama(u, u.provider, u.model)
        THEN u' = v /\ run' = [run EXCEPT ![i] = l]
        ELSE Decide(v, i, l)

\* /api/encoding-check: a console that is not UTF-8 is asked about.
EncodingKnown(i) ==
  /\ run[i].at = "encoding"
  /\ \/ Decide(u, i, run[i])
     \/ Ask(u, i, [run[i] EXCEPT !.at = "choose"])
  /\ UNCHANGED <<waits, grids, born, starting, acts>>

Asking(i) == run[i].at \in {"choose", "confirm"}

\* A bug that would break RiskIsConfirmed: a refused confirmation does not return.
ChooseAnyway(yes) ==
  /\ u.front \in Launches
  /\ LET i == u.front v == [u EXCEPT !.front = Hidden] IN
     /\ Asking(i)
     /\ IF run[i].at = "choose"
        THEN IF yes THEN Decide(v, i, run[i])
             ELSE u' = Ended(v) /\ run' = [run EXCEPT ![i] = Idle]
        ELSE u' = v /\ run' = [run EXCEPT ![i] = Posted(run[i], yes)]

\* The buttons of the dialog in front; the overlay is hidden with it.
Choose(yes) ==
  /\ u.front \in Launches
  /\ LET i == u.front v == [u EXCEPT !.front = Hidden] IN
     /\ Asking(i)
     /\ IF ~yes THEN u' = Ended(v) /\ run' = [run EXCEPT ![i] = Idle]
        ELSE IF run[i].at = "choose" THEN Decide(v, i, run[i])
        ELSE u' = v /\ run' = [run EXCEPT ![i] = Posted(run[i], TRUE)]

\* Escape anywhere, or a click beside the dialog: all that still wait give up.
Dismiss(click) ==
  /\ \E i \in Launches : Asking(i)
  /\ click => u.front # Hidden
  /\ u' = Ended([u EXCEPT !.front = IF click \/ @ # Picker THEN Hidden ELSE @,
                          !.picker = IF click THEN None ELSE @])
  /\ run' = [i \in Launches |-> IF Asking(i) THEN Idle ELSE run[i]]

\* Enter anywhere: every question of risk that still waits is answered yes, the
\* ones behind another dialog too.
Enter ==
  /\ \E i \in Launches : run[i].at = "confirm"
  /\ u' = [u EXCEPT !.front = Hidden]
  /\ run' = [i \in Launches |-> IF run[i].at = "confirm"
                                THEN Posted(run[i], TRUE) ELSE run[i]]

\* /api/spawn: the Hub starts the wrapper, which registers in its own time, or
\* never; the answer does not say which session it is.
Accepted(i) ==
  /\ run[i].at = "posted" /\ starting + born < MaxBorn
  /\ run' = [run EXCEPT ![i].at = "started"]
  /\ starting' = starting + 1
  /\ UNCHANGED <<u, waits, grids, born, acts>>

\* The session of a launch shows up, before or after its answer.
Registered ==
  /\ starting > 0
  /\ starting' = starting - 1 /\ born' = born + 1
  /\ \/ \E i \in Launches :
          /\ run[i].at = "started" /\ run[i].own = 0
          /\ run' = [run EXCEPT ![i].own = born + 1]
     \/ Cardinality({i \in Launches : run[i].at = "started" /\ run[i].own = 0})
          < starting /\ run' = run
  /\ UNCHANGED <<u, waits, grids, acts>>

\* A session of another page, or one whose wrapper was started by hand.
Elsewhere ==
  /\ starting + born < MaxBorn /\ acts < MaxAct
  /\ born' = born + 1 /\ acts' = acts + 1
  /\ UNCHANGED <<u, run, waits, grids, starting>>

\* A wrapper that never registers.
Fails ==
  /\ starting > Cardinality({i \in Launches : run[i].at = "started"})
  /\ starting' = starting - 1
  /\ UNCHANGED <<u, run, waits, grids, born, acts>>

Wait(prev, need) == [prev |-> prev, need |-> need, late |-> FALSE, own |-> 0]

\* _waitForNewSessionAndOpenGrid: the greatest session number is taken here,
\* when the answer has come.
WaitForNewSession(i) == waits' = waits \cup {[Wait(born, 1) EXCEPT !.own = run[i].own]}

\* The presets that only open a window, the dialog of the launcher, and those
\* that spawn a whole grid beside the session just launched.
Presets == {"single", "open", "launcher", "grid"}

Spawned(v, l, target, preset) ==
  LET w == Remember(v, l.cwd) IN
  Ended(ForgetPicks([w EXCEPT
    !.saved = [provider |-> l.provider, cwd |-> l.cwd, target |-> target],
    !.hidden = TRUE,
    !.launcher = @ \/ (target = "detached" /\ preset = "launcher")]))

\* The answer: where to show the session is read now.
Answered(i) ==
  /\ run[i].at \in {"posted", "started"}
  /\ run' = [run EXCEPT ![i] = Idle]
  /\ IF run[i].at = "posted"
     THEN u' = Ended(u) /\ UNCHANGED <<waits, grids>>
     ELSE \E preset \in Presets :
          /\ u' = Spawned(u, run[i], u.target, preset)
          /\ IF u.target = "detached" /\ preset = "single"
             THEN WaitForNewSession(i) ELSE waits' = waits
          /\ grids' = IF u.target = "detached" /\ preset = "grid"
                      THEN grids \cup {born} ELSE grids
  /\ UNCHANGED <<born, starting, acts>>

----------------------------------------------------------------------------
(* Windows for sessions to come                                            *)

\* The launcher's dialog, open beside the form, closes before it launches.
LeaveLauncher == u.launcher /\ u' = [u EXCEPT !.launcher = FALSE]

\* spawnGridAndOpen, from that dialog: prevMax is taken before the request.
LaunchPreset(opens) ==
  /\ LeaveLauncher
  /\ grids' = IF opens THEN grids \cup {born} ELSE grids
  /\ UNCHANGED <<run, waits, born, starting>>

\* Its answer: how many sessions it has started, or none at all.
GridAnswered(prev) ==
  /\ prev \in grids /\ grids' = grids \ {prev}
  /\ \/ waits' = waits /\ starting' = starting
     \/ /\ starting + born + 2 <= MaxBorn
        /\ starting' = starting + 2 /\ waits' = waits \cup {Wait(prev, 2)}
  /\ UNCHANGED <<u, run, born, acts>>

\* poll: a window opens when enough sessions came, or at the deadline with what
\* there is.
Poll(w) ==
  /\ w \in waits /\ (born - w.prev >= w.need \/ w.late)
  /\ waits' = waits \ {w}
  /\ UNCHANGED <<u, run, grids, born, starting, acts>>

Deadline(w) ==
  /\ w \in waits /\ ~w.late
  /\ waits' = (waits \ {w}) \cup {[w EXCEPT !.late = TRUE]}
  /\ UNCHANGED <<u, run, grids, born, starting, acts>>

----------------------------------------------------------------------------
(* Answers to the form                                                     *)

Page(v) == u' = v /\ UNCHANGED <<apart, acts>>

\* GET or POST /api/models.
GroupsAnswered ==
  /\ u.fetching
  /\ \E ok \in BOOLEAN :
       Page(LET v == [u EXCEPT !.fetching = FALSE] IN
            IF ok THEN ClearOllamaDefault(ClearIncompatible([v EXCEPT !.groups = TRUE]))
            ELSE v)

InfoAnswered == \E p \in u.infos, d \in Real \cup {u.cwd} : Page(Informed(u, p, d))

Tell(v, ds, ok) ==
  [v EXCEPT !.exists = [d \in Dirs |-> IF d \in ds /\ ok
                          THEN IF d \in Real THEN "yes" ELSE "no"
                          ELSE @[d]]]

\* /api/path-exists, for the field and for the rows of the suggestions; a failed
\* request leaves the directory unknown.
PathChecked(d) ==
  /\ d \in u.checks
  /\ \E ok \in BOOLEAN :
       Page(ApplyStatus(Tell([u EXCEPT !.checks = @ \ {d}], {d}, ok)))

RowsChecked ==
  /\ u.rows # {}
  /\ \E ok \in BOOLEAN : Page(Tell([u EXCEPT !.rows = {}], u.rows, ok))

\* The 200 ms after a keystroke.
DebounceFires == u.typing /\ Page(RefreshStatus([u EXCEPT !.typing = FALSE]))

\* A bug that would break SubdirsMatch: whatever comes is taken.
ListedLast(v, d, items) == IF v.subs.parent # None
                           THEN Suggest([v EXCEPT !.subs.items = items]) ELSE v

\* /api/list-subdirs: only a success is kept, and only the directory in the field
\* gets its items.
Listed(v, d, items) == IF v.subs.parent = d
                       THEN Suggest([v EXCEPT !.subs.items = items]) ELSE v

SubdirsAnswered(d) ==
  /\ d \in u.lists
  /\ \E ok \in {b \in BOOLEAN : b => \E x \in Real : Folder[x] = d} :
       LET v == [u EXCEPT !.lists = @ \ {d},
                          !.cached = IF ok THEN @ \cup {d} ELSE @]
       IN Page(Listed(v, d, IF ok THEN d ELSE None))

----------------------------------------------------------------------------
(* Browsing for a directory                                                *)

\* The finally clause of the Browse button.
FreeBrowse(v) == IF v.browsing THEN v ELSE [v EXCEPT !.busy = FALSE]

\* The click asks where the Hub runs, then for a dialog of the system, then opens
\* the browser in the page and lists a first directory.
Browsing(c, v, to) == Page([v EXCEPT !.chain[c] = to])

PreferKnown(c) ==
  /\ u.chain[c] = "prefer"
  /\ \/ Browsing(c, [u EXCEPT !.browsing = TRUE, !.path = @], "list")
     \/ Browsing(c, u, "native")

NativeAnswered(c) ==
  /\ u.chain[c] = "native"
  /\ LET v == [u EXCEPT !.chain[c] = None] IN
     \/ \E d \in Real : Page(FreeBrowse(Focus(RefreshStatus(Fill(v, d)))))
     \/ Page(FreeBrowse(v))
     \/ Browsing(c, [u EXCEPT !.browsing = TRUE], "list")

\* navigateWebDir, the first and the later ones: the last answer stays.
Navigated(v) == {v} \cup {[v EXCEPT !.path = d, !.cached = @ \cup {Folder[d]}] : d \in Real}

FirstListed(c) ==
  /\ u.chain[c] = "list"
  /\ \E v \in Navigated([u EXCEPT !.chain[c] = None]) : Page(FreeBrowse(v))

CloseBrowser(v) == [v EXCEPT !.browsing = FALSE, !.busy = FALSE]

\* selectCurrent: the subfolders are those of the value, separator or not.
SelectCurrent(v) ==
  Suggest(UpdateSubdirs(Focus(CloseBrowser(RefreshStatus(Fill(v, v.path)))), Folder[v.path]))

----------------------------------------------------------------------------
(* The user                                                                *)

Act == acts < MaxAct /\ acts' = acts + 1
UI(v) == u' = v /\ UNCHANGED apart

\* Nothing covers the form.
Free == ~u.hidden /\ u.front = Hidden /\ ~u.launcher /\ ~u.browsing

\* The rows of the suggestions: the history and the favourites, the subfolders on
\* show, and what a search in the folders of the favourites finds.
Rows == u.history \cup IF u.history # {} \/ u.subs.items # None THEN Real ELSE {}

\* A prefix from a chip, or completed with Tab: the field is not read again when
\* it has the focus, and not checked.
InsertPrefix(p) == \E v \in {Fill(u, p), Focus(Fill(u, p))} : UI(Suggest(v))

Directory ==
  \/ \E d \in Dirs \cup {Empty} : UI([Look(Fill(u, d)) EXCEPT !.typing = TRUE])
  \/ UI(Look(u)) \/ UI(Focus(u))
  \/ \E d \in Rows : UI(SelectCwd(u, d))
  \/ \E d \in u.history : UI(Suggest([u EXCEPT !.history = @ \ {d}]))
  \/ u.history # {} /\ \E p \in Prefixes : InsertPrefix(p)

Form ==
  \/ \E p \in Providers \ {u.provider} : UI(SelectProvider(u, p))
  \/ \E m \in Models \cup {Empty} : UI(ForgetPicks([u EXCEPT !.model = m]))
  \/ \E c \in Clis : c = u.provider /\ UI([u EXCEPT !.risky[c] = ~@])
  \/ UI([u EXCEPT !.target = IF @ = "hub" THEN "detached" ELSE "hub"])
  \/ ~u.fetching /\ UI([u EXCEPT !.fetching = TRUE])

\* openModelModal, and its Apply button.
OpenPicker ==
  u.provider \in Clis /\ UI([u EXCEPT !.picker = u.provider, !.front = Picker])

ApplyPick(m) ==
  /\ u.front = Picker /\ u.picker # None
  /\ LET high == m # u.model \/ u.risky[u.picker] IN
     UI([u EXCEPT !.model = m, !.front = Hidden, !.picker = None,
                  !.picks[u.picker] = IF high THEN "confirmed" ELSE "explicit"])

ClosePicker == u.front = Picker /\ UI([u EXCEPT !.front = Hidden, !.picker = None])

Browse ==
  /\ ~u.busy
  /\ \E c \in Chains :
       /\ u.chain[c] = None
       /\ UI([u EXCEPT !.busy = TRUE, !.chain[c] = "prefer"])

InBrowser ==
  /\ u.browsing
  /\ \/ \E v \in Navigated(u) : UI(v)
     \/ UI(CloseBrowser(u))
     \/ u.path # None /\ UI(SelectCurrent(u))

\* The Cancel button and Escape in the field: what the form says stays in it.
Close == UI([u EXCEPT !.hidden = TRUE])

Open == /\ u.front = Hidden /\ ~u.launcher /\ ~u.browsing
        /\ \/ UI(OpenSpawnPanel(u))
           \/ \E p \in Providers, d \in Real \cup {Empty} : UI(OpenSpawnFor(u, p, d))

User ==
  /\ Act
  /\ \/ Open
     \/ Free /\ (Directory \/ Form \/ OpenPicker \/ Browse \/ Close)
     \/ Free /\ \E i \in Launches : Launch(i) /\ UNCHANGED <<waits, grids, born, starting>>
     \/ (\E yes \in BOOLEAN : Choose(yes) \/ Dismiss(yes))
        /\ UNCHANGED <<waits, grids, born, starting>>
     \/ Enter /\ UNCHANGED <<waits, grids, born, starting>>
     \/ (\E m \in Models : ApplyPick(m)) \/ ClosePicker \/ InBrowser
     \/ \E opens \in BOOLEAN : LaunchPreset(opens)

----------------------------------------------------------------------------
\* The first launch ever, or one with the settings and the history of others.
Init ==
  /\ \E used \in {{}, Dirs \ Prefixes} : \E p \in Clis, last \in Real :
     u = [hidden |-> TRUE, provider |-> p, cwd |-> Empty,
          model |-> Empty, risky |-> [c \in Clis |-> FALSE], target |-> "hub",
          picks |-> [c \in Clis |-> None], groups |-> FALSE, fetching |-> FALSE,
          disabled |-> FALSE, exists |-> [d \in Dirs |-> "unknown"],
          checks |-> {}, rows |-> {}, typing |-> FALSE, unread |-> FALSE,
          subs |-> NoSubs, lists |-> {}, cached |-> {}, history |-> used,
          saved |-> IF used = {} THEN Idle
                    ELSE [provider |-> p, cwd |-> last, target |-> "hub"],
          infos |-> {}, front |-> Hidden, picker |-> None,
          launcher |-> FALSE, browsing |-> FALSE,
          busy |-> FALSE, path |-> None, chain |-> [c \in Chains |-> None]]
  /\ run = [i \in Launches |-> Idle]
  /\ waits = {} /\ grids = {} /\ born = 0 /\ starting = 0 /\ acts = 0

Answers ==
  \/ GroupsAnswered \/ InfoAnswered \/ RowsChecked \/ DebounceFires
  \/ (\E d \in Dirs : PathChecked(d)) \/ \E d \in Folders : SubdirsAnswered(d)
  \/ \E c \in Chains : PreferKnown(c) \/ NativeAnswered(c) \/ FirstListed(c)
  \/ \E i \in Launches : EncodingKnown(i) \/ Answered(i)
  \/ \E prev \in grids : GridAnswered(prev)

Waiting == \E w \in waits : Poll(w) \/ Deadline(w)
HubActs == Registered \/ Elsewhere \/ Fails \/ \E i \in Launches : Accepted(i)

Next == User \/ Answers \/ Waiting \/ HubActs

Spec == Init /\ [][Next]_vars

----------------------------------------------------------------------------
(* Properties                                                              *)

\* The launch button is not left disabled for a directory that may be launched
\* in: every way but one to fill the field leads to a check, and each way a launch
\* ends gives the button back.  The one without puts a search prefix there.
LaunchNotStuck ==
  u.disabled =>
    \/ \E i \in Launches : run[i] # Idle
    \/ u.cwd = Empty \/ u.exists[u.cwd] = "no" \/ u.cwd \in Prefixes
    \/ u.typing \/ u.cwd \in u.checks \/ u.infos # {}

\* A row of the subfolders names a folder that is there: its directory is the one
\* the Hub has listed, in whatever order it answers (maybeUpdateSubdirs).  That is
\* the directory in the field as well, unless the value there came from a row, a
\* prefix or the settings: those the subfolders do not follow.
SubdirsMatch ==
  u.subs.items # None => /\ u.subs.items = u.subs.parent
                         /\ u.unread \/ u.subs.parent = Folder[u.cwd]

\* No launch with a high risk is sent unconfirmed, whatever was picked or
\* dismissed while it waited.
RiskIsConfirmed ==
  \A i \in Launches : run[i].at \in {"posted", "started"} /\ run[i].high
                        => run[i].confirmed

=============================================================================

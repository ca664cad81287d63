--------------------------- MODULE SpawnFormProofs ---------------------------
(***************************************************************************)
(* Proofs about SpawnForm, for any providers, models, directories and any  *)
(* number of events: the launch button is given back, the subfolders       *)
(* offered are those of their directory, and no launch with a high risk is *)
(* sent unconfirmed.                                                       *)
(*                                                                         *)
(* A handler is a function of the page u.  The lemmas say that each helper *)
(* keeps what is known of the page (Good), and that a page whose button    *)
(* will be given back (Freed) stays one, or becomes one.                   *)
(***************************************************************************)
EXTENDS SpawnForm, TLAPS

USE SpawnFormAssumption

Fields ==
  {"hidden", "provider", "cwd", "model", "risky", "target", "picks", "groups", "fetching",
   "disabled", "exists", "checks", "rows", "typing", "unread", "subs", "lists", "cached", "history",
   "saved", "infos", "front", "picker", "launcher", "browsing", "busy", "path", "chain"}

(* What is remembered of the last launch. *)
Remembered(s) ==
  s = Idle \/ (s # Idle /\ s.cwd \in Dirs \cup {Empty})

(* The subfolders are those of the value in the field, when it was read.    *)
Follows(v) == v.subs.parent # None => v.unread \/ v.subs.parent = Folder[v.cwd]
USE DEF Follows

(* The Hub never says that a directory is missing that exists, and the items *)
(* listed are those of their parent.                                        *)
Good(v) ==
  /\ DOMAIN v = Fields /\ v = [x \in Fields |-> v[x]]
  /\ v.cwd \in Dirs \cup {Empty} /\ v.path \in Real \cup {None}
  /\ v.disabled \in BOOLEAN /\ v.typing \in BOOLEAN
  /\ v.exists \in [Dirs -> {"unknown", "yes", "no"}]
  /\ \A d \in Real : v.exists[d] # "no"
  /\ v.history \subseteq Dirs /\ v.lists \subseteq Folders /\ Remembered(v.saved)
  /\ v.subs \in [parent : Folders \cup {None}, items : Folders \cup {None}]
  /\ Follows(v) /\ v.unread \in BOOLEAN
  /\ v.subs.items # None => v.subs.items = v.subs.parent

(* A disabled button that waits for no launch has a reason: no directory, a *)
(* missing one, or a check that is still to come.                           *)
Freed(v) ==
  v.disabled =>
    \/ v.cwd = Empty \/ v.exists[v.cwd] = "no" \/ v.cwd \in Prefixes
    \/ v.typing \/ v.cwd \in v.checks \/ v.infos # {}

(* A launch on its way; one that is sent was confirmed, if that was needed. *)
Read(l) ==
  /\ DOMAIN l = {"at", "provider", "cwd", "model", "high"}
  /\ l = [x \in {"at", "provider", "cwd", "model", "high"} |-> l[x]]
  /\ l.at \in {"encoding", "choose", "confirm"} /\ l.cwd \in Dirs \cup {Empty}

Sent(l) ==
  /\ DOMAIN l = {"at", "provider", "model", "cwd", "high", "confirmed", "own"}
  /\ l = [x \in {"at", "provider", "model", "cwd", "high", "confirmed", "own"} |-> l[x]]
  /\ l.at \in {"posted", "started"} /\ l.cwd \in Dirs \cup {Empty}
  /\ l.high => l.confirmed

Runs ==
  /\ DOMAIN run = Launches /\ run = [i \in Launches |-> run[i]]
  /\ \A i \in Launches : run[i] = Idle \/ Read(run[i]) \/ Sent(run[i])

Inv ==
  /\ Good(u) /\ Runs
  /\ Freed(u) \/ \E i \in Launches : run[i] # Idle

(* What a helper does to a page, if it is of no consequence for the button. *)
Keeps(v, w) == Good(w) /\ (Freed(v) => Freed(w))

(* The fields of the page. *)
LEMMA Names ==
  /\ "hidden" \in Fields /\ "provider" \in Fields /\ "cwd" \in Fields /\ "model" \in Fields
  /\ "risky" \in Fields /\ "target" \in Fields /\ "picks" \in Fields /\ "groups" \in Fields
  /\ "fetching" \in Fields /\ "disabled" \in Fields /\ "exists" \in Fields
  /\ "checks" \in Fields /\ "rows" \in Fields /\ "typing" \in Fields /\ "subs" \in Fields
  /\ "lists" \in Fields /\ "cached" \in Fields /\ "history" \in Fields /\ "saved" \in Fields
  /\ "infos" \in Fields /\ "front" \in Fields /\ "picker" \in Fields /\ "launcher" \in Fields
  /\ "unread" \in Fields /\ "browsing" \in Fields /\ "busy" \in Fields /\ "path" \in Fields /\ "chain" \in Fields
  BY DEF Fields

(* All that matters for it, and for Good. *)
Watched == {"cwd", "path", "disabled", "exists", "checks", "typing", "unread", "subs", "lists",
            "history", "saved", "infos"}

-----------------------------------------------------------------------------
(* An assignment changes its field and no other, *)
LEMMA Assigned ==
  ASSUME NEW v, Good(v), NEW f \in Fields, NEW x
  PROVE  LET w == [v EXCEPT ![f] = x]
         IN  /\ DOMAIN w = Fields /\ w = [y \in Fields |-> w[y]]
             /\ w[f] = x /\ \A y \in Fields \ {f} : w[y] = v[y]
<1> DEFINE w == [v EXCEPT ![f] = x]
<1>1. DOMAIN w = Fields /\ w[f] = x /\ \A y \in Fields \ {f} : w[y] = v[y]
  BY DEF Good
<1>2. w = [y \in Fields |-> w[y]]
  BY DEF Good
<1> QED BY <1>1, <1>2

(* and two assignments two. *)
LEMMA BothAssigned ==
  ASSUME NEW v, Good(v), NEW f \in Fields, NEW x, NEW g \in Fields \ {f}, NEW y
  PROVE  LET w == [v EXCEPT ![f] = x, ![g] = y]
         IN  /\ DOMAIN w = Fields /\ w = [z \in Fields |-> w[z]]
             /\ w[f] = x /\ w[g] = y /\ \A z \in Fields \ {f, g} : w[z] = v[z]
<1> DEFINE u1 == [v EXCEPT ![f] = x]
           w == [u1 EXCEPT ![g] = y]
<1>1. DOMAIN u1 = Fields /\ u1[f] = x /\ \A z \in Fields \ {f} : u1[z] = v[z]
  BY DEF Good
<1> HIDE DEF u1
<1>2. DOMAIN w = Fields /\ w[f] = x /\ w[g] = y /\ \A z \in Fields \ {f, g} : w[z] = v[z]
  BY <1>1
<1>3. w = [z \in Fields |-> w[z]]
  BY <1>1
<1>4. w = [v EXCEPT ![f] = x, ![g] = y]
  BY DEF u1
<1> HIDE DEF w
<1> QED BY <1>2, <1>3, <1>4

(* What is watched is a field. *)
LEMMA WatchedFields == Watched \subseteq Fields
  BY DEF Watched, Fields

(* The helpers.  The rest of the page has no consequence.                   *)
LEMMA OthersKeep ==
  ASSUME NEW v, Good(v), NEW w, DOMAIN w = Fields, w = [x \in Fields |-> w[x]],
         \A x \in Watched : w[x] = v[x]
  PROVE  Keeps(v, w)
  BY DEF Good, Freed, Keeps, Watched

(* So has a field that neither Good nor Freed looks at, *)
LEMMA FieldKeeps ==
  ASSUME NEW v, Good(v), NEW f \in Fields \ Watched, NEW x
  PROVE  Keeps(v, [v EXCEPT ![f] = x])
<1> DEFINE w == [v EXCEPT ![f] = x]
<1>1. DOMAIN w = Fields /\ w = [y \in Fields |-> w[y]] /\ \A y \in Watched : w[y] = v[y]
  BY Assigned, WatchedFields
<1> HIDE DEF w
<1>2. Keeps(v, w)
  BY <1>1, OthersKeep
<1> QED BY <1>2 DEF w

(* or two of them. *)
LEMMA FieldsKeep ==
  ASSUME NEW v, Good(v), NEW f \in Fields \ Watched, NEW x,
         NEW g \in Fields \ (Watched \cup {f}), NEW y
  PROVE  Keeps(v, [v EXCEPT ![f] = x, ![g] = y])
<1>1. Keeps(v, [v EXCEPT ![f] = x])
  BY FieldKeeps
<1> DEFINE w == [v EXCEPT ![f] = x]
<1>2. [v EXCEPT ![f] = x, ![g] = y] = [w EXCEPT ![g] = y]
  OBVIOUS
<1> HIDE DEF w
<1>3. Keeps(w, [w EXCEPT ![g] = y])
  BY <1>1, FieldKeeps DEF w, Keeps
<1> QED BY <1>1, <1>2, <1>3 DEF Keeps, w

(* What the picks and the model are has none.                               *)
LEMMA ForgetKeeps == ASSUME NEW v, Good(v) PROVE Keeps(v, ForgetPicks(v))
  BY FieldKeeps, Names DEF Watched, ForgetPicks

(* Nor has a model that is forgotten. *)
LEMMA EmptyModelKeeps ==
  ASSUME NEW v, Good(v)
  PROVE  Keeps(v, ForgetPicks([v EXCEPT !.model = Empty]))
  BY ForgetKeeps, FieldKeeps, Names DEF Watched, Keeps

(* clearIncompatibleModelForProvider and the loss of an Ollama default only *)
(* change the model.                                                        *)
LEMMA ClearKeeps ==
  ASSUME NEW v, Good(v)
  PROVE  Keeps(v, ClearIncompatible(v)) /\ Keeps(v, ClearOllamaDefault(v))
<1>1. Keeps(v, v)
  BY DEF Keeps
<1> QED BY <1>1, EmptyModelKeeps DEF ClearIncompatible, ClearOllamaDefault

(* Asking for the models does not matter to it. *)
LEMMA WantGroupsKeeps == ASSUME NEW v, Good(v) PROVE Keeps(v, WantGroups(v))
<1>1. Keeps(v, [v EXCEPT !.fetching = TRUE])
  BY Names, FieldKeeps DEF Watched
<1> QED BY <1>1, ClearKeeps DEF WantGroups

(* Nor does another provider, with what it forgets. *)
LEMMA SelectProviderKeeps ==
  ASSUME NEW v, Good(v), NEW p
  PROVE  Keeps(v, SelectProvider(v, p))
<1> DEFINE w == [v EXCEPT !.provider = p, !.picks = [c \in Clis |-> IF c = p THEN @[c] ELSE None]]
<1>1. Keeps(v, w)
  BY Names, FieldsKeep DEF Watched
<1> HIDE DEF w
<1>2. Keeps(w, ClearIncompatible(w))
  BY <1>1, ClearKeeps DEF Keeps
<1> QED BY <1>1, <1>2 DEF SelectProvider, Keeps, w

(* The status of the directory decides about the button. *)
LEMMA ApplyFrees ==
  ASSUME NEW v, Good(v)
  PROVE  Good(ApplyStatus(v)) /\ Freed(ApplyStatus(v))
<1>1. (v.cwd = Empty \/ v.exists[v.cwd] = "no") \in BOOLEAN
  OBVIOUS
<1> QED BY <1>1, Names DEF Good, Freed, ApplyStatus

(* The status of a directory not known yet is asked for first               *)
(* (refreshCwdInputStatus).                                                 *)
LEMMA RefreshFrees ==
  ASSUME NEW v, Good(v)
  PROVE  Good(RefreshStatus(v)) /\ Freed(RefreshStatus(v))
<1>1. LET w == [v EXCEPT !.checks = @ \cup {v.cwd}] IN Good(w) /\ Freed(w)
  BY Names DEF Good, Freed
<1> QED BY <1>1, ApplyFrees DEF RefreshStatus

(* The suggestions ask on their own account. *)
LEMMA SuggestKeeps == ASSUME NEW v, Good(v) PROVE Keeps(v, Suggest(v))
  BY Names DEF Good, Freed, Keeps, Suggest

(* A value that was read is followed. *)
LEMMA NowRead ==
  ASSUME NEW v, Good(v), v.subs.parent = None \/ v.subs.parent = Folder[v.cwd]
  PROVE  Keeps(v, [v EXCEPT !.unread = FALSE])
<1> DEFINE w == [v EXCEPT !.unread = FALSE]
<1>1. /\ DOMAIN w = Fields /\ w = [y \in Fields |-> w[y]] /\ w.unread = FALSE
      /\ \A y \in Fields \ {"unread"} : w[y] = v[y]
  <2>1. DOMAIN v = Fields /\ "unread" \in Fields
    BY Names DEF Good
  <2> QED BY <2>1
<1> HIDE DEF w
<1>2. w.subs = v.subs /\ w.cwd = v.cwd
  BY <1>1, Names
<1>3. Follows(w)
  BY <1>2 DEF Follows
<1>4. \A y \in Watched \ {"unread"} : w[y] = v[y]
  BY <1>1, WatchedFields
<1>5. Good(w)
  BY <1>1, <1>3, <1>4 DEF Good, Watched
<1>6. Freed(v) => Freed(w)
  BY <1>4 DEF Freed, Watched
<1> QED BY <1>5, <1>6 DEF Keeps, w

(* The list of subfolders is of the directory it is shown for, or not there *)
(* yet (maybeUpdateSubdirs).                                                *)
LEMMA UpdateKeeps ==
  ASSUME NEW v, Good(v), NEW d, d = None \/ (v.cwd \in Dirs /\ d = Folder[v.cwd])
  PROVE  Keeps(v, UpdateSubdirs(v, d))
<1>1. CASE d # None /\ v.subs.parent = d
  <2>1. UpdateSubdirs(v, d) = [v EXCEPT !.unread = FALSE]
    BY <1>1 DEF UpdateSubdirs
  <2> QED BY <1>1, <2>1, NowRead
<1>2. CASE d = None \/ v.subs.parent # d
  <2> DEFINE s == IF d = None THEN NoSubs
                  ELSE [parent |-> d, items |-> IF d \in v.cached THEN d ELSE None]
             l == IF d = None \/ d \in v.cached THEN v.lists ELSE v.lists \cup {d}
             w == [v EXCEPT !.unread = FALSE, !.subs = s, !.lists = l]
  <2>1. UpdateSubdirs(v, d) = w
    <3>1. DOMAIN v = Fields /\ v = [x \in Fields |-> v[x]]
      BY DEF Good
    <3>2. CASE d = None
      BY <3>1, <3>2, Names DEF UpdateSubdirs
    <3>3. CASE d # None
      BY <1>2, <3>3, Names DEF UpdateSubdirs
    <3> QED BY <3>2, <3>3
  <2>2. d \in Folders \cup {None}
    BY DEF Folders
  <2>3. /\ s \in [parent : Folders \cup {None}, items : Folders \cup {None}]
        /\ s.items # None => s.items = s.parent
        /\ s.parent # None => s.parent = Folder[v.cwd]
    BY <2>2 DEF NoSubs
  <2>4. l \subseteq Folders
    BY <2>2 DEF Good
  <2> HIDE DEF s, l
  <2>5. /\ DOMAIN w = Fields /\ w = [x \in Fields |-> w[x]] /\ w.subs = s /\ w.lists = l
        /\ w.unread = FALSE /\ \A x \in Watched \ {"unread", "subs", "lists"} : w[x] = v[x]
    <3>1. DOMAIN v = Fields /\ {"unread", "subs", "lists"} \subseteq Fields /\ Watched \subseteq Fields
      BY WatchedFields, Names DEF Good
    <3> QED BY <3>1
  <2> HIDE DEF w
  <2>6. Good(w)
    <3>1. \A x \in {"cwd", "path", "disabled", "exists", "typing", "history", "saved"} : w[x] = v[x]
      BY <2>5 DEF Watched
    <3>2. Follows(w)
      BY <2>3, <2>5, <3>1 DEF Follows
    <3> QED BY <2>3, <2>4, <2>5, <3>1, <3>2 DEF Good
  <2>7. Freed(v) => Freed(w)
    BY <2>5 DEF Freed, Watched
  <2> QED BY <2>1, <2>6, <2>7 DEF Keeps
<1> QED BY <1>1, <1>2

(* The field is read, *)
LEMMA SubdirsKeeps == ASSUME NEW v, Good(v) PROVE Keeps(v, MaybeUpdateSubdirs(v))
  BY UpdateKeeps DEF MaybeUpdateSubdirs

(* its suggestions are shown (the click handler), *)
LEMMA LookKeeps == ASSUME NEW v, Good(v) PROVE Keeps(v, Look(v))
<1> DEFINE w == MaybeUpdateSubdirs(v)
<1>1. Keeps(v, w)
  BY SubdirsKeeps
<1> HIDE DEF w
<1> QED BY <1>1, SuggestKeeps DEF Keeps, Look, w

(* and it is checked (the focus handler). *)
LEMMA FocusFrees ==
  ASSUME NEW v, Good(v)
  PROVE  Good(Focus(v)) /\ Freed(Focus(v))
  BY LookKeeps, RefreshFrees DEF Focus, Keeps

(* The history holds directories only. *)
LEMMA RememberKeeps ==
  ASSUME NEW v, Good(v), NEW d \in Dirs \cup {Empty}
  PROVE  Keeps(v, Remember(v, d))
  BY Names DEF Good, Freed, Keeps, Remember

(* The Browse button, *)
LEMMA FreeBrowseKeeps == ASSUME NEW v, Good(v) PROVE Keeps(v, FreeBrowse(v))
  BY FieldKeeps, Names DEF FreeBrowse, Watched, Keeps

(* the end of the browser *)
LEMMA CloseBrowserKeeps == ASSUME NEW v, Good(v) PROVE Keeps(v, CloseBrowser(v))
  BY Names, FieldsKeep DEF Watched, CloseBrowser

(* and its navigation do not touch the field. *)
LEMMA NavigatedKeeps ==
  ASSUME NEW v, Good(v), NEW w \in Navigated(v)
  PROVE  Keeps(v, w)
<1>1. ASSUME NEW d \in Real PROVE Keeps(v, [v EXCEPT !.path = d, !.cached = @ \cup {Folder[d]}])
  <2> DEFINE x == [v EXCEPT !.path = d, !.cached = @ \cup {Folder[d]}]
  <2>1. /\ DOMAIN x = Fields /\ x = [y \in Fields |-> x[y]]
        /\ x.path = d /\ \A y \in Watched \ {"path"} : x[y] = v[y]
    <3>1. DOMAIN v = Fields /\ "path" \in Fields /\ Watched \subseteq Fields /\ "cached" \notin Watched
      BY WatchedFields, Names DEF Good, Watched
    <3>2. "cached" \in Fields
      BY Names
    <3> QED BY <3>1, <3>2
  <2> HIDE DEF x
  <2>2. Good(x)
    BY <2>1 DEF Good, Watched, Follows
  <2>3. Freed(v) => Freed(x)
    BY <2>1 DEF Freed, Watched
  <2> QED BY <2>2, <2>3 DEF Keeps, x
<1> QED BY <1>1 DEF Navigated, Keeps

(* A new value in the field is not read yet. *)
LEMMA FillGood ==
  ASSUME NEW v, Good(v), NEW d \in Dirs \cup {Empty}
  PROVE  Good(Fill(v, d)) /\ Fill(v, d).cwd = d
<1> DEFINE w == Fill(v, d)
<1>1. /\ DOMAIN w = Fields /\ w = [z \in Fields |-> w[z]]
      /\ w.cwd = d /\ w.unread = TRUE /\ \A z \in Fields \ {"cwd", "unread"} : w[z] = v[z]
  <2>1. DOMAIN v = Fields /\ "cwd" \in Fields /\ "unread" \in Fields
    BY Names DEF Good
  <2> QED BY <2>1 DEF Fill
<1> HIDE DEF w
<1>2. \A z \in Watched \ {"cwd", "unread"} : w[z] = v[z]
  BY <1>1, WatchedFields
<1>3. Good(w)
  BY <1>1, <1>2 DEF Good, Follows, Watched
<1> QED BY <1>1, <1>3 DEF w

(* A suggestion that is taken is checked (selectCwdItem), *)
LEMMA SelectCwdFrees ==
  ASSUME NEW v, Good(v), NEW d \in Dirs
  PROVE  Good(SelectCwd(v, d)) /\ Freed(SelectCwd(v, d))
  BY FillGood, RefreshFrees DEF SelectCwd

(* a search prefix cannot be launched in, *)
LEMMA PrefixFrees ==
  ASSUME NEW v, Good(v), NEW p \in Prefixes
  PROVE  Good(Fill(v, p)) /\ Freed(Fill(v, p))
<1>1. p \in Dirs
  BY DEF Dirs
<1> QED BY <1>1, FillGood DEF Freed

(* and what is in the field when the form is shown is checked               *)
(* (openSpawnPanelForMode).                                                 *)
LEMMA ShowFrees ==
  ASSUME NEW v, Good(v)
  PROVE  Good(Show(v)) /\ Freed(Show(v))
<1> DEFINE w == [v EXCEPT !.hidden = FALSE]
<1>1. Good(w)
  BY Names, FieldKeeps DEF Watched, Keeps
<1> HIDE DEF w
<1> QED BY <1>1, FocusFrees, WantGroupsKeeps DEF Show, Keeps, w

(* The settings of the last launch name a directory or none                 *)
(* (loadSpawnSettings).                                                     *)
LEMMA LoadGood == ASSUME NEW v, Good(v) PROVE Good(LoadSettings(v))
<1>1. CASE v.saved = Idle
  BY <1>1 DEF LoadSettings
<1>2. CASE v.saved # Idle
  <2>1. v.saved.cwd \in Dirs \cup {Empty}
    BY <1>2 DEF Good, Remembered
  <2> DEFINE w == Fill(v, v.saved.cwd)
  <2>2. Good(w)
    BY <2>1, FillGood
  <2>3. LoadSettings(v) = [w EXCEPT !.provider = v.saved.provider, !.target = v.saved.target]
    BY <1>2 DEF LoadSettings
  <2> HIDE DEF w
  <2>4. Keeps(w, [w EXCEPT !.provider = v.saved.provider, !.target = v.saved.target])
    BY <2>2, Names, FieldsKeep DEF Watched
  <2> QED BY <2>3, <2>4 DEF Keeps
<1> QED BY <1>1, <1>2

(* Whichever way the form is opened, its directory is looked at or asked for. *)
LEMMA AskedFrees ==
  ASSUME NEW v, Good(v), NEW p
  PROVE  LET w == [v EXCEPT !.infos = @ \cup {p}] IN Good(w) /\ Freed(w)
  BY Names DEF Good, Freed

(* The button of the panel, *)
LEMMA OpenPanelFrees ==
  ASSUME NEW v, Good(v)
  PROVE  Keeps(v, OpenSpawnPanel(v))
<1>1. CASE ~v.hidden
  BY <1>1, Names DEF OpenSpawnPanel, Good, Freed, Keeps
<1>2. CASE ~(~v.hidden)
  <2> DEFINE w == LoadSettings(v)
  <2>1. Good(w)
    BY LoadGood
  <2> HIDE DEF w
  <2>2. Good([w EXCEPT !.infos = @ \cup {None}]) /\ Freed([w EXCEPT !.infos = @ \cup {None}])
    BY <2>1, AskedFrees
  <2>3. Good(Show(w)) /\ Freed(Show(w))
    BY <2>1, ShowFrees
  <2> QED BY <1>2, <2>2, <2>3 DEF OpenSpawnPanel, Keeps, w
<1> QED BY <1>1, <1>2

(* a shell about to start a CLI, *)
LEMMA OpenForFrees ==
  ASSUME NEW v, Good(v), NEW p, NEW d \in Real \cup {Empty}
  PROVE  Good(OpenSpawnFor(v, p, d)) /\ Freed(OpenSpawnFor(v, p, d))
<1> DEFINE w == LoadSettings(v)
           x == IF d = Empty THEN w ELSE Fill(w, d)
<1>1. Good(w)
  BY LoadGood
<1> HIDE DEF w
<1>2. Good(x)
  BY <1>1, FillGood DEF Dirs
<1> HIDE DEF x
<1>3. Good(SelectProvider(x, p))
  BY <1>2, SelectProviderKeeps DEF Keeps
<1>4. Good(Show(SelectProvider(x, p))) /\ Freed(Show(SelectProvider(x, p)))
  BY <1>3, ShowFrees
<1>5. Good([w EXCEPT !.infos = @ \cup {p}]) /\ Freed([w EXCEPT !.infos = @ \cup {p}])
  BY <1>1, AskedFrees
<1> QED BY <1>4, <1>5 DEF OpenSpawnFor, w, x

(* and the answer of /api/info: each leads to a check. *)
LEMMA InformedFrees ==
  ASSUME NEW v, Good(v), NEW p, NEW d \in Dirs \cup {Empty}
  PROVE  Good(Informed(v, p, d)) /\ Freed(Informed(v, p, d))
<1> DEFINE x == Fill(v, d)
           w == [x EXCEPT !.infos = @ \ {p}]
<1>1. Good(w)
  <2>1. Good(x)
    BY FillGood
  <2> HIDE DEF x
  <2>2. w = [x EXCEPT !.infos = x.infos \ {p}]
    OBVIOUS
  <2>3. /\ DOMAIN w = Fields /\ w = [z \in Fields |-> w[z]]
        /\ \A z \in Fields \ {"infos"} : w[z] = x[z]
    <3>1. DOMAIN x = Fields /\ "infos" \in Fields
      BY <2>1, Names DEF Good
    <3> QED BY <2>2, <3>1
  <2> HIDE DEF w
  <2>4. \A z \in Watched \ {"infos"} : w[z] = x[z]
    BY <2>3, WatchedFields
  <2> QED BY <2>1, <2>3, <2>4 DEF Good, Follows, Watched
<1> HIDE DEF w
<1>2. Good(SelectProvider(w, p))
  BY <1>1, SelectProviderKeeps DEF Keeps
<1> QED BY <1>1, <1>2, ShowFrees DEF Informed, w, x

(* What the Hub says of a directory does not turn a missing one into another. *)
LEMMA TellKeeps ==
  ASSUME NEW v, Good(v), NEW ds, NEW ok \in BOOLEAN
  PROVE  Keeps(v, Tell(v, ds, ok))
<1> DEFINE e == [d \in Dirs |-> IF d \in ds /\ ok THEN IF d \in Real THEN "yes" ELSE "no"
                                ELSE v.exists[d]]
<1>1. /\ e \in [Dirs -> {"unknown", "yes", "no"}] /\ \A d \in Real : e[d] # "no"
      /\ \A d \in Dirs : v.exists[d] = "no" => e[d] = "no"
  BY DEF Good, Dirs
<1>2. Tell(v, ds, ok) = [v EXCEPT !.exists = e]
  BY DEF Tell
<1> HIDE DEF e
<1>3. Good([v EXCEPT !.exists = e])
  BY <1>1, Names DEF Good
<1>4. Freed(v) => Freed([v EXCEPT !.exists = e])
  BY <1>1, Names DEF Good, Freed
<1> QED BY <1>2, <1>3, <1>4 DEF Keeps

(* Only the directory in the field gets its items. *)
LEMMA ListedKeeps ==
  ASSUME NEW v, Good(v), NEW d \in Folders, NEW items \in {d, None}
  PROVE  Keeps(v, Listed(v, d, items))
<1>1. CASE v.subs.parent = d
  <2> DEFINE w == [v EXCEPT !.subs.items = items]
  <2>1. Keeps(v, w)
    BY <1>1, Names DEF Good, Freed, Keeps, Follows
  <2> HIDE DEF w
  <2>2. Keeps(w, Suggest(w))
    BY <2>1, SuggestKeeps DEF Keeps
  <2> QED BY <1>1, <2>1, <2>2 DEF Listed, Keeps, w
<1>2. CASE v.subs.parent # d
  BY <1>2 DEF Listed, Keeps
<1> QED BY <1>1, <1>2

(* Checks and suggestions leave the value in the field. *)
LEMMA RefreshField ==
  ASSUME NEW v, Good(v)
  PROVE  RefreshStatus(v).cwd = v.cwd
  BY Names DEF Good, RefreshStatus, ApplyStatus

LEMMA FocusField ==
  ASSUME NEW v, Good(v)
  PROVE  Focus(v).cwd = v.cwd
<1> DEFINE w == MaybeUpdateSubdirs(v)
           x == Suggest(w)
<1>1. Good(w) /\ w.cwd = v.cwd
  <2>1. Good(w)
    BY SubdirsKeeps DEF Keeps
  <2> QED BY <2>1, Names DEF Good, MaybeUpdateSubdirs, UpdateSubdirs
<1> HIDE DEF w
<1>2. Good(x) /\ x.cwd = w.cwd
  BY <1>1, SuggestKeeps, Names DEF Keeps, Suggest, Good
<1> HIDE DEF x
<1> QED BY <1>1, <1>2, RefreshField DEF Focus, Look, w, x

(* The directory chosen in the browser is checked (selectCurrent). *)
LEMMA SelectCurrentFrees ==
  ASSUME NEW v, Good(v), v.path # None
  PROVE  Good(SelectCurrent(v)) /\ Freed(SelectCurrent(v))
<1>1. v.path \in Dirs
  BY DEF Good, Dirs
<1> DEFINE f == Fill(v, v.path)
           w == RefreshStatus(f)
           x == CloseBrowser(w)
           z == Focus(x)
           y == UpdateSubdirs(z, Folder[v.path])
<1>2. Good(f) /\ f.cwd = v.path
  BY <1>1, FillGood
<1> HIDE DEF f
<1>3. Good(w) /\ w.cwd = v.path
  BY <1>2, RefreshFrees, RefreshField
<1> HIDE DEF w
<1>4. Good(x) /\ x.cwd = v.path
  BY <1>3, CloseBrowserKeeps, Names DEF Keeps, CloseBrowser, Good
<1> HIDE DEF x
<1>5. Good(z) /\ Freed(z) /\ z.cwd = v.path
  BY <1>4, FocusFrees, FocusField
<1> HIDE DEF z
<1>6. Good(y) /\ Freed(y)
  BY <1>1, <1>5, UpdateKeeps DEF Keeps
<1> HIDE DEF y
<1> QED BY <1>6, SuggestKeeps DEF Keeps, SelectCurrent, f, w, x, z, y

(* The end of a launch gives the button back. *)
LEMMA EndedFrees ==
  ASSUME NEW v, Good(v)
  PROVE  Good(Ended(v)) /\ Freed(Ended(v))
  BY Names DEF Good, Freed, Ended

-----------------------------------------------------------------------------
(* A launch on its way is there. *)
LEMMA Busy == ASSUME NEW l, Read(l) \/ Sent(l) PROVE l # Idle
  BY DEF Read, Sent, Idle

(* A step of one launch leaves the others alone. *)
LEMMA RunSet ==
  ASSUME Runs, NEW i \in Launches, NEW l, l = Idle \/ Read(l) \/ Sent(l),
         run' = [run EXCEPT ![i] = l]
  PROVE  Runs' /\ run'[i] = l
  BY DEF Runs

(* What is sent has its confirmation. *)
LEMMA PostedSent ==
  ASSUME NEW l, Read(l), NEW yes \in BOOLEAN, l.high => yes
  PROVE  Sent(Posted(l, yes))
  BY DEF Read, Sent, Posted

(* A launch that goes on: the button stays disabled for its sake. *)
LEMMA LaunchGoesOn ==
  ASSUME Runs, NEW i \in Launches, NEW l, Read(l) \/ Sent(l), run' = [run EXCEPT ![i] = l], Good(u')
  PROVE  Inv'
  BY RunSet, Busy DEF Inv

(* A launch that ends. *)
LEMMA LaunchEnds ==
  ASSUME Runs, NEW i \in Launches, run' = [run EXCEPT ![i] = Idle], Good(u'), Freed(u')
  PROVE  Inv'
  BY RunSet DEF Inv

(* A step of the page alone. *)
LEMMA PageStep ==
  ASSUME Inv, NEW v, Keeps(u, v) \/ (Good(v) /\ Freed(v)), u' = v, UNCHANGED run
  PROVE  Inv'
  BY DEF Inv, Keeps, Runs

(* Which dialog is in front does not matter to the button. *)
LEMMA FrontGood ==
  ASSUME NEW v, Good(v), NEW x
  PROVE  Keeps(v, [v EXCEPT !.front = x])
  BY Names, FieldKeeps DEF Watched

(* The permissions are read after the awaits; a high risk asks before it is *)
(* sent.                                                                    *)
LEMMA DecideStep ==
  ASSUME Runs, NEW v, Good(v), NEW i \in Launches, NEW l, Read(l), Decide(v, i, l)
  PROVE  Inv'
<1> DEFINE high == l.provider \in Clis /\ HighRisk(v, l.provider, l.model)
           read == [l EXCEPT !.high = high]
<1>1. high \in BOOLEAN
  BY DEF HighRisk
<1> HIDE DEF high
<1>2. Read(read) /\ read.high = high /\ Read([read EXCEPT !.at = "confirm"])
  BY DEF Read
<1>3. CASE Ask(v, i, [read EXCEPT !.at = "confirm"])
  BY <1>2, <1>3, LaunchGoesOn, FrontGood DEF Ask, Keeps
<1>4. CASE u' = v /\ run' = [run EXCEPT ![i] = Posted(read, high)]
  BY <1>1, <1>2, <1>4, PostedSent, LaunchGoesOn
<1> QED BY <1>3, <1>4 DEF Decide, high

(* The launch button (spawnSession). *)
LEMMA LaunchStep == ASSUME Inv, NEW i \in Launches, Launch(i) PROVE Inv'
<1> DEFINE l == [at |-> "encoding", provider |-> u.provider, cwd |-> u.cwd,
                 model |-> u.model, high |-> FALSE]
           v == [u EXCEPT !.disabled = TRUE]
           w == ForgetPicks([v EXCEPT !.model = Empty])
<1>1. Good(v) /\ Runs
  BY Names DEF Inv, Good
<1>2. Read(l)
  BY DEF Inv, Good, Read
<1>3. Good(w)
  BY <1>1, EmptyModelKeeps DEF Keeps
<1>4. \/ u' = Ended(w) /\ run' = run
      \/ u' = v /\ run' = [run EXCEPT ![i] = l]
      \/ Decide(v, i, l)
  BY DEF Launch
<1> HIDE DEF l, v, w
<1>5. CASE u' = Ended(w) /\ run' = run
  BY <1>3, <1>5, EndedFrees, PageStep
<1>6. CASE u' = v /\ run' = [run EXCEPT ![i] = l]
  BY <1>1, <1>2, <1>6, LaunchGoesOn
<1>7. CASE Decide(v, i, l)
  BY <1>1, <1>2, <1>7, DecideStep
<1> QED BY <1>4, <1>5, <1>6, <1>7

(* The answer of /api/encoding-check: a launch goes on or asks. *)
LEMMA EncodingStep == ASSUME Inv, NEW i \in Launches, EncodingKnown(i) PROVE Inv'
<1>1. Good(u) /\ Runs /\ Read(run[i])
  BY DEF Inv, Runs, EncodingKnown, Idle, Sent
<1>2. Read([run[i] EXCEPT !.at = "choose"])
  BY <1>1 DEF Read
<1>3. CASE Decide(u, i, run[i])
  BY <1>1, <1>3, DecideStep
<1>4. CASE Ask(u, i, [run[i] EXCEPT !.at = "choose"])
  BY <1>1, <1>2, <1>4, LaunchGoesOn, FrontGood DEF Ask, Keeps
<1> QED BY <1>3, <1>4 DEF EncodingKnown

(* A button of the dialog in front: only yes sends, and no gives the button *)
(* back.                                                                    *)
LEMMA ChooseStep == ASSUME Inv, NEW yes \in BOOLEAN, Choose(yes) PROVE Inv'
<1> DEFINE i == u.front
           v == [u EXCEPT !.front = Hidden]
<1>1. i \in Launches /\ run[i].at \in {"choose", "confirm"} /\ Runs
  BY DEF Choose, Asking, Inv
<1>2. Read(run[i])
  BY <1>1 DEF Runs, Idle, Sent
<1>3. Good(v)
  BY FrontGood DEF Inv, Keeps
<1>4. \/ u' = Ended(v) /\ run' = [run EXCEPT ![i] = Idle]
      \/ Decide(v, i, run[i])
      \/ u' = v /\ run' = [run EXCEPT ![i] = Posted(run[i], TRUE)]
  BY DEF Choose
<1> HIDE DEF i, v
<1>5. CASE u' = Ended(v) /\ run' = [run EXCEPT ![i] = Idle]
  BY <1>1, <1>3, <1>5, EndedFrees, LaunchEnds
<1>6. CASE Decide(v, i, run[i])
  BY <1>1, <1>2, <1>3, <1>6, DecideStep
<1>7. CASE u' = v /\ run' = [run EXCEPT ![i] = Posted(run[i], TRUE)]
  BY <1>1, <1>2, <1>3, <1>7, PostedSent, LaunchGoesOn
<1> QED BY <1>4, <1>5, <1>6, <1>7

(* Escape, or a click beside the dialog, ends all that ask. *)
LEMMA DismissStep == ASSUME Inv, NEW click \in BOOLEAN, Dismiss(click) PROVE Inv'
<1> DEFINE f == IF click \/ u.front # Picker THEN Hidden ELSE u.front
           p == IF click THEN None ELSE u.picker
           v == [u EXCEPT !.front = f, !.picker = p]
<1> HIDE DEF f, p
<1>1. Good(v)
  BY Names, FieldsKeep DEF Inv, Watched, Keeps
<1> HIDE DEF v
<1>2. u' = Ended(v) /\ run' = [i \in Launches |-> IF Asking(i) THEN Idle ELSE run[i]]
  BY DEF Dismiss, v, f, p
<1>3. Runs'
  BY <1>2 DEF Inv, Runs
<1> QED BY <1>1, <1>2, <1>3, EndedFrees DEF Inv

(* Enter says yes to every question of risk that waits, and to these only. *)
LEMMA EnterStep == ASSUME Inv, Enter PROVE Inv'
<1>1. Good(u')
  BY FrontGood DEF Enter, Inv, Keeps
<1>2. run' = [i \in Launches |-> IF run[i].at = "confirm" THEN Posted(run[i], TRUE) ELSE run[i]]
  BY DEF Enter
<1>3. ASSUME NEW i \in Launches, run[i].at = "confirm"
      PROVE  Sent(Posted(run[i], TRUE))
  <2>1. Read(run[i])
    BY <1>3 DEF Inv, Runs, Idle, Sent
  <2> QED BY <2>1, PostedSent
<1>4. Runs'
  BY <1>2, <1>3 DEF Inv, Runs
<1>5. PICK i \in Launches : run[i].at = "confirm"
  BY DEF Enter
<1>6. run'[i] # Idle
  BY <1>2, <1>3, <1>5, Busy
<1> QED BY <1>1, <1>4, <1>6 DEF Inv

(* The answer of /api/spawn ends the launch (its finally clause). *)
LEMMA AnsweredStep == ASSUME Inv, NEW i \in Launches, Answered(i) PROVE Inv'
<1>1. Good(u) /\ Runs /\ run' = [run EXCEPT ![i] = Idle] /\ run[i].cwd \in Dirs \cup {Empty}
  BY DEF Inv, Answered, Runs, Idle, Read, Sent
<1>2. CASE u' = Ended(u)
  BY <1>1, <1>2, EndedFrees, LaunchEnds
<1>3. ASSUME NEW preset, u' = Spawned(u, run[i], u.target, preset) PROVE Inv'
  <2> DEFINE w == Remember(u, run[i].cwd)
             s == [provider |-> run[i].provider, cwd |-> run[i].cwd, target |-> u.target]
             b == w.launcher \/ (u.target = "detached" /\ preset = "launcher")
             y == [w EXCEPT !.hidden = TRUE, !.launcher = b]
             x == [y EXCEPT !.saved = s]
  <2>1. Good(w)
    BY <1>1, RememberKeeps DEF Keeps
  <2>2. Remembered(s)
    BY <1>1 DEF Remembered, Idle
  <2> HIDE DEF w, s, b
  <2>6. Good(y)
    BY <2>1, Names, FieldsKeep DEF Watched, Keeps
  <2> HIDE DEF y
  <2>3. Good(x)
    <3>1. /\ DOMAIN x = Fields /\ x = [z \in Fields |-> x[z]]
          /\ x.saved = s /\ \A z \in Watched \ {"saved"} : x[z] = y[z]
      <4>1. DOMAIN y = Fields /\ "saved" \in Fields /\ Watched \subseteq Fields
        BY <2>6, WatchedFields, Names DEF Good
      <4> QED BY <4>1
    <3> HIDE DEF x
    <3> QED BY <2>2, <2>6, <3>1 DEF Good, Watched
  <2> HIDE DEF x
  <2>4. Good(ForgetPicks(x))
    BY <2>3, ForgetKeeps DEF Keeps
  <2>5. u' = Ended(ForgetPicks(x))
    <3>1. x = [w EXCEPT !.saved = s, !.hidden = TRUE, !.launcher = b]
      <4>1. DOMAIN w = Fields
        BY <2>1 DEF Good
      <4> QED BY <4>1 DEF x, y
    <3> QED BY <1>3, <3>1 DEF Spawned, w, s, b
  <2> QED BY <1>1, <2>4, <2>5, EndedFrees, LaunchEnds
<1> QED BY <1>2, <1>3 DEF Answered

(* The Hub starts and registers sessions. *)
LEMMA HubStep == ASSUME Inv, HubActs PROVE Inv'
<1>1. ASSUME NEW i \in Launches, Accepted(i) PROVE Inv'
  <2>1. Sent(run[i]) /\ run' = [run EXCEPT ![i].at = "started"] /\ u' = u
    BY <1>1 DEF Accepted, Inv, Runs, Idle, Read
  <2>2. Sent([run[i] EXCEPT !.at = "started"])
    BY <2>1 DEF Sent
  <2>3. run' = [run EXCEPT ![i] = [run[i] EXCEPT !.at = "started"]]
    BY <2>1
  <2> QED BY <2>1, <2>2, <2>3, LaunchGoesOn DEF Inv
<1>2. CASE Registered
  <2>1. CASE run' = run /\ u' = u
    BY <2>1 DEF Inv, Runs
  <2>2. ASSUME NEW i \in Launches, run[i].at = "started", run' = [run EXCEPT ![i].own = born + 1],
               u' = u
        PROVE  Inv'
    <3>1. Sent(run[i])
      BY <2>2 DEF Inv, Runs, Idle, Read
    <3>2. Sent([run[i] EXCEPT !.own = born + 1])
      BY <3>1 DEF Sent
    <3> QED BY <2>2, <3>2, LaunchGoesOn DEF Inv
  <2> QED BY <1>2, <2>1, <2>2 DEF Registered
<1>3. CASE Elsewhere \/ Fails
  BY <1>3 DEF Elsewhere, Fails, Inv, Runs
<1> QED BY <1>1, <1>2, <1>3 DEF HubActs

-----------------------------------------------------------------------------
(* How far a click on Browse has come does not matter to the button. *)
LEMMA ChainKeeps ==
  ASSUME NEW v, Good(v), NEW c, NEW x
  PROVE  Keeps(v, [v EXCEPT !.chain[c] = x])
  BY Names DEF Good, Freed, Keeps

(* The models, the home directory, the rows of the suggestions, the         *)
(* keystroke timer.                                                         *)
LEMMA FormAnswered ==
  ASSUME Inv, GroupsAnswered \/ InfoAnswered \/ RowsChecked \/ DebounceFires
  PROVE  Inv'
<1> USE DEF Page, apart
<1>1. Good(u)
  BY DEF Inv
<1>2. CASE GroupsAnswered
  <2> DEFINE v == [u EXCEPT !.fetching = FALSE]
             w == [v EXCEPT !.groups = TRUE]
  <2>1. Keeps(u, v) /\ Keeps(u, w)
    <3>1. Keeps(u, v)
      BY <1>1, Names, FieldKeeps DEF Watched
    <3> HIDE DEF v
    <3>2. Keeps(v, w)
      BY <3>1, Names, FieldKeeps DEF Watched, Keeps
    <3> QED BY <3>1, <3>2 DEF Keeps
  <2>2. \/ u' = v
        \/ u' = ClearOllamaDefault(ClearIncompatible(w))
    BY <1>2 DEF GroupsAnswered
  <2>3. UNCHANGED run
    BY <1>2 DEF GroupsAnswered
  <2> HIDE DEF v, w
  <2>4. Keeps(u, ClearIncompatible(w))
    BY <2>1, ClearKeeps DEF Keeps
  <2>5. Keeps(u, ClearOllamaDefault(ClearIncompatible(w)))
    BY <2>4, ClearKeeps DEF Keeps
  <2> QED BY <2>1, <2>2, <2>3, <2>5, PageStep
<1>3. CASE InfoAnswered
  <2>1. PICK p \in u.infos, d \in Real \cup {u.cwd} : Page(Informed(u, p, d))
    BY <1>3 DEF InfoAnswered
  <2>2. d \in Dirs \cup {Empty}
    BY <1>1 DEF Good, Dirs
  <2> QED BY <1>1, <2>1, <2>2, InformedFrees, PageStep
<1>4. CASE RowsChecked
  <2> DEFINE v == [u EXCEPT !.rows = {}]
  <2>1. PICK ok \in BOOLEAN : u' = Tell(v, u.rows, ok) /\ UNCHANGED run
    BY <1>4 DEF RowsChecked
  <2>2. Keeps(u, v)
    BY <1>1, Names, FieldKeeps DEF Watched
  <2> HIDE DEF v
  <2>3. Keeps(u, Tell(v, u.rows, ok))
    BY <2>2, TellKeeps DEF Keeps
  <2> QED BY <2>1, <2>3, PageStep
<1>5. CASE DebounceFires
  <2> DEFINE v == [u EXCEPT !.typing = FALSE]
  <2>1. u' = RefreshStatus(v) /\ UNCHANGED run
    BY <1>5 DEF DebounceFires
  <2>2. Good(v)
    BY <1>1, Names DEF Good
  <2> QED BY <2>1, <2>2, RefreshFrees, PageStep
<1> QED BY <1>2, <1>3, <1>4, <1>5

(* An answer about one directory, however late. *)
LEMMA DirAnswered ==
  ASSUME Inv, NEW d, (d \in Dirs /\ PathChecked(d)) \/ (d \in Folders /\ SubdirsAnswered(d))
  PROVE  Inv'
<1> USE DEF Page, apart
<1>1. Good(u)
  BY DEF Inv
<1>2. CASE d \in Dirs /\ PathChecked(d)
  <2> DEFINE v == [u EXCEPT !.checks = @ \ {d}]
  <2>1. PICK ok \in BOOLEAN : u' = ApplyStatus(Tell(v, {d}, ok)) /\ UNCHANGED run
    BY <1>2 DEF PathChecked
  <2>2. Good(v)
    BY <1>1, Names DEF Good
  <2> HIDE DEF v
  <2>3. Good(Tell(v, {d}, ok))
    BY <2>2, TellKeeps DEF Keeps
  <2> QED BY <2>1, <2>3, ApplyFrees, PageStep
<1>3. CASE d \in Folders /\ SubdirsAnswered(d)
  <2>1. PICK ok \in BOOLEAN :
          LET v == [u EXCEPT !.lists = @ \ {d}, !.cached = IF ok THEN @ \cup {d} ELSE @]
          IN u' = Listed(v, d, IF ok THEN d ELSE None) /\ UNCHANGED run
    BY <1>3 DEF SubdirsAnswered
  <2> DEFINE c == IF ok THEN u.cached \cup {d} ELSE u.cached
             items == IF ok THEN d ELSE None
             v == [u EXCEPT !.lists = @ \ {d}, !.cached = c]
  <2>2. u' = Listed(v, d, items) /\ UNCHANGED run /\ items \in {d, None}
    BY <2>1
  <2> HIDE DEF c, items
  <2>3. Keeps(u, v)
    <3>1. /\ DOMAIN v = Fields /\ v = [x \in Fields |-> v[x]]
          /\ v.lists = u.lists \ {d} /\ \A x \in Watched \ {"lists"} : v[x] = u[x]
      <4>1. DOMAIN u = Fields /\ "lists" \in Fields /\ "cached" \in Fields \ Watched
        BY <1>1, Names DEF Good, Watched
      <4> QED BY <4>1, WatchedFields
    <3> HIDE DEF v
    <3> QED BY <1>1, <3>1 DEF Good, Freed, Keeps, Watched, Follows
  <2> HIDE DEF v
  <2>4. Keeps(u, Listed(v, d, items))
    BY <1>3, <2>2, <2>3, ListedKeeps DEF Keeps
  <2> QED BY <2>2, <2>4, PageStep
<1> QED BY <1>2, <1>3

(* An answer to a click on Browse. *)
LEMMA BrowseAnswered ==
  ASSUME Inv, NEW c \in Chains, PreferKnown(c) \/ NativeAnswered(c) \/ FirstListed(c)
  PROVE  Inv'
<1> USE DEF Page, Browsing, apart
<1> DEFINE o == [u EXCEPT !.browsing = TRUE]
           n == [u EXCEPT !.chain[c] = None]
<1>1. Good(u) /\ Keeps(u, o) /\ Keeps(u, n)
  BY ChainKeeps, Names, FieldKeeps DEF Inv, Watched
<1>2. CASE PreferKnown(c)
  <2> DEFINE p == [u EXCEPT !.browsing = TRUE, !.path = @]
  <2>1. Keeps(u, p)
    <3>1. p = o
      BY <1>1, Names DEF Good
    <3> QED BY <1>1, <3>1
  <2>2. /\ UNCHANGED run
        /\ u' = [p EXCEPT !.chain[c] = "list"] \/ u' = [u EXCEPT !.chain[c] = "native"]
    BY <1>2 DEF PreferKnown
  <2> HIDE DEF p
  <2>3. Keeps(u, [p EXCEPT !.chain[c] = "list"]) /\ Keeps(u, [u EXCEPT !.chain[c] = "native"])
    BY <1>1, <2>1, ChainKeeps DEF Keeps
  <2> QED BY <2>2, <2>3, PageStep
<1>3. CASE NativeAnswered(c)
  <2>1. /\ UNCHANGED run
        /\ \/ \E d \in Real : u' = FreeBrowse(Focus(RefreshStatus(Fill(n, d))))
           \/ u' = FreeBrowse(n)
           \/ u' = [o EXCEPT !.chain[c] = "list"]
    BY <1>3 DEF NativeAnswered
  <2> HIDE DEF n, o
  <2>2. ASSUME NEW d \in Real
        PROVE  LET w == FreeBrowse(Focus(RefreshStatus(Fill(n, d))))
               IN  Good(w) /\ Freed(w)
    <3> DEFINE w == RefreshStatus(Fill(n, d))
    <3>1. Good(w)
      BY <1>1, FillGood, RefreshFrees DEF Keeps, Dirs
    <3> HIDE DEF w
    <3>2. Good(Focus(w)) /\ Freed(Focus(w))
      BY <3>1, FocusFrees
    <3> QED BY <3>2, FreeBrowseKeeps DEF Keeps, w
  <2>3. Keeps(u, FreeBrowse(n)) /\ Keeps(u, [o EXCEPT !.chain[c] = "list"])
    BY <1>1, FreeBrowseKeeps, ChainKeeps DEF Keeps
  <2> QED BY <2>1, <2>2, <2>3, PageStep
<1>4. CASE FirstListed(c)
  <2>1. PICK v \in Navigated(n) : u' = FreeBrowse(v) /\ UNCHANGED run
    BY <1>4 DEF FirstListed
  <2> HIDE DEF n
  <2>2. Keeps(u, v)
    BY <1>1, NavigatedKeeps DEF Keeps
  <2>3. Keeps(u, FreeBrowse(v))
    BY <2>2, FreeBrowseKeeps DEF Keeps
  <2> QED BY <2>1, <2>3, PageStep
<1> QED BY <1>2, <1>3, <1>4

(* No answer leaves the button behind. *)
LEMMA AnswerStep == ASSUME Inv, Answers PROVE Inv'
<1>1. ASSUME NEW prev \in grids, GridAnswered(prev) PROVE Inv'
  BY <1>1 DEF GridAnswered, Inv, Runs
<1> QED BY <1>1, FormAnswered, DirAnswered, BrowseAnswered, EncodingStep, AnsweredStep
        DEF Answers

-----------------------------------------------------------------------------
(* The ways to open the form. *)
LEMMA OpenStep == ASSUME Inv, Open PROVE Inv'
<1>1. Good(u)
  BY DEF Inv
<1>2. CASE UI(OpenSpawnPanel(u))
  BY <1>1, <1>2, OpenPanelFrees, PageStep DEF UI, apart
<1>3. ASSUME NEW p \in Providers, NEW d \in Real \cup {Empty}, UI(OpenSpawnFor(u, p, d))
      PROVE  Inv'
  BY <1>1, <1>3, OpenForFrees, PageStep DEF UI, apart
<1> QED BY <1>2, <1>3 DEF Open

(* Typing in the field, and the suggestions. *)
LEMMA DirectoryStep == ASSUME Inv, Directory PROVE Inv'
<1>1. Good(u)
  BY DEF Inv
<1>2. ASSUME NEW d \in Dirs \cup {Empty}, UI([Look(Fill(u, d)) EXCEPT !.typing = TRUE])
      PROVE  Inv'
  <2> DEFINE w == Look(Fill(u, d))
  <2>1. Good(w)
    BY <1>1, FillGood, LookKeeps DEF Keeps
  <2>2. u' = [w EXCEPT !.typing = TRUE] /\ UNCHANGED run
    BY <1>2 DEF UI, apart
  <2> HIDE DEF w
  <2>3. Good([w EXCEPT !.typing = TRUE]) /\ Freed([w EXCEPT !.typing = TRUE])
    BY <2>1, Names DEF Good, Freed, Follows
  <2> QED BY <2>2, <2>3, PageStep
<1>3. ASSUME NEW d \in Rows, UI(SelectCwd(u, d)) PROVE Inv'
  <2>1. d \in Dirs
    BY <1>1 DEF Rows, Good, Dirs
  <2> QED BY <1>1, <1>3, <2>1, SelectCwdFrees, PageStep DEF UI, apart
<1>5. CASE UI(Look(u)) \/ UI(Focus(u))
  BY <1>1, <1>5, LookKeeps, FocusFrees, PageStep DEF UI, apart
<1>6. ASSUME NEW p \in Prefixes, InsertPrefix(p) PROVE Inv'
  <2>1. PICK v \in {Fill(u, p), Focus(Fill(u, p))} : u' = Suggest(v) /\ UNCHANGED run
    BY <1>6 DEF InsertPrefix, UI, apart
  <2>2. Good(v) /\ Freed(v)
    BY <1>1, PrefixFrees, FocusFrees
  <2> QED BY <2>1, <2>2, SuggestKeeps, PageStep DEF Keeps
<1>4. ASSUME NEW d \in u.history, UI(Suggest([u EXCEPT !.history = @ \ {d}])) PROVE Inv'
  <2> DEFINE v == [u EXCEPT !.history = @ \ {d}]
  <2>1. Keeps(u, v)
    BY <1>1, Names DEF Good, Freed, Keeps, Follows
  <2>2. u' = Suggest(v) /\ UNCHANGED run
    BY <1>4 DEF UI, apart
  <2> HIDE DEF v
  <2>3. Keeps(u, Suggest(v))
    BY <2>1, SuggestKeeps DEF Keeps
  <2> QED BY <2>2, <2>3, PageStep
<1> QED BY <1>2, <1>3, <1>4, <1>5, <1>6 DEF Directory

(* The other fields. *)
LEMMA FormStep == ASSUME Inv, Form PROVE Inv'
<1>1. Good(u)
  BY DEF Inv
<1>2. ASSUME NEW p, UI(SelectProvider(u, p)) PROVE Inv'
  BY <1>1, <1>2, SelectProviderKeeps, PageStep DEF UI, apart
<1>3. ASSUME NEW m, UI(ForgetPicks([u EXCEPT !.model = m])) PROVE Inv'
  <2>1. Keeps(u, [u EXCEPT !.model = m])
    BY <1>1, Names, FieldKeeps DEF Watched
  <2>2. Keeps(u, ForgetPicks([u EXCEPT !.model = m]))
    BY <2>1, ForgetKeeps DEF Keeps
  <2> QED BY <1>3, <2>2, PageStep DEF UI, apart
<1>4. ASSUME NEW c, UI([u EXCEPT !.risky[c] = ~@]) PROVE Inv'
  <2>1. Keeps(u, [u EXCEPT !.risky[c] = ~@])
    BY <1>1, Names DEF Good, Freed, Keeps
  <2> QED BY <1>4, <2>1, PageStep DEF UI, apart
<1>5. CASE UI([u EXCEPT !.target = IF @ = "hub" THEN "detached" ELSE "hub"])
  <2> DEFINE t == IF u.target = "hub" THEN "detached" ELSE "hub"
  <2>1. u' = [u EXCEPT !.target = t] /\ UNCHANGED run
    BY <1>5 DEF UI, apart
  <2> HIDE DEF t
  <2>2. Keeps(u, [u EXCEPT !.target = t])
    BY <1>1, Names, FieldKeeps DEF Watched
  <2> QED BY <2>1, <2>2, PageStep
<1>6. CASE UI([u EXCEPT !.fetching = TRUE])
  <2>1. Keeps(u, [u EXCEPT !.fetching = TRUE])
    BY <1>1, Names, FieldKeeps DEF Watched
  <2> QED BY <1>6, <2>1, PageStep DEF UI, apart
<1> QED BY <1>2, <1>3, <1>4, <1>5, <1>6 DEF Form

(* The model picker. *)
LEMMA PickerStep ==
  ASSUME Inv, OpenPicker \/ ClosePicker \/ \E m \in Models : ApplyPick(m)
  PROVE  Inv'
<1>1. Good(u)
  BY DEF Inv
<1>2. ASSUME NEW f, NEW p,
             NEW w \in {[u EXCEPT !.picker = p, !.front = f], [u EXCEPT !.front = f, !.picker = p]}
      PROVE  Keeps(u, w)
  <2>1. CASE w = [u EXCEPT !.picker = p, !.front = f]
    <3> DEFINE v == [u EXCEPT !.picker = p]
    <3>1. Keeps(u, v)
      BY <1>1, Names, FieldKeeps DEF Watched
    <3>2. w = [v EXCEPT !.front = f]
      BY <2>1
    <3> HIDE DEF v
    <3> QED BY <3>1, <3>2, FrontGood DEF Keeps
  <2>2. CASE w = [u EXCEPT !.front = f, !.picker = p]
    BY <1>1, <2>2, Names, FieldsKeep DEF Watched
  <2> QED BY <1>2, <2>1, <2>2
<1>3. CASE OpenPicker \/ ClosePicker
  BY <1>2, <1>3, PageStep DEF OpenPicker, ClosePicker, UI, apart
<1>4. ASSUME NEW m \in Models, ApplyPick(m) PROVE Inv'
  <2>1. PICK x : /\ u' = [u EXCEPT !.model = m, !.front = Hidden, !.picker = None,
                                   !.picks[u.picker] = x]
                 /\ UNCHANGED run
    BY <1>4 DEF ApplyPick, UI, apart
  <2>3. Keeps(u, u')
    <3> DEFINE k == [u.picks EXCEPT ![u.picker] = x]
               v == [u EXCEPT !.model = m, !.picks = k]
               w == [v EXCEPT !.front = Hidden, !.picker = None]
    <3>1. u' = w
      BY <2>1
    <3> HIDE DEF k
    <3>2. Keeps(u, v)
      BY <1>1, Names, FieldsKeep DEF Watched
    <3> HIDE DEF v
    <3>3. Keeps(v, w)
      BY <3>2, Names, FieldsKeep DEF Watched, Keeps
    <3> QED BY <3>1, <3>2, <3>3 DEF Keeps
  <2> QED BY <2>1, <2>3, PageStep
<1> QED BY <1>3, <1>4

(* The browser for directories. *)
LEMMA BrowserStep == ASSUME Inv, Browse \/ InBrowser PROVE Inv'
<1>1. Good(u)
  BY DEF Inv
<1>2. ASSUME NEW c, UI([u EXCEPT !.busy = TRUE, !.chain[c] = "prefer"]) PROVE Inv'
  <2>1. Keeps(u, [u EXCEPT !.busy = TRUE, !.chain[c] = "prefer"])
    <3> DEFINE k == [u.chain EXCEPT ![c] = "prefer"]
    <3>1. [u EXCEPT !.busy = TRUE, !.chain[c] = "prefer"] = [u EXCEPT !.busy = TRUE, !.chain = k]
      OBVIOUS
    <3> HIDE DEF k
    <3> QED BY <1>1, <3>1, Names, FieldsKeep DEF Watched
  <2> QED BY <1>2, <2>1, PageStep DEF UI, apart
<1>3. ASSUME NEW v \in Navigated(u), UI(v) PROVE Inv'
  BY <1>1, <1>3, NavigatedKeeps, PageStep DEF UI, apart
<1>4. CASE UI(CloseBrowser(u))
  BY <1>1, <1>4, CloseBrowserKeeps, PageStep DEF UI, apart
<1>5. CASE u.path # None /\ UI(SelectCurrent(u))
  BY <1>1, <1>5, SelectCurrentFrees, PageStep DEF UI, apart
<1> QED BY <1>2, <1>3, <1>4, <1>5 DEF Browse, InBrowser

(* Closing the form, and the launcher of windows. *)
LEMMA CloseStep ==
  ASSUME Inv, Close \/ \E opens \in BOOLEAN : LaunchPreset(opens)
  PROVE  Inv'
<1>1. Keeps(u, [u EXCEPT !.hidden = TRUE]) /\ Keeps(u, [u EXCEPT !.launcher = FALSE])
  BY Names, FieldKeeps DEF Inv, Watched
<1> QED BY <1>1, PageStep DEF Close, LaunchPreset, LeaveLauncher, UI, apart

(* Whatever the user does. *)
LEMMA UserStep == ASSUME Inv, User PROVE Inv'
  BY OpenStep, DirectoryStep, FormStep, PickerStep, BrowserStep, CloseStep, LaunchStep,
     ChooseStep, DismissStep, EnterStep
  DEF User

-----------------------------------------------------------------------------
(* Every step keeps the invariant; the windows that wait have no part in    *)
(* it.                                                                      *)
LEMMA InvStep == ASSUME Inv, [Next]_vars PROVE Inv'
<1>1. CASE Waiting
  BY <1>1 DEF Waiting, Poll, Deadline, Inv, Runs
<1>2. CASE UNCHANGED vars
  BY <1>2 DEF vars, Inv, Runs
<1> QED BY <1>1, <1>2, UserStep, AnswerStep, HubStep DEF Next

(* It holds with the settings of an earlier launch and without. *)
LEMMA InvInit == Init => Inv
<1> SUFFICES ASSUME Init PROVE Inv
  OBVIOUS
<1>1. Runs
  BY DEF Init, Runs
<1>2. PICK used \in {{}, Dirs \ Prefixes}, p \in Clis, last \in Real :
        u = [hidden |-> TRUE, provider |-> p, cwd |-> Empty,
             model |-> Empty, risky |-> [c \in Clis |-> FALSE], target |-> "hub",
             picks |-> [c \in Clis |-> None], groups |-> FALSE, fetching |-> FALSE,
             disabled |-> FALSE, exists |-> [d \in Dirs |-> "unknown"],
             checks |-> {}, rows |-> {}, typing |-> FALSE, unread |-> FALSE,
             subs |-> NoSubs, lists |-> {}, cached |-> {}, history |-> used,
             saved |-> IF used = {} THEN Idle
                       ELSE [provider |-> p, cwd |-> last, target |-> "hub"],
             infos |-> {}, front |-> Hidden, picker |-> None,
             launcher |-> FALSE, browsing |-> FALSE,
             busy |-> FALSE, path |-> None, chain |-> [c \in Chains |-> None]]
  BY DEF Init
<1>3. DOMAIN u = Fields /\ u = [x \in Fields |-> u[x]]
  BY <1>2 DEF Fields
<1>4. /\ u.cwd = Empty /\ u.path = None /\ u.disabled = FALSE /\ u.typing = FALSE
      /\ u.exists = [d \in Dirs |-> "unknown"] /\ u.lists = {} /\ u.history \subseteq Dirs
      /\ u.subs = NoSubs /\ u.unread = FALSE
  BY <1>2
<1>5. Remembered(u.saved)
  <2>1. u.saved = Idle \/ u.saved = [provider |-> p, cwd |-> last, target |-> "hub"]
    BY <1>2
  <2> QED BY <2>1 DEF Remembered, Idle, Dirs
<1>6. /\ u.subs \in [parent : Folders \cup {None}, items : Folders \cup {None}]
      /\ u.subs.items = None /\ Follows(u)
  BY <1>4 DEF NoSubs, Follows
<1>7. u.exists \in [Dirs -> {"unknown", "yes", "no"}] /\ \A d \in Real : u.exists[d] # "no"
  BY <1>4 DEF Dirs
<1>8. Good(u) /\ Freed(u)
  BY <1>3, <1>4, <1>5, <1>6, <1>7 DEF Good, Freed
<1> QED BY <1>1, <1>8 DEF Inv

(* The directory in the field is checked or about to be, and what is sent   *)
(* is confirmed: the inductive invariant of the form, for any providers,    *)
(* models and directories.                                                  *)
THEOREM Invariance == Spec => []Inv
<1>1. Inv /\ [Next]_vars => Inv'
  BY InvStep
<1> QED BY <1>1, InvInit, PTL DEF Spec

(* The launch button is not left disabled for a directory that may be       *)
(* launched in, in whatever order checks, answers and launches end          *)
(* (applyCwdInputStatus and the finally clause of spawnSession).            *)
THEOREM ButtonComesBack == Spec => []LaunchNotStuck
<1>1. Inv => LaunchNotStuck
  BY DEF Inv, Freed, LaunchNotStuck
<1> QED BY <1>1, Invariance, PTL

(* The subfolders offered are those of the directory they are shown under:  *)
(* a late answer for another one is dropped.  That is the directory in the  *)
(* field, if maybeUpdateSubdirs has read the value there.                   *)
THEOREM ItemsOfField == Spec => []SubdirsMatch
<1>1. Inv => SubdirsMatch
  BY DEF Inv, Good, Follows, SubdirsMatch
<1> QED BY <1>1, Invariance, PTL

(* No launch with a high risk is sent unconfirmed (spawnSession reads       *)
(* permissions and model again after its awaits).                           *)
THEOREM RiskAsked == Spec => []RiskIsConfirmed
<1>1. Inv => RiskIsConfirmed
  BY DEF Inv, Runs, Read, Sent, Idle, RiskIsConfirmed
<1> QED BY <1>1, Invariance, PTL
=============================================================================

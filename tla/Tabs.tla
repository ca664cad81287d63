-------------------------------- MODULE Tabs --------------------------------
(***************************************************************************)
(* The main area of the page: which mode it is in, which session it shows, *)
(* and which files or git tab fills it (src/web/src/app/settings.ts,       *)
(* files-view.ts, session-list.ts).                                        *)
(*                                                                         *)
(* Two managers keep the area.  The unified tab bar has a mode per session *)
(* (setActiveTab), shown as classes of #display-area; FilesTabManager has  *)
(* the files and git tabs and the one that is active.  They call each      *)
(* other: showing a tab switches the mode, and switching to the files or   *)
(* the git mode opens the active session's tab, under a flag that stops    *)
(* the second round.  Tabs are shared by the sessions of a project and     *)
(* handed from one to the other, and a tab calls the Hub in the name of    *)
(* the session it holds.                                                   *)
(*                                                                         *)
(* The Hub never sends git_root, so a session's tabs open at its working   *)
(* directory; the board button of a conductor opens another directory.     *)
(* Left out: the hidden #main-tab-bar with what only it reaches (review    *)
(* tabs, the + menu), and the tabs' list in localStorage, which nothing    *)
(* reads back.                                                             *)
(***************************************************************************)
EXTENDS Integers, Sequences, SequencesExt

CONSTANTS
  Sessions,    \* session numbers
  Layouts,     \* where sessions may run: functions from session to its
               \* working directory, or NoDir
  Base,        \* directory -> its last component: the project key
  Board,       \* session -> the directory of its board, or NoDir
  Team,        \* the key the board button opens tabs under
  Under,       \* pairs of directories: the first starts with the second
  Widths,      \* widths of the window that occur
  Modes,       \* modes of a session that occur
  MaxTabs      \* bound: files and git tabs open at a time

NoSession == 0
NoDir == "nodir"
NoProject == "noproject"
SessionView == 0
Kinds == {"files", "git"}
Lockable == {"terminal", "chat", "split"}
Global == {"approval", "orchestration"}
Directories == DOMAIN Base

ASSUME TabsAssumption ==
  /\ Sessions \subseteq Nat \ {NoSession} /\ MaxTabs \in Nat
  /\ Layouts \subseteq [Sessions -> Directories \cup {NoDir}]
  /\ Board \in [Sessions -> Directories \cup {NoDir}]
  /\ Under \subseteq Directories \X Directories /\ \A d \in Directories : <<d, d>> \in Under
  /\ Modes \subseteq Lockable \cup Kinds \cup {"history"} /\ "terminal" \in Modes
  /\ Widths \subseteq {"phone", "narrow", "wide"} /\ Widths # {}

VARIABLES
  dir,         \* session -> its working directory
  live,        \* sessions
  active,      \* activeSessionId
  bar,         \* tabs, the active tab, the modes and whether Multi is open
  width,       \* the window
  lock         \* the display mode the user has fixed, or "none"

tabVars == <<dir, live, active, bar, width, lock>>

Project(s) == IF s = NoSession \/ dir[s] = NoDir THEN NoProject ELSE Base[dir[s]]

----------------------------------------------------------------------------
(* The mode of a session                                                   *)

\* normalizeResponsiveTabName.
Responsive(name) ==
  IF name \in {"split", "multi"} /\ width # "wide" THEN "terminal" ELSE name

\* getSessionViewMode, with the default of the viewport.
ViewMode(v, s) ==
  CASE v.mode[s] # "none" -> v.mode[s]
    [] v.mode[s] = "none" /\ lock # "none" -> lock
    [] OTHER -> IF width = "phone" THEN "approval" ELSE "terminal"

\* setActiveTab up to the opening of a tab: the modes that belong to no
\* session leave sessionViewMode alone, and the approval mode takes away
\* every class but that of the orchestration dashboard.
EnterMode(v, a, name) ==
  CASE name = "multi" -> [v EXCEPT !.multi = TRUE]
    [] name = "approval" ->
         [v EXCEPT !.multi = FALSE,
                   !.shows = (@ \cap {"orchestration"}) \cup {"approval"}]
    [] name = "orchestration" -> [v EXCEPT !.multi = FALSE, !.shows = {name}]
    [] OTHER -> [v EXCEPT !.multi = FALSE, !.shows = {name}, !.mode[a] = name]

----------------------------------------------------------------------------
(* Files and git tabs                                                      *)

\* A tab is known by its place in the list, its id in the code.
\* isVisibleInCurrentSession.
IsVisible(tab, a) ==
  \/ tab.session = a
  \/ tab.project # NoProject /\ tab.project = Project(a)

\* setActive: a tab the current session may not see becomes the session view.
Focus(v, a, i) ==
  [v EXCEPT !.focus = IF IsVisible(v.tabs[i], a) THEN i ELSE SessionView]

\* switchToSessionView.
ToSession(v) == [v EXCEPT !.focus = SessionView]

\* The look-up of openFilesTab and openGitTab: a project's tab for the
\* directory, or without a project the session's own.
Matches(tab, kind, s, key, root) ==
  /\ tab.kind = kind /\ tab.root = root
  /\ IF key # NoProject THEN tab.project = key ELSE tab.session = s

Existing(tabs, kind, s, key, root) ==
  SelectInSeq(tabs, LAMBDA t : Matches(t, kind, s, key, root))

\* Mutant: the tab stays with the session that opened it.
OpenedKeepsSession(v, kind, s, key, root) ==
  LET old == Existing(v.tabs, kind, s, key, root)
      new == [kind |-> kind, root |-> root, project |-> key, session |-> s]
  IN IF old # 0 THEN [v |-> v, at |-> old]
     ELSE [v |-> [v EXCEPT !.tabs = Append(@, new)], at |-> Len(v.tabs) + 1]

\* openFilesTab and openGitTab before setActive: reuse the tab for this
\* session, or add one.
Opened(v, kind, s, key, root) ==
  LET old == Existing(v.tabs, kind, s, key, root)
      new == [kind |-> kind, root |-> root, project |-> key, session |-> s]
  IN IF old # 0 THEN [v |-> [v EXCEPT !.tabs[old].session = s], at |-> old]
     ELSE [v |-> [v EXCEPT !.tabs = Append(@, new)], at |-> Len(v.tabs) + 1]

\* setActiveTab of the active session a, in full.  handleLazyTabOpen opens
\* a's own tab; the setActiveTab that its setActive makes finds the flag set.
SetActiveTab(v, a, name) ==
  LET entered == EnterMode(v, a, name)
      own == Opened(entered, name, a, Project(a), dir[a])
  IN IF name \in Kinds /\ dir[a] # NoDir
     THEN EnterMode(Focus(own.v, a, own.at), a, name)
     ELSE entered

\* openFilesTab and openGitTab called from outside setActiveTab: a tab that
\* comes to the front takes the mode with it.
Open(v, a, kind, s, key, root) ==
  LET o == Opened(v, kind, s, key, root)
      shown == Focus(o.v, a, o.at)
  IN IF a # NoSession /\ shown.focus # SessionView THEN SetActiveTab(shown, a, kind) ELSE shown

\* closeMainTab.
CloseMainTab(v, i) ==
  [v EXCEPT !.tabs = RemoveAt(@, i),
            !.focus = IF @ = i THEN SessionView ELSE IF @ > i THEN @ - 1 ELSE @]

\* The loop of onSessionRemoved at position k of the list.  A files tab no
\* other session can take is closed, which moves the rest of the list under
\* the loop: the tab that follows is passed over.
HandOver(v, s, k) ==
  LET mine == k <= Len(v.tabs) /\ v.tabs[k].session = s
      heirs == {h \in live \ {s} : dir[h] # NoDir /\ <<dir[h], v.tabs[k].root>> \in Under}
      heir == CHOOSE h \in heirs : \A g \in heirs : h <= g
  IN CASE ~mine -> v
       [] mine /\ heirs # {} -> [v EXCEPT !.tabs[k].session = heir]
       [] mine /\ heirs = {} /\ v.tabs[k].kind = "git" ->
            [v EXCEPT !.tabs[k].session = NoSession]
       [] mine /\ heirs = {} /\ v.tabs[k].kind = "files" -> CloseMainTab(v, k)

OnSessionRemoved(v, s) ==
  LET after[k \in 0 .. Len(v.tabs)] ==
        IF k = 0 THEN v ELSE HandOver(after[k - 1], s, k)
  IN after[Len(v.tabs)]

----------------------------------------------------------------------------
(* Sessions                                                                *)

\* Mutant: the session's mode is not restored.
ActivatedInPlace(v, s) == IF v.multi THEN v ELSE ToSession(v)

\* The part of activateSession for this area: while Multi is open only the
\* active session changes; otherwise the session view first, then the
\* session's own mode.
Activated(v, s) ==
  IF v.multi THEN v ELSE SetActiveTab(ToSession(v), s, Responsive(ViewMode(v, s)))

Fits(v) == Len(v.tabs) <= MaxTabs
Becomes(v) == Fits(v) /\ bar' = v

Activate(s) ==
  /\ s \in live
  /\ active' = s /\ Becomes(Activated(bar, s))
  /\ UNCHANGED <<dir, live, width, lock>>

\* snapshot, session_start and session_update.  A session the user waits
\* for is activated, and when none is active render activates the first.
Register(s) ==
  /\ s \notin live
  /\ live' = live \cup {s}
  /\ \E a \in {active, s} \cup (IF active = NoSession THEN live ELSE {}) :
       /\ active' = a
       /\ IF a = active THEN UNCHANGED bar ELSE Becomes(Activated(bar, a))
  /\ UNCHANGED <<dir, width, lock>>

\* The socket closes: the sessions are forgotten, the tabs are not.
Disconnect ==
  /\ live' = {} /\ active' = NoSession
  /\ UNCHANGED <<dir, bar, width, lock>>

\* removeLocalSession.  With the active session gone a neighbour follows;
\* otherwise a waiting approval may take the page to its session.
RemoveLocalSession(s) ==
  LET left == [OnSessionRemoved(bar, s) EXCEPT !.mode[s] = "none"]
  IN /\ s \in live
     /\ live' = live \ {s}
     /\ IF live' = {} \/ (active # s /\ active # NoSession)
        THEN \E a \in {IF active = s THEN NoSession ELSE active} \cup live' :
               /\ active' = a
               /\ Becomes(IF a \in {active, NoSession} THEN left ELSE Activated(left, a))
        ELSE \E a \in live' : active' = a /\ Becomes(Activated(left, a))
     /\ UNCHANGED <<dir, width, lock>>

\* Back to the home screen of a phone.
Home ==
  /\ width = "phone" /\ active # NoSession
  /\ active' = NoSession
  /\ UNCHANGED <<dir, live, bar, width, lock>>

\* A pane of the Multi view gets the focus.
FocusPane(s) ==
  /\ bar.multi /\ s \in live
  /\ active' = s
  /\ UNCHANGED <<dir, live, bar, width, lock>>

----------------------------------------------------------------------------
(* The user                                                                *)

\* A button of the unified tab bar.  Opening Multi restores the focus to a
\* pane, whose session becomes the active one.
ClickTab(name) ==
  LET n == Responsive(name)
  IN /\ active # NoSession \/ n \in Global \cup {"multi"}
     /\ Becomes(SetActiveTab(bar, active, n))
     /\ \E a \in IF n = "multi" THEN {active} \cup live ELSE {active} : active' = a
     /\ UNCHANGED <<dir, live, width, lock>>

\* The context menu of a card, the shortcuts and the project segment of the
\* status bar (for the active session), and a path in a terminal.
OpenTab(s, kind) ==
  /\ s \in live /\ dir[s] # NoDir
  /\ Becomes(Open(bar, active, kind, s, Project(s), dir[s]))
  /\ UNCHANGED <<dir, live, active, width, lock>>

\* The branch badge of a card activates its session first.
OpenBranch(s) ==
  /\ s \in live /\ dir[s] # NoDir
  /\ active' = s
  /\ Becomes(Open(Activated(bar, s), s, "git", s, Project(s), dir[s]))
  /\ UNCHANGED <<dir, live, width, lock>>

\* The board button of a conductor's card.
OpenBoard(s) ==
  /\ s \in live /\ Board[s] # NoDir
  /\ Becomes(Open(bar, active, "files", s, Team, Board[s]))
  /\ UNCHANGED <<dir, live, active, width, lock>>

\* A session is opened from the orchestration dashboard.
OpenFromDashboard(s) ==
  /\ s \in live
  /\ active' = s
  /\ Becomes(EnterMode(Activated(bar, s), s, "terminal"))
  /\ UNCHANGED <<dir, live, width, lock>>

\* A hit of the chat search activates its session, fetches its history and
\* then asks for the chat mode, which is only noted if the user has gone on
\* to another session meanwhile.
HistoryFetched(s) ==
  /\ "chat" \in Modes /\ s \in live
  /\ bar' = IF s = active THEN EnterMode(bar, s, "chat") ELSE [bar EXCEPT !.mode[s] = "chat"]
  /\ UNCHANGED <<dir, live, active, width, lock>>

\* What the area shows: a tab, when the mode is files or git.
Displayed ==
  IF ~bar.multi /\ bar.shows \cap Kinds # {} THEN bar.focus ELSE SessionView

\* The close button in a files tab's toolbar.
CloseFilesTab ==
  /\ Displayed # SessionView /\ bar.tabs[Displayed].kind = "files"
  /\ bar' = CloseMainTab(bar, Displayed)
  /\ UNCHANGED <<dir, live, active, width, lock>>

\* The window's width; a narrow one has no room for Multi and split.
Resize(w) ==
  /\ w # width
  /\ width' = w
  /\ bar' = IF w # "wide" /\ active # NoSession /\ (bar.multi \/ "split" \in bar.shows)
            THEN EnterMode(bar, active, "terminal") ELSE bar
  /\ UNCHANGED <<dir, live, active, lock>>

SetLock(l) ==
  /\ lock' = l
  /\ UNCHANGED <<dir, live, active, bar, width>>

----------------------------------------------------------------------------
InitTabs ==
  /\ dir \in Layouts
  /\ live = {} /\ active = NoSession
  /\ bar = [tabs |-> <<>>, focus |-> SessionView, shows |-> {"terminal"},
            multi |-> FALSE, mode |-> [s \in Sessions |-> "none"]]
  /\ width \in Widths
  /\ lock = "none"

NextTabs ==
  \/ \E s \in Sessions :
       \/ Activate(s) \/ Register(s) \/ RemoveLocalSession(s) \/ FocusPane(s)
       \/ OpenBranch(s) \/ OpenBoard(s) \/ OpenFromDashboard(s) \/ HistoryFetched(s)
       \/ \E kind \in Kinds : OpenTab(s, kind)
  \/ Disconnect \/ Home \/ CloseFilesTab
  \/ \E name \in Modes \cup Global \cup {"multi"} : ClickTab(name)
  \/ \E w \in Widths : Resize(w)
  \/ \E l \in (Lockable \cap Modes) \cup {"none"} : SetLock(l)

SpecTabs == InitTabs /\ [][NextTabs]_tabVars

----------------------------------------------------------------------------
(* Properties                                                              *)

\* The tab on screen calls the Hub for the session on screen: what is read,
\* saved or committed in it belongs to the session the user looks at.  A
\* session whose directory the Hub was not told opens no tab, and leaves the
\* one before it on screen.
PaneActsForActive ==
  Displayed # SessionView /\ active # NoSession /\ dir[active] # NoDir =>
    /\ bar.tabs[Displayed].session = active
    /\ bar.tabs[Displayed].root = dir[active]

\* The area is in the active session's own mode, whatever other sessions
\* were switched to meanwhile, or in one that belongs to no session.
ModeIsActives ==
  ~bar.multi /\ active # NoSession =>
    bar.shows \cap Global # {} \/ bar.shows = {bar.mode[active]}

=============================================================================

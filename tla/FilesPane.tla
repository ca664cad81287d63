------------------------------ MODULE FilesPane ------------------------------
(***************************************************************************)
(* One Files tab (files-view.ts): the tree of a root with its selection,   *)
(* drag and drop, creation and renaming of files, and the preview with its *)
(* edit mode, whose save names the modification time of the text it is     *)
(* based on.  Every call to the Hub is a request, served and answered in   *)
(* steps of their own and in any order: the page never cancels one and     *)
(* never asks which of two answers is the newer.                           *)
(*                                                                         *)
(* A file is a pair of a directory and a name; of its contents the model   *)
(* keeps the modification time, in whole seconds as files_save.go compares *)
(* it.  Folders are fixed and only files are dragged.  The Hub looks at a  *)
(* file and writes it in two steps, with no lock; the other calls end in   *)
(* one call of the system that replaces nothing, and a move of several     *)
(* files, which goes back when one fails, is one step here.                *)
(***************************************************************************)
EXTENDS Integers, FiniteSets

CONSTANTS Dirs, Root,      \* folders, and the filesRoot of the tab
          Names, Media,    \* file names, and those isMediaPath accepts
          Present,         \* the files there at the start
          MaxEvent,        \* acts of the user and of other programs
          MaxSecond        \* seconds the clock may pass

ASSUME FilesAssumption ==
  Root \in Dirs /\ Media \subseteq Names /\ Present \subseteq Dirs \X Names /\ MaxEvent \in Nat /\ MaxSecond \in Nat

Paths == Dirs \X Names
TreeCost == 2
NoPath == <<"none", "none">>
None == -1                 \* no modification time: no such file, or null
Seconds == 0 .. MaxSecond

VARIABLES
  disk, now,               \* modification time of every file, the clock
  req,                     \* requests on their way, answers on their way back
  pv,                      \* the preview
  sel, drag,               \* selectedAbsPaths and draggingSrcs
  listing, area,           \* currentTree, and what the tree area shows
  events,                  \* bound
  told,                    \* history: the files, each as of a time, that were shown
  astray                   \* history: as told, but under the name of another file

tree == <<sel, drag, listing, area>>
seen == <<told, astray>>
vars == <<disk, now, req, pv, tree, events, seen>>

Blank == [id |-> 0, op |-> "list", p |-> NoPath, q |-> NoPath, srcs |-> {},
          base |-> None, dialog |-> FALSE, st |-> "sent", at |-> None, list |-> {}]
FreshId(R) == CHOOSE k \in 1 .. Cardinality(R) + 1 : \A r \in R : r.id # k
Send(R, r) == R \cup {[r EXCEPT !.id = FreshId(R)]}
Costs(n) == events + n <= MaxEvent /\ events' = events + n

Closed == [path |-> NoPath, show |-> "empty", editBtn |-> FALSE, edit |-> FALSE,
           base |-> None, bar |-> FALSE, bars |-> 0, text |-> FALSE,
           saving |-> FALSE, conflict |-> None]

Editing(p) ==
  [Closed EXCEPT !.path = p, !.show = "edit", !.edit = TRUE, !.base = 0, !.bar = TRUE,
                 !.bars = 1, !.text = TRUE]

(* A checkout, all of it written in one second; the tab has just been       *)
(* opened, or the user is editing one of the files.                         *)
Init ==
  /\ disk = [p \in Paths |-> IF p \in Present THEN 0 ELSE None] /\ now = 0
  /\ pv \in {Closed} \cup {Editing(p) : p \in {x \in Present : x[2] \notin Media}}
  /\ told = (IF pv.edit THEN {<<pv.path, 0>>} ELSE {}) /\ astray = {}
  /\ sel = {} /\ drag = {} /\ events = 0
  /\ IF pv.edit THEN listing = Present /\ area = "shown" /\ req = {}
     ELSE listing = {} /\ area = "loading" /\ req = Send({}, Blank)

-----------------------------------------------------------------------------
(* The preview.  v is its record, R the requests; a handler that loads a    *)
(* file returns both.                                                       *)

ExitKeepsButton(v) ==      \* mutant: the edit button stays
  [v EXCEPT !.edit = FALSE, !.base = None, !.text = FALSE, !.saving = FALSE,
            !.conflict = None, !.bar = FALSE, !.bars = IF v.bar THEN @ - 1 ELSE @]

ExitEditMode(v) ==
  [v EXCEPT !.edit = FALSE, !.base = None, !.text = FALSE, !.saving = FALSE,
            !.conflict = None, !.bar = FALSE, !.bars = IF v.bar THEN @ - 1 ELSE @,
            !.editBtn = FALSE]

LoadFile(v, R, p) ==
  LET w == IF v.edit THEN ExitEditMode(v) ELSE v
  IN  IF p[2] \in Media
      THEN [v |-> [w EXCEPT !.show = "media"], R |-> R]
      ELSE [v |-> [w EXCEPT !.show = "loading"],
            R |-> Send(R, [Blank EXCEPT !.op = "load", !.p = p])]

(* _filesPreview.loadFile: another file becomes the one of the preview.     *)
OpenFile(v, R, p) == LoadFile([v EXCEPT !.path = p, !.editBtn = FALSE], R, p)

Preview(x) == pv' = x.v /\ req' = x.R

Reload ==
  /\ pv.path # NoPath /\ ~pv.edit
  /\ Preview(LoadFile(pv, req, pv.path)) /\ UNCHANGED <<disk, now, tree, seen>>

Close ==
  /\ pv.path # NoPath
  /\ pv' = [(IF pv.edit THEN ExitEditMode(pv) ELSE pv)
              EXCEPT !.path = NoPath, !.show = "empty", !.editBtn = FALSE]
  /\ UNCHANGED <<disk, now, req, tree, seen>>

EnterEditMode ==
  /\ pv.editBtn /\ ~pv.edit /\ pv.path # NoPath
  /\ pv' = [pv EXCEPT !.edit = TRUE, !.show = "edit", !.editBtn = FALSE, !.bar = TRUE,
                      !.bars = @ + 1, !.text = TRUE, !.saving = FALSE]
  /\ UNCHANGED <<disk, now, req, tree, seen>>

(* Discard, and "read the latest" after a conflict.                         *)
Discard ==
  /\ pv.bar
  /\ Preview(LoadFile(ExitEditMode(pv), req, pv.path)) /\ UNCHANGED <<disk, now, tree, seen>>

DoSave(base) ==
  IF pv.path = NoPath \/ ~pv.text
  THEN UNCHANGED <<pv, req>>
  ELSE /\ pv' = [pv EXCEPT !.saving = TRUE, !.conflict = None]
       /\ req' = Send(req, [Blank EXCEPT !.op = "save", !.p = pv.path, !.base = base])

Save ==
  pv.bar /\ ~pv.saving /\ DoSave(pv.base) /\ UNCHANGED <<disk, now, tree, seen>>

OverwriteUnchecked ==      \* mutant: the forced save names no time
  pv.conflict # None /\ DoSave(None) /\ UNCHANGED <<disk, now, tree, seen>>

Overwrite ==
  pv.conflict # None /\ DoSave(pv.conflict) /\ UNCHANGED <<disk, now, tree, seen>>

Saved(r, R) ==
  CASE r.st = "ok"       -> LoadFile(ExitEditMode(pv), R, pv.path)
    [] r.st = "conflict" ->
         [v |-> IF pv.bar THEN [pv EXCEPT !.conflict = r.at, !.saving = FALSE] ELSE pv, R |-> R]
    [] OTHER             -> [v |-> IF pv.bar THEN [pv EXCEPT !.saving = FALSE] ELSE pv, R |-> R]

LoadedOnlyGood(r, R, canEdit) ==     \* mutant: an error leaves "Loading"
  [v |-> IF r.st = "ok"
         THEN [pv EXCEPT !.show = "text", !.editBtn = canEdit, !.base = r.at]
         ELSE pv,
   R |-> R]

(* The answer is shown whatever the preview has come to be about; a         *)
(* truncated or read-only file cannot be edited.                            *)
Loaded(r, R, canEdit) ==
  [v |-> IF r.st = "ok"
         THEN [pv EXCEPT !.show = "text", !.editBtn = canEdit, !.base = r.at]
         ELSE [pv EXCEPT !.show = "error"],
   R |-> R]

-----------------------------------------------------------------------------
(* The tree.                                                                *)

LoadTree(R, then) == Send(R, [Blank EXCEPT !.op = "list", !.p = then])

ReloadTree ==
  /\ req' = LoadTree(req, NoPath) /\ area' = "loading"
  /\ UNCHANGED <<disk, now, pv, sel, drag, listing, seen>>

Refilter ==                \* typing in the filter draws currentTree again
  /\ listing # {} /\ area' = "shown"
  /\ UNCHANGED <<disk, now, req, pv, sel, drag, listing, seen>>

(* The rows renderTree draws, with their listeners; folding and the filter  *)
(* hide some of them.                                                       *)
OnRow(p) == area = "shown" /\ p \in listing

Click(p) ==
  /\ OnRow(p)
  /\ sel' = {p} /\ Preview(OpenFile(pv, req, p))
  /\ UNCHANGED <<disk, now, drag, listing, area, seen>>

CtrlClick(p) ==
  /\ OnRow(p)
  /\ sel' = IF p \in sel THEN sel \ {p} ELSE sel \cup {p}
  /\ UNCHANGED <<disk, now, req, pv, drag, listing, area, seen>>

(* The rows of a range: which ones lie between two is a matter of layout.   *)
ShiftClick(p) ==
  /\ OnRow(p)
  /\ \E range \in SUBSET listing : p \in range /\ sel' = sel \cup range
  /\ UNCHANGED <<disk, now, req, pv, drag, listing, area, seen>>

OpenFilesTabAtFile(p) ==   \* from a link in a chat, whether listed or not
  /\ sel' = {p} /\ Preview(OpenFile(pv, req, p))
  /\ UNCHANGED <<disk, now, drag, listing, area, seen>>

FollowLink(p) ==           \* a relative link of a previewed Markdown file
  /\ pv.show = "text" /\ Preview(OpenFile(pv, req, p))
  /\ UNCHANGED <<disk, now, tree, seen>>

DragStart(p) ==
  /\ OnRow(p)
  /\ drag' = IF p \in sel THEN sel ELSE {p}
  /\ UNCHANGED <<disk, now, req, pv, sel, listing, area, seen>>

MoveTo(srcs, d, dialog) ==
  req' = Send(req, [Blank EXCEPT !.op = "move", !.srcs = srcs, !.q = <<d, "none">>,
                                 !.dialog = dialog])

Drop(d) ==
  /\ drag # {} /\ ~\E p \in drag : drag = {p} /\ p[1] = d
  /\ MoveTo(drag, d, FALSE) /\ drag' = {}
  /\ UNCHANGED <<disk, now, pv, sel, listing, area, seen>>

DragEnd ==
  drag # {} /\ drag' = {} /\ UNCHANGED <<disk, now, req, pv, sel, listing, area, seen>>

MoveDialog(d) ==           \* modal; it offers the folders under the root
  /\ sel # {} /\ listing # {} /\ d # Root
  /\ MoveTo(sel, d, TRUE) /\ UNCHANGED <<disk, now, pv, tree, seen>>

NewFile(f) ==
  /\ f \notin Media
  /\ req' = Send(req, [Blank EXCEPT !.op = "create", !.p = <<Root, f>>])
  /\ UNCHANGED <<disk, now, pv, tree, seen>>

Rename(p, f) ==            \* the menu of a path: renameFileViaApi
  /\ p \in (listing \cup {pv.path}) \ {NoPath} /\ f # p[2]
  /\ req' = Send(req, [Blank EXCEPT !.op = "rename", !.p = p, !.q = <<p[1], f>>])
  /\ UNCHANGED <<disk, now, pv, tree, seen>>

DeleteDir(d) ==            \* deleteDirViaApi
  /\ d # Root
  /\ req' = Send(req, [Blank EXCEPT !.op = "delete", !.q = <<d, "none">>])
  /\ UNCHANGED <<disk, now, pv, tree, seen>>

Moved(S, srcs, new) ==     \* the selection follows the files that moved
  (S \ srcs) \cup {new[p] : p \in S \cap srcs}

NewPlace(r) == [p \in r.srcs |-> <<r.q[1], p[2]>>]

Listed(r, R) ==
  /\ listing' = IF r.st = "ok" THEN r.list ELSE listing
  /\ area' = IF r.st = "ok" THEN "shown" ELSE "error"
  /\ IF r.p = NoPath
     THEN UNCHANGED <<sel, pv>> /\ req' = R
     ELSE sel' = {r.p} /\ Preview(OpenFile(pv, R, r.p))
  /\ UNCHANGED <<drag, seen>>

Relist(R, then) == req' = LoadTree(R, then) /\ area' = "loading"

(* moveFiles and what its two callers do with its result; a request that    *)
(* throws ends in an alert.                                                 *)
MoveAnswered(r, R) ==
  /\ IF r.st = "lost" THEN req' = R /\ UNCHANGED <<area, sel>>
     ELSE /\ Relist(R, NoPath)
          /\ sel' = IF r.dialog THEN {}
                    ELSE IF r.st = "ok" THEN Moved(sel, r.srcs, NewPlace(r)) ELSE sel
  /\ UNCHANGED <<pv, drag, listing, seen>>

CreateAnswered(r, R) ==
  /\ IF r.st = "ok" THEN Relist(R, r.p) ELSE req' = R /\ UNCHANGED area
  /\ UNCHANGED <<pv, sel, drag, listing, seen>>

(* The event many-ai-cli:files-changed.                                     *)
FilesChanged(r, R) ==
  /\ IF r.st # "ok" THEN req' = R /\ UNCHANGED <<area, sel>>
     ELSE /\ Relist(R, NoPath)
          /\ sel' = IF r.op = "rename" THEN Moved(sel, {r.p}, [p \in {r.p} |-> r.q]) ELSE sel
  /\ UNCHANGED <<pv, drag, listing, seen>>

(* What an answer shows the user, under the path that is open by now: the   *)
(* text of a file, or that it is newer.                                     *)
Shows(r) == (r.op = "load" /\ r.st = "ok") \/ (r.st = "conflict" /\ pv.bar)

Told(r) ==
  /\ told' = IF Shows(r) THEN told \cup {<<r.p, r.at>>} ELSE told
  /\ astray' = IF Shows(r) /\ r.p # pv.path THEN astray \cup {<<pv.path, r.at>>} ELSE astray

Answer(r) ==
  LET R == req \ {r} IN
  /\ r.st \notin {"sent", "checked"}
  /\ CASE r.op = "load" ->
            /\ \E canEdit \in BOOLEAN : Preview(Loaded(r, R, canEdit))
            /\ Told(r) /\ UNCHANGED tree
       [] r.op = "save" -> Preview(Saved(r, R)) /\ Told(r) /\ UNCHANGED tree
       [] r.op = "list" -> Listed(r, R)
       [] r.op = "move" -> MoveAnswered(r, R)
       [] r.op = "create" -> CreateAnswered(r, R)
       [] OTHER -> FilesChanged(r, R)
  /\ UNCHANGED <<disk, now, events>>

-----------------------------------------------------------------------------
(* The Hub, and everyone else who writes the files.                         *)

Exists(p) == p \in Paths /\ disk[p] # None

Refuses(r) ==
  CASE r.op \in {"list", "delete"} -> FALSE
    [] r.op = "load" -> ~Exists(r.p)
    [] r.op = "move" -> \E p \in r.srcs : ~Exists(p) \/ NewPlace(r)[p] = p \/ Exists(NewPlace(r)[p])
    [] r.op = "create" -> Exists(r.p)
    [] r.op = "rename" -> ~Exists(r.p) \/ Exists(r.q)

(* What the request leaves on the disk.                                     *)
Effect(r) ==
  CASE r.op = "create" -> [disk EXCEPT ![r.p] = now]
    [] r.op = "rename" -> [disk EXCEPT ![r.p] = None, ![r.q] = disk[r.p]]
    [] r.op = "delete" -> [p \in Paths |-> IF p[1] = r.q[1] THEN None ELSE disk[p]]
    [] r.op = "move" ->
         [p \in Paths |->
            IF p \in r.srcs THEN None
            ELSE IF \E s \in r.srcs : NewPlace(r)[s] = p
                 THEN disk[CHOOSE s \in r.srcs : NewPlace(r)[s] = p]
                 ELSE disk[p]]
    [] OTHER -> disk

Reply(r) ==
  IF Refuses(r) THEN [r EXCEPT !.st = "refused"]
  ELSE CASE r.op = "load" -> [r EXCEPT !.st = "ok", !.at = disk[r.p]]
         [] r.op = "list" -> [r EXCEPT !.st = "ok", !.list = {p \in Paths : Exists(p)}]
         [] OTHER -> [r EXCEPT !.st = "ok"]

Instead(r, q) == req' = (req \ {r}) \cup {q}

Serve(r) ==
  /\ r.st = "sent" /\ r.op # "save"
  /\ \/ Instead(r, Reply(r)) /\ disk' = IF Refuses(r) THEN disk ELSE Effect(r)
     \/ /\ Instead(r, [r EXCEPT !.st = "lost"])     \* the connection fails, before or after
        /\ disk' \in {disk} \cup (IF Refuses(r) THEN {} ELSE {Effect(r)})
  /\ UNCHANGED <<now, pv, tree, events, seen>>

(* A save: the file must be there, and no newer than the page says.         *)
Check(r) ==
  /\ r.op = "save" /\ r.st = "sent"
  /\ Instead(r, IF ~Exists(r.p) THEN [r EXCEPT !.st = "refused"]
                ELSE IF r.base \notin {None, disk[r.p]}
                     THEN [r EXCEPT !.st = "conflict", !.at = disk[r.p]]
                     ELSE [r EXCEPT !.st = "checked", !.at = disk[r.p]])
  /\ UNCHANGED <<disk, now, pv, tree, events, seen>>

(* The clock matters when a file is written: in the second of the last      *)
(* writing or in a later one.                                               *)
Clock == now' \in {now, now + 1} \cap Seconds

(* It is then written, whatever is there by now, and made if nothing is.    *)
Write(r) ==
  /\ r.st = "checked" /\ Clock /\ disk' = [disk EXCEPT ![r.p] = now']
  /\ \E st \in {"ok", "lost"} : Instead(r, [r EXCEPT !.st = st])
  /\ UNCHANGED <<pv, tree, events, seen>>

NotArrived(r) ==
  /\ r.op = "save" /\ r.st = "sent" /\ Instead(r, [r EXCEPT !.st = "lost"])
  /\ UNCHANGED <<disk, now, pv, tree, events, seen>>

OtherWrites(p) ==
  Clock /\ disk' = [disk EXCEPT ![p] = now'] /\ UNCHANGED <<req, pv, tree, seen>>

OtherRemoves(p) ==
  Exists(p) /\ disk' = [disk EXCEPT ![p] = None] /\ UNCHANGED <<now, req, pv, tree, seen>>

Previewing ==
  \/ Reload \/ Close \/ EnterEditMode \/ Discard \/ Save \/ Overwrite
  \/ \E p \in Paths : OpenFilesTabAtFile(p) \/ FollowLink(p) \/ OtherWrites(p)

Arranging ==
  \/ ReloadTree \/ Refilter \/ DragEnd
  \/ \E p \in Paths : \/ Click(p) \/ CtrlClick(p) \/ ShiftClick(p) \/ DragStart(p)
                      \/ OtherRemoves(p) \/ \E f \in Names : Rename(p, f)
  \/ \E d \in Dirs : Drop(d) \/ MoveDialog(d) \/ DeleteDir(d)
  \/ \E f \in Names : NewFile(f)

(* MaxEvent counts an act on the tree for TreeCost.                         *)
Next ==
  \/ Costs(1) /\ Previewing
  \/ Costs(TreeCost) /\ Arranging
  \/ \E r \in req : Serve(r) \/ Check(r) \/ Write(r) \/ NotArrived(r) \/ Answer(r)

Spec == Init /\ [][Next]_vars

(* Every request is answered, one way or the other.                         *)
FairSpec == Spec /\ \A k \in 1 .. MaxEvent + 1 : []<>(\A r \in req : r.id # k)

-----------------------------------------------------------------------------

(* An answer that comes late turns the edit button on again, also in edit   *)
(* mode: however such answers fall, the preview has one edit bar in edit    *)
(* mode and none outside it.                                                *)
OneBar == pv.bars = IF pv.edit THEN 1 ELSE 0

(* The button opens the text of a load, with its time: never the empty text *)
(* without a time that exitEditMode leaves, whose save would not be checked *)
(* and would empty the file.                                                *)
EditHasBase == (pv.editBtn \/ pv.edit) => pv.base # None

(* Edit mode, its bar and its base go together, whatever answers come late. *)
EditModeSound == OneBar /\ EditHasBase

(* A save, forced or not, replaces a file only as of a second that the user *)
(* was shown of that very file: what another program wrote meanwhile is met *)
(* by another conflict, however often that happens.  Two windows are left   *)
(* open: what is written after the Hub compared the times goes unseen, and  *)
(* an answer about another file that came late, under this one's name, gave *)
(* the page that file's time.                                               *)
SavesAreInformed ==
  [][\A r \in req \ req' :
       r.st = "checked" =>
         \/ <<r.p, disk[r.p]>> \in told
         \/ disk[r.p] # r.at
         \/ <<r.p, r.at>> \in astray]_vars

(* Neither pane keeps saying that it loads.                                 *)
LoadingEnds ==
  (pv.show = "loading" \/ area = "loading") ~> (pv.show # "loading" /\ area # "loading")

=============================================================================

---------------------------- MODULE MainAreaProofs ----------------------------
(***************************************************************************)
(* Proofs about the main area of the page: FilesPane, the files tab, and   *)
(* Tabs, the bar that decides which tab of which session fills the area.   *)
(*                                                                         *)
(* FilesPane, for any files and any number of events: edit mode is never   *)
(* left in a state between, and a save replaces only what the user was     *)
(* shown of that file, but for the two windows its definition names.  The  *)
(* preview and the requests are looked at apart.  Both depend on what the  *)
(* user was shown, "seen", and that only grows.                            *)
(*                                                                         *)
(* Tabs, for any sessions, directories and number of tabs: the tab on      *)
(* screen acts for the session on screen, in that session's mode.  The     *)
(* functions that build the next bar are looked at one by one, each either *)
(* carrying the claim over or, when it enters a mode, establishing it.     *)
(***************************************************************************)
EXTENDS FilesPane, Tabs, TLAPS, FiniteSetTheorems

Fields == {"id", "op", "p", "q", "srcs", "base", "dialog", "st", "at", "list"}
PaneFields == {"path", "show", "editBtn", "edit", "base", "bar", "bars", "text",
               "saving", "conflict"}

(* The time of a file was shown, or another file was shown in its place.    *)
Known(k, p, x) == <<p, x>> \in k[1] \cup k[2]

Within(k, l) == k[1] \subseteq l[1] /\ k[2] \subseteq l[2]

(* Edit mode and its bar go together; what can be edited has a base, known  *)
(* for the path that is open, and so is the time of a conflict.             *)
View(v, k) ==
  /\ DOMAIN v = PaneFields
  /\ v.bar = v.edit /\ v.edit \in BOOLEAN /\ v.editBtn \in BOOLEAN
  /\ v.bars = IF v.edit = TRUE THEN 1 ELSE 0
  /\ (v.editBtn = TRUE \/ v.edit = TRUE) => v.base # None /\ Known(k, v.path, v.base)
  /\ v.conflict # None => v.edit = TRUE /\ Known(k, v.path, v.conflict)

(* What an answer brings has a time.  A save names one that is known, and   *)
(* a save that was checked names the time the Hub found.                    *)
Sane(r, k) ==
  /\ DOMAIN r = Fields
  /\ r.op = "load" /\ r.st = "ok" => r.at # None
  /\ r.st = "conflict" => r.op = "save" /\ r.at # None
  /\ r.op = "save" => r.base # None /\ Known(k, r.p, r.base)
  /\ r.st = "checked" => r.op = "save" /\ r.at = r.base

(* The requests under way, each with a number of its own.                   *)
Good(R, t) ==
  /\ IsFiniteSet(R)
  /\ \A r \in R : Sane(r, t)
  /\ \A x, y \in R : x.id = y.id => x = y

Inv == View(pv, seen) /\ Good(req, seen)

-----------------------------------------------------------------------------
(* The requests.                                                            *)

(* There is a free number: there are fewer requests than numbers. *)
LEMMA FreshIdFree ==
  ASSUME NEW R, IsFiniteSet(R)
  PROVE  \A r \in R : r.id # FreshId(R)
<1> DEFINE n == Cardinality(R)
           taken == {r.id : r \in R}
           tag == [r \in R |-> r.id]
<1>1. n \in Nat  BY FS_CardinalityType
<1>2. IsFiniteSet(taken) /\ Cardinality(taken) <= n
  <2>1. tag \in Surjection(R, taken)  BY DEF Surjection
  <2> HIDE DEF tag, taken
  <2>2. QED  BY <2>1, FS_Surjection
<1>3. IsFiniteSet(1 .. n + 1) /\ Cardinality(1 .. n + 1) = n + 1
  BY <1>1, FS_Interval
<1>4. ~ ((1 .. n + 1) \subseteq taken)
  <2> SUFFICES ASSUME (1 .. n + 1) \subseteq taken PROVE FALSE  OBVIOUS
  <2>1. Cardinality(taken) \in Nat  BY <1>2, FS_CardinalityType
  <2> HIDE DEF n, taken
  <2>2. Cardinality(1 .. n + 1) <= Cardinality(taken)  BY <1>2, FS_Subset
  <2>3. QED  BY <1>1, <1>2, <1>3, <2>1, <2>2
<1>5. \E k \in 1 .. n + 1 : \A r \in R : r.id # k
  BY <1>4
<1>6. QED  BY <1>5 DEF FreshId

(* A new request: sent, and for a save with a time that was shown. *)
LEMMA SendGood ==
  ASSUME NEW R, NEW b, NEW t, Good(R, t), DOMAIN b = Fields, b.st = "sent",
         b.op = "save" => b.base # None /\ Known(t, b.p, b.base)
  PROVE  Good(Send(R, b), t)
<1> DEFINE k == FreshId(R)
           c == [b EXCEPT !.id = k]
<1>1. /\ DOMAIN c = Fields /\ c.id = k /\ c.op = b.op /\ c.st = "sent" /\ c.base = b.base /\ c.p = b.p
  BY DEF Fields
<1>2. \A r \in R : r.id # k  BY FreshIdFree DEF Good
<1>3. Send(R, b) = R \cup {c}  BY DEF Send
<1> HIDE DEF c, k
<1>4. IsFiniteSet(R \cup {c})  BY FS_AddElement DEF Good
<1>5. Sane(c, t)  BY <1>1 DEF Sane
<1>6. QED  BY <1>1, <1>2, <1>3, <1>4, <1>5 DEF Good

(* A request of the tree is no save. *)
Asks(b) == DOMAIN b = Fields /\ b.op # "save" /\ b.st = "sent"

LEMMA AskGood ==
  ASSUME NEW R, NEW t, Good(R, t), NEW b, Asks(b)
  PROVE  Good(Send(R, b), t)
BY SendGood DEF Asks

(* These are all of them. *)
LEMMA TreeAsks ==
  ASSUME NEW p, NEW q, NEW srcs, NEW dialog
  PROVE  /\ Asks([Blank EXCEPT !.op = "load", !.p = p])
         /\ Asks([Blank EXCEPT !.op = "list", !.p = p])
         /\ Asks([Blank EXCEPT !.op = "move", !.srcs = srcs, !.q = q, !.dialog = dialog])
         /\ Asks([Blank EXCEPT !.op = "create", !.p = p])
         /\ Asks([Blank EXCEPT !.op = "rename", !.p = p, !.q = q])
         /\ Asks([Blank EXCEPT !.op = "delete", !.q = q])
BY DEF Asks, Blank, Fields

(* Requests that are answered, and times that are shown, change nothing. *)
LEMMA Grows ==
  ASSUME NEW t, NEW u, Within(t, u)
  PROVE  /\ \A v : View(v, t) => View(v, u)
         /\ \A R : Good(R, t) => Good(R, u)
<1>1. \A p, x : Known(t, p, x) => Known(u, p, x)  BY DEF Known, Within
<1>2. \A v : View(v, t) => View(v, u)  BY <1>1 DEF View
<1>3. \A r : Sane(r, t) => Sane(r, u)  BY <1>1 DEF Sane
<1>4. QED  BY <1>2, <1>3 DEF Good

(* So is the answer to one of them. *)
LEMMA LessGood ==
  ASSUME NEW R, NEW t, Good(R, t), NEW r
  PROVE  Good(R \ {r}, t)
<1>1. IsFiniteSet(R \ {r})  BY FS_RemoveElement DEF Good
<1>2. QED  BY <1>1 DEF Good

-----------------------------------------------------------------------------
(* The preview.                                                             *)

(* Leaving edit mode takes the bar, the base and the button along. *)
LEMMA ExitView ==
  ASSUME NEW v, NEW t, View(v, t)
  PROVE  View(ExitEditMode(v), t) /\ ExitEditMode(v).edit = FALSE
<1> DEFINE w == ExitEditMode(v)
<1>1. /\ DOMAIN w = PaneFields /\ w.edit = FALSE /\ w.bar = FALSE /\ w.editBtn = FALSE
      /\ w.conflict = None
      /\ w.bars = IF v.bar THEN v.bars - 1 ELSE v.bars
  BY DEF ExitEditMode, View, PaneFields
<1>2. w.bars = 0  BY <1>1 DEF View
<1> SUFFICES View(w, t)  BY <1>1
<1> HIDE DEF w
<1>3. QED  BY <1>1, <1>2 DEF View

(* Loading a file leaves edit mode first, and asks for its text. *)
LEMMA LoadFileKeeps ==
  ASSUME NEW v, NEW R, NEW p, NEW t, View(v, t), Good(R, t)
  PROVE  View(LoadFile(v, R, p).v, t) /\ Good(LoadFile(v, R, p).R, t)
<1> DEFINE w == IF v.edit THEN ExitEditMode(v) ELSE v
           b == [Blank EXCEPT !.op = "load", !.p = p]
<1>1. View(w, t)  BY ExitView
<1>2. View([w EXCEPT !.show = "media"], t) /\ View([w EXCEPT !.show = "loading"], t)
  <2> HIDE DEF w
  <2>1. DOMAIN w = PaneFields  BY <1>1 DEF View
  <2>2. QED  BY <1>1, <2>1 DEF View, PaneFields
<1>3. Asks(b)  BY TreeAsks
<1>4. \/ LoadFile(v, R, p) = [v |-> [w EXCEPT !.show = "media"], R |-> R]
      \/ LoadFile(v, R, p) = [v |-> [w EXCEPT !.show = "loading"], R |-> Send(R, b)]
  BY DEF LoadFile
<1> HIDE DEF w, b
<1>5. Good(Send(R, b), t)  BY <1>3, AskGood
<1>6. QED  BY <1>2, <1>4, <1>5

(* Opening another file turns the edit button off: nothing of the old one   *)
(* can be saved any more.                                                   *)
LEMMA OpenFileKeeps ==
  ASSUME NEW v, NEW R, NEW p, NEW t, View(v, t), Good(R, t)
  PROVE  View(OpenFile(v, R, p).v, t) /\ Good(OpenFile(v, R, p).R, t)
<1> DEFINE w == [v EXCEPT !.path = p, !.editBtn = FALSE]
           x == IF w.edit THEN ExitEditMode(w) ELSE w
           b == [Blank EXCEPT !.op = "load", !.p = p]
<1>1. View(x, t)
  <2>1. /\ DOMAIN w = PaneFields /\ w.bar = v.bar /\ w.edit = v.edit /\ w.bars = v.bars
        /\ w.editBtn = FALSE /\ w.conflict = v.conflict
    BY DEF View, PaneFields
  <2> HIDE DEF w
  <2>2. CASE v.edit = FALSE
    BY <2>1, <2>2 DEF View
  <2>3. CASE v.edit = TRUE
    <3> DEFINE y == ExitEditMode(w)
    <3>1. /\ DOMAIN y = PaneFields /\ y.edit = FALSE /\ y.bar = FALSE /\ y.editBtn = FALSE
          /\ y.conflict = None /\ y.bars = IF w.bar THEN w.bars - 1 ELSE w.bars
      BY <2>1 DEF ExitEditMode, PaneFields
    <3>2. x = y  BY <2>1, <2>3
    <3> HIDE DEF y, x
    <3>3. y.bars = 0  BY <2>1, <2>3, <3>1 DEF View
    <3>4. View(y, t)  BY <3>1, <3>3 DEF View
    <3>5. QED  BY <3>2, <3>4
  <2>4. QED  BY <2>2, <2>3 DEF View
<1>2. View([x EXCEPT !.show = "media"], t) /\ View([x EXCEPT !.show = "loading"], t)
  <2> HIDE DEF x
  <2>1. DOMAIN x = PaneFields  BY <1>1 DEF View
  <2>2. QED  BY <1>1, <2>1 DEF View, PaneFields
<1>3. Asks(b)  BY TreeAsks
<1>4. \/ OpenFile(v, R, p) = [v |-> [x EXCEPT !.show = "media"], R |-> R]
      \/ OpenFile(v, R, p) = [v |-> [x EXCEPT !.show = "loading"], R |-> Send(R, b)]
  BY DEF OpenFile, LoadFile
<1> HIDE DEF x, b
<1>5. Good(Send(R, b), t)  BY <1>3, AskGood
<1>6. QED  BY <1>2, <1>4, <1>5

-----------------------------------------------------------------------------
(* The acts of the user.                                                    *)

(* What is done to the preview: load, leave, edit and save. *)
LEMMA PreviewActs ==
  ASSUME Inv,
         \/ Reload \/ Close \/ EnterEditMode \/ Discard \/ Save \/ Overwrite
         \/ \E p \in Paths : OpenFilesTabAtFile(p) \/ FollowLink(p) \/ Click(p)
  PROVE  Inv'
<1>0. View(pv, seen) /\ Good(req, seen)  BY DEF Inv
<1>a. seen' = seen
  BY DEF Reload, Close, EnterEditMode, Discard, Save, Overwrite, OpenFilesTabAtFile, FollowLink, Click
<1> SUFFICES View(pv', seen) /\ Good(req', seen)  BY <1>a DEF Inv
<1>1. CASE Reload
  BY <1>0, <1>1, LoadFileKeeps DEF Reload, Preview
<1>2. CASE Discard
  <2>1. View(ExitEditMode(pv), seen)  BY <1>0, ExitView
  <2>2. pv' = LoadFile(ExitEditMode(pv), req, pv.path).v
        /\ req' = LoadFile(ExitEditMode(pv), req, pv.path).R
    BY <1>2 DEF Discard, Preview
  <2>3. QED  BY <1>0, <2>1, <2>2, LoadFileKeeps
<1>3. CASE \E p \in Paths : OpenFilesTabAtFile(p) \/ FollowLink(p) \/ Click(p)
  <2>1. \E p : pv' = OpenFile(pv, req, p).v /\ req' = OpenFile(pv, req, p).R
    BY <1>3 DEF OpenFilesTabAtFile, FollowLink, Click, Preview
  <2>2. QED  BY <1>0, <2>1, OpenFileKeeps
<1>4. CASE Close
  <2> DEFINE w == IF pv.edit THEN ExitEditMode(pv) ELSE pv
  <2>1. View(w, seen) /\ w.edit = FALSE
    <3>1. CASE pv.edit = TRUE
      BY <1>0, <3>1, ExitView
    <3>2. CASE pv.edit = FALSE
      BY <1>0, <3>2
    <3>3. QED  BY <1>0, <3>1, <3>2 DEF View
  <2>2. pv' = [w EXCEPT !.path = NoPath, !.show = "empty", !.editBtn = FALSE] /\ req' = req
    BY <1>4 DEF Close
  <2> HIDE DEF w
  <2>3. QED  BY <1>0, <2>1, <2>2 DEF View, PaneFields
<1>5. CASE EnterEditMode
  <2>1. /\ pv.editBtn /\ ~pv.edit /\ req' = req
        /\ pv' = [pv EXCEPT !.edit = TRUE, !.show = "edit", !.editBtn = FALSE, !.bar = TRUE,
                            !.bars = pv.bars + 1, !.text = TRUE, !.saving = FALSE]
    BY <1>5 DEF EnterEditMode
  <2>2. /\ DOMAIN pv' = PaneFields /\ pv'.edit = TRUE /\ pv'.bar = TRUE /\ pv'.editBtn = FALSE
        /\ pv'.bars = pv.bars + 1 /\ pv'.base = pv.base /\ pv'.conflict = pv.conflict
        /\ pv'.path = pv.path
    BY <1>0, <2>1 DEF View, PaneFields
  <2>3. pv.bars = 0 /\ pv.base # None /\ Known(seen, pv.path, pv.base) /\ pv.conflict = None
    BY <1>0, <2>1 DEF View
  <2>4. QED  BY <1>0, <2>1, <2>2, <2>3 DEF View
<1>6. CASE Save \/ Overwrite
  <2>1. PICK base : DoSave(base) /\ base # None /\ Known(seen, pv.path, base)
    BY <1>0, <1>6 DEF Save, Overwrite, View
  <2> DEFINE b == [Blank EXCEPT !.op = "save", !.p = pv.path, !.base = base]
  <2>2. CASE UNCHANGED <<pv, req>>
    BY <1>0, <2>2
  <2>3. CASE pv' = [pv EXCEPT !.saving = TRUE, !.conflict = None] /\ req' = Send(req, b)
    <3>1. View(pv', seen)  BY <1>0, <2>3 DEF View, PaneFields
    <3>2. DOMAIN b = Fields /\ b.st = "sent" /\ b.base = base /\ b.p = pv.path
      BY DEF Blank, Fields
    <3> HIDE DEF b
    <3>3. Good(req', seen)  BY <1>0, <2>1, <2>3, <3>2, SendGood
    <3>4. QED  BY <3>1, <3>3
  <2>4. QED  BY <2>1, <2>2, <2>3 DEF DoSave
<1>7. QED  BY <1>1, <1>2, <1>3, <1>4, <1>5, <1>6

(* What is done to the tree: requests of other kinds than save. *)
LEMMA TreeActs ==
  ASSUME Inv,
         \/ ReloadTree \/ Refilter \/ DragEnd
         \/ \E p \in Paths : \/ CtrlClick(p) \/ ShiftClick(p) \/ DragStart(p)
                             \/ OtherRemoves(p) \/ OtherWrites(p) \/ \E f \in Names : Rename(p, f)
         \/ \E d \in Dirs : Drop(d) \/ MoveDialog(d) \/ DeleteDir(d)
         \/ \E f \in Names : NewFile(f)
  PROVE  Inv'
<1>1. UNCHANGED <<pv, seen>>
  BY DEF ReloadTree, Refilter, DragEnd, CtrlClick, ShiftClick, DragStart, OtherRemoves, OtherWrites,
     Rename, Drop, MoveDialog, DeleteDir, NewFile
<1>2. \/ req' = req
      \/ \E b : Asks(b) /\ req' = Send(req, b)
  <2>1. CASE ReloadTree
    BY <2>1, TreeAsks DEF ReloadTree, LoadTree
  <2>2. CASE Refilter \/ DragEnd
    BY <2>2 DEF Refilter, DragEnd
  <2>3. CASE \E p \in Paths : \/ CtrlClick(p) \/ ShiftClick(p) \/ DragStart(p)
                              \/ OtherRemoves(p) \/ OtherWrites(p)
    BY <2>3 DEF CtrlClick, ShiftClick, DragStart, OtherRemoves, OtherWrites
  <2>4. CASE \E p \in Paths, f \in Names : Rename(p, f)
    BY <2>4, TreeAsks DEF Rename
  <2>5. CASE \E d \in Dirs : Drop(d) \/ MoveDialog(d)
    BY <2>5, TreeAsks DEF Drop, MoveDialog, MoveTo
  <2>6. CASE \E d \in Dirs : DeleteDir(d)
    BY <2>6, TreeAsks DEF DeleteDir
  <2>7. CASE \E f \in Names : NewFile(f)
    BY <2>7, TreeAsks DEF NewFile
  <2>8. QED  BY <2>1, <2>2, <2>3, <2>4, <2>5, <2>6, <2>7
<1>3. Good(req', seen)  BY <1>2, AskGood DEF Inv
<1>4. QED  BY <1>1, <1>3 DEF Inv

-----------------------------------------------------------------------------
(* The answers and the Hub.                                                 *)

(* What an answer shows is known from then on, for the path that is open. *)
LEMMA ToldGrows ==
  ASSUME NEW r, Told(r)
  PROVE  Within(seen, seen') /\ (Shows(r) => Known(seen', pv.path, r.at))
<1>1. told \subseteq told' /\ astray \subseteq astray'  BY DEF Told
<1>2. CASE r.p = pv.path
  BY <1>1, <1>2 DEF Told, Within, Known, seen
<1>3. CASE r.p # pv.path
  BY <1>1, <1>3 DEF Told, Within, Known, seen
<1>4. QED  BY <1>2, <1>3

(* The text of a load gives the preview a base, in edit mode or not. *)
LEMMA LoadAnswered ==
  ASSUME Inv, NEW r \in req, r.op = "load", NEW canEdit \in BOOLEAN,
         Preview(Loaded(r, req \ {r}, canEdit)), Told(r)
  PROVE  Inv'
<1>1. Within(seen, seen') /\ (Shows(r) => Known(seen', pv.path, r.at))  BY ToldGrows
<1>2. View(pv, seen') /\ Good(req, seen')  BY <1>1, Grows DEF Inv
<1>3. Good(req \ {r}, seen')  BY <1>2, LessGood
<1>4. r.st = "ok" => r.at # None /\ Known(seen', pv.path, r.at)
  BY <1>1 DEF Inv, Good, Sane, Shows
<1>5. /\ req' = req \ {r}
      /\ pv' = IF r.st = "ok"
               THEN [pv EXCEPT !.show = "text", !.editBtn = canEdit, !.base = r.at]
               ELSE [pv EXCEPT !.show = "error"]
  BY DEF Preview, Loaded
<1>6. View(pv', seen')
  <2>1. CASE r.st = "ok"
    BY <1>2, <1>4, <1>5, <2>1 DEF View, PaneFields
  <2>2. CASE r.st # "ok"
    BY <1>2, <1>5, <2>2 DEF View, PaneFields
  <2>3. QED  BY <2>1, <2>2
<1>7. QED  BY <1>3, <1>5, <1>6 DEF Inv

(* A save ends edit mode, or shows the time of the conflict. *)
LEMMA SaveAnswered ==
  ASSUME Inv, NEW r \in req, r.op = "save", Preview(Saved(r, req \ {r})), Told(r)
  PROVE  Inv'
<1>1. Within(seen, seen') /\ (Shows(r) => Known(seen', pv.path, r.at))  BY ToldGrows
<1>2. View(pv, seen') /\ Good(req, seen')  BY <1>1, Grows DEF Inv
<1>3. Good(req \ {r}, seen')  BY <1>2, LessGood
<1>4. CASE r.st = "ok"
  <2>1. View(ExitEditMode(pv), seen')  BY <1>2, ExitView
  <2>2. /\ pv' = LoadFile(ExitEditMode(pv), req \ {r}, pv.path).v
        /\ req' = LoadFile(ExitEditMode(pv), req \ {r}, pv.path).R
    BY <1>4 DEF Preview, Saved
  <2>3. QED  BY <1>3, <2>1, <2>2, LoadFileKeeps DEF Inv
<1>5. CASE r.st = "conflict"
  <2>1. req' = req \ {r}
        /\ pv' = IF pv.bar THEN [pv EXCEPT !.conflict = r.at, !.saving = FALSE] ELSE pv
    BY <1>5 DEF Preview, Saved
  <2>2. pv.bar => Known(seen', pv.path, r.at)  BY <1>1, <1>5 DEF Shows
  <2>3. View(pv', seen')
    <3>1. CASE pv.bar = TRUE
      BY <1>2, <2>1, <2>2, <3>1 DEF View, PaneFields
    <3>2. CASE pv.bar = FALSE
      BY <1>2, <2>1, <3>2
    <3>3. QED  BY <1>2, <3>1, <3>2 DEF View
  <2>4. QED  BY <1>3, <2>1, <2>3 DEF Inv
<1>6. CASE r.st \notin {"ok", "conflict"}
  <2>1. req' = req \ {r} /\ pv' \in {pv, [pv EXCEPT !.saving = FALSE]}
    BY <1>6 DEF Preview, Saved
  <2>2. View(pv', seen')  BY <1>2, <2>1 DEF View, PaneFields
  <2>3. QED  BY <1>3, <2>1, <2>2 DEF Inv
<1>7. QED  BY <1>4, <1>5, <1>6

(* The other answers at most open a file, or ask for the tree again. *)
LEMMA TreeAnswered ==
  ASSUME Inv, NEW r \in req,
         LET R == req \ {r}
         IN  Listed(r, R) \/ MoveAnswered(r, R) \/ CreateAnswered(r, R) \/ FilesChanged(r, R)
  PROVE  Inv'
<1>1. View(pv, seen) /\ Good(req \ {r}, seen)  BY LessGood DEF Inv
<1>2. seen' = seen  BY DEF Listed, MoveAnswered, CreateAnswered, FilesChanged, seen
<1>3. \/ pv' = pv /\ req' = req \ {r}
      \/ pv' = pv /\ \E p : req' = LoadTree(req \ {r}, p)
      \/ \E p : pv' = OpenFile(pv, req \ {r}, p).v /\ req' = OpenFile(pv, req \ {r}, p).R
  BY DEF Listed, MoveAnswered, CreateAnswered, FilesChanged, Relist, Preview
<1>4. \A p : Good(LoadTree(req \ {r}, p), seen)
  BY <1>1, AskGood, TreeAsks DEF LoadTree
<1>5. View(pv', seen) /\ Good(req', seen)
  BY <1>1, <1>3, <1>4, OpenFileKeeps
<1>6. QED  BY <1>2, <1>5 DEF Inv

(* Whatever is answered. *)
LEMMA AnswerStep ==
  ASSUME Inv, NEW r \in req, Answer(r)
  PROVE  Inv'
<1>1. CASE r.op = "load"
  <2>1. PICK canEdit \in BOOLEAN : Preview(Loaded(r, req \ {r}, canEdit)) /\ Told(r)
    BY <1>1 DEF Answer
  <2>2. QED  BY <1>1, <2>1, LoadAnswered
<1>2. CASE r.op = "save"
  <2>1. Preview(Saved(r, req \ {r})) /\ Told(r)
    BY <1>2 DEF Answer
  <2>2. QED  BY <1>2, <2>1, SaveAnswered
<1>3. CASE r.op \notin {"load", "save"}
  <2>1. LET R == req \ {r}
        IN  Listed(r, R) \/ MoveAnswered(r, R) \/ CreateAnswered(r, R) \/ FilesChanged(r, R)
    BY <1>3 DEF Answer
  <2>2. QED  BY <2>1, TreeAnswered
<1>4. QED  BY <1>1, <1>2, <1>3

(* What the Hub puts in the place of a request keeps its number and what    *)
(* was asked; a load that is not refused comes with the time of a file.     *)
LEMMA Served ==
  ASSUME Inv, NEW r \in req, Serve(r)
  PROVE  \E q : Instead(r, q) /\ Sane(q, seen) /\ q.id = r.id
<1>1. Sane(r, seen) /\ r.op # "save"  BY DEF Inv, Good, Serve
<1>2. \A st : st \in {"refused", "lost"} =>
               Sane([r EXCEPT !.st = st], seen) /\ [r EXCEPT !.st = st].id = r.id
  BY <1>1 DEF Sane, Fields
<1>3. CASE Instead(r, [r EXCEPT !.st = "lost"])
  BY <1>2, <1>3
<1>4. CASE Instead(r, Reply(r)) /\ Refuses(r)
  <2>1. Reply(r) = [r EXCEPT !.st = "refused"]  BY <1>4 DEF Reply
  <2>2. QED  BY <1>2, <1>4, <2>1
<1>5. CASE Instead(r, Reply(r)) /\ ~ Refuses(r) /\ r.op = "load"
  <2>1. Reply(r) = [r EXCEPT !.st = "ok", !.at = disk[r.p]]  BY <1>5 DEF Reply
  <2>2. Exists(r.p)
    <3>1. r.op = "load" => (Refuses(r) <=> ~ Exists(r.p))  BY DEF Refuses
    <3>2. QED  BY <1>5, <3>1
  <2>3. disk[r.p] # None  BY <2>2 DEF Exists
  <2>4. Sane(Reply(r), seen) /\ Reply(r).id = r.id
    BY <1>1, <1>5, <2>1, <2>3 DEF Sane, Fields
  <2>5. QED  BY <1>5, <2>4
<1>6. CASE Instead(r, Reply(r)) /\ ~ Refuses(r) /\ r.op # "load"
  <2> DEFINE c == [r EXCEPT !.st = "ok", !.list = {p \in Paths : Exists(p)}]
             d == [r EXCEPT !.st = "ok"]
  <2>1. Reply(r) \in {c, d}  BY <1>6 DEF Reply
  <2>2. /\ DOMAIN c = Fields /\ c.id = r.id /\ c.op = r.op /\ c.st = "ok"
        /\ DOMAIN d = Fields /\ d.id = r.id /\ d.op = r.op /\ d.st = "ok"
    BY <1>1 DEF Sane, Fields
  <2> HIDE DEF c, d
  <2>3. Sane(c, seen) /\ Sane(d, seen)  BY <1>1, <1>6, <2>2 DEF Sane
  <2>4. QED  BY <1>6, <2>1, <2>2, <2>3
<1>7. QED  BY <1>3, <1>4, <1>5, <1>6 DEF Serve

(* A conflict comes with the time of the file; a save that passes the check *)
(* names the time the file has.                                             *)
LEMMA Checked ==
  ASSUME Inv, NEW r \in req, Check(r)
  PROVE  \E q : Instead(r, q) /\ Sane(q, seen) /\ q.id = r.id
<1>1. Sane(r, seen) /\ r.op = "save" /\ r.base # None  BY DEF Inv, Good, Sane, Check
<1>2. CASE Instead(r, [r EXCEPT !.st = "refused"])
  <2>1. Sane([r EXCEPT !.st = "refused"], seen) /\ [r EXCEPT !.st = "refused"].id = r.id
    BY <1>1 DEF Sane, Fields
  <2>2. QED  BY <1>2, <2>1
<1>3. CASE Exists(r.p) /\ Instead(r, [r EXCEPT !.st = "conflict", !.at = disk[r.p]])
  <2> DEFINE q == [r EXCEPT !.st = "conflict", !.at = disk[r.p]]
  <2>1. Sane(q, seen) /\ q.id = r.id  BY <1>1, <1>3 DEF Sane, Fields, Exists
  <2>2. QED  BY <1>3, <2>1
<1>4. CASE r.base = disk[r.p] /\ Instead(r, [r EXCEPT !.st = "checked", !.at = disk[r.p]])
  <2> DEFINE q == [r EXCEPT !.st = "checked", !.at = disk[r.p]]
  <2>1. Sane(q, seen) /\ q.id = r.id  BY <1>1, <1>4 DEF Sane, Fields
  <2>2. QED  BY <1>4, <2>1
<1>5. QED  BY <1>1, <1>2, <1>3, <1>4 DEF Check

(* A save that was written, or never arrived. *)
LEMMA Ended ==
  ASSUME Inv, NEW r \in req, Write(r) \/ NotArrived(r)
  PROVE  \E q : Instead(r, q) /\ Sane(q, seen) /\ q.id = r.id
<1>1. Sane(r, seen) /\ r.op = "save"  BY DEF Inv, Good, Sane, Write, NotArrived
<1>2. \A st : st \in {"ok", "lost"} =>
               Sane([r EXCEPT !.st = st], seen) /\ [r EXCEPT !.st = st].id = r.id
  BY <1>1 DEF Sane, Fields
<1>3. QED  BY <1>2 DEF Write, NotArrived

(* Serving a request leaves the page alone. *)
LEMMA ServeStep ==
  ASSUME Inv, NEW r \in req, Serve(r) \/ Check(r) \/ Write(r) \/ NotArrived(r)
  PROVE  Inv'
<1>1. UNCHANGED <<pv, seen>>  BY DEF Serve, Check, Write, NotArrived
<1>2. PICK q : Instead(r, q) /\ Sane(q, seen) /\ q.id = r.id
  BY Served, Checked, Ended
<1>3. Good(req \ {r}, seen)  BY LessGood DEF Inv
<1>4. IsFiniteSet(req')  BY <1>2, <1>3, FS_AddElement DEF Good, Instead
<1>5. \A x \in req \ {r} : x.id # r.id  BY DEF Inv, Good
<1>6. Good(req', seen)  BY <1>2, <1>3, <1>4, <1>5 DEF Good, Instead
<1>7. QED  BY <1>1, <1>6 DEF Inv

-----------------------------------------------------------------------------
(* Every step keeps the invariant.                                          *)

(* The page opens on the tree, or in the middle of an edit. *)
LEMMA InitInv ==
  ASSUME Init  PROVE Inv
<1>1. View(pv, seen)
  <2>1. CASE pv = Closed
    BY <2>1 DEF Closed, View, PaneFields, None
  <2>2. CASE \E p : pv = Editing(p)
    <3>1. PICK p : pv = Editing(p)  BY <2>2
    <3>2. /\ DOMAIN pv = PaneFields /\ pv.edit = TRUE /\ pv.bar = TRUE /\ pv.editBtn = FALSE
          /\ pv.bars = 1 /\ pv.base = 0 /\ pv.conflict = None
      BY <3>1 DEF Editing, Closed, PaneFields
    <3>3. Known(seen, pv.path, 0) /\ None # 0  BY <3>2 DEF Init, None, Known, seen
    <3> HIDE DEF None
    <3>4. QED  BY <3>2, <3>3 DEF View
  <2>3. QED  BY <2>1, <2>2 DEF Init
<1>2. Asks(Blank)  BY DEF Asks, Blank, Fields
<1>3. Good({}, seen)  BY FS_EmptySet DEF Good
<1>4. Good(req, seen)
  <2>1. req = {} \/ req = Send({}, Blank)  BY DEF Init
  <2>2. QED  BY <2>1, <1>2, <1>3, AskGood
<1>5. QED  BY <1>1, <1>4 DEF Inv

(* A step of the specification is one of those above. *)
LEMMA StepInv ==
  ASSUME Inv, [Next]_vars  PROVE Inv'
<1>1. CASE Previewing
  <2>1. CASE \/ Reload \/ Close \/ EnterEditMode \/ Discard \/ Save \/ Overwrite
             \/ \E p \in Paths : OpenFilesTabAtFile(p) \/ FollowLink(p)
    BY <2>1, PreviewActs
  <2>2. CASE \E p \in Paths : OtherWrites(p)
    BY <2>2, TreeActs
  <2>3. QED  BY <1>1, <2>1, <2>2 DEF Previewing
<1>2. CASE Arranging
  <2>1. CASE \E p \in Paths : Click(p)
    BY <2>1, PreviewActs
  <2>2. CASE \/ ReloadTree \/ Refilter \/ DragEnd
             \/ \E p \in Paths : \/ CtrlClick(p) \/ ShiftClick(p) \/ DragStart(p)
                                 \/ OtherRemoves(p) \/ \E f \in Names : Rename(p, f)
             \/ \E d \in Dirs : Drop(d) \/ MoveDialog(d) \/ DeleteDir(d)
             \/ \E f \in Names : NewFile(f)
    BY <2>2, TreeActs
  <2>3. QED  BY <1>2, <2>1, <2>2 DEF Arranging
<1>3. CASE \E r \in req : Serve(r) \/ Check(r) \/ Write(r) \/ NotArrived(r) \/ Answer(r)
  BY <1>3, ServeStep, AnswerStep
<1>4. CASE UNCHANGED vars
  BY <1>4 DEF vars, tree, Inv
<1>5. QED  BY <1>1, <1>2, <1>3, <1>4 DEF Next

-----------------------------------------------------------------------------
(* Saves.                                                                   *)

(* What a save that was checked may replace. *)
Replaces(r) ==
  <<r.p, disk[r.p]>> \in told \/ disk[r.p] # r.at \/ <<r.p, r.at>> \in astray

(* The time the Hub found is the one the save named, and that is known. *)
LEMMA CheckedInformed ==
  ASSUME Inv, NEW r \in req, r.st = "checked"
  PROVE  Replaces(r)
<1>1. r.at = r.base /\ Known(seen, r.p, r.base)  BY DEF Inv, Good, Sane
<1>2. QED  BY <1>1 DEF Known, seen, Replaces

-----------------------------------------------------------------------------

(* Edit mode and what was shown: an invariant of the pane. *)
THEOREM Invariance == Spec => []Inv
<1>1. Init => Inv  BY InitInv
<1>2. Inv /\ [Next]_vars => Inv'  BY StepInv
<1>3. QED  BY <1>1, <1>2, PTL DEF Spec

(* The preview never has two edit bars, a bar without edit mode, or an edit *)
(* without the time of the text it replaces, whatever answers come late.    *)
THEOREM EditSound == Spec => []EditModeSound
<1>1. Inv => EditModeSound
  BY DEF Inv, View, EditModeSound, OneBar, EditHasBase
<1>2. QED  BY <1>1, Invariance, PTL

(* A save, forced or not, replaces a file only as of a time the user was    *)
(* shown of it, but for what came after the Hub's check, and for a path     *)
(* another file was shown under.                                            *)
THEOREM SavesInformed == Spec => SavesAreInformed
<1> DEFINE A == \A r \in req \ req' :
                  r.st = "checked" =>
                    \/ <<r.p, disk[r.p]>> \in told
                    \/ disk[r.p] # r.at
                    \/ <<r.p, r.at>> \in astray
<1>1. Inv /\ [Next]_vars => [A]_vars
  BY CheckedInformed DEF Replaces
<1> HIDE DEF A
<1>2. Spec => [][A]_vars
  BY <1>1, Invariance, PTL DEF Spec
<1> USE DEF A
<1>3. QED  BY <1>2 DEF SavesAreInformed

-----------------------------------------------------------------------------
(* The tab bar.                                                            *)

(* The bar's parts.  A tab's directory is one a session may have, for a tab *)
(* is only opened for one.                                                  *)
TabKeys == {Base[d] : d \in Directories} \cup {Team, NoProject}
Tab == [kind : Kinds, root : Directories, project : TabKeys,
        session : Sessions \cup {NoSession}]
OwnModes == Modes \cup Kinds \cup {"none"}
Bars == [tabs : Seq(Tab), focus : Nat, shows : SUBSET (OwnModes \cup Global),
         multi : BOOLEAN, mode : [Sessions -> OwnModes]]

BarTyped(v) == v \in Bars /\ v.focus <= Len(v.tabs)
(* The area is in a's own mode or in one of no session; a tab on screen is  *)
(* a's, at its directory.                                                   *)
InModeOf(v, a) ==
  ~v.multi => v.shows \cap Global # {} \/ v.shows = {v.mode[a]}
ActsFor(v, a) ==
  ~v.multi /\ v.shows \cap Kinds # {} /\ v.focus # SessionView /\ dir[a] # NoDir =>
    v.tabs[v.focus].session = a /\ v.tabs[v.focus].root = dir[a]
AreaOf(v, a) ==
  BarTyped(v) /\ (a # NoSession => InModeOf(v, a) /\ ActsFor(v, a))

Placed ==
  /\ dir \in [Sessions -> Directories \cup {NoDir}]
  /\ live \subseteq Sessions /\ active \in Sessions \cup {NoSession}
  /\ lock \in Modes \cup {"none"}

-----------------------------------------------------------------------------
(* Induction over the natural numbers: were m the least left out, adding one
   would map the members up to m into themselves without reaching 0. *)
LEMMA Inducted ==
  ASSUME NEW S \in SUBSET Nat, 0 \in S, \A n \in S : n + 1 \in S
  PROVE  S = Nat
<1> SUFFICES ASSUME NEW m \in Nat, m \notin S PROVE FALSE
  OBVIOUS
<1> DEFINE D == S \cap (0 .. m)
           f == [n \in D |-> n + 1]
<1>1. IsFiniteSet(D)
  <2>1. IsFiniteSet(0 .. m)
    BY FS_Interval
  <2>2. D \subseteq 0 .. m
    OBVIOUS
  <2> HIDE DEF D
  <2> QED BY <2>1, <2>2, FS_Subset
<1>2. f \in Injection(D, D)
  <2>1. \A n \in D : n + 1 \in D
    BY DEF D
  <2> QED BY <2>1 DEF Injection, IsInjective
<1>3. f \in Surjection(D, D)
  <2> HIDE DEF D, f
  <2> QED BY <1>1, <1>2, FS_Injection
<1>4. 0 \in D /\ \A n \in D : f[n] # 0
  OBVIOUS
<1> QED BY <1>3, <1>4 DEF Surjection

(* A nonempty set of natural numbers has a least one: the heir of a tab and
   the first tab that matches. *)
LEMMA Least ==
  ASSUME NEW S \in SUBSET Nat, S # {}
  PROVE  \E x \in S : \A y \in S : x <= y
<1> DEFINE Below == {n \in Nat : \A y \in S : n <= y}
<1>1. 0 \in Below
  OBVIOUS
<1>2. Below # Nat
  <2> PICK y \in S : TRUE
    OBVIOUS
  <2>1. y + 1 \notin Below
    OBVIOUS
  <2> QED BY <2>1
<1>3. PICK n \in Below : n + 1 \notin Below
  <2>1. Below \in SUBSET Nat
    OBVIOUS
  <2> HIDE DEF Below
  <2> QED BY <1>1, <1>2, <2>1, Inducted
<1>4. PICK x \in S : ~ (n + 1 <= x)
  BY <1>3
<1>5. \A y \in S : n <= y
  BY <1>3
<1>6. x = n
  BY <1>4, <1>5, <1>3
<1> QED BY <1>5, <1>6

(* The look-up of openFilesTab and openGitTab finds a tab of the directory. *)
LEMMA ExistingMatches ==
  ASSUME NEW q \in Seq(Tab), NEW kind, NEW s, NEW key, NEW root
  PROVE  /\ Existing(q, kind, s, key, root) \in 0 .. Len(q)
         /\ Existing(q, kind, s, key, root) # 0 =>
              q[Existing(q, kind, s, key, root)].root = root
<1> DEFINE I == {i \in 1 .. Len(q) : Matches(q[i], kind, s, key, root)}
<1>1. Existing(q, kind, s, key, root) =
        IF I # {} THEN CHOOSE x \in I : \A y \in I : x <= y ELSE 0
  BY DEF Existing, SelectInSeq, Min
<1>2. I # {} => \E x \in I : \A y \in I : x <= y
  <2>1. I \in SUBSET Nat
    OBVIOUS
  <2> HIDE DEF I
  <2> QED BY <2>1, Least
<1>3. ASSUME NEW x \in I PROVE x \in 1 .. Len(q) /\ q[x].root = root
  BY DEF Matches
<1> HIDE DEF I
<1>4. Existing(q, kind, s, key, root) = 0 \/ Existing(q, kind, s, key, root) \in I
  BY <1>1, <1>2
<1> QED BY <1>3, <1>4

(* Entering a mode puts the area in it and leaves the tabs alone. *)
LEMMA BarsMode ==
  ASSUME NEW v, BarTyped(v), NEW a \in Sessions \cup {NoSession},
         NEW name \in Modes \cup Kinds \cup Global \cup {"multi"},
         a # NoSession \/ name \in Global \cup {"multi"}
  PROVE  /\ BarTyped(EnterMode(v, a, name))
         /\ EnterMode(v, a, name).tabs = v.tabs
         /\ EnterMode(v, a, name).focus = v.focus
         /\ InModeOf(EnterMode(v, a, name), a) \/ a = NoSession
         /\ name \notin Kinds /\ ~EnterMode(v, a, name).multi =>
              EnterMode(v, a, name).shows \cap Kinds = {}
<1> USE DEF BarTyped, Bars, EnterMode, InModeOf, Global, Kinds, OwnModes
<1>1. CASE name = "multi"
  BY <1>1
<1>2. CASE name = "approval"
  BY <1>2
<1>3. CASE name = "orchestration"
  BY <1>3
<1>4. CASE name \notin {"multi", "approval", "orchestration"}
  <2> DEFINE w == [v EXCEPT !.multi = FALSE, !.shows = {name}, !.mode[a] = name]
  <2>1. EnterMode(v, a, name) = w
    BY <1>4
  <2>2. a \in Sessions /\ name \in OwnModes
    BY <1>4
  <2>3. /\ w.multi = FALSE /\ w.shows = {name} /\ w.tabs = v.tabs /\ w.focus = v.focus
        /\ w.mode = [v.mode EXCEPT ![a] = name] /\ w \in Bars
    BY <2>2
  <2> HIDE DEF w
  <2> QED BY <1>4, <2>1, <2>2, <2>3
<1> QED BY <1>1, <1>2, <1>3, <1>4

(* A tab given to another session stays in its place, with its directory. *)
LEMMA Handed ==
  ASSUME NEW q \in Seq(Tab), NEW i \in 1 .. Len(q), NEW s \in Sessions \cup {NoSession}
  PROVE  /\ [q EXCEPT ![i].session = s] \in Seq(Tab)
         /\ Len([q EXCEPT ![i].session = s]) = Len(q)
         /\ [q EXCEPT ![i].session = s][i].session = s
         /\ [q EXCEPT ![i].session = s][i].root = q[i].root
         /\ \A j \in 1 .. Len(q) : j # i => [q EXCEPT ![i].session = s][j] = q[j]
<1> DEFINE t == [q[i] EXCEPT !.session = s]
           r == [q EXCEPT ![i] = t]
<1>1. [q EXCEPT ![i].session = s] = r
  OBVIOUS
<1> DEFINE old == q[i]
<1>2. t \in Tab /\ t.session = s /\ t.root = q[i].root
  <2>1. old \in Tab
    OBVIOUS
  <2> HIDE DEF old
  <2>2. /\ [old EXCEPT !.session = s] \in Tab /\ [old EXCEPT !.session = s].session = s
        /\ [old EXCEPT !.session = s].root = old.root
    BY <2>1 DEF Tab
  <2> QED BY <2>2 DEF old
<1> HIDE DEF t
<1>3. /\ r \in Seq(Tab) /\ Len(r) = Len(q) /\ r[i] = t
      /\ \A j \in 1 .. Len(q) : j # i => r[j] = q[j]
  BY <1>2
<1> HIDE DEF r
<1> QED BY <1>1, <1>2, <1>3

(* openFilesTab and openGitTab have a tab of the session and the directory. *)
LEMMA OpenedTab ==
  ASSUME NEW v, BarTyped(v), NEW kind \in Kinds, NEW s \in Sessions, NEW key \in TabKeys,
         NEW root \in Directories
  PROVE  LET o == Opened(v, kind, s, key, root) IN
         /\ BarTyped(o.v) /\ o.at \in 1 .. Len(o.v.tabs)
         /\ o.v.tabs[o.at].session = s /\ o.v.tabs[o.at].root = root
         /\ o.v.shows = v.shows /\ o.v.multi = v.multi /\ o.v.mode = v.mode
<1> DEFINE old == Existing(v.tabs, kind, s, key, root)
           new == [kind |-> kind, root |-> root, project |-> key, session |-> s]
           reused == [v EXCEPT !.tabs[old].session = s]
           added == [v EXCEPT !.tabs = Append(@, new)]
<1>1. /\ v.tabs \in Seq(Tab) /\ v.focus \in Nat /\ v.focus <= Len(v.tabs) /\ v \in Bars
  BY DEF BarTyped, Bars
<1>2. old \in 0 .. Len(v.tabs) /\ (old # 0 => v.tabs[old].root = root)
  BY <1>1, ExistingMatches
<1>3. Opened(v, kind, s, key, root) =
        IF old # 0 THEN [v |-> reused, at |-> old] ELSE [v |-> added, at |-> Len(v.tabs) + 1]
  BY DEF Opened
<1> HIDE DEF old
<1>4. CASE old # 0
  <2> DEFINE ts == [v.tabs EXCEPT ![old].session = s]
  <2>1. reused = [v EXCEPT !.tabs = ts]
    BY <1>1 DEF Bars
  <2>2. /\ ts \in Seq(Tab) /\ Len(ts) = Len(v.tabs)
        /\ ts[old].session = s /\ ts[old].root = root
    BY <1>1, <1>2, <1>4, Handed
  <2> HIDE DEF ts
  <2>3. /\ reused \in Bars /\ reused.tabs = ts /\ reused.focus = v.focus
        /\ reused.shows = v.shows /\ reused.multi = v.multi /\ reused.mode = v.mode
    BY <1>1, <2>1, <2>2 DEF Bars
  <2> HIDE DEF reused
  <2> QED BY <1>1, <1>2, <1>3, <1>4, <2>2, <2>3 DEF BarTyped
<1>5. CASE old = 0
  <2> DEFINE ts == Append(v.tabs, new)
  <2>1. new \in Tab /\ new.session = s /\ new.root = root
    BY DEF Tab
  <2> HIDE DEF new
  <2>2. /\ ts \in Seq(Tab) /\ Len(ts) = Len(v.tabs) + 1 /\ ts[Len(v.tabs) + 1] = new
    BY <1>1, <2>1
  <2> HIDE DEF ts
  <2>3. /\ added \in Bars /\ added.tabs = ts /\ added.focus = v.focus
        /\ added.shows = v.shows /\ added.multi = v.multi /\ added.mode = v.mode
    BY <1>1, <2>2 DEF Bars, ts
  <2> HIDE DEF added
  <2> QED BY <1>1, <1>3, <1>5, <2>1, <2>2, <2>3 DEF BarTyped
<1> QED BY <1>4, <1>5

(* setActive brings the tab to the front, for its own session at least. *)
LEMMA Focused ==
  ASSUME NEW v, BarTyped(v), NEW a, NEW i \in 1 .. Len(v.tabs)
  PROVE  /\ BarTyped(Focus(v, a, i))
         /\ Focus(v, a, i).focus \in {i, SessionView}
         /\ v.tabs[i].session = a => Focus(v, a, i).focus = i
         /\ Focus(v, a, i).tabs = v.tabs /\ Focus(v, a, i).shows = v.shows
         /\ Focus(v, a, i).multi = v.multi /\ Focus(v, a, i).mode = v.mode
<1> DEFINE f == IF IsVisible(v.tabs[i], a) THEN i ELSE SessionView
<1>1. Focus(v, a, i) = [v EXCEPT !.focus = f]
  BY DEF Focus
<1>2. f \in {i, SessionView} /\ (v.tabs[i].session = a => f = i)
  BY DEF IsVisible
<1> HIDE DEF f
<1> QED BY <1>1, <1>2 DEF BarTyped, Bars, SessionView

(* setActiveTab leaves the area to the active session, whatever was there. *)
LEMMA ActiveTabSet ==
  ASSUME Placed, NEW v, BarTyped(v), NEW a \in Sessions,
         NEW name \in Modes \cup Kinds \cup Global \cup {"multi"}
  PROVE  AreaOf(SetActiveTab(v, a, name), a)
<1> DEFINE entered == EnterMode(v, a, name)
           own == Opened(entered, name, a, Project(a), dir[a])
           front == Focus(own.v, a, own.at)
<1>1. /\ BarTyped(entered) /\ InModeOf(entered, a)
      /\ name \notin Kinds /\ ~entered.multi => entered.shows \cap Kinds = {}
  <2>1. a # NoSession
    BY TabsAssumption DEF TabsAssumption
  <2> QED BY <2>1, BarsMode
<1> HIDE DEF entered
<1>2. CASE name \notin Kinds \/ dir[a] = NoDir
  <2>1. SetActiveTab(v, a, name) = entered
    BY <1>2 DEF SetActiveTab, entered
  <2>2. ActsFor(entered, a)
    BY <1>1, <1>2 DEF ActsFor
  <2> QED BY <1>1, <2>1, <2>2 DEF AreaOf
<1>3. CASE name \in Kinds /\ dir[a] # NoDir
  <2>1. SetActiveTab(v, a, name) = EnterMode(front, a, name)
    BY <1>3 DEF SetActiveTab, entered
  <2>2. dir[a] \in Directories /\ Project(a) \in TabKeys
    BY <1>3 DEF Placed, Project, TabKeys
  <2>3. /\ BarTyped(own.v) /\ own.at \in 1 .. Len(own.v.tabs)
        /\ own.v.tabs[own.at].session = a /\ own.v.tabs[own.at].root = dir[a]
    BY <1>1, <1>3, <2>2, OpenedTab
  <2> HIDE DEF own
  <2>4. BarTyped(front) /\ front.focus = own.at /\ front.tabs = own.v.tabs
    BY <2>3, Focused
  <2> HIDE DEF front
  <2>5. /\ BarTyped(EnterMode(front, a, name)) /\ InModeOf(EnterMode(front, a, name), a)
        /\ EnterMode(front, a, name).tabs = front.tabs
        /\ EnterMode(front, a, name).focus = front.focus
    <3>1. a # NoSession
      BY TabsAssumption DEF TabsAssumption
    <3> QED BY <3>1, <2>4, BarsMode
  <2>6. ActsFor(EnterMode(front, a, name), a)
    BY <2>3, <2>4, <2>5 DEF ActsFor
  <2> QED BY <2>1, <2>5, <2>6 DEF AreaOf
<1> QED BY <1>2, <1>3

(* activateSession leaves the area to the session, in its own mode. *)
LEMMA SessionShown ==
  ASSUME Placed, NEW v, BarTyped(v), NEW s \in Sessions
  PROVE  AreaOf(Activated(v, s), s)
<1> DEFINE name == Responsive(ViewMode(v, s))
           view == ToSession(v)
<1>1. CASE v.multi
  BY <1>1 DEF Activated, AreaOf, InModeOf, ActsFor
<1>2. CASE ~v.multi
  <2>1. BarTyped(view)
    BY DEF ToSession, BarTyped, Bars, SessionView
  <2>2. name \in Modes \cup Kinds \cup Global \cup {"multi"}
    <3>1. v.mode[s] \in Modes \cup Kinds \cup {"none"}
      BY DEF BarTyped, Bars, OwnModes
    <3>2. ViewMode(v, s) \in Modes \cup Kinds \cup Global
      BY <3>1, TabsAssumption DEF ViewMode, Placed, Global, TabsAssumption
    <3> QED BY <3>2, TabsAssumption DEF Responsive, TabsAssumption
  <2>3. Activated(v, s) = SetActiveTab(view, s, name)
    BY <1>2 DEF Activated
  <2> HIDE DEF view, name
  <2> QED BY <2>1, <2>2, <2>3, ActiveTabSet
<1> QED BY <1>1, <1>2

(* Opening a tab from outside keeps the area with the active session. *)
LEMMA TabShown ==
  ASSUME Placed, NEW a \in Sessions \cup {NoSession}, NEW v, AreaOf(v, a),
         NEW kind \in Kinds, NEW s \in Sessions, NEW key \in TabKeys, NEW root \in Directories
  PROVE  AreaOf(Open(v, a, kind, s, key, root), a)
<1> DEFINE o == Opened(v, kind, s, key, root)
           shown == Focus(o.v, a, o.at)
<1>1. /\ BarTyped(o.v) /\ o.at \in 1 .. Len(o.v.tabs)
      /\ o.v.shows = v.shows /\ o.v.multi = v.multi /\ o.v.mode = v.mode
  BY OpenedTab DEF AreaOf
<1>2. Open(v, a, kind, s, key, root) =
        IF a # NoSession /\ shown.focus # SessionView THEN SetActiveTab(shown, a, kind)
        ELSE shown
  BY DEF Open
<1> HIDE DEF o
<1>3. /\ BarTyped(shown)
      /\ shown.shows = v.shows /\ shown.multi = v.multi /\ shown.mode = v.mode
  BY <1>1, Focused
<1> HIDE DEF shown
<1>4. CASE a # NoSession /\ shown.focus # SessionView
  BY <1>2, <1>3, <1>4, ActiveTabSet
<1>5. CASE a = NoSession
  BY <1>2, <1>3, <1>5 DEF AreaOf
<1>6. CASE a # NoSession /\ shown.focus = SessionView
  <2>1. InModeOf(shown, a) /\ ActsFor(shown, a)
    BY <1>3, <1>6 DEF AreaOf, InModeOf, ActsFor
  <2> QED BY <1>2, <1>3, <1>6, <2>1 DEF AreaOf
<1> QED BY <1>4, <1>5, <1>6

(* A list with one place taken out. *)
LEMMA Removed ==
  ASSUME NEW q \in Seq(Tab), NEW i \in 1 .. Len(q)
  PROVE  /\ RemoveAt(q, i) \in Seq(Tab) /\ Len(RemoveAt(q, i)) = Len(q) - 1
         /\ \A j \in 1 .. Len(q) - 1 :
              RemoveAt(q, i)[j] = IF j < i THEN q[j] ELSE q[j + 1]
<1> DEFINE before == SubSeq(q, 1, i - 1)
           after == SubSeq(q, i + 1, Len(q))
<1>1. /\ before \in Seq(Tab) /\ Len(before) = i - 1
      /\ \A j \in 1 .. i - 1 : before[j] = q[j]
  OBVIOUS
<1>2. /\ after \in Seq(Tab) /\ Len(after) = Len(q) - i
      /\ \A j \in 1 .. Len(q) - i : after[j] = q[i + j]
  OBVIOUS
<1>3. RemoveAt(q, i) = before \o after
  BY DEF RemoveAt
<1> HIDE DEF before, after
<1>4. before \o after \in Seq(Tab) /\ Len(before \o after) = Len(q) - 1
  BY <1>1, <1>2
<1>5. ASSUME NEW j \in 1 .. Len(q) - 1
      PROVE  (before \o after)[j] = IF j < i THEN q[j] ELSE q[j + 1]
  <2>1. CASE j < i
    BY <1>1, <1>2, <2>1
  <2>2. CASE ~ (j < i)
    <3> DEFINE m == j - (i - 1)
    <3>1. (before \o after)[j] = after[m]
      BY <1>1, <1>2, <2>2
    <3>2. m \in 1 .. Len(q) - i /\ i + m = j + 1
      BY <2>2
    <3> HIDE DEF m
    <3>3. after[m] = q[j + 1]
      BY <1>2, <3>2
    <3> QED BY <2>2, <3>1, <3>3
  <2> QED BY <2>1, <2>2
<1> QED BY <1>3, <1>4, <1>5

(* Closing a tab, in front or not, keeps the area as it is. *)
LEMMA TabClosed ==
  ASSUME NEW v, BarTyped(v), NEW i \in 1 .. Len(v.tabs)
  PROVE  /\ BarTyped(CloseMainTab(v, i))
         /\ \A a : AreaOf(v, a) => AreaOf(CloseMainTab(v, i), a)
<1> DEFINE ts == RemoveAt(v.tabs, i)
           f == IF v.focus = i THEN SessionView
                ELSE IF v.focus > i THEN v.focus - 1 ELSE v.focus
           w == CloseMainTab(v, i)
<1>1. /\ v.tabs \in Seq(Tab) /\ v.focus \in Nat /\ v.focus <= Len(v.tabs) /\ v \in Bars
  BY DEF BarTyped, Bars
<1>2. /\ ts \in Seq(Tab) /\ Len(ts) = Len(v.tabs) - 1
      /\ \A j \in 1 .. Len(v.tabs) - 1 :
           ts[j] = IF j < i THEN v.tabs[j] ELSE v.tabs[j + 1]
  BY <1>1, Removed
<1>3. w = [v EXCEPT !.tabs = ts, !.focus = f]
  BY DEF CloseMainTab
<1> HIDE DEF ts
<1>4. f \in Nat /\ f <= Len(ts)
  BY <1>1, <1>2 DEF SessionView
<1>5. f # SessionView => v.focus # SessionView /\ ts[f] = v.tabs[v.focus]
  <2>1. CASE v.focus < i
    BY <1>1, <1>2, <2>1 DEF SessionView
  <2>2. CASE v.focus > i
    BY <1>1, <1>2, <2>2 DEF SessionView
  <2>3. CASE v.focus = i
    BY <2>3
  <2> QED BY <1>1, <2>1, <2>2, <2>3
<1> HIDE DEF f, w
<1>6. /\ w \in Bars /\ w.tabs = ts /\ w.focus = f
      /\ w.shows = v.shows /\ w.multi = v.multi /\ w.mode = v.mode
  BY <1>1, <1>2, <1>3, <1>4 DEF Bars
<1>7. BarTyped(w)
  BY <1>4, <1>6 DEF BarTyped
<1>8. ASSUME NEW a, AreaOf(v, a) PROVE AreaOf(w, a)
  <2> SUFFICES ASSUME a # NoSession PROVE InModeOf(w, a) /\ ActsFor(w, a)
    BY <1>7 DEF AreaOf
  <2>1. InModeOf(v, a) /\ ActsFor(v, a)
    BY <1>8 DEF AreaOf
  <2>2. InModeOf(w, a)
    BY <1>6, <2>1 DEF InModeOf
  <2>3. ActsFor(w, a)
    BY <1>5, <1>6, <2>1 DEF ActsFor
  <2> QED BY <2>2, <2>3
<1> QED BY <1>7, <1>8 DEF w

(* One round of onSessionRemoved's loop touches the tabs of its session only. *)
LEMMA HandedOver ==
  ASSUME Placed, NEW v, BarTyped(v), NEW s \in Sessions, NEW k \in Nat \ {0}
  PROVE  /\ BarTyped(HandOver(v, s, k))
         /\ \A a : a # s /\ AreaOf(v, a) => AreaOf(HandOver(v, s, k), a)
<1> DEFINE mine == k <= Len(v.tabs) /\ v.tabs[k].session = s
           heirs == {h \in live \ {s} : dir[h] # NoDir /\ <<dir[h], v.tabs[k].root>> \in Under}
           heir == CHOOSE h \in heirs : \A g \in heirs : h <= g
           w == HandOver(v, s, k)
<1>1. v.tabs \in Seq(Tab) /\ v.focus \in Nat /\ v.focus <= Len(v.tabs) /\ v \in Bars
  BY DEF BarTyped, Bars
<1>2. ASSUME NEW t \in Sessions \cup {NoSession}, mine, w = [v EXCEPT !.tabs[k].session = t]
      PROVE  BarTyped(w) /\ \A a : a # s /\ AreaOf(v, a) => AreaOf(w, a)
  <2> DEFINE ts == [v.tabs EXCEPT ![k].session = t]
  <2>1. k \in 1 .. Len(v.tabs) /\ v.tabs[k].session = s
    BY <1>1, <1>2
  <2>2. w = [v EXCEPT !.tabs = ts]
    <3>1. [v EXCEPT !.tabs[k].session = t] = [v EXCEPT !.tabs = ts]
      BY <1>1 DEF Bars
    <3> HIDE DEF ts, w
    <3> QED BY <1>2, <3>1
  <2>3. /\ ts \in Seq(Tab) /\ Len(ts) = Len(v.tabs)
        /\ \A j \in 1 .. Len(v.tabs) : j # k => ts[j] = v.tabs[j]
    <3> DEFINE q == v.tabs
    <3>1. q \in Seq(Tab) /\ k \in 1 .. Len(q)
      BY <1>1, <2>1
    <3> HIDE DEF q
    <3>2. /\ [q EXCEPT ![k].session = t] \in Seq(Tab)
          /\ Len([q EXCEPT ![k].session = t]) = Len(q)
          /\ \A j \in 1 .. Len(q) : j # k => [q EXCEPT ![k].session = t][j] = q[j]
      BY <3>1, Handed
    <3> QED BY <3>2 DEF q
  <2> HIDE DEF ts, w
  <2>4. /\ w \in Bars /\ w.tabs = ts /\ w.focus = v.focus
        /\ w.shows = v.shows /\ w.multi = v.multi /\ w.mode = v.mode
    BY <1>1, <2>2, <2>3 DEF Bars
  <2>5. BarTyped(w)
    BY <1>1, <2>3, <2>4 DEF BarTyped
  <2>6. ASSUME NEW a, a # s, AreaOf(v, a) PROVE AreaOf(w, a)
    <3> SUFFICES ASSUME a # NoSession PROVE InModeOf(w, a) /\ ActsFor(w, a)
      BY <2>5 DEF AreaOf
    <3>1. InModeOf(v, a) /\ ActsFor(v, a)
      BY <2>6 DEF AreaOf
    <3>2. InModeOf(w, a)
      BY <2>4, <3>1 DEF InModeOf
    <3>3. ActsFor(w, a)
      BY <1>1, <2>1, <2>3, <2>4, <2>6, <3>1 DEF ActsFor, SessionView
    <3> QED BY <3>2, <3>3
  <2> QED BY <2>5, <2>6
<1>3. CASE ~mine
  BY <1>3 DEF HandOver
<1>4. CASE mine /\ heirs # {}
  <2>1. heir \in Sessions
    <3>1. heirs \in SUBSET Nat
      BY TabsAssumption DEF TabsAssumption, Placed
    <3>2. heirs \subseteq Sessions
      BY DEF Placed
    <3> HIDE DEF heirs
    <3>3. \E h \in heirs : \A g \in heirs : h <= g
      BY <1>4, <3>1, Least
    <3> QED BY <3>2, <3>3
  <2>2. w = [v EXCEPT !.tabs[k].session = heir]
    BY <1>4 DEF HandOver
  <2> HIDE DEF heir, mine, w
  <2> QED BY <1>2, <1>4, <2>1, <2>2 DEF w
<1>5. CASE mine /\ heirs = {}
  <2>1. k \in 1 .. Len(v.tabs) /\ v.tabs[k].kind \in Kinds
    <3>1. k \in 1 .. Len(v.tabs)
      BY <1>1, <1>5
    <3>2. v.tabs[k] \in Tab
      BY <1>1, <3>1
    <3> QED BY <3>1, <3>2 DEF Tab
  <2>2. CASE v.tabs[k].kind = "git"
    <3>1. w = [v EXCEPT !.tabs[k].session = NoSession]
      BY <1>5, <2>2 DEF HandOver
    <3> QED BY <1>2, <1>5, <3>1
  <2>3. CASE v.tabs[k].kind = "files"
    <3>1. w = CloseMainTab(v, k)
      BY <1>5, <2>3 DEF HandOver
    <3> QED BY <2>1, <3>1, TabClosed
  <2> QED BY <2>1, <2>2, <2>3 DEF Kinds
<1> QED BY <1>3, <1>4, <1>5

(* The loop of onSessionRemoved has a run of every length. *)
LEMMA SteppedThrough ==
  ASSUME NEW v, NEW s, NEW n \in Nat
  PROVE  \E g : g = [k \in 0 .. n |-> IF k = 0 THEN v ELSE HandOver(g[k - 1], s, k)]
<1> DEFINE Run(g, m) ==
             g = [k \in 0 .. m |-> IF k = 0 THEN v ELSE HandOver(g[k - 1], s, k)]
           Reached == {m \in Nat : \E g : Run(g, m)}
<1>1. 0 \in Reached
  <2> DEFINE g == [k \in 0 .. 0 |-> v]
  <2>1. Run(g, 0)
    OBVIOUS
  <2> QED BY <2>1
<1>2. ASSUME NEW m \in Reached PROVE m + 1 \in Reached
  <2>1. PICK g : Run(g, m)
    OBVIOUS
  <2> DEFINE h == [k \in 0 .. m + 1 |->
                     IF k = 0 THEN v ELSE HandOver(g[k - 1], s, k)]
  <2>2. \A k \in 0 .. m : h[k] = g[k]
    BY <2>1
  <2>3. Run(h, m + 1)
    <3>1. ASSUME NEW k \in 0 .. m + 1, k # 0 PROVE g[k - 1] = h[k - 1]
      <4>1. k - 1 \in 0 .. m
        BY <3>1
      <4> HIDE DEF h
      <4> QED BY <2>2, <4>1
    <3> DEFINE stepped == [k \in 0 .. m + 1 |->
                             IF k = 0 THEN v ELSE HandOver(h[k - 1], s, k)]
    <3>2. h = stepped
      BY <3>1
    <3> QED BY <3>2
  <2> HIDE DEF h, Run
  <2> QED BY <2>3
<1>3. Reached = Nat
  <2>1. Reached \in SUBSET Nat
    OBVIOUS
  <2> HIDE DEF Reached
  <2> QED BY <1>1, <1>2, <2>1, Inducted
<1> QED BY <1>3

(* onSessionRemoved keeps the area of every other session. *)
LEMMA AllHandedOver ==
  ASSUME Placed, NEW v, BarTyped(v), NEW s \in Sessions
  PROVE  /\ BarTyped(OnSessionRemoved(v, s))
         /\ \A a : a # s /\ AreaOf(v, a) => AreaOf(OnSessionRemoved(v, s), a)
<1> DEFINE n == Len(v.tabs)
           after == CHOOSE g :
             g = [k \in 0 .. n |-> IF k = 0 THEN v ELSE HandOver(g[k - 1], s, k)]
           Fit(w) == BarTyped(w) /\ \A a : a # s /\ AreaOf(v, a) => AreaOf(w, a)
           Fine == {k \in Nat : k <= n => Fit(after[k])}
<1>1. OnSessionRemoved(v, s) = after[n]
  BY DEF OnSessionRemoved
<1>2. n \in Nat
  BY DEF BarTyped, Bars
<1> HIDE DEF n
<1>3. after = [k \in 0 .. n |-> IF k = 0 THEN v ELSE HandOver(after[k - 1], s, k)]
  BY <1>2, SteppedThrough
<1> HIDE DEF after
<1>4. /\ after[0] = v
      /\ \A k \in Nat : k + 1 <= n => after[k + 1] = HandOver(after[k], s, k + 1)
  <2>1. after[0] = v
    BY <1>2, <1>3
  <2>2. ASSUME NEW k \in Nat, k + 1 <= n
        PROVE  after[k + 1] = HandOver(after[k], s, k + 1)
    <3>1. k + 1 \in 0 .. n /\ k + 1 # 0 /\ (k + 1) - 1 = k
      BY <1>2, <2>2
    <3>2. after[k + 1] = HandOver(after[(k + 1) - 1], s, k + 1)
      BY <1>3, <3>1
    <3> QED BY <3>1, <3>2
  <2> QED BY <2>1, <2>2
<1>5. 0 \in Fine
  BY <1>4
<1>6. ASSUME NEW k \in Fine PROVE k + 1 \in Fine
  <2> SUFFICES ASSUME k + 1 <= n PROVE Fit(after[k + 1])
    OBVIOUS
  <2>1. k \in Nat /\ Fit(after[k])
    BY <1>2
  <2>2. after[k + 1] = HandOver(after[k], s, k + 1) /\ k + 1 \in Nat \ {0}
    BY <1>4, <2>1
  <2> DEFINE w == after[k]
  <2>3. BarTyped(w)
    BY <2>1
  <2> HIDE DEF w
  <2>4. /\ BarTyped(HandOver(w, s, k + 1))
        /\ \A a : a # s /\ AreaOf(w, a) => AreaOf(HandOver(w, s, k + 1), a)
    BY <2>2, <2>3, HandedOver
  <2> QED BY <2>1, <2>2, <2>4 DEF w
<1>7. Fine = Nat
  <2>1. Fine \in SUBSET Nat
    OBVIOUS
  <2> HIDE DEF Fine
  <2> QED BY <1>5, <1>6, <2>1, Inducted
<1>8. Fit(after[n])
  BY <1>2, <1>7
<1> QED BY <1>1, <1>8

(* A mode noted for one session leaves the area of the others alone. *)
LEMMA ModeNoted ==
  ASSUME NEW v, BarTyped(v), NEW s \in Sessions, NEW name \in OwnModes
  PROVE  /\ BarTyped([v EXCEPT !.mode[s] = name])
         /\ \A a : a # s /\ AreaOf(v, a) => AreaOf([v EXCEPT !.mode[s] = name], a)
<1> DEFINE w == [v EXCEPT !.mode[s] = name]
           m == [v.mode EXCEPT ![s] = name]
<1>1. w = [v EXCEPT !.mode = m]
  OBVIOUS
<1>2. m \in [Sessions -> OwnModes] /\ \A a : a # s => m[a] = v.mode[a]
  BY DEF BarTyped, Bars
<1> HIDE DEF m, w
<1>3. /\ BarTyped(w) /\ w.tabs = v.tabs /\ w.focus = v.focus
      /\ w.shows = v.shows /\ w.multi = v.multi /\ w.mode = m
  BY <1>1, <1>2 DEF BarTyped, Bars
<1>4. ASSUME NEW a, a # s, AreaOf(v, a) PROVE AreaOf(w, a)
  BY <1>2, <1>3, <1>4 DEF AreaOf, InModeOf, ActsFor
<1> QED BY <1>3, <1>4 DEF w

(* The inductive invariant: the area belongs to the active session.         *)
AreaInvariant ==
  Placed /\ AreaOf(bar, active)

(* The page starts with no session and no tab. *)
LEMMA AreaAtStart == InitTabs => AreaInvariant
<1> SUFFICES ASSUME InitTabs PROVE AreaInvariant
  OBVIOUS
<1>1. Placed
  BY TabsAssumption DEF InitTabs, Placed, TabsAssumption
<1>2. BarTyped(bar)
  BY TabsAssumption DEF InitTabs, BarTyped, Bars, OwnModes, SessionView, TabsAssumption
<1>3. active = NoSession
  BY DEF InitTabs
<1> QED BY <1>1, <1>2, <1>3 DEF AreaInvariant, AreaOf

(* What a step leaves to the new active session is the invariant again. *)
LEMMA AreaCarried ==
  ASSUME AreaInvariant, dir' = dir, live' \subseteq Sessions,
         lock' \in Modes \cup {"none"}, active' \in Sessions \cup {NoSession},
         AreaOf(bar', active')
  PROVE  AreaInvariant'
  BY DEF AreaInvariant, Placed, AreaOf, ActsFor, InModeOf

(* The bar removeLocalSession leaves, before it activates a neighbour. *)
LEMMA LeftBehind ==
  ASSUME Placed, BarTyped(bar), NEW s \in Sessions
  PROVE  LET left == [OnSessionRemoved(bar, s) EXCEPT !.mode[s] = "none"] IN
         /\ BarTyped(left)
         /\ \A a : a # s /\ AreaOf(bar, a) => AreaOf(left, a)
<1> DEFINE w == OnSessionRemoved(bar, s)
<1>1. BarTyped(w) /\ \A a : a # s /\ AreaOf(bar, a) => AreaOf(w, a)
  BY AllHandedOver
<1> HIDE DEF w
<1>2. /\ BarTyped([w EXCEPT !.mode[s] = "none"])
      /\ \A a : a # s /\ AreaOf(w, a) => AreaOf([w EXCEPT !.mode[s] = "none"], a)
  BY <1>1, ModeNoted DEF OwnModes
<1> QED BY <1>1, <1>2 DEF w

(* Sessions that appear: snapshot, session_start and session_update. *)
LEMMA RegistersInPlace ==
  ASSUME AreaInvariant, NEW s \in Sessions, Register(s)
  PROVE  AreaInvariant'
<1>1. PICK a \in {active, s} \cup (IF active = NoSession THEN live ELSE {}) :
        /\ active' = a
        /\ IF a = active THEN UNCHANGED bar ELSE Becomes(Activated(bar, a))
  BY DEF Register
<1>2. /\ dir' = dir /\ live' \subseteq Sessions /\ lock' \in Modes \cup {"none"}
  BY DEF Register, AreaInvariant, Placed
<1>3. CASE a = active
  <2>1. bar' = bar /\ active' = active
    BY <1>1, <1>3
  <2> QED BY <1>2, <2>1, AreaCarried DEF AreaInvariant, Placed
<1>4. CASE a # active
  <2>1. a \in Sessions
    BY <1>1, <1>4 DEF AreaInvariant, Placed
  <2>2. AreaOf(Activated(bar, a), a)
    BY <2>1, SessionShown DEF AreaInvariant, AreaOf
  <2>3. bar' = Activated(bar, a) /\ active' = a
    BY <1>1, <1>4 DEF Becomes
  <2>4. AreaOf(bar', active')
    BY <2>2, <2>3
  <2> QED BY <1>2, <2>1, <2>3, <2>4, AreaCarried
<1> QED BY <1>3, <1>4

(* removeLocalSession, with the activation of a neighbour. *)
LEMMA RemovesInPlace ==
  ASSUME AreaInvariant, NEW s \in Sessions, RemoveLocalSession(s)
  PROVE  AreaInvariant'
<1> DEFINE left == [OnSessionRemoved(bar, s) EXCEPT !.mode[s] = "none"]
<1>1. BarTyped(left) /\ \A a : a # s /\ AreaOf(bar, a) => AreaOf(left, a)
  BY LeftBehind DEF AreaInvariant, AreaOf
<1>2. PICK a : /\ active' = a
               /\ \/ /\ a \in {active, NoSession} /\ a # s /\ bar' = left
                  \/ a \in live' /\ bar' = Activated(left, a)
  <2>1. NoSession \notin Sessions /\ s \notin live'
    BY TabsAssumption DEF TabsAssumption, RemoveLocalSession
  <2> HIDE DEF left
  <2>2. CASE live' = {} \/ (active # s /\ active # NoSession)
    <3>1. PICK a \in {IF active = s THEN NoSession ELSE active} \cup live' :
            /\ active' = a
            /\ Becomes(IF a \in {active, NoSession} THEN left ELSE Activated(left, a))
      BY <2>2 DEF RemoveLocalSession, left
    <3> QED BY <2>1, <3>1 DEF Becomes
  <2>3. CASE ~ (live' = {} \/ (active # s /\ active # NoSession))
    <3>1. \E a \in live' : active' = a /\ Becomes(Activated(left, a))
      BY <2>3 DEF RemoveLocalSession, left
    <3> QED BY <3>1 DEF Becomes
  <2> QED BY <2>2, <2>3
<1>3. /\ dir' = dir /\ live' \subseteq Sessions /\ lock' \in Modes \cup {"none"}
  BY DEF RemoveLocalSession, AreaInvariant, Placed
<1> HIDE DEF left
<1>4. CASE a \in {active, NoSession} /\ a # s /\ bar' = left
  <2>1. AreaOf(bar, a)
    BY <1>4 DEF AreaInvariant, AreaOf
  <2>2. AreaOf(bar', active')
    BY <1>1, <1>2, <1>4, <2>1
  <2> QED BY <1>2, <1>3, <1>4, <2>2, AreaCarried DEF AreaInvariant, Placed
<1>5. CASE a \in live' /\ bar' = Activated(left, a)
  <2>1. a \in Sessions
    BY <1>3, <1>5
  <2>2. AreaOf(Activated(left, a), a)
    BY <1>1, <2>1, SessionShown DEF AreaInvariant
  <2>3. AreaOf(bar', active')
    BY <1>2, <1>5, <2>2
  <2> QED BY <1>2, <1>3, <2>1, <2>3, AreaCarried
<1> QED BY <1>2, <1>4, <1>5

(* The buttons of the tab bar. *)
LEMMA ClicksInPlace ==
  ASSUME AreaInvariant, NEW name \in Modes \cup Global \cup {"multi"}, ClickTab(name)
  PROVE  AreaInvariant'
<1> DEFINE n == Responsive(name)
           w == SetActiveTab(bar, active, n)
<1>1. n \in Modes \cup Kinds \cup Global \cup {"multi"}
  BY TabsAssumption DEF Responsive, TabsAssumption
<1>2. /\ active # NoSession \/ n \in Global \cup {"multi"}
      /\ bar' = w
      /\ \E a \in IF n = "multi" THEN {active} \cup live ELSE {active} : active' = a
      /\ dir' = dir /\ live' = live /\ lock' = lock
  BY DEF ClickTab, Becomes
<1> HIDE DEF n
<1>3. active' \in Sessions \cup {NoSession} /\ live' \subseteq Sessions
      /\ lock' \in Modes \cup {"none"} /\ (n # "multi" => active' = active)
  BY <1>2 DEF AreaInvariant, Placed
<1>4. BarTyped(bar)
  BY DEF AreaInvariant, AreaOf
<1>5. n \in Global \cup {"multi"} => w = EnterMode(bar, active, n)
  BY DEF SetActiveTab, Global, Kinds
<1>6. AreaOf(w, active')
  <2>1. CASE n = "multi"
    <3>1. w = [bar EXCEPT !.multi = TRUE]
      BY <1>5, <2>1 DEF EnterMode
    <3>2. BarTyped(w) /\ w.multi
      BY <1>4, <3>1 DEF BarTyped, Bars
    <3> HIDE DEF w
    <3> QED BY <3>2 DEF AreaOf, InModeOf, ActsFor
  <2>2. CASE n # "multi" /\ active = NoSession
    <3>1. w = EnterMode(bar, active, n)
      BY <1>2, <1>5, <2>2
    <3>2. BarTyped(EnterMode(bar, active, n))
      BY <1>1, <1>2, <1>4, <2>2, BarsMode
    <3> QED BY <1>3, <2>2, <3>1, <3>2 DEF AreaOf
  <2>3. CASE n # "multi" /\ active # NoSession
    <3>1. active \in Sessions
      BY <2>3 DEF AreaInvariant, Placed
    <3> QED BY <1>1, <1>3, <1>4, <2>3, <3>1, ActiveTabSet DEF AreaInvariant
  <2> QED BY <2>1, <2>2, <2>3
<1> HIDE DEF w
<1> QED BY <1>2, <1>3, <1>6, AreaCarried

(* A mode without tabs leaves nothing of another session on screen. *)
LEMMA PlainModeEntered ==
  ASSUME NEW v, BarTyped(v), NEW a \in Sessions, NEW name \in Modes, name \notin Kinds
  PROVE  AreaOf(EnterMode(v, a, name), a)
<1>1. a # NoSession
  BY TabsAssumption DEF TabsAssumption
<1> DEFINE w == EnterMode(v, a, name)
<1>2. BarTyped(w) /\ InModeOf(w, a) /\ (~w.multi => w.shows \cap Kinds = {})
  BY <1>1, BarsMode
<1> HIDE DEF w
<1> QED BY <1>2 DEF AreaOf, ActsFor, w

(* The activations, and the chat mode a search asks for late. *)
LEMMA SessionsInPlace ==
  ASSUME AreaInvariant, NEW s \in Sessions,
         Activate(s) \/ FocusPane(s) \/ OpenFromDashboard(s) \/ HistoryFetched(s)
  PROVE  AreaInvariant'
<1>1. /\ Placed /\ BarTyped(bar) /\ AreaOf(bar, active) /\ dir' = dir
      /\ live' \subseteq Sessions /\ lock' \in Modes \cup {"none"}
      /\ active' \in Sessions \cup {NoSession}
  BY DEF AreaInvariant, AreaOf, Placed, Activate, FocusPane, OpenFromDashboard, HistoryFetched
<1>2. CASE Activate(s)
  <2>1. active' = s /\ bar' = Activated(bar, s)
    BY <1>2 DEF Activate, Becomes
  <2>2. AreaOf(Activated(bar, s), s)
    BY <1>1, SessionShown
  <2> QED BY <1>1, <2>1, <2>2, AreaCarried
<1>3. CASE FocusPane(s)
  <2>1. AreaOf(bar', active')
    BY <1>1, <1>3 DEF FocusPane, AreaOf, InModeOf, ActsFor
  <2> QED BY <1>1, <2>1, AreaCarried
<1>4. CASE OpenFromDashboard(s)
  <2> DEFINE v == Activated(bar, s)
  <2>1. active' = s /\ bar' = EnterMode(v, s, "terminal")
    BY <1>4 DEF OpenFromDashboard, Becomes
  <2>2. BarTyped(v)
    BY <1>1, SessionShown DEF AreaOf
  <2> HIDE DEF v
  <2>3. AreaOf(EnterMode(v, s, "terminal"), s)
    BY <2>2, PlainModeEntered, TabsAssumption DEF Kinds, TabsAssumption
  <2> QED BY <1>1, <2>1, <2>3, AreaCarried
<1>5. CASE HistoryFetched(s)
  <2>1. "chat" \in Modes /\ active' = active
    BY <1>5 DEF HistoryFetched
  <2>2. CASE s = active
    <3>1. bar' = EnterMode(bar, s, "chat")
      BY <1>5, <2>2 DEF HistoryFetched
    <3>2. AreaOf(EnterMode(bar, s, "chat"), s)
      BY <1>1, <2>1, PlainModeEntered DEF Kinds
    <3> QED BY <1>1, <2>1, <2>2, <3>1, <3>2, AreaCarried
  <2>3. CASE s # active
    <3> DEFINE v == [bar EXCEPT !.mode[s] = "chat"]
    <3>1. bar' = v
      BY <1>5, <2>3 DEF HistoryFetched
    <3>2. AreaOf(v, active)
      BY <1>1, <2>1, <2>3, ModeNoted DEF OwnModes
    <3> HIDE DEF v
    <3> QED BY <1>1, <2>1, <3>1, <3>2, AreaCarried
  <2> QED BY <2>2, <2>3
<1> QED BY <1>2, <1>3, <1>4, <1>5

(* The badges, the menus and the board button that open tabs. *)
LEMMA OpensInPlace ==
  ASSUME AreaInvariant, NEW s \in Sessions,
         OpenBranch(s) \/ OpenBoard(s) \/ \E kind \in Kinds : OpenTab(s, kind)
  PROVE  AreaInvariant'
<1>1. /\ Placed /\ BarTyped(bar) /\ AreaOf(bar, active) /\ dir' = dir
      /\ live' \subseteq Sessions /\ lock' \in Modes \cup {"none"}
      /\ active' \in Sessions \cup {NoSession}
  BY DEF AreaInvariant, AreaOf, Placed, OpenBranch, OpenBoard, OpenTab
<1>2. /\ active \in Sessions \cup {NoSession} /\ Team \in TabKeys
      /\ s # NoSession /\ (dir[s] # NoDir => dir[s] \in Directories /\ Project(s) \in TabKeys)
      /\ "files" \in Kinds /\ "git" \in Kinds
  BY <1>1, TabsAssumption DEF Placed, TabKeys, Project, Kinds, TabsAssumption
<1>3. CASE OpenBranch(s)
  <2> DEFINE v == Activated(bar, s)
  <2>1. /\ active' = s /\ dir[s] # NoDir
        /\ bar' = Open(v, s, "git", s, Project(s), dir[s])
    BY <1>3 DEF OpenBranch, Becomes
  <2>2. AreaOf(v, s)
    BY <1>1, SessionShown
  <2> HIDE DEF v
  <2>3. AreaOf(Open(v, s, "git", s, Project(s), dir[s]), s)
    BY <1>1, <1>2, <2>1, <2>2, TabShown
  <2> QED BY <1>1, <2>1, <2>3, AreaCarried
<1>4. CASE OpenBoard(s)
  <2>1. /\ active' = active /\ Board[s] \in Directories
        /\ bar' = Open(bar, active, "files", s, Team, Board[s])
    BY <1>4, TabsAssumption DEF OpenBoard, Becomes, TabsAssumption
  <2>2. AreaOf(Open(bar, active, "files", s, Team, Board[s]), active)
    BY <1>1, <1>2, <2>1, TabShown
  <2> QED BY <1>1, <2>1, <2>2, AreaCarried
<1>5. ASSUME NEW kind \in Kinds, OpenTab(s, kind) PROVE AreaInvariant'
  <2>1. /\ active' = active /\ dir[s] # NoDir
        /\ bar' = Open(bar, active, kind, s, Project(s), dir[s])
    BY <1>5 DEF OpenTab, Becomes
  <2>2. AreaOf(Open(bar, active, kind, s, Project(s), dir[s]), active)
    BY <1>1, <1>2, <2>1, TabShown
  <2> QED BY <1>1, <2>1, <2>2, AreaCarried
<1> QED BY <1>3, <1>4, <1>5

(* Every step keeps the area with the active session. *)
LEMMA AllInPlace ==
  ASSUME AreaInvariant, [NextTabs]_tabVars
  PROVE  AreaInvariant'
<1>1. Placed /\ BarTyped(bar) /\ AreaOf(bar, active)
  BY DEF AreaInvariant, AreaOf
<1>2. CASE \E s \in Sessions :
       \/ Activate(s) \/ Register(s) \/ RemoveLocalSession(s) \/ FocusPane(s)
       \/ OpenBranch(s) \/ OpenBoard(s) \/ OpenFromDashboard(s) \/ HistoryFetched(s)
       \/ \E kind \in Kinds : OpenTab(s, kind)
  BY <1>2, SessionsInPlace, RegistersInPlace, RemovesInPlace, OpensInPlace
<1>3. CASE Disconnect \/ Home
  <2>1. /\ active' = NoSession /\ bar' = bar /\ dir' = dir /\ lock' = lock
        /\ live' \in {live, {}}
    BY <1>3 DEF Disconnect, Home
  <2> QED BY <1>1, <2>1, AreaCarried DEF AreaOf, Placed
<1>4. CASE CloseFilesTab
  <2>1. bar.focus \in 1 .. Len(bar.tabs) /\ bar' = CloseMainTab(bar, bar.focus)
    BY <1>1, <1>4 DEF CloseFilesTab, Displayed, SessionView, BarTyped, Bars
  <2>2. AreaOf(CloseMainTab(bar, bar.focus), active)
    BY <1>1, <2>1, TabClosed
  <2>3. active' = active /\ dir' = dir /\ lock' = lock /\ live' = live
    BY <1>4 DEF CloseFilesTab
  <2> QED BY <1>1, <2>1, <2>2, <2>3, AreaCarried DEF Placed
<1>5. CASE \E name \in Modes \cup Global \cup {"multi"} : ClickTab(name)
  BY <1>5, ClicksInPlace
<1>6. ASSUME NEW w \in Widths, Resize(w) PROVE AreaInvariant'
  <2>1. /\ \/ bar' = bar
           \/ active # NoSession /\ bar' = EnterMode(bar, active, "terminal")
        /\ active' = active /\ dir' = dir /\ lock' = lock /\ live' = live
    BY <1>6 DEF Resize
  <2>2. active # NoSession => AreaOf(EnterMode(bar, active, "terminal"), active)
    BY <1>1, PlainModeEntered, TabsAssumption DEF Placed, Kinds, TabsAssumption
  <2>3. AreaOf(bar', active')
    BY <1>1, <2>1, <2>2
  <2> QED BY <1>1, <2>1, <2>3, AreaCarried DEF Placed
<1>7. CASE \E l \in (Lockable \cap Modes) \cup {"none"} : SetLock(l)
  <2>1. /\ bar' = bar /\ active' = active /\ dir' = dir /\ live' = live
        /\ lock' \in Modes \cup {"none"}
    BY <1>7 DEF SetLock
  <2> QED BY <1>1, <2>1, AreaCarried DEF Placed
<1>8. CASE UNCHANGED tabVars
  <2>1. /\ bar' = bar /\ active' = active /\ dir' = dir /\ live' = live /\ lock' = lock
    BY <1>8 DEF tabVars
  <2> QED BY <1>1, <2>1, AreaCarried DEF Placed
<1> QED BY <1>2, <1>3, <1>4, <1>5, <1>6, <1>7, <1>8 DEF NextTabs

(* Every step of the page leaves the bar well formed and the area to the
   active session. *)
THEOREM AreaInvariantHolds == SpecTabs => []AreaInvariant
BY AreaAtStart, AllInPlace, PTL DEF SpecTabs

(* The tab on screen reads, saves and commits for the session on screen, in
   its directory: through hand-overs, removals, reconnections and resizes. *)
THEOREM PaneIsActives == SpecTabs => []PaneActsForActive
<1>1. AreaInvariant => PaneActsForActive
  BY DEF AreaInvariant, AreaOf, ActsFor, PaneActsForActive, Displayed, SessionView
<1> QED BY <1>1, AreaInvariantHolds, PTL

(* The area shows the active session's own mode, or one of no session. *)
THEOREM ModeFollowsActive == SpecTabs => []ModeIsActives
<1>1. AreaInvariant => ModeIsActives
  BY DEF AreaInvariant, AreaOf, InModeOf, ModeIsActives
<1> QED BY <1>1, AreaInvariantHolds, PTL

=============================================================================

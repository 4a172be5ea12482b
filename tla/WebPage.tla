--------------------------------- MODULE WebPage --------------------------------
(***************************************************************************)
(* A data maintenance page of the user interface in its browser: the       *)
(* unsaved changes of its grid (common/static/js/frepple.js, upload and    *)
(* grid), the dialogs and icons around it, the guided tour that leads from *)
(* page to page, and the server that answers its requests                  *)
(* (common/report.py).                                                     *)
(*                                                                         *)
(* Callbacks run one at a time and to their end.  The user clicks, a       *)
(* request is handled by the server, and its answer is handled by the      *)
(* page, in steps of their own and in any order.  An answer that does not  *)
(* come, or a request that never arrives, is an error for the page; a      *)
(* request whose answer was given up is not handled later.                 *)
(*                                                                         *)
(* The original value of record k is -k, the n-th text that the user types *)
(* is n, and a copy of record k is record k + Records.                     *)
(***************************************************************************)
EXTENDS JqGrid, GuidedTour

CONSTANTS
  Records,         (* the records at the beginning are 1..Records          *)
  GridUrl,         (* the page with the grid                               *)
  OtherUrl,        (* any other page                                       *)
  MaxPosts,        (* bound: posts under way at a time                     *)
  Visits           (* the visits that are looked at                        *)

ASSUME RecordsAssumption == Records \in Nat /\ Key = 1..(2 * Records)
ASSUME UrlAssumption ==
  GridUrl # OtherUrl /\ \A p \in Place : Chapters[p[1]][p[2]] \in {GridUrl, OtherUrl}

(* A visit: a careful user waits for the answers, completes what is open   *)
(* before starting something else, and does not sort, turn pages or change *)
(* the set of records while there are unsaved changes.                     *)
Visit ==
  [careful : BOOLEAN,
   failures : BOOLEAN,      \* requests may fail, in part or as a whole
   clicks : Nat,            \* bound: what the user does
   texts : Nat,             \* bound: the texts the user types
   tour : TourState]

ASSUME VisitAssumption ==
  MaxPosts \in Nat /\ Visits \subseteq Visit /\ \A v \in Visits : At(v.tour) \in Place

VARIABLES
  visit,
  db,              (* the records of the database and their values         *)
  url,             (* the page that is displayed                           *)
  grid,
  enabled,         (* the icons to save and to undo are enabled            *)
  armed,           (* warnUnsavedChanges is bound to beforeunload          *)
  marked,          (* the icons to copy and to delete are enabled          *)
  dialog,          (* the dialog of the page                               *)
  post,            (* the posts of the page                                *)
  tour,
  clicks,          (* how often the user may still click                   *)
  typed,           (* how many texts the user typed                        *)
  edits,           (* history: what the user typed in each record and      *)
                   (* neither saved nor cancelled, or Blank                *)
  stayed,          (* history: the user was warned since, and stayed       *)
  announced,       (* history: the records that were to be deleted         *)
  stale            (* history: records came or went unbeknown to the grid  *)

upload == <<enabled, armed, stayed, edits>>
user == <<visit, clicks, typed, announced>>
vars == <<db, url, grid, marked, dialog, post, tour, stale, upload, user>>

NoEdits == [k \in Key |-> Blank]

(* The dialog keeps its buttons, and they the selected rows, when it is    *)
(* closed.  live: the array of rows is still the one of the grid.          *)
NoDialog ==
  [open |-> FALSE, title |-> "", buttons |-> "none", live |-> FALSE, sel |-> {}, told |-> {}]

Post == 1..MaxPosts
Request ==
  [kind : {"save", "delete", "copy"}, rows : SUBSET [key : Key, value : Int],
   stage : {"free", "sent", "ok", "error", "orphan"}]
NoPost == [kind |-> "save", rows |-> {}, stage |-> "free"]

NoGrid == [NewGrid EXCEPT !.load = NoLoad]
GridOf(u) == IF u = GridUrl THEN NewGrid ELSE NoGrid

Init ==
  /\ visit \in Visits
  /\ db = [k \in 1..Records |-> -k]
  /\ url = GridUrl
  /\ grid = NewGrid
  /\ enabled = FALSE /\ armed = FALSE /\ marked = FALSE
  /\ dialog = NoDialog
  /\ post = [i \in Post |-> NoPost]
  /\ tour = visit.tour
  /\ clicks = visit.clicks
  /\ typed = 0
  /\ edits = NoEdits
  /\ stayed = FALSE
  /\ announced = {}
  /\ stale = FALSE

Dialog ==
  [open : BOOLEAN, title : {"", "sort", "delete", "copy", "error"},
   buttons : {"none", "sort", "delete", "copy"}, live : BOOLEAN, sel : SUBSET Key,
   told : SUBSET Key]

-----------------------------------------------------------------------------
Quiet == ~Loading(grid) /\ ~grid.failed /\ ~stale /\ \A i \in Post : post[i].stage = "free"

Unsaved == edits # NoEdits

(* The page was left while a post was under way, which goes on.            *)
Orphaned == \E i \in Post : post[i].stage = "orphan"

Click(allowed) ==
  /\ clicks > 0
  /\ clicks' = clicks - 1
  /\ visit.careful => allowed
  /\ UNCHANGED visit

OnGrid == url = GridUrl /\ Click(Quiet /\ ~dialog.open)

OnGridIfSaved == url = GridUrl /\ Click(Quiet /\ ~dialog.open /\ ~Unsaved)

(* selarrrow of the grid is replaced by a new array.                       *)
Detach(d) == IF d.live THEN [d EXCEPT !.live = FALSE, !.sel = grid.sel] ELSE d

(* The page is left for page u with the tour t, after a warning when it is *)
(* armed; when the user stays, the tour is s.                              *)
Leave(u, t) ==
  /\ url' = u
  /\ grid' = GridOf(u)
  /\ enabled' = FALSE /\ armed' = FALSE /\ marked' = FALSE
  /\ dialog' = NoDialog
  /\ post' = [i \in Post |->
                IF post[i].stage \in {"ok", "error"} THEN NoPost
                ELSE IF post[i].stage = "sent" THEN [post[i] EXCEPT !.stage = "orphan"]
                ELSE post[i]]
  /\ tour' = t
  /\ edits' = NoEdits
  /\ stayed' = FALSE
  /\ UNCHANGED <<db, stale>>

(* warnUnsavedChanges() unbinds itself.                                    *)
Stay(s) ==
  /\ armed
  /\ armed' = FALSE
  /\ stayed' = TRUE
  /\ tour' = s
  /\ UNCHANGED <<db, url, grid, enabled, marked, dialog, post, edits, stale>>

GoTo(u, t, s) == Leave(u, t) \/ Stay(s)

-----------------------------------------------------------------------------
(* Variant: the warning is only bound with the first change.               *)
UploadSelectOnce(r, text) ==
  /\ enabled' = TRUE
  /\ armed' = (armed \/ ~enabled)
  /\ stayed' = FALSE
  /\ edits' = IF grid.rows[r].input THEN [edits EXCEPT ![grid.rows[r].key] = text] ELSE edits

(* upload.select() before a change is accepted, for row r of the grid.     *)
UploadSelect(r, text) ==
  /\ enabled' = TRUE
  /\ armed' = TRUE
  /\ stayed' = FALSE
  /\ edits' = IF grid.rows[r].input THEN [edits EXCEPT ![grid.rows[r].key] = text] ELSE edits

(* What the user left in a text field: the old value or a new text.        *)
Text == {grid.saved.value} \cup IF typed < visit.texts THEN {typed + 1} ELSE {}

(* A cell is saved, which gives grid g.                                    *)
CellSaved(r, text, g) ==
  /\ grid' = g
  /\ IF Accepts(grid, r, text) THEN UploadSelect(r, text) ELSE UNCHANGED upload
  /\ typed' = IF text = grid.saved.value THEN typed ELSE typed + 1
  /\ UNCHANGED <<db, url, marked, dialog, post, tour, announced, stale>>

ClickCell ==
  /\ OnGrid
  /\ \E r \in DOMAIN grid.rows \ {grid.saved.row}, text \in Text :
       CellSaved(grid.saved.row, text, EditCell(grid, r, text))

PressEnter ==
  /\ OnGrid
  /\ \E r \in DOMAIN grid.rows, text \in Text :
       grid.rows[r].input /\ CellSaved(r, text, SaveCell(grid, r, text))

PressEscape ==
  /\ OnGrid
  /\ \E r \in DOMAIN grid.rows : grid.rows[r].input /\ grid' = RestoreCell(grid, r)
  /\ UNCHANGED <<db, url, marked, dialog, post, tour, upload, typed, announced, stale>>

(* upload.save() and upload.undo(); d is the dialog afterwards.            *)
Send(kind, rows) ==
  \E i \in Post :
    /\ post[i].stage = "free"
    /\ post' = [post EXCEPT ![i] = [kind |-> kind, rows |-> rows, stage |-> "sent"]]

UploadSave ==
  IF enabled /\ ChangedCells(grid) # {} THEN Send("save", ChangedCells(grid)) ELSE UNCHANGED post

UploadUndoInPlace(d) ==        \* variant: the rows are not loaded again
  IF enabled
  THEN /\ dialog' = d
       /\ enabled' = FALSE /\ armed' = FALSE /\ stayed' = FALSE
       /\ edits' = NoEdits
       /\ UNCHANGED grid
  ELSE dialog' = d /\ UNCHANGED <<grid, upload>>

UploadUndo(d) ==
  IF enabled
  THEN /\ grid' = ReloadGrid(grid)
       /\ dialog' = Detach(d)
       /\ enabled' = FALSE /\ armed' = FALSE /\ stayed' = FALSE
       /\ edits' = NoEdits
  ELSE dialog' = d /\ UNCHANGED <<grid, upload>>

ClickSave ==
  /\ url = GridUrl /\ Click(Quiet /\ ~dialog.open /\ ~Editing(grid))
  /\ UploadSave
  /\ UNCHANGED <<db, url, grid, marked, dialog, tour, upload, typed, announced, stale>>

ClickUndo ==
  /\ OnGrid
  /\ UploadUndo(dialog)
  /\ UNCHANGED <<db, url, marked, post, tour, typed, announced, stale>>

-----------------------------------------------------------------------------
(* A click on the head of a column: upload.validateSort(), and then        *)
(* jqGrid's own handler, which stopPropagation() does not hold back.       *)
SortDialog ==
  [open |-> TRUE, title |-> "sort", buttons |-> "sort", live |-> FALSE, sel |-> {}, told |-> {}]

ClickHeader ==
  /\ OnGridIfSaved
  /\ IF enabled
     THEN grid' = SortData(grid) /\ dialog' = SortDialog
     ELSE grid' = SortData(ResetSelection(grid)) /\ dialog' = Detach(dialog)
  /\ UNCHANGED <<db, url, marked, post, tour, upload, typed, announced, stale>>

(* The pager: any page number may be typed (bound: up to Records).         *)
ClickPager ==
  /\ OnGridIfSaved
  /\ \E p \in 1..Records : grid' = TurnPage(grid, p)
  /\ dialog' = Detach(dialog)
  /\ UNCHANGED <<db, url, marked, post, tour, upload, typed, announced, stale>>

(* The check boxes: grid.markSelectedRow() and grid.markAllRows().         *)
SelectRow ==
  /\ OnGrid
  /\ \E k \in Shown(grid) : grid' = SetSelection(grid, k)
  /\ marked' = (grid'.sel # {})
  /\ UNCHANGED <<db, url, dialog, post, tour, upload, typed, announced, stale>>

SelectAllRows ==
  /\ OnGrid
  /\ grid' = SelectAll(grid)
  /\ marked' = grid'.all
  /\ dialog' = Detach(dialog)
  /\ UNCHANGED <<db, url, post, tour, upload, typed, announced, stale>>

(* grid.showDelete() and grid.showCopy(): a single record is deleted on a  *)
(* page of its own.                                                        *)
AskFirst(kind) ==
  /\ marked /\ grid.sel # {}
  /\ dialog' = [open |-> TRUE, title |-> kind, buttons |-> kind, live |-> TRUE, sel |-> {},
                told |-> grid.sel]
  /\ UNCHANGED <<db, url, grid, marked, post, tour, upload, stale>>

ShowDelete ==
  /\ OnGridIfSaved
  /\ IF Cardinality(grid.sel) = 1 THEN marked /\ GoTo(OtherUrl, NoTour, tour) ELSE AskFirst("delete")
  /\ UNCHANGED <<typed, announced>>

ShowCopy ==
  /\ OnGridIfSaved
  /\ AskFirst("copy")
  /\ UNCHANGED <<typed, announced>>

(* The buttons of the dialog.  They are there as long as no other call     *)
(* replaces them: the dialogs that report an error do not.                 *)
Selected == IF dialog.live THEN grid.sel ELSE dialog.sel

NoValue(k) == [key |-> k, value |-> Blank]

OnDialog == url = GridUrl /\ dialog.open /\ Click(Quiet /\ dialog.title = dialog.buttons)

Confirm ==
  /\ OnDialog
  /\ dialog.buttons \in {"delete", "copy"}
  /\ dialog.buttons = "copy" => Selected \subseteq 1..Records    \* bound: no copies of copies
  /\ Send(dialog.buttons, {NoValue(k) : k \in Selected})
  /\ announced' = IF dialog.buttons = "delete" THEN announced \cup dialog.told ELSE announced
  /\ UNCHANGED <<db, url, grid, marked, dialog, tour, upload, typed, stale>>

DialogSave ==
  /\ OnDialog
  /\ dialog.buttons = "sort"
  /\ UploadSave
  /\ dialog' = [dialog EXCEPT !.open = FALSE]
  /\ UNCHANGED <<db, url, grid, marked, tour, upload, typed, announced, stale>>

DialogUndo ==
  /\ OnDialog
  /\ dialog.buttons = "sort"
  /\ UploadUndo([dialog EXCEPT !.open = FALSE])
  /\ UNCHANGED <<db, url, marked, post, tour, typed, announced, stale>>

CloseDialog ==
  /\ url = GridUrl /\ dialog.open /\ Click(\A i \in Post : post[i].stage = "free")
  /\ dialog' = [dialog EXCEPT !.open = FALSE]
  /\ UNCHANGED <<db, url, grid, marked, post, tour, upload, typed, announced, stale>>

(* A link, the reload button or the address bar.                           *)
FollowLink ==
  /\ Click(~Loading(grid) /\ \A i \in Post : post[i].stage = "free")
  /\ \E u \in {GridUrl, OtherUrl} : GoTo(u, NoTour, tour)
  /\ UNCHANGED <<typed, announced>>

-----------------------------------------------------------------------------
(* The server: GridReport._generate_json_data() and parseJSONupload().     *)
(* The rows are sorted by a column without equal values, here the key: by  *)
(* one with ties, or when a page asks for no order and has no default, the *)
(* database may give each answer an order of its own, so that a record is  *)
(* on two pages or on none, which is not modelled.                         *)
Before(order, k, l) == IF order = "asc" THEN k < l ELSE l < k

Ranked(keys, order) ==
  [i \in 1..Cardinality(keys) |->
     CHOOSE k \in keys : Cardinality({l \in keys : Before(order, l, k)}) = i - 1]

Smaller(m, n) == IF m < n THEN m ELSE n
Larger(m, n) == IF m > n THEN m ELSE n

LastPage == Larger(1, (Cardinality(DOMAIN db) + PageSize - 1) \div PageSize)

(* The rows of a page, of which the server sends one too many and the grid *)
(* displays PageSize.                                                      *)
PageOf(page, order) ==
  LET keys == Ranked(DOMAIN db, order)
      first == (page - 1) * PageSize
  IN  [i \in 1..Smaller(PageSize, Cardinality(DOMAIN db) - first) |->
         [key |-> keys[first + i], value |-> db[keys[first + i]], dirty |-> FALSE, input |-> FALSE]]

ServeLoad ==
  /\ grid.load.stage = "asked"
  /\ LET page == Smaller(grid.load.page, LastPage)
     IN  grid' = [grid EXCEPT !.load.stage = "answered", !.load.page = page,
                              !.load.rows = PageOf(page, grid.load.order)]
  /\ stale' = FALSE
  /\ UNCHANGED <<db, url, marked, dialog, post, tour, upload, user>>

(* What becomes of a post whose records done could be changed; the client  *)
(* hears of success when these are all.                                    *)
Served(i, done) ==
  /\ \E stage \in IF post[i].stage = "orphan" THEN {"free"}
                   ELSE {IF done = post[i].rows THEN "ok" ELSE "error"}
                        \cup IF visit.failures THEN {"error"} ELSE {} :
       post' = [post EXCEPT ![i] = IF stage = "free" THEN NoPost ELSE [@ EXCEPT !.stage = stage]]
  /\ stale' = (stale \/ post[i].stage = "orphan")
  /\ UNCHANGED <<url, grid, marked, dialog, tour, upload, user>>

Arrived(i, kind) == post[i].stage \in {"sent", "orphan"} /\ post[i].kind = kind

(* Any of the possible changes may fail, if anything may fail.             *)
Done(possible) == IF visit.failures THEN SUBSET possible ELSE {possible}

CopyOf(k) == k + Records

ServeSave(i) ==
  /\ Arrived(i, "save")
  /\ \E done \in Done({c \in post[i].rows : c.key \in DOMAIN db}) :
       /\ db' = [k \in DOMAIN db |->
                   IF \E c \in done : c.key = k THEN (CHOOSE c \in done : c.key = k).value ELSE db[k]]
       /\ Served(i, done)

ServeDelete(i) ==
  /\ Arrived(i, "delete")
  /\ \E done \in Done({c \in post[i].rows : c.key \in DOMAIN db}) :
       /\ db' = [k \in DOMAIN db \ {c.key : c \in done} |-> db[k]]
       /\ Served(i, done)

ServeCopy(i) ==
  /\ Arrived(i, "copy")
  /\ \E done \in Done({c \in post[i].rows : c.key \in DOMAIN db /\ CopyOf(c.key) \notin DOMAIN db}) :
       /\ db' = [k \in DOMAIN db \cup {CopyOf(c.key) : c \in done} |->
                   IF k \in DOMAIN db THEN db[k] ELSE db[k - Records]]
       /\ Served(i, done)

LosePost(i) ==
  /\ visit.failures
  /\ post[i].stage = "sent"
  /\ post' = [post EXCEPT ![i].stage = "error"]
  /\ UNCHANGED <<db, url, grid, marked, dialog, tour, upload, user, stale>>

-----------------------------------------------------------------------------
(* The answers, handled by the page.                                       *)
LoadArrives ==
  /\ grid.load.stage = "answered"
  /\ grid' = AddJSONData(grid)
  /\ UNCHANGED <<db, url, marked, dialog, post, tour, upload, user, stale>>

LoadFails ==
  /\ visit.failures
  /\ Loading(grid)
  /\ grid' = LoadError(grid)
  /\ UNCHANGED <<db, url, marked, dialog, post, tour, upload, user, stale>>

Answered(i, stage, kinds) ==
  /\ post[i].stage = stage
  /\ post[i].kind \in kinds
  /\ post' = [post EXCEPT ![i] = NoPost]
  /\ UNCHANGED <<db, url, tour, user>>

Saved(i) ==
  /\ Answered(i, "ok", {"save"})
  /\ UploadUndo(dialog)
  /\ UNCHANGED <<marked, stale>>

DeletedOrCopied(i) ==
  /\ Answered(i, "ok", {"delete", "copy"})
  /\ marked' = FALSE
  /\ grid' = ReloadGrid(grid)
  /\ dialog' = [Detach(dialog) EXCEPT !.open = FALSE]
  /\ UNCHANGED <<upload, stale>>

Refused(i) ==
  /\ Answered(i, "error", {"save", "delete", "copy"})
  /\ dialog' = [dialog EXCEPT !.open = TRUE, !.title = "error"]
  /\ stale' = (stale \/ post[i].kind # "save")
  /\ UNCHANGED <<grid, marked, upload>>

-----------------------------------------------------------------------------
(* The guided tour.                                                        *)
TourOnly == UNCHANGED <<db, url, grid, marked, dialog, post, upload, stale>>

ShowStep(t) ==
  IF Url(t) = url THEN tour' = Show(t) /\ TourOnly
  ELSE GoTo(Url(t), Start(NoTour, t.chapter, t.step, t.autoplay), [t EXCEPT !.stalled = TRUE])

NextStep(t) ==
  IF Ends(t) THEN tour' = (IF t.autoplay = 1 THEN StopAutoplay(t) ELSE t) /\ TourOnly
  ELSE ShowStep(Forward(t))

OnTour == tour.open /\ Click(TRUE) /\ UNCHANGED <<typed, announced>>

StartTour ==
  /\ Click(TRUE)
  /\ ~tour.starting
  /\ tour' = Start(tour, 1, 1, 0)
  /\ TourOnly /\ UNCHANGED <<typed, announced>>

TourScript ==
  /\ tour.starting
  /\ ShowStep([tour EXCEPT !.starting = FALSE, !.open = TRUE])
  /\ UNCHANGED user

TourScriptFails ==
  /\ visit.failures
  /\ tour.starting
  /\ tour' = [tour EXCEPT !.starting = FALSE]
  /\ TourOnly /\ UNCHANGED user

ClickNext == OnTour /\ tour.next /\ NextStep(tour)
ClickPrevious == OnTour /\ tour.previous /\ ~AtFirst(tour) /\ ShowStep(Backward(tour))

ClickPlay ==
  /\ OnTour
  /\ IF tour.autoplay # 0 THEN tour' = StopAutoplay(tour) /\ TourOnly
     ELSE NextStep([tour EXCEPT !.autoplay = 1])

CloseTour == OnTour /\ tour' = Close(tour) /\ TourOnly

TimerFires == tour.timer /\ NextStep([tour EXCEPT !.timer = FALSE]) /\ UNCHANGED user
OrphanFires == tour.orphans > 0 /\ NextStep([tour EXCEPT !.orphans = @ - 1]) /\ UNCHANGED user

-----------------------------------------------------------------------------
Cells == ClickCell \/ PressEnter \/ PressEscape \/ ClickSave \/ ClickUndo

Rows ==
  \/ ClickHeader \/ ClickPager \/ SelectRow \/ SelectAllRows \/ ShowDelete \/ ShowCopy
  \/ Confirm \/ DialogSave \/ DialogUndo \/ CloseDialog \/ FollowLink

Requests ==
  \/ ServeLoad \/ LoadArrives \/ LoadFails
  \/ \E i \in Post :
       \/ ServeSave(i) \/ ServeDelete(i) \/ ServeCopy(i) \/ LosePost(i)
       \/ Saved(i) \/ DeletedOrCopied(i) \/ Refused(i)

Touring ==
  \/ StartTour \/ TourScript \/ TourScriptFails \/ ClickNext \/ ClickPrevious \/ ClickPlay
  \/ CloseTour \/ TimerFires \/ OrphanFires

Next == Cells \/ Rows \/ Requests \/ Touring

Spec == Init /\ [][Next]_vars

(* Timers fire, and the script of the tour comes or not.                   *)
Fairness == WF_vars(TimerFires) /\ WF_vars(TourScript \/ TourScriptFails)
FairSpec == Spec /\ Fairness

-----------------------------------------------------------------------------
TypeOK ==
  /\ visit \in Visits
  /\ DOMAIN db \subseteq Key /\ db \in [DOMAIN db -> Int]
  /\ url \in {GridUrl, OtherUrl}
  /\ grid \in Grid
  /\ dialog \in Dialog
  /\ post \in [Post -> Request]
  /\ \A i \in Post : post[i].kind = "copy" => \A c \in post[i].rows : c.key \in 1..Records
  /\ tour \in TourState /\ At(tour) \in Place
  /\ enabled \in BOOLEAN /\ armed \in BOOLEAN /\ marked \in BOOLEAN
  /\ stayed \in BOOLEAN /\ stale \in BOOLEAN
  /\ clicks \in Nat /\ typed \in Nat
  /\ edits \in [Key -> Int]
  /\ announced \subseteq Key

(* "Updated cells are marked in bold and the save icon will turn red": a   *)
(* cell that is marked as changed can be saved and cancelled, and the page *)
(* is not left without a warning, unless the user was warned since.  While *)
(* the rows are being replaced this need not be so, and when that failed.  *)
UnsavedIsGuarded ==
  Dirty(grid) # {} => Loading(grid) \/ grid.failed \/ (enabled /\ (armed \/ stayed))

(* The invariant that a careful user can rely on, which makes the two      *)
(* properties that follow hold.  A post is under way when the page waits   *)
(* for its answer.  What a record is expected to show is what the user     *)
(* typed in it and neither saved nor cancelled, or what is stored.         *)
UnderWay(i) == post[i].stage \in {"sent", "ok", "error"}

Expected(k) == IF edits[k] # Blank THEN edits[k] ELSE db[k]

(* Nothing but changes is being stored, which the rows show already.       *)
Settled ==
  /\ url = GridUrl /\ ~Loading(grid) /\ ~grid.failed /\ ~stale
  /\ \A i \in Post :
       post[i].stage = "free" \/ (post[i].kind = "save" /\ post[i].stage # "orphan")

(* The rows show the page that was asked for, and what is expected in each *)
(* record; marked are the changed ones, and the open cell is the text      *)
(* field.                                                                  *)
Displayed ==
  LET page == PageOf(grid.page, grid.order)
  IN  /\ grid.sel \subseteq Shown(grid)
      /\ DOMAIN grid.rows = DOMAIN page
      /\ \A i \in DOMAIN grid.rows :
           LET row == grid.rows[i]
           IN  /\ row.key = page[i].key
               /\ row.value = Expected(row.key)
               /\ row.dirty <=> edits[row.key] # Blank
               /\ row.input <=> i = grid.saved.row
      /\ Editing(grid) =>
           /\ grid.saved.row \in DOMAIN grid.rows
           /\ grid.saved.value = grid.rows[grid.saved.row].value

(* One thing at a time: a post, or the rows being replaced.                *)
OneAtATime ==
  \A i \in Post : UnderWay(i) =>
    ~Loading(grid) /\ \A j \in Post \ {i} : post[j].stage = "free"

(* While the rows are being replaced nothing is selected, open or unsaved; *)
(* the answer is the page as it is stored, unless a page that was left     *)
(* changes the records meanwhile.                                          *)
LoadedAfresh ==
  Loading(grid) =>
    /\ grid.sel = {} /\ grid.saved = NotSaved /\ edits = NoEdits
    /\ grid.load.order = grid.order
    /\ grid.load.stage = "answered" /\ ~stale =>
         grid.load.rows = PageOf(grid.load.page, grid.load.order)

(* What is sent is what was typed, or announced.                           *)
PostIsWanted ==
  \A i \in Post : UnderWay(i) =>
    /\ post[i].kind = "save" =>
         \A c \in post[i].rows : edits[c.key] = c.value /\ c.value # Blank
    /\ post[i].kind = "delete" => \A c \in post[i].rows : c.key \in announced
    /\ post[i].kind # "save" => edits = NoEdits

DialogIsTrue ==
  dialog.open /\ dialog.title # "error" =>
    /\ edits = NoEdits
    /\ dialog.title = "delete" /\ dialog.buttons = "delete" => Selected \subseteq dialog.told

Reliable == (Settled => Displayed) /\ OneAtATime /\ LoadedAfresh /\ PostIsWanted /\ DialogIsTrue

CarefulInv == TypeOK /\ (visit.careful => Reliable)

(* To a careful user the page, when it is quiet, shows what is stored, but *)
(* for what he typed and neither saved nor cancelled, which is marked; and *)
(* what is selected is displayed.                                          *)
ShownIsExpected ==
  visit.careful /\ Quiet /\ url = GridUrl =>
    /\ grid.sel \subseteq Shown(grid)
    /\ [i \in DOMAIN grid.rows |-> grid.rows[i].key] =
         [i \in DOMAIN PageOf(grid.page, grid.order) |-> PageOf(grid.page, grid.order)[i].key]
    /\ \A i \in DOMAIN grid.rows :
         LET row == grid.rows[i]
         IN  /\ row.dirty <=> edits[row.key] # Blank
             /\ ~row.input => row.value = IF row.dirty THEN edits[row.key] ELSE db[row.key]

(* "Hit the save icon to store the changes on the server. Or hit cancel to *)
(* restore the original values": of a careful user nothing is stored but   *)
(* what he typed last in that very record and did not cancel, and no       *)
(* record goes that was not announced to him (but for what a page sent     *)
(* that was left meanwhile).                                               *)
StoresWhatWasTyped ==
  [][visit.careful /\ ~Orphaned =>
       \A k \in DOMAIN db :
         IF k \in DOMAIN db' THEN db'[k] # db[k] => edits[k] # Blank /\ db'[k] = edits[k]
         ELSE k \in announced]_vars

(* "Click play to automatically advance to the next step": from each step  *)
(* the tour comes to the following one, on whatever page, unless it is     *)
(* stopped or the user refuses to leave the page.                          *)
AutoplayAdvances ==
  \A p \in Place :
    Playing(tour) /\ At(tour) = p ~>
      ~Playing(tour) \/ tour.stalled \/ At(tour) = At(Forward([tour EXCEPT !.chapter = p[1], !.step = p[2]]))
=================================================================================

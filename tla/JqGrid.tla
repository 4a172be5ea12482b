--------------------------------- MODULE JqGrid ---------------------------------
(***************************************************************************)
(* The grid of a data maintenance page: what jqGrid keeps of a table with  *)
(* one editable column and what its methods do to it                       *)
(* (common/static/js/jquery.jqGrid.src.js), for the options that           *)
(* templates/admin/base_site_grid.html gives it: cell editing, changes     *)
(* kept by the client, multiselect, and no screen over the grid while it   *)
(* loads.                                                                  *)
(*                                                                         *)
(* A grid is a record                                                      *)
(*   rows    the rows that are displayed: their key, the value of the      *)
(*           editable cell, whether it is marked as changed (dirty-cell),  *)
(*           and whether it has become a text field (input)                *)
(*   saved   savedRow: the row whose cell is open and its old value        *)
(*   sel     selarrrow, the keys of the selected rows                      *)
(*   all     the check box in the head                                     *)
(*   page, order   what the next request asks for                          *)
(*   load    the request for rows that is under way (hDiv.loading)         *)
(*   failed  the last request came to nothing                              *)
(* Values are integers, of which Blank is what the grid reads from a cell  *)
(* that holds no text, be it empty or a text field.                        *)
(***************************************************************************)
EXTENDS Integers, Sequences, FiniteSets

CONSTANTS Key, PageSize

ASSUME KeyAssumption == Key \subseteq Nat /\ IsFiniteSet(Key)
ASSUME PageAssumption == PageSize \in Nat \ {0}

Blank == 0
Order == {"asc", "desc"}
NotSaved == [row |-> 0, value |-> Blank]
NoLoad == [stage |-> "none", page |-> 1, order |-> "asc", rows |-> <<>>]

Row == [key : Key, value : Int, dirty : BOOLEAN, input : BOOLEAN]
Load == [stage : {"none", "asked", "answered"}, page : Nat \ {0}, order : Order, rows : Seq(Row)]
Grid ==
  [rows : Seq(Row), saved : [row : Nat, value : Int], sel : SUBSET Key, all : BOOLEAN,
   page : Nat \ {0}, order : Order, load : Load, failed : BOOLEAN]

Shown(g) == {g.rows[i].key : i \in DOMAIN g.rows}
Dirty(g) == {i \in DOMAIN g.rows : g.rows[i].dirty}
Editing(g) == g.saved.row # 0
Loading(g) == g.load.stage # "none"

-----------------------------------------------------------------------------
(* Requests.  populate() asks for the page unless a request is under way.  *)
Populate(g) ==
  IF Loading(g) THEN g
  ELSE [g EXCEPT !.load = [stage |-> "asked", page |-> g.page, order |-> g.order, rows |-> <<>>],
                 !.failed = FALSE]

(* Variant: the selection is kept.                                         *)
ForgetCellOnly(g) == [g EXCEPT !.saved = NotSaved]

(* What every request forgets, before populate() ignores it or not: the    *)
(* rows stay, with the text fields in them.                                *)
Forget(g) == [g EXCEPT !.sel = {}, !.all = FALSE, !.saved = NotSaved]

ReloadGrid(g) == Populate(Forget(g))

(* Nothing is sorted while a cell is open.                                 *)
SortData(g) ==
  IF Editing(g) THEN g
  ELSE Populate([Forget(g) EXCEPT !.order = IF @ = "asc" THEN "desc" ELSE "asc", !.page = 1])

TurnPageFromZero(g, p) ==      \* variant: the first page has number zero
  Populate([Forget(g) EXCEPT !.page = p - 1])

TurnPage(g, p) == Populate([Forget(g) EXCEPT !.page = p])

(* The rows that the server answers with replace the displayed ones; an    *)
(* open cell and the selection are not cleared.                            *)
AddJSONData(g) ==
  [g EXCEPT !.rows = g.load.rows, !.page = g.load.page, !.load = NoLoad]

LoadError(g) == [g EXCEPT !.load = NoLoad, !.failed = TRUE]

NewGrid ==
  Populate([rows |-> <<>>, saved |-> NotSaved, sel |-> {}, all |-> FALSE, page |-> 1,
            order |-> "asc", load |-> NoLoad, failed |-> FALSE])

-----------------------------------------------------------------------------
(* Selection.                                                              *)
SetSelection(g, k) ==
  [g EXCEPT !.sel = IF k \in @ THEN @ \ {k} ELSE @ \cup {k}, !.all = FALSE]

ResetSelection(g) == Forget(g)

SelectAll(g) == [g EXCEPT !.sel = IF g.all THEN {} ELSE Shown(g), !.all = ~@]

-----------------------------------------------------------------------------
(* Cells.  text is what the user left in the text field; a row without     *)
(* text field has no text at all, which differs from every old value and   *)
(* is displayed as a blank.                                                *)
Changed(g, r, text) == g.rows[r].input => text # g.saved.value

(* Row r becomes row, and saved is what savedRow refers to.                *)
WithRow(g, r, row, saved) == [g EXCEPT !.rows[r] = row, !.saved = saved]

RestoreCell(g, r) ==
  IF ~Editing(g) \/ r \notin DOMAIN g.rows THEN g
  ELSE WithRow(g, r, [g.rows[r] EXCEPT !.value = g.saved.value, !.input = FALSE], NotSaved)

AcceptCell(g, r, text) ==
  WithRow(g, r, [g.rows[r] EXCEPT !.value = IF g.rows[r].input THEN text ELSE Blank,
                                  !.dirty = TRUE, !.input = FALSE],
          NotSaved)

(* saveCell(r) calls beforeSaveCell when it accepts a change.  (What       *)
(* checkValues() would refuse after that does not arise: it looks at the   *)
(* editrules of the column, and no page gives any.)  The row it refers to  *)
(* may be gone: the exception is swallowed and nothing changes.            *)
Accepts(g, r, text) == Editing(g) /\ r \in DOMAIN g.rows /\ Changed(g, r, text)

SaveCell(g, r, text) ==
  IF Accepts(g, r, text) THEN AcceptCell(g, r, text) ELSE RestoreCell(g, r)

OpenCell(g, r) ==
  WithRow(g, r, [g.rows[r] EXCEPT !.input = TRUE],
          [row |-> r, value |-> IF g.rows[r].input THEN Blank ELSE g.rows[r].value])

(* editCell(r), for a row r that is not the open one, saves the cell that  *)
(* is open and opens the one in row r.                                     *)
EditCell(g, r, text) ==
  LET s == SaveCell(g, g.saved.row, text)
  IN  IF Editing(s) THEN g ELSE OpenCell(s, r)

(* getChangedCells("dirty")                                                *)
ChangedCells(g) ==
  {[key |-> g.rows[i].key, value |-> IF g.rows[i].input THEN Blank ELSE g.rows[i].value] :
     i \in Dirty(g)}
=================================================================================

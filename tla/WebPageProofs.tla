------------------------------ MODULE WebPageProofs -----------------------------
(***************************************************************************)
(* Proofs about the data maintenance page, for any records, pages, visits  *)
(* and tours: what the server answers is sorted and complete, the state is *)
(* well typed, changed cells are guarded, and a careful user sees and      *)
(* stores what he expects.                                                 *)
(***************************************************************************)
EXTENDS WebPage, FiniteSetTheorems, TLAPS

-----------------------------------------------------------------------------
(* The answer of the server.                                               *)

(* The rank of a record is how many come before it. *)
Rank(keys, order, k) == Cardinality({l \in keys : Before(order, l, k)})

LEMMA BeforeIsOrder ==
  ASSUME NEW order, NEW k \in Nat, NEW l \in Nat, NEW m \in Nat
  PROVE  /\ ~Before(order, k, k)
         /\ Before(order, k, l) /\ Before(order, l, m) => Before(order, k, m)
         /\ Before(order, k, l) \/ Before(order, l, k) \/ k = l
<1>1. CASE order = "asc"
  BY <1>1 DEF Before
<1>2. CASE order # "asc"
  BY <1>2 DEF Before
<1> QED
  BY <1>1, <1>2

LEMMA RankRises ==
  ASSUME NEW keys \in SUBSET Nat, IsFiniteSet(keys), NEW order,
         NEW k \in keys, NEW l \in keys, Before(order, k, l)
  PROVE  Rank(keys, order, k) < Rank(keys, order, l)
<1> DEFINE A == {m \in keys : Before(order, m, k)}
           B == {m \in keys : Before(order, m, l)}
<1>1. A \subseteq B /\ k \in B /\ k \notin A
  BY BeforeIsOrder
<1>2. IsFiniteSet(A) /\ IsFiniteSet(B) /\ Cardinality(A) \in Nat /\ Cardinality(B) \in Nat
  BY FS_Subset, FS_CardinalityType
<1>3. Cardinality(A) <= Cardinality(B) /\ (Cardinality(B) = Cardinality(A) => B = A)
  BY <1>1, <1>2, FS_Subset
<1> QED
  BY <1>1, <1>2, <1>3 DEF Rank

LEMMA RankBound ==
  ASSUME NEW keys \in SUBSET Nat, IsFiniteSet(keys), NEW order, NEW k \in keys
  PROVE  Rank(keys, order, k) \in 0..(Cardinality(keys) - 1)
<1> DEFINE A == {m \in keys : Before(order, m, k)}
<1>1. A \subseteq keys /\ k \notin A
  BY BeforeIsOrder
<1>2. Cardinality(A) \in Nat /\ Cardinality(keys) \in Nat
  BY <1>1, FS_Subset, FS_CardinalityType
<1>3. Cardinality(A) <= Cardinality(keys) /\ (Cardinality(keys) = Cardinality(A) => keys = A)
  BY <1>1, FS_Subset
<1> QED
  BY <1>1, <1>2, <1>3 DEF Rank

(* Every rank is taken, since different records have different ranks. *)
LEMMA RankTaken ==
  ASSUME NEW keys \in SUBSET Nat, IsFiniteSet(keys), NEW order,
         NEW i \in 1..Cardinality(keys)
  PROVE  \E k \in keys : Rank(keys, order, k) = i - 1
<1> DEFINE n == Cardinality(keys)
           f == [k \in keys |-> Rank(keys, order, k)]
<1>1. n \in Nat
  BY FS_CardinalityType
<1>2. f \in [keys -> 0..(n - 1)]
  BY RankBound
<1>3. ASSUME NEW k \in keys, NEW l \in keys, f[k] = f[l] PROVE k = l
  <2>1. Before(order, k, l) \/ Before(order, l, k) \/ k = l
    BY BeforeIsOrder
  <2>2. /\ Rank(keys, order, k) \in 0..(n - 1)
        /\ Rank(keys, order, l) \in 0..(n - 1)
        /\ Rank(keys, order, k) = Rank(keys, order, l)
    BY <1>3, RankBound
  <2> QED
    BY <1>1, <2>1, <2>2, RankRises
<1>4. f \in Injection(keys, 0..(n - 1))
  BY <1>2, <1>3 DEF Injection, IsInjective
<1>5. IsFiniteSet(0..(n - 1)) /\ Cardinality(0..(n - 1)) = n
  <2>1. /\ 0 \in Int /\ n - 1 \in Int
        /\ (IF 0 > n - 1 THEN 0 ELSE (n - 1) - 0 + 1) = n
    BY <1>1
  <2> HIDE DEF n
  <2> QED
    BY <2>1, FS_Interval
<1>6. f \in Surjection(keys, 0..(n - 1))
  BY <1>4, <1>5, FS_Injection
<1>7. i - 1 \in 0..(n - 1)
  BY <1>1
<1> QED
  BY <1>6, <1>7 DEF Surjection

(* Ranked, which chooses the record of each place, is defined: the list    *)
(* has every record once and in order.                                     *)
LEMMA RankedSorts ==
  ASSUME NEW keys \in SUBSET Nat, IsFiniteSet(keys), NEW order
  PROVE  /\ Ranked(keys, order) \in [1..Cardinality(keys) -> keys]
         /\ \A k \in keys : \E i \in 1..Cardinality(keys) : Ranked(keys, order)[i] = k
         /\ \A i, j \in 1..Cardinality(keys) :
              i < j => Before(order, Ranked(keys, order)[i], Ranked(keys, order)[j])
<1> DEFINE n == Cardinality(keys)
           f == Ranked(keys, order)
<1>1. n \in Nat
  BY FS_CardinalityType
<1>2. ASSUME NEW i \in 1..n PROVE f[i] \in keys /\ Rank(keys, order, f[i]) = i - 1
  <2>1. \E k \in keys : Rank(keys, order, k) = i - 1
    BY RankTaken
  <2>2. f[i] = CHOOSE k \in keys : Rank(keys, order, k) = i - 1
    BY DEF Ranked, Rank
  <2> HIDE DEF f
  <2> QED
    BY <2>1, <2>2
<1>3. f \in [1..n -> keys]
  <2>1. f = [i \in 1..n |-> CHOOSE k \in keys : Rank(keys, order, k) = i - 1]
    BY DEF Ranked, Rank
  <2> HIDE DEF f
  <2> QED
    BY <1>2, <2>1
<1>4. ASSUME NEW k \in keys PROVE \E i \in 1..n : f[i] = k
  <2> DEFINE i == Rank(keys, order, k) + 1
  <2>1. Rank(keys, order, k) \in 0..(n - 1)
    BY RankBound
  <2>2. i \in 1..n /\ i - 1 = Rank(keys, order, k)
    BY <1>1, <2>1
  <2>3. f[i] \in keys /\ Rank(keys, order, f[i]) = Rank(keys, order, k)
    BY <1>2, <2>2
  <2> DEFINE m == f[i]
  <2>4. m \in keys /\ Rank(keys, order, m) = Rank(keys, order, k) /\ Rank(keys, order, k) \in Int
    BY <2>1, <2>3
  <2> HIDE DEF f, i, m
  <2>5. ~Before(order, m, k) /\ ~Before(order, k, m)
    BY <2>4, RankRises
  <2>6. m = k
    BY <2>4, <2>5, BeforeIsOrder
  <2> QED
    BY <2>2, <2>6 DEF m
<1>5. ASSUME NEW i \in 1..n, NEW j \in 1..n, i < j PROVE Before(order, f[i], f[j])
  <2> DEFINE k == f[i]
             l == f[j]
  <2>1. /\ k \in keys /\ Rank(keys, order, k) = i - 1
        /\ l \in keys /\ Rank(keys, order, l) = j - 1
    BY <1>2
  <2>2. i - 1 \in Int /\ j - 1 \in Int /\ i - 1 < j - 1
    BY <1>1, <1>5
  <2> HIDE DEF f, k, l
  <2>3. Rank(keys, order, k) < Rank(keys, order, l) /\ k # l
    BY <2>1, <2>2
  <2>4. ~Before(order, l, k)
    BY <2>1, <2>2, RankRises
  <2> QED
    BY <2>1, <2>3, <2>4, BeforeIsOrder DEF k, l
<1> QED
  BY <1>3, <1>4, <1>5

-----------------------------------------------------------------------------
(* The methods of the grid: what they return is a grid again; and which    *)
(* of them touch the rows, or the request that is under way.               *)
Keeps(g, h) == h.rows = g.rows /\ h.load = g.load /\ h.failed = g.failed

CleanLoad(g) == \A i \in DOMAIN g.load.rows : ~g.load.rows[i].dirty

LEMMA ForgetType ==
  ASSUME NEW g \in Grid
  PROVE  Forget(g) \in Grid /\ Keeps(g, Forget(g))
<1>1. NotSaved \in [row : Nat, value : Int]
  BY DEF NotSaved, Blank
<1> QED
  BY <1>1 DEF Grid, Forget, Keeps

LEMMA PopulateType ==
  ASSUME NEW g \in Grid
  PROVE  /\ Populate(g) \in Grid
         /\ Loading(Populate(g))
         /\ CleanLoad(g) => CleanLoad(Populate(g))
<1> DEFINE asked == [stage |-> "asked", page |-> g.page, order |-> g.order, rows |-> <<>>]
           h == [g EXCEPT !.load = asked, !.failed = FALSE]
<1>1. CASE Loading(g)
  BY <1>1 DEF Populate
<1>2. CASE ~Loading(g)
  <2>1. <<>> \in Seq(Row) /\ DOMAIN <<>> = {}
    OBVIOUS
  <2>2. asked \in Load
    BY <2>1 DEF Grid, Load
  <2>3. h \in Grid /\ h.load = asked
    BY <2>2 DEF Grid
  <2>4. asked.rows = <<>> /\ asked.stage = "asked"
    OBVIOUS
  <2>5. Loading(h) /\ CleanLoad(h)
    BY <2>1, <2>3, <2>4 DEF Loading, CleanLoad
  <2> QED
    BY <1>2, <2>3, <2>5 DEF Populate
<1> QED
  BY <1>1, <1>2

LEMMA ReloadType ==
  ASSUME NEW g \in Grid
  PROVE  /\ ReloadGrid(g) \in Grid
         /\ Loading(ReloadGrid(g))
         /\ CleanLoad(g) => CleanLoad(ReloadGrid(g))
BY ForgetType, PopulateType, Forget(g) \in Grid DEF ReloadGrid, Keeps, CleanLoad

LEMMA AskType ==
  ASSUME NEW g \in Grid, NEW o \in Order, NEW p \in Nat \ {0}
  PROVE  /\ [g EXCEPT !.order = o, !.page = p] \in Grid
         /\ [g EXCEPT !.order = o, !.page = p].load = g.load
BY DEF Grid

LEMMA SortType ==
  ASSUME NEW g \in Grid
  PROVE  /\ SortData(g) \in Grid
         /\ Loading(SortData(g)) \/ SortData(g) = g
         /\ CleanLoad(g) => CleanLoad(SortData(g))
<1> DEFINE f == Forget(g)
           o == IF f.order = "asc" THEN "desc" ELSE "asc"
           h == [f EXCEPT !.order = o, !.page = 1]
<1>1. f \in Grid /\ f.load = g.load
  BY ForgetType DEF Keeps
<1>2. o \in Order /\ 1 \in Nat \ {0}
  BY DEF Order
<1>3. h \in Grid /\ h.load = f.load
  <2> HIDE DEF f, o
  <2> QED
    BY <1>1, <1>2, AskType
<1>4. Populate(h) \in Grid /\ Loading(Populate(h)) /\ (CleanLoad(h) => CleanLoad(Populate(h)))
  BY <1>3, PopulateType
<1>5. Editing(g) \/ SortData(g) = Populate(h)
  BY DEF SortData
<1> HIDE DEF h, f, o
<1> QED
  BY <1>1, <1>3, <1>4, <1>5 DEF SortData, CleanLoad

LEMMA TurnType ==
  ASSUME NEW g \in Grid, NEW p \in Nat \ {0}
  PROVE  /\ TurnPage(g, p) \in Grid
         /\ Loading(TurnPage(g, p))
         /\ CleanLoad(g) => CleanLoad(TurnPage(g, p))
<1> DEFINE f == Forget(g)
           h == [f EXCEPT !.page = p]
<1>1. f \in Grid /\ f.load = g.load
  BY ForgetType DEF Keeps
<1>2. h \in Grid /\ h.load = f.load
  BY <1>1 DEF Grid
<1>3. Populate(h) \in Grid /\ Loading(Populate(h)) /\ (CleanLoad(h) => CleanLoad(Populate(h)))
  BY <1>2, PopulateType
<1> QED
  BY <1>1, <1>2, <1>3 DEF TurnPage, CleanLoad

LEMMA NoLoadType == NoLoad \in Load /\ NoLoad.rows = <<>> /\ DOMAIN NoLoad.rows = {}
<1>1. <<>> \in Seq(Row) /\ DOMAIN <<>> = {}
  OBVIOUS
<1> QED
  BY <1>1 DEF NoLoad, Load, Order

LEMMA ArrivesType ==
  ASSUME NEW g \in Grid
  PROVE  /\ AddJSONData(g) \in Grid
         /\ AddJSONData(g).rows = g.load.rows
         /\ CleanLoad(AddJSONData(g))
<1> DEFINE h == AddJSONData(g)
<1>1. g.load \in Load
  BY DEF Grid
<1>2. g.load.rows \in Seq(Row) /\ g.load.page \in Nat \ {0}
  BY <1>1 DEF Load
<1>3. h \in Grid /\ h.load = NoLoad /\ h.rows = g.load.rows
  BY <1>2, NoLoadType DEF Grid, AddJSONData
<1> QED
  BY <1>3, NoLoadType DEF CleanLoad

LEMMA ErrorType ==
  ASSUME NEW g \in Grid
  PROVE  /\ LoadError(g) \in Grid
         /\ LoadError(g).failed
         /\ CleanLoad(LoadError(g))
<1> DEFINE h == LoadError(g)
<1>1. h \in Grid /\ h.load = NoLoad /\ h.failed
  BY NoLoadType DEF Grid, LoadError
<1> QED
  BY <1>1, NoLoadType DEF CleanLoad

LEMMA NewGridType ==
  /\ NewGrid \in Grid /\ NewGrid.rows = <<>> /\ CleanLoad(NewGrid)
  /\ NoGrid \in Grid /\ NoGrid.rows = <<>> /\ CleanLoad(NoGrid)
<1> DEFINE g == [rows |-> <<>>, saved |-> NotSaved, sel |-> {}, all |-> FALSE, page |-> 1,
                 order |-> "asc", load |-> NoLoad, failed |-> FALSE]
           asked == [stage |-> "asked", page |-> g.page, order |-> g.order, rows |-> <<>>]
<1>1. <<>> \in Seq(Row) /\ DOMAIN <<>> = {}
  OBVIOUS
<1>2. NotSaved \in [row : Nat, value : Int]
  BY DEF NotSaved, Blank
<1>3. g \in Grid
  BY <1>1, <1>2, NoLoadType DEF Grid, Order
<1>4. g.rows = <<>> /\ g.load = NoLoad
  OBVIOUS
<1>5. ~Loading(g)
  BY <1>4 DEF Loading, NoLoad
<1>6. NewGrid = [g EXCEPT !.load = asked, !.failed = FALSE]
  BY <1>5 DEF NewGrid, Populate
<1>7. NewGrid \in Grid /\ NewGrid.rows = <<>> /\ NewGrid.load = asked
  <2>1. asked \in Load
    BY <1>1, <1>3 DEF Load, Grid
  <2> QED
    BY <1>3, <1>4, <1>6, <2>1 DEF Grid
<1>8. CleanLoad(NewGrid)
  BY <1>1, <1>7 DEF CleanLoad
<1>9. NoGrid \in Grid /\ NoGrid.rows = <<>> /\ NoGrid.load = NoLoad
  BY <1>7, NoLoadType DEF NoGrid, Grid
<1>10. CleanLoad(NoGrid)
  BY <1>9, NoLoadType DEF CleanLoad
<1> QED
  BY <1>7, <1>8, <1>9, <1>10

LEMMA SelectionType ==
  ASSUME NEW g \in Grid, NEW k \in Key
  PROVE  SetSelection(g, k) \in Grid /\ Keeps(g, SetSelection(g, k))
<1>1. PICK s \in SUBSET Key : SetSelection(g, k) = [g EXCEPT !.sel = s, !.all = FALSE]
  <2>1. g.sel \subseteq Key
    BY DEF Grid
  <2>2. CASE k \in g.sel
    BY <2>1, <2>2, g.sel \ {k} \in SUBSET Key DEF SetSelection, Grid
  <2>3. CASE k \notin g.sel
    BY <2>1, <2>3, g.sel \cup {k} \in SUBSET Key DEF SetSelection, Grid
  <2> QED
    BY <2>2, <2>3
<1> QED
  BY <1>1 DEF Grid, Keeps

LEMMA ShownType ==
  ASSUME NEW g \in Grid
  PROVE  /\ Shown(g) \subseteq Key
         /\ \A i \in DOMAIN g.rows : g.rows[i] \in Row /\ i \in Nat \ {0}
<1>1. g.rows \in Seq(Row)
  BY DEF Grid
<1>2. ASSUME NEW i \in DOMAIN g.rows PROVE g.rows[i] \in Row /\ i \in Nat \ {0}
  BY <1>1
<1>3. ASSUME NEW i \in DOMAIN g.rows PROVE g.rows[i].key \in Key
  BY <1>2 DEF Row
<1> QED
  BY <1>2, <1>3 DEF Shown

LEMMA SelectAllType ==
  ASSUME NEW g \in Grid
  PROVE  SelectAll(g) \in Grid /\ Keeps(g, SelectAll(g)) /\ SelectAll(g).all \in BOOLEAN
<1>1. PICK s \in SUBSET Key : SelectAll(g) = [g EXCEPT !.sel = s, !.all = ~g.all]
  <2>1. CASE g.all
    BY <2>1 DEF SelectAll, Grid
  <2>2. CASE ~g.all
    BY <2>2, ShownType DEF SelectAll, Grid
  <2> QED
    BY <2>1, <2>2
<1>2. (~g.all) \in BOOLEAN
  OBVIOUS
<1> HIDE DEF SelectAll
<1> QED
  BY <1>1, <1>2 DEF Grid, Keeps

-----------------------------------------------------------------------------
(* Cells.  Which rows are marked as changed is only altered when a change  *)
(* is accepted, by which upload.select() has been called.                  *)
SameMarks(g, h) ==
  h.load = g.load /\ h.failed = g.failed /\ DOMAIN h.rows = DOMAIN g.rows /\ Dirty(h) = Dirty(g)

(* A row of the grid is replaced by another one. *)
LEMMA ReplaceRow ==
  ASSUME NEW g \in Grid, NEW r \in DOMAIN g.rows, NEW row \in Row,
         NEW s \in [row : Nat, value : Int]
  PROVE  LET h == WithRow(g, r, row, s)
         IN  /\ h \in Grid /\ h.load = g.load /\ h.failed = g.failed /\ h.saved = s
             /\ DOMAIN h.rows = DOMAIN g.rows
             /\ \A i \in DOMAIN g.rows : h.rows[i] = IF i = r THEN row ELSE g.rows[i]
<1> DEFINE rows == [g.rows EXCEPT ![r] = row]
           h == WithRow(g, r, row, s)
<1>1. g.rows \in Seq(Row)
  BY DEF Grid
<1>2. rows \in Seq(Row) /\ DOMAIN rows = DOMAIN g.rows
  BY <1>1
<1>3. \A i \in DOMAIN g.rows : rows[i] = IF i = r THEN row ELSE g.rows[i]
  BY <1>1
<1>4. h = [g EXCEPT !.rows = rows, !.saved = s]
  BY DEF WithRow
<1> HIDE DEF rows, h
<1>5. h \in Grid /\ h.load = g.load /\ h.failed = g.failed /\ h.saved = s /\ h.rows = rows
  BY <1>2, <1>4 DEF Grid
<1> QED
  BY <1>2, <1>3, <1>5 DEF h

LEMMA RestoreType ==
  ASSUME NEW g \in Grid, NEW r \in Nat
  PROVE  RestoreCell(g, r) \in Grid /\ SameMarks(g, RestoreCell(g, r))
<1>1. CASE ~Editing(g) \/ r \notin DOMAIN g.rows
  BY <1>1 DEF RestoreCell, SameMarks
<1>2. CASE Editing(g) /\ r \in DOMAIN g.rows
  <2> DEFINE row == [g.rows[r] EXCEPT !.value = g.saved.value, !.input = FALSE]
             h == WithRow(g, r, row, NotSaved)
  <2>1. g.rows[r] \in Row /\ g.saved \in [row : Nat, value : Int]
    BY <1>2, ShownType DEF Grid
  <2>2. row \in Row /\ row.dirty = g.rows[r].dirty
    BY <2>1 DEF Row
  <2>3. NotSaved \in [row : Nat, value : Int]
    BY DEF NotSaved, Blank
  <2>4. RestoreCell(g, r) = h
    BY <1>2 DEF RestoreCell
  <2> HIDE DEF row
  <2>5. /\ h \in Grid /\ h.load = g.load /\ h.failed = g.failed /\ DOMAIN h.rows = DOMAIN g.rows
        /\ \A i \in DOMAIN g.rows : h.rows[i] = IF i = r THEN row ELSE g.rows[i]
    BY <1>2, <2>2, <2>3, ReplaceRow
  <2> HIDE DEF h
  <2>6. Dirty(h) = Dirty(g)
    BY <2>2, <2>5 DEF Dirty
  <2> QED
    BY <2>4, <2>5, <2>6 DEF SameMarks
<1> QED
  BY <1>1, <1>2

LEMMA AcceptType ==
  ASSUME NEW g \in Grid, NEW r \in DOMAIN g.rows, NEW text \in Int
  PROVE  LET h == AcceptCell(g, r, text)
         IN  h \in Grid /\ h.load = g.load /\ ~Editing(h) /\ DOMAIN h.rows = DOMAIN g.rows
<1> DEFINE v == IF g.rows[r].input THEN text ELSE Blank
           row == [g.rows[r] EXCEPT !.value = v, !.dirty = TRUE, !.input = FALSE]
<1>1. g.rows[r] \in Row
  BY ShownType
<1>2. v \in Int
  BY DEF Blank
<1>3. row \in Row
  <2> HIDE DEF v
  <2> QED
    BY <1>1, <1>2 DEF Row
<1>4. NotSaved \in [row : Nat, value : Int] /\ NotSaved.row = 0
  BY DEF NotSaved, Blank
<1>5. AcceptCell(g, r, text) = WithRow(g, r, row, NotSaved)
  BY DEF AcceptCell
<1> HIDE DEF row
<1> QED
  BY <1>3, <1>4, <1>5, ReplaceRow DEF Editing

LEMMA OpenType ==
  ASSUME NEW g \in Grid, NEW r \in DOMAIN g.rows
  PROVE  OpenCell(g, r) \in Grid /\ SameMarks(g, OpenCell(g, r))
<1> DEFINE v == IF g.rows[r].input THEN Blank ELSE g.rows[r].value
           row == [g.rows[r] EXCEPT !.input = TRUE]
           s == [row |-> r, value |-> v]
           h == WithRow(g, r, row, s)
<1>1. g.rows[r] \in Row /\ r \in Nat
  BY ShownType
<1>2. row \in Row /\ row.dirty = g.rows[r].dirty
  BY <1>1 DEF Row
<1>3. v \in Int
  BY <1>1 DEF Blank, Row
<1>4. s \in [row : Nat, value : Int]
  <2> HIDE DEF v
  <2> QED
    BY <1>1, <1>3
<1>5. OpenCell(g, r) = h
  BY DEF OpenCell
<1> HIDE DEF row, s
<1>6. /\ h \in Grid /\ h.load = g.load /\ h.failed = g.failed /\ DOMAIN h.rows = DOMAIN g.rows
      /\ \A i \in DOMAIN g.rows : h.rows[i] = IF i = r THEN row ELSE g.rows[i]
  BY <1>2, <1>4, ReplaceRow
<1> HIDE DEF h
<1>7. Dirty(h) = Dirty(g)
  BY <1>2, <1>6 DEF Dirty
<1> QED
  BY <1>5, <1>6, <1>7 DEF SameMarks

(* What saving a cell does to the grid, whether a change is accepted or    *)
(* not.                                                                    *)
LEMMA SaveType ==
  ASSUME NEW g \in Grid, NEW r \in Nat, NEW text \in Int
  PROVE  LET h == SaveCell(g, r, text)
         IN  /\ h \in Grid /\ h.load = g.load /\ DOMAIN h.rows = DOMAIN g.rows
             /\ ~Accepts(g, r, text) => SameMarks(g, h)
<1>1. CASE Accepts(g, r, text)
  BY <1>1, AcceptType DEF SaveCell, Accepts
<1>2. CASE ~Accepts(g, r, text)
  BY <1>2, RestoreType DEF SaveCell, SameMarks
<1> QED
  BY <1>1, <1>2

LEMMA EditType ==
  ASSUME NEW g \in Grid, NEW r \in DOMAIN g.rows, NEW text \in Int
  PROVE  LET h == EditCell(g, r, text)
         IN  /\ h \in Grid /\ h.load = g.load
             /\ ~Accepts(g, g.saved.row, text) => SameMarks(g, h)
<1> DEFINE s == SaveCell(g, g.saved.row, text)
<1>1. g.saved.row \in Nat
  BY DEF Grid
<1>2. /\ s \in Grid /\ s.load = g.load /\ DOMAIN s.rows = DOMAIN g.rows
      /\ ~Accepts(g, g.saved.row, text) => SameMarks(g, s)
  BY <1>1, SaveType
<1>3. OpenCell(s, r) \in Grid /\ SameMarks(s, OpenCell(s, r))
  BY <1>2, OpenType
<1>4. EditCell(g, r, text) = IF Editing(s) THEN g ELSE OpenCell(s, r)
  BY DEF EditCell
<1> HIDE DEF s
<1> QED
  BY <1>2, <1>3, <1>4 DEF SameMarks

-----------------------------------------------------------------------------
(* The tour: whatever button is pressed, it stands at a step there is.     *)
Standing(t) == t \in TourState /\ At(t) \in Place

LEMMA PlaceIs ==
  ASSUME NEW c, NEW s
  PROVE  <<c, s>> \in Place <=> c \in DOMAIN Chapters /\ s \in DOMAIN Chapters[c]
<1>1. ASSUME <<c, s>> \in Place PROVE c \in DOMAIN Chapters /\ s \in DOMAIN Chapters[c]
  <2>1. PICK d \in DOMAIN Chapters : <<c, s>> \in {<<d, u>> : u \in DOMAIN Chapters[d]}
    BY <1>1, Zenon DEF Place
  <2>2. PICK u \in DOMAIN Chapters[d] : <<c, s>> = <<d, u>>
    BY <2>1
  <2> QED
    BY <2>2
<1>2. ASSUME c \in DOMAIN Chapters, s \in DOMAIN Chapters[c] PROVE <<c, s>> \in Place
  <2>1. <<c, s>> \in {<<c, u>> : u \in DOMAIN Chapters[c]}
    BY <1>2
  <2> QED
    BY <1>2, <2>1, Zenon DEF Place
<1> QED
  BY <1>1, <1>2

(* Chapters and steps are counted from one. *)
LEMMA Counted ==
  /\ 1 \in DOMAIN Chapters /\ Len(Chapters) \in DOMAIN Chapters
  /\ \A c \in DOMAIN Chapters :
       /\ c \in Nat \ {0} /\ c <= Len(Chapters)
       /\ c < Len(Chapters) => c + 1 \in DOMAIN Chapters
       /\ c > 1 => c - 1 \in DOMAIN Chapters
       /\ 1 \in DOMAIN Chapters[c] /\ Len(Chapters[c]) \in DOMAIN Chapters[c]
       /\ \A s \in DOMAIN Chapters[c] :
            /\ s \in Nat \ {0} /\ s <= Len(Chapters[c])
            /\ s < Len(Chapters[c]) => s + 1 \in DOMAIN Chapters[c]
            /\ s > 1 => s - 1 \in DOMAIN Chapters[c]
<1>1. DOMAIN Chapters = 1..Len(Chapters) /\ Len(Chapters) \in Nat \ {0}
  BY ChaptersAssumption
<1>2. ASSUME NEW c \in DOMAIN Chapters
      PROVE  DOMAIN Chapters[c] = 1..Len(Chapters[c]) /\ Len(Chapters[c]) \in Nat \ {0}
  BY ChaptersAssumption
<1>3. /\ 1 \in DOMAIN Chapters /\ Len(Chapters) \in DOMAIN Chapters
      /\ \A c \in DOMAIN Chapters :
           /\ c \in Nat \ {0} /\ c <= Len(Chapters)
           /\ c < Len(Chapters) => c + 1 \in DOMAIN Chapters
           /\ c > 1 => c - 1 \in DOMAIN Chapters
  BY <1>1
<1>4. ASSUME NEW c \in DOMAIN Chapters
      PROVE  /\ 1 \in DOMAIN Chapters[c] /\ Len(Chapters[c]) \in DOMAIN Chapters[c]
             /\ \A s \in DOMAIN Chapters[c] :
                  /\ s \in Nat \ {0} /\ s <= Len(Chapters[c])
                  /\ s < Len(Chapters[c]) => s + 1 \in DOMAIN Chapters[c]
                  /\ s > 1 => s - 1 \in DOMAIN Chapters[c]
  BY <1>2
<1> QED
  BY <1>3, <1>4

MovedTo(t, c, s) == [t EXCEPT !.chapter = c, !.step = s]

LEMMA MovesStanding ==
  ASSUME NEW t, Standing(t), NEW c \in DOMAIN Chapters, NEW s \in DOMAIN Chapters[c]
  PROVE  Standing(MovedTo(t, c, s))
<1> DEFINE u == MovedTo(t, c, s)
<1>1. t \in TourState /\ s \in Nat \ {0}
  BY Counted DEF Standing
<1>2. u \in TourState /\ u.chapter = c /\ u.step = s
  BY <1>1 DEF TourState, MovedTo
<1> HIDE DEF u
<1>3. At(u) \in Place
  BY <1>2, PlaceIs DEF At
<1> QED
  BY <1>2, <1>3 DEF Standing, u

LEMMA StandsAt ==
  ASSUME NEW t, Standing(t)
  PROVE  t \in TourState /\ t.chapter \in DOMAIN Chapters /\ t.step \in DOMAIN Chapters[t.chapter]
BY PlaceIs DEF Standing, At

LEMMA ForwardStands ==
  ASSUME NEW t, Standing(t)
  PROVE  Standing(Forward(t))
<1> DEFINE c == t.chapter
           s == t.step
<1>1. t \in TourState /\ c \in DOMAIN Chapters /\ s \in DOMAIN Chapters[c]
  BY StandsAt
<1>2. CASE s < Len(Chapters[c])
  <2>1. s + 1 \in DOMAIN Chapters[c]
    BY <1>1, <1>2, Counted
  <2>2. Forward(t) = MovedTo(t, c, s + 1)
    BY <1>1, <1>2 DEF Forward, TourState, MovedTo
  <2> QED
    BY <1>1, <2>1, <2>2, MovesStanding
<1>3. CASE ~(s < Len(Chapters[c])) /\ c < Len(Chapters)
  <2>1. c + 1 \in DOMAIN Chapters /\ 1 \in DOMAIN Chapters[c + 1]
    BY <1>1, <1>3, Counted
  <2>2. Forward(t) = MovedTo(t, c + 1, 1)
    BY <1>1, <1>3 DEF Forward, TourState, MovedTo
  <2> QED
    BY <2>1, <2>2, MovesStanding
<1>4. CASE ~(s < Len(Chapters[c])) /\ ~(c < Len(Chapters))
  <2>1. 1 \in DOMAIN Chapters /\ 1 \in DOMAIN Chapters[1]
    BY Counted
  <2>2. Forward(t) = MovedTo(t, 1, 1)
    BY <1>1, <1>4 DEF Forward, TourState, MovedTo
  <2> QED
    BY <2>1, <2>2, MovesStanding
<1> QED
  BY <1>2, <1>3, <1>4

LEMMA BackwardStands ==
  ASSUME NEW t, Standing(t), ~AtFirst(t)
  PROVE  Standing(Backward(t))
<1> DEFINE c == t.chapter
           s == t.step
<1>1. t \in TourState /\ c \in DOMAIN Chapters /\ s \in DOMAIN Chapters[c]
  BY StandsAt
<1>2. CASE s > 1
  <2>1. s - 1 \in DOMAIN Chapters[c]
    BY <1>1, <1>2, Counted
  <2>2. Backward(t) = MovedTo(t, c, s - 1)
    BY <1>1, <1>2 DEF Backward, TourState, MovedTo
  <2> QED
    BY <1>1, <2>1, <2>2, MovesStanding
<1>3. CASE ~(s > 1)
  <2>1. c > 1
    BY <1>1, <1>3, Counted DEF AtFirst
  <2>2. c - 1 \in DOMAIN Chapters /\ Len(Chapters[c - 1]) \in DOMAIN Chapters[c - 1]
    BY <1>1, <2>1, Counted
  <2>3. Backward(t) = MovedTo(t, c - 1, Len(Chapters[c - 1]))
    BY <1>1, <1>3 DEF Backward, TourState, MovedTo
  <2> QED
    BY <2>2, <2>3, MovesStanding
<1> QED
  BY <1>2, <1>3

LEMMA StartStands ==
  ASSUME NEW t, t \in TourState, NEW p \in Autoplay, NEW c \in DOMAIN Chapters,
         NEW s \in DOMAIN Chapters[c]
  PROVE  Standing(Start(t, c, s, p))
<1> DEFINE u == Start(t, c, s, p)
<1>1. s \in Nat \ {0}
  BY Counted
<1>2. u \in TourState /\ u.chapter = c /\ u.step = s
  BY <1>1 DEF TourState, Start
<1> HIDE DEF u
<1>3. At(u) \in Place
  BY <1>2, PlaceIs DEF At
<1> QED
  BY <1>2, <1>3 DEF Standing, u

LEMMA NoTourStands == Standing(NoTour)
<1>1. 1 \in DOMAIN Chapters /\ 1 \in DOMAIN Chapters[1]
  BY Counted
<1>2. NoTour \in TourState /\ NoTour.chapter = 1 /\ NoTour.step = 1
  BY <1>1 DEF NoTour, TourState, Autoplay
<1>3. At(NoTour) \in Place
  BY <1>1, <1>2, PlaceIs DEF At
<1> QED
  BY <1>2, <1>3 DEF Standing

(* A tour that is changed in nothing but the rest stands where it stood. *)
LEMMA SamePlace ==
  ASSUME NEW t, Standing(t), NEW u \in TourState, u.chapter = t.chapter, u.step = t.step
  PROVE  Standing(u)
BY DEF Standing, At

LEMMA StopStands ==
  ASSUME NEW t, Standing(t)
  PROVE  Standing(StopAutoplay(t))
<1> DEFINE u == StopAutoplay(t)
<1>1. t \in TourState /\ 0 \in Autoplay
  BY DEF Standing, Autoplay
<1>2. u = [t EXCEPT !.autoplay = 0, !.timer = FALSE]
  BY DEF StopAutoplay
<1> HIDE DEF u
<1>3. u \in TourState /\ u.chapter = t.chapter /\ u.step = t.step
  BY <1>1, <1>2 DEF TourState
<1> QED
  BY <1>3, SamePlace DEF u

LEMMA ShowStands ==
  ASSUME NEW t, Standing(t)
  PROVE  Standing(Show(t))
<1> DEFINE m == t.timer \/ t.autoplay # 0
           o == IF t.timer /\ t.autoplay # 0 THEN t.orphans + 1 ELSE t.orphans
           p == t.open /\ ~AtFirst(t)
           n == t.open /\ ~AtLast(t)
           u == Show(t)
<1>1. t \in TourState
  BY DEF Standing
<1>2. o \in Nat /\ m \in BOOLEAN /\ p \in BOOLEAN /\ n \in BOOLEAN
  <2>1. t.orphans \in Nat /\ t.timer \in BOOLEAN /\ t.open \in BOOLEAN
    BY <1>1 DEF TourState
  <2>2. o \in Nat
    BY <2>1
  <2>3. m \in BOOLEAN
    BY <2>1
  <2>4. p \in BOOLEAN
    BY <2>1 DEF AtFirst
  <2>5. n \in BOOLEAN
    BY <2>1 DEF AtLast
  <2> QED
    BY <2>2, <2>3, <2>4, <2>5
<1>3. u = [t EXCEPT !.timer = m, !.orphans = o, !.previous = p, !.next = n, !.stalled = FALSE]
  BY <1>1 DEF Show, TourState
<1> HIDE DEF m, o, p, n, u
<1>4. u \in TourState /\ u.chapter = t.chapter /\ u.step = t.step
  BY <1>1, <1>2, <1>3 DEF TourState
<1> QED
  BY <1>4, SamePlace DEF u

LEMMA CloseStands ==
  ASSUME NEW t, Standing(t)
  PROVE  Standing(Close(t))
<1> DEFINE v == [t EXCEPT !.open = FALSE, !.chapter = 1, !.step = 1, !.autoplay = 0,
                          !.timer = FALSE, !.previous = FALSE, !.next = FALSE, !.stalled = FALSE]
<1>1. /\ t \in TourState /\ 1 \in DOMAIN Chapters /\ 1 \in DOMAIN Chapters[1]
      /\ 0 \in Autoplay /\ 1 \in Nat \ {0}
  BY Counted DEF Standing, Autoplay
<1>2. Close(t) = v
  BY DEF Close
<1>3. v \in TourState /\ v.chapter = 1 /\ v.step = 1
  BY <1>1 DEF TourState
<1> HIDE DEF v
<1>4. At(v) \in Place
  BY <1>1, <1>3, PlaceIs DEF At
<1> QED
  BY <1>2, <1>3, <1>4 DEF Standing

(* The step of the tour is shown on one of the two pages. *)
LEMMA StepUrl ==
  ASSUME NEW t, Standing(t)
  PROVE  Url(t) \in {GridUrl, OtherUrl}
<1>1. At(t) \in Place
  BY DEF Standing
<1>2. Chapters[At(t)[1]][At(t)[2]] \in {GridUrl, OtherUrl}
  BY <1>1, UrlAssumption
<1> QED
  BY <1>2 DEF Url, At

-----------------------------------------------------------------------------
(* The inductive invariant, in parts.                                      *)
UserOK == visit \in Visits /\ clicks \in Nat /\ typed \in Nat /\ announced \subseteq Key
DbOK == DOMAIN db \subseteq Key /\ db \in [DOMAIN db -> Int]
GridOK == grid \in Grid /\ CleanLoad(grid)
UploadOK ==
  enabled \in BOOLEAN /\ armed \in BOOLEAN /\ stayed \in BOOLEAN /\ edits \in [Key -> Int]
PostOK ==
  /\ post \in [Post -> Request]
  /\ \A i \in Post : post[i].kind = "copy" => \A c \in post[i].rows : c.key \in 1..Records
PageOK == url \in {GridUrl, OtherUrl} /\ marked \in BOOLEAN /\ stale \in BOOLEAN

(* The type invariant, the rows of an answer, none of which is marked as   *)
(* changed, and the guard of the changed cells.                            *)
PageInv == TypeOK /\ CleanLoad(grid) /\ UnsavedIsGuarded

LEMMA Parts ==
  PageInv <=> /\ UserOK /\ DbOK /\ GridOK /\ UploadOK /\ PostOK /\ PageOK
              /\ dialog \in Dialog /\ Standing(tour) /\ UnsavedIsGuarded
BY DEF PageInv, TypeOK, UserOK, DbOK, GridOK, UploadOK, PostOK, PageOK, Standing

LEMMA PartsNext ==
  PageInv' <=> /\ UserOK' /\ DbOK' /\ GridOK' /\ UploadOK' /\ PostOK' /\ PageOK'
               /\ dialog' \in Dialog /\ Standing(tour') /\ UnsavedIsGuarded'
BY DEF PageInv, TypeOK, UserOK, DbOK, GridOK, UploadOK, PostOK, PageOK, Standing

(* What keeps the guard: the marks stay and the icons and the warning do,  *)
(* or a request goes out, or the warning is bound.                         *)
LEMMA GuardStays ==
  ASSUME PageInv, SameMarks(grid, grid'), UNCHANGED upload
  PROVE  UnsavedIsGuarded'
BY DEF PageInv, UnsavedIsGuarded, SameMarks, Loading, upload

LEMMA KeepsMarks ==
  ASSUME NEW g, NEW h, Keeps(g, h)
  PROVE  SameMarks(g, h)
BY DEF Keeps, SameMarks, Dirty

LEMMA ClickUser ==
  ASSUME PageInv, NEW b, Click(b)
  PROVE  visit' \in Visits /\ clicks' \in Nat
<1>1. visit \in Visits /\ clicks \in Nat
  BY Parts DEF UserOK
<1> QED
  BY <1>1 DEF Click

(* What the user left in a text field is a text. *)
LEMMA TextType ==
  ASSUME PageInv, NEW text \in Text
  PROVE  text \in Int /\ typed + 1 \in Nat
<1>1. grid.saved.value \in Int /\ typed \in Nat
  BY Parts DEF GridOK, Grid, UserOK
<1> QED
  BY <1>1 DEF Text

(* A cell is saved: the icons and the warning are there before the grid    *)
(* marks the cell.                                                         *)
LEMMA CellSavedStep ==
  ASSUME PageInv, NEW r \in Nat, NEW text \in Text, NEW g \in Grid, g.load = grid.load,
         ~Accepts(grid, r, text) => SameMarks(grid, g),
         visit' \in Visits, clicks' \in Nat, CellSaved(r, text, g)
  PROVE  PageInv'
<1>1. text \in Int /\ typed + 1 \in Nat /\ typed \in Nat
  BY TextType, Parts DEF UserOK
<1>2. UserOK'
  BY <1>1, Parts DEF CellSaved, UserOK
<1>3. GridOK'
  BY Parts DEF CellSaved, GridOK, CleanLoad
<1>4. DbOK' /\ PostOK' /\ PageOK' /\ dialog' \in Dialog /\ Standing(tour')
  <2>1. UNCHANGED <<db, url, marked, dialog, post, tour, stale>>
    BY DEF CellSaved
  <2> QED
    BY <2>1, Parts DEF DbOK, PostOK, PageOK
<1>5. CASE Accepts(grid, r, text)
  <2>1. UploadSelect(r, text)
    BY <1>5 DEF CellSaved
  <2>2. r \in DOMAIN grid.rows /\ grid \in Grid
    BY <1>5, Parts DEF Accepts, GridOK
  <2>3. grid.rows[r].key \in Key
    BY <2>2, ShownType DEF Row
  <2>4. UploadOK'
    BY <1>1, <2>1, <2>3, Parts DEF UploadSelect, UploadOK
  <2>5. UnsavedIsGuarded'
    BY <2>1 DEF UploadSelect, UnsavedIsGuarded
  <2> QED
    BY <1>2, <1>3, <1>4, <2>4, <2>5, PartsNext
<1>6. CASE ~Accepts(grid, r, text)
  <2>1. UNCHANGED upload /\ SameMarks(grid, grid')
    BY <1>6 DEF CellSaved
  <2>2. UploadOK'
    BY <2>1, Parts DEF UploadOK, upload
  <2>3. UnsavedIsGuarded'
    BY <2>1, GuardStays
  <2> QED
    BY <1>2, <1>3, <1>4, <2>2, <2>3, PartsNext
<1> QED
  BY <1>5, <1>6

LEMMA CellsStep ==
  ASSUME PageInv, ClickCell \/ PressEnter
  PROVE  PageInv'
<1>1. grid \in Grid /\ grid.saved.row \in Nat
  BY Parts DEF GridOK, Grid
<1>2. CASE ClickCell
  <2>1. PICK r \in DOMAIN grid.rows \ {grid.saved.row}, text \in Text :
          CellSaved(grid.saved.row, text, EditCell(grid, r, text))
    BY <1>2 DEF ClickCell
  <2>2. visit' \in Visits /\ clicks' \in Nat
    BY <1>2, ClickUser DEF ClickCell, OnGrid
  <2>3. text \in Int
    BY TextType
  <2>4. /\ EditCell(grid, r, text) \in Grid /\ EditCell(grid, r, text).load = grid.load
        /\ ~Accepts(grid, grid.saved.row, text) => SameMarks(grid, EditCell(grid, r, text))
    BY <1>1, <2>3, EditType
  <2> QED
    BY <1>1, <2>1, <2>2, <2>4, CellSavedStep
<1>3. CASE PressEnter
  <2>1. PICK r \in DOMAIN grid.rows, text \in Text : CellSaved(r, text, SaveCell(grid, r, text))
    BY <1>3 DEF PressEnter
  <2>2. visit' \in Visits /\ clicks' \in Nat
    BY <1>3, ClickUser DEF PressEnter, OnGrid
  <2>3. text \in Int /\ r \in Nat
    BY <1>1, TextType, ShownType
  <2>4. /\ SaveCell(grid, r, text) \in Grid /\ SaveCell(grid, r, text).load = grid.load
        /\ ~Accepts(grid, r, text) => SameMarks(grid, SaveCell(grid, r, text))
    BY <1>1, <2>3, SaveType
  <2> QED
    BY <2>1, <2>2, <2>3, <2>4, CellSavedStep
<1> QED
  BY <1>2, <1>3

(* A step that leaves all but the grid, and of the grid the marks. *)
LEMMA MarksStep ==
  ASSUME PageInv, UserOK', PageOK', dialog' \in Dialog, grid' \in Grid, SameMarks(grid, grid'),
         UNCHANGED <<db, post, tour, upload>>
  PROVE  PageInv'
<1>1. GridOK'
  BY Parts DEF GridOK, CleanLoad, SameMarks
<1>2. DbOK' /\ PostOK' /\ Standing(tour')
  BY Parts DEF DbOK, PostOK
<1>3. UploadOK'
  BY Parts DEF UploadOK, upload
<1>4. UnsavedIsGuarded'
  BY GuardStays
<1> QED
  BY <1>1, <1>2, <1>3, <1>4, PartsNext

LEMMA EscapeStep ==
  ASSUME PageInv, PressEscape
  PROVE  PageInv'
<1>1. PICK r \in DOMAIN grid.rows : grid' = RestoreCell(grid, r)
  BY DEF PressEscape
<1>2. grid \in Grid
  BY Parts DEF GridOK
<1>3. r \in Nat
  BY <1>2, ShownType
<1>4. grid' \in Grid /\ SameMarks(grid, grid')
  BY <1>1, <1>2, <1>3, RestoreType
<1>5. visit' \in Visits /\ clicks' \in Nat
  BY ClickUser DEF PressEscape, OnGrid
<1>6. UNCHANGED <<db, url, marked, dialog, post, tour, upload, typed, announced, stale>>
  BY DEF PressEscape
<1>7. UserOK' /\ PageOK' /\ dialog' \in Dialog
  BY <1>5, <1>6, Parts DEF UserOK, PageOK
<1> QED
  BY <1>4, <1>6, <1>7, MarksStep

(* Saving, cancelling, and the dialogs. *)
LEMMA DetachType ==
  ASSUME PageInv, NEW d \in Dialog
  PROVE  Detach(d) \in Dialog
<1>1. grid.sel \in SUBSET Key
  BY Parts DEF GridOK, Grid
<1> QED
  BY <1>1 DEF Detach, Dialog

LEMMA SendType ==
  ASSUME PageInv, NEW kind \in {"save", "delete", "copy"},
         NEW rows \in SUBSET [key : Key, value : Int], Send(kind, rows),
         kind = "copy" => \A c \in rows : c.key \in 1..Records
  PROVE  PostOK'
<1> DEFINE request == [kind |-> kind, rows |-> rows, stage |-> "sent"]
<1>1. PICK i \in Post : post' = [post EXCEPT ![i] = request]
  BY DEF Send
<1>2. request \in Request /\ request.kind = kind /\ request.rows = rows
  BY DEF Request
<1> HIDE DEF request
<1>3. PostOK
  BY Parts
<1>4. post' \in [Post -> Request]
  BY <1>1, <1>2, <1>3 DEF PostOK
<1>5. \A j \in Post : post'[j] = IF j = i THEN request ELSE post[j]
  BY <1>1, <1>3 DEF PostOK
<1> QED
  BY <1>2, <1>3, <1>4, <1>5 DEF PostOK

LEMMA ChangedType ==
  ASSUME NEW g \in Grid
  PROVE  ChangedCells(g) \in SUBSET [key : Key, value : Int]
<1>1. ASSUME NEW i \in Dirty(g)
      PROVE  [key |-> g.rows[i].key,
              value |-> IF g.rows[i].input THEN Blank ELSE g.rows[i].value]
                \in [key : Key, value : Int]
  <2>1. g.rows[i] \in Row
    BY ShownType DEF Dirty
  <2> QED
    BY <2>1 DEF Row, Blank
<1> QED
  BY <1>1 DEF ChangedCells

LEMMA SaveSends ==
  ASSUME PageInv, UploadSave
  PROVE  PostOK'
<1>1. ChangedCells(grid) \in SUBSET [key : Key, value : Int]
  BY ChangedType, Parts DEF GridOK
<1>2. CASE enabled /\ ChangedCells(grid) # {}
  BY <1>1, <1>2, SendType DEF UploadSave
<1>3. CASE ~(enabled /\ ChangedCells(grid) # {})
  BY <1>3, Parts DEF UploadSave, PostOK
<1> QED
  BY <1>2, <1>3

(* Cancelling takes icons and warning away; the rows that are to replace   *)
(* the changed cells have been asked for by then.                          *)
LEMMA UndoType ==
  ASSUME PageInv, NEW d \in Dialog, UploadUndo(d)
  PROVE  GridOK' /\ dialog' \in Dialog /\ UploadOK' /\ UnsavedIsGuarded'
<1>1. CASE enabled
  <2>1. /\ grid' = ReloadGrid(grid) /\ dialog' = Detach(d)
        /\ enabled' = FALSE /\ armed' = FALSE /\ stayed' = FALSE /\ edits' = NoEdits
    BY <1>1 DEF UploadUndo
  <2>2. grid' \in Grid /\ Loading(grid') /\ CleanLoad(grid')
    BY <2>1, ReloadType, Parts DEF GridOK
  <2>3. edits' \in [Key -> Int]
    BY <2>1 DEF NoEdits, Blank
  <2> QED
    BY <2>1, <2>2, <2>3, DetachType DEF GridOK, UploadOK, UnsavedIsGuarded
<1>2. CASE ~enabled
  <2>1. dialog' = d /\ UNCHANGED <<grid, upload>>
    BY <1>2 DEF UploadUndo
  <2> QED
    BY <2>1, Parts DEF GridOK, CleanLoad, UploadOK, upload, UnsavedIsGuarded, Dirty, Loading
<1> QED
  BY <1>1, <1>2

LEMMA SaveClickStep ==
  ASSUME PageInv, ClickSave \/ DialogSave
  PROVE  PageInv'
<1>1. UploadSave /\ visit' \in Visits /\ clicks' \in Nat
  BY ClickUser DEF ClickSave, DialogSave, OnDialog
<1>2. UNCHANGED <<db, url, grid, marked, tour, upload, typed, announced, stale>>
  BY DEF ClickSave, DialogSave
<1>3. dialog' \in Dialog
  <2>1. dialog \in Dialog
    BY Parts
  <2>2. dialog' = dialog \/ dialog' = [dialog EXCEPT !.open = FALSE]
    BY DEF ClickSave, DialogSave
  <2> QED
    BY <2>1, <2>2 DEF Dialog
<1>4. PostOK'
  BY <1>1, SaveSends
<1>5. UserOK' /\ DbOK' /\ GridOK' /\ UploadOK' /\ PageOK' /\ Standing(tour') /\ UnsavedIsGuarded'
  BY <1>1, <1>2, Parts
  DEF UserOK, DbOK, GridOK, CleanLoad, UploadOK, upload, PageOK, UnsavedIsGuarded, Dirty, Loading
<1> QED
  BY <1>3, <1>4, <1>5, PartsNext

LEMMA UndoClickStep ==
  ASSUME PageInv, ClickUndo \/ DialogUndo
  PROVE  PageInv'
<1>1. visit' \in Visits /\ clicks' \in Nat
  BY ClickUser DEF ClickUndo, OnGrid, DialogUndo, OnDialog
<1>2. UNCHANGED <<db, url, marked, post, tour, typed, announced, stale>>
  BY DEF ClickUndo, DialogUndo
<1>3. PICK d \in Dialog : UploadUndo(d)
  <2>1. dialog \in Dialog
    BY Parts
  <2>2. [dialog EXCEPT !.open = FALSE] \in Dialog
    BY <2>1 DEF Dialog
  <2> QED
    BY <2>1, <2>2 DEF ClickUndo, DialogUndo
<1>4. GridOK' /\ dialog' \in Dialog /\ UploadOK' /\ UnsavedIsGuarded'
  BY <1>3, UndoType
<1>5. UserOK' /\ DbOK' /\ PostOK' /\ PageOK' /\ Standing(tour')
  BY <1>1, <1>2, Parts DEF UserOK, DbOK, PostOK, PageOK
<1> QED
  BY <1>4, <1>5, PartsNext

(* The rows are asked for again: by a sort, or by the pager. *)
LEMMA RowsStep ==
  ASSUME PageInv, UserOK', PageOK', dialog' \in Dialog, grid' \in Grid, CleanLoad(grid'),
         Loading(grid') \/ SameMarks(grid, grid'), UNCHANGED <<db, post, tour, upload>>
  PROVE  PageInv'
<1>1. GridOK' /\ DbOK' /\ PostOK' /\ Standing(tour') /\ UploadOK'
  BY Parts DEF GridOK, DbOK, PostOK, UploadOK, upload
<1>2. UnsavedIsGuarded'
  <2>1. CASE Loading(grid')
    BY <2>1 DEF UnsavedIsGuarded
  <2>2. CASE SameMarks(grid, grid')
    BY <2>2, GuardStays
  <2> QED
    BY <2>1, <2>2
<1> QED
  BY <1>1, <1>2, PartsNext

LEMMA ResetType ==
  ASSUME NEW g \in Grid
  PROVE  LET h == SortData(ResetSelection(g))
         IN  /\ h \in Grid
             /\ Loading(h) \/ SameMarks(g, h)
             /\ CleanLoad(g) => CleanLoad(h)
<1> DEFINE f == ResetSelection(g)
<1>1. f \in Grid /\ Keeps(g, f)
  BY ForgetType DEF ResetSelection
<1>2. SortData(f) \in Grid /\ (Loading(SortData(f)) \/ SortData(f) = f)
      /\ (CleanLoad(f) => CleanLoad(SortData(f)))
  BY <1>1, SortType
<1>3. SameMarks(g, f) /\ (CleanLoad(g) => CleanLoad(f))
  BY <1>1, KeepsMarks DEF Keeps, CleanLoad
<1> HIDE DEF f
<1> QED
  BY <1>2, <1>3 DEF f

LEMMA HeaderStep ==
  ASSUME PageInv, ClickHeader
  PROVE  PageInv'
<1>1. visit' \in Visits /\ clicks' \in Nat
  BY ClickUser DEF ClickHeader, OnGridIfSaved
<1>2. UNCHANGED <<db, url, marked, post, tour, upload, typed, announced, stale>>
  BY DEF ClickHeader
<1>3. UserOK' /\ PageOK'
  BY <1>1, <1>2, Parts DEF UserOK, PageOK
<1>4. grid \in Grid /\ CleanLoad(grid) /\ dialog \in Dialog
  BY Parts DEF GridOK
<1>5. CASE enabled
  <2>1. grid' = SortData(grid) /\ dialog' = SortDialog
    BY <1>5 DEF ClickHeader
  <2>2. dialog' \in Dialog
    BY <2>1 DEF SortDialog, Dialog
  <2>3. SameMarks(grid, grid)
    BY DEF SameMarks
  <2>4. grid' \in Grid /\ CleanLoad(grid') /\ (Loading(grid') \/ SameMarks(grid, grid'))
    BY <1>4, <2>1, <2>3, SortType
  <2> QED
    BY <1>2, <1>3, <2>2, <2>4, RowsStep
<1>6. CASE ~enabled
  <2>1. grid' = SortData(ResetSelection(grid)) /\ dialog' = Detach(dialog)
    BY <1>6 DEF ClickHeader
  <2>2. dialog' \in Dialog
    BY <1>4, <2>1, DetachType
  <2>3. grid' \in Grid /\ CleanLoad(grid') /\ (Loading(grid') \/ SameMarks(grid, grid'))
    BY <1>4, <2>1, ResetType
  <2> QED
    BY <1>2, <1>3, <2>2, <2>3, RowsStep
<1> QED
  BY <1>5, <1>6

LEMMA PagerStep ==
  ASSUME PageInv, ClickPager
  PROVE  PageInv'
<1>1. visit' \in Visits /\ clicks' \in Nat
  BY ClickUser DEF ClickPager, OnGridIfSaved
<1>2. UNCHANGED <<db, url, marked, post, tour, upload, typed, announced, stale>>
  BY DEF ClickPager
<1>3. UserOK' /\ PageOK'
  BY <1>1, <1>2, Parts DEF UserOK, PageOK
<1>4. grid \in Grid /\ CleanLoad(grid) /\ dialog \in Dialog
  BY Parts DEF GridOK
<1>5. PICK p \in 1..Records : grid' = TurnPage(grid, p)
  BY DEF ClickPager
<1>6. p \in Nat \ {0}
  BY RecordsAssumption
<1>7. grid' \in Grid /\ CleanLoad(grid') /\ Loading(grid')
  BY <1>4, <1>5, <1>6, TurnType
<1>8. dialog' \in Dialog
  BY <1>4, DetachType DEF ClickPager
<1> QED
  BY <1>2, <1>3, <1>7, <1>8, RowsStep

LEMMA SelectStep ==
  ASSUME PageInv, SelectRow \/ SelectAllRows
  PROVE  PageInv'
<1>1. visit' \in Visits /\ clicks' \in Nat
  BY ClickUser DEF SelectRow, SelectAllRows, OnGrid
<1>2. UNCHANGED <<db, url, post, tour, upload, typed, announced, stale>>
  BY DEF SelectRow, SelectAllRows
<1>3. UserOK'
  BY <1>1, <1>2, Parts DEF UserOK
<1>4. grid \in Grid /\ dialog \in Dialog
  BY Parts DEF GridOK
<1>5. CASE SelectRow
  <2>1. PICK k \in Shown(grid) : grid' = SetSelection(grid, k)
    BY <1>5 DEF SelectRow
  <2>2. k \in Key
    BY <1>4, ShownType
  <2>3. grid' \in Grid /\ SameMarks(grid, grid')
    BY <1>4, <2>1, <2>2, SelectionType, KeepsMarks
  <2>4. marked' \in BOOLEAN /\ dialog' \in Dialog
    BY <1>4, <1>5 DEF SelectRow
  <2>5. PageOK'
    BY <1>2, <2>4, Parts DEF PageOK
  <2> QED
    BY <1>2, <1>3, <2>3, <2>4, <2>5, MarksStep
<1>6. CASE SelectAllRows
  <2>1. grid' = SelectAll(grid) /\ marked' = grid'.all /\ dialog' = Detach(dialog)
    BY <1>6 DEF SelectAllRows
  <2>2. grid' \in Grid /\ SameMarks(grid, grid') /\ marked' \in BOOLEAN
    BY <1>4, <2>1, SelectAllType, KeepsMarks
  <2>3. dialog' \in Dialog
    BY <1>4, <2>1, DetachType
  <2>4. PageOK'
    BY <1>2, <2>2, Parts DEF PageOK
  <2> QED
    BY <1>2, <1>3, <2>2, <2>3, <2>4, MarksStep
<1> QED
  BY <1>5, <1>6

(* Leaving the page, or staying on it after the warning: the page that     *)
(* comes has no changes, and who stays has been warned.                    *)
LEMMA LeaveStep ==
  ASSUME PageInv, UserOK', NEW u \in {GridUrl, OtherUrl}, NEW t, Standing(t),
         Leave(u, t)
  PROVE  PageInv'
<1>1. /\ url' = u /\ grid' = GridOf(u) /\ dialog' = NoDialog /\ tour' = t
      /\ enabled' = FALSE /\ armed' = FALSE /\ marked' = FALSE /\ stayed' = FALSE
      /\ edits' = NoEdits /\ UNCHANGED <<db, stale>>
  BY DEF Leave
<1>2. grid' \in Grid /\ CleanLoad(grid') /\ grid'.rows = <<>>
  BY <1>1, NewGridType DEF GridOf
<1>3. GridOK' /\ UnsavedIsGuarded'
  BY <1>2 DEF GridOK, UnsavedIsGuarded, Dirty
<1>4. edits' \in [Key -> Int]
  BY <1>1 DEF NoEdits, Blank
<1>5. UploadOK'
  BY <1>1, <1>4 DEF UploadOK
<1>6. DbOK' /\ PageOK' /\ Standing(tour')
  BY <1>1, Parts DEF DbOK, PageOK
<1>7. dialog' \in Dialog
  BY <1>1 DEF NoDialog, Dialog
<1>8. PostOK'
  <2> DEFINE left == [i \in Post |->
               IF post[i].stage \in {"ok", "error"} THEN NoPost
               ELSE IF post[i].stage = "sent" THEN [post[i] EXCEPT !.stage = "orphan"]
               ELSE post[i]]
  <2>1. post' = left
    BY DEF Leave
  <2>2. PostOK
    BY Parts
  <2>3. NoPost \in Request /\ NoPost.kind = "save"
    BY DEF NoPost, Request
  <2>4. ASSUME NEW i \in Post
        PROVE  /\ left[i] \in Request
               /\ left[i].kind = "copy" => \A c \in left[i].rows : c.key \in 1..Records
    <3>1. post[i] \in Request
      BY <2>2 DEF PostOK
    <3>2. [post[i] EXCEPT !.stage = "orphan"] \in Request
      BY <3>1 DEF Request
    <3>3. /\ [post[i] EXCEPT !.stage = "orphan"].kind = post[i].kind
          /\ [post[i] EXCEPT !.stage = "orphan"].rows = post[i].rows
      BY <3>1 DEF Request
    <3> QED
      BY <2>2, <2>3, <3>1, <3>2, <3>3 DEF PostOK
  <2>5. left \in [Post -> Request]
    BY <2>4
  <2> HIDE DEF left
  <2> QED
    BY <2>1, <2>4, <2>5 DEF PostOK
<1> QED
  BY <1>3, <1>5, <1>6, <1>7, <1>8, PartsNext

LEMMA StayStep ==
  ASSUME PageInv, UserOK', NEW s, Standing(s), Stay(s)
  PROVE  PageInv'
<1>1. /\ armed' = FALSE /\ stayed' = TRUE /\ tour' = s
      /\ UNCHANGED <<db, url, grid, enabled, marked, dialog, post, edits, stale>>
  BY DEF Stay
<1>2. DbOK' /\ GridOK' /\ PostOK' /\ PageOK' /\ dialog' \in Dialog /\ Standing(tour')
  BY <1>1, Parts DEF DbOK, GridOK, CleanLoad, PostOK, PageOK
<1>3. UploadOK'
  BY <1>1, Parts DEF UploadOK
<1>4. UnsavedIsGuarded'
  BY <1>1, Parts DEF UnsavedIsGuarded, Dirty, Loading
<1> QED
  BY <1>2, <1>3, <1>4, PartsNext

LEMMA GoToStep ==
  ASSUME PageInv, UserOK', NEW u \in {GridUrl, OtherUrl}, NEW t, Standing(t),
         NEW s, Standing(s), GoTo(u, t, s)
  PROVE  PageInv'
BY LeaveStep, StayStep DEF GoTo

(* The dialogs. *)
LEMMA DialogStep ==
  ASSUME PageInv, UserOK', dialog' \in Dialog, PostOK',
         UNCHANGED <<db, url, grid, marked, tour, upload>>, stale' \in BOOLEAN
  PROVE  PageInv'
<1>1. DbOK' /\ GridOK' /\ PageOK' /\ UploadOK' /\ Standing(tour')
  BY Parts DEF DbOK, GridOK, CleanLoad, PageOK, UploadOK, upload
<1>2. UnsavedIsGuarded'
  BY Parts DEF UnsavedIsGuarded, Dirty, Loading, upload
<1> QED
  BY <1>1, <1>2, PartsNext

LEMMA AskFirstStep ==
  ASSUME PageInv, UserOK', NEW kind \in {"delete", "copy"}, AskFirst(kind)
  PROVE  PageInv'
<1> DEFINE d == [open |-> TRUE, title |-> kind, buttons |-> kind, live |-> TRUE, sel |-> {},
                 told |-> grid.sel]
<1>1. dialog' = d /\ UNCHANGED <<db, url, grid, marked, post, tour, upload, stale>>
  BY DEF AskFirst
<1>2. grid.sel \subseteq Key
  BY Parts DEF GridOK, Grid
<1>3. d \in Dialog
  BY <1>2 DEF Dialog
<1>4. PostOK' /\ stale' \in BOOLEAN
  BY <1>1, Parts DEF PostOK, PageOK
<1> QED
  BY <1>1, <1>3, <1>4, DialogStep

LEMMA ShowStepOfRows ==
  ASSUME PageInv, ShowDelete \/ ShowCopy
  PROVE  PageInv'
<1>1. visit' \in Visits /\ clicks' \in Nat /\ UNCHANGED <<typed, announced>>
  BY ClickUser DEF ShowDelete, ShowCopy, OnGridIfSaved
<1>2. UserOK'
  BY <1>1, Parts DEF UserOK
<1>3. GoTo(OtherUrl, NoTour, tour) \/ AskFirst("delete") \/ AskFirst("copy")
  BY DEF ShowDelete, ShowCopy
<1>4. Standing(NoTour) /\ Standing(tour) /\ OtherUrl \in {GridUrl, OtherUrl}
  BY NoTourStands, Parts
<1> QED
  BY <1>2, <1>3, <1>4, GoToStep, AskFirstStep

LEMMA ConfirmStep ==
  ASSUME PageInv, Confirm
  PROVE  PageInv'
<1> DEFINE rows == {NoValue(k) : k \in Selected}
<1>1. visit' \in Visits /\ clicks' \in Nat
  BY ClickUser DEF Confirm, OnDialog
<1>2. /\ dialog.buttons \in {"delete", "copy"}
      /\ dialog.buttons = "copy" => Selected \subseteq 1..Records
      /\ Send(dialog.buttons, rows)
      /\ announced' = IF dialog.buttons = "delete" THEN announced \cup dialog.told ELSE announced
      /\ UNCHANGED <<db, url, grid, marked, dialog, tour, upload, typed, stale>>
  BY DEF Confirm
<1>3. grid.sel \subseteq Key /\ dialog.sel \subseteq Key /\ dialog.told \subseteq Key
  BY Parts DEF GridOK, Grid, Dialog
<1>4. Selected \subseteq Key
  BY <1>3 DEF Selected
<1>5. \A k \in Selected : NoValue(k) \in [key : Key, value : Int] /\ NoValue(k).key = k
  BY <1>4 DEF NoValue, Blank
<1>6. /\ rows \in SUBSET [key : Key, value : Int]
      /\ dialog.buttons = "copy" => \A c \in rows : c.key \in 1..Records
  BY <1>2, <1>5
<1> HIDE DEF rows
<1>7. PostOK'
  BY <1>2, <1>6, SendType
<1>8. UserOK'
  BY <1>1, <1>2, <1>3, Parts DEF UserOK
<1>9. dialog' \in Dialog /\ stale' \in BOOLEAN
  BY <1>2, Parts DEF PageOK
<1> QED
  BY <1>2, <1>7, <1>8, <1>9, DialogStep

LEMMA CloseStep ==
  ASSUME PageInv, CloseDialog
  PROVE  PageInv'
<1>1. visit' \in Visits /\ clicks' \in Nat
  BY ClickUser DEF CloseDialog
<1>2. /\ dialog' = [dialog EXCEPT !.open = FALSE]
      /\ UNCHANGED <<db, url, grid, marked, post, tour, upload, typed, announced, stale>>
  BY DEF CloseDialog
<1>3. UserOK' /\ PostOK' /\ stale' \in BOOLEAN
  BY <1>1, <1>2, Parts DEF UserOK, PostOK, PageOK
<1>4. dialog' \in Dialog
  BY <1>2, Parts DEF Dialog
<1> QED
  BY <1>2, <1>3, <1>4, DialogStep

LEMMA LinkStep ==
  ASSUME PageInv, FollowLink
  PROVE  PageInv'
<1>1. visit' \in Visits /\ clicks' \in Nat /\ UNCHANGED <<typed, announced>>
  BY ClickUser DEF FollowLink
<1>2. UserOK'
  BY <1>1, Parts DEF UserOK
<1>3. PICK u \in {GridUrl, OtherUrl} : GoTo(u, NoTour, tour)
  BY DEF FollowLink
<1> QED
  BY <1>2, <1>3, NoTourStands, GoToStep, Parts

-----------------------------------------------------------------------------
(* The server. *)
LEMMA SeqOfFunction ==
  ASSUME NEW S, NEW n \in Nat, NEW f \in [1..n -> S]
  PROVE  f \in Seq(S)
OBVIOUS

LEMMA PageOfType ==
  ASSUME PageInv, NEW page \in Nat \ {0}, NEW order
  PROVE  /\ PageOf(page, order) \in Seq(Row)
         /\ \A i \in DOMAIN PageOf(page, order) : ~PageOf(page, order)[i].dirty
<1> DEFINE n == Cardinality(DOMAIN db)
           first == (page - 1) * PageSize
           len == Smaller(PageSize, n - first)
           keys == Ranked(DOMAIN db, order)
           row(i) == [key |-> keys[first + i], value |-> db[keys[first + i]], dirty |-> FALSE,
                      input |-> FALSE]
           rows == [i \in 1..len |-> row(i)]
<1>1. DOMAIN db \subseteq Key /\ db \in [DOMAIN db -> Int]
  BY Parts DEF DbOK
<1>2. IsFiniteSet(DOMAIN db) /\ DOMAIN db \subseteq Nat /\ n \in Nat
  BY <1>1, KeyAssumption, FS_Subset, FS_CardinalityType
<1>3. keys \in [1..n -> DOMAIN db]
  BY <1>2, RankedSorts
<1>4. first \in Nat
  <2>1. page - 1 \in Nat /\ PageSize \in Nat
    BY PageAssumption
  <2> QED
    BY <2>1, SMTT(30)
<1>5. len \in Int /\ len <= n - first
  <2> HIDE DEF n, first
  <2> QED
    BY <1>2, <1>4, PageAssumption DEF Smaller
<1>6. ASSUME NEW i \in 1..len PROVE row(i) \in Row /\ ~row(i).dirty
  <2>1. first + i \in 1..n
    <3> HIDE DEF n, first, len
    <3> QED
      BY <1>2, <1>4, <1>5
  <2>2. keys[first + i] \in DOMAIN db
    BY <1>3, <2>1
  <2> HIDE DEF keys, first
  <2> QED
    BY <1>1, <2>2 DEF Row
<1>7. rows \in Seq(Row) /\ DOMAIN rows = 1..len /\ \A i \in 1..len : rows[i] = row(i)
  <2> HIDE DEF len, row
  <2>1. rows \in [1..len -> Row]
    BY <1>6
  <2>2. PICK l \in Nat : 1..len = 1..l
    <3>1. CASE len >= 0
      BY <1>5, <3>1
    <3>2. CASE len < 0
      BY <1>5, <3>2, 1..len = 1..0
    <3> QED
      BY <1>5, <3>1, <3>2
  <2>3. DOMAIN rows = 1..len /\ \A i \in 1..len : rows[i] = row(i)
    OBVIOUS
  <2>4. rows \in Seq(Row)
    <3> HIDE DEF rows
    <3>1. rows \in [1..l -> Row]
      BY <2>1, <2>2
    <3> QED
      BY <3>1, SeqOfFunction
  <2> QED
    BY <2>3, <2>4
<1>8. PageOf(page, order) = rows
  BY DEF PageOf
<1> HIDE DEF rows, row, len
<1> QED
  BY <1>6, <1>7, <1>8

LEMMA LastPageType ==
  ASSUME PageInv
  PROVE  LastPage \in Nat \ {0}
<1> DEFINE m == (Cardinality(DOMAIN db) + PageSize - 1) \div PageSize
<1>1. m \in Int
  <2>1. Cardinality(DOMAIN db) \in Nat
    BY Parts, KeyAssumption, FS_Subset, FS_CardinalityType DEF DbOK
  <2> QED
    BY <2>1, PageAssumption
<1> HIDE DEF m
<1>2. Larger(1, m) \in Nat \ {0}
  BY <1>1 DEF Larger
<1> QED
  BY <1>2 DEF LastPage, m

LEMMA ServeLoadStep ==
  ASSUME PageInv, ServeLoad
  PROVE  PageInv'
<1> DEFINE page == Smaller(grid.load.page, LastPage)
           rows == PageOf(page, grid.load.order)
           load == [grid.load EXCEPT !.stage = "answered", !.page = page, !.rows = rows]
<1>1. /\ grid.load.stage = "asked"
      /\ grid' = [grid EXCEPT !.load.stage = "answered", !.load.page = page, !.load.rows = rows]
      /\ stale' = FALSE
      /\ UNCHANGED <<db, url, marked, dialog, post, tour, upload, user>>
  BY DEF ServeLoad
<1>2. grid \in Grid /\ grid.load \in Load
  BY Parts DEF GridOK, Grid
<1>3. page \in Nat \ {0}
  BY <1>2, LastPageType DEF Load, Smaller
<1>4. rows \in Seq(Row) /\ \A i \in DOMAIN rows : ~rows[i].dirty
  BY <1>3, PageOfType
<1> HIDE DEF page, rows
<1>5. load \in Load /\ load.rows = rows /\ load.stage = "answered"
  BY <1>2, <1>3, <1>4 DEF Load
<1>6. grid' = [grid EXCEPT !.load = load]
  BY <1>1, <1>2 DEF Grid, Load
<1> HIDE DEF load
<1>7. grid' \in Grid /\ grid'.load = load
  BY <1>2, <1>5, <1>6 DEF Grid
<1>8. CleanLoad(grid') /\ Loading(grid')
  BY <1>4, <1>5, <1>7 DEF CleanLoad, Loading
<1>9. UserOK' /\ PageOK' /\ dialog' \in Dialog
  BY <1>1, Parts DEF UserOK, user, PageOK
<1> QED
  BY <1>1, <1>7, <1>8, <1>9, RowsStep

(* The state of a post and the records change, and nothing else. *)
LEMMA ServerStep ==
  ASSUME PageInv, DbOK', PostOK', stale' \in BOOLEAN,
         UNCHANGED <<url, grid, marked, dialog, tour, upload, user>>
  PROVE  PageInv'
<1>1. UserOK' /\ GridOK' /\ UploadOK' /\ PageOK' /\ dialog' \in Dialog /\ Standing(tour')
  BY Parts DEF UserOK, user, GridOK, CleanLoad, UploadOK, upload, PageOK
<1>2. UnsavedIsGuarded'
  BY Parts DEF UnsavedIsGuarded, Dirty, Loading, upload
<1> QED
  BY <1>1, <1>2, PartsNext

LEMMA PostStage ==
  ASSUME PageInv, NEW i \in Post, NEW stage \in {"ok", "error"}
  PROVE  /\ post' = [post EXCEPT ![i] = NoPost] => PostOK'
         /\ post' = [post EXCEPT ![i].stage = stage] => PostOK'
<1>1. PostOK /\ post[i] \in Request
  BY Parts DEF PostOK
<1>2. ASSUME NEW request \in Request, post' = [post EXCEPT ![i] = request],
             request.kind = "copy" => \A c \in request.rows : c.key \in 1..Records
      PROVE  PostOK'
  <2>1. post' \in [Post -> Request]
    BY <1>1, <1>2 DEF PostOK
  <2>2. \A j \in Post : post'[j] = IF j = i THEN request ELSE post[j]
    BY <1>1, <1>2 DEF PostOK
  <2> QED
    BY <1>1, <1>2, <2>1, <2>2 DEF PostOK
<1>3. NoPost \in Request /\ NoPost.kind = "save"
  BY DEF NoPost, Request
<1>4. post' = [post EXCEPT ![i] = NoPost] => PostOK'
  BY <1>2, <1>3
<1> DEFINE r == [post[i] EXCEPT !.stage = stage]
<1>5. r \in Request /\ r.kind = post[i].kind /\ r.rows = post[i].rows
  BY <1>1 DEF Request
<1>6. [post EXCEPT ![i].stage = stage] = [post EXCEPT ![i] = r]
  OBVIOUS
<1> HIDE DEF r
<1>7. post' = [post EXCEPT ![i].stage = stage] => PostOK'
  BY <1>1, <1>2, <1>5, <1>6 DEF PostOK
<1> QED
  BY <1>4, <1>7

LEMMA ServedType ==
  ASSUME PageInv, NEW i \in Post, NEW done, Served(i, done)
  PROVE  /\ PostOK' /\ stale' \in BOOLEAN
         /\ UNCHANGED <<url, grid, marked, dialog, tour, upload, user>>
<1> DEFINE stages == IF post[i].stage = "orphan" THEN {"free"}
                     ELSE {IF done = post[i].rows THEN "ok" ELSE "error"}
                          \cup IF visit.failures THEN {"error"} ELSE {}
<1>1. PICK stage \in stages :
        post' = [post EXCEPT ![i] = IF stage = "free" THEN NoPost ELSE [@ EXCEPT !.stage = stage]]
  BY DEF Served
<1>2. stage = "free" \/ stage \in {"ok", "error"}
  OBVIOUS
<1>3. CASE stage = "free"
  <2>1. post' = [post EXCEPT ![i] = NoPost]
    BY <1>1, <1>3
  <2> QED
    BY <2>1, PostStage, Parts DEF Served, PageOK
<1>4. CASE stage # "free"
  <2>1. post' = [post EXCEPT ![i].stage = stage]
    BY <1>1, <1>4
  <2> QED
    BY <1>2, <1>4, <2>1, PostStage, Parts DEF Served, PageOK
<1> QED
  BY <1>3, <1>4

LEMMA DoneType ==
  ASSUME NEW possible, NEW done \in Done(possible)
  PROVE  done \subseteq possible
BY DEF Done

LEMMA ServeSaveStep ==
  ASSUME PageInv, NEW i \in Post, ServeSave(i)
  PROVE  PageInv'
<1> DEFINE possible == {c \in post[i].rows : c.key \in DOMAIN db}
<1>1. PICK done \in Done(possible) :
        /\ db' = [k \in DOMAIN db |->
                    IF \E c \in done : c.key = k THEN (CHOOSE c \in done : c.key = k).value
                    ELSE db[k]]
        /\ Served(i, done)
  BY DEF ServeSave
<1>2. post[i].rows \subseteq [key : Key, value : Int]
  BY Parts DEF PostOK, Request
<1>3. done \subseteq [key : Key, value : Int]
  BY <1>1, <1>2, DoneType
<1>4. DOMAIN db \subseteq Key /\ db \in [DOMAIN db -> Int]
  BY Parts DEF DbOK
<1>5. ASSUME NEW k \in DOMAIN db, \E c \in done : c.key = k
      PROVE  (CHOOSE c \in done : c.key = k).value \in Int
  <2>1. (CHOOSE c \in done : c.key = k) \in done
    BY <1>5
  <2> QED
    BY <1>3, <2>1
<1>6. DbOK'
  BY <1>1, <1>4, <1>5 DEF DbOK
<1> QED
  BY <1>1, <1>6, ServedType, ServerStep

LEMMA ServeDeleteStep ==
  ASSUME PageInv, NEW i \in Post, ServeDelete(i)
  PROVE  PageInv'
<1>1. PICK done : /\ db' = [k \in DOMAIN db \ {c.key : c \in done} |-> db[k]]
                  /\ Served(i, done)
  BY DEF ServeDelete
<1>2. DbOK'
  BY <1>1, Parts DEF DbOK
<1> QED
  BY <1>1, <1>2, ServedType, ServerStep

(* A copy has a key of its own. *)
LEMMA ServeCopyStep ==
  ASSUME PageInv, NEW i \in Post, ServeCopy(i)
  PROVE  PageInv'
<1> DEFINE possible == {c \in post[i].rows : c.key \in DOMAIN db /\ CopyOf(c.key) \notin DOMAIN db}
<1>1. PICK done \in Done(possible) :
        /\ db' = [k \in DOMAIN db \cup {CopyOf(c.key) : c \in done} |->
                    IF k \in DOMAIN db THEN db[k] ELSE db[k - Records]]
        /\ Served(i, done)
  BY DEF ServeCopy
<1>2. \A c \in done : c.key \in DOMAIN db /\ c.key \in 1..Records
  <2>1. done \subseteq possible
    BY DoneType
  <2>2. \A c \in post[i].rows : c.key \in 1..Records
    BY Parts DEF PostOK, ServeCopy, Arrived
  <2> QED
    BY <2>1, <2>2
<1>3. DOMAIN db \subseteq Key /\ db \in [DOMAIN db -> Int]
  BY Parts DEF DbOK
<1>4. \A c \in done : CopyOf(c.key) \in Key /\ CopyOf(c.key) - Records = c.key
  BY <1>2, RecordsAssumption DEF CopyOf
<1> DEFINE keys == DOMAIN db \cup {CopyOf(c.key) : c \in done}
<1>5. keys \subseteq Key
  BY <1>3, <1>4
<1>6. ASSUME NEW k \in keys
      PROVE  (IF k \in DOMAIN db THEN db[k] ELSE db[k - Records]) \in Int
  <2>1. CASE k \in DOMAIN db
    BY <1>3, <2>1
  <2>2. CASE k \notin DOMAIN db
    <3>1. PICK c \in done : k = CopyOf(c.key)
      BY <2>2
    <3>2. k - Records = c.key /\ c.key \in DOMAIN db
      BY <1>2, <1>4, <3>1
    <3> QED
      BY <1>3, <2>2, <3>2
  <2> QED
    BY <2>1, <2>2
<1>7. DbOK'
  <2> HIDE DEF keys
  <2>1. db' = [k \in keys |-> IF k \in DOMAIN db THEN db[k] ELSE db[k - Records]]
    BY <1>1 DEF keys
  <2> QED
    BY <1>5, <1>6, <2>1 DEF DbOK
<1> QED
  BY <1>1, <1>7, ServedType, ServerStep

LEMMA LoseStep ==
  ASSUME PageInv, NEW i \in Post, LosePost(i)
  PROVE  PageInv'
<1>1. /\ post' = [post EXCEPT ![i].stage = "error"]
      /\ UNCHANGED <<db, url, grid, marked, dialog, tour, upload, user, stale>>
  BY DEF LosePost
<1>2. PostOK' /\ stale' \in BOOLEAN /\ DbOK'
  BY <1>1, PostStage, Parts DEF PageOK, DbOK
<1> QED
  BY <1>1, <1>2, ServerStep

-----------------------------------------------------------------------------
(* The answers. *)
LEMMA LoadAnswerStep ==
  ASSUME PageInv, LoadArrives \/ LoadFails
  PROVE  PageInv'
<1>1. UNCHANGED <<db, url, marked, dialog, post, tour, upload, user, stale>>
  BY DEF LoadArrives, LoadFails
<1>2. grid \in Grid /\ CleanLoad(grid)
  BY Parts DEF GridOK
<1>3. DbOK' /\ PostOK' /\ UserOK' /\ UploadOK' /\ PageOK' /\ dialog' \in Dialog /\ Standing(tour')
  BY <1>1, Parts DEF DbOK, PostOK, UserOK, user, UploadOK, upload, PageOK
<1>4. CASE LoadArrives
  <2>1. grid' = AddJSONData(grid)
    BY <1>4 DEF LoadArrives
  <2>2. grid' \in Grid /\ CleanLoad(grid') /\ grid'.rows = grid.load.rows
    BY <1>2, <2>1, ArrivesType
  <2>3. Dirty(grid') = {}
    BY <1>2, <2>2 DEF Dirty, CleanLoad
  <2> QED
    BY <1>3, <2>2, <2>3, PartsNext DEF GridOK, UnsavedIsGuarded
<1>5. CASE LoadFails
  <2>1. grid' = LoadError(grid)
    BY <1>5 DEF LoadFails
  <2>2. grid' \in Grid /\ CleanLoad(grid') /\ grid'.failed
    BY <1>2, <2>1, ErrorType
  <2> QED
    BY <1>3, <2>2, PartsNext DEF GridOK, UnsavedIsGuarded
<1> QED
  BY <1>4, <1>5

LEMMA SavedStep ==
  ASSUME PageInv, NEW i \in Post, Saved(i)
  PROVE  PageInv'
<1>1. /\ post' = [post EXCEPT ![i] = NoPost] /\ UploadUndo(dialog)
      /\ UNCHANGED <<db, url, tour, user, marked, stale>>
  BY DEF Saved, Answered
<1>2. PostOK'
  BY <1>1, PostStage
<1>3. dialog \in Dialog
  BY Parts
<1>4. GridOK' /\ dialog' \in Dialog /\ UploadOK' /\ UnsavedIsGuarded'
  BY <1>1, <1>3, UndoType
<1>5. DbOK' /\ UserOK' /\ PageOK' /\ Standing(tour')
  BY <1>1, Parts DEF DbOK, UserOK, user, PageOK
<1> QED
  BY <1>2, <1>4, <1>5, PartsNext

LEMMA DeletedStep ==
  ASSUME PageInv, NEW i \in Post, DeletedOrCopied(i)
  PROVE  PageInv'
<1>1. /\ post' = [post EXCEPT ![i] = NoPost] /\ marked' = FALSE /\ grid' = ReloadGrid(grid)
      /\ dialog' = [Detach(dialog) EXCEPT !.open = FALSE]
      /\ UNCHANGED <<db, url, tour, user, upload, stale>>
  BY DEF DeletedOrCopied, Answered
<1>2. PostOK'
  BY <1>1, PostStage
<1>3. Detach(dialog) \in Dialog
  BY DetachType, Parts
<1>4. dialog' \in Dialog
  BY <1>1, <1>3 DEF Dialog
<1>5. grid' \in Grid /\ CleanLoad(grid') /\ Loading(grid')
  BY <1>1, ReloadType, Parts DEF GridOK
<1>6. GridOK' /\ UnsavedIsGuarded'
  BY <1>5 DEF GridOK, UnsavedIsGuarded
<1>7. DbOK' /\ UserOK' /\ UploadOK' /\ PageOK' /\ Standing(tour')
  BY <1>1, Parts DEF DbOK, UserOK, user, UploadOK, upload, PageOK
<1> QED
  BY <1>2, <1>4, <1>6, <1>7, PartsNext

LEMMA RefusedStep ==
  ASSUME PageInv, NEW i \in Post, Refused(i)
  PROVE  PageInv'
<1>1. /\ post' = [post EXCEPT ![i] = NoPost]
      /\ dialog' = [dialog EXCEPT !.open = TRUE, !.title = "error"]
      /\ stale' = (stale \/ post[i].kind # "save")
      /\ UNCHANGED <<db, url, tour, user, grid, marked, upload>>
  BY DEF Refused, Answered
<1>2. PostOK'
  BY <1>1, PostStage
<1>3. dialog' \in Dialog
  BY <1>1, Parts DEF Dialog
<1>4. stale' \in BOOLEAN
  BY <1>1, Parts DEF PageOK
<1>5. UserOK'
  BY <1>1, Parts DEF UserOK, user
<1> QED
  BY <1>1, <1>2, <1>3, <1>4, <1>5, DialogStep

-----------------------------------------------------------------------------
(* The tour. *)
LEMMA TourOnlyStep ==
  ASSUME PageInv, UserOK', TourOnly, Standing(tour')
  PROVE  PageInv'
<1>1. UNCHANGED <<db, url, grid, marked, dialog, post, upload, stale>>
  BY DEF TourOnly
<1>2. DbOK' /\ GridOK' /\ UploadOK' /\ PostOK' /\ PageOK' /\ dialog' \in Dialog
  BY <1>1, Parts DEF DbOK, GridOK, CleanLoad, UploadOK, upload, PostOK, PageOK
<1>3. UnsavedIsGuarded'
  BY <1>1, Parts DEF UnsavedIsGuarded, Dirty, Loading, upload
<1> QED
  BY <1>2, <1>3, PartsNext

LEMMA ShowStepStep ==
  ASSUME PageInv, UserOK', NEW t, Standing(t), ShowStep(t)
  PROVE  PageInv'
<1>1. CASE Url(t) = url
  <2>1. tour' = Show(t) /\ TourOnly
    BY <1>1 DEF ShowStep
  <2> QED
    BY <2>1, ShowStands, TourOnlyStep
<1>2. CASE Url(t) # url
  <2> DEFINE s == [t EXCEPT !.stalled = TRUE]
             u == Start(NoTour, t.chapter, t.step, t.autoplay)
  <2>1. GoTo(Url(t), u, s)
    BY <1>2 DEF ShowStep
  <2>2. Url(t) \in {GridUrl, OtherUrl}
    BY StepUrl
  <2>3. t \in TourState /\ t.chapter \in DOMAIN Chapters /\ t.step \in DOMAIN Chapters[t.chapter]
    BY StandsAt
  <2>4. t.autoplay \in Autoplay
    BY <2>3 DEF TourState
  <2>5. Standing(u)
    BY <2>3, <2>4, NoTourStands, StartStands DEF Standing
  <2>6. s \in TourState /\ s.chapter = t.chapter /\ s.step = t.step
    BY <2>3 DEF TourState
  <2>7. Standing(s)
    <3> HIDE DEF s
    <3> QED
      BY <2>6, SamePlace
  <2> HIDE DEF s, u
  <2> QED
    BY <2>1, <2>2, <2>5, <2>7, GoToStep
<1> QED
  BY <1>1, <1>2

LEMMA NextStepStep ==
  ASSUME PageInv, UserOK', NEW t, Standing(t), NextStep(t)
  PROVE  PageInv'
<1>1. CASE Ends(t)
  <2>1. (tour' = StopAutoplay(t) \/ tour' = t) /\ TourOnly
    BY <1>1 DEF NextStep
  <2>2. Standing(tour')
    BY <2>1, StopStands
  <2> QED
    BY <2>1, <2>2, TourOnlyStep
<1>2. CASE ~Ends(t)
  <2>1. ShowStep(Forward(t)) /\ Standing(Forward(t))
    BY <1>2, ForwardStands DEF NextStep
  <2> QED
    BY <2>1, ShowStepStep
<1> QED
  BY <1>1, <1>2

(* The tour that a button or a callback hands on. *)
LEMMA Handed ==
  ASSUME NEW t, Standing(t), NEW a \in Autoplay
  PROVE  /\ Standing([t EXCEPT !.starting = FALSE])
         /\ Standing([t EXCEPT !.starting = FALSE, !.open = TRUE])
         /\ Standing([t EXCEPT !.autoplay = a])
         /\ Standing([t EXCEPT !.timer = FALSE])
         /\ t.orphans > 0 => Standing([t EXCEPT !.orphans = @ - 1])
<1>1. t \in TourState
  BY DEF Standing
<1>2. ASSUME NEW u \in TourState, u.chapter = t.chapter, u.step = t.step PROVE Standing(u)
  BY <1>2, SamePlace
<1>3. Standing([t EXCEPT !.starting = FALSE])
  BY <1>1, <1>2 DEF TourState
<1>4. Standing([t EXCEPT !.starting = FALSE, !.open = TRUE])
  BY <1>1, <1>2 DEF TourState
<1>5. Standing([t EXCEPT !.autoplay = a])
  BY <1>1, <1>2 DEF TourState
<1>6. Standing([t EXCEPT !.timer = FALSE])
  BY <1>1, <1>2 DEF TourState
<1>7. ASSUME t.orphans > 0 PROVE Standing([t EXCEPT !.orphans = @ - 1])
  <2> DEFINE u == [t EXCEPT !.orphans = @ - 1]
  <2>1. t.orphans - 1 \in Nat
    BY <1>1, <1>7 DEF TourState
  <2>2. u \in TourState /\ u.chapter = t.chapter /\ u.step = t.step
    BY <1>1, <2>1 DEF TourState
  <2> HIDE DEF u
  <2>3. Standing(u)
    BY <1>2, <2>2
  <2> QED
    BY <2>3 DEF u
<1> QED
  BY <1>3, <1>4, <1>5, <1>6, <1>7

LEMMA TourClickStep ==
  ASSUME PageInv, StartTour \/ ClickNext \/ ClickPrevious \/ ClickPlay \/ CloseTour
  PROVE  PageInv'
<1>1. visit' \in Visits /\ clicks' \in Nat /\ UNCHANGED <<typed, announced>>
  BY ClickUser DEF StartTour, ClickNext, ClickPrevious, ClickPlay, CloseTour, OnTour
<1>2. UserOK'
  BY <1>1, Parts DEF UserOK
<1>3. Standing(tour) /\ tour \in TourState
  BY Parts DEF Standing
<1>4. CASE StartTour
  <2>1. 0 \in Autoplay /\ 1 \in DOMAIN Chapters /\ 1 \in DOMAIN Chapters[1]
    BY Counted DEF Autoplay
  <2>2. Standing(tour')
    BY <1>3, <1>4, <2>1, StartStands DEF StartTour
  <2> QED
    BY <1>2, <1>4, <2>2, TourOnlyStep DEF StartTour
<1>5. CASE ClickNext
  BY <1>2, <1>3, <1>5, NextStepStep DEF ClickNext
<1>6. CASE ClickPrevious
  BY <1>2, <1>3, <1>6, BackwardStands, ShowStepStep DEF ClickPrevious
<1>7. CASE ClickPlay
  <2>1. CASE tour.autoplay # 0
    <3>1. tour' = StopAutoplay(tour) /\ TourOnly
      BY <1>7, <2>1 DEF ClickPlay
    <3> QED
      BY <1>2, <1>3, <3>1, StopStands, TourOnlyStep
  <2>2. CASE tour.autoplay = 0
    <3>1. NextStep([tour EXCEPT !.autoplay = 1])
      BY <1>7, <2>2 DEF ClickPlay
    <3>2. Standing([tour EXCEPT !.autoplay = 1])
      <4>1. 1 \in Autoplay
        BY DEF Autoplay
      <4> QED
        BY <1>3, <4>1, Handed
    <3> QED
      BY <1>2, <3>1, <3>2, NextStepStep
  <2> QED
    BY <2>1, <2>2
<1>8. CASE CloseTour
  BY <1>2, <1>3, <1>8, CloseStands, TourOnlyStep DEF CloseTour
<1> QED
  BY <1>4, <1>5, <1>6, <1>7, <1>8

LEMMA TourCallbackStep ==
  ASSUME PageInv, TourScript \/ TourScriptFails \/ TimerFires \/ OrphanFires
  PROVE  PageInv'
<1>1. UserOK'
  BY Parts DEF UserOK, user, TourScript, TourScriptFails, TimerFires, OrphanFires
<1>2. Standing(tour) /\ 0 \in Autoplay
  BY Parts DEF Autoplay
<1>3. CASE TourScript
  <2>1. ShowStep([tour EXCEPT !.starting = FALSE, !.open = TRUE])
    BY <1>3 DEF TourScript
  <2> QED
    BY <1>1, <1>2, <2>1, Handed, ShowStepStep
<1>4. CASE TourScriptFails
  <2>1. tour' = [tour EXCEPT !.starting = FALSE] /\ TourOnly
    BY <1>4 DEF TourScriptFails
  <2> QED
    BY <1>1, <1>2, <2>1, Handed, TourOnlyStep
<1>5. CASE TimerFires
  <2>1. NextStep([tour EXCEPT !.timer = FALSE])
    BY <1>5 DEF TimerFires
  <2> QED
    BY <1>1, <1>2, <2>1, Handed, NextStepStep
<1>6. CASE OrphanFires
  <2>1. tour.orphans > 0 /\ NextStep([tour EXCEPT !.orphans = @ - 1])
    BY <1>6 DEF OrphanFires
  <2> QED
    BY <1>1, <1>2, <2>1, Handed, NextStepStep
<1> QED
  BY <1>3, <1>4, <1>5, <1>6

-----------------------------------------------------------------------------
(* The page that has just come.                                            *)
LEMMA InitInv ==
  ASSUME Init
  PROVE  PageInv
<1>1. visit \in Visit /\ visit \in Visits /\ At(visit.tour) \in Place
  BY VisitAssumption DEF Init
<1>2. UserOK
  BY <1>1 DEF Init, UserOK, Visit
<1>3. DbOK
  <2>1. Records \in Nat /\ 1..Records \subseteq Key
    BY RecordsAssumption
  <2>2. db = [k \in 1..Records |-> -k]
    BY DEF Init
  <2> QED
    BY <2>1, <2>2 DEF DbOK
<1>4. GridOK /\ UnsavedIsGuarded
  BY NewGridType DEF Init, GridOK, UnsavedIsGuarded, Dirty
<1>5. UploadOK
  <2>1. NoEdits \in [Key -> Int]
    BY DEF NoEdits, Blank
  <2> QED
    BY <2>1 DEF Init, UploadOK
<1>6. PostOK
  <2>1. NoPost \in Request /\ NoPost.kind = "save"
    BY DEF NoPost, Request
  <2> QED
    BY <2>1 DEF Init, PostOK
<1>7. PageOK /\ dialog \in Dialog
  BY DEF Init, PageOK, NoDialog, Dialog
<1>8. Standing(tour)
  BY <1>1 DEF Init, Visit, Standing
<1> QED
  BY <1>2, <1>3, <1>4, <1>5, <1>6, <1>7, <1>8, Parts

LEMMA StepInv ==
  ASSUME PageInv, [Next]_vars
  PROVE  PageInv'
<1>1. CASE Cells
  BY <1>1, CellsStep, EscapeStep, SaveClickStep, UndoClickStep DEF Cells
<1>2. CASE Rows
  BY <1>2, HeaderStep, PagerStep, SelectStep, ShowStepOfRows, ConfirmStep, SaveClickStep,
     UndoClickStep, CloseStep, LinkStep DEF Rows
<1>3. CASE Requests
  BY <1>3, ServeLoadStep, LoadAnswerStep, ServeSaveStep, ServeDeleteStep, ServeCopyStep, LoseStep,
     SavedStep, DeletedStep, RefusedStep DEF Requests
<1>4. CASE Touring
  BY <1>4, TourClickStep, TourCallbackStep DEF Touring
<1>5. CASE UNCHANGED vars
  <2>1. UserOK' /\ DbOK' /\ GridOK' /\ UploadOK' /\ PostOK' /\ PageOK'
    BY <1>5, Parts
    DEF vars, user, upload, UserOK, DbOK, GridOK, CleanLoad, UploadOK, PostOK, PageOK
  <2>2. dialog' \in Dialog /\ Standing(tour') /\ UnsavedIsGuarded'
    BY <1>5, Parts DEF vars, upload, UnsavedIsGuarded, Dirty, Loading
  <2> QED
    BY <2>1, <2>2, PartsNext
<1> QED
  BY <1>1, <1>2, <1>3, <1>4, <1>5 DEF Next

(* The type invariant, for any records, page size, visits, tour and number *)
(* of posts under way: the tour never leaves the chapters it has           *)
(* (frepple.js, next and prev), and no copy gets a key that is taken.      *)
THEOREM TypeCorrect == Spec => []TypeOK
<1>1. PageInv => TypeOK
  BY DEF PageInv
<1> QED
  BY <1>1, InitInv, StepInv, PTL DEF Spec

(* Whenever a cell is marked as changed, the icons to save and to cancel   *)
(* are there and the user is, or has been, warned of leaving the page,     *)
(* however late or badly the requests are answered and whoever sorts,      *)
(* turns pages or selects meanwhile, unless the rows are being replaced or *)
(* that has failed (frepple.js, upload).                                   *)
THEOREM Guarded == Spec => []UnsavedIsGuarded
<1>1. PageInv => UnsavedIsGuarded
  BY DEF PageInv
<1> QED
  BY <1>1, InitInv, StepInv, PTL DEF Spec

-----------------------------------------------------------------------------
(* What a careful user can rely on.  The parts of the invariant, as        *)
(* operators of the values that they are about.                            *)
RowsOf(d, page, order) ==
  LET keys == Ranked(DOMAIN d, order)
      first == (page - 1) * PageSize
  IN  [i \in 1..Smaller(PageSize, Cardinality(DOMAIN d) - first) |->
         [key |-> keys[first + i], value |-> d[keys[first + i]], dirty |-> FALSE, input |-> FALSE]]

Wanted(k, d, e) == IF e[k] # Blank THEN e[k] ELSE d[k]

RowShows(row, i, g, d, e) ==
  /\ row.key = RowsOf(d, g.page, g.order)[i].key
  /\ row.value = Wanted(row.key, d, e)
  /\ row.dirty <=> e[row.key] # Blank
  /\ row.input <=> i = g.saved.row

Shows(g, d, e) ==
  /\ g.sel \subseteq Shown(g)
  /\ DOMAIN g.rows = DOMAIN RowsOf(d, g.page, g.order)
  /\ \A i \in DOMAIN g.rows : RowShows(g.rows[i], i, g, d, e)
  /\ Editing(g) => g.saved.row \in DOMAIN g.rows /\ g.saved.value = g.rows[g.saved.row].value

Harmless(q) == \A i \in Post : q[i].stage = "free" \/ (q[i].kind = "save" /\ q[i].stage # "orphan")

Active(q, i) == q[i].stage \in {"sent", "ok", "error"}

Alone(g, q) ==
  \A i \in Post : Active(q, i) => ~Loading(g) /\ \A j \in Post \ {i} : q[j].stage = "free"

Afresh(g, d, e, s) ==
  Loading(g) =>
    /\ g.sel = {} /\ g.saved = NotSaved /\ e = NoEdits
    /\ g.load.order = g.order
    /\ g.load.stage = "answered" /\ ~s => g.load.rows = RowsOf(d, g.load.page, g.load.order)

PostWanted(p, e, n) ==
  /\ p.kind = "save" => \A c \in p.rows : e[c.key] = c.value /\ c.value # Blank
  /\ p.kind = "delete" => \A c \in p.rows : c.key \in n
  /\ p.kind # "save" => e = NoEdits

Good(u, g, d, e, s, q, n) ==
  /\ u = GridUrl /\ ~Loading(g) /\ ~g.failed /\ ~s /\ Harmless(q) => Shows(g, d, e)
  /\ Alone(g, q)
  /\ Afresh(g, d, e, s)
  /\ \A i \in Post : Active(q, i) => PostWanted(q[i], e, n)

Chosen(dlg, g) == IF dlg.live THEN g.sel ELSE dlg.sel

Truthful(dlg, g, e) ==
  dlg.open /\ dlg.title # "error" =>
    /\ e = NoEdits
    /\ dlg.title = "delete" /\ dlg.buttons = "delete" => Chosen(dlg, g) \subseteq dlg.told

LEMMA PageIs ==
  /\ PageOf(grid.page, grid.order) = RowsOf(db, grid.page, grid.order)
  /\ PageOf(grid.load.page, grid.load.order) = RowsOf(db, grid.load.page, grid.load.order)
  /\ PageOf(grid.page, grid.order)' = RowsOf(db', grid'.page, grid'.order)
  /\ PageOf(grid.load.page, grid.load.order)' = RowsOf(db', grid'.load.page, grid'.load.order)
BY DEF PageOf, RowsOf

LEMMA DisplayedIs ==
  (Displayed <=> Shows(grid, db, edits)) /\ (Displayed' <=> Shows(grid', db', edits'))
<1>1. Displayed <=> Shows(grid, db, edits)
  BY PageIs DEF Displayed, Shows, RowShows, Expected, Wanted
<1>2. Displayed' <=> Shows(grid', db', edits')
  BY PageIs DEF Displayed, Shows, RowShows, Expected, Wanted
<1> QED
  BY <1>1, <1>2

LEMMA GoodIs ==
  Reliable <=> /\ Good(url, grid, db, edits, stale, post, announced)
               /\ Truthful(dialog, grid, edits)
BY DisplayedIs, PageIs
DEF Reliable, Settled, OneAtATime, LoadedAfresh, PostIsWanted, DialogIsTrue, UnderWay, Selected,
    Good, Harmless, Active, Alone, Afresh, PostWanted, Chosen, Truthful

LEMMA GoodNext ==
  Reliable' <=> /\ Good(url', grid', db', edits', stale', post', announced')
                /\ Truthful(dialog', grid', edits')
BY DisplayedIs, PageIs
DEF Reliable, Settled, OneAtATime, LoadedAfresh, PostIsWanted, DialogIsTrue, UnderWay, Selected,
    Good, Harmless, Active, Alone, Afresh, PostWanted, Chosen, Truthful

(* The page that the server answers with: a record that is stored, as it   *)
(* is stored, in each row, and no record in two rows; and which records    *)
(* these are depends on nothing but which there are.                       *)
LEMMA RowsOfRecords ==
  ASSUME NEW d, DOMAIN d \subseteq Key, NEW page \in Nat \ {0}, NEW order
  PROVE  LET rows == RowsOf(d, page, order)
         IN  /\ \A i \in DOMAIN rows :
                  /\ i \in Nat \ {0}
                  /\ rows[i].key \in DOMAIN d /\ rows[i].value = d[rows[i].key]
                  /\ ~rows[i].dirty /\ ~rows[i].input
             /\ \A i, j \in DOMAIN rows : rows[i].key = rows[j].key => i = j
<1> DEFINE n == Cardinality(DOMAIN d)
           first == (page - 1) * PageSize
           len == Smaller(PageSize, n - first)
           keys == Ranked(DOMAIN d, order)
           rows == RowsOf(d, page, order)
<1>1. IsFiniteSet(DOMAIN d) /\ DOMAIN d \subseteq Nat /\ n \in Nat
  BY KeyAssumption, FS_Subset, FS_CardinalityType
<1>2. /\ keys \in [1..n -> DOMAIN d]
      /\ \A i, j \in 1..n : i < j => Before(order, keys[i], keys[j])
  BY <1>1, RankedSorts
<1>3. first \in Nat
  <2>1. page - 1 \in Nat /\ PageSize \in Nat
    BY PageAssumption
  <2> QED
    BY <2>1, SMTT(30)
<1>4. len \in Int /\ len <= n - first
  <2> HIDE DEF n, first
  <2> QED
    BY <1>1, <1>3, PageAssumption DEF Smaller
<1>5. DOMAIN rows = 1..len /\ \A i \in 1..len :
        rows[i] = [key |-> keys[first + i], value |-> d[keys[first + i]], dirty |-> FALSE,
                   input |-> FALSE]
  BY DEF RowsOf
<1>6. ASSUME NEW i \in 1..len PROVE first + i \in 1..n /\ i \in Nat \ {0}
  <2> HIDE DEF n, first, len
  <2> QED
    BY <1>1, <1>3, <1>4
<1> HIDE DEF rows, keys, len
<1>7. ASSUME NEW i \in DOMAIN rows
      PROVE  /\ i \in Nat \ {0}
             /\ rows[i].key \in DOMAIN d /\ rows[i].value = d[rows[i].key]
             /\ ~rows[i].dirty /\ ~rows[i].input
  <2> HIDE DEF n, first
  <2> QED
    BY <1>2, <1>5, <1>6
<1>8. ASSUME NEW i \in DOMAIN rows, NEW j \in DOMAIN rows, rows[i].key = rows[j].key
      PROVE  i = j
  <2> HIDE DEF n, first
  <2>1. /\ first + i \in 1..n /\ first + j \in 1..n /\ keys[first + i] = keys[first + j]
        /\ i \in Nat /\ j \in Nat
    BY <1>5, <1>6, <1>8
  <2>2. keys[first + i] \in Nat
    BY <1>1, <1>2, <2>1
  <2>3. ~(first + i < first + j) /\ ~(first + j < first + i)
    BY <1>2, <2>1, <2>2, BeforeIsOrder
  <2> QED
    BY <1>3, <2>1, <2>3
<1> QED
  BY <1>7, <1>8 DEF rows

LEMMA RowsOfSame ==
  ASSUME NEW d, NEW f, DOMAIN f = DOMAIN d, NEW page, NEW order
  PROVE  /\ DOMAIN RowsOf(f, page, order) = DOMAIN RowsOf(d, page, order)
         /\ \A i \in DOMAIN RowsOf(d, page, order) :
              RowsOf(f, page, order)[i].key = RowsOf(d, page, order)[i].key
BY DEF RowsOf

(* The rows that have just come show what is stored. *)
LEMMA LoadedShows ==
  ASSUME NEW g \in Grid, NEW d, DOMAIN d \subseteq Key, Afresh(g, d, NoEdits, FALSE),
         g.load.stage = "answered"
  PROVE  Shows(AddJSONData(g), d, NoEdits)
<1> DEFINE h == AddJSONData(g)
           rows == RowsOf(d, g.load.page, g.load.order)
<1>1. g.load \in Load /\ g.saved \in [row : Nat, value : Int]
  BY DEF Grid
<1>2. /\ h.rows = g.load.rows /\ h.page = g.load.page /\ h.sel = g.sel /\ h.saved = g.saved
      /\ h.order = g.order
  BY DEF AddJSONData, Grid
<1>3. /\ g.load.page \in Nat \ {0} /\ g.sel = {} /\ g.saved = NotSaved
      /\ g.load.order = g.order /\ g.load.rows = rows
  BY <1>1 DEF Afresh, Loading, Load
<1>4. \A i \in DOMAIN rows :
        /\ i \in Nat \ {0} /\ rows[i].key \in DOMAIN d /\ rows[i].value = d[rows[i].key]
        /\ ~rows[i].dirty /\ ~rows[i].input
  BY <1>3, RowsOfRecords
<1> HIDE DEF h
<1>5. h.saved.row = 0 /\ ~Editing(h)
  BY <1>2, <1>3 DEF NotSaved, Editing
<1>6. h.rows = rows /\ RowsOf(d, h.page, h.order) = rows
  BY <1>2, <1>3
<1> HIDE DEF rows
<1>7. ASSUME NEW i \in DOMAIN rows PROVE RowShows(rows[i], i, h, d, NoEdits)
  <2>1. NoEdits[rows[i].key] = Blank
    BY <1>4 DEF NoEdits
  <2>2. i # h.saved.row
    BY <1>4, <1>5
  <2> QED
    BY <1>4, <1>6, <2>1, <2>2 DEF RowShows, Wanted
<1> QED
  BY <1>2, <1>3, <1>5, <1>6, <1>7 DEF Shows, h

(* Storing what was typed in a record changes nothing of what is shown. *)
LEMMA StoredShows ==
  ASSUME NEW g \in Grid, NEW d, NEW f, NEW e, DOMAIN f = DOMAIN d, DOMAIN d \subseteq Key,
         \A k \in DOMAIN d : f[k] = d[k] \/ (e[k] # Blank /\ f[k] = e[k]), Shows(g, d, e)
  PROVE  Shows(g, f, e)
<1> DEFINE rows == RowsOf(d, g.page, g.order)
           new == RowsOf(f, g.page, g.order)
<1>1. g.page \in Nat \ {0}
  BY DEF Grid
<1>2. DOMAIN new = DOMAIN rows /\ \A i \in DOMAIN rows : new[i].key = rows[i].key
  BY RowsOfSame
<1>3. \A i \in DOMAIN rows : rows[i].key \in DOMAIN d
  BY <1>1, RowsOfRecords
<1>4. /\ g.sel \subseteq Shown(g) /\ DOMAIN g.rows = DOMAIN rows
      /\ \A i \in DOMAIN g.rows : RowShows(g.rows[i], i, g, d, e)
      /\ Editing(g) => g.saved.row \in DOMAIN g.rows /\ g.saved.value = g.rows[g.saved.row].value
  BY DEF Shows
<1>5. ASSUME NEW i \in DOMAIN g.rows PROVE RowShows(g.rows[i], i, g, f, e)
  <2>1. /\ g.rows[i].key = rows[i].key /\ g.rows[i].value = Wanted(g.rows[i].key, d, e)
        /\ g.rows[i].dirty <=> e[g.rows[i].key] # Blank
        /\ g.rows[i].input <=> i = g.saved.row
    BY <1>4 DEF RowShows
  <2>2. g.rows[i].key = new[i].key /\ g.rows[i].key \in DOMAIN d
    BY <1>2, <1>3, <1>4, <2>1
  <2>3. Wanted(g.rows[i].key, f, e) = Wanted(g.rows[i].key, d, e)
    BY <2>2 DEF Wanted
  <2> QED
    BY <2>1, <2>2, <2>3 DEF RowShows
<1> QED
  BY <1>2, <1>4, <1>5 DEF Shows

(* What the rows show does not depend on the rest of the grid. *)
LEMMA SameShows ==
  ASSUME NEW g, NEW h, NEW d, NEW e, Shows(g, d, e), h.rows = g.rows, h.saved = g.saved,
         h.page = g.page, h.order = g.order, h.sel \subseteq Shown(g)
  PROVE  Shows(h, d, e)
BY DEF Shows, RowShows, Shown, Editing

LEMMA SelectionShows ==
  ASSUME NEW g \in Grid, NEW d, NEW e, Shows(g, d, e)
  PROVE  /\ \A k \in Shown(g) : Shows(SetSelection(g, k), d, e) /\ SetSelection(g, k).load = g.load
         /\ Shows(SelectAll(g), d, e)
<1>1. g.sel \subseteq Shown(g)
  BY DEF Shows
<1>2. ASSUME NEW k \in Shown(g)
      PROVE  Shows(SetSelection(g, k), d, e) /\ SetSelection(g, k).load = g.load
  <2> DEFINE h == SetSelection(g, k)
  <2>1. /\ h.rows = g.rows /\ h.saved = g.saved /\ h.page = g.page /\ h.order = g.order
        /\ h.load = g.load
        /\ h.sel = IF k \in g.sel THEN g.sel \ {k} ELSE g.sel \cup {k}
    BY DEF SetSelection, Grid
  <2>2. h.sel \subseteq Shown(g)
    BY <1>1, <2>1
  <2> HIDE DEF h
  <2>3. Shows(h, d, e)
    BY <2>1, <2>2, SameShows
  <2> QED
    BY <2>1, <2>3 DEF h
<1>3. Shows(SelectAll(g), d, e)
  <2> DEFINE h == SelectAll(g)
  <2>1. /\ h.rows = g.rows /\ h.saved = g.saved /\ h.page = g.page /\ h.order = g.order
        /\ h.sel = IF g.all THEN {} ELSE Shown(g)
    BY DEF SelectAll, Grid
  <2>2. h.sel \subseteq Shown(g)
    BY <2>1
  <2> HIDE DEF h
  <2>3. Shows(h, d, e)
    BY <2>1, <2>2, SameShows
  <2> QED
    BY <2>3 DEF h
<1> QED
  BY <1>2, <1>3

(* One row is replaced, which keeps its key, and shows what is expected of *)
(* its record from then on. *)
LEMMA RowShown ==
  ASSUME NEW g \in Grid, NEW d, DOMAIN d \subseteq Key, NEW e, NEW f, Shows(g, d, e),
         NEW r \in DOMAIN g.rows, NEW row \in Row, NEW s \in [row : Nat, value : Int],
         row.key = g.rows[r].key,
         \A k \in Key : k # row.key => f[k] = e[k],
         row.value = Wanted(row.key, d, f),
         row.dirty <=> f[row.key] # Blank,
         row.input <=> r = s.row,
         \A i \in DOMAIN g.rows : i # r => (i = g.saved.row <=> i = s.row),
         s.row # 0 => s.row = r /\ s.value = row.value
  PROVE  Shows(WithRow(g, r, row, s), d, f)
<1> DEFINE h == WithRow(g, r, row, s)
           page == RowsOf(d, g.page, g.order)
<1>1. /\ h \in Grid /\ h.saved = s /\ DOMAIN h.rows = DOMAIN g.rows
      /\ \A i \in DOMAIN g.rows : h.rows[i] = IF i = r THEN row ELSE g.rows[i]
  BY ReplaceRow
<1>2. h.page = g.page /\ h.order = g.order /\ h.sel = g.sel
  BY DEF WithRow, Grid
<1> HIDE DEF h
<1>3. Shown(h) = Shown(g)
  <2>1. \A i \in DOMAIN g.rows : h.rows[i].key = g.rows[i].key
    BY <1>1
  <2> QED
    BY <1>1, <2>1 DEF Shown
<1>4. /\ DOMAIN g.rows = DOMAIN page /\ g.sel \subseteq Shown(g)
      /\ \A i \in DOMAIN g.rows : RowShows(g.rows[i], i, g, d, e)
  BY DEF Shows
<1>5. \A i, j \in DOMAIN page : page[i].key = page[j].key => i = j
  <2>1. g.page \in Nat \ {0}
    BY DEF Grid
  <2> QED
    BY <2>1, RowsOfRecords
<1> HIDE DEF page
<1>6. ASSUME NEW i \in DOMAIN g.rows, i # r PROVE RowShows(g.rows[i], i, h, d, f)
  <2>1. /\ g.rows[i].key = page[i].key /\ g.rows[i].value = Wanted(g.rows[i].key, d, e)
        /\ g.rows[i].dirty <=> e[g.rows[i].key] # Blank
        /\ g.rows[i].input <=> i = g.saved.row
    BY <1>4 DEF RowShows, page
  <2>2. g.rows[r].key = page[r].key
    BY <1>4 DEF RowShows, page
  <2>3. g.rows[i].key # row.key
    BY <1>4, <1>5, <1>6, <2>1, <2>2
  <2>4. f[g.rows[i].key] = e[g.rows[i].key]
    <3>1. g.rows[i].key \in Key
      BY ShownType DEF Row
    <3> QED
      BY <2>3, <3>1
  <2>5. Wanted(g.rows[i].key, d, f) = Wanted(g.rows[i].key, d, e)
    BY <2>4 DEF Wanted
  <2>6. g.rows[i].input <=> i = h.saved.row
    BY <1>1, <1>6, <2>1
  <2> QED
    BY <1>2, <2>1, <2>4, <2>5, <2>6 DEF RowShows, page
<1>7. RowShows(row, r, h, d, f)
  <2>1. row.key = page[r].key
    BY <1>4 DEF RowShows, page
  <2> QED
    BY <1>1, <1>2, <2>1 DEF RowShows, page
<1>8. \A i \in DOMAIN h.rows : RowShows(h.rows[i], i, h, d, f)
  BY <1>1, <1>6, <1>7
<1>9. DOMAIN h.rows = DOMAIN RowsOf(d, h.page, h.order)
  BY <1>1, <1>2, <1>4 DEF page
<1>10. Editing(h) => h.saved.row \in DOMAIN h.rows /\ h.saved.value = h.rows[h.saved.row].value
  BY <1>1 DEF Editing
<1> QED
  BY <1>2, <1>3, <1>4, <1>8, <1>9, <1>10 DEF Shows, h

(* The open cell, of which there is at most one, is given up: it shows     *)
(* what it showed. *)
LEMMA RestoreShows ==
  ASSUME NEW g \in Grid, NEW d, DOMAIN d \subseteq Key, NEW e, Shows(g, d, e)
  PROVE  Shows(RestoreCell(g, g.saved.row), d, e) /\ ~Editing(RestoreCell(g, g.saved.row))
<1> DEFINE r == g.saved.row
           row == [g.rows[r] EXCEPT !.value = g.saved.value, !.input = FALSE]
<1>1. CASE ~Editing(g)
  BY <1>1 DEF RestoreCell
<1>2. CASE Editing(g)
  <2>1. r \in DOMAIN g.rows /\ g.saved.value = g.rows[r].value /\ g.saved \in [row : Nat, value : Int]
    BY <1>2 DEF Shows, Grid
  <2>2. g.rows[r] \in Row /\ RowShows(g.rows[r], r, g, d, e)
    BY <2>1, ShownType DEF Shows
  <2>3. RestoreCell(g, r) = WithRow(g, r, row, NotSaved)
    BY <1>2, <2>1 DEF RestoreCell
  <2>4. /\ row \in Row /\ row.key = g.rows[r].key /\ row.value = g.rows[r].value
        /\ row.dirty = g.rows[r].dirty /\ row.input = FALSE
    BY <2>1, <2>2 DEF Row
  <2> HIDE DEF row
  <2>5. row.value = Wanted(row.key, d, e) /\ (row.dirty <=> e[row.key] # Blank)
    BY <2>2, <2>4 DEF RowShows
  <2>6. NotSaved \in [row : Nat, value : Int] /\ NotSaved.row = 0
    BY DEF NotSaved, Blank
  <2>7. r # 0 /\ \A i \in DOMAIN g.rows : i # 0
    BY <1>2, ShownType DEF Editing
  <2>8. Shows(WithRow(g, r, row, NotSaved), d, e)
    BY <2>1, <2>4, <2>5, <2>6, <2>7, RowShown
  <2>9. WithRow(g, r, row, NotSaved).saved = NotSaved
    BY <2>1, <2>4, <2>6, ReplaceRow
  <2> QED
    BY <2>3, <2>6, <2>8, <2>9 DEF Editing
<1> QED
  BY <1>1, <1>2

(* What UploadSelect notes of the text that is accepted in row r.          *)
Noted(g, r, text, e) ==
  IF g.rows[r].input THEN [e EXCEPT ![g.rows[r].key] = text] ELSE e

(* A text is accepted in the open cell: it is shown and noted. *)
LEMMA AcceptShows ==
  ASSUME NEW g \in Grid, NEW d, DOMAIN d \subseteq Key, NEW e \in [Key -> Int], Shows(g, d, e),
         Editing(g), NEW text \in Int, text # Blank
  PROVE  LET h == AcceptCell(g, g.saved.row, text)
         IN  Shows(h, d, Noted(g, g.saved.row, text, e)) /\ ~Editing(h)
<1> DEFINE r == g.saved.row
           f == [e EXCEPT ![g.rows[r].key] = text]
           row == [g.rows[r] EXCEPT !.value = text, !.dirty = TRUE, !.input = FALSE]
<1>1. r \in DOMAIN g.rows
  BY DEF Shows
<1>2. g.rows[r] \in Row /\ RowShows(g.rows[r], r, g, d, e)
  BY <1>1, ShownType DEF Shows
<1>3. g.rows[r].input = TRUE /\ g.rows[r].key \in Key
  BY <1>2 DEF RowShows, Row
<1>4. AcceptCell(g, r, text) = WithRow(g, r, row, NotSaved) /\ Noted(g, r, text, e) = f
  BY <1>3 DEF AcceptCell, Noted
<1>5. /\ row \in Row /\ row.key = g.rows[r].key /\ row.value = text
      /\ row.dirty = TRUE /\ row.input = FALSE
  BY <1>2 DEF Row
<1> HIDE DEF row
<1>6. f[row.key] = text /\ \A k \in Key : k # row.key => f[k] = e[k]
  BY <1>3, <1>5
<1> HIDE DEF f
<1>7. row.value = Wanted(row.key, d, f) /\ (row.dirty <=> f[row.key] # Blank)
  BY <1>5, <1>6 DEF Wanted
<1>8. NotSaved \in [row : Nat, value : Int] /\ NotSaved.row = 0
  BY DEF NotSaved, Blank
<1>9. r # 0 /\ \A i \in DOMAIN g.rows : i # 0
  BY ShownType DEF Editing
<1>10. Shows(WithRow(g, r, row, NotSaved), d, f)
  BY <1>1, <1>5, <1>6, <1>7, <1>8, <1>9, RowShown
<1>11. WithRow(g, r, row, NotSaved).saved = NotSaved
  BY <1>1, <1>5, <1>8, ReplaceRow
<1> QED
  BY <1>4, <1>8, <1>10, <1>11 DEF Editing

(* A cell is opened while none is. *)
LEMMA OpenShows ==
  ASSUME NEW g \in Grid, NEW d, DOMAIN d \subseteq Key, NEW e, Shows(g, d, e), ~Editing(g),
         NEW r \in DOMAIN g.rows
  PROVE  Shows(OpenCell(g, r), d, e)
<1> DEFINE row == [g.rows[r] EXCEPT !.input = TRUE]
           s == [row |-> r, value |-> g.rows[r].value]
<1>1. g.rows[r] \in Row /\ RowShows(g.rows[r], r, g, d, e) /\ r \in Nat \ {0}
  BY ShownType DEF Shows
<1>2. g.saved.row = 0 /\ \A i \in DOMAIN g.rows : i # 0
  BY ShownType DEF Editing
<1>3. g.rows[r].input = FALSE
  BY <1>1, <1>2 DEF RowShows, Row
<1>4. OpenCell(g, r) = WithRow(g, r, row, s)
  BY <1>3 DEF OpenCell
<1>5. /\ row \in Row /\ row.key = g.rows[r].key /\ row.value = g.rows[r].value
      /\ row.dirty = g.rows[r].dirty /\ row.input = TRUE
  BY <1>1 DEF Row
<1>6. s \in [row : Nat, value : Int] /\ s.row = r /\ s.value = row.value
  BY <1>1, <1>5 DEF Row
<1> HIDE DEF row, s
<1>7. row.value = Wanted(row.key, d, e) /\ (row.dirty <=> e[row.key] # Blank)
  BY <1>1, <1>5 DEF RowShows
<1>8. Shows(WithRow(g, r, row, s), d, e)
  BY <1>2, <1>5, <1>6, <1>7, RowShown
<1> QED
  BY <1>4, <1>8

(* The open cell is saved, and another one opened. *)
LEMMA SaveShows ==
  ASSUME NEW g \in Grid, NEW d, DOMAIN d \subseteq Key, NEW e \in [Key -> Int], Shows(g, d, e),
         NEW text \in Int, text = g.saved.value \/ text # Blank
  PROVE  LET r == g.saved.row
             h == SaveCell(g, r, text)
         IN  /\ Shows(h, d, IF Accepts(g, r, text) THEN Noted(g, r, text, e) ELSE e)
             /\ ~Editing(h)
<1> DEFINE r == g.saved.row
<1>1. CASE Accepts(g, r, text)
  <2>1. Editing(g) /\ r \in DOMAIN g.rows /\ Changed(g, r, text)
    BY <1>1 DEF Accepts
  <2>2. g.rows[r].input
    BY <2>1 DEF Shows, RowShows
  <2>3. text # Blank
    BY <2>1, <2>2 DEF Changed
  <2> QED
    BY <1>1, <2>1, <2>3, AcceptShows DEF SaveCell
<1>2. CASE ~Accepts(g, r, text)
  BY <1>2, RestoreShows DEF SaveCell
<1> QED
  BY <1>1, <1>2

LEMMA EditShows ==
  ASSUME NEW g \in Grid, NEW d, DOMAIN d \subseteq Key, NEW e \in [Key -> Int], Shows(g, d, e),
         NEW text \in Int, text = g.saved.value \/ text # Blank, NEW q \in DOMAIN g.rows
  PROVE  LET r == g.saved.row
         IN  Shows(EditCell(g, q, text), d, IF Accepts(g, r, text) THEN Noted(g, r, text, e) ELSE e)
<1> DEFINE r == g.saved.row
           s == SaveCell(g, r, text)
           f == IF Accepts(g, r, text) THEN Noted(g, r, text, e) ELSE e
<1>1. Shows(s, d, f) /\ ~Editing(s)
  BY SaveShows
<1>2. r \in Nat
  BY DEF Grid
<1>3. s \in Grid /\ DOMAIN s.rows = DOMAIN g.rows
  BY <1>2, SaveType
<1>4. EditCell(g, q, text) = OpenCell(s, q)
  BY <1>1 DEF EditCell
<1> HIDE DEF s, f
<1>5. Shows(OpenCell(s, q), d, f)
  BY <1>1, <1>3, OpenShows
<1> QED
  BY <1>4, <1>5 DEF f

(* The rows have been asked for again, and everything else is forgotten. *)
Asked(g) ==
  g.load.stage = "asked" /\ g.sel = {} /\ g.saved = NotSaved /\ g.load.order = g.order

LEMMA PopulateAsks ==
  ASSUME NEW g \in Grid, ~Loading(g), g.sel = {}, g.saved = NotSaved
  PROVE  Asked(Populate(g))
<1> DEFINE asked == [stage |-> "asked", page |-> g.page, order |-> g.order, rows |-> <<>>]
           h == [g EXCEPT !.load = asked, !.failed = FALSE]
<1>1. Populate(g) = h
  BY DEF Populate
<1>2. h.load = asked /\ h.sel = g.sel /\ h.saved = g.saved /\ h.order = g.order
  BY DEF Grid
<1>3. asked.stage = "asked" /\ asked.order = g.order
  OBVIOUS
<1> HIDE DEF asked, h
<1> QED
  BY <1>1, <1>2, <1>3 DEF Asked

LEMMA Asks ==
  ASSUME NEW g \in Grid, ~Loading(g)
  PROVE  /\ Asked(ReloadGrid(g))
         /\ \A p \in Nat \ {0} : Asked(TurnPage(g, p))
         /\ SortData(g) = g \/ Asked(SortData(g))
         /\ Asked(SortData(ResetSelection(g)))
<1> DEFINE f == Forget(g)
<1>1. f \in Grid /\ f.load = g.load /\ f.sel = {} /\ f.saved = NotSaved
  <2>1. f.sel = {} /\ f.saved = NotSaved
    BY DEF Forget, Grid
  <2> QED
    BY <2>1, ForgetType DEF Keeps
<1>2. ~Loading(f)
  BY <1>1 DEF Loading
<1>3. Asked(ReloadGrid(g))
  BY <1>1, <1>2, PopulateAsks DEF ReloadGrid
<1>4. ASSUME NEW p \in Nat \ {0} PROVE Asked(TurnPage(g, p))
  <2> DEFINE h == [f EXCEPT !.page = p]
  <2> HIDE DEF f
  <2>1. h \in Grid /\ h.load = f.load /\ h.sel = f.sel /\ h.saved = f.saved
    BY <1>1 DEF Grid
  <2>2. TurnPage(g, p) = Populate(h)
    BY DEF TurnPage, f
  <2> HIDE DEF h
  <2> QED
    BY <1>1, <1>2, <2>1, <2>2, PopulateAsks DEF Loading
<1>5. ASSUME NEW k \in Grid, k.load = g.load PROVE (Editing(k) /\ SortData(k) = k) \/ Asked(SortData(k))
  <2> DEFINE m == Forget(k)
             o == IF m.order = "asc" THEN "desc" ELSE "asc"
             h == [m EXCEPT !.order = o, !.page = 1]
  <2>1. m \in Grid /\ m.load = g.load
    BY <1>5, ForgetType DEF Keeps
  <2>2. m.sel = {} /\ m.saved = NotSaved
    BY DEF Forget, Grid
  <2>3. o \in Order
    BY DEF Order
  <2>4. Editing(k) \/ SortData(k) = Populate(h)
    BY DEF SortData
  <2>5. Editing(k) => SortData(k) = k
    BY DEF SortData
  <2> HIDE DEF m, o
  <2>6. h \in Grid /\ h.load = m.load /\ h.sel = m.sel /\ h.saved = m.saved
    <3>1. h \in Grid /\ h.load = m.load
      BY <2>1, <2>3, 1 \in Nat \ {0}, AskType
    <3>2. h.sel = m.sel /\ h.saved = m.saved
      BY <2>1 DEF Grid
    <3> QED
      BY <3>1, <3>2
  <2> HIDE DEF h
  <2>7. Asked(Populate(h))
    BY <2>1, <2>2, <2>6, PopulateAsks DEF Loading
  <2> QED
    BY <2>4, <2>5, <2>7
<1>6. ~Editing(f)
  BY <1>1 DEF Editing, NotSaved
<1> HIDE DEF f
<1>7. Asked(SortData(f))
  BY <1>1, <1>5, <1>6
<1> QED
  BY <1>3, <1>4, <1>5, <1>7 DEF ResetSelection, f

LEMMA NewAsks ==
  Asked(NewGrid) /\ ~Loading(NoGrid)
<1> DEFINE g == [rows |-> <<>>, saved |-> NotSaved, sel |-> {}, all |-> FALSE, page |-> 1,
                 order |-> "asc", load |-> NoLoad, failed |-> FALSE]
<1>1. <<>> \in Seq(Row) /\ NotSaved \in [row : Nat, value : Int]
  BY DEF NotSaved, Blank
<1>2. g \in Grid
  BY <1>1, NoLoadType DEF Grid, Order
<1>3. g.sel = {} /\ g.saved = NotSaved /\ ~Loading(g)
  BY DEF Loading, NoLoad
<1>4. NewGrid = Populate(g)
  BY DEF NewGrid
<1> HIDE DEF g
<1>5. Asked(NewGrid)
  BY <1>2, <1>3, <1>4, PopulateAsks
<1>6. NewGrid \in Grid
  BY NewGridType
<1>7. NoGrid.load = NoLoad
  BY <1>6 DEF NoGrid, Grid
<1> QED
  BY <1>5, <1>7 DEF Loading, NoLoad

(* Nothing is under way, and the rows show what they have to. *)
LEMMA Resting ==
  ASSUME NEW u, NEW g, NEW d, NEW e, NEW s, NEW q, NEW n, ~Loading(g),
         \A i \in Post : ~Active(q, i), Shows(g, d, e) \/ g.failed \/ s \/ u # GridUrl
  PROVE  Good(u, g, d, e, s, q, n)
BY DEF Good, Alone, Afresh, Active

LEMMA Asking ==
  ASSUME NEW u, NEW g, NEW d, NEW s, NEW q, NEW n, Asked(g), \A i \in Post : ~Active(q, i)
  PROVE  Good(u, g, d, NoEdits, s, q, n)
BY DEF Good, Alone, Afresh, Active, Asked, Loading

(* A post is sent by a page that shows what it has to. *)
LEMMA Sending ==
  ASSUME NEW u, NEW g, NEW d, NEW e, NEW s, NEW q, NEW n, ~Loading(g), Shows(g, d, e),
         \A j \in Post : q[j].stage = "free", NEW i \in Post, NEW p, p.stage = "sent",
         PostWanted(p, e, n), DOMAIN q = Post
  PROVE  Good(u, g, d, e, s, [q EXCEPT ![i] = p], n)
<1> DEFINE r == [q EXCEPT ![i] = p]
<1>1. \A j \in Post : r[j] = IF j = i THEN p ELSE q[j]
  OBVIOUS
<1> HIDE DEF r
<1>2. \A j \in Post : Active(r, j) => j = i
  BY <1>1 DEF Active
<1> QED
  BY <1>1, <1>2 DEF Good, Alone, Afresh, r

(* The server answers to a post; only changes are stored unbeknown to the  *)
(* grid. *)
LEMMA Serving ==
  ASSUME NEW u, NEW g, NEW d, NEW f, NEW e, NEW s, NEW q \in [Post -> Request], NEW n,
         Good(u, g, d, e, s, q, n), NEW i \in Post, q[i].stage = "sent",
         NEW p \in Request, p.kind = q[i].kind, p.rows = q[i].rows, p.stage \in {"ok", "error"},
         q[i].kind = "save" /\ Shows(g, d, e) => Shows(g, f, e)
  PROVE  Good(u, g, f, e, s, [q EXCEPT ![i] = p], n)
<1> DEFINE r == [q EXCEPT ![i] = p]
<1>1. \A j \in Post : r[j] = IF j = i THEN p ELSE q[j]
  OBVIOUS
<1> HIDE DEF r
<1>2. Active(q, i) /\ ~Loading(g) /\ \A j \in Post \ {i} : q[j].stage = "free"
  BY DEF Good, Alone, Active
<1>3. \A j \in Post : Active(r, j) => j = i
  BY <1>1, <1>2 DEF Active
<1>4. PostWanted(p, e, n)
  BY <1>2 DEF Good, PostWanted
<1>5. Harmless(r) => Harmless(q) /\ q[i].kind = "save"
  <2> HAVE Harmless(r)
  <2>1. q[i].kind = "save"
    BY <1>1 DEF Harmless
  <2> QED
    BY <1>2, <2>1 DEF Harmless
<1>6. u = GridUrl /\ ~Loading(g) /\ ~g.failed /\ ~s /\ Harmless(r) => Shows(g, f, e)
  BY <1>5 DEF Good
<1> QED
  BY <1>1, <1>2, <1>3, <1>4, <1>6 DEF Good, Alone, Afresh, r

(* What a page sent that was left is served, and the records change under  *)
(* the grid. *)
LEMMA Orphaning ==
  ASSUME NEW u, NEW g, NEW d, NEW f, NEW e, NEW s, NEW q \in [Post -> Request], NEW n,
         Good(u, g, d, e, s, q, n), NEW i \in Post
  PROVE  Good(u, g, f, e, TRUE, [q EXCEPT ![i] = NoPost], n)
<1> DEFINE r == [q EXCEPT ![i] = NoPost]
<1>1. \A j \in Post : r[j] = IF j = i THEN NoPost ELSE q[j]
  OBVIOUS
<1>2. NoPost.stage = "free"
  BY DEF NoPost
<1> HIDE DEF r
<1>3. \A j \in Post : Active(r, j) => j # i /\ Active(q, j)
  BY <1>1, <1>2 DEF Active
<1>4. \A j \in Post : r[j].stage = q[j].stage \/ r[j].stage = "free"
  BY <1>1, <1>2
<1>5. Alone(g, r)
  BY <1>3, <1>4 DEF Good, Alone
<1> QED
  BY <1>1, <1>3, <1>5 DEF Good, Afresh, r

(* The answer to a post is handled; after an error of a deletion or a copy *)
(* the rows may not be those that are stored. *)
LEMMA Answering ==
  ASSUME NEW u, NEW g, NEW d, NEW e, NEW s, NEW t, NEW q \in [Post -> Request], NEW n,
         Good(u, g, d, e, s, q, n), NEW i \in Post, Active(q, i),
         t = s \/ t, q[i].kind = "save" \/ t
  PROVE  /\ Good(u, g, d, e, t, [q EXCEPT ![i] = NoPost], n)
         /\ ~Loading(g) /\ \A j \in Post : ~Active([q EXCEPT ![i] = NoPost], j)
<1> DEFINE r == [q EXCEPT ![i] = NoPost]
<1>1. \A j \in Post : r[j] = IF j = i THEN NoPost ELSE q[j]
  OBVIOUS
<1>2. NoPost.stage = "free"
  BY DEF NoPost
<1> HIDE DEF r
<1>3. ~Loading(g) /\ \A j \in Post \ {i} : q[j].stage = "free"
  BY DEF Good, Alone
<1>4. \A j \in Post : ~Active(r, j)
  BY <1>1, <1>2, <1>3 DEF Active
<1>5. CASE t
  BY <1>3, <1>4, <1>5, Resting DEF r
<1>6. CASE ~t
  <2>1. q[i].kind = "save" /\ ~s /\ t = s
    BY <1>6
  <2>2. Harmless(q)
    BY <1>3, <2>1 DEF Harmless, Active
  <2>3. u = GridUrl /\ ~g.failed => Shows(g, d, e)
    BY <1>3, <2>1, <2>2 DEF Good
  <2> QED
    BY <1>3, <1>4, <2>3, Resting DEF r
<1> QED
  BY <1>3, <1>4, <1>5, <1>6 DEF r

(* When the page is quiet it shows what it has to. *)
LEMMA QuietShows ==
  ASSUME PageInv, Reliable, url = GridUrl, Quiet
  PROVE  /\ Shows(grid, db, edits) /\ ~Loading(grid)
         /\ \A i \in Post : post[i].stage = "free" /\ ~Active(post, i)
         /\ grid \in Grid /\ DOMAIN db \subseteq Key /\ edits \in [Key -> Int]
         /\ DOMAIN post = Post /\ post \in [Post -> Request]
<1>1. ~Loading(grid) /\ ~grid.failed /\ ~stale /\ \A i \in Post : post[i].stage = "free"
  BY DEF Quiet
<1>2. Good(url, grid, db, edits, stale, post, announced)
  BY GoodIs
<1>3. Shows(grid, db, edits)
  BY <1>1, <1>2 DEF Good, Harmless
<1>4. \A i \in Post : ~Active(post, i)
  BY <1>1 DEF Active
<1> QED
  BY <1>1, <1>3, <1>4, Parts DEF GridOK, DbOK, UploadOK, PostOK

LEMMA Clicked ==
  ASSUME NEW b, Click(b), visit.careful
  PROVE  b
BY DEF Click

(* A closed dialog, and one that lost its rows, promises nothing new. *)
LEMMA TruthStays ==
  ASSUME NEW g \in Grid, NEW h \in Grid, NEW e, NEW f, NEW dlg \in Dialog, Truthful(dlg, g, e),
         f = e \/ f = NoEdits
  PROVE  /\ h.sel = g.sel => Truthful(dlg, h, f)
         /\ Truthful([dlg EXCEPT !.open = FALSE], h, f)
         /\ grid = g => Truthful(Detach(dlg), h, f)
         /\ Truthful([dlg EXCEPT !.open = TRUE, !.title = "error"], h, f)
<1>1. h.sel = g.sel => Truthful(dlg, h, f)
  BY DEF Truthful, Chosen
<1>2. Truthful([dlg EXCEPT !.open = FALSE], h, f)
  BY DEF Truthful, Dialog
<1>3. ASSUME grid = g PROVE Truthful(Detach(dlg), h, f)
  <2>1. CASE dlg.live
    <3> DEFINE x == [dlg EXCEPT !.live = FALSE, !.sel = g.sel]
    <3>1. Detach(dlg) = x
      BY <1>3, <2>1 DEF Detach
    <3>2. /\ x.open = dlg.open /\ x.title = dlg.title /\ x.buttons = dlg.buttons
          /\ x.told = dlg.told /\ x.live = FALSE /\ x.sel = g.sel
      BY DEF Dialog
    <3> HIDE DEF x
    <3> QED
      BY <2>1, <3>1, <3>2 DEF Truthful, Chosen
  <2>2. CASE ~dlg.live
    BY <1>3, <2>2 DEF Detach, Truthful, Chosen
  <2> QED
    BY <2>1, <2>2
<1>4. Truthful([dlg EXCEPT !.open = TRUE, !.title = "error"], h, f)
  BY DEF Truthful, Dialog
<1> QED
  BY <1>1, <1>2, <1>3, <1>4

LEMMA ClosedTruth ==
  ASSUME NEW dlg, ~dlg.open, NEW g, NEW e
  PROVE  Truthful(dlg, g, e) /\ Truthful(Detach(dlg), g, e)
<1>1. Truthful(dlg, g, e)
  BY DEF Truthful
<1>2. ~Detach(dlg).open
  BY DEF Detach
<1> QED
  BY <1>1, <1>2 DEF Truthful

(* The cells. *)
LEMMA CellsReliable ==
  ASSUME PageInv, visit.careful, Reliable, ClickCell \/ PressEnter \/ PressEscape
  PROVE  Reliable'
<1>1. url = GridUrl /\ Quiet /\ ~dialog.open
  BY Clicked DEF ClickCell, PressEnter, PressEscape, OnGrid
<1>2. /\ Shows(grid, db, edits) /\ ~Loading(grid) /\ \A i \in Post : ~Active(post, i)
      /\ grid \in Grid /\ DOMAIN db \subseteq Key /\ edits \in [Key -> Int]
  BY <1>1, QuietShows
<1>3. UNCHANGED <<db, url, post, dialog, announced, stale>>
  BY DEF ClickCell, PressEnter, PressEscape, CellSaved
<1>4. Truthful(dialog', grid', edits')
  BY <1>1, <1>3, ClosedTruth
<1>5. SUFFICES Shows(grid', db, edits') /\ grid'.load = grid.load
  <2>1. ~Loading(grid')
    BY <1>2, <1>5 DEF Loading
  <2> QED
    BY <1>2, <1>3, <1>4, <1>5, <2>1, Resting, GoodNext
<1>6. ASSUME NEW r, NEW text \in Text, NEW g, r = grid.saved.row, CellSaved(r, text, g)
      PROVE  /\ grid' = g /\ text \in Int /\ (text = grid.saved.value \/ text # Blank)
             /\ edits' = IF Accepts(grid, r, text) THEN Noted(grid, r, text, edits) ELSE edits
  <2>1. text \in Int
    BY TextType
  <2>2. typed \in Nat
    BY Parts DEF UserOK
  <2>3. text = grid.saved.value \/ text = typed + 1
    BY DEF Text
  <2>4. text = grid.saved.value \/ text # Blank
    BY <2>2, <2>3 DEF Blank
  <2> QED
    BY <1>6, <2>1, <2>4 DEF CellSaved, UploadSelect, Noted, upload
<1>7. CASE ClickCell
  <2>1. PICK r \in DOMAIN grid.rows \ {grid.saved.row}, text \in Text :
          CellSaved(grid.saved.row, text, EditCell(grid, r, text))
    BY <1>7 DEF ClickCell
  <2>2. /\ grid' = EditCell(grid, r, text) /\ text \in Int
        /\ text = grid.saved.value \/ text # Blank
        /\ edits' = IF Accepts(grid, grid.saved.row, text)
                    THEN Noted(grid, grid.saved.row, text, edits) ELSE edits
    BY <1>6, <2>1
  <2> QED
    BY <1>2, <2>2, EditShows, EditType
<1>8. CASE PressEnter
  <2>1. PICK r \in DOMAIN grid.rows, text \in Text :
          grid.rows[r].input /\ CellSaved(r, text, SaveCell(grid, r, text))
    BY <1>8 DEF PressEnter
  <2>2. r = grid.saved.row /\ r \in Nat
    BY <1>2, <2>1, ShownType DEF Shows, RowShows
  <2>3. /\ grid' = SaveCell(grid, r, text) /\ text \in Int
        /\ text = grid.saved.value \/ text # Blank
        /\ edits' = IF Accepts(grid, r, text) THEN Noted(grid, r, text, edits) ELSE edits
    BY <1>6, <2>1, <2>2
  <2> QED
    BY <1>2, <2>2, <2>3, SaveShows, SaveType
<1>9. CASE PressEscape
  <2>1. PICK r \in DOMAIN grid.rows : grid.rows[r].input /\ grid' = RestoreCell(grid, r)
    BY <1>9 DEF PressEscape
  <2>2. r = grid.saved.row /\ r \in Nat
    BY <1>2, <2>1, ShownType DEF Shows, RowShows
  <2>3. edits' = edits
    BY <1>9 DEF PressEscape, upload
  <2> QED
    BY <1>2, <2>1, <2>2, <2>3, RestoreShows, RestoreType DEF SameMarks
<1> QED
  BY <1>7, <1>8, <1>9

(* What is sent to be stored is what was typed. *)
LEMMA ChangedWanted ==
  ASSUME NEW g \in Grid, NEW d, NEW e, NEW n, Shows(g, d, e), ~Editing(g) \/ e = NoEdits
  PROVE  PostWanted([kind |-> "save", rows |-> ChangedCells(g), stage |-> "sent"], e, n)
<1>1. ASSUME NEW c \in ChangedCells(g) PROVE e[c.key] = c.value /\ c.value # Blank
  <2>1. PICK i \in Dirty(g) :
          c = [key |-> g.rows[i].key, value |-> IF g.rows[i].input THEN Blank ELSE g.rows[i].value]
    BY DEF ChangedCells
  <2>2. i \in DOMAIN g.rows /\ g.rows[i].dirty /\ RowShows(g.rows[i], i, g, d, e)
    BY DEF Dirty, Shows
  <2>3. g.rows[i].key \in Key /\ i # 0
    BY <2>2, ShownType DEF Row
  <2>4. e[g.rows[i].key] # Blank /\ g.rows[i].value = e[g.rows[i].key]
    BY <2>2 DEF RowShows, Wanted
  <2>5. e # NoEdits
    BY <2>3, <2>4 DEF NoEdits
  <2>6. ~g.rows[i].input
    BY <2>2, <2>3, <2>5 DEF RowShows, Editing
  <2> QED
    BY <2>1, <2>4, <2>6
<1> QED
  BY <1>1 DEF PostWanted

LEMMA SaveReliable ==
  ASSUME PageInv, visit.careful, Reliable, ClickSave \/ DialogSave
  PROVE  Reliable'
<1>1. url = GridUrl /\ Quiet
  BY Clicked DEF ClickSave, DialogSave, OnDialog
<1>2. /\ Shows(grid, db, edits) /\ ~Loading(grid)
      /\ \A i \in Post : post[i].stage = "free" /\ ~Active(post, i)
      /\ grid \in Grid /\ DOMAIN post = Post
  BY <1>1, QuietShows
<1>3. UNCHANGED <<db, url, grid, edits, announced, stale>> /\ UploadSave
  BY DEF ClickSave, DialogSave, upload
<1>4. Truthful(dialog, grid, edits) /\ dialog \in Dialog
  BY GoodIs, Parts
<1>5. ~Editing(grid) \/ edits = NoEdits
  <2>1. CASE ClickSave
    BY <2>1, Clicked DEF ClickSave
  <2>2. CASE DialogSave
    <3>1. dialog.open /\ dialog.title = dialog.buttons /\ dialog.buttons = "sort"
      BY <2>2, Clicked DEF DialogSave, OnDialog
    <3> QED
      BY <1>4, <3>1 DEF Truthful
  <2> QED
    BY <2>1, <2>2
<1>6. Truthful(dialog', grid', edits')
  <2>1. dialog' = dialog \/ dialog' = [dialog EXCEPT !.open = FALSE]
    BY DEF ClickSave, DialogSave
  <2> QED
    BY <1>2, <1>3, <1>4, <2>1, TruthStays
<1>7. Good(url, grid, db, edits, stale, post', announced)
  <2>1. CASE post' = post
    BY <1>2, <2>1, Resting
  <2>2. CASE Send("save", ChangedCells(grid))
    <3> DEFINE p == [kind |-> "save", rows |-> ChangedCells(grid), stage |-> "sent"]
    <3>1. PICK i \in Post : post' = [post EXCEPT ![i] = p]
      BY <2>2 DEF Send
    <3>2. PostWanted(p, edits, announced) /\ p.stage = "sent"
      BY <1>2, <1>5, ChangedWanted
    <3> HIDE DEF p
    <3> QED
      BY <1>2, <3>1, <3>2, Sending
  <2> QED
    BY <1>3, <2>1, <2>2 DEF UploadSave
<1> QED
  BY <1>3, <1>6, <1>7, GoodNext

LEMMA UndoReliable ==
  ASSUME PageInv, visit.careful, Reliable, ClickUndo \/ DialogUndo
  PROVE  Reliable'
<1>1. url = GridUrl /\ Quiet
  BY Clicked DEF ClickUndo, OnGrid, DialogUndo, OnDialog
<1>2. /\ Shows(grid, db, edits) /\ ~Loading(grid) /\ \A i \in Post : ~Active(post, i)
      /\ grid \in Grid
  BY <1>1, QuietShows
<1>3. UNCHANGED <<db, url, post, announced, stale>>
  BY DEF ClickUndo, DialogUndo
<1>4. PICK d : UploadUndo(d) /\ ~d.open
  <2>1. CASE ClickUndo
    BY <2>1, Clicked DEF ClickUndo, OnGrid
  <2>2. CASE DialogUndo
    <3>1. ~[dialog EXCEPT !.open = FALSE].open
      BY Parts DEF Dialog
    <3> QED
      BY <2>2, <3>1 DEF DialogUndo
  <2> QED
    BY <2>1, <2>2
<1>5. CASE enabled
  <2>1. grid' = ReloadGrid(grid) /\ dialog' = Detach(d) /\ edits' = NoEdits
    BY <1>4, <1>5 DEF UploadUndo
  <2>2. Asked(grid')
    BY <1>2, <2>1, Asks
  <2> QED
    BY <1>2, <1>3, <1>4, <2>1, <2>2, Asking, ClosedTruth, GoodNext
<1>6. CASE ~enabled
  <2>1. dialog' = d /\ grid' = grid /\ edits' = edits
    BY <1>4, <1>6 DEF UploadUndo, upload
  <2> QED
    BY <1>2, <1>3, <1>4, <2>1, Resting, ClosedTruth, GoodNext
<1> QED
  BY <1>5, <1>6

(* The rows. *)
LEMMA RowsReliable ==
  ASSUME PageInv, visit.careful, Reliable, ClickHeader \/ ClickPager \/ SelectRow \/ SelectAllRows
  PROVE  Reliable'
<1>1. url = GridUrl /\ Quiet /\ ~dialog.open
  BY Clicked DEF ClickHeader, ClickPager, SelectRow, SelectAllRows, OnGrid, OnGridIfSaved
<1>2. /\ Shows(grid, db, edits) /\ ~Loading(grid) /\ \A i \in Post : ~Active(post, i)
      /\ grid \in Grid
  BY <1>1, QuietShows
<1>3. UNCHANGED <<db, url, post, announced, stale, edits>>
  BY DEF ClickHeader, ClickPager, SelectRow, SelectAllRows, upload
<1>4. CASE ClickHeader
  <2>1. edits = NoEdits
    BY <1>4, Clicked DEF ClickHeader, OnGridIfSaved, Unsaved
  <2>2. \/ grid' = grid
        \/ Asked(grid')
    BY <1>2, <1>4, Asks DEF ClickHeader
  <2>3. Truthful(dialog', grid', edits')
    <3>1. CASE enabled
      <4>1. dialog' = SortDialog
        BY <1>4, <3>1 DEF ClickHeader
      <4> QED
        BY <1>3, <2>1, <4>1 DEF SortDialog, Truthful
    <3>2. CASE ~enabled
      <4>1. dialog' = Detach(dialog)
        BY <1>4, <3>2 DEF ClickHeader
      <4> QED
        BY <1>1, <4>1, ClosedTruth
    <3> QED
      BY <3>1, <3>2
  <2>4. Good(url', grid', db', edits', stale', post', announced')
    BY <1>2, <1>3, <2>1, <2>2, Resting, Asking
  <2> QED
    BY <2>3, <2>4, GoodNext
<1>5. CASE ClickPager
  <2>1. edits = NoEdits
    BY <1>5, Clicked DEF ClickPager, OnGridIfSaved, Unsaved
  <2>2. PICK p \in 1..Records : grid' = TurnPage(grid, p)
    BY <1>5 DEF ClickPager
  <2>3. p \in Nat \ {0}
    BY RecordsAssumption
  <2>4. Asked(grid')
    BY <1>2, <2>2, <2>3, Asks
  <2>5. Truthful(dialog', grid', edits')
    BY <1>1, <1>5, ClosedTruth DEF ClickPager
  <2> QED
    BY <1>2, <1>3, <2>1, <2>4, <2>5, Asking, GoodNext
<1>6. CASE SelectRow
  <2>1. PICK k \in Shown(grid) : grid' = SetSelection(grid, k)
    BY <1>6 DEF SelectRow
  <2>2. Shows(grid', db, edits) /\ grid'.load = grid.load
    BY <1>2, <2>1, SelectionShows
  <2>3. Truthful(dialog', grid', edits')
    BY <1>1, <1>6, ClosedTruth DEF SelectRow
  <2>4. ~Loading(grid')
    BY <1>2, <2>2 DEF Loading
  <2> QED
    BY <1>2, <1>3, <2>2, <2>3, <2>4, Resting, GoodNext
<1>7. CASE SelectAllRows
  <2>1. grid' = SelectAll(grid) /\ dialog' = Detach(dialog)
    BY <1>7 DEF SelectAllRows
  <2>2. Shows(grid', db, edits) /\ grid'.load = grid.load
    BY <1>2, <2>1, SelectionShows, SelectAllType DEF Keeps
  <2>3. Truthful(dialog', grid', edits')
    BY <1>1, <2>1, ClosedTruth
  <2>4. ~Loading(grid')
    BY <1>2, <2>2 DEF Loading
  <2> QED
    BY <1>2, <1>3, <2>2, <2>3, <2>4, Resting, GoodNext
<1> QED
  BY <1>4, <1>5, <1>6, <1>7

(* The page is left, and what it sent becomes an orphan; or the user       *)
(* stays. *)
LEMMA LeaveReliable ==
  ASSUME PageInv, NEW u \in {GridUrl, OtherUrl}, NEW t, UNCHANGED announced, Leave(u, t)
  PROVE  Reliable'
<1> DEFINE left(i) == IF post[i].stage \in {"ok", "error"} THEN NoPost
                      ELSE IF post[i].stage = "sent" THEN [post[i] EXCEPT !.stage = "orphan"]
                      ELSE post[i]
<1>1. /\ url' = u /\ grid' = GridOf(u) /\ dialog' = NoDialog /\ edits' = NoEdits
      /\ post' = [i \in Post |-> left(i)] /\ UNCHANGED <<db, stale>>
  BY DEF Leave
<1>2. post \in [Post -> Request]
  BY Parts DEF PostOK
<1>3. ASSUME NEW i \in Post PROVE left(i).stage \notin {"sent", "ok", "error"}
  <2>1. post[i] \in Request
    BY <1>2
  <2>2. NoPost.stage = "free" /\ [post[i] EXCEPT !.stage = "orphan"].stage = "orphan"
    BY <2>1 DEF NoPost, Request
  <2> QED
    BY <2>2
<1> HIDE DEF left
<1>4. \A i \in Post : ~Active(post', i)
  BY <1>1, <1>3 DEF Active
<1>5. Truthful(dialog', grid', edits')
  BY <1>1 DEF NoDialog, Truthful
<1>6. CASE u = GridUrl
  <2>1. Asked(grid')
    BY <1>1, <1>6, NewAsks DEF GridOf
  <2> QED
    BY <1>1, <1>4, <1>5, <2>1, Asking, GoodNext
<1>7. CASE u # GridUrl
  <2>1. ~Loading(grid')
    BY <1>1, <1>7, NewAsks DEF GridOf
  <2> QED
    BY <1>1, <1>4, <1>5, <1>7, <2>1, Resting, GoodNext
<1> QED
  BY <1>6, <1>7

(* Nothing that matters here changes, but for the dialog. *)
LEMMA SameReliable ==
  ASSUME Reliable, UNCHANGED <<url, grid, db, edits, stale, post, announced>>,
         Truthful(dialog', grid', edits')
  PROVE  Reliable'
<1>1. Good(url, grid, db, edits, stale, post, announced)
  BY GoodIs
<1>2. Good(url', grid', db', edits', stale', post', announced')
  BY <1>1
<1> QED
  BY <1>2, GoodNext

LEMMA StayReliable ==
  ASSUME Reliable, NEW s, UNCHANGED announced, Stay(s)
  PROVE  Reliable'
<1>1. UNCHANGED <<url, grid, db, edits, stale, post, announced, dialog>>
  BY DEF Stay
<1>2. Truthful(dialog', grid', edits')
  BY <1>1, GoodIs
<1> QED
  BY <1>1, <1>2, SameReliable

LEMMA GoToReliable ==
  ASSUME PageInv, Reliable, NEW u \in {GridUrl, OtherUrl}, NEW t, NEW s, UNCHANGED announced,
         GoTo(u, t, s)
  PROVE  Reliable'
BY LeaveReliable, StayReliable DEF GoTo

LEMMA DialogsReliable ==
  ASSUME PageInv, visit.careful, Reliable, ShowDelete \/ ShowCopy \/ CloseDialog \/ FollowLink
  PROVE  Reliable'
<1>1. UNCHANGED announced
  BY DEF ShowDelete, ShowCopy, CloseDialog, FollowLink
<1>2. ASSUME NEW kind, edits = NoEdits, AskFirst(kind) PROVE Reliable'
  <2>1. /\ UNCHANGED <<url, grid, db, edits, stale, post>>
        /\ dialog' = [open |-> TRUE, title |-> kind, buttons |-> kind, live |-> TRUE, sel |-> {},
                      told |-> grid.sel]
    BY <1>2 DEF AskFirst, upload
  <2>2. Truthful(dialog', grid', edits')
    BY <1>2, <2>1 DEF Truthful, Chosen
  <2> QED
    BY <1>1, <2>1, <2>2, SameReliable
<1>3. CASE ShowDelete \/ ShowCopy
  <2>1. edits = NoEdits
    BY <1>3, Clicked DEF ShowDelete, ShowCopy, OnGridIfSaved, Unsaved
  <2>2. GoTo(OtherUrl, NoTour, tour) \/ AskFirst("delete") \/ AskFirst("copy")
    BY <1>3 DEF ShowDelete, ShowCopy
  <2> QED
    BY <1>1, <1>2, <2>1, <2>2, GoToReliable
<1>4. CASE CloseDialog
  <2>1. /\ UNCHANGED <<url, grid, db, edits, stale, post>>
        /\ dialog' = [dialog EXCEPT !.open = FALSE]
    BY <1>4 DEF CloseDialog, upload
  <2>2. ~dialog'.open
    BY <2>1, Parts DEF Dialog
  <2> QED
    BY <1>1, <2>1, <2>2, ClosedTruth, SameReliable
<1>5. CASE FollowLink
  <2>1. PICK u \in {GridUrl, OtherUrl} : GoTo(u, NoTour, tour)
    BY <1>5 DEF FollowLink
  <2> QED
    BY <1>1, <2>1, GoToReliable
<1> QED
  BY <1>3, <1>4, <1>5

(* What is deleted was announced. *)
LEMMA ConfirmReliable ==
  ASSUME PageInv, visit.careful, Reliable, Confirm
  PROVE  Reliable'
<1>1. /\ url = GridUrl /\ Quiet /\ dialog.open /\ dialog.title = dialog.buttons
      /\ dialog.buttons \in {"delete", "copy"}
  BY Clicked DEF Confirm, OnDialog
<1>2. /\ Shows(grid, db, edits) /\ ~Loading(grid) /\ \A i \in Post : post[i].stage = "free"
      /\ DOMAIN post = Post
  BY <1>1, QuietShows
<1> DEFINE p == [kind |-> dialog.buttons, rows |-> {NoValue(k) : k \in Selected},
                 stage |-> "sent"]
<1>3. /\ UNCHANGED <<db, url, grid, dialog, edits, stale>>
      /\ announced' = IF dialog.buttons = "delete" THEN announced \cup dialog.told ELSE announced
      /\ Send(dialog.buttons, {NoValue(k) : k \in Selected})
  BY DEF Confirm, upload
<1>4. PICK i \in Post : post' = [post EXCEPT ![i] = p]
  BY <1>3 DEF Send
<1>5. Truthful(dialog, grid, edits)
  BY GoodIs
<1>6. edits = NoEdits /\ (dialog.buttons = "delete" => Selected \subseteq dialog.told)
  BY <1>1, <1>5 DEF Truthful, Chosen, Selected
<1>7. PostWanted(p, edits, announced') /\ p.stage = "sent"
  <2>1. p.kind = dialog.buttons /\ p.kind # "save"
    BY <1>1
  <2>2. ASSUME p.kind = "delete", NEW c \in p.rows PROVE c.key \in announced'
    <3>1. PICK k \in Selected : c = NoValue(k)
      BY <2>2
    <3> QED
      BY <1>3, <1>6, <2>2, <3>1 DEF NoValue
  <2> QED
    BY <1>6, <2>1, <2>2 DEF PostWanted
<1> HIDE DEF p
<1>8. Good(url, grid, db, edits, stale, post', announced')
  BY <1>2, <1>4, <1>7, Sending
<1> QED
  BY <1>3, <1>5, <1>8, GoodNext

(* The server. *)
LEMMA LoadingRests ==
  ASSUME Reliable, Loading(grid)
  PROVE  \A i \in Post : ~Active(post, i)
<1>1. Alone(grid, post)
  BY GoodIs DEF Good
<1> QED
  BY <1>1 DEF Alone

LEMMA LoadReliable ==
  ASSUME PageInv, Reliable, ServeLoad
  PROVE  Reliable'
<1> DEFINE page == Smaller(grid.load.page, LastPage)
           rows == PageOf(page, grid.load.order)
           load == [grid.load EXCEPT !.stage = "answered", !.page = page, !.rows = rows]
<1>1. /\ grid.load.stage = "asked"
      /\ grid' = [grid EXCEPT !.load.stage = "answered", !.load.page = page, !.load.rows = rows]
      /\ stale' = FALSE
      /\ UNCHANGED <<db, url, dialog, post, edits, announced>>
  BY DEF ServeLoad, upload, user
<1>2. grid \in Grid /\ grid.load \in Load
  BY Parts DEF GridOK, Grid
<1>3. rows = RowsOf(db, page, grid.load.order)
  BY DEF PageOf, RowsOf
<1> HIDE DEF page, rows
<1>4. /\ load.stage = "answered" /\ load.page = page /\ load.rows = rows
      /\ load.order = grid.load.order
  BY <1>2 DEF Load
<1>5. grid' = [grid EXCEPT !.load = load]
  BY <1>1, <1>2 DEF Grid, Load
<1> HIDE DEF load
<1>6. /\ grid'.load = load /\ grid'.sel = grid.sel /\ grid'.saved = grid.saved
      /\ grid'.order = grid.order
  BY <1>2, <1>5 DEF Grid
<1>7. /\ Afresh(grid, db, edits, stale) /\ Truthful(dialog, grid, edits) /\ Loading(grid)
      /\ \A i \in Post : ~Active(post, i)
  BY <1>1, GoodIs, LoadingRests DEF Good, Loading
<1>8. Afresh(grid', db, edits, FALSE) /\ Loading(grid')
  BY <1>3, <1>4, <1>6, <1>7 DEF Afresh, Loading
<1>9. Truthful(dialog, grid', edits)
  BY <1>6, <1>7 DEF Truthful, Chosen
<1>10. Good(url, grid', db, edits, FALSE, post, announced)
  BY <1>7, <1>8 DEF Good, Alone
<1> QED
  BY <1>1, <1>9, <1>10, GoodNext

(* A post is served; where changes were to be stored, the rows show what   *)
(* they have to when they did. *)
LEMMA ServedReliable ==
  ASSUME PageInv, Reliable, NEW i \in Post, NEW done, NEW kind, Arrived(i, kind), Served(i, done),
         kind = "save" /\ post[i].stage = "sent" /\ Shows(grid, db, edits) =>
           Shows(grid, db', edits)
  PROVE  Reliable'
<1> DEFINE stages == IF post[i].stage = "orphan" THEN {"free"}
                     ELSE {IF done = post[i].rows THEN "ok" ELSE "error"}
                          \cup IF visit.failures THEN {"error"} ELSE {}
<1>1. PICK stage \in stages :
        post' = [post EXCEPT ![i] = IF stage = "free" THEN NoPost ELSE [@ EXCEPT !.stage = stage]]
  BY DEF Served
<1>2. /\ stale' = (stale \/ post[i].stage = "orphan")
      /\ UNCHANGED <<url, grid, dialog, edits, announced>>
  BY DEF Served, upload, user
<1>3. /\ Good(url, grid, db, edits, stale, post, announced) /\ Truthful(dialog, grid, edits)
      /\ post \in [Post -> Request]
  BY GoodIs, Parts DEF PostOK
<1>4. CASE post[i].stage = "orphan"
  <2>1. post' = [post EXCEPT ![i] = NoPost] /\ stale' = TRUE
    BY <1>1, <1>2, <1>4
  <2>2. Good(url, grid, db', edits, TRUE, post', announced)
    BY <1>3, <2>1, Orphaning
  <2> QED
    BY <1>2, <1>3, <2>1, <2>2, GoodNext
<1>5. CASE post[i].stage # "orphan"
  <2>1. post[i].stage = "sent" /\ post[i].kind = kind /\ stage \in {"ok", "error"}
    BY <1>1, <1>5 DEF Arrived
  <2> DEFINE p == [post[i] EXCEPT !.stage = stage]
  <2>2. post' = [post EXCEPT ![i] = p]
    BY <1>1, <2>1
  <2>3. post[i] \in Request
    BY <1>3
  <2>4. p \in Request /\ p.kind = post[i].kind /\ p.rows = post[i].rows /\ p.stage = stage
    BY <2>1, <2>3 DEF Request
  <2> HIDE DEF p
  <2>5. Good(url, grid, db', edits, stale, post', announced)
    BY <1>3, <2>1, <2>2, <2>4, Serving
  <2>6. stale' = stale
    BY <1>2, <1>5, Parts DEF PageOK
  <2> QED
    BY <1>2, <1>3, <2>5, <2>6, GoodNext
<1> QED
  BY <1>4, <1>5

(* What a save that the page waits for stores. *)
LEMMA SaveStores ==
  ASSUME PageInv, Reliable, NEW i \in Post, ServeSave(i), post[i].stage = "sent"
  PROVE  /\ DOMAIN db' = DOMAIN db
         /\ \A k \in DOMAIN db : db'[k] = db[k] \/ (edits[k] # Blank /\ db'[k] = edits[k])
<1> DEFINE possible == {c \in post[i].rows : c.key \in DOMAIN db}
<1>1. PICK done \in Done(possible) :
        db' = [k \in DOMAIN db |->
                 IF \E c \in done : c.key = k THEN (CHOOSE c \in done : c.key = k).value
                 ELSE db[k]]
  BY DEF ServeSave
<1>2. \A c \in post[i].rows : edits[c.key] = c.value /\ c.value # Blank
  BY GoodIs DEF Good, Active, PostWanted, ServeSave, Arrived
<1>3. \A c \in done : edits[c.key] = c.value /\ c.value # Blank
  BY <1>2, DoneType
<1>4. ASSUME NEW k \in DOMAIN db, \E c \in done : c.key = k
      PROVE  LET v == (CHOOSE c \in done : c.key = k).value IN edits[k] = v /\ v # Blank
  <2>1. (CHOOSE c \in done : c.key = k) \in done /\ (CHOOSE c \in done : c.key = k).key = k
    BY <1>4
  <2> QED
    BY <1>3, <2>1
<1> QED
  BY <1>1, <1>4

LEMMA ServerReliable ==
  ASSUME PageInv, Reliable, NEW i \in Post,
         ServeSave(i) \/ ServeDelete(i) \/ ServeCopy(i) \/ LosePost(i)
  PROVE  Reliable'
<1>1. CASE ServeSave(i)
  <2>1. PICK done : Served(i, done) /\ Arrived(i, "save")
    BY <1>1 DEF ServeSave
  <2>2. post[i].stage = "sent" /\ Shows(grid, db, edits) => Shows(grid, db', edits)
    BY <1>1, SaveStores, StoredShows, Parts DEF GridOK, DbOK
  <2> QED
    BY <2>1, <2>2, ServedReliable
<1>2. CASE ServeDelete(i)
  <2>1. PICK done : Served(i, done) /\ Arrived(i, "delete")
    BY <1>2 DEF ServeDelete
  <2> QED
    BY <2>1, ServedReliable
<1>3. CASE ServeCopy(i)
  <2>1. PICK done : Served(i, done) /\ Arrived(i, "copy")
    BY <1>3 DEF ServeCopy
  <2> QED
    BY <2>1, ServedReliable
<1>4. CASE LosePost(i)
  <2> DEFINE p == [post[i] EXCEPT !.stage = "error"]
  <2>1. /\ post[i].stage = "sent" /\ post' = [post EXCEPT ![i] = p]
        /\ UNCHANGED <<db, url, grid, dialog, edits, announced, stale>>
    BY <1>4 DEF LosePost, upload, user
  <2>2. /\ Good(url, grid, db, edits, stale, post, announced) /\ Truthful(dialog, grid, edits)
        /\ post \in [Post -> Request]
    BY GoodIs, Parts DEF PostOK
  <2>3. post[i] \in Request
    BY <2>2
  <2>4. p \in Request /\ p.kind = post[i].kind /\ p.rows = post[i].rows /\ p.stage = "error"
    BY <2>3 DEF Request
  <2> HIDE DEF p
  <2>5. Good(url, grid, db, edits, stale, post', announced)
    BY <2>1, <2>2, <2>4, Serving
  <2> QED
    BY <2>1, <2>2, <2>5, GoodNext
<1> QED
  BY <1>1, <1>2, <1>3, <1>4

(* The answers. *)
LEMMA LoadedReliable ==
  ASSUME PageInv, Reliable, LoadArrives \/ LoadFails
  PROVE  Reliable'
<1>1. UNCHANGED <<db, url, dialog, post, edits, announced, stale>>
  BY DEF LoadArrives, LoadFails, upload, user
<1>2. Loading(grid) /\ grid \in Grid /\ DOMAIN db \subseteq Key /\ stale \in BOOLEAN
  BY Parts DEF LoadArrives, LoadFails, Loading, GridOK, DbOK, PageOK
<1>3. /\ \A i \in Post : ~Active(post, i)
      /\ Afresh(grid, db, edits, stale) /\ Truthful(dialog, grid, edits)
  BY <1>2, LoadingRests, GoodIs DEF Good
<1>4. grid'.sel = grid.sel /\ grid'.load = NoLoad /\ (LoadFails => grid'.failed)
  BY <1>2 DEF LoadArrives, LoadFails, AddJSONData, LoadError, Grid
<1>5. ~Loading(grid') /\ Truthful(dialog, grid', edits)
  BY <1>3, <1>4 DEF Loading, NoLoad, Truthful, Chosen
<1>6. Shows(grid', db, edits) \/ grid'.failed \/ stale
  <2>1. CASE LoadArrives /\ ~stale
    <3>1. grid.load.stage = "answered" /\ grid' = AddJSONData(grid)
      BY <2>1 DEF LoadArrives
    <3>2. edits = NoEdits /\ Afresh(grid, db, NoEdits, FALSE)
      BY <1>2, <1>3, <2>1 DEF Afresh
    <3> QED
      BY <1>2, <3>1, <3>2, LoadedShows
  <2> QED
    BY <1>4, <2>1
<1> QED
  BY <1>1, <1>3, <1>5, <1>6, Resting, GoodNext

LEMMA AnswersReliable ==
  ASSUME PageInv, Reliable, NEW i \in Post, Saved(i) \/ DeletedOrCopied(i) \/ Refused(i)
  PROVE  Reliable'
<1>1. /\ post' = [post EXCEPT ![i] = NoPost] /\ UNCHANGED <<db, url, announced>>
      /\ Active(post, i)
  BY DEF Saved, DeletedOrCopied, Refused, Answered, Active, user
<1>2. /\ Good(url, grid, db, edits, stale, post, announced) /\ Truthful(dialog, grid, edits)
      /\ post \in [Post -> Request] /\ grid \in Grid /\ dialog \in Dialog /\ grid' \in Grid
      /\ post[i] \in Request /\ stale \in BOOLEAN
  <2>1. PageInv'
    BY SavedStep, DeletedStep, RefusedStep
  <2> QED
    BY <2>1, GoodIs, Parts, PartsNext DEF PostOK, GridOK, PageOK
<1>3. /\ Good(url, grid, db, edits, TRUE, post', announced)
      /\ post[i].kind = "save" => Good(url, grid, db, edits, stale, post', announced)
      /\ ~Loading(grid) /\ \A j \in Post : ~Active(post', j)
  BY <1>1, <1>2, Answering
<1>4. CASE Saved(i)
  <2>1. UploadUndo(dialog) /\ stale' = stale /\ post[i].kind = "save"
    BY <1>4 DEF Saved, Answered
  <2>2. CASE enabled
    <3>1. grid' = ReloadGrid(grid) /\ dialog' = Detach(dialog) /\ edits' = NoEdits
      BY <2>1, <2>2 DEF UploadUndo
    <3>2. Asked(grid') /\ Truthful(dialog', grid', edits')
      BY <1>2, <1>3, <3>1, Asks, TruthStays
    <3> QED
      BY <1>1, <1>3, <2>1, <3>1, <3>2, Asking, GoodNext
  <2>3. CASE ~enabled
    <3>1. grid' = grid /\ dialog' = dialog /\ edits' = edits
      BY <2>1, <2>3 DEF UploadUndo, upload
    <3> QED
      BY <1>1, <1>2, <1>3, <2>1, <3>1, GoodNext
  <2> QED
    BY <2>2, <2>3
<1>5. CASE DeletedOrCopied(i)
  <2>1. /\ grid' = ReloadGrid(grid) /\ dialog' = [Detach(dialog) EXCEPT !.open = FALSE]
        /\ UNCHANGED <<edits, stale>> /\ post[i].kind # "save"
    BY <1>5 DEF DeletedOrCopied, Answered, upload
  <2>2. edits = NoEdits
    BY <1>1, <1>2, <2>1 DEF Good, PostWanted
  <2>3. Asked(grid')
    BY <1>2, <1>3, <2>1, Asks
  <2>4. Detach(dialog) \in Dialog
    BY <1>2, DetachType
  <2>5. ~dialog'.open
    BY <2>1, <2>4 DEF Dialog
  <2> QED
    BY <1>1, <1>3, <2>1, <2>2, <2>3, <2>5, Asking, ClosedTruth, GoodNext
<1>6. CASE Refused(i)
  <2>1. /\ dialog' = [dialog EXCEPT !.open = TRUE, !.title = "error"]
        /\ stale' = (stale \/ post[i].kind # "save") /\ UNCHANGED <<grid, edits>>
    BY <1>6 DEF Refused, upload
  <2>2. Truthful(dialog', grid', edits')
    BY <1>2, <2>1, TruthStays
  <2>3. Good(url, grid, db, edits, stale', post', announced)
    <3>1. CASE post[i].kind = "save"
      BY <1>2, <1>3, <2>1, <3>1
    <3>2. CASE post[i].kind # "save"
      BY <1>3, <2>1, <3>2
    <3> QED
      BY <3>1, <3>2
  <2> QED
    BY <1>1, <2>1, <2>2, <2>3, GoodNext
<1> QED
  BY <1>4, <1>5, <1>6

(* The tour. *)
LEMMA TourOnlyReliable ==
  ASSUME Reliable, UNCHANGED announced, TourOnly
  PROVE  Reliable'
<1>1. UNCHANGED <<url, grid, db, edits, stale, post, announced, dialog>>
  BY DEF TourOnly, upload
<1>2. Truthful(dialog', grid', edits')
  BY <1>1, GoodIs
<1> QED
  BY <1>1, <1>2, SameReliable

LEMMA ShowReliable ==
  ASSUME PageInv, Reliable, UNCHANGED announced, NEW t, Standing(t), ShowStep(t) \/ NextStep(t)
  PROVE  Reliable'
<1>1. ASSUME NEW x, Standing(x), ShowStep(x) PROVE Reliable'
  <2>1. Url(x) \in {GridUrl, OtherUrl}
    BY <1>1, StepUrl
  <2> QED
    BY <1>1, <2>1, TourOnlyReliable, GoToReliable DEF ShowStep
<1>2. CASE ShowStep(t)
  BY <1>1, <1>2
<1>3. CASE NextStep(t)
  BY <1>1, <1>3, ForwardStands, TourOnlyReliable DEF NextStep
<1> QED
  BY <1>2, <1>3

LEMMA TourReliable ==
  ASSUME PageInv, Reliable, Touring
  PROVE  Reliable'
<1>1. UNCHANGED announced
  BY DEF Touring, StartTour, TourScript, TourScriptFails, ClickNext, ClickPrevious, ClickPlay,
         CloseTour, TimerFires, OrphanFires, OnTour, user
<1>2. Standing(tour) /\ 1 \in Autoplay /\ 0 \in Autoplay
  BY Parts DEF Autoplay
<1>3. CASE TourOnly
  BY <1>1, <1>3, TourOnlyReliable
<1>4. CASE \E t : Standing(t) /\ (ShowStep(t) \/ NextStep(t))
  BY <1>1, <1>4, ShowReliable
<1>5. TourOnly \/ \E t : Standing(t) /\ (ShowStep(t) \/ NextStep(t))
  <2>1. CASE StartTour \/ TourScriptFails \/ CloseTour
    BY <2>1 DEF StartTour, TourScriptFails, CloseTour
  <2>2. CASE TourScript
    <3>1. Standing([tour EXCEPT !.starting = FALSE, !.open = TRUE])
      BY <1>2, Handed
    <3> QED
      BY <2>2, <3>1 DEF TourScript
  <2>3. CASE ClickNext
    BY <1>2, <2>3 DEF ClickNext
  <2>4. CASE ClickPrevious
    BY <1>2, <2>4, BackwardStands DEF ClickPrevious
  <2>5. CASE ClickPlay
    <3>1. Standing([tour EXCEPT !.autoplay = 1])
      BY <1>2, Handed
    <3> QED
      BY <2>5, <3>1 DEF ClickPlay
  <2>6. CASE TimerFires
    <3>1. Standing([tour EXCEPT !.timer = FALSE])
      BY <1>2, Handed
    <3> QED
      BY <2>6, <3>1 DEF TimerFires
  <2>7. CASE OrphanFires
    <3>1. tour.orphans > 0 /\ NextStep([tour EXCEPT !.orphans = @ - 1])
      BY <2>7 DEF OrphanFires
    <3>2. Standing([tour EXCEPT !.orphans = @ - 1])
      BY <1>2, <3>1, Handed
    <3> QED
      BY <3>1, <3>2
  <2> QED
    BY <2>1, <2>2, <2>3, <2>4, <2>5, <2>6, <2>7 DEF Touring
<1> QED
  BY <1>3, <1>4, <1>5

-----------------------------------------------------------------------------
LEMMA FirstReliable ==
  ASSUME Init
  PROVE  Reliable
<1>1. /\ url = GridUrl /\ grid = NewGrid /\ dialog = NoDialog /\ edits = NoEdits
      /\ post = [i \in Post |-> NoPost]
  BY DEF Init
<1>2. \A i \in Post : ~Active(post, i)
  BY <1>1 DEF Active, NoPost
<1>3. Truthful(dialog, grid, edits)
  BY <1>1 DEF NoDialog, Truthful
<1> QED
  BY <1>1, <1>2, <1>3, NewAsks, Asking, GoodIs

LEMMA SameVisit ==
  ASSUME [Next]_vars
  PROVE  visit' = visit
<1>1. CASE Cells
  BY <1>1 DEF Cells, ClickCell, PressEnter, PressEscape, ClickSave, ClickUndo, OnGrid, Click
<1>2. CASE Rows
  BY <1>2 DEF Rows, ClickHeader, ClickPager, SelectRow, SelectAllRows, ShowDelete, ShowCopy,
     Confirm, DialogSave, DialogUndo, CloseDialog, FollowLink, OnGrid, OnGridIfSaved, OnDialog, Click
<1>3. CASE Requests
  <2>1. ASSUME NEW i \in Post, NEW done, Served(i, done) PROVE visit' = visit
    BY <2>1 DEF Served, user
  <2>2. CASE ServeLoad \/ LoadArrives \/ LoadFails
    BY <2>2 DEF ServeLoad, LoadArrives, LoadFails, user
  <2>3. ASSUME NEW i \in Post, ServeSave(i) \/ ServeDelete(i) \/ ServeCopy(i) PROVE visit' = visit
    BY <2>1, <2>3 DEF ServeSave, ServeDelete, ServeCopy
  <2>4. ASSUME NEW i \in Post, LosePost(i) \/ Saved(i) \/ DeletedOrCopied(i) \/ Refused(i)
        PROVE  visit' = visit
    BY <2>4 DEF LosePost, Saved, DeletedOrCopied, Refused, Answered, user
  <2> QED
    BY <1>3, <2>2, <2>3, <2>4 DEF Requests
<1>4. CASE Touring
  BY <1>4 DEF Touring, StartTour, TourScript, TourScriptFails, ClickNext, ClickPrevious, ClickPlay,
     CloseTour, TimerFires, OrphanFires, OnTour, Click, user
<1>5. CASE UNCHANGED vars
  BY <1>5 DEF vars, user
<1> QED
  BY <1>1, <1>2, <1>3, <1>4, <1>5 DEF Next

CarefulPage == PageInv /\ (visit.careful => Reliable)

LEMMA CarefulStep ==
  ASSUME CarefulPage, [Next]_vars
  PROVE  CarefulPage'
<1>1. PageInv /\ PageInv' /\ visit' = visit
  BY StepInv, SameVisit DEF CarefulPage
<1>2. ASSUME visit.careful PROVE Reliable'
  <2>1. Reliable
    BY <1>2 DEF CarefulPage
  <2>2. CASE Cells
    BY <1>1, <1>2, <2>1, <2>2, CellsReliable, SaveReliable, UndoReliable DEF Cells
  <2>3. CASE Rows
    BY <1>1, <1>2, <2>1, <2>3, RowsReliable, DialogsReliable, ConfirmReliable, SaveReliable,
       UndoReliable DEF Rows
  <2>4. CASE Requests
    BY <1>1, <2>1, <2>4, LoadReliable, LoadedReliable, ServerReliable, AnswersReliable DEF Requests
  <2>5. CASE Touring
    BY <1>1, <2>1, <2>5, TourReliable
  <2>6. CASE UNCHANGED vars
    <3>1. UNCHANGED <<url, grid, db, edits, stale, post, announced, dialog>>
      BY <2>6 DEF vars, upload, user
    <3>2. Truthful(dialog', grid', edits')
      BY <2>1, <3>1, GoodIs
    <3> QED
      BY <2>1, <3>1, <3>2, SameReliable
  <2> QED
    BY <2>2, <2>3, <2>4, <2>5, <2>6 DEF Next
<1> QED
  BY <1>1, <1>2 DEF CarefulPage

LEMMA CarefulAlways == Spec => []CarefulPage
<1>1. Init => CarefulPage
  BY InitInv, FirstReliable DEF CarefulPage
<1> QED
  BY <1>1, CarefulStep, PTL DEF Spec

(* What a user can rely on who waits for the answers and completes what is *)
(* open: one thing at a time, rows that show what is expected, dialogs     *)
(* that mean what they say, and posts that hold what was typed or          *)
(* announced (frepple.js, upload and grid).                                *)
THEOREM CarefulCorrect == Spec => []CarefulInv
<1>1. CarefulPage => CarefulInv
  BY DEF CarefulPage, PageInv, CarefulInv
<1> QED
  BY <1>1, CarefulAlways, PTL

(* When the page is quiet, a careful user sees what is stored, but for     *)
(* what he typed and neither saved nor cancelled, which is marked, and     *)
(* what is selected is displayed, after any sequence of changes, sorts,    *)
(* deletions, copies and failed requests.                                  *)
THEOREM ShownCorrect == Spec => []ShownIsExpected
<1>1. CarefulPage => ShownIsExpected
  <2> SUFFICES ASSUME CarefulPage, visit.careful, Quiet, url = GridUrl
               PROVE  /\ grid.sel \subseteq Shown(grid)
                      /\ [i \in DOMAIN grid.rows |-> grid.rows[i].key] =
                           [i \in DOMAIN PageOf(grid.page, grid.order) |->
                              PageOf(grid.page, grid.order)[i].key]
                      /\ \A i \in DOMAIN grid.rows :
                           LET row == grid.rows[i]
                           IN  /\ row.dirty <=> edits[row.key] # Blank
                               /\ ~row.input =>
                                    row.value = IF row.dirty THEN edits[row.key] ELSE db[row.key]
    BY DEF ShownIsExpected
  <2>1. Shows(grid, db, edits)
    BY QuietShows DEF CarefulPage
  <2>2. Displayed
    BY <2>1, DisplayedIs
  <2> HIDE DEF PageOf
  <2> QED
    BY <2>2 DEF Displayed, Expected
<1> QED
  BY <1>1, CarefulAlways, PTL

(* Of a careful user nothing is stored but what he typed last in that very *)
(* record, and no record goes that was not announced to him, whatever      *)
(* fails and however late the server answers.                              *)
THEOREM StoresCorrect == Spec => StoresWhatWasTyped
<1> DEFINE Wished == visit.careful /\ ~Orphaned =>
             \A k \in DOMAIN db :
               IF k \in DOMAIN db' THEN db'[k] # db[k] => edits[k] # Blank /\ db'[k] = edits[k]
               ELSE k \in announced
<1>1. ASSUME CarefulPage, [Next]_vars PROVE Wished
  <2> SUFFICES ASSUME visit.careful, ~Orphaned, NEW k \in DOMAIN db
               PROVE  IF k \in DOMAIN db' THEN db'[k] # db[k] => edits[k] # Blank /\ db'[k] = edits[k]
                      ELSE k \in announced
    OBVIOUS
  <2>1. PageInv /\ Reliable
    BY <1>1 DEF CarefulPage
  <2>2. CASE db' = db
    BY <2>2
  <2>3. ASSUME NEW i \in Post, ServeSave(i) \/ ServeDelete(i) \/ ServeCopy(i)
        PROVE  post[i].stage = "sent"
    BY <2>3 DEF ServeSave, ServeDelete, ServeCopy, Arrived, Orphaned
  <2>4. CASE \E i \in Post : ServeSave(i)
    BY <2>1, <2>3, <2>4, SaveStores
  <2>5. CASE \E i \in Post : ServeDelete(i)
    <3>1. PICK i \in Post : ServeDelete(i)
      BY <2>5
    <3>2. PICK done \in Done({c \in post[i].rows : c.key \in DOMAIN db}) :
            db' = [l \in DOMAIN db \ {c.key : c \in done} |-> db[l]]
      BY <3>1 DEF ServeDelete
    <3>3. done \subseteq post[i].rows
      BY <3>2, DoneType
    <3>4. \A c \in post[i].rows : c.key \in announced
      BY <2>1, <2>3, <3>1, GoodIs DEF Good, Active, PostWanted, ServeDelete, Arrived
    <3> QED
      BY <3>2, <3>3, <3>4
  <2>6. CASE \E i \in Post : ServeCopy(i)
    <3>1. PICK i \in Post :
            \E done \in Done({c \in post[i].rows : c.key \in DOMAIN db /\ CopyOf(c.key) \notin DOMAIN db}) :
              db' = [l \in DOMAIN db \cup {CopyOf(c.key) : c \in done} |->
                       IF l \in DOMAIN db THEN db[l] ELSE db[l - Records]]
      BY <2>6 DEF ServeCopy
    <3>2. PICK done \in Done({c \in post[i].rows : c.key \in DOMAIN db /\ CopyOf(c.key) \notin DOMAIN db}) :
            db' = [l \in DOMAIN db \cup {CopyOf(c.key) : c \in done} |->
                     IF l \in DOMAIN db THEN db[l] ELSE db[l - Records]]
      BY <3>1
    <3> QED
      BY <3>2
  <2>7. db' = db \/ \E i \in Post : ServeSave(i) \/ ServeDelete(i) \/ ServeCopy(i)
    <3>1. CASE Cells
      BY <3>1 DEF Cells, ClickCell, PressEnter, PressEscape, ClickSave, ClickUndo, CellSaved
    <3>2. CASE Rows
      BY <3>2 DEF Rows, ClickHeader, ClickPager, SelectRow, SelectAllRows, ShowDelete, ShowCopy,
         Confirm, DialogSave, DialogUndo, CloseDialog, FollowLink, GoTo, Leave, Stay, AskFirst
    <3>3. CASE Requests
      BY <3>3 DEF Requests, ServeLoad, LoadArrives, LoadFails, LosePost, Saved, DeletedOrCopied,
         Refused, Answered
    <3>4. CASE Touring
      <4>1. ASSUME NEW t, ShowStep(t) \/ NextStep(t) PROVE db' = db
        BY <4>1 DEF ShowStep, NextStep, TourOnly, GoTo, Leave, Stay
      <4> QED
        BY <3>4, <4>1 DEF Touring, StartTour, TourScript, TourScriptFails, ClickNext, ClickPrevious,
           ClickPlay, CloseTour, TimerFires, OrphanFires, TourOnly
    <3>5. CASE UNCHANGED vars
      BY <3>5 DEF vars
    <3> QED
      BY <1>1, <3>1, <3>2, <3>3, <3>4, <3>5 DEF Next
  <2> QED
    BY <2>2, <2>4, <2>5, <2>6, <2>7
<1> QED
  BY <1>1, CarefulAlways, PTL DEF Spec, StoresWhatWasTyped
================================================================================

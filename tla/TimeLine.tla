------------------------------ MODULE TimeLine ------------------------------
(***************************************************************************)
(* The timeline of include/frepple/timeline.h: the events of a buffer or a *)
(* resource in date order, each with the onhand quantity after it and what *)
(* was produced until then.  These totals are not computed when they are   *)
(* read: insert(), erase() and update() adjust those of the other events   *)
(* while they walk along the list.                                         *)
(*                                                                         *)
(* An event is a number, its address, which is the last criterion of the   *)
(* order.  A timeline is a record:                                         *)
(*   line        the events from first to last (the prev and next pointers)*)
(*   dt, qty     the date and the quantity of each event                   *)
(*   val         newMin, newMax or new_oh of a minimum, maximum, setonhand *)
(*   oh, cum     the onhand and the cumulative produced quantity           *)
(*   chain       for each type with a list of its own, that list from      *)
(*               lastSet, lastMin, lastMax along prevSet, prevMin, prevMax *)
(* Quantities are integers: the tolerance of the comparisons is left out.  *)
(***************************************************************************)
EXTENDS Integers, Sequences, SequencesExt

CONSTANTS
  Change,       \* the change events: flowplans or loadplans (type 1)
  SetEvent,     \* the events that set the onhand (type 2)
  MinEvent,     \* the events that change the minimum (type 3)
  MaxEvent      \* the events that change the maximum (type 4)

Fixed == SetEvent \union MinEvent \union MaxEvent
Event == Change \union Fixed

ASSUME EventAssumption ==
  /\ Event \subseteq Int
  /\ Change \intersect Fixed = {}
  /\ SetEvent \intersect (MinEvent \union MaxEvent) = {}
  /\ MinEvent \intersect MaxEvent = {}

Type(e) == IF e \in Change THEN 1 ELSE IF e \in SetEvent THEN 2 ELSE IF e \in MinEvent THEN 3 ELSE 4

Zero == [e \in Event |-> 0]
Empty == [line |-> <<>>, dt |-> Zero, qty |-> Zero, val |-> Zero, oh |-> Zero, cum |-> Zero,
          chain |-> [t \in 2..4 |-> <<>>]]

Produced(q) == IF q > 0 THEN q ELSE 0

(* "Earlier dates come first ... big events come first ... As a third      *)
(* tie-breaking criterion, we use a pointer comparison."                   *)
Before(tl, e, f) ==
  \/ tl.dt[e] < tl.dt[f]
  \/ tl.dt[e] = tl.dt[f] /\ tl.qty[e] > tl.qty[f]
  \/ tl.dt[e] = tl.dt[f] /\ tl.qty[e] = tl.qty[f] /\ e < f

Place(line, e) == CHOOSE i \in DOMAIN line : line[i] = e

(* The places from i on, up to the next event that sets the onhand.        *)
Bucket(line, i) == {k \in i..Len(line) : \A j \in i..k : line[j] \notin SetEvent}

(* The onhand of the events at these places changes by q.                  *)
Shift(oh, line, places, q) ==
  LET shifted == {line[k] : k \in places}
  IN  [e \in Event |-> IF e \in shifted THEN oh[e] + q ELSE oh[e]]

-----------------------------------------------------------------------------
(* insert(e), with the date and quantity of e in place.                    *)

(* Where the search for the place starts: at the end, or at the last event *)
(* that sets the onhand which has none before it that comes after e.       *)
SearchStart(tl, e) ==
  LET sets == tl.chain[2]
      stop == CHOOSE k \in DOMAIN sets :
                /\ k = Len(sets) \/ ~Before(tl, e, sets[k+1])
                /\ \A j \in 1..k-1 : Before(tl, e, sets[j+1])
  IN  IF sets = <<>> THEN Len(tl.line) ELSE Place(tl.line, sets[stop])

(* The new head of the list of its type, or linked behind the last one the *)
(* loop walks to.                                                          *)
Link(tl, e) ==
  LET list == tl.chain[Type(e)]
      behind == CHOOSE k \in DOMAIN list :
                  /\ k = Len(list) \/ ~(tl.dt[e] >= tl.dt[list[k+1]])
                  /\ \A j \in 1..k-1 : tl.dt[e] >= tl.dt[list[j+1]]
  IN  IF list = <<>> \/ tl.dt[e] >= tl.dt[list[1]] THEN <<e>> \o list
      ELSE InsertAt(list, behind + 1, e)

(* A new setonhand gets its value, and for every event until the next one  *)
(* its difference is added to the onhand of that same event.               *)
SetOnhand(tl, e) ==
  LET delta == tl.val[e] - tl.oh[e]
      n == Cardinality(Bucket(tl.line, Place(tl.line, e) + 1))
  IN  [tl EXCEPT !.oh[e] = tl.val[e] + n * delta]

Insert(tl, e) ==
  LET start == SearchStart(tl, e)
      at == CHOOSE i \in 0..start :
              /\ i = 0 \/ ~Before(tl, e, tl.line[i])
              /\ \A k \in i+1..start : Before(tl, e, tl.line[k])
      passed == at+1..start
      q == tl.qty[e]
      onhand == Shift(tl.oh, tl.line, {k \in passed : tl.line[k] \notin SetEvent}, q)
      produced == Shift(tl.cum, tl.line, passed, Produced(q))
      inserted ==
        [tl EXCEPT
           !.line = InsertAt(tl.line, at + 1, e),
           !.oh = [onhand EXCEPT ![e] = q + IF at = 0 THEN 0 ELSE onhand[tl.line[at]]],
           !.cum = [produced EXCEPT ![e] = Produced(q) + IF at = 0 THEN 0 ELSE produced[tl.line[at]]],
           !.chain = IF e \in Fixed THEN [@ EXCEPT ![Type(e)] = Link(tl, e)] ELSE @]
  IN  IF e \in SetEvent THEN SetOnhand(inserted, e) ELSE inserted

InsertChange(tl, e, d, q) == Insert([tl EXCEPT !.dt[e] = d, !.qty[e] = q], e)
InsertFixed(tl, e, d, v) == Insert([tl EXCEPT !.dt[e] = d, !.val[e] = v], e)

-----------------------------------------------------------------------------
(* erase(e), after which e is as good as new.                              *)
Erase(tl, e) ==
  LET p == Place(tl.line, e)
      rest == p..Len(tl.line)
  IN  [tl EXCEPT
         !.line = RemoveAt(tl.line, p),
         !.dt[e] = 0, !.qty[e] = 0, !.val[e] = 0,
         !.oh = [Shift(@, tl.line, Bucket(tl.line, p), -tl.qty[e]) EXCEPT ![e] = 0],
         !.cum = [Shift(@, tl.line, rest, -Produced(tl.qty[e])) EXCEPT ![e] = 0],
         !.chain = IF e \in Fixed THEN [@ EXCEPT ![Type(e)] = RemoveFirst(tl.chain[Type(e)], e)] ELSE @]

-----------------------------------------------------------------------------
(* update(e, newqty, d): e swaps places with its successors, or with its   *)
(* predecessors, until the line is sorted again.  What is still to be      *)
(* applied is kept in "delta", "in_bucket" tells that a setonhand is       *)
(* passed; both and the timeline are the state s of the walk.              *)
SwapNext(s, e, oldqty) ==
  LET tl == s.tl
      p == Place(tl.line, e)
      x == tl.line[p+1]
  IN  [tl |-> [tl EXCEPT
                 !.line = [@ EXCEPT ![p] = x, ![p+1] = e],
                 !.oh = IF x \in SetEvent THEN [@ EXCEPT ![e] = tl.oh[x]]
                        ELSE IF s.in_bucket THEN [@ EXCEPT ![e] = tl.oh[e] + tl.qty[x]]
                        ELSE [@ EXCEPT ![e] = tl.oh[x], ![x] = tl.oh[x] - oldqty],
                 !.cum = [@ EXCEPT ![e] = tl.cum[x], ![x] = tl.cum[x] - Produced(oldqty)]],
       delta |-> IF x \in SetEvent THEN -tl.qty[e] ELSE s.delta,
       in_bucket |-> s.in_bucket \/ x \in SetEvent]

SwapPrev(s, e, oldqty) ==
  LET tl == s.tl
      p == Place(tl.line, e)
      x == tl.line[p-1]
      line == [tl.line EXCEPT ![p] = x, ![p-1] = e]
      leave == IF s.delta # 0 THEN oldqty ELSE tl.qty[e]
  IN  [tl |-> [tl EXCEPT
                 !.line = line,
                 !.oh = IF x \in SetEvent
                        THEN [Shift(@, line, Bucket(line, p+1), -leave)
                                EXCEPT ![e] = tl.qty[e] + IF p = 2 THEN 0 ELSE tl.oh[line[p-2]]]
                        ELSE [@ EXCEPT ![x] = tl.oh[e], ![e] = tl.oh[e] - tl.qty[x]],
                 !.cum = [@ EXCEPT ![x] = tl.cum[e], ![e] = tl.cum[e] - Produced(tl.qty[x])]],
       delta |-> IF x \in SetEvent THEN 0 ELSE s.delta,
       in_bucket |-> s.in_bucket]

(* While e is not before the next event, and then while the previous one   *)
(* is not before it.                                                       *)
PassesNext(tl, e) ==
  LET p == Place(tl.line, e)
  IN  p < Len(tl.line) /\ ~Before(tl, e, tl.line[p+1])

PassesPrev(tl, e) ==
  LET p == Place(tl.line, e)
  IN  p > 1 /\ ~Before(tl, tl.line[p-1], e)

MoveLater(s, e, oldqty) ==
  LET walk[i \in 0..Len(s.tl.line)] ==
        IF i = 0 THEN s
        ELSE IF PassesNext(walk[i-1].tl, e) THEN SwapNext(walk[i-1], e, oldqty) ELSE walk[i-1]
  IN  walk[Len(s.tl.line)]

MoveEarlier(s, e, oldqty) ==
  LET walk[i \in 0..Len(s.tl.line)] ==
        IF i = 0 THEN s
        ELSE IF PassesPrev(walk[i-1].tl, e) THEN SwapPrev(walk[i-1], e, oldqty) ELSE walk[i-1]
  IN  walk[Len(s.tl.line)]

(* The rest of the bucket e is in now, and all that follows, changes too.  *)
(* Variant: the change goes on past the next event that sets the onhand.   *)
SettleToEnd(s, e, oldqty) ==
  LET tl == s.tl
      rest == Place(tl.line, e)..Len(tl.line)
      cumdelta == Produced(oldqty) - Produced(tl.qty[e])
  IN  IF s.delta = 0 THEN tl
      ELSE [tl EXCEPT !.oh = Shift(@, tl.line, rest, -s.delta), !.cum = Shift(@, tl.line, rest, -cumdelta)]

Settle(s, e, oldqty) ==
  LET tl == s.tl
      p == Place(tl.line, e)
      cumdelta == Produced(oldqty) - Produced(tl.qty[e])
  IN  IF s.delta = 0 THEN tl
      ELSE [tl EXCEPT !.oh = Shift(@, tl.line, Bucket(tl.line, p), -s.delta),
                      !.cum = Shift(@, tl.line, p..Len(tl.line), -cumdelta)]

Update(tl, e, newqty, d) ==
  LET oldqty == tl.qty[e]
      start == [tl |-> [tl EXCEPT !.dt[e] = d, !.qty[e] = newqty],
                delta |-> oldqty - newqty, in_bucket |-> FALSE]
  IN  Settle(MoveEarlier(MoveLater(start, e, oldqty), e, oldqty), e, oldqty)

-----------------------------------------------------------------------------
(* getMin(d) and getMax(d): along the list from the last one, until one    *)
(* that is on or before the date, or before it when not inclusive.         *)
BoundAt(tl, t, d, inclusive) ==
  LET list == tl.chain[t]
      found == {k \in DOMAIN list : tl.dt[list[k]] < d \/ (inclusive /\ tl.dt[list[k]] = d)}
  IN  IF found = {} THEN 0 ELSE tl.val[list[CHOOSE k \in found : \A j \in found : k <= j]]

(* "This function is used to trace the consistency of the data structure": *)
(* the onhands add up, the cumulative quantity is correct, the timeline is *)
(* sorted.                                                                 *)
Check(tl) ==
  \A i \in DOMAIN tl.line :
    LET e == tl.line[i]
        expected == IF i = 1 THEN tl.qty[e] ELSE tl.oh[tl.line[i-1]] + tl.qty[e]
        produced == Produced(tl.qty[e]) + IF i = 1 THEN 0 ELSE tl.cum[tl.line[i-1]]
    IN  /\ e \in SetEvent \/ tl.oh[e] = expected
        /\ tl.cum[e] = produced
        /\ i = 1 \/ Before(tl, tl.line[i-1], e) \/ tl.qty[tl.line[i-1]] = tl.qty[e]
=============================================================================

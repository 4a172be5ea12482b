---------------------------- MODULE OperatorDelete ----------------------------
(***************************************************************************)
(* The removal of excess inventory from a buffer, OperatorDelete::solve()  *)
(* of a Buffer, as the safety stock pass calls it: a walk along the        *)
(* timeline that deletes or shrinks the operationplans that produce more   *)
(* than is needed, and thereby changes the timeline it walks along.        *)
(*                                                                         *)
(* The plan is the one of PlanTimeLine.  While the walk lasts its thread   *)
(* is the only one that changes the buffer, which belongs to its cluster.  *)
(* An operation comes in lots of `lot' units (its size multiple), at least *)
(* `min' and at most `max' of them (its size minimum and maximum); a lot   *)
(* produces `made' units into the buffer, so that the quantity of its flow *)
(* is made/lot.                                                            *)
(***************************************************************************)
EXTENDS PlanTimeLine

CONSTANT Operations       \* the operations the flowplans may be of

ASSUME OperationAssumption ==
  \A o \in Operations, e \in Change :
    /\ {o[e].lot, o[e].made, o[e].max} \subseteq Nat \ {0}
    /\ o[e].min \in Nat /\ o[e].min <= o[e].max

End == Min(Event) - 1      \* the iterator at the end

VARIABLES
  sweeping,         \* is the walk under way?
  fiter,            \* the event it stands at
  locked,           \* the producers of operationplans that are locked then
  operation,        \* the operation of each flowplan
  excess,           \* what it expects to remove in all
  before            \* history: the stock when it began

sweep == <<sweeping, fiter, locked, operation, excess, before>>
sweepVars == <<vars, sweep>>

NoStock == [d \in Date |-> 0]
NoOperation == <<>>

LastEvent == Last(tl.line)

(* getMin() of an event: a new minimum counts for itself.                  *)
MinOf(e) == IF e \in MinEvent THEN tl.val[e] ELSE BoundAt(tl, 3, tl.dt[e], TRUE)

NextOf(line, e) ==
  LET p == Place(line, e) IN IF p = Len(line) THEN End ELSE line[p+1]

(* Variant: the excess at the end of the horizon.                          *)
GetExcessAtEnd(e) == tl.oh[LastEvent] - MinOf(LastEvent)

(* getExcess(e): "the lowest excess inventory level between this event and *)
(* the end of the horizon", over the minimum that is valid just before it  *)
(* or has come since.                                                      *)
GetExcess(e) ==
  LET p == Place(tl.line, e)
      mins(k) == {j \in p..k : tl.line[j] \in MinEvent}
      least(k) == IF mins(k) = {} THEN BoundAt(tl, 3, tl.dt[e], FALSE) ELSE tl.val[tl.line[Max(mins(k))]]
  IN  Min({tl.oh[tl.line[k]] - least(k) : k \in p..Len(tl.line)})

(* The stock over the minimum at the end of each date.                     *)
Stock ==
  [d \in Date |->
     LET until == {k \in DOMAIN tl.line : tl.dt[tl.line[k]] <= d}
     IN  (IF until = {} THEN 0 ELSE tl.oh[tl.line[Max(until)]]) - BoundAt(tl, 3, d, TRUE)]

SweepInit ==
  /\ Init
  /\ sweeping = FALSE /\ fiter = End /\ locked = {} /\ operation = NoOperation
  /\ excess = 0 /\ before = NoStock

-----------------------------------------------------------------------------
(* The sizes of the operationplans are ones their operations allow.        *)
Sized(o) ==
  \A e \in plans : tl.qty[e] > 0 => \E k \in o[e].min..o[e].max : tl.qty[e] = k * o[e].made

(* The safety stock pass comes to the buffer.  Whose flowplans there are,  *)
(* and which of them are locked, matters to nobody else here.              *)
Begin ==
  /\ ~sweeping
  /\ owner = "buffer" /\ tl.line # <<>>
  /\ operation' \in {o \in Operations : Sized(o)}
  /\ sweeping' = TRUE
  /\ fiter' = tl.line[1]
  /\ locked' \in SUBSET {e \in plans : tl.qty[e] > 0}
  /\ excess' = tl.oh[LastEvent] - MinOf(LastEvent)
  /\ before' = Stock
  /\ UNCHANGED vars

Continues == sweeping /\ excess > 0 /\ fiter # End

Candidate(e) ==
  /\ tl.qty[e] > 0 /\ e \in Change \ locked
  /\ GetExcess(e) > 0

(* setOperationPlanQuantity(): the lots of an operation for a quantity of  *)
(* which a lot is n, rounded up and kept within its minimum and maximum.   *)
Lots(o, quantity, n) ==
  LET k == (quantity + n - 1) \div n
  IN  IF k < o.min THEN o.min ELSE IF k > o.max THEN o.max ELSE k

(* What fp->setQuantity() returns, the quantity the flowplan should have,  *)
(* and the one it gets: the operationplan is given that quantity for its   *)
(* own size, although a unit of it may produce more or less than one.      *)
Smaller(e) == Lots(operation[e], tl.qty[e] - GetExcess(e), operation[e].made) * operation[e].made
Resized(e) == Lots(operation[e], Smaller(e), operation[e].lot) * operation[e].made

(* A consumer, a bound, or a producer without excess, that is locked or    *)
(* cannot be smaller.                                                      *)
Skip ==
  /\ Continues
  /\ \/ ~Candidate(fiter)
     \/ Candidate(fiter) /\ GetExcess(fiter) < tl.qty[fiter] /\ Smaller(fiter) = tl.qty[fiter]
  /\ fiter' = NextOf(tl.line, fiter)
  /\ UNCHANGED <<vars, sweeping, locked, operation, excess, before>>

(* Variant: the iterator is not advanced before the event is gone.         *)
DeleteExcessAtIterator ==
  /\ Continues /\ Candidate(fiter) /\ GetExcess(fiter) >= tl.qty[fiter]
  /\ excess' = excess - tl.qty[fiter]
  /\ plans' = plans \ {fiter}
  /\ tl' = Erase(tl, fiter)
  /\ UNCHANGED <<user, sweeping, fiter, locked, operation, before>>

(* The operationplan is deleted, and its flowplan with it.                 *)
DeleteExcess ==
  /\ Continues /\ Candidate(fiter) /\ GetExcess(fiter) >= tl.qty[fiter]
  /\ fiter' = NextOf(tl.line, fiter)
  /\ excess' = excess - tl.qty[fiter]
  /\ plans' = plans \ {fiter}
  /\ tl' = Erase(tl, fiter)
  /\ UNCHANGED <<user, sweeping, locked, operation, before>>

(* Variant: the iterator is advanced afterwards.                           *)
ResizeExcessAdvanceLate ==
  /\ Continues /\ Candidate(fiter)
  /\ GetExcess(fiter) < tl.qty[fiter] /\ Smaller(fiter) # tl.qty[fiter]
  /\ tl' = Update(tl, fiter, Resized(fiter), tl.dt[fiter])
  /\ fiter' = NextOf(tl'.line, fiter)
  /\ excess' = excess - (tl.qty[fiter] - Smaller(fiter))
  /\ UNCHANGED <<user, plans, sweeping, locked, operation, before>>

(* It changes its size, keeps its end, and may change places with events   *)
(* of the same date, the one the iterator is at already among them.        *)
ResizeExcess ==
  /\ Continues /\ Candidate(fiter)
  /\ GetExcess(fiter) < tl.qty[fiter] /\ Smaller(fiter) # tl.qty[fiter]
  /\ fiter' = NextOf(tl.line, fiter)
  /\ excess' = excess - (tl.qty[fiter] - Smaller(fiter))
  /\ tl' = Update(tl, fiter, Resized(fiter), tl.dt[fiter])
  /\ UNCHANGED <<user, plans, sweeping, locked, operation, before>>

Return ==
  /\ sweeping /\ ~Continues
  /\ sweeping' = FALSE /\ fiter' = End /\ locked' = {} /\ operation' = NoOperation
  /\ excess' = 0 /\ before' = NoStock
  /\ UNCHANGED vars

PlanChanges == ~sweeping /\ Next /\ UNCHANGED sweep

SweepNext == Begin \/ Skip \/ DeleteExcess \/ ResizeExcess \/ Return \/ PlanChanges

SweepSpec == SweepInit /\ [][SweepNext]_sweepVars

-----------------------------------------------------------------------------
(* The iterator always stands at an event of the timeline, or at its end.  *)
SweepTypeOK ==
  /\ TypeOK
  /\ sweeping \in BOOLEAN
  /\ fiter \in ToSet(tl.line) \union {End}
  /\ locked \subseteq Change
  /\ operation \in IF sweeping THEN Operations ELSE {NoOperation}
  /\ excess \in Int
  /\ before \in [Date -> Int]

(* The minima are those that were asked for (see BoundsFollowCalendar).    *)
Sound == 3 \notin stale

(* Removing excess creates no shortage and makes none worse: at the end of *)
(* every date the stock is still at its minimum, or where it was.  That is *)
(* so when every operation produces a unit or more per unit of its size:   *)
(* the size that is set is then not less than the one that is needed.      *)
NoNewShortage ==
  sweeping /\ Sound /\ (\A e \in Change : operation[e].made >= operation[e].lot) =>
    \A d \in Date : Stock[d] >= 0 \/ Stock[d] = before[d]

(* Although the walk changes the timeline it stands in and ends as soon as *)
(* it has removed what it expected, it forgets nothing: no operationplan   *)
(* that could be deleted or be smaller is left.  That is so when every     *)
(* operation produces a unit or less per unit of its size: the size that   *)
(* is set is then not more than the one that is needed.                    *)
NothingLeft ==
  sweeping /\ ~Continues /\ Sound /\ (\A e \in Change : operation[e].made <= operation[e].lot) =>
    \A e \in plans : Candidate(e) => GetExcess(e) < tl.qty[e] /\ Smaller(e) = tl.qty[e]
=============================================================================

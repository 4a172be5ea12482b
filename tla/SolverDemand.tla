------------------------------ MODULE SolverDemand ------------------------------
(***************************************************************************)
(* How the solver plans a demand: SolverMRP::solve(Demand)                 *)
(* (src/solver/solverdemand.cpp) and the loop over the demands of a        *)
(* cluster that calls it (src/solver/solverplan.cpp).                      *)
(*                                                                         *)
(* The delivery operation is asked for a quantity at a date and answers    *)
(* with a quantity and a date; its answer is any one that the code         *)
(* handles.  The journal is the one of module CommandManager, seen from    *)
(* here: a list of bookmarks, with what is delivered of each demand after  *)
(* the commands of each of them.                                           *)
(* Without undo the bookmarks form a chain (CommandManager!Chained), so a  *)
(* bookmark is known by its place in the list.  A delivery whose deletion  *)
(* is rolled back is no delivery of the demand any more (CommandManager,   *)
(* Reinstate).                                                             *)
(*                                                                         *)
(* Quantities are integers: ROUNDING_ERROR, which the code adds or         *)
(* subtracts in comparisons, is less than their unit.  Dates are days      *)
(* after the due date; MaxLateness stands for all the dates from           *)
(* getMaxLateness() on.                                                    *)
(***************************************************************************)
EXTENDS Integers, Sequences

CONSTANTS
  Demand,
  Times,           (* how often each demand may be planned: once in a      *)
                   (* complete replan                                      *)
  Settings         (* the solvers that are looked at, of which one plans   *)

Setting ==
  [autocommit : BOOLEAN,   \* TRUE in a complete replan, FALSE when a single
                           \* demand is planned and the user commits
   planType : {1, 2},
   constrained : BOOLEAN,  \* constrainedPlanning: in a complete replan TRUE for
                           \* plan type 1 only, otherwise at first TRUE
   allowSplits : BOOLEAN,
   threshold : Nat,        \* iteration_threshold, in which iteration_accuracy
                           \* times the quantity is included
   excess : Nat,           \* lot sizes: an answer may exceed the question by this
   failures : BOOLEAN,     \* the operation or the user exit may throw
   demands : SUBSET Demand,    \* the demands that are planned
   maxQuantity : Nat \ {0},    \* bound: the quantity of a demand
   maxLateness : Nat]

(* In plan type 2 the due date must not be one of the last dates.          *)
ASSUME SettingAssumption ==
  /\ Times \in Nat
  /\ \A s \in Settings :
       /\ s \in Setting
       /\ s.autocommit => Times <= 1
       /\ s.planType = 2 => s.maxLateness > 0

Gone == 0                              \* a bookmark that was freed

VARIABLES
  solver,          (* the solver and its settings                          *)
  quantity,        (* getQuantity() of each demand                         *)
  minShipment,     (* getMinShipment() of each demand                      *)
  locked,          (* what its locked operationplans deliver               *)
  committed,       (* what is delivered for good                           *)
  journal,         (* the bookmarks: what is delivered after each          *)
  pc,
  demand,          (* the demand being planned, or the last one            *)
  top,             (* the place of the outer topcommand, or Gone           *)
  mark,            (* the place of the topcommand of the planning loop     *)
  plan,            (* plan_qty and plan_date                               *)
  q_qty,           (* the quantity of the question that was answered       *)
  a_qty,           (* the quantity of the answer                           *)
  next_date,
  range,           (* min_qty and max_qty of the search                    *)
  best,            (* best_a_qty, best_q_qty and best_q_date               *)
  remainder,
  tmpresult,
  todo,            (* how often each demand may still be planned           *)
  before,          (* history: what was pending when solve() was called    *)
  outcome          (* history: how it ended                                *)

model == <<solver, quantity, minShipment, locked>>
local == <<plan, q_qty, a_qty, next_date, range, best, remainder, tmpresult>>
vars == <<model, committed, journal, pc, demand, top, mark, local, todo, before, outcome>>

Autocommit == solver.autocommit
PlanType == solver.planType
Constrained == solver.constrained
AllowSplits == solver.allowSplits
Threshold == solver.threshold
Excess == solver.excess
Failures == solver.failures
MaxQuantity == solver.maxQuantity
MaxLateness == solver.maxLateness
Date == 0..MaxLateness

Larger(m, n) == IF m > n THEN m ELSE n
Smaller(m, n) == IF m < n THEN m ELSE n

Minimum == minShipment[demand]

Final(j) == j[Len(j)]

(* What d has in all, and what the journal adds to it.                     *)
Planned(d) == Final(journal)[d]
Pending(d) == Planned(d) - committed[d]

NoOffer == [a |-> 0, q |-> 0, date |-> 0]

Init ==
  /\ solver \in Settings
  /\ quantity \in [Demand -> 1..MaxQuantity]
  /\ minShipment \in [Demand -> 0..MaxQuantity]
  /\ locked \in [Demand -> {0, 1}]
  /\ \A d \in Demand \ solver.demands : quantity[d] = 1 /\ minShipment[d] = 0 /\ locked[d] = 0
  /\ \E unlocked \in [Demand -> {0, IF Autocommit THEN 0 ELSE 1}] :
       committed = [d \in Demand |-> locked[d] + unlocked[d]]
  /\ journal = <<committed>>
  /\ pc = "idle"
  /\ demand \in Demand
  /\ top = Gone /\ mark = Gone
  /\ plan = [qty |-> 0, date |-> 0]
  /\ q_qty = 0 /\ a_qty = 0 /\ next_date = 0
  /\ range = [min |-> 0, max |-> 0]
  /\ best = NoOffer
  /\ remainder = 0 /\ tmpresult = 0
  /\ todo = [d \in Demand |-> IF d \in solver.demands THEN Times ELSE 0]
  /\ before = [d \in Demand |-> 0]
  /\ outcome = "none"

-----------------------------------------------------------------------------
(* The journal.  rollback(b) empties bookmark b and frees the later ones;  *)
(* their memory, or that of the outer topcommand once it is gone, may be   *)
(* the memory of the next bookmark that is set.                            *)

SetBookmark(j) == Append(j, Final(j))

Until(i) == IF i = 1 THEN committed ELSE journal[i-1]

Truncate(b) == Append(SubSeq(journal, 1, b - 1), Until(b))

(* The demands whose old deliveries were deleted since bookmark b: when    *)
(* that is rolled back they have none but the locked ones.                 *)
Replanned(b) == {d \in Demand : \E i \in b..Len(journal) : journal[i][d] < Until(i)[d]}

Without(lost, delivered) == [d \in Demand |-> IF d \in lost THEN locked[d] ELSE delivered[d]]

RollbackTo(b) ==
  /\ committed' = Without(Replanned(b), committed)
  /\ journal' = [i \in 1..b |-> Without(Replanned(b), Truncate(b)[i])]

Decide(j, q) == [j EXCEPT ![Len(j)][demand] = @ + q]

TopAfter(kept, j) ==       \* of j, the first kept bookmarks are not new
  IF top # Gone /\ top <= kept THEN {top} ELSE {Gone} \cup (kept + 1)..Len(j)

(* scanExcess() and CommandManager::commit().  scanExcess() takes back the *)
(* operationplans of the journal that are not needed; a delivery is always *)
(* needed (OperationPlan::isExcess), so that what is delivered stays.      *)
CommitJournal ==
  /\ committed' = Final(journal)
  /\ journal' = <<Final(journal)>>
  /\ top' = Gone

KeepJournal == UNCHANGED <<committed, journal, top>>

(* deliveryoper->solve() on journal j, whose first kept bookmarks are not  *)
(* new.  The operationplan is created under the last bookmark; the one     *)
(* that checkOperation() sets stays behind it when the answer is positive. *)
Ask(j, kept, q, a, date) ==
  /\ a_qty' = a
  /\ journal' = IF a > 0 THEN SetBookmark(Decide(j, a)) ELSE j
  /\ top' \in TopAfter(kept, journal')
  /\ UNCHANGED committed

Answer(q) == 0..(q + Excess)

(* An exception leaves what was decided so far in the journal.             *)
Throw(j, kept, q) ==
  /\ Failures
  /\ \E x \in 0..q : journal' = SetBookmark(Decide(j, x))
  /\ top' \in TopAfter(kept, journal')
  /\ pc' = "failed"
  /\ UNCHANGED <<model, committed, demand, mark, local, todo, before, outcome>>

-----------------------------------------------------------------------------
(* The user exit may throw; then the demand gets rid of its unlocked       *)
(* deliveries.                                                             *)
Solve(d) ==
  /\ pc = "idle"
  /\ todo[d] > 0
  /\ todo' = [todo EXCEPT ![d] = @ - 1]
  /\ demand' = d
  /\ before' = [e \in Demand |-> Pending(e)]
  /\ top' = Len(journal) + 1
  /\ best' = NoOffer
  /\ \/ /\ Failures
        /\ journal' = SetBookmark(journal)
        /\ pc' = "failed"
        /\ UNCHANGED <<plan, outcome>>
     \/ /\ journal' = Append(journal, [Final(journal) EXCEPT ![d] = locked[d]])
        /\ LET missing == quantity[d] - locked[d]
           IN  \/ /\ missing <= 0
                  /\ outcome' = "done"
                  /\ UNCHANGED <<pc, plan>>
               \/ /\ missing > 0
                  /\ pc' = "ask"
                  /\ plan' = [qty |-> Larger(missing, minShipment[d]), date |-> 0]
                  /\ UNCHANGED outcome
               \/ /\ Failures                      \* no delivery operation
                  /\ missing > 0
                  /\ pc' = "failed"
                  /\ UNCHANGED <<plan, outcome>>
  /\ UNCHANGED <<model, committed, mark, q_qty, a_qty, next_date, range, remainder, tmpresult>>

(* A pass of the planning loop begins: all that is missing is asked.       *)
AskAll ==
  /\ pc = "ask"
  /\ mark' = Len(journal) + 1
  /\ q_qty' = plan.qty
  /\ \E a \in Answer(plan.qty), date \in Date :
       /\ Ask(SetBookmark(journal), Len(journal), plan.qty, a, date)
       /\ next_date' = date
       /\ pc' = IF a = 0 /\ plan.qty > Minimum /\ Minimum > 0 THEN "minimum" ELSE "evaluate"
  /\ UNCHANGED <<model, demand, plan, range, best, remainder, tmpresult, todo, before, outcome>>

AskAllThrows == pc = "ask" /\ Throw(SetBookmark(journal), Len(journal), plan.qty)

(* The minimum shipment, ...                                               *)
AskMinimum ==
  /\ pc = "minimum"
  /\ \E a \in Answer(Minimum), date \in Date :
       /\ Ask(Truncate(mark), mark, Minimum, a, date)
       /\ next_date' = Smaller(date, next_date)
       /\ pc' = IF a > 0 THEN "search" ELSE "evaluate"
  /\ range' = [min |-> Minimum, max |-> plan.qty]
  /\ UNCHANGED <<model, demand, mark, plan, q_qty, best, remainder, tmpresult, todo, before, outcome>>

(* ... then the largest quantity between it and the whole that gets a      *)
(* positive answer.                                                        *)
NewQuantity ==
  LET half == (range.min + range.max) \div 2
  IN  IF half = range.min THEN half + 1 ELSE half

Searching == range.max - range.min > Threshold /\ NewQuantity <= range.max

(* Variant: the previous attempt is not rolled back first.                 *)
AskBetweenOnTop ==
  /\ pc = "search"
  /\ Searching
  /\ \E a \in Answer(NewQuantity), date \in Date :
       /\ Ask(journal, Len(journal), NewQuantity, a, date)
       /\ next_date' = Smaller(date, next_date)
       /\ range' = IF a > 0 THEN [range EXCEPT !.min = NewQuantity]
                   ELSE [range EXCEPT !.max = NewQuantity]
  /\ UNCHANGED <<model, pc, demand, mark, plan, q_qty, best, remainder, tmpresult, todo, before, outcome>>

(* Variant: the other end of the range starts afresh.                      *)
AskBetweenAfresh ==
  /\ pc = "search"
  /\ Searching
  /\ \E a \in Answer(NewQuantity), date \in Date :
       /\ Ask(Truncate(mark), mark, NewQuantity, a, date)
       /\ next_date' = Smaller(date, next_date)
       /\ range' = IF a > 0 THEN [min |-> NewQuantity, max |-> plan.qty]
                   ELSE [min |-> Minimum, max |-> NewQuantity]
  /\ UNCHANGED <<model, pc, demand, mark, plan, q_qty, best, remainder, tmpresult, todo, before, outcome>>

AskBetween ==
  /\ pc = "search"
  /\ Searching
  /\ \E a \in Answer(NewQuantity), date \in Date :
       /\ Ask(Truncate(mark), mark, NewQuantity, a, date)
       /\ next_date' = Smaller(date, next_date)
       /\ range' = IF a > 0 THEN [range EXCEPT !.min = NewQuantity]
                   ELSE [range EXCEPT !.max = NewQuantity]
  /\ UNCHANGED <<model, pc, demand, mark, plan, q_qty, best, remainder, tmpresult, todo, before, outcome>>

SearchEnds ==
  /\ pc = "search"
  /\ ~Searching
  /\ q_qty' = range.min
  /\ pc' = IF a_qty = 0 THEN "restore" ELSE "evaluate"
  /\ KeepJournal
  /\ UNCHANGED <<model, demand, mark, plan, a_qty, next_date, range, best, remainder, tmpresult,
                 todo, before, outcome>>

AskRestore ==
  /\ pc = "restore"
  /\ \E a \in Answer(range.min), date \in Date : Ask(Truncate(mark), mark, range.min, a, date)
  /\ pc' = "evaluate"
  /\ UNCHANGED <<model, demand, mark, plan, q_qty, next_date, range, best, remainder, tmpresult,
                 todo, before, outcome>>

AskAgainThrows ==
  \E q \in CASE pc = "minimum" -> {Minimum}
             [] pc = "search" /\ Searching -> {NewQuantity}
             [] pc = "restore" -> {range.min}
             [] OTHER -> {} :
    Throw(Truncate(mark), mark, q)

-----------------------------------------------------------------------------
(* The answer is refused when it is nothing, less than the minimum         *)
(* shipment, or leaves less than that.                                     *)
LeavesTooLittle == plan.qty - a_qty < Minimum

(* Variant: what would be left does not matter.                            *)
RefusedIgnoresRest == a_qty = 0 \/ a_qty < Minimum

Refused == a_qty = 0 \/ a_qty < Minimum \/ (LeavesTooLittle /\ plan.qty # a_qty)

(* The planning loop goes on: in a constrained plan of type 2 as long as   *)
(* the due date is asked.                                                  *)
More(p) ==
  p.qty > 0 /\ IF PlanType = 2 /\ Constrained THEN p.date = 0 ELSE p.date < MaxLateness

Lazy ==
  \/ next_date <= plan.date
  \/ ~AllowSplits /\ a_qty > 0
  \/ a_qty > 0 /\ LeavesTooLittle /\ plan.qty > a_qty

(* Variant: an answer that is not accepted stays in the plan.              *)
UndoAnswerForgotten == UNCHANGED <<journal, top>>

UndoAnswer == journal' = Truncate(mark) /\ top' \in TopAfter(mark, journal')

Refuse ==
  /\ pc = "evaluate"
  /\ Refused
  /\ best' = IF LeavesTooLittle /\ a_qty >= Minimum /\ a_qty > best.a
               THEN [a |-> a_qty, q |-> q_qty, date |-> plan.date] ELSE best
  /\ UndoAnswer
  /\ plan' = [plan EXCEPT !.date = IF Lazy THEN Smaller(@ + 1, MaxLateness) ELSE next_date]
  /\ pc' = IF More(plan') THEN "ask" ELSE "loopEnd"
  /\ UNCHANGED <<model, committed, demand, mark, q_qty, a_qty, next_date, range, remainder,
                 tmpresult, todo, before, outcome>>

(* An answer that is smaller than the question is planned anew.            *)
Coordinate ==
  /\ pc = "evaluate"
  /\ ~Refused
  /\ a_qty < q_qty
  /\ pc' = "coordinate"
  /\ UndoAnswer
  /\ remainder' = a_qty
  /\ tmpresult' = 0
  /\ UNCHANGED <<model, committed, demand, mark, plan, q_qty, a_qty, next_date, range, best,
                 todo, before, outcome>>

AskPart ==
  /\ pc = "coordinate"
  /\ \E a \in Answer(remainder), date \in Date :
       /\ journal' = IF a > 0 THEN SetBookmark(Decide(journal, a)) ELSE journal
       /\ top' \in TopAfter(Len(journal), journal')
       /\ remainder' = remainder - a
       /\ tmpresult' = tmpresult + a
       /\ IF a = 0 \/ remainder' <= 0
          THEN /\ a_qty' = tmpresult'
               /\ pc' = IF tmpresult' = 0 THEN "loopEnd" ELSE "accept"
          ELSE UNCHANGED <<a_qty, pc>>
  /\ UNCHANGED <<model, committed, demand, mark, plan, q_qty, next_date, range, best, todo,
                 before, outcome>>

AskPartThrows == pc = "coordinate" /\ Throw(journal, Len(journal), remainder)

TakeAnswer ==
  /\ pc = "evaluate"
  /\ ~Refused
  /\ a_qty >= q_qty
  /\ pc' = "accept"
  /\ KeepJournal
  /\ UNCHANGED <<model, demand, mark, local, todo, before, outcome>>

(* Variants: what was planned is not subtracted, the offer that was put    *)
(* off is not forgotten.                                                   *)
AcceptForgetsQuantity ==
  /\ pc = "accept"
  /\ IF Autocommit THEN CommitJournal ELSE KeepJournal
  /\ best' = [best EXCEPT !.a = 0]
  /\ pc' = IF More(plan) THEN "ask" ELSE "loopEnd"
  /\ UNCHANGED <<model, demand, mark, plan, q_qty, a_qty, next_date, range, remainder,
                 tmpresult, todo, before, outcome>>

AcceptKeepsBest ==
  /\ pc = "accept"
  /\ IF Autocommit THEN CommitJournal ELSE KeepJournal
  /\ plan' = [plan EXCEPT !.qty = @ - a_qty]
  /\ pc' = IF More(plan') THEN "ask" ELSE "loopEnd"
  /\ UNCHANGED <<model, demand, mark, q_qty, a_qty, next_date, range, best, remainder, tmpresult,
                 todo, before, outcome>>

Accept ==
  /\ pc = "accept"
  /\ IF Autocommit THEN CommitJournal ELSE KeepJournal
  /\ plan' = [plan EXCEPT !.qty = @ - a_qty]
  /\ best' = [best EXCEPT !.a = 0]
  /\ pc' = IF More(plan') THEN "ask" ELSE "loopEnd"
  /\ UNCHANGED <<model, demand, mark, q_qty, a_qty, next_date, range, remainder, tmpresult, todo,
                 before, outcome>>

(* After the planning loop, the best answer that was refused is asked for. *)
BestIsAsked == best.a > 0 /\ Constrained

Reconsider ==
  /\ pc = "loopEnd"
  /\ BestIsAsked
  /\ pc' = "best"
  /\ remainder' = best.q
  /\ KeepJournal
  /\ UNCHANGED <<model, demand, mark, plan, q_qty, a_qty, next_date, range, best, tmpresult,
                 todo, before, outcome>>

AskBest ==
  /\ pc = "best"
  /\ remainder > 0 /\ remainder > Minimum
  /\ \E a \in Answer(remainder), date \in Date :
       /\ Ask(journal, Len(journal), remainder, a, date)
       /\ remainder' = remainder - a
       /\ IF a = 0 THEN pc' = "bestEnd" /\ outcome' = "denied" ELSE UNCHANGED <<pc, outcome>>
  /\ UNCHANGED <<model, demand, mark, plan, q_qty, next_date, range, best, tmpresult, todo, before>>

AskBestThrows ==
  pc = "best" /\ remainder > 0 /\ remainder > Minimum /\ Throw(journal, Len(journal), remainder)

(* Variant: the best answer is not committed.                              *)
ReturnUncommitted ==
  /\ \/ pc = "loopEnd" /\ ~BestIsAsked /\ outcome' = "done"
     \/ pc = "best" /\ ~(remainder > 0 /\ remainder > Minimum) /\ outcome' = "done"
     \/ pc = "bestEnd" /\ UNCHANGED outcome
  /\ KeepJournal
  /\ pc' = "idle"
  /\ UNCHANGED <<model, demand, mark, local, todo, before>>

Return ==
  /\ \/ pc = "loopEnd" /\ ~BestIsAsked /\ KeepJournal /\ outcome' = "done"
     \/ /\ \/ pc = "best" /\ ~(remainder > 0 /\ remainder > Minimum) /\ outcome' = "done"
           \/ pc = "bestEnd" /\ UNCHANGED outcome
        /\ IF Autocommit THEN CommitJournal ELSE KeepJournal
  /\ pc' = "idle"
  /\ UNCHANGED <<model, demand, mark, local, todo, before>>

(* Variant: it is the inner topcommand that is rolled back.                *)
RecoverInner ==
  /\ pc = "failed"
  /\ pc' = "idle"
  /\ outcome' = "failed"
  /\ IF mark \notin DOMAIN journal THEN UNCHANGED <<journal, committed>> ELSE RollbackTo(mark)
  /\ UNCHANGED <<model, demand, top, mark, local, todo, before>>

(* The handler of solve(Demand): its bookmark is rolled back, or not found *)
(* any more, which is an exception of its own.  The caller goes on with    *)
(* the next demand.                                                        *)
Recover ==
  /\ pc = "failed"
  /\ pc' = "idle"
  /\ outcome' = "failed"
  /\ IF top = Gone THEN UNCHANGED <<journal, committed>> ELSE RollbackTo(top)
  /\ UNCHANGED <<model, demand, top, mark, local, todo, before>>

-----------------------------------------------------------------------------
(* Outside solve(Demand) the journal is committed and rolled back by the   *)
(* safety stock pass of a complete replan, after the demands, or by the    *)
(* user of the incremental solver.                                         *)
Finished == \A d \in Demand : todo[d] = 0

CommitAll ==
  /\ pc = "idle"
  /\ Autocommit => Finished
  /\ CommitJournal
  /\ outcome' = "none"
  /\ UNCHANGED <<model, pc, demand, mark, local, todo, before>>

RollbackAll ==
  /\ pc = "idle"
  /\ Autocommit => Finished
  /\ RollbackTo(1)
  /\ top' = Gone
  /\ outcome' = "none"
  /\ UNCHANGED <<model, pc, demand, mark, local, todo, before>>

Next ==
  \/ \E d \in Demand : Solve(d)
  \/ AskAll \/ AskAllThrows \/ AskMinimum \/ AskBetween \/ SearchEnds \/ AskRestore
  \/ AskAgainThrows \/ Refuse \/ Coordinate \/ AskPart \/ AskPartThrows \/ TakeAnswer
  \/ Accept \/ Reconsider \/ AskBest \/ AskBestThrows \/ Return \/ Recover
  \/ CommitAll \/ RollbackAll

Spec == Init /\ [][Next]_vars

(* The thread that plans is never suspended for good.                      *)
FairSpec == Spec /\ WF_vars(Next /\ pc # "idle")

-----------------------------------------------------------------------------
Trying == {"minimum", "search", "restore", "evaluate", "coordinate"}
Place ==
  {"idle", "ask", "accept", "loopEnd", "best", "bestEnd", "failed"} \cup Trying

(* What may be delivered: the quantity or the minimum shipment, the locked *)
(* delivery, and what a lot adds.                                          *)
Delivered == 0..(MaxQuantity + Excess + 1)
Level == [Demand -> Delivered]

TypeOK ==
  /\ solver \in Settings
  /\ quantity \in [Demand -> 1..MaxQuantity]
  /\ minShipment \in [Demand -> 0..MaxQuantity]
  /\ locked \in [Demand -> {0, 1}]
  /\ committed \in Level
  /\ journal \in Seq(Level) /\ journal # <<>>
  /\ pc \in Place
  /\ demand \in Demand
  /\ top \in {Gone} \cup 2..Len(journal)
  /\ mark \in Nat /\ (pc \in Trying => mark \in 2..Len(journal))
  /\ plan \in [qty : Int, date : Date]
  /\ {q_qty, a_qty, remainder, tmpresult} \subseteq Int
  /\ next_date \in Date
  /\ range \in [min : Int, max : Int]
  /\ best \in [a : Int, q : Int, date : Date]
  /\ todo \in [Demand -> 0..Times]
  /\ before \in [Demand -> Int]

Requested == Larger(quantity[demand] - locked[demand], Minimum)

(* The books agree: what is planned, what is still to be planned and the   *)
(* answer under consideration always add up to what was requested.  An     *)
(* answer that is refused, tried or replaced leaves nothing behind.        *)
AnswerIsPlanned ==
  /\ pc \in {"ask", "loopEnd"} => Planned(demand) = locked[demand] + Requested - plan.qty
  /\ pc \in {"evaluate", "accept"} =>
       Planned(demand) = locked[demand] + Requested - plan.qty + a_qty

(* A demand never gets more than it requested, but for one lot size.       *)
NeverOverplanned ==
  pc = "idle" /\ outcome \in {"done", "denied"} =>
    Planned(demand) <= locked[demand] + Larger(Requested, 0) + Excess

(* What is left to plan can still be shipped, but for a lot that the       *)
(* coordination run may have added to the answer that was tested.          *)
RemainderIsShippable == pc = "ask" => plan.qty + Excess >= Minimum

(* "If the problem is with single orders, the exception handling code      *)
(* above will do a proper rollback": an exception leaves nothing pending   *)
(* that was not pending before, and only the demand itself may have lost   *)
(* what it had.                                                            *)
LeavesNothing ==
  /\ Pending(demand)' <= Larger(before[demand], 0)
  /\ \A d \in Demand \ {demand} : Pending(d)' = before[d]

FailureIsUndone == [][pc = "failed" /\ pc' = "idle" => LeavesNothing]_vars

(* That is what the handler of solve(Demand) does as long as no part of    *)
(* the demand was committed: when the user commits, and in autocommit mode *)
(* until the first answer is accepted.                                     *)
Uncommitted == ~Autocommit \/ plan.qty = Requested

UncommittedIsUndone ==
  [][Uncommitted /\ pc = "failed" /\ pc' = "idle" => LeavesNothing]_vars

(* In autocommit mode solve(Demand) leaves nothing of the demand for       *)
(* somebody else to commit when it returns normally, also after other      *)
(* demands failed and left something in the journal they share.            *)
NothingLeftPending ==
  Autocommit /\ pc = "idle" /\ outcome \in {"done", "denied"} => Pending(demand) = 0

(* "We don't accept the answer in case: ... The planned quantity is less   *)
(* than the minimum shipment quantity."                                    *)
AcceptedIsShippable == pc = "accept" => a_qty >= Minimum

(* "3) The remaining quantity after accepting this answer is less than the *)
(* minimum quantity."                                                      *)
RestIsShippable == pc = "ask" => plan.qty >= Minimum

(* "Accept the best possible answer. We may have skipped it in the         *)
(* previous loop, awaiting a still better answer": it is asked for again,  *)
(* and planned unless the answer is no longer the same.                    *)
BestAnswerAccepted ==
  pc = "idle" /\ outcome = "done" /\ BestIsAsked =>
    Planned(demand) > locked[demand] + Requested - plan.qty

(* "The demand is always fully met on time" in an unconstrained plan:      *)
(* certainly when the operation offered all that was requested.            *)
UnconstrainedIsMet ==
  pc = "idle" /\ outcome = "done" /\ ~Constrained /\ best.a >= Requested =>
    Planned(demand) >= quantity[demand]

(* The planning of a demand ends.                                          *)
SolveReturns == pc # "idle" ~> pc = "idle"
=============================================================================

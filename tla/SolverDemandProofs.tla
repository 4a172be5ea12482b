--------------------------- MODULE SolverDemandProofs ---------------------------
(***************************************************************************)
(* Proofs about the planning of demands, module SolverDemand, for any      *)
(* demands, quantities, dates, lots and settings of the solver.            *)
(***************************************************************************)
EXTENDS SolverDemand, SequenceTheorems, TLAPS

(* The lists that the journal is made of. *)

LEMMA AppendIs ==
  ASSUME NEW T, NEW s \in Seq(T), NEW e \in T
  PROVE  /\ Append(s, e) \in Seq(T) /\ Append(s, e) # <<>>
         /\ Len(Append(s, e)) = Len(s) + 1
         /\ \A i \in 1..Len(s) : Append(s, e)[i] = s[i]
         /\ Append(s, e)[Len(s) + 1] = e
         /\ Final(Append(s, e)) = e
         /\ Len(s) \in Nat
BY SMT DEF Final

LEMMA FinalIs ==
  ASSUME NEW T, NEW s \in Seq(T), s # <<>>
  PROVE  Len(s) \in Nat \ {0} /\ Final(s) = s[Len(s)] /\ Final(s) \in T
<1>1. Len(s) \in Nat \ {0}
  BY EmptySeq
<1> QED BY <1>1, ElementOfSeq DEF Final

LEMMA SetBookmarkIs ==
  ASSUME NEW T, NEW s \in Seq(T), s # <<>>
  PROVE  /\ SetBookmark(s) \in Seq(T) /\ SetBookmark(s) # <<>>
         /\ Len(SetBookmark(s)) = Len(s) + 1
         /\ \A i \in 1..Len(s) : SetBookmark(s)[i] = s[i]
         /\ SetBookmark(s)[Len(s) + 1] = Final(s)
         /\ Final(SetBookmark(s)) = Final(s)
         /\ Len(s) \in Nat \ {0}
BY FinalIs, AppendIs DEF SetBookmark

LEMMA TruncateIs ==
  ASSUME NEW T, journal \in Seq(T), committed \in T, NEW b \in 1..Len(journal)
  PROVE  /\ Truncate(b) \in Seq(T) /\ Truncate(b) # <<>>
         /\ Len(Truncate(b)) = b
         /\ \A i \in 1..(b - 1) : Truncate(b)[i] = journal[i]
         /\ Final(Truncate(b)) = Until(b) /\ Truncate(b)[b] = Until(b)
         /\ Until(b) \in T
<1> DEFINE s == SubSeq(journal, 1, b - 1)
<1>1. Len(journal) \in Nat /\ \A i \in 1..Len(journal) : journal[i] \in T
  BY ElementOfSeq, LenProperties
<1>2. \A i \in 1..(b - 1) : journal[i] \in T
  BY <1>1
<1>3. /\ s \in Seq(T)
      /\ Len(s) = IF 1 <= b - 1 THEN b - 1 - 1 + 1 ELSE 0
      /\ \A i \in 1 .. b - 1 - 1 + 1 : s[i] = journal[1 + i - 1]
  BY <1>1, <1>2, SubSeqProperties
<1>4. Len(s) = b - 1 /\ \A i \in 1..(b - 1) : s[i] = journal[i]
  BY <1>1, <1>3
<1>5. Until(b) \in T
  BY <1>1 DEF Until
<1>6. Truncate(b) = Append(s, Until(b))
  BY DEF Truncate
<1> HIDE DEF s
<1>7. /\ Append(s, Until(b)) \in Seq(T) /\ Append(s, Until(b)) # <<>>
      /\ Len(Append(s, Until(b))) = b - 1 + 1
      /\ \A i \in 1..(b - 1) : Append(s, Until(b))[i] = s[i]
      /\ Append(s, Until(b))[b - 1 + 1] = Until(b)
      /\ Final(Append(s, Until(b))) = Until(b)
  BY <1>3, <1>4, <1>5, AppendIs
<1>8. b - 1 + 1 = b
  BY <1>1
<1> QED BY <1>4, <1>5, <1>6, <1>7, <1>8
-----------------------------------------------------------------------------
(* The types. *)

LEMMA SolverType ==
  ASSUME TypeOK
  PROVE  /\ MaxQuantity \in Nat \ {0} /\ Excess \in Nat /\ Threshold \in Nat /\ MaxLateness \in Nat
         /\ Autocommit \in BOOLEAN /\ Failures \in BOOLEAN
         /\ Times \in Nat /\ (Autocommit => Times <= 1)
         /\ 0 \in Date /\ MaxLateness \in Date /\ Date \subseteq Nat
<1>1. solver \in Settings /\ solver \in Setting /\ (solver.autocommit => Times <= 1) /\ Times \in Nat
  BY SettingAssumption DEF TypeOK, SettingAssumption
<1> QED
  BY <1>1, SMT DEF Setting, MaxQuantity, Excess, Threshold, MaxLateness, Autocommit, Failures, Date

LEMMA SameSolver ==
  ASSUME UNCHANGED model
  PROVE  /\ MaxQuantity' = MaxQuantity /\ Excess' = Excess /\ Threshold' = Threshold
         /\ MaxLateness' = MaxLateness /\ Autocommit' = Autocommit /\ Failures' = Failures
         /\ Date' = Date /\ Delivered' = Delivered /\ Level' = Level
         /\ solver' = solver /\ quantity' = quantity /\ minShipment' = minShipment
         /\ locked' = locked
BY DEF model, MaxQuantity, Excess, Threshold, MaxLateness, Autocommit, Failures, Date, Delivered,
       Level

LEMMA LevelType ==
  ASSUME TypeOK
  PROVE  /\ Delivered \in SUBSET Int /\ Delivered \in SUBSET Nat
         /\ Level = [Demand -> Delivered]
         /\ Final(journal) \in Level /\ Len(journal) \in Nat \ {0}
         /\ Planned(demand) \in Delivered
         /\ \A i \in 1..Len(journal) : journal[i] \in Level /\ Until(i) \in Level
<1>1. Delivered \in SUBSET Int /\ Delivered \in SUBSET Nat /\ Level = [Demand -> Delivered]
  BY SolverType, SMT DEF Delivered, Level
<1>2. Final(journal) \in Level /\ Len(journal) \in Nat \ {0}
  BY FinalIs DEF TypeOK
<1>3. Planned(demand) \in Delivered
  BY <1>1, <1>2 DEF Planned, TypeOK
<1>4. \A i \in 1..Len(journal) : journal[i] \in Level
  BY ElementOfSeq DEF TypeOK
<1>5. \A i \in 1..Len(journal) : Until(i) \in Level
  <2> TAKE i \in 1..Len(journal)
  <2>1. CASE i = 1
    BY <2>1 DEF Until, TypeOK
  <2>2. CASE i # 1
    <3>1. i - 1 \in 1..Len(journal)
      BY <1>2, <2>2
    <3> QED BY <2>2, <3>1, <1>4 DEF Until
  <2> QED BY <2>1, <2>2
<1> QED BY <1>1, <1>2, <1>3, <1>4, <1>5

LEMMA TruncatedType ==
  ASSUME TypeOK, NEW b \in 1..Len(journal)
  PROVE  /\ Truncate(b) \in Seq(Level) /\ Truncate(b) # <<>>
         /\ Len(Truncate(b)) = b
         /\ \A i \in 1..(b - 1) : Truncate(b)[i] = journal[i]
         /\ Final(Truncate(b)) = Until(b) /\ Truncate(b)[b] = Until(b)
         /\ Until(b) \in Level
BY TruncateIs DEF TypeOK

LEMMA TopIs ==
  ASSUME TypeOK, NEW j, Len(j) \in Nat, NEW kept \in 1..Len(j), top' \in TopAfter(kept, j)
  PROVE  /\ top' \in {Gone} \cup 2..Len(j)
         /\ top # Gone /\ top <= kept => top' = top
<1>1. top \in {Gone} \cup 2..Len(journal) /\ Len(journal) \in Nat
  BY LevelType DEF TypeOK
<1>2. CASE top # Gone /\ top <= kept
  BY <1>1, <1>2, SMT DEF TopAfter, Gone
<1>3. CASE ~(top # Gone /\ top <= kept)
  <2>1. top' \in {Gone} \cup (kept + 1)..Len(j)
    BY <1>3 DEF TopAfter
  <2>2. (kept + 1)..Len(j) \subseteq 2..Len(j)
    BY SMT
  <2> QED BY <1>3, <2>1, <2>2
<1> QED BY <1>2, <1>3

(* Asking the operation adds to the deliveries of the demand from the last *)
(* bookmark of the journal on.                                             *)
Adds(j, x) ==
  /\ Len(journal') \in Nat /\ Len(j) <= Len(journal')
  /\ \A i \in 1..Len(journal') :
       journal'[i] = IF i < Len(j) THEN j[i] ELSE [Final(j) EXCEPT ![demand] = @ + x]

LEMMA DecideIs ==
  ASSUME TypeOK, NEW j \in Seq(Level), j # <<>>, NEW x \in Int, Final(j)[demand] + x \in Delivered
  PROVE  /\ Decide(j, x) \in Seq(Level) /\ Decide(j, x) # <<>>
         /\ Len(Decide(j, x)) = Len(j)
         /\ \A i \in 1..(Len(j) - 1) : Decide(j, x)[i] = j[i]
         /\ Final(Decide(j, x)) = [Final(j) EXCEPT ![demand] = @ + x]
<1> DEFINE n == Len(j)
           e == [Final(j) EXCEPT ![demand] = @ + x]
<1>1. n \in Nat \ {0} /\ Final(j) = j[n] /\ Final(j) \in Level
  BY FinalIs
<1>2. e \in Level
  BY <1>1, LevelType
<1>3. Decide(j, x) = [j EXCEPT ![n] = e]
  BY <1>1 DEF Decide
<1>4. /\ [j EXCEPT ![n] = e] \in Seq(Level)
      /\ Len([j EXCEPT ![n] = e]) = n
      /\ \A i \in 1..n : [j EXCEPT ![n] = e][i] = IF i = n THEN e ELSE j[i]
  BY <1>1, <1>2, ExceptSeq
<1>5. /\ \A i \in 1..(n - 1) : [j EXCEPT ![n] = e][i] = j[i]
      /\ [j EXCEPT ![n] = e][n] = e
  <2> HIDE DEF e
  <2>1. n \in 1..n /\ \A i \in 1..(n - 1) : i \in 1..n /\ i # n
    BY <1>1
  <2> QED BY <2>1, <1>4
<1>6. [j EXCEPT ![n] = e] # <<>>
  BY <1>1, <1>4
<1> QED BY <1>3, <1>4, <1>5, <1>6 DEF Final

LEMMA DecideAndSet ==
  ASSUME TypeOK, NEW j \in Seq(Level), j # <<>>, NEW x \in Int, Final(j)[demand] + x \in Delivered,
         journal' = SetBookmark(Decide(j, x))
  PROVE  /\ journal' \in Seq(Level) /\ journal' # <<>>
         /\ Adds(j, x)
         /\ Final(journal') = [Final(j) EXCEPT ![demand] = @ + x]
         /\ Len(journal') = Len(j) + 1
<1> DEFINE d == Decide(j, x)
           e == [Final(j) EXCEPT ![demand] = @ + x]
<1>1. /\ d \in Seq(Level) /\ d # <<>>
      /\ Len(d) = Len(j)
      /\ \A i \in 1..(Len(j) - 1) : d[i] = j[i]
      /\ Final(d) = e
  BY DecideIs
<1> HIDE DEF d, e
<1>2. /\ SetBookmark(d) \in Seq(Level) /\ SetBookmark(d) # <<>>
      /\ Len(SetBookmark(d)) = Len(j) + 1
      /\ \A i \in 1..Len(j) : SetBookmark(d)[i] = d[i]
      /\ SetBookmark(d)[Len(j) + 1] = e
      /\ Final(SetBookmark(d)) = e
      /\ Len(j) \in Nat \ {0}
  BY <1>1, SetBookmarkIs
<1>3. d[Len(j)] = e
  BY <1>1 DEF Final
<1>4. \A i \in 1..(Len(j) + 1) : SetBookmark(d)[i] = IF i < Len(j) THEN j[i] ELSE e
  <2> TAKE i \in 1..(Len(j) + 1)
  <2>1. CASE i < Len(j)
    BY <1>1, <1>2, <2>1
  <2>2. CASE i = Len(j)
    BY <1>2, <1>3, <2>2
  <2>3. CASE i = Len(j) + 1
    BY <1>2, <2>3
  <2> QED BY <1>2, <2>1, <2>2, <2>3
<1>5. journal' = SetBookmark(d)
  BY DEF d
<1> QED BY <1>2, <1>4, <1>5, SMT DEF Adds, e

LEMMA AskIs ==
  ASSUME TypeOK, NEW j \in Seq(Level), j # <<>>, NEW kept \in 1..Len(j), NEW a \in Nat,
         Final(j)[demand] + a \in Delivered,
         journal' = IF a > 0 THEN SetBookmark(Decide(j, a)) ELSE j,
         top' \in TopAfter(kept, journal')
  PROVE  /\ journal' \in Seq(Level) /\ journal' # <<>>
         /\ Adds(j, a)
         /\ Final(journal')[demand] = Final(j)[demand] + a
         /\ top' \in {Gone} \cup 2..Len(journal')
         /\ top # Gone /\ top <= kept => top' = top
<1>1. Len(j) \in Nat \ {0} /\ Final(j) \in Level /\ Level = [Demand -> Delivered]
      /\ demand \in Demand /\ Delivered \in SUBSET Int
  BY FinalIs, LevelType DEF TypeOK
<1>2. CASE a > 0
  <2>1. journal' = SetBookmark(Decide(j, a))
    BY <1>2
  <2>2. /\ journal' \in Seq(Level) /\ journal' # <<>>
        /\ Adds(j, a)
        /\ Final(journal') = [Final(j) EXCEPT ![demand] = @ + a]
        /\ Len(journal') = Len(j) + 1
    BY <2>1, DecideAndSet
  <2>3. kept \in 1..Len(journal') /\ Len(journal') \in Nat
    BY <1>1, <2>2
  <2>4. Final(journal')[demand] = Final(j)[demand] + a
    BY <1>1, <2>2
  <2> QED BY <2>2, <2>3, <2>4, TopIs
<1>3. CASE a = 0
  <2>1. journal' = j
    BY <1>3
  <2>2. [Final(j) EXCEPT ![demand] = @ + a] = Final(j) /\ Final(j)[demand] + a = Final(j)[demand]
    <3>1. \A f \in [Demand -> Delivered] : f[demand] \in Int
      BY <1>1
    <3>2. \A f \in [Demand -> Delivered] : f[demand] + 0 = f[demand]
      BY <3>1
    <3>3. \A f \in [Demand -> Delivered] : [f EXCEPT ![demand] = f[demand]] = f
      OBVIOUS
    <3>4. [Final(j) EXCEPT ![demand] = @ + a] = [Final(j) EXCEPT ![demand] = Final(j)[demand]]
      BY <1>1, <1>3, <3>2
    <3> QED BY <1>1, <1>3, <3>2, <3>3, <3>4
  <2>3. Adds(j, a)
    BY <1>1, <2>1, <2>2 DEF Adds, Final
  <2> QED BY <1>1, <2>1, <2>2, <2>3, TopIs
<1> QED BY <1>2, <1>3

-----------------------------------------------------------------------------
(* The inductive invariant. *)

Under == pc \notin {"idle", "failed"}
Looping == Trying \cup {"ask", "accept"}

(* What is delivered without the answer under consideration.               *)
Base == locked[demand] + Requested - plan.qty

(* The quantities: nothing is asked beyond what is missing, and an answer  *)
(* that passes the test leaves nothing, or a minimum shipment, but for the *)
(* lot of the coordination run.                                            *)
Amounts ==
  /\ Under =>
       /\ 0 < Requested /\ plan.qty <= Requested /\ 0 <= plan.qty + Excess
       /\ best.a > 0 => 0 <= best.q /\ best.q <= plan.qty
  /\ pc \in Looping => 0 < plan.qty /\ Minimum <= plan.qty + Excess
  /\ pc \in Trying => 0 <= q_qty /\ q_qty <= plan.qty
  /\ pc = "minimum" => 0 < Minimum /\ Minimum < plan.qty
  /\ pc \in {"search", "restore"} =>
       0 <= range.min /\ range.min <= range.max /\ range.max <= plan.qty
  /\ pc \in {"search", "evaluate", "accept"} => 0 <= a_qty /\ a_qty <= plan.qty + Excess
  /\ pc = "coordinate" =>
       /\ 0 < remainder /\ 0 <= tmpresult /\ tmpresult + remainder = a_qty
       /\ a_qty + Minimum <= plan.qty
  /\ pc = "accept" => a_qty = plan.qty \/ a_qty + Minimum <= plan.qty + Excess
  /\ pc = "best" => best.a > 0 /\ remainder <= best.q /\ 0 <= remainder + Excess

(* What is delivered at each place, and before the bookmark to which the   *)
(* next attempt goes back.                                                 *)
Books ==
  /\ pc \in {"ask", "loopEnd"} => Planned(demand) = Base
  /\ pc \in {"search", "evaluate", "accept"} => Planned(demand) = Base + a_qty
  /\ pc = "coordinate" => Planned(demand) = Base + tmpresult
  /\ pc = "best" => Planned(demand) = Base + best.q - remainder
  /\ pc = "bestEnd" => Planned(demand) <= locked[demand] + Requested + Excess
  /\ pc \in Trying => Until(mark)[demand] = Base

DemandInv == TypeOK /\ Amounts /\ Books /\ NeverOverplanned

LEMMA DemandType ==
  ASSUME TypeOK
  PROVE  /\ Requested \in Int /\ Requested <= MaxQuantity
         /\ Minimum \in Nat /\ Minimum <= MaxQuantity
         /\ locked[demand] \in {0, 1} /\ quantity[demand] \in 1..MaxQuantity
         /\ plan.qty \in Int /\ plan.date \in Date
         /\ range.min \in Int /\ range.max \in Int
         /\ best.a \in Int /\ best.q \in Int /\ best.date \in Date
         /\ q_qty \in Int /\ a_qty \in Int /\ remainder \in Int /\ tmpresult \in Int
         /\ Base \in Int /\ Base = locked[demand] + Requested - plan.qty
<1>1. /\ locked[demand] \in {0, 1} /\ quantity[demand] \in 1..MaxQuantity
      /\ minShipment[demand] \in 0..MaxQuantity
      /\ plan \in [qty : Int, date : Date] /\ range \in [min : Int, max : Int]
      /\ best \in [a : Int, q : Int, date : Date]
      /\ q_qty \in Int /\ a_qty \in Int /\ remainder \in Int /\ tmpresult \in Int
  BY DEF TypeOK
<1>2. MaxQuantity \in Nat \ {0}
  BY SolverType
<1>3. Requested \in Int /\ Requested <= MaxQuantity
  BY <1>1, <1>2, SMT DEF Requested, Larger, Minimum
<1> QED BY <1>1, <1>2, <1>3, SMT DEF Base, Minimum

LEMMA SameDemand ==
  ASSUME UNCHANGED <<model, demand>>
  PROVE  /\ Requested' = Requested /\ Minimum' = Minimum
         /\ locked'[demand'] = locked[demand]
BY SameSolver DEF Requested, Minimum

(* There is room for what may be answered.                                 *)
LEMMA Room ==
  ASSUME TypeOK, Amounts, Under
  PROVE  /\ Base \in Nat
         /\ \A x \in Nat : x <= plan.qty + Excess => Base + x \in Delivered
<1>1. 0 < Requested /\ plan.qty <= Requested /\ 0 <= plan.qty + Excess
  BY DEF Amounts
<1>2. Excess \in Nat /\ MaxQuantity \in Nat
  BY SolverType
<1> QED BY <1>1, <1>2, DemandType, SMT DEF Delivered

(* A step keeps the types when what it changes keeps them.                 *)
LEMMA KeepsType ==
  ASSUME TypeOK, UNCHANGED model,
         committed' \in Level, journal' \in Seq(Level), journal' # <<>>,
         pc' \in Place, demand' \in Demand,
         top' \in {Gone} \cup 2..Len(journal'),
         mark' \in Nat, pc' \in Trying => mark' \in 2..Len(journal'),
         plan' \in [qty : Int, date : Date],
         q_qty' \in Int, a_qty' \in Int, remainder' \in Int, tmpresult' \in Int,
         next_date' \in Date,
         range' \in [min : Int, max : Int],
         best' \in [a : Int, q : Int, date : Date],
         todo' \in [Demand -> 0..Times],
         before' \in [Demand -> Int]
  PROVE  TypeOK'
<1>1. /\ (solver \in Settings)'
      /\ (quantity \in [Demand -> 1..MaxQuantity])'
      /\ (minShipment \in [Demand -> 0..MaxQuantity])'
      /\ (locked \in [Demand -> {0, 1}])'
  BY SameSolver DEF TypeOK
<1> QED BY <1>1, SameSolver DEF TypeOK

LEMMA InitDemand == Init => DemandInv
<1> SUFFICES ASSUME Init PROVE DemandInv
  OBVIOUS
<1> USE DEF Init
<1>1. solver \in Setting /\ Times \in Nat
  BY SettingAssumption DEF SettingAssumption
<1>2. /\ MaxQuantity \in Nat \ {0} /\ Excess \in Nat /\ MaxLateness \in Nat
      /\ 0 \in Date
  BY <1>1, SMT DEF Setting, MaxQuantity, Excess, MaxLateness, Date
<1>3. committed \in Level
  BY <1>2, SMT DEF Level, Delivered
<1>4. journal \in Seq(Level) /\ journal # <<>>
  BY <1>3
<1>5. todo \in [Demand -> 0..Times]
  BY <1>1
<1>6. TypeOK
  BY <1>2, <1>3, <1>4, <1>5, SMT DEF TypeOK, Place, Trying, NoOffer, Gone
<1>7. Amounts /\ Books /\ NeverOverplanned
  BY DEF Amounts, Books, NeverOverplanned, Under, Looping, Trying
<1> QED BY <1>6, <1>7 DEF DemandInv

-----------------------------------------------------------------------------
(* The steps. *)

(* A demand adds a bookmark; only its own deliveries may differ there.      *)
LEMMA SolveIs ==
  ASSUME TypeOK, NEW d \in Demand, Solve(d)
  PROVE  \E e \in Level :
           /\ journal' = Append(journal, e)
           /\ \A x \in Demand \ {d} : e[x] = Final(journal)[x]
           /\ pc' # "failed" => e[d] = locked[d]
<1> DEFINE lv == [Final(journal) EXCEPT ![d] = locked[d]]
<1>1. /\ Final(journal) \in Level /\ Level = [Demand -> Delivered]
      /\ locked[d] \in {0, 1} /\ 0 \in Delivered /\ 1 \in Delivered
  <2>1. locked[d] \in {0, 1} /\ 0 \in Delivered /\ 1 \in Delivered
    <3>1. locked[d] \in {0, 1}
      BY DEF TypeOK
    <3> QED BY <3>1, SolverType, SMT DEF Delivered
  <2> QED BY <2>1, LevelType
<1>2. lv \in Level /\ lv[d] = locked[d] /\ \A x \in Demand \ {d} : lv[x] = Final(journal)[x]
  BY <1>1
<1>3. \/ journal' = SetBookmark(journal) /\ pc' = "failed"
      \/ journal' = Append(journal, lv)
  BY DEF Solve
<1> HIDE DEF lv
<1> QED BY <1>1, <1>2, <1>3 DEF SetBookmark

LEMMA SolveStep ==
  ASSUME DemandInv, NEW d \in Demand, Solve(d)
  PROVE  DemandInv'
<1> DEFINE missing == quantity[d] - locked[d]
<1>1. TypeOK /\ UNCHANGED model
  BY DEF DemandInv, Solve
<1>a. /\ quantity[d] \in 1..MaxQuantity /\ locked[d] \in {0, 1} /\ minShipment[d] \in 0..MaxQuantity
      /\ todo[d] \in 0..Times
  BY <1>1 DEF TypeOK
<1>b. MaxQuantity \in Nat \ {0} /\ Excess \in Nat /\ Times \in Nat /\ 0 \in Date
  BY <1>1, SolverType
<1>2. PICK lv \in Level :
        journal' = Append(journal, lv) /\ (pc' # "failed" => lv[d] = locked[d])
  BY <1>1, SolveIs
<1>3. /\ demand' = d /\ best' = NoOffer /\ committed' = committed /\ top' = Len(journal) + 1
      /\ UNCHANGED <<mark, q_qty, a_qty, next_date, range, remainder, tmpresult>>
  BY DEF Solve
<1>4. /\ journal' \in Seq(Level) /\ journal' # <<>>
      /\ Len(journal') = Len(journal) + 1 /\ Len(journal) \in Nat \ {0}
      /\ Final(journal') = lv
  <2>1. journal \in Seq(Level) /\ Len(journal) \in Nat \ {0}
    BY <1>1, LevelType DEF TypeOK
  <2> QED BY <1>2, <2>1, AppendIs
<1>5. pc' # "failed" => Final(journal')[d] = locked[d]
  BY <1>2, <1>4
<1>6. /\ missing \in Int /\ Larger(missing, minShipment[d]) \in Int
      /\ missing > 0 => Larger(missing, minShipment[d]) > 0
      /\ Larger(missing, minShipment[d]) >= minShipment[d]
  BY <1>a, <1>b, SMT DEF Larger
<1>7. /\ locked'[demand'] = locked[d] /\ Minimum' = minShipment[d]
      /\ Requested' = Larger(missing, minShipment[d])
      /\ Excess' = Excess
  BY <1>1, <1>3, SameSolver DEF Requested, Minimum
<1>8. /\ before' = [e \in Demand |-> Pending(e)] /\ before' \in [Demand -> Int]
  <2>1. Final(journal) \in [Demand -> Delivered] /\ committed \in [Demand -> Delivered]
        /\ Delivered \in SUBSET Int
    BY <1>1, LevelType DEF TypeOK
  <2>2. \A e \in Demand : Pending(e) \in Int
    <3> TAKE e \in Demand
    <3>1. Final(journal)[e] \in Int /\ committed[e] \in Int
      BY <2>1
    <3> QED BY <3>1 DEF Pending, Planned
  <2> QED BY <2>2 DEF Solve
<1>9. todo' \in [Demand -> 0..Times]
  <2>1. todo \in [Demand -> 0..Times] /\ todo' = [todo EXCEPT ![d] = @ - 1] /\ todo[d] > 0
    BY <1>1 DEF Solve, TypeOK
  <2>2. todo[d] - 1 \in 0..Times
    BY <1>a, <1>b, <2>1
  <2> QED BY <2>1, <2>2
<1>10. \/ /\ missing <= 0 /\ outcome' = "done" /\ pc' = "idle" /\ plan' = plan
       \/ /\ missing > 0 /\ pc' = "ask"
          /\ plan' = [qty |-> Larger(missing, minShipment[d]), date |-> 0]
       \/ /\ pc' = "failed" /\ plan' = plan
  BY DEF Solve
<1>11. TypeOK'
  <2>1. plan' \in [qty : Int, date : Date]
    <3>1. plan \in [qty : Int, date : Date]
      BY <1>1 DEF TypeOK
    <3> HIDE DEF missing
    <3> QED BY <1>b, <1>6, <1>10, <3>1
  <2>2. pc' \in Place /\ pc' \notin Trying
    BY <1>10, SMT DEF Place, Trying
  <2>3. best' \in [a : Int, q : Int, date : Date]
    BY <1>1, <1>3, SolverType DEF NoOffer
  <2>4. top' \in {Gone} \cup 2..Len(journal')
    BY <1>3, <1>4
  <2> HIDE DEF missing
  <2>5. UNCHANGED <<committed, mark, q_qty, a_qty, next_date, range, remainder, tmpresult>>
    BY <1>3
  <2>6. /\ committed \in Level /\ mark \in Nat /\ next_date \in Date
        /\ range \in [min : Int, max : Int]
        /\ q_qty \in Int /\ a_qty \in Int /\ remainder \in Int /\ tmpresult \in Int
    BY <1>1 DEF TypeOK
  <2> QED BY <1>1, <1>3, <1>4, <1>8, <1>9, <2>1, <2>2, <2>3, <2>4, <2>5, <2>6, KeepsType
<1>12. pc' # "failed" => Planned(demand)' = locked[d]
  BY <1>3, <1>5 DEF Planned
<1>13. CASE missing > 0 /\ pc' = "ask"
  <2>1. plan'.qty = Larger(missing, minShipment[d]) /\ best'.a = 0
    BY <1>3, <1>10, <1>13 DEF NoOffer
  <2>2. Base' = locked[d]
    BY <1>a, <1>6, <1>7, <2>1, SMT DEF Base
  <2>3. Amounts'
    BY <1>a, <1>b, <1>6, <1>7, <1>13, <2>1, SMT DEF Amounts, Under, Looping, Trying
  <2>4. Books' /\ NeverOverplanned'
    BY <1>12, <1>13, <2>2 DEF Books, Trying, NeverOverplanned
  <2> QED BY <1>11, <2>3, <2>4 DEF DemandInv
<1>14. CASE pc' \in {"idle", "failed"}
  <2>1. Amounts' /\ Books'
    BY <1>14 DEF Amounts, Books, Under, Looping, Trying
  <2>2. NeverOverplanned'
    BY <1>a, <1>b, <1>6, <1>7, <1>12, SMT DEF NeverOverplanned, Larger
  <2> QED BY <1>11, <2>1, <2>2 DEF DemandInv
<1> QED BY <1>10, <1>13, <1>14

(* What all questions have in common: what is asked fits into the room,    *)
(* and the journal before the bookmark stays.                              *)
LEMMA Asked ==
  ASSUME TypeOK, Amounts, Under, NEW j \in Seq(Level), j # <<>>, NEW kept \in 1..Len(j),
         Final(j)[demand] = Base, NEW q \in Nat, q <= plan.qty, NEW a \in Answer(q), NEW date,
         Ask(j, kept, q, a, date)
  PROVE  /\ a \in Nat /\ a <= q + Excess
         /\ journal' \in Seq(Level) /\ journal' # <<>>
         /\ Adds(j, a)
         /\ Final(journal')[demand] = Base + a
         /\ top' \in {Gone} \cup 2..Len(journal')
         /\ top # Gone /\ top <= kept => top' = top
         /\ a_qty' = a /\ committed' = committed
<1>1. a \in Nat /\ a <= q + Excess /\ a <= plan.qty + Excess
  <2>1. Excess \in Nat /\ plan.qty \in Int
    BY SolverType, DemandType
  <2> QED BY <2>1, SMT DEF Answer
<1>2. Final(j)[demand] + a \in Delivered
  BY <1>1, Room
<1>3. /\ journal' = IF a > 0 THEN SetBookmark(Decide(j, a)) ELSE j
      /\ top' \in TopAfter(kept, journal')
      /\ a_qty' = a /\ committed' = committed
  BY DEF Ask
<1> QED BY <1>1, <1>2, <1>3, AskIs

LEMMA UntilMark ==
  ASSUME NEW j, NEW x, Len(j) \in Nat, Adds(j, x), mark' \in 2..Len(j)
  PROVE  Until(mark)' = j[mark' - 1] /\ mark' \in 2..Len(journal')
<1>1. Until(mark)' = journal'[mark' - 1]
  BY DEF Until
<1>2. Len(journal') \in Nat /\ Len(j) <= Len(journal')
  BY DEF Adds
<1>3. mark' - 1 \in 1..Len(journal') /\ mark' - 1 < Len(j) /\ mark' \in 2..Len(journal')
  <2>1. \A n \in Nat, k \in Nat : n <= k =>
          \A m \in 2..n : m - 1 \in 1..k /\ m - 1 < n /\ m \in 2..k
    OBVIOUS
  <2> QED BY <1>2, <2>1
<1>4. journal'[mark' - 1] = j[mark' - 1]
  BY <1>3 DEF Adds
<1> QED BY <1>1, <1>3, <1>4

(* The facts that the invariant gives in the planning loop. *)
LEMMA InLoop ==
  ASSUME DemandInv, pc \in Looping
  PROVE  /\ TypeOK /\ Amounts /\ Under
         /\ 0 < plan.qty /\ Minimum <= plan.qty + Excess /\ plan.qty <= Requested
         /\ best.a > 0 => 0 <= best.q /\ best.q <= plan.qty
         /\ Excess \in Nat /\ Minimum \in Nat /\ plan.qty \in Int /\ Requested \in Int
         /\ 0 < Requested
<1>1. TypeOK /\ Amounts /\ Under
  BY DEF DemandInv, Under, Looping, Trying
<1>2. Excess \in Nat /\ Minimum \in Nat /\ plan.qty \in Int /\ Requested \in Int
  BY <1>1, SolverType, DemandType
<1> QED BY <1>1, <1>2 DEF Amounts

(* From a trial, the journal goes back to the bookmark of the loop.        *)
LEMMA InTrial ==
  ASSUME DemandInv, pc \in Trying
  PROVE  /\ mark \in 2..Len(journal) /\ mark \in 1..Len(journal) /\ Until(mark)[demand] = Base
         /\ Until(mark) = journal[mark - 1]
         /\ 0 <= q_qty /\ q_qty <= plan.qty /\ q_qty \in Int
         /\ Truncate(mark) \in Seq(Level) /\ Truncate(mark) # <<>>
         /\ Len(Truncate(mark)) = mark
         /\ Truncate(mark)[mark - 1] = journal[mark - 1]
         /\ Final(Truncate(mark)) = Until(mark)
<1>1. /\ TypeOK /\ mark \in 2..Len(journal) /\ Len(journal) \in Nat
      /\ Until(mark)[demand] = Base
      /\ 0 <= q_qty /\ q_qty <= plan.qty /\ q_qty \in Int
  BY LevelType DEF DemandInv, TypeOK, Books, Amounts
<1>2. mark \in 1..Len(journal) /\ mark - 1 \in 1..(mark - 1) /\ mark # 1
  BY <1>1
<1> QED BY <1>1, <1>2, TruncatedType DEF Until

LEMMA AskAllStep ==
  ASSUME DemandInv, AskAll
  PROVE  DemandInv'
<1>1. pc = "ask" /\ pc \in Looping
  BY DEF AskAll, Looping
<1>2. /\ TypeOK /\ Amounts /\ Under
      /\ 0 < plan.qty /\ Minimum <= plan.qty + Excess /\ plan.qty <= Requested
      /\ best.a > 0 => 0 <= best.q /\ best.q <= plan.qty
      /\ Excess \in Nat /\ Minimum \in Nat /\ plan.qty \in Int /\ Requested \in Int
      /\ 0 < Requested
  BY <1>1, InLoop
<1>3. PICK a \in Answer(plan.qty), date \in Date :
        /\ Ask(SetBookmark(journal), Len(journal), plan.qty, a, date)
        /\ next_date' = date
        /\ pc' = IF a = 0 /\ plan.qty > Minimum /\ Minimum > 0 THEN "minimum" ELSE "evaluate"
  BY DEF AskAll
<1> DEFINE j == SetBookmark(journal)
<1>4. /\ j \in Seq(Level) /\ j # <<>> /\ Len(j) = Len(journal) + 1
      /\ j[Len(journal)] = Final(journal) /\ Final(j) = Final(journal)
      /\ Len(journal) \in 1..Len(j) /\ Len(journal) \in Nat \ {0}
  <2>1. journal \in Seq(Level) /\ journal # <<>>
    BY <1>2 DEF TypeOK
  <2>2. /\ j \in Seq(Level) /\ j # <<>> /\ Len(j) = Len(journal) + 1
        /\ \A i \in 1..Len(journal) : j[i] = journal[i]
        /\ Final(j) = Final(journal) /\ Len(journal) \in Nat \ {0}
    BY <2>1, SetBookmarkIs
  <2>3. Len(journal) \in 1..Len(journal) /\ Len(journal) \in 1..Len(j)
    BY <2>2
  <2> QED BY <2>2, <2>3 DEF Final
<1> HIDE DEF j
<1>5. Final(j)[demand] = Base
  BY <1>1, <1>4 DEF DemandInv, Books, Planned
<1>6. /\ a \in Nat /\ a <= plan.qty + Excess
      /\ journal' \in Seq(Level) /\ journal' # <<>>
      /\ Adds(j, a)
      /\ Final(journal')[demand] = Base + a
      /\ top' \in {Gone} \cup 2..Len(journal')
      /\ a_qty' = a /\ committed' = committed
  <2>1. plan.qty \in Nat /\ plan.qty <= plan.qty /\ Ask(j, Len(journal), plan.qty, a, date)
    BY <1>2, <1>3 DEF j
  <2> QED BY <1>2, <1>4, <1>5, <2>1, Asked
<1>7. /\ mark' = Len(journal) + 1 /\ q_qty' = plan.qty
      /\ UNCHANGED <<model, demand, plan, range, best, remainder, tmpresult, todo, before, outcome>>
  BY DEF AskAll
<1>8. Until(mark)' = Final(journal) /\ mark' \in 2..Len(journal')
  <2>1. mark' \in 2..Len(j) /\ Len(j) \in Nat /\ mark' - 1 = Len(journal)
    BY <1>4, <1>7
  <2> QED BY <1>4, <1>6, <2>1, UntilMark
<1>9. pc' \in {"minimum", "evaluate"} /\ pc' \in Trying
      /\ (pc' = "minimum" => plan.qty > Minimum /\ Minimum > 0)
  BY <1>3, SMT DEF Trying
<1>10. TypeOK'
  <2>1. /\ pc' \in Place /\ mark' \in Nat /\ next_date' \in Date /\ a_qty' \in Int /\ q_qty' \in Int
    BY <1>2, <1>3, <1>4, <1>6, <1>7, <1>9 DEF Place
  <2>2. /\ committed \in Level /\ demand \in Demand /\ plan \in [qty : Int, date : Date]
        /\ remainder \in Int /\ tmpresult \in Int /\ range \in [min : Int, max : Int]
        /\ best \in [a : Int, q : Int, date : Date] /\ todo \in [Demand -> 0..Times]
        /\ before \in [Demand -> Int]
    BY <1>2 DEF TypeOK
  <2> QED BY <1>2, <1>6, <1>7, <1>8, <2>1, <2>2, KeepsType
<1>11. Requested' = Requested /\ Minimum' = Minimum /\ Excess' = Excess /\ Base' = Base
  BY <1>7, SameDemand, SameSolver DEF Base
<1>12. Amounts'
  BY <1>2, <1>6, <1>7, <1>9, <1>11, SMT DEF Amounts, Under, Looping, Trying
<1>13. Books' /\ NeverOverplanned'
  <2>1. Planned(demand)' = Base' + a_qty' /\ Until(mark)'[demand'] = Base'
    BY <1>4, <1>5, <1>6, <1>7, <1>8, <1>11 DEF Planned
  <2> QED BY <1>9, <2>1 DEF Books, NeverOverplanned, Trying
<1> QED BY <1>10, <1>12, <1>13 DEF DemandInv

(* A question after the previous attempt was rolled back. *)
LEMMA Retried ==
  ASSUME DemandInv, pc \in Trying, NEW q \in Nat, q <= plan.qty, NEW a \in Answer(q), NEW date,
         Ask(Truncate(mark), mark, q, a, date),
         UNCHANGED <<model, demand, mark, plan, best>>
  PROVE  /\ a \in Nat /\ a <= q + Excess
         /\ journal' \in Seq(Level) /\ journal' # <<>>
         /\ Adds(Truncate(mark), a)
         /\ top' \in {Gone} \cup 2..Len(journal')
         /\ a_qty' = a /\ committed' = committed
         /\ mark' \in 2..Len(journal') /\ mark' \in Nat
         /\ Requested' = Requested /\ Minimum' = Minimum /\ Excess' = Excess
         /\ Until(mark)'[demand'] = Base' /\ Planned(demand)' = Base' + a_qty'
<1>1. /\ TypeOK /\ Amounts /\ Under
      /\ plan.qty \in Int
  BY InLoop DEF Looping
<1>2. /\ mark \in 2..Len(journal) /\ mark \in 1..Len(journal) /\ Until(mark)[demand] = Base
      /\ Until(mark) = journal[mark - 1]
      /\ Truncate(mark) \in Seq(Level) /\ Truncate(mark) # <<>>
      /\ Len(Truncate(mark)) = mark
      /\ Truncate(mark)[mark - 1] = journal[mark - 1]
      /\ Final(Truncate(mark)) = Until(mark)
  BY InTrial
<1>3. mark \in Nat /\ mark \in 1..mark /\ mark \in 2..mark
  BY <1>2
<1>4. /\ a \in Nat /\ a <= q + Excess
      /\ journal' \in Seq(Level) /\ journal' # <<>>
      /\ Adds(Truncate(mark), a)
      /\ Final(journal')[demand] = Base + a
      /\ top' \in {Gone} \cup 2..Len(journal')
      /\ a_qty' = a /\ committed' = committed
  BY <1>1, <1>2, <1>3, Asked
<1>5. Until(mark)' = Until(mark) /\ mark' \in 2..Len(journal')
  <2>1. mark' \in 2..Len(Truncate(mark)) /\ Len(Truncate(mark)) \in Nat
    BY <1>2, <1>3
  <2> QED BY <1>2, <1>4, <2>1, UntilMark
<1>6. Requested' = Requested /\ Minimum' = Minimum /\ Excess' = Excess /\ Base' = Base
  BY SameDemand, SameSolver DEF Base
<1> QED BY <1>2, <1>3, <1>4, <1>5, <1>6 DEF Planned

(* The types that such a step leaves alone. *)
LEMMA RestType ==
  ASSUME TypeOK
  PROVE  /\ committed \in Level /\ demand \in Demand /\ mark \in Nat
         /\ plan \in [qty : Int, date : Date]
         /\ q_qty \in Int /\ a_qty \in Int /\ remainder \in Int /\ tmpresult \in Int
         /\ next_date \in Date /\ range \in [min : Int, max : Int]
         /\ best \in [a : Int, q : Int, date : Date] /\ todo \in [Demand -> 0..Times]
         /\ before \in [Demand -> Int]
         /\ journal \in Seq(Level) /\ journal # <<>> /\ top \in {Gone} \cup 2..Len(journal)
         /\ \A d \in Date, e \in Date : Smaller(d, e) \in Date
BY DEF TypeOK, Smaller

LEMMA AskMinimumStep ==
  ASSUME DemandInv, AskMinimum
  PROVE  DemandInv'
<1>1. pc = "minimum" /\ pc \in Trying /\ pc \in Looping
  BY DEF AskMinimum, Looping, Trying
<1>2. /\ TypeOK /\ Amounts /\ Under
      /\ 0 < plan.qty /\ Minimum <= plan.qty + Excess /\ plan.qty <= Requested
      /\ best.a > 0 => 0 <= best.q /\ best.q <= plan.qty
      /\ Excess \in Nat /\ Minimum \in Nat /\ plan.qty \in Int /\ Requested \in Int
      /\ 0 < Requested
  BY <1>1, InLoop
<1>3. 0 < Minimum /\ Minimum < plan.qty
  BY <1>1, <1>2 DEF Amounts
<1>4. PICK a \in Answer(Minimum), date \in Date :
        /\ Ask(Truncate(mark), mark, Minimum, a, date)
        /\ next_date' = Smaller(date, next_date)
        /\ pc' = IF a > 0 THEN "search" ELSE "evaluate"
  BY DEF AskMinimum
<1>5. /\ range' = [min |-> Minimum, max |-> plan.qty]
      /\ UNCHANGED <<model, demand, mark, plan, q_qty, best, remainder, tmpresult, todo, before,
                     outcome>>
  BY DEF AskMinimum
<1>6. /\ a \in Nat /\ a <= Minimum + Excess
      /\ journal' \in Seq(Level) /\ journal' # <<>>
      /\ top' \in {Gone} \cup 2..Len(journal')
      /\ a_qty' = a /\ committed' = committed
      /\ mark' \in 2..Len(journal') /\ mark' \in Nat
      /\ Requested' = Requested /\ Minimum' = Minimum /\ Excess' = Excess
      /\ Until(mark)'[demand'] = Base' /\ Planned(demand)' = Base' + a_qty'
  BY <1>1, <1>2, <1>3, <1>4, <1>5, Retried
<1>7. pc' \in {"search", "evaluate"} /\ pc' \in Place
  BY <1>4 DEF Place, Trying
<1>8. TypeOK'
  <2>1. range' \in [min : Int, max : Int] /\ next_date' \in Date /\ a_qty' \in Int
    BY <1>2, <1>4, <1>5, <1>6, RestType
  <2> QED BY <1>2, <1>5, <1>6, <1>7, <2>1, RestType, KeepsType
<1>9. Amounts'
  <2>1. range'.min = Minimum /\ range'.max = plan.qty /\ q_qty \in Int /\ 0 <= q_qty /\ q_qty <= plan.qty
    BY <1>1, <1>5, InTrial
  <2> QED BY <1>2, <1>3, <1>5, <1>6, <1>7, <2>1, SMT DEF Amounts, Under, Looping, Trying
<1>10. Books' /\ NeverOverplanned'
  BY <1>6, <1>7 DEF Books, NeverOverplanned, Trying
<1> QED BY <1>8, <1>9, <1>10 DEF DemandInv

(* What the search asks lies in its range.                                 *)
LEMMA Narrows ==
  ASSUME range.min \in Int, range.max \in Int, Threshold \in Nat, Searching
  PROVE  NewQuantity \in Int /\ range.min < NewQuantity /\ NewQuantity <= range.max
BY SMT DEF Searching, NewQuantity

LEMMA AskBetweenStep ==
  ASSUME DemandInv, AskBetween
  PROVE  DemandInv'
<1>1. pc = "search" /\ pc \in Trying /\ pc \in Looping /\ Searching
  BY DEF AskBetween, Looping, Trying
<1>2. /\ TypeOK /\ Amounts /\ Under
      /\ 0 < plan.qty /\ Minimum <= plan.qty + Excess /\ plan.qty <= Requested
      /\ best.a > 0 => 0 <= best.q /\ best.q <= plan.qty
      /\ Excess \in Nat /\ Minimum \in Nat /\ plan.qty \in Int /\ Requested \in Int
      /\ 0 < Requested
  BY <1>1, InLoop
<1>3. /\ 0 <= range.min /\ range.min <= range.max /\ range.max <= plan.qty
      /\ range.min \in Int /\ range.max \in Int /\ range \in [min : Int, max : Int]
      /\ NewQuantity \in Nat /\ range.min < NewQuantity /\ NewQuantity <= range.max
      /\ NewQuantity <= plan.qty
  <2>1. /\ 0 <= range.min /\ range.min <= range.max /\ range.max <= plan.qty
        /\ range.min \in Int /\ range.max \in Int /\ Threshold \in Nat
        /\ range \in [min : Int, max : Int]
    BY <1>1, <1>2, DemandType, SolverType, RestType DEF Amounts
  <2>2. NewQuantity \in Int /\ range.min < NewQuantity /\ NewQuantity <= range.max
    BY <1>1, <2>1, Narrows
  <2> QED BY <1>2, <2>1, <2>2
<1>4. PICK a \in Answer(NewQuantity), date \in Date :
        /\ Ask(Truncate(mark), mark, NewQuantity, a, date)
        /\ next_date' = Smaller(date, next_date)
        /\ range' = IF a > 0 THEN [range EXCEPT !.min = NewQuantity]
                    ELSE [range EXCEPT !.max = NewQuantity]
  BY DEF AskBetween
<1>5. UNCHANGED <<model, pc, demand, mark, plan, q_qty, best, remainder, tmpresult, todo, before,
                  outcome>>
  BY DEF AskBetween
<1>6. /\ a \in Nat /\ a <= NewQuantity + Excess
      /\ journal' \in Seq(Level) /\ journal' # <<>>
      /\ top' \in {Gone} \cup 2..Len(journal')
      /\ a_qty' = a /\ committed' = committed
      /\ mark' \in 2..Len(journal') /\ mark' \in Nat
      /\ Requested' = Requested /\ Minimum' = Minimum /\ Excess' = Excess
      /\ Until(mark)'[demand'] = Base' /\ Planned(demand)' = Base' + a_qty'
  BY <1>1, <1>3, <1>4, <1>5, Retried
<1>7. /\ range' \in [min : Int, max : Int]
      /\ 0 <= range'.min /\ range'.min <= range'.max /\ range'.max <= plan.qty
  <2>1. CASE a > 0
    <3>1. range' = [min |-> NewQuantity, max |-> range.max]
      BY <1>3, <1>4, <2>1
    <3> QED BY <1>3, <3>1
  <2>2. CASE a = 0
    <3>1. range' = [min |-> range.min, max |-> NewQuantity]
      BY <1>3, <1>4, <2>2
    <3> QED BY <1>3, <3>1
  <2> QED BY <1>6, <2>1, <2>2
<1>8. TypeOK'
  <2>1. next_date' \in Date /\ a_qty' \in Int /\ pc' \in Place
    BY <1>1, <1>2, <1>4, <1>5, <1>6, RestType DEF Place
  <2> QED BY <1>2, <1>5, <1>6, <1>7, <2>1, RestType, KeepsType
<1>9. Amounts'
  <2>1. q_qty \in Int /\ 0 <= q_qty /\ q_qty <= plan.qty
    BY <1>1, InTrial
  <2> QED BY <1>1, <1>2, <1>3, <1>5, <1>6, <1>7, <2>1, SMT DEF Amounts, Under, Looping, Trying
<1>10. Books' /\ NeverOverplanned'
  BY <1>1, <1>5, <1>6 DEF Books, NeverOverplanned, Trying
<1> QED BY <1>8, <1>9, <1>10 DEF DemandInv

LEMMA SearchEndsStep ==
  ASSUME DemandInv, SearchEnds
  PROVE  DemandInv'
<1>1. /\ pc = "search" /\ pc \in Trying /\ pc \in Looping
      /\ pc' = IF a_qty = 0 THEN "restore" ELSE "evaluate"
      /\ q_qty' = range.min
      /\ UNCHANGED <<committed, journal, top, model, demand, mark, plan, a_qty, next_date, range,
                     best, remainder, tmpresult, todo, before, outcome>>
  BY DEF SearchEnds, KeepJournal, Looping, Trying
<1>2. /\ TypeOK /\ Amounts /\ Under
      /\ 0 < plan.qty /\ Minimum <= plan.qty + Excess /\ plan.qty <= Requested
      /\ best.a > 0 => 0 <= best.q /\ best.q <= plan.qty
      /\ Excess \in Nat /\ Minimum \in Nat /\ plan.qty \in Int /\ Requested \in Int
      /\ 0 < Requested
  BY <1>1, InLoop
<1>3. /\ 0 <= range.min /\ range.min <= range.max /\ range.max <= plan.qty
      /\ range.min \in Int /\ range.max \in Int
      /\ 0 <= a_qty /\ a_qty <= plan.qty + Excess /\ a_qty \in Int
  BY <1>1, <1>2, DemandType DEF Amounts
<1>4. pc' \in {"restore", "evaluate"} /\ pc' \in Place /\ mark' \in 2..Len(journal')
  BY <1>1, InTrial DEF Place, Trying
<1>5. TypeOK'
  BY <1>1, <1>2, <1>3, <1>4, RestType, KeepsType
<1>6. Requested' = Requested /\ Minimum' = Minimum /\ Excess' = Excess /\ Base' = Base
  BY <1>1, SameDemand, SameSolver DEF Base
<1>7. Amounts'
  BY <1>1, <1>2, <1>3, <1>4, <1>6, SMT DEF Amounts, Under, Looping, Trying
<1>8. Books' /\ NeverOverplanned'
  <2>1. Planned(demand)' = Base' + a_qty' /\ Until(mark)'[demand'] = Base'
    BY <1>1, <1>6, InTrial DEF DemandInv, Books, Planned, Until
  <2> QED BY <1>4, <2>1 DEF Books, NeverOverplanned, Trying
<1> QED BY <1>5, <1>7, <1>8 DEF DemandInv

LEMMA AskRestoreStep ==
  ASSUME DemandInv, AskRestore
  PROVE  DemandInv'
<1>1. pc = "restore" /\ pc \in Trying /\ pc \in Looping
  BY DEF AskRestore, Looping, Trying
<1>2. /\ TypeOK /\ Amounts /\ Under
      /\ 0 < plan.qty /\ Minimum <= plan.qty + Excess /\ plan.qty <= Requested
      /\ best.a > 0 => 0 <= best.q /\ best.q <= plan.qty
      /\ Excess \in Nat /\ Minimum \in Nat /\ plan.qty \in Int /\ Requested \in Int
      /\ 0 < Requested
  BY <1>1, InLoop
<1>3. /\ range.min \in Nat /\ range.min <= plan.qty
      /\ q_qty \in Int /\ 0 <= q_qty /\ q_qty <= plan.qty
  <2>1. /\ 0 <= range.min /\ range.min <= range.max /\ range.max <= plan.qty
        /\ range.min \in Int /\ range.max \in Int
    BY <1>1, <1>2, DemandType DEF Amounts
  <2>2. q_qty \in Int /\ 0 <= q_qty /\ q_qty <= plan.qty
    BY <1>1, InTrial
  <2> QED BY <1>2, <2>1, <2>2
<1>4. PICK a \in Answer(range.min), date \in Date : Ask(Truncate(mark), mark, range.min, a, date)
  BY DEF AskRestore
<1>5. /\ pc' = "evaluate"
      /\ UNCHANGED <<model, demand, mark, plan, q_qty, next_date, range, best, remainder,
                     tmpresult, todo, before, outcome>>
  BY DEF AskRestore
<1>6. /\ a \in Nat /\ a <= range.min + Excess
      /\ journal' \in Seq(Level) /\ journal' # <<>>
      /\ top' \in {Gone} \cup 2..Len(journal')
      /\ a_qty' = a /\ committed' = committed
      /\ mark' \in 2..Len(journal') /\ mark' \in Nat
      /\ Requested' = Requested /\ Minimum' = Minimum /\ Excess' = Excess
      /\ Until(mark)'[demand'] = Base' /\ Planned(demand)' = Base' + a_qty'
  BY <1>1, <1>3, <1>4, <1>5, Retried
<1>7. TypeOK'
  <2>1. a_qty' \in Int /\ pc' \in Place
    BY <1>5, <1>6 DEF Place, Trying
  <2> QED BY <1>2, <1>5, <1>6, <2>1, RestType, KeepsType
<1>8. Amounts'
  BY <1>2, <1>3, <1>5, <1>6, SMT DEF Amounts, Under, Looping, Trying
<1>9. Books' /\ NeverOverplanned'
  BY <1>5, <1>6 DEF Books, NeverOverplanned, Trying
<1> QED BY <1>7, <1>8, <1>9 DEF DemandInv

-----------------------------------------------------------------------------
(* Exceptions. *)

LEMMA Thrown ==
  ASSUME TypeOK, NEW j \in Seq(Level), j # <<>>, NEW kept \in 1..Len(j), NEW q \in Int,
         \A x \in 0..q : Final(j)[demand] + x \in Delivered, Throw(j, kept, q)
  PROVE  /\ DemandInv' /\ pc' = "failed" /\ Failures
         /\ UNCHANGED <<model, committed, demand, todo, before>>
         /\ \E x \in 0..q : Adds(j, x)
         /\ top # Gone /\ top <= kept => top' = top
<1>1. PICK x \in 0..q : journal' = SetBookmark(Decide(j, x))
  BY DEF Throw
<1>2. /\ top' \in TopAfter(kept, journal')
      /\ pc' = "failed" /\ Failures
      /\ UNCHANGED <<model, committed, demand, mark, plan, q_qty, a_qty, next_date, range, best,
                     remainder, tmpresult, todo, before, outcome>>
  BY DEF Throw, local
<1>3. /\ journal' \in Seq(Level) /\ journal' # <<>> /\ Adds(j, x) /\ Len(journal') = Len(j) + 1
  BY <1>1, DecideAndSet
<1>4. Len(journal') \in Nat /\ kept \in 1..Len(journal')
  BY <1>3, FinalIs
<1>5. top' \in {Gone} \cup 2..Len(journal') /\ (top # Gone /\ top <= kept => top' = top)
  BY <1>2, <1>4, TopIs
<1>6. TypeOK'
  <2>1. pc' \in Place /\ pc' \notin Trying
    BY <1>2 DEF Place, Trying
  <2> QED BY <1>2, <1>3, <1>5, <2>1, RestType, KeepsType
<1>7. Amounts' /\ Books' /\ NeverOverplanned'
  BY <1>2 DEF Amounts, Books, NeverOverplanned, Under, Looping, Trying
<1> QED BY <1>2, <1>3, <1>5, <1>6, <1>7 DEF DemandInv

LEMMA AskAllThrowsStep ==
  ASSUME DemandInv, AskAllThrows
  PROVE  /\ DemandInv' /\ pc' = "failed" /\ Failures
         /\ UNCHANGED <<model, committed, demand, todo, before>>
         /\ \E x \in 0..plan.qty : Adds(SetBookmark(journal), x)
         /\ top # Gone /\ top <= Len(journal) => top' = top
<1>1. pc = "ask" /\ pc \in Looping /\ Throw(SetBookmark(journal), Len(journal), plan.qty)
  BY DEF AskAllThrows, Looping
<1>2. /\ TypeOK /\ Amounts /\ Under /\ plan.qty \in Int /\ Excess \in Nat
  BY <1>1, InLoop
<1>3. /\ SetBookmark(journal) \in Seq(Level) /\ SetBookmark(journal) # <<>>
      /\ Len(SetBookmark(journal)) = Len(journal) + 1
      /\ Final(SetBookmark(journal)) = Final(journal)
      /\ Len(journal) \in Nat \ {0}
  BY <1>2, RestType, SetBookmarkIs
<1>4. Len(journal) \in 1..Len(SetBookmark(journal))
  BY <1>3
<1>5. Final(journal)[demand] = Base
  BY <1>1 DEF DemandInv, Books, Planned
<1>6. \A x \in 0..plan.qty : Base + x \in Delivered
  BY <1>2, Room
<1> QED BY <1>1, <1>2, <1>3, <1>4, <1>5, <1>6, Thrown

LEMMA AskAgainThrowsStep ==
  ASSUME DemandInv, AskAgainThrows
  PROVE  /\ DemandInv' /\ pc' = "failed" /\ Failures
         /\ pc \in Trying
         /\ UNCHANGED <<model, committed, demand, todo, before>>
         /\ \E x \in 0..plan.qty : Adds(Truncate(mark), x)
         /\ top # Gone /\ top <= mark => top' = top
<1>1. PICK q \in {Minimum, NewQuantity, range.min} :
        /\ \/ pc = "minimum" /\ q = Minimum
           \/ pc = "search" /\ Searching /\ q = NewQuantity
           \/ pc = "restore" /\ q = range.min
        /\ Throw(Truncate(mark), mark, q)
  <2>1. CASE pc = "minimum"
    BY <2>1 DEF AskAgainThrows
  <2>2. CASE pc = "search" /\ Searching
    BY <2>2 DEF AskAgainThrows
  <2>3. CASE pc = "restore"
    BY <2>3 DEF AskAgainThrows
  <2>4. CASE ~(pc = "minimum" \/ (pc = "search" /\ Searching) \/ pc = "restore")
    BY <2>4 DEF AskAgainThrows
  <2> QED BY <2>1, <2>2, <2>3, <2>4
<1>2. pc \in Trying /\ pc \in Looping
  BY <1>1 DEF Looping, Trying
<1>3. /\ TypeOK /\ Amounts /\ Under /\ plan.qty \in Int /\ Excess \in Nat /\ Minimum \in Nat
  BY <1>2, InLoop
<1>4. q \in Int /\ q <= plan.qty
  <2>1. CASE pc = "minimum" /\ q = Minimum
    BY <1>3, <2>1 DEF Amounts
  <2>2. CASE pc = "search" /\ Searching /\ q = NewQuantity
    <3>1. /\ range.min \in Int /\ range.max \in Int /\ Threshold \in Nat /\ range.max <= plan.qty
      BY <1>3, <2>2, DemandType, SolverType DEF Amounts
    <3>2. NewQuantity \in Int /\ NewQuantity <= range.max
      BY <2>2, <3>1, Narrows
    <3> QED BY <1>3, <2>2, <3>1, <3>2
  <2>3. CASE pc = "restore" /\ q = range.min
    <3>1. /\ range.min \in Int /\ range.max \in Int /\ range.min <= range.max
          /\ range.max <= plan.qty
      BY <1>3, <2>3, DemandType DEF Amounts
    <3> QED BY <1>3, <2>3, <3>1
  <2> QED BY <1>1, <2>1, <2>2, <2>3
<1>5. /\ Truncate(mark) \in Seq(Level) /\ Truncate(mark) # <<>>
      /\ Len(Truncate(mark)) = mark /\ mark \in 2..Len(journal)
      /\ Final(Truncate(mark))[demand] = Base
  BY <1>2, InTrial
<1>6. mark \in 1..Len(Truncate(mark))
  BY <1>5
<1>7. \A x \in 0..q : Base + x \in Delivered /\ x \in 0..plan.qty
  BY <1>3, <1>4, Room
<1> QED BY <1>1, <1>2, <1>3, <1>4, <1>5, <1>6, <1>7, Thrown

-----------------------------------------------------------------------------
(* The answer. *)

LEMMA Undone ==
  ASSUME DemandInv, pc \in Trying, UndoAnswer, UNCHANGED <<model, committed, demand, mark>>
  PROVE  /\ journal' \in Seq(Level) /\ journal' # <<>> /\ committed' \in Level
         /\ top' \in {Gone} \cup 2..Len(journal')
         /\ top # Gone /\ top <= mark => top' = top
         /\ mark' \in 2..Len(journal') /\ mark' \in Nat
         /\ Requested' = Requested /\ Minimum' = Minimum /\ Excess' = Excess
         /\ Planned(demand)' = Base /\ Until(mark)'[demand'] = Base
<1>1. /\ mark \in 2..Len(journal) /\ Until(mark)[demand] = Base
      /\ Until(mark) = journal[mark - 1]
      /\ Truncate(mark) \in Seq(Level) /\ Truncate(mark) # <<>>
      /\ Len(Truncate(mark)) = mark
      /\ Truncate(mark)[mark - 1] = journal[mark - 1]
      /\ Final(Truncate(mark)) = Until(mark)
  BY InTrial
<1>2. journal' = Truncate(mark) /\ top' \in TopAfter(mark, journal') /\ TypeOK
  BY DEF UndoAnswer, DemandInv
<1>3. Len(journal') \in Nat /\ mark \in 1..Len(journal') /\ mark \in 2..Len(journal')
      /\ mark \in Nat /\ mark # 1
  BY <1>1, <1>2
<1>4. top' \in {Gone} \cup 2..Len(journal') /\ (top # Gone /\ top <= mark => top' = top)
  BY <1>2, <1>3, TopIs
<1>5. Requested' = Requested /\ Minimum' = Minimum /\ Excess' = Excess
  BY SameDemand, SameSolver
<1>6. Planned(demand)' = Base /\ Until(mark)'[demand'] = Base
  BY <1>1, <1>2, <1>3, <1>5 DEF Planned, Until
<1> QED BY <1>1, <1>2, <1>3, <1>4, <1>5, <1>6, RestType

LEMMA RefuseStep ==
  ASSUME DemandInv, Refuse
  PROVE  DemandInv'
<1>1. pc = "evaluate" /\ pc \in Trying /\ pc \in Looping /\ UndoAnswer
  BY DEF Refuse, Looping, Trying
<1>2. /\ TypeOK /\ Amounts /\ Under
      /\ 0 < plan.qty /\ Minimum <= plan.qty + Excess /\ plan.qty <= Requested
      /\ best.a > 0 => 0 <= best.q /\ best.q <= plan.qty
      /\ Excess \in Nat /\ Minimum \in Nat /\ plan.qty \in Int /\ Requested \in Int
      /\ 0 < Requested
  BY <1>1, InLoop
<1>3. UNCHANGED <<model, committed, demand, mark, q_qty, a_qty, next_date, range, remainder,
                  tmpresult, todo, before, outcome>>
  BY DEF Refuse
<1>4. /\ plan' \in [qty : Int, date : Date] /\ plan'.qty = plan.qty
  <2>1. plan \in [qty : Int, date : Date] /\ next_date \in Date /\ plan.date \in Nat
        /\ Date = 0..MaxLateness /\ MaxLateness \in Nat
    BY <1>2, RestType, SolverType, DemandType DEF Date
  <2>2. \/ plan' = [plan EXCEPT !.date = Smaller(plan.date + 1, MaxLateness)]
        \/ plan' = [plan EXCEPT !.date = next_date]
    BY DEF Refuse
  <2>3. Smaller(plan.date + 1, MaxLateness) \in Date
    BY <2>1, SMT DEF Smaller
  <2> QED BY <2>1, <2>2, <2>3
<1>5. /\ best' \in [a : Int, q : Int, date : Date]
      /\ best'.a > 0 => 0 <= best'.q /\ best'.q <= plan.qty
  <2>1. /\ best \in [a : Int, q : Int, date : Date] /\ a_qty \in Int /\ q_qty \in Int
        /\ plan.date \in Date /\ 0 <= q_qty /\ q_qty <= plan.qty
    BY <1>1, <1>2, RestType, DemandType, InTrial
  <2>2. best' = best \/ best' = [a |-> a_qty, q |-> q_qty, date |-> plan.date]
    BY DEF Refuse
  <2> QED BY <1>2, <2>1, <2>2
<1>6. pc' \in {"ask", "loopEnd"} /\ (pc' = "ask" => plan'.qty > 0)
  BY DEF Refuse, More
<1>7. /\ journal' \in Seq(Level) /\ journal' # <<>> /\ committed' \in Level
      /\ top' \in {Gone} \cup 2..Len(journal')
      /\ Requested' = Requested /\ Minimum' = Minimum /\ Excess' = Excess
      /\ Planned(demand)' = Base
  BY <1>1, <1>3, Undone
<1>8. TypeOK'
  <2>1. pc' \in Place /\ pc' \notin Trying
    BY <1>6 DEF Place, Trying
  <2> QED BY <1>2, <1>3, <1>4, <1>5, <1>7, <2>1, RestType, KeepsType
<1>9. Amounts'
  BY <1>2, <1>4, <1>5, <1>6, <1>7, SMT DEF Amounts, Under, Looping, Trying
<1>10. Books' /\ NeverOverplanned'
  <2>1. Planned(demand)' = Base'
    BY <1>3, <1>4, <1>7, SameDemand DEF Base
  <2> QED BY <1>6, <2>1 DEF Books, NeverOverplanned, Trying
<1> QED BY <1>8, <1>9, <1>10 DEF DemandInv

LEMMA CoordinateStep ==
  ASSUME DemandInv, Coordinate
  PROVE  DemandInv'
<1>1. /\ pc = "evaluate" /\ pc \in Trying /\ pc \in Looping /\ UndoAnswer
      /\ ~Refused /\ a_qty < q_qty
      /\ pc' = "coordinate" /\ remainder' = a_qty /\ tmpresult' = 0
      /\ UNCHANGED <<model, committed, demand, mark, plan, q_qty, a_qty, next_date, range, best,
                     todo, before, outcome>>
  BY DEF Coordinate, Looping, Trying
<1>2. /\ TypeOK /\ Amounts /\ Under
      /\ 0 < plan.qty /\ Minimum <= plan.qty + Excess /\ plan.qty <= Requested
      /\ best.a > 0 => 0 <= best.q /\ best.q <= plan.qty
      /\ Excess \in Nat /\ Minimum \in Nat /\ plan.qty \in Int /\ Requested \in Int
      /\ 0 < Requested
  BY <1>1, InLoop
<1>3. /\ 0 <= a_qty /\ a_qty \in Int /\ q_qty \in Int /\ 0 <= q_qty /\ q_qty <= plan.qty
  BY <1>1, <1>2, DemandType, InTrial DEF Amounts
<1>4. 0 < a_qty /\ a_qty + Minimum <= plan.qty
  BY <1>1, <1>2, <1>3, SMT DEF Refused, LeavesTooLittle
<1>5. /\ journal' \in Seq(Level) /\ journal' # <<>> /\ committed' \in Level
      /\ top' \in {Gone} \cup 2..Len(journal')
      /\ mark' \in 2..Len(journal') /\ mark' \in Nat
      /\ Requested' = Requested /\ Minimum' = Minimum /\ Excess' = Excess /\ Base' = Base
      /\ Planned(demand)' = Base /\ Until(mark)'[demand'] = Base
  BY <1>1, Undone, SameDemand DEF Base
<1>6. TypeOK'
  <2>1. pc' \in Place /\ remainder' \in Int /\ tmpresult' \in Int
    BY <1>1, <1>3 DEF Place, Trying
  <2> QED BY <1>1, <1>2, <1>5, <2>1, RestType, KeepsType
<1>7. Amounts'
  BY <1>1, <1>2, <1>3, <1>4, <1>5, SMT DEF Amounts, Under, Looping, Trying
<1>8. Books' /\ NeverOverplanned'
  <2>1. Base' \in Int /\ Base' + 0 = Base'
    BY <1>2, <1>5, DemandType
  <2> QED BY <1>1, <1>5, <2>1 DEF Books, NeverOverplanned, Trying
<1> QED BY <1>6, <1>7, <1>8 DEF DemandInv

(* The part of the answer that the coordination run has not planned yet is *)
(* asked for: there is room for it.                                        *)
LEMMA InPart ==
  ASSUME DemandInv, pc = "coordinate"
  PROVE  /\ TypeOK /\ Excess \in Nat /\ Minimum \in Nat /\ plan.qty \in Int
         /\ remainder \in Int /\ tmpresult \in Int /\ a_qty \in Int
         /\ 0 < remainder /\ 0 <= tmpresult /\ tmpresult + remainder = a_qty
         /\ a_qty + Minimum <= plan.qty
         /\ Planned(demand) = Base + tmpresult /\ Base \in Nat
         /\ \A x \in 0..(remainder + Excess) : Final(journal)[demand] + x \in Delivered
<1>1. pc \in Looping
  BY DEF Looping, Trying
<1>2. TypeOK /\ Amounts /\ Under /\ Excess \in Nat /\ Minimum \in Nat /\ plan.qty \in Int
  BY <1>1, InLoop
<1>3. /\ 0 < remainder /\ 0 <= tmpresult /\ tmpresult + remainder = a_qty
      /\ a_qty + Minimum <= plan.qty
  BY <1>2 DEF Amounts
<1>4. Planned(demand) = Base + tmpresult
  BY DEF DemandInv, Books
<1>5. remainder \in Int /\ tmpresult \in Int /\ a_qty \in Int
  BY <1>2, DemandType
<1>6. Base \in Nat /\ \A x \in Nat : x <= plan.qty + Excess => Base + x \in Delivered
  BY <1>2, Room
<1>7. \A x \in 0..(remainder + Excess) : Final(journal)[demand] + x \in Delivered
  <2> TAKE x \in 0..(remainder + Excess)
  <2>1. /\ tmpresult + x \in Nat /\ tmpresult + x <= plan.qty + Excess
        /\ Base + tmpresult + x = Base + (tmpresult + x)
    BY <1>2, <1>3, <1>5, <1>6
  <2> QED BY <1>4, <1>6, <2>1 DEF Planned
<1> QED BY <1>2, <1>3, <1>4, <1>5, <1>6, <1>7

LEMMA AskPartStep ==
  ASSUME DemandInv, AskPart
  PROVE  DemandInv'
<1>1. /\ pc = "coordinate" /\ pc \in Trying
      /\ UNCHANGED <<model, committed, demand, mark, plan, q_qty, next_date, range, best, todo,
                     before, outcome>>
  BY DEF AskPart, Trying
<1>2. PICK a \in Answer(remainder) :
        /\ journal' = IF a > 0 THEN SetBookmark(Decide(journal, a)) ELSE journal
        /\ top' \in TopAfter(Len(journal), journal')
        /\ remainder' = remainder - a
        /\ tmpresult' = tmpresult + a
        /\ IF a = 0 \/ remainder' <= 0
           THEN /\ a_qty' = tmpresult'
                /\ pc' = IF tmpresult' = 0 THEN "loopEnd" ELSE "accept"
           ELSE UNCHANGED <<a_qty, pc>>
  BY DEF AskPart
<1>3. /\ TypeOK /\ Excess \in Nat /\ Minimum \in Nat /\ plan.qty \in Int
      /\ remainder \in Int /\ tmpresult \in Int /\ a_qty \in Int
      /\ 0 < remainder /\ 0 <= tmpresult /\ tmpresult + remainder = a_qty
      /\ a_qty + Minimum <= plan.qty
      /\ Planned(demand) = Base + tmpresult /\ Base \in Nat
      /\ Final(journal)[demand] + a \in Delivered
  BY <1>1, InPart DEF Answer
<1>4. a \in Nat /\ a <= remainder + Excess
  BY <1>3 DEF Answer
<1>5. journal \in Seq(Level) /\ journal # <<>> /\ Len(journal) \in Nat \ {0}
      /\ Len(journal) \in 1..Len(journal)
  BY <1>3, RestType, LevelType
<1>6. /\ journal' \in Seq(Level) /\ journal' # <<>>
      /\ Adds(journal, a)
      /\ Final(journal')[demand] = Final(journal)[demand] + a
      /\ top' \in {Gone} \cup 2..Len(journal')
  BY <1>2, <1>3, <1>4, <1>5, AskIs
<1>7. mark \in 2..Len(journal) /\ Until(mark)[demand] = Base /\ Until(mark) = journal[mark - 1]
  BY <1>1, InTrial
<1>8. Until(mark)' = journal[mark - 1] /\ mark' \in 2..Len(journal') /\ mark' \in Nat
  <2>1. mark' \in 2..Len(journal) /\ mark' = mark
    BY <1>1, <1>7
  <2> QED BY <1>5, <1>6, <2>1, UntilMark
<1>9. Requested' = Requested /\ Minimum' = Minimum /\ Excess' = Excess /\ Base' = Base
  BY <1>1, SameDemand, SameSolver DEF Base
<1>10. /\ Planned(demand)' = Base' + tmpresult' /\ Until(mark)'[demand'] = Base'
       /\ Base' \in Nat /\ tmpresult' \in Nat /\ remainder' \in Int
  <2>1. Planned(demand)' = Planned(demand) + a
    BY <1>1, <1>6 DEF Planned
  <2>2. Base + tmpresult + a = Base + (tmpresult + a) /\ tmpresult + a \in Nat
    BY <1>3, <1>4
  <2>3. remainder - a \in Int
    BY <1>3, <1>4
  <2> QED BY <1>1, <1>2, <1>3, <1>7, <1>8, <1>9, <2>1, <2>2, <2>3
<1>11. \/ pc' = "loopEnd" /\ a_qty' = 0 /\ tmpresult' = 0
       \/ pc' = "accept" /\ a_qty' = tmpresult' /\ tmpresult' > 0
       \/ pc' = "coordinate" /\ a_qty' = a_qty /\ remainder' > 0
  <2>1. remainder' \in Int /\ tmpresult' \in Nat
    BY <1>10
  <2>2. CASE a = 0 \/ remainder' <= 0
    <3>1. a_qty' = tmpresult' /\ pc' = IF tmpresult' = 0 THEN "loopEnd" ELSE "accept"
      BY <1>2, <2>2
    <3> QED BY <2>1, <3>1
  <2>3. CASE ~(a = 0 \/ remainder' <= 0)
    <3>1. UNCHANGED <<a_qty, pc>>
      BY <1>2, <2>3
    <3> QED BY <1>1, <2>1, <2>3, <3>1
  <2> QED BY <2>2, <2>3
<1>12. TypeOK'
  <2>1. pc' \in Place /\ a_qty' \in Int
    BY <1>3, <1>10, <1>11 DEF Place, Trying
  <2>2. tmpresult' \in Int
    BY <1>10
  <2> QED BY <1>1, <1>3, <1>6, <1>8, <1>10, <2>1, <2>2, RestType, KeepsType
<1>13. Amounts'
  <2>1. /\ 0 < plan.qty /\ Minimum <= plan.qty + Excess /\ plan.qty <= Requested
        /\ best.a > 0 => 0 <= best.q /\ best.q <= plan.qty
        /\ 0 < Requested /\ 0 <= q_qty /\ q_qty <= plan.qty
    BY <1>1, InLoop, InTrial DEF Looping
  <2>2. /\ best' = best /\ plan' = plan /\ q_qty' = q_qty
        /\ remainder' = remainder - a /\ tmpresult' = tmpresult + a
    BY <1>1, <1>2
  <2>3. /\ Excess \in Nat /\ Minimum \in Nat /\ plan.qty \in Int
        /\ remainder \in Int /\ tmpresult \in Int /\ a_qty \in Int
        /\ 0 < remainder /\ 0 <= tmpresult /\ tmpresult + remainder = a_qty
        /\ a_qty + Minimum <= plan.qty
        /\ Requested' = Requested /\ Minimum' = Minimum /\ Excess' = Excess
    BY <1>3, <1>9
  <2>4. CASE pc' = "loopEnd" /\ a_qty' = 0 /\ tmpresult' = 0
    BY <2>1, <2>2, <2>3, <2>4, SMT DEF Amounts, Under, Looping, Trying
  <2>5. CASE pc' = "accept" /\ a_qty' = tmpresult' /\ tmpresult' > 0
    BY <1>4, <2>1, <2>2, <2>3, <2>5, SMT DEF Amounts, Under, Looping, Trying
  <2>6. CASE pc' = "coordinate" /\ a_qty' = a_qty /\ remainder' > 0
    BY <1>4, <2>1, <2>2, <2>3, <2>6, SMT DEF Amounts, Under, Looping, Trying
  <2> QED BY <1>11, <2>4, <2>5, <2>6
<1>14. Books' /\ NeverOverplanned'
  <2>1. Base' + 0 = Base'
    <3>1. Base + 0 = Base
      BY <1>3
    <3> QED BY <1>9, <3>1
  <2> QED BY <1>10, <1>11, <2>1 DEF Books, NeverOverplanned, Trying
<1> QED BY <1>12, <1>13, <1>14 DEF DemandInv

LEMMA AskPartThrowsStep ==
  ASSUME DemandInv, AskPartThrows
  PROVE  /\ DemandInv' /\ pc' = "failed" /\ Failures
         /\ UNCHANGED <<model, committed, demand, todo, before>>
         /\ \E x \in 0..remainder : Adds(journal, x)
         /\ top # Gone /\ top <= Len(journal) => top' = top
<1>1. pc = "coordinate" /\ Throw(journal, Len(journal), remainder)
  BY DEF AskPartThrows
<1>2. /\ TypeOK /\ Excess \in Nat /\ remainder \in Int
      /\ \A x \in 0..(remainder + Excess) : Final(journal)[demand] + x \in Delivered
  BY <1>1, InPart
<1>3. \A x \in 0..remainder : Final(journal)[demand] + x \in Delivered
  BY <1>2
<1>4. journal \in Seq(Level) /\ journal # <<>> /\ Len(journal) \in 1..Len(journal)
  BY <1>2, RestType, LevelType
<1> QED BY <1>1, <1>2, <1>3, <1>4, Thrown

LEMMA TakeAnswerStep ==
  ASSUME DemandInv, TakeAnswer
  PROVE  DemandInv'
<1>1. /\ pc = "evaluate" /\ pc \in Trying /\ pc \in Looping
      /\ ~Refused /\ a_qty >= q_qty /\ pc' = "accept"
      /\ UNCHANGED <<model, committed, journal, top, demand, mark, plan, q_qty, a_qty, next_date,
                     range, best, remainder, tmpresult, todo, before, outcome>>
  BY DEF TakeAnswer, KeepJournal, local, Looping, Trying
<1>2. /\ TypeOK /\ Amounts /\ Under
      /\ 0 < plan.qty /\ Minimum <= plan.qty + Excess /\ plan.qty <= Requested
      /\ best.a > 0 => 0 <= best.q /\ best.q <= plan.qty
      /\ Excess \in Nat /\ Minimum \in Nat /\ plan.qty \in Int /\ Requested \in Int
      /\ 0 < Requested
  BY <1>1, InLoop
<1>3. /\ 0 <= a_qty /\ a_qty <= plan.qty + Excess /\ a_qty \in Int
  BY <1>1, <1>2, DemandType DEF Amounts
<1>4. a_qty = plan.qty \/ a_qty + Minimum <= plan.qty
  BY <1>1, <1>2, <1>3, SMT DEF Refused, LeavesTooLittle
<1>5. Requested' = Requested /\ Minimum' = Minimum /\ Excess' = Excess /\ Base' = Base
      /\ Planned(demand)' = Planned(demand)
  BY <1>1, SameDemand, SameSolver DEF Base, Planned
<1>6. TypeOK'
  <2>1. pc' \in Place /\ pc' \notin Trying
    BY <1>1 DEF Place, Trying
  <2> QED BY <1>1, <1>2, <2>1, RestType, KeepsType
<1>7. Amounts'
  BY <1>1, <1>2, <1>3, <1>4, <1>5, SMT DEF Amounts, Under, Looping, Trying
<1>8. Planned(demand) = Base + a_qty
  BY <1>1 DEF DemandInv, Books
<1>9. Books' /\ NeverOverplanned'
  BY <1>1, <1>5, <1>8 DEF Books, NeverOverplanned, Trying
<1> QED BY <1>6, <1>7, <1>9 DEF DemandInv

(* A commit changes nothing of what is planned.                            *)
LEMMA CommitIs ==
  ASSUME TypeOK, UNCHANGED <<model, demand>>, CommitJournal \/ KeepJournal
  PROVE  /\ committed' \in Level /\ journal' \in Seq(Level) /\ journal' # <<>>
         /\ top' \in {Gone} \cup 2..Len(journal')
         /\ Final(journal') = Final(journal)
         /\ Planned(demand)' = Planned(demand)
<1>1. CASE CommitJournal
  <2>1. committed' = Final(journal) /\ journal' = <<Final(journal)>> /\ top' = Gone
    BY <1>1 DEF CommitJournal
  <2>2. Final(journal) \in Level
    BY LevelType
  <2> DEFINE e == Final(journal)
  <2>3. <<e>> \in Seq(Level) /\ <<e>> # <<>> /\ Len(<<e>>) = 1 /\ <<e>>[1] = e
    <3> HIDE DEF e
    <3>1. e \in Level
      BY <2>2 DEF e
    <3> QED BY <3>1
  <2> QED BY <2>1, <2>2, <2>3 DEF Final, Planned
<1>2. CASE KeepJournal
  BY <1>2, RestType DEF KeepJournal, Planned
<1> QED BY <1>1, <1>2

LEMMA AcceptStep ==
  ASSUME DemandInv, Accept
  PROVE  DemandInv'
<1>1. /\ pc = "accept" /\ pc \in Looping
      /\ CommitJournal \/ KeepJournal
      /\ plan' = [plan EXCEPT !.qty = @ - a_qty] /\ best' = [best EXCEPT !.a = 0]
      /\ pc' = IF More(plan') THEN "ask" ELSE "loopEnd"
      /\ UNCHANGED <<model, demand, mark, q_qty, a_qty, next_date, range, remainder, tmpresult,
                     todo, before, outcome>>
  BY DEF Accept, Looping
<1>2. /\ TypeOK /\ Amounts /\ Under
      /\ 0 < plan.qty /\ Minimum <= plan.qty + Excess /\ plan.qty <= Requested
      /\ Excess \in Nat /\ Minimum \in Nat /\ plan.qty \in Int /\ Requested \in Int
      /\ 0 < Requested
  BY <1>1, InLoop
<1>3. /\ 0 <= a_qty /\ a_qty <= plan.qty + Excess /\ a_qty \in Int
      /\ a_qty = plan.qty \/ a_qty + Minimum <= plan.qty + Excess
  BY <1>1, <1>2, DemandType DEF Amounts
<1>4. /\ plan' \in [qty : Int, date : Date] /\ plan'.qty = plan.qty - a_qty
      /\ best' \in [a : Int, q : Int, date : Date] /\ best'.a = 0
  <2>1. plan \in [qty : Int, date : Date] /\ best \in [a : Int, q : Int, date : Date]
    BY <1>2, RestType
  <2> QED BY <1>1, <1>3, <2>1
<1>5. /\ committed' \in Level /\ journal' \in Seq(Level) /\ journal' # <<>>
      /\ top' \in {Gone} \cup 2..Len(journal')
      /\ Planned(demand)' = Planned(demand)
  BY <1>1, <1>2, CommitIs
<1>6. Requested' = Requested /\ Minimum' = Minimum /\ Excess' = Excess
      /\ locked'[demand'] = locked[demand]
  BY <1>1, SameDemand, SameSolver
<1>7. pc' \in {"ask", "loopEnd"} /\ (pc' = "ask" => plan'.qty > 0)
  BY <1>1 DEF More
<1>8. TypeOK'
  <2>1. pc' \in Place /\ pc' \notin Trying
    BY <1>7 DEF Place, Trying
  <2> QED BY <1>1, <1>2, <1>4, <1>5, <2>1, RestType, KeepsType
<1>9. Amounts'
  BY <1>2, <1>3, <1>4, <1>6, <1>7, SMT DEF Amounts, Under, Looping, Trying
<1>10. Planned(demand)' = Base'
  <2>1. Planned(demand) = Base + a_qty
    BY <1>1 DEF DemandInv, Books
  <2>2. /\ locked[demand] \in Int /\ Base = locked[demand] + Requested - plan.qty
    BY <1>2, DemandType
  <2>3. Base' = locked[demand] + Requested - plan'.qty
    BY <1>6 DEF Base
  <2>4. locked[demand] + Requested - plan.qty + a_qty
          = locked[demand] + Requested - (plan.qty - a_qty)
    BY <1>2, <1>3, <2>2
  <2> QED BY <1>4, <1>5, <2>1, <2>2, <2>3, <2>4
<1>11. Books' /\ NeverOverplanned'
  BY <1>7, <1>10 DEF Books, NeverOverplanned, Trying
<1> QED BY <1>8, <1>9, <1>11 DEF DemandInv

-----------------------------------------------------------------------------
(* The best answer, and the end. *)

LEMMA ReconsiderStep ==
  ASSUME DemandInv, Reconsider
  PROVE  DemandInv'
<1>1. /\ pc = "loopEnd" /\ best.a > 0 /\ pc' = "best" /\ remainder' = best.q
      /\ UNCHANGED <<model, committed, journal, top, demand, mark, plan, q_qty, a_qty, next_date,
                     range, best, tmpresult, todo, before, outcome>>
  BY DEF Reconsider, KeepJournal, BestIsAsked
<1>2. TypeOK /\ Amounts /\ Under /\ Excess \in Nat /\ best.q \in Int
  BY <1>1, SolverType, DemandType DEF DemandInv, Under
<1>3. /\ 0 < Requested /\ plan.qty <= Requested /\ 0 <= plan.qty + Excess
      /\ 0 <= best.q /\ best.q <= plan.qty
  BY <1>1, <1>2 DEF Amounts
<1>4. Requested' = Requested /\ Minimum' = Minimum /\ Excess' = Excess /\ Base' = Base
      /\ Planned(demand)' = Planned(demand)
  BY <1>1, SameDemand, SameSolver DEF Base, Planned
<1>5. TypeOK'
  <2>1. pc' \in Place /\ pc' \notin Trying /\ remainder' \in Int
    BY <1>1, <1>2 DEF Place, Trying
  <2> QED BY <1>1, <1>2, <2>1, RestType, KeepsType
<1>6. Amounts'
  BY <1>1, <1>2, <1>3, <1>4, SMT DEF Amounts, Under, Looping, Trying
<1>7. Books' /\ NeverOverplanned'
  <2>1. Planned(demand) = Base /\ Base \in Int
    BY <1>1, <1>2, DemandType DEF DemandInv, Books
  <2>2. Base + best.q - best.q = Base
    BY <1>2, <2>1
  <2> QED BY <1>1, <1>4, <2>1, <2>2 DEF Books, NeverOverplanned, Trying
<1> QED BY <1>5, <1>6, <1>7 DEF DemandInv

LEMMA InBest ==
  ASSUME DemandInv, pc = "best"
  PROVE  /\ TypeOK /\ Under /\ Excess \in Nat /\ Minimum \in Nat /\ plan.qty \in Int
         /\ remainder \in Int /\ best.q \in Int /\ Base \in Nat
         /\ 0 < Requested /\ plan.qty <= Requested /\ 0 <= plan.qty + Excess
         /\ best.a > 0 /\ 0 <= best.q /\ best.q <= plan.qty
         /\ remainder <= best.q /\ 0 <= remainder + Excess
         /\ Planned(demand) = Base + best.q - remainder
         /\ \A x \in 0..(remainder + Excess) : Final(journal)[demand] + x \in Delivered
<1>1. TypeOK /\ Amounts /\ Under
  BY DEF DemandInv, Under
<1>2. Excess \in Nat /\ Minimum \in Nat /\ plan.qty \in Int /\ remainder \in Int /\ best.q \in Int
  BY <1>1, SolverType, DemandType
<1>3. /\ 0 < Requested /\ plan.qty <= Requested /\ 0 <= plan.qty + Excess
      /\ best.a > 0 /\ 0 <= best.q /\ best.q <= plan.qty
      /\ remainder <= best.q /\ 0 <= remainder + Excess
  BY <1>1 DEF Amounts
<1>4. Planned(demand) = Base + best.q - remainder
  BY DEF DemandInv, Books
<1>5. Base \in Nat /\ \A x \in Nat : x <= plan.qty + Excess => Base + x \in Delivered
  BY <1>1, Room
<1>6. \A x \in 0..(remainder + Excess) : Final(journal)[demand] + x \in Delivered
  <2> TAKE x \in 0..(remainder + Excess)
  <2>1. /\ best.q - remainder + x \in Nat /\ best.q - remainder + x <= plan.qty + Excess
        /\ Base + best.q - remainder + x = Base + (best.q - remainder + x)
    BY <1>2, <1>3, <1>5
  <2> QED BY <1>4, <1>5, <2>1 DEF Planned
<1> QED BY <1>1, <1>2, <1>3, <1>4, <1>5, <1>6

LEMMA AskBestStep ==
  ASSUME DemandInv, AskBest
  PROVE  DemandInv'
<1>1. /\ pc = "best" /\ remainder > 0
      /\ UNCHANGED <<model, demand, mark, plan, q_qty, next_date, range, best, tmpresult, todo,
                     before>>
  BY DEF AskBest
<1>2. PICK a \in Answer(remainder), date \in Date :
        /\ Ask(journal, Len(journal), remainder, a, date)
        /\ remainder' = remainder - a
        /\ IF a = 0 THEN pc' = "bestEnd" /\ outcome' = "denied" ELSE UNCHANGED <<pc, outcome>>
  BY DEF AskBest
<1>3. /\ TypeOK /\ Excess \in Nat /\ Minimum \in Nat /\ plan.qty \in Int
      /\ remainder \in Int /\ best.q \in Int /\ Base \in Nat
      /\ 0 < Requested /\ plan.qty <= Requested /\ 0 <= plan.qty + Excess
      /\ best.a > 0 /\ 0 <= best.q /\ best.q <= plan.qty
      /\ remainder <= best.q /\ 0 <= remainder + Excess
      /\ Planned(demand) = Base + best.q - remainder
      /\ Final(journal)[demand] + a \in Delivered
  BY <1>1, InBest DEF Answer
<1>4. a \in Nat /\ a <= remainder + Excess
  BY <1>3 DEF Answer
<1>5. /\ journal' = IF a > 0 THEN SetBookmark(Decide(journal, a)) ELSE journal
      /\ top' \in TopAfter(Len(journal), journal') /\ a_qty' = a /\ committed' = committed
  BY <1>2 DEF Ask
<1>6. /\ journal' \in Seq(Level) /\ journal' # <<>>
      /\ Final(journal')[demand] = Final(journal)[demand] + a
      /\ top' \in {Gone} \cup 2..Len(journal')
  <2>1. journal \in Seq(Level) /\ journal # <<>> /\ Len(journal) \in 1..Len(journal)
    BY <1>3, RestType, LevelType
  <2> QED BY <1>3, <1>4, <1>5, <2>1, AskIs
<1>7. pc' = "bestEnd" \/ pc' = "best"
  BY <1>1, <1>2
<1>8. TypeOK'
  <2>1. pc' \in Place /\ pc' \notin Trying /\ a_qty' \in Int /\ remainder' \in Int
    BY <1>2, <1>3, <1>4, <1>5, <1>7 DEF Place, Trying
  <2> QED BY <1>1, <1>3, <1>5, <1>6, <2>1, RestType, KeepsType
<1>9. Requested' = Requested /\ Minimum' = Minimum /\ Excess' = Excess /\ Base' = Base
      /\ locked'[demand'] = locked[demand]
  BY <1>1, SameDemand, SameSolver DEF Base
<1>10. Amounts'
  <2>1. plan' = plan /\ best' = best /\ remainder' = remainder - a
    BY <1>1, <1>2
  <2>2. /\ Excess \in Nat /\ Minimum \in Nat /\ plan.qty \in Int
        /\ remainder \in Int /\ best.q \in Int
        /\ 0 < Requested /\ plan.qty <= Requested /\ 0 <= plan.qty + Excess
        /\ best.a > 0 /\ 0 <= best.q /\ best.q <= plan.qty
        /\ remainder <= best.q
    BY <1>3
  <2> QED BY <1>4, <1>7, <1>9, <2>1, <2>2, SMT DEF Amounts, Under, Looping, Trying
<1>11. Planned(demand)' = Base + best.q - remainder + a
  BY <1>1, <1>3, <1>6 DEF Planned
<1>12. Books' /\ NeverOverplanned'
  <2>1. Base + best.q - remainder + a = Base + best.q - (remainder - a)
    BY <1>3, <1>4
  <2>2. Base + best.q - remainder + a <= locked[demand] + Requested + Excess
    <3>1. Base = locked[demand] + Requested - plan.qty /\ locked[demand] \in Int
          /\ Requested \in Int
      BY <1>3, DemandType
    <3> QED BY <1>3, <1>4, <3>1
  <2> QED BY <1>1, <1>2, <1>7, <1>9, <1>11, <2>1, <2>2 DEF Books, NeverOverplanned, Trying
<1> QED BY <1>8, <1>10, <1>12 DEF DemandInv

LEMMA AskBestThrowsStep ==
  ASSUME DemandInv, AskBestThrows
  PROVE  /\ DemandInv' /\ pc' = "failed" /\ Failures
         /\ UNCHANGED <<model, committed, demand, todo, before>>
         /\ \E x \in 0..remainder : Adds(journal, x)
         /\ top # Gone /\ top <= Len(journal) => top' = top
<1>1. pc = "best" /\ Throw(journal, Len(journal), remainder)
  BY DEF AskBestThrows
<1>2. /\ TypeOK /\ Excess \in Nat /\ remainder \in Int
      /\ \A x \in 0..(remainder + Excess) : Final(journal)[demand] + x \in Delivered
  BY <1>1, InBest
<1>3. \A x \in 0..remainder : Final(journal)[demand] + x \in Delivered
  BY <1>2
<1>4. journal \in Seq(Level) /\ journal # <<>> /\ Len(journal) \in 1..Len(journal)
  BY <1>2, RestType, LevelType
<1> QED BY <1>1, <1>2, <1>3, <1>4, Thrown

LEMMA ReturnStep ==
  ASSUME DemandInv, Return
  PROVE  DemandInv'
<1>1. /\ pc' = "idle"
      /\ CommitJournal \/ KeepJournal
      /\ \/ pc = "loopEnd" /\ outcome' = "done"
         \/ pc = "best" /\ outcome' = "done"
         \/ pc = "bestEnd" /\ outcome' = outcome
      /\ UNCHANGED <<model, demand, mark, plan, q_qty, a_qty, next_date, range, best, remainder,
                     tmpresult, todo, before>>
  BY DEF Return, local
<1>2. TypeOK /\ Amounts /\ Under /\ Excess \in Nat /\ plan.qty \in Int /\ Requested \in Int
  BY <1>1, SolverType, DemandType DEF DemandInv, Under
<1>3. /\ committed' \in Level /\ journal' \in Seq(Level) /\ journal' # <<>>
      /\ top' \in {Gone} \cup 2..Len(journal')
      /\ Planned(demand)' = Planned(demand)
  BY <1>1, <1>2, CommitIs
<1>4. TypeOK'
  <2>1. pc' \in Place /\ pc' \notin Trying
    BY <1>1 DEF Place, Trying
  <2> QED BY <1>1, <1>2, <1>3, <2>1, RestType, KeepsType
<1>5. Amounts' /\ Books'
  BY <1>1 DEF Amounts, Books, Under, Looping, Trying
<1>6. Planned(demand) <= locked[demand] + Requested + Excess
  <2>1. Base = locked[demand] + Requested - plan.qty /\ locked[demand] \in Int
    BY <1>2, DemandType
  <2>2. CASE pc = "loopEnd"
    <3>1. Planned(demand) = Base
      BY <2>2 DEF DemandInv, Books
    <3>2. 0 <= plan.qty + Excess
      BY <1>2 DEF Amounts
    <3> QED BY <1>2, <2>1, <3>1, <3>2
  <2>3. CASE pc = "best"
    <3>1. /\ Planned(demand) = Base + best.q - remainder
          /\ best.q <= plan.qty /\ 0 <= remainder + Excess
          /\ best.q \in Int /\ remainder \in Int
      BY <2>3, InBest
    <3> QED BY <1>2, <2>1, <3>1
  <2>4. CASE pc = "bestEnd"
    BY <2>4 DEF DemandInv, Books
  <2> QED BY <1>1, <2>2, <2>3, <2>4
<1>7. NeverOverplanned'
  <2>1. /\ Requested' = Requested /\ Excess' = Excess /\ locked'[demand'] = locked[demand]
    BY <1>1, SameDemand, SameSolver
  <2>2. 0 < Requested
    BY <1>2 DEF Amounts
  <2>3. Larger(Requested, 0) = Requested
    BY <1>2, <2>2 DEF Larger
  <2>4. Larger(Requested, 0)' = Larger(Requested, 0)
    BY <2>1 DEF Larger
  <2> QED BY <1>3, <1>6, <2>1, <2>3, <2>4 DEF NeverOverplanned
<1> QED BY <1>4, <1>5, <1>7 DEF DemandInv

LEMMA RolledBack ==
  ASSUME TypeOK, NEW b \in 1..Len(journal), RollbackTo(b)
  PROVE  /\ committed' \in Level /\ journal' \in Seq(Level) /\ journal' # <<>>
         /\ Len(journal') = b
         /\ \A i \in 1..b : journal'[i] = Without(Replanned(b), Truncate(b)[i])
         /\ committed' = Without(Replanned(b), committed)
<1> DEFINE lost == Replanned(b)
           t == Truncate(b)
<1>1. committed' = Without(lost, committed) /\ journal' = [i \in 1..b |-> Without(lost, t[i])]
  BY DEF RollbackTo
<1>2. \A f \in Level : Without(lost, f) \in Level
  <2> HIDE DEF lost
  <2>1. \A d \in Demand : locked[d] \in Delivered
    <3>1. locked \in [Demand -> {0, 1}]
      BY DEF TypeOK
    <3>2. 0 \in Delivered /\ 1 \in Delivered
      BY SolverType, SMT DEF Delivered
    <3> QED BY <3>1, <3>2
  <2> QED BY <2>1 DEF Without, Level
<1>3. b \in Nat \ {0} /\ \A i \in 1..b : t[i] \in Level
  <2>1. t \in Seq(Level) /\ Len(t) = b
    BY TruncatedType
  <2>2. b \in Nat \ {0}
    BY LevelType
  <2> HIDE DEF t
  <2> QED BY <2>1, <2>2, ElementOfSeq
<1> HIDE DEF lost, t
<1>4. \A i \in 1..b : Without(lost, t[i]) \in Level
  BY <1>2, <1>3
<1>5. /\ [i \in 1..b |-> Without(lost, t[i])] \in Seq(Level)
      /\ Len([i \in 1..b |-> Without(lost, t[i])]) = b
  BY <1>3, <1>4, SMT
<1>6. committed' \in Level
  BY <1>1, <1>2 DEF TypeOK
<1>7. journal' # <<>>
  BY <1>1, <1>3, <1>5, EmptySeq
<1>8. \A i \in 1..b : journal'[i] = Without(lost, t[i])
  BY <1>1
<1> QED BY <1>1, <1>5, <1>6, <1>7, <1>8 DEF lost, t

LEMMA RecoverStep ==
  ASSUME DemandInv, Recover
  PROVE  DemandInv'
<1>1. /\ pc' = "idle" /\ outcome' = "failed"
      /\ UNCHANGED <<model, demand, top, mark, plan, q_qty, a_qty, next_date, range, best,
                     remainder, tmpresult, todo, before>>
  BY DEF Recover, local
<1>2. TypeOK
  BY DEF DemandInv
<1>3. /\ committed' \in Level /\ journal' \in Seq(Level) /\ journal' # <<>>
      /\ top' \in {Gone} \cup 2..Len(journal')
  <2>1. CASE top = Gone
    BY <1>1, <1>2, <2>1, RestType DEF Recover
  <2>2. CASE top # Gone
    <3>1. top \in 2..Len(journal) /\ Len(journal) \in Nat
      BY <1>2, <2>2, LevelType, RestType
    <3>2. top \in 1..Len(journal) /\ top \in 2..top
      BY <3>1
    <3>3. RollbackTo(top)
      BY <2>2 DEF Recover
    <3> QED BY <1>1, <1>2, <3>2, <3>3, RolledBack
  <2> QED BY <2>1, <2>2
<1>4. TypeOK'
  <2>1. pc' \in Place /\ pc' \notin Trying
    BY <1>1 DEF Place, Trying
  <2> QED BY <1>1, <1>2, <1>3, <2>1, RestType, KeepsType
<1>5. Amounts' /\ Books' /\ NeverOverplanned'
  BY <1>1 DEF Amounts, Books, NeverOverplanned, Under, Looping, Trying
<1> QED BY <1>4, <1>5 DEF DemandInv

LEMMA CommitAllStep ==
  ASSUME DemandInv, CommitAll
  PROVE  DemandInv'
<1>1. /\ CommitJournal /\ pc = "idle" /\ outcome' = "none"
      /\ UNCHANGED <<model, pc, demand, mark, plan, q_qty, a_qty, next_date, range, best,
                     remainder, tmpresult, todo, before>>
  BY DEF CommitAll, local
<1>2. TypeOK
  BY DEF DemandInv
<1>3. TypeOK'
  <2>1. pc' \in Place /\ pc' \notin Trying
    BY <1>1 DEF Place, Trying
  <2> QED BY <1>1, <1>2, <2>1, RestType, CommitIs, KeepsType
<1>4. Amounts' /\ Books' /\ NeverOverplanned'
  BY <1>1 DEF Amounts, Books, NeverOverplanned, Under, Looping, Trying
<1> QED BY <1>3, <1>4 DEF DemandInv

LEMMA RollbackAllStep ==
  ASSUME DemandInv, RollbackAll
  PROVE  DemandInv'
<1>1. /\ RollbackTo(1) /\ pc = "idle" /\ top' = Gone /\ outcome' = "none"
      /\ UNCHANGED <<model, pc, demand, mark, plan, q_qty, a_qty, next_date, range, best,
                     remainder, tmpresult, todo, before>>
  BY DEF RollbackAll, local
<1>2. TypeOK /\ 1 \in 1..Len(journal)
  BY LevelType DEF DemandInv
<1>3. committed' \in Level /\ journal' \in Seq(Level) /\ journal' # <<>>
  BY <1>1, <1>2, RolledBack
<1>4. TypeOK'
  <2>1. pc' \in Place /\ pc' \notin Trying
    BY <1>1 DEF Place, Trying
  <2> QED BY <1>1, <1>2, <1>3, <2>1, RestType, KeepsType
<1>5. Amounts' /\ Books' /\ NeverOverplanned'
  BY <1>1 DEF Amounts, Books, NeverOverplanned, Under, Looping, Trying
<1> QED BY <1>4, <1>5 DEF DemandInv

-----------------------------------------------------------------------------
(* The theorems. *)

LEMMA DemandStutter ==
  ASSUME DemandInv, UNCHANGED vars
  PROVE  DemandInv'
<1>1. UNCHANGED <<model, committed, journal, pc, demand, top, mark, plan, q_qty, a_qty, next_date,
                  range, best, remainder, tmpresult, todo, before, outcome>>
  BY DEF vars, local
<1>2. TypeOK'
  <2>1. TypeOK /\ pc \in Place /\ (pc \in Trying => mark \in 2..Len(journal))
    BY DEF DemandInv, TypeOK
  <2> QED BY <1>1, <2>1, RestType, KeepsType
<1>3. /\ Requested' = Requested /\ Minimum' = Minimum /\ Excess' = Excess /\ Base' = Base
      /\ Until(mark)' = Until(mark) /\ Planned(demand)' = Planned(demand)
      /\ locked' = locked
  BY <1>1, SameDemand, SameSolver DEF Base, Until, Planned
<1>4. Amounts'
  BY <1>1, <1>3 DEF DemandInv, Amounts, Under
<1>5. Books'
  BY <1>1, <1>3 DEF DemandInv, Books
<1>6. NeverOverplanned'
  BY <1>1, <1>3 DEF DemandInv, NeverOverplanned, Larger
<1> QED BY <1>2, <1>4, <1>5, <1>6 DEF DemandInv

LEMMA DemandStep == DemandInv /\ [Next]_vars => DemandInv'
<1> SUFFICES ASSUME DemandInv, [Next]_vars PROVE DemandInv'
  OBVIOUS
<1>1. CASE \E d \in Demand : Solve(d)
  BY <1>1, SolveStep
<1>2. CASE AskAll \/ AskMinimum \/ AskBetween \/ SearchEnds \/ AskRestore
  BY <1>2, AskAllStep, AskMinimumStep, AskBetweenStep, SearchEndsStep, AskRestoreStep
<1>3. CASE AskAllThrows \/ AskAgainThrows \/ AskPartThrows \/ AskBestThrows
  BY <1>3, AskAllThrowsStep, AskAgainThrowsStep, AskPartThrowsStep, AskBestThrowsStep
<1>4. CASE Refuse \/ Coordinate \/ AskPart \/ TakeAnswer \/ Accept
  BY <1>4, RefuseStep, CoordinateStep, AskPartStep, TakeAnswerStep, AcceptStep
<1>5. CASE Reconsider \/ AskBest \/ Return
  BY <1>5, ReconsiderStep, AskBestStep, ReturnStep
<1>6. CASE Recover \/ CommitAll \/ RollbackAll
  BY <1>6, RecoverStep, CommitAllStep, RollbackAllStep
<1>7. CASE UNCHANGED vars
  BY <1>7, DemandStutter
<1> QED BY <1>1, <1>2, <1>3, <1>4, <1>5, <1>6, <1>7 DEF Next

(* The quantities of a demand stay in their types and the books agree,     *)
(* whatever the operation answers.                                         *)
THEOREM DemandInvariant == Spec => []DemandInv
<1>1. Init => DemandInv
  BY InitDemand
<1>2. DemandInv /\ [Next]_vars => DemandInv'
  BY DemandStep
<1> QED BY <1>1, <1>2, PTL DEF Spec

(* Every variable of solve(Demand) keeps its type: in particular what is   *)
(* delivered of a demand is never negative, and never more than its        *)
(* quantity, a locked delivery and a lot.                                  *)
THEOREM DemandTypes == Spec => []TypeOK
<1>1. DemandInv => TypeOK
  BY DEF DemandInv
<1> QED BY <1>1, DemandInvariant, PTL

(* What is planned, still to be planned and under consideration adds up to *)
(* what was requested, for any demand, lot and setting.                    *)
THEOREM BooksAgree == Spec => []AnswerIsPlanned
<1>1. DemandInv => AnswerIsPlanned
  <2> SUFFICES ASSUME DemandInv PROVE AnswerIsPlanned
    OBVIOUS
  <2>1. pc \in {"ask", "loopEnd"} => Planned(demand) = Base
    BY DEF DemandInv, Books
  <2>2. pc \in {"evaluate", "accept"} => Planned(demand) = Base + a_qty
    BY DEF DemandInv, Books
  <2> QED BY <2>1, <2>2 DEF AnswerIsPlanned, Base
<1> QED BY <1>1, DemandInvariant, PTL

(* solve(Demand) never plans more than was requested, but for one lot.     *)
THEOREM DemandNeverOverplanned == Spec => []NeverOverplanned
<1>1. DemandInv => NeverOverplanned
  BY DEF DemandInv
<1> QED BY <1>1, DemandInvariant, PTL

(* What an accepted answer leaves can still be shipped, but for the lot of *)
(* the coordination run.                                                   *)
THEOREM DemandRemainderIsShippable == Spec => []RemainderIsShippable
<1>1. DemandInv => RemainderIsShippable
  BY DEF DemandInv, Amounts, RemainderIsShippable, Looping, Trying
<1> QED BY <1>1, DemandInvariant, PTL

-----------------------------------------------------------------------------
(* What the journal remembers of the other demands.  The first bookmarks   *)
(* stay, and those after them repeat, for every other demand, what the     *)
(* n-th one has.                                                           *)
Follows(n) ==
  /\ n \in 1..Len(journal) /\ n <= Len(journal') /\ Len(journal') \in Nat
  /\ \A i \in 1..(n - 1) : journal'[i] = journal[i]
  /\ \A i \in n..Len(journal'), d \in Demand \ {demand} : journal'[i][d] = journal[n][d]

(* What all steps of solve(Demand) up to its return have in common.        *)
Attempt ==
  /\ UNCHANGED <<model, demand, committed, todo, before>>
  /\ pc' # "idle"
  /\ pc' \in Trying => (pc \in Trying /\ mark' = mark) \/ mark' = Len(journal) + 1
  /\ \E n \in 1..Len(journal) :
       /\ Follows(n)
       /\ n = Len(journal) \/ (pc \in Trying /\ n = mark - 1)
       /\ top # Gone /\ top <= n => top' = top

LEMMA AttemptIs ==
  ASSUME UNCHANGED <<model, demand, committed, todo, before>>, pc' # "idle",
         pc' \in Trying => (pc \in Trying /\ mark' = mark) \/ mark' = Len(journal) + 1,
         NEW n \in 1..Len(journal), Follows(n),
         n = Len(journal) \/ (pc \in Trying /\ n = mark - 1),
         top # Gone /\ top <= n => top' = top
  PROVE  Attempt
BY Zenon DEF Attempt

LEMMA OthersKeep ==
  ASSUME NEW f \in Level, NEW x \in Int, Level = [Demand -> Delivered], NEW d \in Demand \ {demand}
  PROVE  [f EXCEPT ![demand] = @ + x][d] = f[d]
OBVIOUS

LEMMA FollowsLast ==
  ASSUME TypeOK, NEW x \in Int, Adds(journal, x)
  PROVE  Follows(Len(journal))
<1>1. /\ Len(journal) \in Nat \ {0} /\ Final(journal) \in Level /\ Level = [Demand -> Delivered]
  BY LevelType
<1>2. /\ Len(journal') \in Nat /\ Len(journal) <= Len(journal')
      /\ \A i \in 1..Len(journal') :
           journal'[i] = IF i < Len(journal) THEN journal[i]
                         ELSE [Final(journal) EXCEPT ![demand] = @ + x]
  BY DEF Adds
<1>3. \A i \in 1..(Len(journal) - 1) : journal'[i] = journal[i]
  <2>1. \A i \in 1..(Len(journal) - 1) : i \in 1..Len(journal') /\ i < Len(journal)
    BY <1>1, <1>2
  <2> QED BY <1>2, <2>1
<1>4. \A i \in Len(journal)..Len(journal'), d \in Demand \ {demand} :
        journal'[i][d] = journal[Len(journal)][d]
  <2> TAKE i \in Len(journal)..Len(journal'), d \in Demand \ {demand}
  <2>1. i \in 1..Len(journal') /\ ~(i < Len(journal))
    BY <1>1, <1>2
  <2>2. journal'[i] = [Final(journal) EXCEPT ![demand] = @ + x]
    BY <1>2, <2>1
  <2> QED BY <1>1, <2>2, OthersKeep DEF Final
<1>5. Len(journal) \in 1..Len(journal)
  BY <1>1
<1> QED BY <1>2, <1>3, <1>4, <1>5 DEF Follows

LEMMA FollowsSet ==
  ASSUME TypeOK, NEW x \in Int, Adds(SetBookmark(journal), x)
  PROVE  /\ Follows(Len(journal))
         /\ \A i \in 1..Len(journal) : journal'[i] = journal[i]
<1> DEFINE n == Len(journal)
           j == SetBookmark(journal)
<1>1. /\ n \in Nat \ {0} /\ Final(journal) \in Level /\ Level = [Demand -> Delivered]
      /\ journal \in Seq(Level) /\ journal # <<>>
  BY LevelType, RestType
<1>2. /\ Len(j) = n + 1 /\ Final(j) = Final(journal)
      /\ \A i \in 1..n : j[i] = journal[i]
  BY <1>1, SetBookmarkIs
<1>3. /\ Len(journal') \in Nat /\ n + 1 <= Len(journal')
      /\ \A i \in 1..Len(journal') :
           journal'[i] = IF i < n + 1 THEN j[i]
                         ELSE [Final(journal) EXCEPT ![demand] = @ + x]
  BY <1>2 DEF Adds
<1> HIDE DEF j
<1>4. \A i \in 1..n : journal'[i] = journal[i]
  <2>1. \A i \in 1..n : i \in 1..Len(journal') /\ i < n + 1
    BY <1>1, <1>3
  <2> QED BY <1>2, <1>3, <2>1
<1>5. \A i \in n..Len(journal'), d \in Demand \ {demand} : journal'[i][d] = journal[n][d]
  <2> TAKE i \in n..Len(journal'), d \in Demand \ {demand}
  <2>1. CASE i = n
    <3>1. n \in 1..n
      BY <1>1
    <3> QED BY <1>4, <2>1, <3>1
  <2>2. CASE i # n
    <3>1. i \in 1..Len(journal') /\ ~(i < n + 1)
      BY <1>1, <1>3, <2>2
    <3>2. journal'[i] = [Final(journal) EXCEPT ![demand] = @ + x]
      BY <1>3, <3>1
    <3> QED BY <1>1, <3>2, OthersKeep DEF Final
  <2> QED BY <2>1, <2>2
<1>6. n \in 1..n /\ n <= Len(journal') /\ \A i \in 1..(n - 1) : i \in 1..n
  BY <1>1, <1>3
<1> QED BY <1>3, <1>4, <1>5, <1>6 DEF Follows

LEMMA FollowsMark ==
  ASSUME DemandInv, pc \in Trying, NEW x \in Int, Adds(Truncate(mark), x)
  PROVE  /\ Follows(mark - 1)
         /\ \A i \in 1..(mark - 1) : journal'[i] = journal[i]
<1> DEFINE n == mark - 1
           j == Truncate(mark)
<1>1. /\ TypeOK /\ mark \in 2..Len(journal) /\ Len(journal) \in Nat /\ mark \in 1..Len(journal)
      /\ Level = [Demand -> Delivered]
      /\ Until(mark) = journal[mark - 1] /\ Final(j) = Until(mark) /\ Until(mark) \in Level
      /\ Len(j) = mark /\ \A i \in 1..(mark - 1) : j[i] = journal[i]
  <2>1. TypeOK /\ mark \in 2..Len(journal) /\ mark \in 1..Len(journal)
        /\ Until(mark) = journal[mark - 1]
    BY InTrial DEF DemandInv
  <2> QED BY <2>1, LevelType, TruncatedType
<1>2. /\ Len(journal') \in Nat /\ mark <= Len(journal')
      /\ \A i \in 1..Len(journal') :
           journal'[i] = IF i < mark THEN j[i]
                         ELSE [Until(mark) EXCEPT ![demand] = @ + x]
  BY <1>1 DEF Adds
<1> HIDE DEF j
<1>3. \A i \in 1..n : journal'[i] = journal[i]
  <2>1. \A i \in 1..n : i \in 1..Len(journal') /\ i < mark
    BY <1>1, <1>2
  <2> QED BY <1>1, <1>2, <2>1
<1>4. \A i \in n..Len(journal'), d \in Demand \ {demand} : journal'[i][d] = journal[n][d]
  <2> TAKE i \in n..Len(journal'), d \in Demand \ {demand}
  <2>1. CASE i = n
    <3>1. n \in 1..n
      BY <1>1
    <3> QED BY <1>3, <2>1, <3>1
  <2>2. CASE i # n
    <3>1. i \in 1..Len(journal') /\ ~(i < mark)
      BY <1>1, <1>2, <2>2
    <3>2. journal'[i] = [Until(mark) EXCEPT ![demand] = @ + x]
      BY <1>2, <3>1
    <3> QED BY <1>1, <3>2, OthersKeep
  <2> QED BY <2>1, <2>2
<1>5. n \in 1..Len(journal) /\ n <= Len(journal') /\ \A i \in 1..(n - 1) : i \in 1..n
  BY <1>1, <1>2
<1> QED BY <1>2, <1>3, <1>4, <1>5 DEF Follows

LEMMA FollowsUndo ==
  ASSUME DemandInv, pc \in Trying, journal' = Truncate(mark)
  PROVE  /\ Follows(mark - 1)
         /\ \A i \in 1..(mark - 1) : journal'[i] = journal[i]
         /\ Len(journal') = mark /\ journal'[mark] = journal[mark - 1]
<1> DEFINE n == mark - 1
<1>1. /\ mark \in 2..Len(journal) /\ Len(journal) \in Nat
      /\ Len(journal') = mark /\ \A i \in 1..n : journal'[i] = journal[i]
      /\ journal'[mark] = journal[n]
  <2>1. TypeOK /\ mark \in 2..Len(journal) /\ mark \in 1..Len(journal)
        /\ Until(mark) = journal[mark - 1]
    BY InTrial DEF DemandInv
  <2> QED BY <2>1, LevelType, TruncatedType
<1>2. \A i \in n..Len(journal') : journal'[i] = journal[n]
  <2> TAKE i \in n..Len(journal')
  <2>1. i = n \/ i = mark
    BY <1>1
  <2>2. n \in 1..n
    BY <1>1
  <2> QED BY <1>1, <2>1, <2>2
<1>3. n \in 1..Len(journal) /\ n <= Len(journal') /\ Len(journal') \in Nat
      /\ \A i \in 1..(n - 1) : i \in 1..n
  BY <1>1
<1> QED BY <1>1, <1>2, <1>3 DEF Follows

LEMMA AskAllAttempt ==
  ASSUME DemandInv, AskAll
  PROVE  /\ Attempt /\ pc = "ask" /\ pc' \in {"minimum", "evaluate"} /\ mark' = Len(journal) + 1
         /\ \A i \in 1..Len(journal) : journal'[i] = journal[i]
<1>1. /\ pc = "ask" /\ pc \in Looping /\ mark' = Len(journal) + 1
      /\ UNCHANGED <<model, demand, plan, todo, before>>
  BY DEF AskAll, Looping
<1>2. PICK a \in Answer(plan.qty), date \in Date :
        /\ Ask(SetBookmark(journal), Len(journal), plan.qty, a, date)
        /\ pc' \in {"minimum", "evaluate"}
  BY DEF AskAll
<1>3. TypeOK /\ Amounts /\ Under /\ 0 < plan.qty /\ plan.qty \in Int
  BY <1>1, InLoop
<1>4. /\ SetBookmark(journal) \in Seq(Level) /\ SetBookmark(journal) # <<>>
      /\ Len(SetBookmark(journal)) = Len(journal) + 1
      /\ Final(SetBookmark(journal)) = Final(journal)
      /\ Len(journal) \in Nat \ {0}
  BY <1>3, RestType, SetBookmarkIs
<1>5. Len(journal) \in 1..Len(SetBookmark(journal)) /\ Len(journal) \in 1..Len(journal)
  BY <1>4
<1>6. Final(SetBookmark(journal))[demand] = Base
  BY <1>1, <1>4 DEF DemandInv, Books, Planned
<1>7. plan.qty \in Nat /\ plan.qty <= plan.qty
  BY <1>3
<1>8. /\ a \in Int /\ Adds(SetBookmark(journal), a) /\ committed' = committed
      /\ top # Gone /\ top <= Len(journal) => top' = top
  BY <1>2, <1>3, <1>4, <1>5, <1>6, <1>7, Asked
<1>9. Follows(Len(journal)) /\ \A i \in 1..Len(journal) : journal'[i] = journal[i]
  BY <1>3, <1>8, FollowsSet
<1>10. Attempt
  <2>1. pc' # "idle"
    BY <1>2
  <2> QED BY <1>1, <1>5, <1>8, <1>9, <2>1, AttemptIs
<1> QED BY <1>1, <1>2, <1>9, <1>10

LEMMA RetriedAttempt ==
  ASSUME DemandInv, AskMinimum \/ AskBetween \/ AskRestore
  PROVE  /\ Attempt /\ pc \in Trying /\ pc' \in {"search", "evaluate"} /\ mark' = mark
         /\ \A i \in 1..(mark - 1) : journal'[i] = journal[i]
<1>0. PICK q \in Int :
        /\ pc \in Trying /\ q \in Nat /\ q <= plan.qty
        /\ \E a \in Answer(q), date \in Date : Ask(Truncate(mark), mark, q, a, date)
        /\ pc' \in {"search", "evaluate"}
        /\ UNCHANGED <<model, demand, mark, plan, best, todo, before>>
  <2>1. /\ plan.qty \in Int /\ Minimum \in Nat /\ range.min \in Int /\ range.max \in Int
        /\ Threshold \in Nat /\ Amounts
    BY DemandType, SolverType DEF DemandInv
  <2>2. CASE AskMinimum
    <3>1. pc = "minimum" /\ Minimum \in Nat /\ Minimum <= plan.qty /\ Minimum \in Int
      BY <2>1, <2>2 DEF AskMinimum, Amounts
    <3>2. PICK a \in Answer(Minimum), date \in Date :
            Ask(Truncate(mark), mark, Minimum, a, date) /\ pc' \in {"search", "evaluate"}
      BY <2>2 DEF AskMinimum
    <3>3. UNCHANGED <<model, demand, mark, plan, best, todo, before>>
      BY <2>2 DEF AskMinimum
    <3> QED BY <3>1, <3>2, <3>3 DEF Trying
  <2>3. CASE AskBetween
    <3>1. pc = "search" /\ Searching /\ pc' = pc
      BY <2>3 DEF AskBetween
    <3>2. NewQuantity \in Int /\ range.min < NewQuantity /\ NewQuantity <= range.max
      BY <2>1, <3>1, Narrows
    <3>3. 0 <= range.min /\ range.max <= plan.qty
      BY <2>1, <3>1 DEF Amounts
    <3>4. NewQuantity \in Nat /\ NewQuantity <= plan.qty
      <4> HIDE DEF NewQuantity
      <4> QED BY <2>1, <3>2, <3>3
    <3>5. PICK a \in Answer(NewQuantity), date \in Date :
            Ask(Truncate(mark), mark, NewQuantity, a, date)
      BY <2>3 DEF AskBetween
    <3>6. UNCHANGED <<model, demand, mark, plan, best, todo, before>>
      BY <2>3 DEF AskBetween
    <3> QED BY <3>1, <3>2, <3>4, <3>5, <3>6 DEF Trying
  <2>4. CASE AskRestore
    <3>1. pc = "restore" /\ pc' = "evaluate"
      BY <2>4 DEF AskRestore
    <3>2. range.min \in Nat /\ range.min <= plan.qty
      BY <2>1, <3>1 DEF Amounts
    <3>3. PICK a \in Answer(range.min), date \in Date :
            Ask(Truncate(mark), mark, range.min, a, date)
      BY <2>4 DEF AskRestore
    <3>4. UNCHANGED <<model, demand, mark, plan, best, todo, before>>
      BY <2>4 DEF AskRestore
    <3> QED BY <2>1, <3>1, <3>2, <3>3, <3>4 DEF Trying
  <2> QED BY <2>2, <2>3, <2>4
<1>1. PICK a \in Answer(q), date \in Date : Ask(Truncate(mark), mark, q, a, date)
  BY <1>0
<1>2. a \in Int /\ Adds(Truncate(mark), a) /\ committed' = committed
  BY <1>0, <1>1, Retried
<1>3. top # Gone /\ top <= mark - 1 => top' = top
  <2>1. TypeOK /\ mark \in 2..Len(journal) /\ Truncate(mark) # <<>> /\ Len(Truncate(mark)) = mark
    BY <1>0, InTrial DEF DemandInv
  <2>2. mark \in Nat /\ top \in {Gone} \cup 2..Len(journal) /\ Len(journal) \in Nat
    BY <2>1, RestType, LevelType
  <2>3. top' \in TopAfter(mark, journal')
    BY <1>1 DEF Ask
  <2> QED BY <2>2, <2>3, SMT DEF TopAfter, Gone
<1>4. Follows(mark - 1) /\ \A i \in 1..(mark - 1) : journal'[i] = journal[i]
  BY <1>0, <1>2, FollowsMark
<1>5. mark - 1 \in 1..Len(journal)
  BY <1>4 DEF Follows
<1>6. Attempt
  BY <1>0, <1>2, <1>3, <1>4, <1>5, AttemptIs
<1> QED BY <1>0, <1>4, <1>6

LEMMA KeptAttempt ==
  ASSUME DemandInv, SearchEnds \/ TakeAnswer \/ Reconsider \/ (Accept /\ KeepJournal)
  PROVE  /\ Attempt /\ UNCHANGED <<journal, mark>>
         /\ \/ pc = "search" /\ pc' \in {"restore", "evaluate"}
            \/ pc' \in {"accept", "best"}
            \/ Accept
<1>1. /\ UNCHANGED <<model, demand, committed, journal, top, mark, todo, before>>
      /\ \/ pc = "search" /\ pc' \in {"restore", "evaluate"}
         \/ pc' \in {"accept", "best"}
         \/ Accept /\ pc' \in {"ask", "loopEnd"}
  BY DEF SearchEnds, TakeAnswer, Reconsider, Accept, KeepJournal, local
<1>2. Len(journal) \in Nat \ {0}
  BY LevelType DEF DemandInv
<1>3. Follows(Len(journal)) /\ Len(journal) \in 1..Len(journal)
  <2>1. /\ Len(journal) \in 1..Len(journal) /\ Len(journal) <= Len(journal')
        /\ Len(journal') \in Nat
        /\ \A i \in Len(journal)..Len(journal') : i = Len(journal)
    BY <1>1, <1>2
  <2> QED BY <1>1, <2>1 DEF Follows
<1>4. Attempt
  <2>1. pc' # "idle" /\ (pc' \in Trying => pc \in Trying /\ mark' = mark)
    BY <1>1 DEF Trying
  <2> QED BY <1>1, <1>3, <2>1, AttemptIs
<1> QED BY <1>1, <1>4

LEMMA UndoneAttempt ==
  ASSUME DemandInv, Refuse \/ Coordinate
  PROVE  /\ Attempt /\ pc \in Trying /\ mark' = mark
         /\ pc' \in {"ask", "loopEnd", "coordinate"}
         /\ \A i \in 1..(mark - 1) : journal'[i] = journal[i]
         /\ Len(journal') = mark /\ journal'[mark] = journal[mark - 1]
<1>1. /\ pc \in Trying /\ pc' \in {"ask", "loopEnd", "coordinate"} /\ UndoAnswer
      /\ UNCHANGED <<model, demand, committed, mark, todo, before>>
  BY DEF Refuse, Coordinate, Trying
<1>2. /\ Follows(mark - 1)
      /\ \A i \in 1..(mark - 1) : journal'[i] = journal[i]
      /\ Len(journal') = mark /\ journal'[mark] = journal[mark - 1]
  BY <1>1, FollowsUndo DEF UndoAnswer
<1>3. mark - 1 \in 1..Len(journal) /\ mark \in 2..Len(journal) /\ TypeOK
  BY <1>1, <1>2, InTrial DEF Follows, DemandInv
<1>4. top # Gone /\ top <= mark - 1 => top' = top
  <2>1. mark \in Nat /\ top \in {Gone} \cup 2..Len(journal) /\ Len(journal) \in Nat
    BY <1>3, RestType, LevelType
  <2>2. top' \in TopAfter(mark, journal')
    BY <1>1 DEF UndoAnswer
  <2> QED BY <2>1, <2>2, SMT DEF TopAfter, Gone
<1>5. Attempt
  <2>1. pc' # "idle"
    BY <1>1
  <2> QED BY <1>1, <1>2, <1>3, <1>4, <2>1, AttemptIs
<1> QED BY <1>1, <1>2, <1>5

LEMMA AddedAttempt ==
  ASSUME DemandInv, AskPart \/ AskBest
  PROVE  /\ Attempt /\ mark' = mark
         /\ \/ pc' \in {"best", "bestEnd", "accept"}
            \/ pc = "coordinate" /\ pc' = "coordinate" /\ tmpresult' # 0
            \/ pc = "coordinate" /\ pc' = "loopEnd" /\ tmpresult = 0 /\ journal' = journal
         /\ \A i \in 1..(Len(journal) - 1) : journal'[i] = journal[i]
<1>1. PICK a \in Answer(remainder) :
        /\ journal' = IF a > 0 THEN SetBookmark(Decide(journal, a)) ELSE journal
        /\ top' \in TopAfter(Len(journal), journal')
        /\ \/ pc = "best" /\ pc' \in {"best", "bestEnd"}
           \/ /\ pc = "coordinate"
              /\ remainder' = remainder - a /\ tmpresult' = tmpresult + a
              /\ IF a = 0 \/ remainder' <= 0
                 THEN pc' = IF tmpresult' = 0 THEN "loopEnd" ELSE "accept"
                 ELSE pc' = pc
  <2>1. CASE AskPart
    BY <2>1 DEF AskPart
  <2>2. CASE AskBest
    BY <2>2 DEF AskBest, Ask
  <2> QED BY <2>1, <2>2
<1>2. /\ UNCHANGED <<model, demand, committed, mark, todo, before>>
  BY DEF AskPart, AskBest, Ask
<1>3. /\ TypeOK /\ Excess \in Nat /\ remainder \in Int /\ Final(journal)[demand] + a \in Delivered
      /\ pc = "coordinate" => tmpresult \in Nat
  <2>1. CASE pc = "coordinate"
    BY <2>1, InPart DEF Answer
  <2>2. CASE pc = "best"
    BY <2>2, InBest DEF Answer
  <2> QED BY <1>1, <2>1, <2>2
<1>4. a \in Nat
  BY <1>3 DEF Answer
<1>5. journal \in Seq(Level) /\ journal # <<>> /\ Len(journal) \in 1..Len(journal)
      /\ Len(journal) \in Nat
  BY <1>3, RestType, LevelType
<1>6. Adds(journal, a) /\ (top # Gone /\ top <= Len(journal) => top' = top)
  BY <1>1, <1>3, <1>4, <1>5, AskIs
<1>7. Follows(Len(journal))
  BY <1>3, <1>4, <1>6, FollowsLast
<1>8. \/ pc' \in {"best", "bestEnd", "accept"}
      \/ pc = "coordinate" /\ pc' = "coordinate" /\ tmpresult' # 0
      \/ pc = "coordinate" /\ pc' = "loopEnd" /\ tmpresult = 0 /\ journal' = journal
  <2>1. CASE pc = "best"
    BY <1>1, <2>1
  <2>2. CASE pc = "coordinate" /\ a = 0
    <3>1. tmpresult + 0 = tmpresult
      BY <1>3, <2>2
    <3> QED BY <1>1, <2>2, <3>1
  <2>3. CASE pc = "coordinate" /\ a # 0
    <3>1. tmpresult + a # 0
      BY <1>3, <1>4, <2>3
    <3> QED BY <1>1, <2>3, <3>1
  <2> QED BY <1>1, <2>1, <2>2, <2>3
<1>9. Attempt
  <2>1. pc' # "idle" /\ (pc' \in Trying => pc \in Trying /\ mark' = mark)
    BY <1>2, <1>8 DEF Trying
  <2> QED BY <1>2, <1>5, <1>6, <1>7, <2>1, AttemptIs
<1> QED BY <1>2, <1>7, <1>8, <1>9 DEF Follows

LEMMA ThrownAttempt ==
  ASSUME DemandInv, AskAllThrows \/ AskAgainThrows \/ AskPartThrows \/ AskBestThrows
  PROVE  Attempt /\ pc' = "failed" /\ Failures
<1>1. TypeOK /\ Len(journal) \in Nat \ {0} /\ Len(journal) \in 1..Len(journal)
      /\ plan.qty \in Int /\ remainder \in Int
  BY LevelType, DemandType DEF DemandInv
<1>0. pc' = "failed" => pc' # "idle" /\ pc' \notin Trying
  BY DEF Trying
<1>2. CASE AskAllThrows
  <2>1. /\ pc' = "failed" /\ Failures /\ UNCHANGED <<model, committed, demand, todo, before>>
        /\ \E x \in 0..plan.qty : Adds(SetBookmark(journal), x)
        /\ top # Gone /\ top <= Len(journal) => top' = top
    BY <1>2, AskAllThrowsStep
  <2>2. Follows(Len(journal))
    BY <1>1, <2>1, FollowsSet
  <2> QED BY <1>0, <1>1, <2>1, <2>2, AttemptIs
<1>3. CASE AskAgainThrows
  <2>1. /\ pc' = "failed" /\ Failures /\ pc \in Trying
        /\ UNCHANGED <<model, committed, demand, todo, before>>
        /\ \E x \in 0..plan.qty : Adds(Truncate(mark), x)
        /\ top # Gone /\ top <= mark => top' = top
    BY <1>3, AskAgainThrowsStep
  <2>2. Follows(mark - 1)
    BY <1>1, <2>1, FollowsMark
  <2>3. mark - 1 \in 1..Len(journal)
    BY <2>2 DEF Follows
  <2>4. top # Gone /\ top <= mark - 1 => top' = top
    <3>1. mark \in Nat /\ top \in {Gone} \cup 2..Len(journal) /\ Len(journal) \in Nat
      BY <1>1, RestType
    <3> QED BY <2>1, <3>1, SMT DEF Gone
  <2> QED BY <1>0, <2>1, <2>2, <2>3, <2>4, AttemptIs
<1>4. CASE AskPartThrows \/ AskBestThrows
  <2>1. /\ pc' = "failed" /\ Failures
        /\ UNCHANGED <<model, committed, demand, todo, before>>
        /\ \E x \in 0..remainder : Adds(journal, x)
        /\ top # Gone /\ top <= Len(journal) => top' = top
    BY <1>4, AskPartThrowsStep, AskBestThrowsStep
  <2>2. Follows(Len(journal))
    BY <1>1, <2>1, FollowsLast
  <2> QED BY <1>0, <1>1, <2>1, <2>2, AttemptIs
<1> QED BY <1>2, <1>3, <1>4

-----------------------------------------------------------------------------
(* In autocommit mode: the deliveries of the demand that are committed are *)
(* those without the answer under consideration, and the demands that are  *)
(* still to be planned have only their locked ones.                        *)
ToPlanIsLocked ==
  \A d \in Demand :
    todo[d] > 0 => committed[d] = locked[d] /\ \A i \in 1..Len(journal) : journal[i][d] = locked[d]

Clean ==
  Autocommit =>
    /\ Under => todo[demand] = 0
    /\ ToPlanIsLocked
    /\ pc \in Looping \cup {"loopEnd"} => committed[demand] = Base
    /\ NothingLeftPending

LEMMA CleanInit == Init => Clean
<1> SUFFICES ASSUME Init, Autocommit PROVE Clean
  BY DEF Clean
<1>1. /\ pc = "idle" /\ outcome = "none" /\ journal = <<committed>> /\ Len(journal) = 1
      /\ \A i \in 1..1 : i = 1
  BY DEF Init
<1>2. /\ locked \in [Demand -> {0, 1}]
      /\ \E unlocked \in [Demand -> {0, 0}] :
           committed = [d \in Demand |-> locked[d] + unlocked[d]]
  BY DEF Init
<1>3. \A d \in Demand : committed[d] = locked[d]
  <2> PICK unlocked \in [Demand -> {0, 0}] :
        committed = [d \in Demand |-> locked[d] + unlocked[d]]
    BY <1>2
  <2> TAKE d \in Demand
  <2>1. unlocked[d] = 0 /\ locked[d] \in {0, 1} /\ committed[d] = locked[d] + unlocked[d]
    BY <1>2
  <2>2. locked[d] + 0 = locked[d]
    BY <2>1
  <2> QED BY <2>1, <2>2
<1>4. ToPlanIsLocked
  BY <1>1, <1>3 DEF ToPlanIsLocked
<1> QED BY <1>1, <1>4 DEF Clean, Under, Looping, Trying, NothingLeftPending

(* Every attempt keeps it, and so does an exception. *)
LEMMA CleanAttempt ==
  ASSUME DemandInv, Clean, Autocommit, Under, Attempt,
         pc' \in Looping \cup {"loopEnd"} =>
           pc \in Looping \cup {"loopEnd"} /\ plan'.qty = plan.qty
  PROVE  Clean'
<1>1. /\ UNCHANGED <<model, demand, committed, todo, before>> /\ pc' # "idle"
  BY DEF Attempt
<1>2. PICK n \in 1..Len(journal) : Follows(n)
  BY DEF Attempt
<1>3. todo[demand] = 0 /\ ToPlanIsLocked
  BY DEF Clean
<1>4. ASSUME NEW d \in Demand, todo[d] > 0, NEW i \in 1..Len(journal')
      PROVE  journal'[i][d] = locked[d]
  <2>1. d \in Demand \ {demand}
    BY <1>3, <1>4
  <2>2. Len(journal') \in Nat /\ Len(journal) \in Nat /\ n \in 1..Len(journal)
    BY <1>2, LevelType DEF Follows, DemandInv
  <2>3. CASE i \in 1..(n - 1)
    <3>1. i \in 1..Len(journal)
      BY <2>2, <2>3
    <3>2. journal'[i] = journal[i]
      BY <1>2, <2>3 DEF Follows
    <3> QED BY <1>3, <1>4, <3>1, <3>2 DEF ToPlanIsLocked
  <2>4. CASE i \in n..Len(journal')
    <3>1. journal'[i][d] = journal[n][d]
      BY <1>2, <2>1, <2>4 DEF Follows
    <3> QED BY <1>3, <1>4, <3>1 DEF ToPlanIsLocked
  <2> QED BY <2>2, <2>3, <2>4
<1>5. locked' = locked /\ Autocommit' = Autocommit
  BY <1>1, SameSolver
<1>6. ToPlanIsLocked'
  BY <1>1, <1>3, <1>4, <1>5 DEF ToPlanIsLocked
<1>7. pc' \in Looping \cup {"loopEnd"} => committed'[demand'] = Base'
  <2> SUFFICES ASSUME pc' \in Looping \cup {"loopEnd"} PROVE committed'[demand'] = Base'
    OBVIOUS
  <2>1. pc \in Looping \cup {"loopEnd"} /\ plan'.qty = plan.qty
    OBVIOUS
  <2>2. committed[demand] = Base
    BY <2>1 DEF Clean
  <2> QED BY <1>1, <2>1, <2>2, SameDemand DEF Base
<1>8. NothingLeftPending'
  BY <1>1 DEF NothingLeftPending
<1> QED BY <1>1, <1>3, <1>6, <1>7, <1>8 DEF Clean

LEMMA CleanSolve ==
  ASSUME DemandInv, Clean, NEW d \in Demand, Solve(d)
  PROVE  Clean'
<1> SUFFICES ASSUME Autocommit PROVE Clean'
  <2>1. UNCHANGED model
    BY DEF Solve
  <2> QED BY <2>1, SameSolver DEF Clean
<1>1. /\ pc = "idle" /\ todo[d] > 0 /\ todo' = [todo EXCEPT ![d] = @ - 1]
      /\ demand' = d /\ pc' \in {"idle", "ask", "failed"}
      /\ UNCHANGED <<model, committed>>
  BY DEF Solve
<1>2. /\ TypeOK /\ Len(journal) \in Nat \ {0} /\ journal \in Seq(Level)
      /\ Level = [Demand -> Delivered] /\ Len(journal) \in 1..Len(journal)
      /\ Final(journal) = journal[Len(journal)]
  <2>1. /\ TypeOK /\ Len(journal) \in Nat \ {0} /\ Level = [Demand -> Delivered]
        /\ journal \in Seq(Level)
    BY LevelType, RestType DEF DemandInv
  <2>2. Len(journal) \in 1..Len(journal)
    BY <2>1
  <2> QED BY <2>1, <2>2 DEF Final
<1>3. todo' \in [Demand -> 0..Times] /\ todo'[d] = 0
      /\ \A e \in Demand : todo'[e] > 0 => todo[e] > 0 /\ e # d
  <2>1. Times \in Nat /\ Times <= 1 /\ todo \in [Demand -> 0..Times]
    BY <1>2, SolverType, RestType
  <2>2. todo[d] \in 0..Times /\ todo[d] - 1 = 0
    BY <1>1, <2>1
  <2> QED BY <1>1, <2>1, <2>2
<1>4. ToPlanIsLocked
  BY DEF Clean
<1>5. PICK e \in Level :
        /\ journal' = Append(journal, e)
        /\ \A x \in Demand \ {d} : e[x] = Final(journal)[x]
        /\ pc' # "failed" => e[d] = locked[d]
  BY <1>2, SolveIs
<1>6. /\ Len(journal') = Len(journal) + 1
      /\ \A i \in 1..Len(journal) : journal'[i] = journal[i]
      /\ journal'[Len(journal) + 1] = e /\ Final(journal') = e
  BY <1>2, <1>5, AppendIs
<1>7. locked' = locked /\ Autocommit' = Autocommit
  BY <1>1, SameSolver
<1>8. ToPlanIsLocked'
  <2> SUFFICES ASSUME NEW x \in Demand, todo'[x] > 0
               PROVE  committed[x] = locked[x] /\ \A i \in 1..Len(journal') : journal'[i][x] = locked[x]
    BY <1>1, <1>7 DEF ToPlanIsLocked
  <2>1. todo[x] > 0 /\ x \in Demand \ {d}
    BY <1>3
  <2>2. committed[x] = locked[x] /\ \A i \in 1..Len(journal) : journal[i][x] = locked[x]
    BY <1>4, <2>1 DEF ToPlanIsLocked
  <2>3. e[x] = locked[x]
    BY <1>2, <1>5, <2>1, <2>2
  <2>4. \A i \in 1..Len(journal') : i \in 1..Len(journal) \/ i = Len(journal) + 1
    BY <1>2, <1>6
  <2> QED BY <1>6, <2>2, <2>3, <2>4
<1>9. committed'[demand'] = locked[d] /\ locked[d] \in Int
  BY <1>1, <1>2, <1>4 DEF ToPlanIsLocked, TypeOK
<1>10. pc' # "failed" => Planned(demand)' = locked[d]
  BY <1>1, <1>5, <1>6 DEF Planned
<1>11. pc' = "ask" => committed'[demand'] = Base'
  <2>1. DemandInv'
    BY SolveStep
  <2> QED BY <1>9, <1>10, <2>1 DEF DemandInv, Books
<1>12. NothingLeftPending'
  <2>1. pc' = "idle" => Pending(demand)' = locked[d] - locked[d]
    BY <1>1, <1>9, <1>10 DEF Pending
  <2>2. locked[d] - locked[d] = 0
    BY <1>9
  <2> QED BY <2>1, <2>2 DEF NothingLeftPending
<1> QED BY <1>1, <1>3, <1>8, <1>11, <1>12 DEF Clean, Looping, Trying

LEMMA CleanCommit ==
  ASSUME DemandInv, Clean, Autocommit, CommitJournal, UNCHANGED <<model, todo, demand>>,
         pc' \in {"idle", "ask", "loopEnd"}, pc' = "idle" \/ Under, DemandInv'
  PROVE  Clean'
<1>1. committed' = Final(journal) /\ journal' = <<Final(journal)>> /\ locked' = locked
  BY SameSolver DEF CommitJournal
<1>2. /\ Len(journal) \in 1..Len(journal) /\ Final(journal) \in [Demand -> Delivered]
      /\ Delivered \in SUBSET Int /\ demand \in Demand
  BY LevelType, RestType DEF DemandInv
<1>3. Len(journal') = 1 /\ journal'[1] = Final(journal) /\ \A i \in 1..1 : i = 1
  BY <1>1
<1>4. \A d \in Demand : todo[d] > 0 => Final(journal)[d] = locked[d]
  BY <1>2 DEF Clean, ToPlanIsLocked, Final
<1>5. ToPlanIsLocked'
  BY <1>1, <1>3, <1>4 DEF ToPlanIsLocked
<1>6. Planned(demand)' = committed'[demand'] /\ committed'[demand'] \in Int
  BY <1>1, <1>2, <1>3 DEF Planned, Final
<1>7. pc' \in {"ask", "loopEnd"} => committed'[demand'] = Base'
  BY <1>6 DEF DemandInv, Books
<1>8. NothingLeftPending'
  <2>1. committed'[demand'] - committed'[demand'] = 0
    BY <1>6
  <2> QED BY <1>6, <2>1 DEF NothingLeftPending, Pending
<1>9. Under' => todo'[demand'] = 0
  BY DEF Clean, Under
<1> QED BY <1>5, <1>7, <1>8, <1>9 DEF Clean, Looping, Trying

LEMMA CleanReturn ==
  ASSUME DemandInv, Clean, Autocommit, Return, DemandInv'
  PROVE  Clean'
<1>1. pc' = "idle" /\ UNCHANGED <<model, todo, demand>>
  BY DEF Return
<1>2. CASE CommitJournal
  BY <1>1, <1>2, CleanCommit
<1>3. CASE pc = "loopEnd" /\ KeepJournal
  <2>1. UNCHANGED <<committed, journal, locked>>
    BY <1>1, <1>3, SameSolver DEF KeepJournal
  <2>2. Planned(demand) = Base /\ committed[demand] = Base /\ Base \in Int
    BY <1>3, DemandType DEF Clean, DemandInv, Books
  <2>3. Pending(demand) = 0
    <3>1. Base - Base = 0
      BY <2>2
    <3> QED BY <2>2, <3>1 DEF Pending
  <2>4. Pending(demand)' = Pending(demand)
    BY <1>1, <2>1 DEF Pending, Planned
  <2>5. ToPlanIsLocked'
    BY <1>1, <2>1 DEF Clean, ToPlanIsLocked
  <2> QED BY <1>1, <2>3, <2>4, <2>5 DEF Clean, Under, Looping, Trying, NothingLeftPending
<1> QED BY <1>2, <1>3 DEF Return

(* The handler leaves the demands alone that are still to be planned. *)
LEMMA CleanRecover ==
  ASSUME DemandInv, Clean, Autocommit, Recover
  PROVE  Clean'
<1>1. pc' = "idle" /\ outcome' = "failed" /\ UNCHANGED <<model, todo, demand>> /\ locked' = locked
  BY SameSolver DEF Recover
<1>2. ToPlanIsLocked /\ TypeOK
  BY DEF Clean, DemandInv
<1>3. ToPlanIsLocked'
  <2>1. CASE top = Gone
    BY <1>1, <1>2, <2>1 DEF Recover, ToPlanIsLocked
  <2>2. CASE top # Gone
    <3>1. /\ top \in 2..Len(journal) /\ Len(journal) \in Nat /\ top \in 1..Len(journal)
          /\ RollbackTo(top)
      <4>1. top \in 2..Len(journal) /\ Len(journal) \in Nat
        BY <1>2, <2>2, LevelType, RestType
      <4> QED BY <2>2, <4>1 DEF Recover
    <3>2. /\ Len(journal') = top
          /\ \A i \in 1..top : journal'[i] = Without(Replanned(top), Truncate(top)[i])
          /\ committed' = Without(Replanned(top), committed)
      BY <1>2, <3>1, RolledBack
    <3>3. \A i \in 1..top : \E k \in 1..Len(journal) : Truncate(top)[i] = journal[k]
      <4> TAKE i \in 1..top
      <4>1. /\ \A k \in 1..(top - 1) : Truncate(top)[k] = journal[k]
            /\ Truncate(top)[top] = Until(top)
        BY <1>2, <3>1, TruncatedType
      <4>2. Until(top) = journal[top - 1] /\ top - 1 \in 1..Len(journal)
        BY <3>1 DEF Until
      <4>3. i = top \/ (i \in 1..(top - 1) /\ i \in 1..Len(journal))
        BY <3>1
      <4> QED BY <4>1, <4>2, <4>3
    <3>4. ASSUME NEW f, NEW d \in Demand, f[d] = locked[d]
          PROVE  Without(Replanned(top), f)[d] = locked[d]
      BY <3>4 DEF Without
    <3>5. \A d \in Demand : todo[d] > 0 =>
            committed'[d] = locked[d] /\ \A i \in 1..top : journal'[i][d] = locked[d]
      BY <1>2, <3>2, <3>3, <3>4 DEF ToPlanIsLocked
    <3> QED BY <1>1, <3>2, <3>5 DEF ToPlanIsLocked
  <2> QED BY <2>1, <2>2
<1> QED BY <1>1, <1>3 DEF Clean, Under, Looping, Trying, NothingLeftPending

(* What solve(Demand) does between its calls and its acceptance of an      *)
(* answer: the quantity that is still to be planned stays.                 *)
LEMMA PlanKept ==
  ASSUME DemandInv,
         \/ AskAll \/ AskMinimum \/ AskBetween \/ AskRestore \/ SearchEnds \/ TakeAnswer
         \/ Reconsider \/ Refuse \/ Coordinate \/ AskPart \/ AskBest
         \/ AskAllThrows \/ AskAgainThrows \/ AskPartThrows \/ AskBestThrows
  PROVE  /\ Attempt /\ Under /\ plan'.qty = plan.qty
         /\ pc' \in Looping \cup {"loopEnd"} => pc \in Looping \cup {"loopEnd"}
<1>1. CASE AskAll \/ AskMinimum \/ AskBetween \/ AskRestore
  <2>1. Attempt /\ pc \in Trying \cup {"ask"} /\ plan' = plan
    BY <1>1, AskAllAttempt, RetriedAttempt DEF AskAll, AskMinimum, AskBetween, AskRestore
  <2> QED BY <2>1 DEF Under, Trying, Looping
<1>2. CASE SearchEnds \/ TakeAnswer \/ Reconsider
  <2>1. /\ Attempt /\ plan' = plan
        /\ \/ pc \in Trying
           \/ pc = "loopEnd"
    BY <1>2, KeptAttempt DEF SearchEnds, TakeAnswer, Reconsider, local, Trying
  <2> QED BY <2>1 DEF Under, Trying, Looping
<1>3. CASE Refuse \/ Coordinate
  <2>1. Attempt /\ pc \in Trying
    BY <1>3, UndoneAttempt
  <2>2. plan \in [qty : Int, date : Date]
    BY DEF DemandInv, TypeOK
  <2>3. plan'.qty = plan.qty
    BY <1>3, <2>2 DEF Refuse, Coordinate
  <2> QED BY <2>1, <2>3 DEF Under, Trying, Looping
<1>4. CASE AskPart
  <2>1. Attempt /\ pc = "coordinate" /\ plan' = plan
    BY <1>4, AddedAttempt DEF AskPart
  <2> QED BY <2>1 DEF Under, Trying, Looping
<1>5. CASE AskBest
  <2>1. Attempt /\ pc = "best" /\ pc' \in {"best", "bestEnd"} /\ plan' = plan
    BY <1>5, AddedAttempt DEF AskBest
  <2> QED BY <2>1 DEF Under, Trying, Looping
<1>6. CASE AskAllThrows \/ AskAgainThrows \/ AskPartThrows \/ AskBestThrows
  <2>1. Attempt /\ pc' = "failed"
    BY <1>6, ThrownAttempt
  <2>2. Under /\ plan' = plan
    BY <1>6, AskAgainThrowsStep DEF Under, AskAllThrows, AskAgainThrows, AskPartThrows,
       AskBestThrows, Trying, Throw, local
  <2> QED BY <2>1, <2>2 DEF Looping, Trying
<1> QED BY <1>1, <1>2, <1>3, <1>4, <1>5, <1>6

LEMMA SameMode == [Next]_vars => Autocommit' = Autocommit
BY DEF Next, vars, model, Autocommit, Solve, AskAll, AskAllThrows, AskMinimum, AskBetween,
   SearchEnds, AskRestore, AskAgainThrows, Refuse, Coordinate, AskPart, AskPartThrows,
   TakeAnswer, Accept, Reconsider, AskBest, AskBestThrows, Return, Recover, CommitAll,
   RollbackAll, Throw

LEMMA CleanStep == DemandInv /\ Clean /\ [Next]_vars => Clean'
<1> SUFFICES ASSUME DemandInv, Clean, Autocommit, [Next]_vars PROVE Clean'
  BY SameMode DEF Clean
<1>0. DemandInv'
  BY DemandStep
<1>1. CASE \E d \in Demand : Solve(d)
  BY <1>1, CleanSolve
<1>2. CASE \/ AskAll \/ AskMinimum \/ AskBetween \/ AskRestore \/ SearchEnds \/ TakeAnswer
           \/ Reconsider \/ Refuse \/ Coordinate \/ AskPart \/ AskBest
           \/ AskAllThrows \/ AskAgainThrows \/ AskPartThrows \/ AskBestThrows
  BY <1>2, PlanKept, CleanAttempt
<1>3. CASE Accept
  <2>1. /\ CommitJournal /\ UNCHANGED <<model, todo, demand>> /\ pc' \in {"ask", "loopEnd"}
        /\ Under
    BY <1>3 DEF Accept, Under
  <2> QED BY <1>0, <2>1, CleanCommit
<1>4. CASE Return
  BY <1>0, <1>4, CleanReturn
<1>5. CASE Recover
  BY <1>5, CleanRecover
<1>6. CASE CommitAll
  BY <1>0, <1>6, CleanCommit DEF CommitAll
<1>7. CASE RollbackAll
  <2>1. /\ pc' = "idle" /\ outcome' = "none" /\ todo' = todo
        /\ \A d \in Demand : todo[d] = 0
    BY <1>7 DEF RollbackAll, Finished
  <2>2. ToPlanIsLocked'
    BY <2>1 DEF ToPlanIsLocked
  <2> QED BY <2>1, <2>2 DEF Clean, Under, Looping, Trying, NothingLeftPending
<1>8. CASE UNCHANGED vars
  <2>1. UNCHANGED <<model, committed, journal, pc, demand, plan, todo, outcome, locked>>
    BY <1>8 DEF vars, local, model
  <2>2. Base' = Base
    BY <2>1, SameDemand DEF Base
  <2> QED BY <2>1, <2>2 DEF Clean, ToPlanIsLocked, Under, Autocommit, NothingLeftPending, Pending,
          Planned
<1> QED BY <1>1, <1>2, <1>3, <1>4, <1>5, <1>6, <1>7, <1>8 DEF Next

(* In autocommit mode, when the planning of a demand returns normally,     *)
(* nothing of it is left in the journal that somebody else could commit or *)
(* roll back, for any number of demands of which any may fail.             *)
THEOREM DemandLeavesNothingPending == Spec => []NothingLeftPending
<1>1. Init => Clean
  BY CleanInit
<1>2. Clean => NothingLeftPending
  BY DEF Clean, NothingLeftPending
<1>3. DemandInv /\ Clean /\ [Next]_vars => Clean'
  BY CleanStep
<1>4. Init => DemandInv
  BY InitDemand
<1>5. DemandInv /\ [Next]_vars => DemandInv'
  BY DemandStep
<1> QED BY <1>1, <1>2, <1>3, <1>4, <1>5, PTL DEF Spec

-----------------------------------------------------------------------------
(* As long as nothing of the demand is committed, the outer bookmark is    *)
(* there and knows what was pending before.                                *)
Since ==
  Uncommitted /\ pc # "idle" =>
    /\ top \in 2..Len(journal)
    /\ pc \in Trying => top < mark
    /\ \A d \in Demand : before[d] = Until(top)[d] - committed[d]
    /\ \A d \in Demand \ {demand}, i \in top..Len(journal) : journal[i][d] = Until(top)[d]

LEMMA SinceAttempt ==
  ASSUME DemandInv, Since, Uncommitted, Under, Attempt
  PROVE  Since'
<1>1. /\ top \in 2..Len(journal)
      /\ pc \in Trying => top < mark
      /\ \A d \in Demand : before[d] = Until(top)[d] - committed[d]
      /\ \A d \in Demand \ {demand}, i \in top..Len(journal) : journal[i][d] = Until(top)[d]
      /\ TypeOK /\ Len(journal) \in Nat /\ mark \in Nat
  BY LevelType, RestType DEF Since, Under, DemandInv
<1>2. PICK n \in 1..Len(journal) :
        /\ Follows(n)
        /\ n = Len(journal) \/ (pc \in Trying /\ n = mark - 1)
        /\ top # Gone /\ top <= n => top' = top
  BY DEF Attempt
<1>3. /\ UNCHANGED <<model, demand, committed, before>>
      /\ pc' \in Trying => (pc \in Trying /\ mark' = mark) \/ mark' = Len(journal) + 1
  BY DEF Attempt
<1>4. top <= n /\ top # Gone
  BY <1>1, <1>2 DEF Gone
<1>5. /\ top' = top /\ n <= Len(journal') /\ Len(journal') \in Nat
      /\ \A i \in 1..(n - 1) : journal'[i] = journal[i]
      /\ \A i \in n..Len(journal'), d \in Demand \ {demand} : journal'[i][d] = journal[n][d]
  BY <1>2, <1>4 DEF Follows
<1>6. top' \in 2..Len(journal') /\ (pc' \in Trying => top' < mark')
  BY <1>1, <1>2, <1>3, <1>4, <1>5
<1>7. Until(top)' = Until(top)
  <2>1. top - 1 \in 1..(n - 1) /\ top # 1
    BY <1>1, <1>2, <1>4
  <2> QED BY <1>5, <2>1 DEF Until
<1>8. ASSUME NEW d \in Demand \ {demand}, NEW i \in top..Len(journal')
      PROVE  journal'[i][d] = Until(top)[d]
  <2>1. CASE i < n
    <3>1. i \in 1..(n - 1) /\ i \in top..Len(journal)
      BY <1>1, <1>2, <1>5, <1>8, <2>1
    <3> QED BY <1>1, <1>5, <3>1
  <2>2. CASE ~(i < n)
    <3>1. i \in n..Len(journal') /\ n \in top..Len(journal)
      BY <1>1, <1>2, <1>4, <1>5, <1>8, <2>2
    <3> QED BY <1>1, <1>5, <3>1
  <2> QED BY <2>1, <2>2
<1> QED BY <1>1, <1>3, <1>5, <1>6, <1>7, <1>8 DEF Since

LEMMA SinceSolve ==
  ASSUME DemandInv, NEW d \in Demand, Solve(d)
  PROVE  Since'
<1> DEFINE n == Len(journal)
<1>1. /\ pc = "idle" /\ demand' = d /\ top' = n + 1
      /\ before' = [x \in Demand |-> Pending(x)] /\ committed' = committed
      /\ pc' \in {"idle", "ask", "failed"}
  BY DEF Solve
<1>2. n \in Nat \ {0} /\ journal \in Seq(Level) /\ TypeOK
  BY LevelType, RestType DEF DemandInv
<1>3. PICK e \in Level :
        /\ journal' = Append(journal, e)
        /\ \A x \in Demand \ {d} : e[x] = Final(journal)[x]
  BY <1>2, SolveIs
<1>4. /\ Len(journal') = n + 1 /\ journal'[n + 1] = e
      /\ \A i \in 1..n : journal'[i] = journal[i]
  BY <1>2, <1>3, AppendIs
<1>5. top' = n + 1 /\ top' \in 2..Len(journal') /\ top' - 1 = n /\ top' # 1 /\ n \in 1..n
      /\ \A i \in top'..Len(journal') : i = n + 1
  BY <1>1, <1>2, <1>4
<1>6. Until(top)' = Final(journal)
  BY <1>4, <1>5 DEF Until, Final
<1>7. \A x \in Demand : before'[x] = Until(top)'[x] - committed'[x]
  BY <1>1, <1>6 DEF Pending, Planned
<1>8. \A x \in Demand \ {demand'}, i \in top'..Len(journal') : journal'[i][x] = Until(top)'[x]
  BY <1>1, <1>3, <1>4, <1>5, <1>6
<1> QED BY <1>1, <1>5, <1>7, <1>8 DEF Since, Trying

(* An answer that is accepted is one.                                      *)
Offered == pc = "accept" => a_qty # 0

LEMMA OfferedStep == Offered /\ [Next]_vars => Offered'
<1> SUFFICES ASSUME Offered, [Next]_vars, pc' = "accept" PROVE a_qty' # 0
  BY DEF Offered
<1>1. TakeAnswer \/ AskPart \/ UNCHANGED vars
  BY DEF Next, Solve, AskAll, AskAllThrows, AskMinimum, AskBetween, SearchEnds, AskRestore,
     AskAgainThrows, Refuse, Coordinate, AskPartThrows, Accept, Reconsider, AskBest,
     AskBestThrows, Return, Recover, CommitAll, RollbackAll, Throw
<1>2. CASE TakeAnswer
  BY <1>2 DEF TakeAnswer, Refused, local
<1>3. CASE AskPart
  BY <1>3 DEF AskPart
<1>4. CASE UNCHANGED vars
  BY <1>4 DEF vars, local, Offered
<1> QED BY <1>1, <1>2, <1>3, <1>4

LEMMA SinceStep == DemandInv /\ Offered /\ Since /\ [Next]_vars => Since'
<1> SUFFICES ASSUME DemandInv, Offered, Since, [Next]_vars PROVE Since'
  OBVIOUS
<1>0. Autocommit' = Autocommit
  BY SameMode
<1>1. CASE \E d \in Demand : Solve(d)
  BY <1>1, SinceSolve
<1>2. CASE \/ AskAll \/ AskMinimum \/ AskBetween \/ AskRestore \/ SearchEnds \/ TakeAnswer
           \/ Reconsider \/ Refuse \/ Coordinate \/ AskPart \/ AskBest
           \/ AskAllThrows \/ AskAgainThrows \/ AskPartThrows \/ AskBestThrows
  <2>1. Attempt /\ Under /\ plan'.qty = plan.qty
    BY <1>2, PlanKept
  <2>2. UNCHANGED <<model, demand>>
    BY <2>1 DEF Attempt
  <2>3. Uncommitted' = Uncommitted
    BY <1>0, <2>1, <2>2, SameDemand DEF Uncommitted
  <2>4. CASE Uncommitted
    BY <2>1, <2>4, SinceAttempt
  <2>5. CASE ~Uncommitted
    BY <2>3, <2>5 DEF Since
  <2> QED BY <2>4, <2>5
<1>3. CASE Accept /\ ~Autocommit
  <2>1. Attempt /\ Under /\ Uncommitted
    BY <1>3, KeptAttempt DEF Accept, Under, Uncommitted
  <2> QED BY <2>1, SinceAttempt
<1>4. CASE Accept /\ Autocommit
  <2>1. /\ pc = "accept" /\ pc \in Looping /\ UNCHANGED <<model, demand>>
        /\ plan' = [plan EXCEPT !.qty = @ - a_qty]
    BY <1>4 DEF Accept, Looping
  <2>2. /\ plan.qty <= Requested /\ plan.qty \in Int /\ Requested \in Int /\ a_qty \in Int
        /\ 0 <= a_qty /\ a_qty # 0 /\ plan \in [qty : Int, date : Date]
    BY <2>1, InLoop, DemandType, RestType DEF Amounts, Offered
  <2>3. plan'.qty = plan.qty - a_qty
    BY <2>1, <2>2
  <2>4. plan'.qty # Requested
    BY <2>2, <2>3
  <2> QED BY <1>0, <1>4, <2>1, <2>4, SameDemand DEF Since, Uncommitted
<1>5. CASE Return \/ Recover \/ CommitAll \/ RollbackAll
  BY <1>5 DEF Since, Return, Recover, CommitAll, RollbackAll
<1>6. CASE UNCHANGED vars
  <2>1. UNCHANGED <<model, demand, plan, journal, committed, top, mark, pc, before>>
    BY <1>6 DEF vars, local
  <2>2. Uncommitted' = Uncommitted
    BY <1>0, <2>1, SameDemand DEF Uncommitted
  <2> QED BY <2>1, <2>2 DEF Since, Until, Trying
<1> QED BY <1>1, <1>2, <1>3, <1>4, <1>5, <1>6 DEF Next

LEMMA RecoverIsUndone ==
  ASSUME DemandInv, Since, Uncommitted, Recover
  PROVE  LeavesNothing
<1>1. /\ top \in 2..Len(journal)
      /\ \A d \in Demand : before[d] = Until(top)[d] - committed[d]
      /\ \A d \in Demand \ {demand}, i \in top..Len(journal) : journal[i][d] = Until(top)[d]
      /\ TypeOK /\ Len(journal) \in Nat /\ demand' = demand /\ demand \in Demand
  BY LevelType, RestType DEF Since, Recover, DemandInv
<1>2. top \in 1..Len(journal) /\ top # Gone /\ top \in Nat /\ top \in 1..top
  BY <1>1 DEF Gone
<1>3. RollbackTo(top)
  BY <1>2 DEF Recover
<1> DEFINE lost == Replanned(top)
<1>4. /\ Len(journal') = top /\ journal'[top] = Without(lost, Until(top))
      /\ committed' = Without(lost, committed)
      /\ Until(top) \in [Demand -> Delivered] /\ committed \in [Demand -> Delivered]
      /\ Delivered \in SUBSET Int
  <2>1. /\ Len(journal') = top /\ committed' = Without(lost, committed)
        /\ \A i \in 1..top : journal'[i] = Without(lost, Truncate(top)[i])
    BY <1>1, <1>2, <1>3, RolledBack
  <2>2. Truncate(top)[top] = Until(top)
    BY <1>1, <1>2, TruncatedType
  <2>3. /\ Until(top) \in [Demand -> Delivered] /\ committed \in [Demand -> Delivered]
        /\ Delivered \in SUBSET Int
    BY <1>1, <1>2, RestType, LevelType
  <2> QED BY <1>2, <2>1, <2>2, <2>3
<1>5. ASSUME NEW d \in Demand \ {demand} PROVE d \notin lost
  <2> SUFFICES ASSUME NEW i \in top..Len(journal), journal[i][d] < Until(i)[d]
               PROVE  FALSE
    BY DEF Replanned
  <2>1. Until(i)[d] = Until(top)[d]
    <3>1. CASE i = top
      BY <3>1
    <3>2. CASE i # top
      <4>1. i - 1 \in top..Len(journal) /\ i # 1
        BY <1>1, <3>2
      <4> QED BY <1>1, <1>5, <4>1 DEF Until
    <3> QED BY <3>1, <3>2
  <2>2. journal[i][d] = Until(top)[d] /\ Until(top)[d] \in Int
    BY <1>1, <1>4, <1>5
  <2> QED BY <2>1, <2>2
<1>6. \A d \in Demand : Pending(d)' = journal'[top][d] - committed'[d]
  BY <1>4 DEF Pending, Planned, Final
<1> HIDE DEF lost
<1>7. \A d \in Demand \ lost : Pending(d)' = before[d]
  BY <1>1, <1>4, <1>6 DEF Without
<1>8. CASE demand \in lost
  <2>1. Pending(demand)' = locked[demand] - locked[demand]
    BY <1>1, <1>4, <1>6, <1>8 DEF Without
  <2>2. locked[demand] \in Int /\ before[demand] \in Int
    BY <1>1, DemandType DEF TypeOK
  <2>3. Pending(demand)' = 0
    BY <2>1, <2>2
  <2>4. 0 <= Larger(before[demand], 0)
    BY <2>2 DEF Larger
  <2> QED BY <1>5, <1>7, <2>3, <2>4 DEF LeavesNothing
<1>9. CASE demand \notin lost
  <2>1. before[demand] \in Int /\ Pending(demand)' = before[demand]
    BY <1>1, <1>7, <1>9 DEF TypeOK
  <2>2. before[demand] <= Larger(before[demand], 0)
    BY <2>1 DEF Larger
  <2> QED BY <1>5, <1>7, <2>1, <2>2 DEF LeavesNothing
<1> QED BY <1>8, <1>9

(* As long as nothing of a demand is committed, an exception leaves        *)
(* nothing of it pending that was not pending before, and the other        *)
(* demands have what they had.                                             *)
THEOREM DemandFailureIsUndone == Spec => UncommittedIsUndone
<1>1. Init => Offered /\ Since /\ DemandInv
  BY InitDemand DEF Init, Since, Offered
<1>2. DemandInv /\ Offered /\ Since /\ [Next]_vars => DemandInv' /\ Offered' /\ Since'
  BY OfferedStep, SinceStep, DemandStep
<1>3. DemandInv /\ Since /\ [Next]_vars =>
        [Uncommitted /\ pc = "failed" /\ pc' = "idle" => LeavesNothing]_vars
  <2> SUFFICES ASSUME DemandInv, Since, Next, Uncommitted, pc = "failed", pc' = "idle"
               PROVE  LeavesNothing
    OBVIOUS
  <2>1. Recover
    BY DEF Next, Solve, AskAll, AskAllThrows, AskMinimum, AskBetween, SearchEnds, AskRestore,
           AskAgainThrows, Refuse, Coordinate, AskPart, AskPartThrows, TakeAnswer, Accept,
           Reconsider, AskBest, AskBestThrows, Return, CommitAll, RollbackAll, Throw
  <2> QED BY <2>1, RecoverIsUndone
<1> QED BY <1>1, <1>2, <1>3, PTL DEF Spec, UncommittedIsUndone
================================================================================
